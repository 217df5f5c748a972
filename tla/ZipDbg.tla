------------------------------- MODULE ZipDbg -------------------------------
(* The two programs of the host that look into the CPU, zipdbg.cpp and         *)
(* zipstate.cpp, and the CPU they look at.  Every access of theirs goes over   *)
(* the serial port: clocks pass between one and the next.                      *)
(*                                                                             *)
(* screen is what zipdbg shows of its m_state: a value for each supervisor and *)
(* user register and for the peripherals behind them, which are read and       *)
(* edited at addresses of their own; nothing while the CPU is stalled.  Of the *)
(* peripherals the last are timers, of which there is a set of the user's as   *)
(* well: the screen has room for one of the two sets at a time.                *)
(* Left out: the instructions and the stack, which zipdbg reads over the bus   *)
(* and not from the CPU.                                                       *)
EXTENDS ZipBones

CONSTANTS Peripherals,  \* how many peripherals are shown
          Timers,       \* how many of them are the master's timers or the user's
          RowLength,    \* cells in a row of the screen
          Values,       \* what a user types into a cell
          Editable,     \* the cells a user edits
          MaxErr,       \* MAXERR
          MaxLook,      \* looks at the CPU at the start
          MinGap,       \* clocks between two accesses, at least
          MaxKeys,      \* keys pressed in a session
          MaxSessions   \* programs run one after the other

NRegs == 4
LastPeripheral == NRegs + Peripherals + Timers - 1
Cells == 0 .. LastPeripheral
Tools == {"zipdbg", "zipstate", "zipstate -l"}

\* An access is several characters on the serial line, each of many clocks.
ASSUME DebugAssumption ==
    /\ Peripherals \in Nat /\ Timers \in 0 .. Peripherals /\ RowLength \in Nat \ {0}
    /\ Values \subseteq Addresses /\ Editable \subseteq Cells
    /\ MaxErr \in Nat /\ MaxLook \in Nat \ {0}
    /\ MinGap \in Nat /\ MinGap >= 3
    /\ MaxKeys \in Nat /\ MaxSessions \in Nat

VARIABLES tool, dpc, key, m_cursor, m_show_users_timers, screen, cell, errcount,
          edit, writing,   \* the last value typed, and whether it is to be written
          keys, sessions, gap,
          ran, idle   \* history: instructions begun since the last step or go,
                      \* and steps of a halted CPU since one began
dbgVars == <<tool, dpc, key, m_cursor, m_show_users_timers, screen, cell, errcount,
             edit, writing, keys, sessions, gap, ran, idle>>
vars == <<cpuVars, dbgVars>>

\* What stall_screen and a reset leave on the screen.
Blank == [c \in Cells |-> NoPc]
NoEdit == [cell |-> -1, val |-> 0]

Init ==
    /\ CpuInit
    /\ tool = "zipdbg" /\ dpc = "done" /\ key = "none"
    /\ m_cursor = 0 /\ m_show_users_timers = FALSE /\ screen = Blank
    /\ cell = 0 /\ edit = NoEdit /\ writing = FALSE /\ errcount = 0
    /\ keys = 0 /\ sessions = 0 /\ gap = MinGap /\ ran = 0 /\ idle = 0

---------------------------------------------------------------------------
\* The accesses, by where the program is.
Wanted == IF writing THEN edit.cell ELSE cell
Request ==
    CASE dpc = "halt" -> Ctrl({"halt"}, 0)
      [] dpc \in {"look", "check", "poll", "status", "short"} -> Status
      [] dpc = "select" -> Ctrl({"halt"}, Wanted)
      [] dpc = "data" -> IF writing THEN PutData(edit.val) ELSE GetData
      [] dpc = "command" /\ key = "s" -> Ctrl({"step"}, 0)
      [] dpc = "command" /\ key = "r" -> Ctrl({"reset", "halt"}, 0)
      [] dpc = "command" /\ key = "g" -> Ctrl({}, 0)
      [] OTHER -> NoAccess

\* zipdbg: the CPU is halted and looked at, at most MaxLook times, and once more.
Halt == dpc = "halt" /\ dpc' = "look" /\ UNCHANGED <<screen, cell, writing, errcount>>
Look ==
    /\ dpc = "look"
    /\ IF r_halted \/ errcount = MaxLook - 1
       THEN dpc' = "check" /\ errcount' = 0
       ELSE errcount' = errcount + 1 /\ UNCHANGED dpc
    /\ UNCHANGED <<screen, cell, writing>>
\* stall_screen or read_state.
Check ==
    /\ dpc = "check"
    /\ dpc' = IF r_halted THEN "select" ELSE "key"
    /\ screen' = IF r_halted THEN screen ELSE Blank
    /\ cell' = 0
    /\ UNCHANGED <<writing, errcount>>

\* cmd_read and cmd_write: name the register, wait for the CPU, read or write.
Select == dpc = "select" /\ dpc' = "poll" /\ errcount' = 0
          /\ UNCHANGED <<screen, cell, writing>>
PollOnce == dpc = "poll" /\ dpc' = "data" /\ UNCHANGED <<screen, cell, writing, errcount>>
PollForever ==
    /\ dpc = "poll"
    /\ dpc' = IF r_halted THEN "data" ELSE "poll"
    /\ UNCHANGED <<screen, cell, writing, errcount>>
Poll ==
    /\ dpc = "poll"
    /\ IF r_halted THEN dpc' = (IF errcount >= MaxErr THEN "failed" ELSE "data")
                        /\ UNCHANGED errcount
       ELSE IF errcount < MaxErr THEN errcount' = errcount + 1 /\ UNCHANGED dpc
       ELSE dpc' = "failed" /\ UNCHANGED errcount
    /\ UNCHANGED <<screen, cell, writing>>
LastCell == IF tool = "zipdbg" THEN LastPeripheral ELSE NRegs - 1
ReadData ==
    /\ dpc = "data" /\ ~writing
    /\ screen' = [screen EXCEPT ![cell] = regset[cmd_addr]]
    /\ IF cell < LastCell THEN cell' = cell + 1 /\ dpc' = "select"
       ELSE cell' = 0 /\ dpc' = IF tool = "zipdbg" THEN "status" ELSE "done"
    /\ UNCHANGED <<writing, errcount>>
WriteData ==
    /\ dpc = "data" /\ writing
    /\ dpc' = "check" /\ writing' = FALSE
    /\ UNCHANGED <<screen, cell, errcount>>
\* read_state ends, and a short look of zipstate, with the control register.
ReadStatus ==
    /\ dpc \in {"status", "short"}
    /\ dpc' = IF dpc = "status" THEN "key" ELSE "done"
    /\ UNCHANGED <<screen, cell, writing, errcount>>
Command ==
    /\ dpc = "command"
    /\ dpc' = IF key = "g" THEN "done" ELSE "check"
    /\ UNCHANGED <<screen, cell, writing, errcount>>

Orders(req, bit) == CtrlWrite(req) /\ bit \in req.bits
History(req) ==
    LET steps == Orders(req, "step")
        goes == CtrlWrite(req) /\ req.bits = {}
    IN  /\ ran' = IF steps \/ goes THEN 0 ELSE IF Issue /\ ran < 2 THEN ran + 1 ELSE ran
        /\ idle' = IF Issue \/ goes \/ cmd_reset \/ dbgv # NoWrite THEN 0
                   ELSE IF steps /\ r_halted /\ idle < 3 THEN idle + 1
                   ELSE idle

\* The clock in which the debug port takes the access of the program, and a
\* clock without one.
MayAccess == gap = 0 /\ Request # NoAccess /\ ~Stalls(Request)
Access ==
    /\ MayAccess
    /\ Halt \/ Look \/ Check \/ Select \/ Poll \/ ReadData \/ WriteData
       \/ ReadStatus \/ Command
    /\ \E fetched, loaded \in BOOLEAN : Clock(Request, fetched, loaded)
    /\ gap' = MinGap
    /\ History(Request)
    /\ UNCHANGED <<tool, key, m_cursor, m_show_users_timers, edit, keys, sessions>>
Tick(fetched, loaded) ==
    /\ Clock(NoAccess, fetched, loaded)
    /\ gap' = IF gap > 0 THEN gap - 1 ELSE 0
    /\ History(NoAccess)
    /\ UNCHANGED <<tool, dpc, key, m_cursor, m_show_users_timers, screen, cell, edit,
                   writing, errcount, keys, sessions>>

---------------------------------------------------------------------------
\* A key, of zipdbg's main loop.
Press(k, next) == dpc = "key" /\ keys < MaxKeys /\ keys' = keys + 1 /\ key' = k /\ dpc' = next
OnlyPressed == UNCHANGED <<cpuVars, tool, screen, cell, errcount, sessions, gap, ran, idle>>
NotTyped == edit' = NoEdit /\ UNCHANGED writing
ViewKept == UNCHANGED <<m_cursor, m_show_users_timers>>
Go == Press("g", "command") /\ OnlyPressed /\ NotTyped /\ ViewKept
Reset == Press("r", "command") /\ OnlyPressed /\ NotTyped /\ ViewKept
Step == Press("s", "command") /\ OnlyPressed /\ NotTyped /\ ViewKept
Quit == Press("q", "done") /\ OnlyPressed /\ NotTyped /\ ViewKept
\* A key that asks nothing of the CPU, and a value given up with ESC or without
\* a digit: the screen is drawn again.
OtherKey == Press("other", "check") /\ OnlyPressed /\ NotTyped /\ ViewKept

LastCursor == NRegs + Peripherals - 1
MoveCursor ==
    /\ Press("other", "check") /\ OnlyPressed /\ NotTyped /\ UNCHANGED m_show_users_timers
    /\ m_cursor' \in
          {IF m_cursor > RowLength - 1 THEN m_cursor - RowLength ELSE m_cursor,
           IF m_cursor <= LastCursor - RowLength THEN m_cursor + RowLength ELSE m_cursor,
           IF m_cursor > 0 THEN m_cursor - 1 ELSE LastCursor,
           IF m_cursor < LastCursor THEN m_cursor + 1 ELSE 0}
\* Keys u and m (and l, which falls through to m).
ShowTimers(users) ==
    /\ Press("other", "check") /\ OnlyPressed /\ NotTyped /\ UNCHANGED m_cursor
    /\ m_show_users_timers' = users
\* get_value: the peripherals come first on the screen and last in cmd_addr.
CellAtCursor == IF m_cursor >= Peripherals THEN m_cursor - Peripherals ELSE m_cursor + NRegs
\* read_state: what is on the screen there, which in the user's view is a timer
\* of the user's, Timers registers behind the master's.
UsersTimerAtCursor ==
    m_show_users_timers /\ m_cursor \in Peripherals - Timers .. Peripherals - 1
ShownAtCursor == IF UsersTimerAtCursor THEN m_cursor + Timers + NRegs ELSE CellAtCursor
EditValue ==
    /\ CellAtCursor \in Editable
    /\ Press("edit", "select") /\ OnlyPressed /\ ViewKept
    /\ writing' = TRUE
    /\ \E v \in Values : edit' = [cell |-> CellAtCursor, val |-> v]

\* Another program is started when the last has ended.
Start(t) ==
    /\ dpc \in {"done", "failed"} /\ sessions < MaxSessions
    /\ sessions' = sessions + 1 /\ keys' = 0 /\ key' = "none" /\ tool' = t
    /\ dpc' = CASE t = "zipdbg" -> "halt" [] t = "zipstate" -> "short" [] OTHER -> "select"
    /\ m_cursor' = 0 /\ m_show_users_timers' = FALSE /\ cell' = 0
    /\ edit' = NoEdit /\ writing' = FALSE /\ errcount' = 0
    /\ UNCHANGED <<cpuVars, screen, gap, ran, idle>>

Next ==
    \/ Access
    \/ \E fetched, loaded \in BOOLEAN : Tick(fetched, loaded)
    \/ Go \/ Reset \/ Step \/ Quit \/ OtherKey \/ MoveCursor \/ EditValue
    \/ \E users \in BOOLEAN : ShowTimers(users)
    \/ \E t \in Tools : Start(t)

Spec == Init /\ [][Next]_vars

\* The clocks between two accesses pass, and a program makes the access that it
\* may make; the bus of the CPU need not answer, nor the user press a key.
FairSpec == Spec /\ []<>(gap = 0) /\ []<>~MayAccess

---------------------------------------------------------------------------
\* zipdbg shows the CPU as it is: at its prompt every register on the screen
\* holds the value shown, whatever was in flight when the CPU was halted,
\* stepped or edited.  After an edit the cell at the cursor shows the value
\* typed, unless it is one of the user's timers: get_value does not look at
\* m_show_users_timers, and the value is in the master's timer of the same
\* place, which is not on the screen then.
\* (zipdbg.cpp read_raw_state, read_state, get_value; zipcpu.v r_halted, dbgv)
ShowsTheCpu ==
    dpc = "key" =>
        /\ \A r \in Registers : screen[r] \in {regset[r], NoPc}
        /\ key = "edit" => IF UsersTimerAtCursor
                           THEN screen[ShownAtCursor - Timers] \in {edit.val, NoPc}
                           ELSE screen[ShownAtCursor] \in {edit.val, NoPc}

\* No access to the data register ever stalls the bus: the programs wait for
\* the CPU first, and a halted CPU stays so.
\* (zipbones.v dbg_stall; zipdbg.cpp and zipstate.cpp cmd_read)
NeverStalls == dpc = "data" /\ gap = 0 => ~Stalls(Request)

\* What the CPU carries out is the instruction its PC shows, on the values its
\* registers show: an edit leaves nothing stale in the pipe.
\* (zipcpu.v dbg_clear_pipe, new_pc, pf_pc)
RunsAsShown == Issue => op.pc = regset[sPC] /\ op.a = regset[sR0]

\* A step is one instruction at most, also when it waits for memory, and two
\* steps carry one out, unless it is a break: a step either decodes the next word
\* or runs what is decoded.
\* (zipbones.v cmd_step, cmd_halt; zipcpu.v dcd_stalled, master_ce)
StepsOne == /\ key = "s" /\ dpc # "command" => ran <= 1
            /\ idle > 2 => op_break

\* A CPU that zipdbg lets go runs, until a break halts it again.
\* (zipdbg.cpp key g; zipbones.v cmd_halt)
GoneIsRunning == dpc = "done" /\ key = "g" /\ cmd_halt => op_break

\* Every key is answered, whatever holds the CPU up: zipdbg comes back to its
\* prompt or ends.
\* (zipdbg.cpp and zipstate.cpp MAXERR, stall_screen)
KeyAnswered == dpc \notin {"key", "done", "failed"} ~> dpc \in {"key", "done", "failed"}
=============================================================================
