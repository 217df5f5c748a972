---------------------------- MODULE BoardPrograms ---------------------------
(* Programs that run on the board by themselves: the bootloader, on the board   *)
(* and in the simulator, the memory test, the division of longs, and one that   *)
(* uses the simulator's SD card.  One of them runs, from its start.             *)
EXTENDS MainTb, MemTest, LongDivide, SdSpi
CONSTANT MaxRestarts        \* of the program that uses the SD card
VARIABLES program, sd_next, asked, restarts
sdProgramVars == <<sd_next, asked, restarts, sdVars>>
vars == <<program, bootVars, simVars, testVars, divVars, sdProgramVars>>

-----------------------------------------------------------------------------
(* A program that uses the SD card of the simulator by the controller's         *)
(* registers: it brings the card up as the card's own states ask for it, and    *)
(* then reads and writes blocks and registers, or starts again.  The repository *)
(* has no such program: this one is external.                                   *)
NoArg == <<0, 0, 0, 0>>
Block(n) == <<0, 0, 0, n>>
\* What is asked of the controller: a command, its argument, the response to
\* expect, and for a FIFO which one, whether to send it, and the block's length.
Ask(n, arg, resp) ==
    [n |-> n, alt |-> FALSE, arg |-> arg, resp |-> resp, use |-> FALSE, wr |-> FALSE, id |-> 1, len |-> BlockBytes]
AskBlock(n, arg, wr, id, len) ==
    [n |-> n, alt |-> FALSE, arg |-> arg, resp |-> "R1", use |-> TRUE, wr |-> wr, id |-> id, len |-> len]
BringUp ==
    [cmd0 |-> Ask(0, NoArg, "R1"), cmd8 |-> Ask(8, <<0, 0, 1, 170>>, "R3"),
     cmd55 |-> Ask(55, NoArg, "R1"), acmd41 |-> [Ask(41, <<64, 0, 0, 0>>, "R1") EXCEPT !.alt = TRUE],
     cmd58 |-> Ask(58, NoArg, "R3")]
Operations ==
    {Ask(1, NoArg, "R1"), Ask(13, NoArg, "R3"), Ask(58, NoArg, "R3"), Ask(12, NoArg, "R1")}
    \cup {AskBlock(9, NoArg, FALSE, 1, Len(m_csd)), AskBlock(10, NoArg, FALSE, 2, Len(m_cid))}
    \cup {AskBlock(17, Block(n), FALSE, n + 1, BlockBytes) : n \in 0 .. DevBlocks - 1}
    \cup {AskBlock(24, Block(0), TRUE, 2, BlockBytes)}
ReadScr == [AskBlock(51, NoArg, FALSE, 1, Len(m_csd) \div 2) EXCEPT !.alt = TRUE]
Nothing == Ask(63, NoArg, "R1")

\* The block to write, not one that the device has.
HostBlock(q) == [k \in 1 .. BlockBytes |-> 128 + 16 * q.id + k]
Registers(q) ==
    [sd EXCEPT !.data = q.arg, !.limit = q.len, !.fifo[q.id] = IF q.wr THEN HostBlock(q) ELSE @]
Issue(q) ==
    /\ ~sd.busy /\ asserts_hold /\ asked' = q
    /\ NewCommand(Registers(q), q.n, q.resp, q.use, q.wr, q.id)
    /\ Elapse /\ UNCHANGED <<card, m_dat_out, asserts_hold, restarts>>

SdProgramInit ==
    /\ CardInit /\ SdInit /\ sd_next = "cmd0" /\ asked = Nothing /\ restarts = 0
\* The next step of bringing it up, by the response to the last one.
BringUpStep ==
    /\ sd_next \in DOMAIN BringUp /\ Issue(BringUp[sd_next])
    /\ sd_next' = CASE sd_next = "cmd0" -> "cmd8" [] sd_next = "cmd8" -> "cmd55"
                    [] sd_next = "cmd55" -> "acmd41" [] sd_next = "acmd41" -> "look"
                    [] sd_next = "cmd58" -> "ready"
LookAtR1 ==
    /\ sd_next = "look" /\ ~sd.busy
    /\ sd_next' = (IF sd.r1 = 0 THEN "cmd58" ELSE "cmd55")
    /\ Elapse /\ UNCHANGED <<asked, restarts, sd, card, m_dat_in, m_dat_out, asserts_hold>>
Operate ==
    /\ sd_next = "ready"
    /\ \/ \E q \in Operations : Issue(q) /\ UNCHANGED sd_next
       \/ Issue(BringUp.cmd55) /\ sd_next' = "acmd51"
ReadScrStep == sd_next = "acmd51" /\ Issue(ReadScr) /\ sd_next' = "ready"
\* The CPU is reset, but not the controller: the program starts again, when the
\* controller is not busy any more.  Not between CMD55 and its command.
Restart ==
    /\ restarts < MaxRestarts /\ sd_next \notin {"cmd0", "acmd41", "acmd51"} /\ asserts_hold
    /\ sd_next' = "cmd0" /\ restarts' = restarts + 1
    /\ UNCHANGED <<asked, sd, card, m_dat_in, m_dat_out, m_powerup_busy, asserts_hold>>
SdStep ==
    \/ BringUpStep \/ LookAtR1 \/ Operate \/ ReadScrStep \/ Restart
    \/ asserts_hold /\ (NextByte \/ Release) /\ UNCHANGED <<sd_next, asked, restarts>>

-----------------------------------------------------------------------------
(* One of the programs runs.                                                  *)
\* The others are where they would start.
BootHeld ==
    /\ ld = "board" /\ size = [kernel |-> 0, image |-> 1, bss |-> 0]
    /\ memory = <<>> /\ boot_at = "start" /\ wrp = Null /\ rdp = Null /\ i = 0
SimHeld ==
    /\ file = None /\ act = None /\ sim_at = "load" /\ section = 1
    /\ m_done = FALSE /\ m_cpu_bombed = 0 /\ status = StillRuns
TestHeld ==
    /\ fault = [kind |-> "none"] /\ sdram = <<>>
    /\ test_at = "round" /\ test = 1 /\ counts = 0 /\ mptr = 0 /\ fill = 0 /\ dfill = 0
DivideHeld ==
    /\ divide_at = "start" /\ x = 0 /\ y = 1 /\ signed = FALSE
    /\ a = 0 /\ b = 0 /\ r = 0 /\ m = 0
Init ==
    \/ program = "boot" /\ BootInit /\ SimHeld /\ TestHeld /\ DivideHeld /\ SdProgramInit
    \/ program = "simulate" /\ SimInit /\ TestHeld /\ DivideHeld /\ SdProgramInit
    \/ program = "memtest" /\ MemTestInit /\ BootHeld /\ SimHeld /\ DivideHeld /\ SdProgramInit
    \/ program = "divide" /\ DivideInit /\ BootHeld /\ SimHeld /\ TestHeld /\ SdProgramInit
    \/ program = "sdcard" /\ SdProgramInit /\ BootHeld /\ SimHeld /\ TestHeld /\ DivideHeld
Next ==
    /\ UNCHANGED program
    /\ \/ program = "boot" /\ (BootStep \/ Reset) /\ UNCHANGED <<simVars, testVars, divVars, sdProgramVars>>
       \/ program = "simulate" /\ SimStep /\ UNCHANGED <<testVars, divVars, sdProgramVars>>
       \/ program = "memtest" /\ TestStep /\ UNCHANGED <<bootVars, simVars, divVars, sdProgramVars>>
       \/ program = "divide" /\ DivideStep /\ UNCHANGED <<bootVars, simVars, testVars, sdProgramVars>>
       \/ program = "sdcard" /\ SdStep /\ UNCHANGED <<bootVars, simVars, testVars, divVars>>
Spec == Init /\ [][Next]_vars /\ WF_vars(Next)

\* When main() is called the kernel and the image are where the linker placed
\* them, in full.  The BSS that follows is zero if the program came from flash.
\* That of a program in block RAM is as the bootloader found it, not a word of it
\* cleared, although crt0.c (80-85) says that it clears the BSS because a program
\* may start from a reset (crt0.c 215-219, the copying loops).
Boots == program \in {"boot", "simulate"}
Placed ==
    /\ \A k \in 0 .. Kernel - 1 : memory["bkram"][k] = KernelWord(k)
    /\ \A k \in 0 .. size.image - 1 : memory[_ram.in][k] = ImageWord(k)
BssHolds(v) == \A k \in size.image .. size.image + size.bss - 1 : memory[_ram.in][k] = v
MainFindsProgram ==
    Boots /\ boot_at = "main" => Placed /\ BssHolds(IF _rom = Null THEN Anything ELSE Zero)
\* Starting a program leaves it in flash, to be started again after a reset, and
\* writes nothing outside the program's own memory.
Stored == program = "boot" \/ (program = "simulate" /\ sim_at # "load")
StartsAgain ==
    Stored /\ ld # "bkram" =>
        /\ \A k \in DOMAIN memory["flash"] : memory["flash"][k] = Loaded("flash", k)
        /\ \A k \in Kernel .. RamSize - 1 : _ram.in # "bkram" => memory["bkram"][k] = Anything
        /\ \A k \in size.image + size.bss .. RamSize - 1 : memory[_ram.in][k] = Anything
\* When the CPU starts in the simulator, every word of the program that the file
\* holds is in the memory the linker gave it (main_tb.cpp, loadelf and load).
SimLoads ==
    program = "simulate" /\ sim_at = "run" /\ boot_at = "start" =>
        \A k \in 0 .. ProgramWords - 1 : memory[ProgramIn][k] = Loaded(ProgramIn, k)
\* A program is in its place when the simulator starts it, and when main() is
\* called, after any number of resets on the way (crt0.c, main_tb.cpp).
ProgramInPlace == SimLoads /\ MainFindsProgram /\ StartsAgain

\* A program that exits ends the simulation with the value it gave last to the
\* register, as a process has it, and one that breaks ends it too (execsim).
Given(set) == IF act.wr.to = set THEN act.wr.value ELSE act.regs[set]
Ends ==
    CASE act.op = "exitUser" -> {Given("user") % StatusValues}
      [] act.op = "exitReg" -> {Given(IF act.gie THEN "user" ELSE "supervisor") % StatusValues}
      [] act.op = "exitNumber" -> {act.number}
      [] act.op = "break" -> {0}
      [] act.op = "none" -> {StillRuns}
SimEnds ==
    program = "simulate" ~>
        program = "simulate" /\ boot_at = "main" /\ status \in Ends /\ (act.op # "none" => sim_at = "exited")

\* The memory test finds a word, or an address line, that is stuck, and says of
\* no good memory that it has failed: there every round ends, as long as the
\* round's number is one the addresses of test #4 come back to (memtest.c:295, 306).
TestTells ==
    /\ program = "memtest" /\ fault.kind # "none" ~> test_at = "halted"
    /\ program = "memtest" /\ fault.kind = "none" /\ test_at = "fill" /\ counts < Words
           ~> test_at = "round"

\* A division returns the exact quotient, rounded towards zero, and remainder, or
\* is an exception of the CPU's because the divisor is zero (udiv.c and umod.c).
\* A quotient of longs that is not a long is its remainder modulo the longs.
Abs(v) == IF v < 0 THEN -v ELSE v
Exact ==
    LET q == Abs(x) \div Abs(y)
        s == IF (x < 0) # (y < 0) THEN -q ELSE q
    IN  Unsigned(Quotient) = Unsigned(s) /\ (~signed => __umoddi3 = x % y)
DivisionExact ==
    program = "divide" ~>
        \/ divide_at = "done" /\ (y # 0 => Exact)
        \/ divide_at = "exception" /\ y = 0

\* When the controller is done with a command, the FIFO asked for holds the block
\* or the register asked for, or the card has taken the FIFO's block; no error is
\* shown; and the card operates once it has been brought up (sdspi.v, r_cmd_busy).
Register == [k \in {9, 10, 51} |-> SubSeq(IF k = 10 THEN m_cid ELSE m_csd, 1, asked.len)]
InFifo == SubSeq(sd.fifo[asked.id], 1, asked.len)
CommandsDo ==
    ~sd.busy /\ asserts_hold =>
        /\ ~sd.cmd_err
        /\ asked.use /\ ~asked.wr =>
               InFifo = IF asked.n = 17 THEN Disk(asked.arg[4]) ELSE Register[asked.n]
        /\ asked.wr => card.block_buf = Packet(HostBlock(asked))
        /\ asked.n = 8 => sd.data = asked.arg
        /\ asked.n = 58 /\ sd_next = "ready" => Operating
\* A program that keeps to the card's procedure, and starts again at any time but
\* between CMD55 and the command it announces, makes no assertion of the simulated
\* card fail (sdspisim.cpp): only a command that the card has not does.
CardAssertsHold == asserts_hold \/ asked.n = 12
\* So commands do what they are for, end without the controller's watchdog, and
\* the card comes up, also when the program starts again on the way.
CardWorks ==
    /\ [](CommandsDo /\ CardAssertsHold)
    /\ program = "sdcard" /\ sd_next = "cmd0" ~> sd_next = "ready" \/ ~asserts_hold
    /\ sd.busy ~> ~sd.busy \/ ~asserts_hold
=============================================================================
