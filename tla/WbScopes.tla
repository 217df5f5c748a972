------------------------------ MODULE WbScopes ------------------------------
(* The two scopes, rtl/wbscope.v and rtl/wbscopc.v.  They share the control    *)
(* register, the trigger, the circular buffer, and its read-out on the bus.    *)
(* wbscope records every sample, until a number of samples after the trigger;  *)
(* wbscopc records a sample when it is new, and then how long it stayed.       *)
(* Bus and data share a clock (SYNCHRONOUS = 1), and i_ce is 1, as the scopes  *)
(* of auto-data/ are built.  One step is one clock; a request is a record of   *)
(* stb, we, addr (0 is the control register) and what a write carries.         *)
EXTENDS Naturals, Sequences
CONSTANTS
    LGMEM, HOLDOFFBITS,
    Holdoffs,               \* the holdoffs that the operator chooses
    MaxStep                 \* MAX_STEP: the longest run
VARIABLES
    compressed,             \* which of the two it is
    br_config, br_holdoff,  \* reset done, manual trigger, trigger disabled
    dr_triggered, dr_primed, waddr, mem,
    raddr, this_addr, nxt_mem, read_address, acks, o_data
triggerVars == <<br_config, br_holdoff, dr_triggered>>
bufferVars == <<dr_primed, waddr, mem>>
readVars == <<raddr, this_addr, nxt_mem, read_address, acks, o_data>>

ASSUME ScopeBusAssumption ==
    /\ LGMEM \in Nat \ {0} /\ 2 ^ LGMEM \in Nat \ {0}
    /\ HOLDOFFBITS \in Nat \ {0} /\ 2 ^ HOLDOFFBITS \in Nat \ {0}
    /\ Holdoffs \subseteq 0 .. 2 ^ HOLDOFFBITS - 1

Length == 2 ^ LGMEM
Addresses == 0 .. Length - 1
Plus(a, n) == (a + n) % Length
NoRequest == [stb |-> FALSE, addr |-> 0]

ScopeBusInit ==
    /\ br_config = [running |-> FALSE, manual |-> FALSE, disable |-> FALSE]
    /\ br_holdoff \in Holdoffs
    /\ dr_triggered = FALSE /\ dr_primed = FALSE /\ waddr = 0
    /\ raddr = 0 /\ this_addr = 0 /\ read_address = 0
    /\ acks = <<FALSE, FALSE>>

Reset == ~br_config.running
WritesControl(req) == req.stb /\ req.we /\ req.addr = 0

\* A write starts a reset (bit 31 is low) or goes on; only with a reset does
\* wbscope take the holdoff.  A reset takes a clock; in wbscopc an access to
\* the control register prolongs it.
Config(req) ==
    IF WritesControl(req)
    THEN /\ br_config' = [running |-> (~compressed /\ Reset) \/ ~req.reset,
                          manual |-> req.manual, disable |-> req.disable]
         /\ br_holdoff' = IF compressed \/ req.reset THEN req.holdoff ELSE br_holdoff
    ELSE /\ br_config' = IF Reset /\ ~(compressed /\ req.stb /\ req.addr = 0)
                         THEN [br_config EXCEPT !.running = TRUE] ELSE br_config
         /\ UNCHANGED br_holdoff

Trigger(trig) == dr_primed /\ ((trig /\ ~br_config.disable) \/ br_config.manual)
Triggered(trig) == dr_triggered' = (~Reset /\ (dr_triggered \/ Trigger(trig)))

\* A word is recorded, at the end of the circle.
RecordAt(ce, word) ==
    /\ mem' = IF ce THEN [mem EXCEPT ![waddr] = word] ELSE mem
    /\ waddr' = IF Reset THEN 0 ELSE IF ce THEN Plus(waddr, 1) ELSE waddr
    /\ dr_primed' = (~Reset /\ (dr_primed \/ (ce /\ waddr = Length - 1)))

\* The read-out runs two words ahead of the answer: a request is answered two
\* clocks later, from the address that the one before it has left.
ReadsData(req) == req.stb /\ req.addr = 1 /\ ~req.we
NextAddress(req) == Plus(raddr, waddr + (IF ReadsData(req) THEN 1 ELSE 0))
Rewinds(req) == req.stb /\ req.we /\ req.addr = (IF compressed THEN 1 ELSE 0)
ControlWord(stopped) ==
    [t |-> "control", reset |-> Reset, stopped |-> stopped, triggered |-> dr_triggered,
     lgmem |-> LGMEM, holdoff |-> br_holdoff]
ReadOut(req, stopped, live) ==
    /\ raddr' = IF Reset \/ Rewinds(req) THEN 0
                ELSE IF ReadsData(req) /\ stopped THEN Plus(raddr, 1) ELSE raddr
    /\ this_addr' = NextAddress(req)
    /\ nxt_mem' = mem[this_addr]
    /\ read_address' = req.addr
    /\ acks' = <<req.stb, acks[1]>>
    /\ LET addr == IF compressed THEN req.addr ELSE read_address IN
       o_data' = IF addr = 0 THEN ControlWord(stopped)
                 ELSE IF stopped THEN nxt_mem ELSE live

---------------------------------------------------------------------------
VARIABLES counter, dr_stopped, data_pipe
wbscopeVars == <<counter, dr_stopped, data_pipe>>

WbScopeInit == counter = 0 /\ dr_stopped = FALSE

Stopped == dr_triggered /\ ~Reset /\ counter >= br_holdoff
WbScopeClock(req, trig, sample) ==
    /\ Config(req) /\ Triggered(trig)
    /\ counter' = IF Reset THEN 0
                  ELSE IF dr_triggered /\ ~dr_stopped THEN (counter + 1) % 2 ^ HOLDOFFBITS ELSE counter
    /\ dr_stopped' = Stopped
    /\ data_pipe' = sample
    /\ RecordAt(~dr_stopped, data_pipe)
    /\ ReadOut(req, dr_stopped, sample)
    /\ UNCHANGED compressed

---------------------------------------------------------------------------
VARIABLES
    holdoff_counter, c_stopped, dr_stop_pipe,
    dr_force_write, dr_force_inhibit, dr_run_timeout, ck_addr, new_data, qd_data,
    imm, lst,               \* the newest word, and the one before: [adr, val]
    record_ce, r_data
wbscopcVars == <<holdoff_counter, c_stopped, dr_stop_pipe, dr_force_write, dr_force_inhibit,
                 dr_run_timeout, ck_addr, new_data, qd_data, imm, lst, record_ce, r_data>>

DLYSTOP == 5
NoWord == [adr |-> TRUE, val |-> 0]
WbScopcInit ==
    /\ holdoff_counter = 0 /\ c_stopped = FALSE /\ dr_stop_pipe = [i \in 0 .. DLYSTOP - 1 |-> FALSE]
    /\ dr_force_write = FALSE /\ dr_force_inhibit = FALSE /\ dr_run_timeout = FALSE
    /\ ck_addr = 0 /\ new_data = FALSE /\ imm = NoWord /\ lst = NoWord
    /\ record_ce = FALSE /\ r_data = NoWord

Data(v) == [adr |-> FALSE, val |-> v]
Run(n) == [adr |-> TRUE, val |-> n]
FinalStop == dr_stop_pipe[DLYSTOP - 1]

HoldOff ==
    /\ holdoff_counter' = IF Reset THEN 0
                          ELSE IF dr_triggered /\ ~c_stopped
                          THEN (holdoff_counter + 1) % 2 ^ HOLDOFFBITS ELSE holdoff_counter
    /\ c_stopped' = (dr_triggered /\ ~Reset /\ (c_stopped \/ holdoff_counter >= br_holdoff))
    /\ dr_stop_pipe' = [i \in 0 .. DLYSTOP - 1 |->
                          ~Reset /\ IF i = 0 THEN c_stopped ELSE dr_stop_pipe[i - 1]]

\* A word is written however long nothing changes: after the longest run, at
\* the trigger, and until the buffer is full.
ForceWrite(trig) ==
    /\ dr_force_write' = \/ Reset
                         \/ dr_run_timeout /\ ~dr_force_write /\ ~dr_force_inhibit
                         \/ Trigger(trig) /\ ~dr_triggered
                         \/ ~dr_primed
    /\ dr_force_inhibit' = (~Reset /\ dr_force_write)
    /\ dr_run_timeout' = (Reset \/ ck_addr >= MaxStep - 1)

\* The words: a sample that is new or forced, or how long the last one has been.
Writes == new_data \/ dr_force_write \/ c_stopped
Immediate == IF Writes THEN Data(qd_data) ELSE Run(ck_addr)
Words(sample) ==
    /\ ck_addr' = IF Reset \/ Writes THEN 0 ELSE (ck_addr + 1) % (MaxStep + 1)
    /\ new_data' = (Reset \/ sample # qd_data)
    /\ qd_data' = sample
    /\ imm' = IF Reset THEN NoWord ELSE Immediate
    /\ lst' = IF Reset THEN NoWord ELSE imm

\* Of several runs one after the other only the last, the longest, is recorded.
Pairs == ~lst.adr \/ ~imm.adr
WbScopcClock(req, trig, sample) ==
    /\ Config(req) /\ Triggered(trig) /\ HoldOff /\ ForceWrite(trig) /\ Words(sample)
    /\ record_ce' = (Pairs /\ ~dr_stop_pipe[2])
    /\ r_data' = IF Pairs THEN lst ELSE Data(qd_data)
    /\ RecordAt(record_ce, r_data)
    /\ ReadOut(req, FinalStop, Data(qd_data))
    /\ UNCHANGED compressed
=============================================================================
