------------------------------ MODULE ZipBones ------------------------------
(* The ZipCPU as its debug port shows it: rtl/cpu/zipbones.v, and of           *)
(* rtl/cpu/zipcpu.v the pipeline of the build that cpudefs.v makes (not        *)
(* OPT_PIPELINED), in supervisor mode.  One step is one clock.                 *)
(*                                                                             *)
(* A register is a number as cmd_addr has it: the supervisor's general         *)
(* register and its PC, then the user's.  An instruction is one of "add" (the  *)
(* general register and one), "load" (a word of memory, 0), "jump" (to address *)
(* 0) and "brk"; the bus fetches and loads in any number of clocks.  Left out: *)
(* user mode, CC and sleep, errors, multi-clock arithmetic, compressed         *)
(* instructions, the second word of dblfetch, and the clear-cache bit.         *)
(* When a new PC comes while it fetches, dblfetch drops its cycle for a clock  *)
(* and begins again (dblfetch.v:88-117); here the cycle goes on, so that a CPU *)
(* that is being halted does not show r_halted for that one clock.             *)
EXTENDS Integers

CONSTANTS Code,         \* the kind of the instruction at every address
          StartHalted   \* START_HALTED

CodeSize == 4
Addresses == 0 .. CodeSize - 1
ASSUME CodeAssumption ==
    Code \in [Addresses -> {"add", "load", "jump", "brk"}] /\ StartHalted \in BOOLEAN

Registers == 0 .. 3
sR0 == 0
sPC == 1
uPC == 3
IsPC(r) == r % 2 = 1

VARIABLES cmd_reset, cmd_halt, cmd_step, cmd_addr,   \* zipbones.v
          regset,      \* the registers, ipc and upc among them
          new_pc,      \* where to fetch from after clearing the pipe, or NoPc
          pf, pf_cyc,  \* the prefetched word and whether one is being fetched
          dcd, op, ex, \* the instruction decoded, with its operands, executing
          dbgv,        \* the register a debugger writes in this clock
          r_halted
cpuVars == <<cmd_reset, cmd_halt, cmd_step, cmd_addr, regset, new_pc, pf, pf_cyc,
             dcd, op, ex, dbgv, r_halted>>

NoPc == -1
NoInsn == [pc |-> NoPc, a |-> 0, at |-> "none"]
NoWrite == [reg |-> NoPc, val |-> 0]
NoAccess == [to |-> "none"]

\* A word of the control register as a host writes it, and the data register.
Ctrl(bits, a) == [to |-> "ctrl", we |-> TRUE, bits |-> bits, addr |-> a]
Status == [to |-> "ctrl", we |-> FALSE]
GetData == [to |-> "data", we |-> FALSE]
PutData(v) == [to |-> "data", we |-> TRUE, val |-> v]

After(p) == (p + 1) % CodeSize

CpuInit ==
    /\ cmd_reset = FALSE /\ cmd_step = FALSE /\ cmd_addr = 0
    /\ cmd_halt \in BOOLEAN
    /\ regset = [r \in Registers |-> 0]
    /\ new_pc = 0 /\ pf = [pc |-> 0, valid |-> FALSE] /\ pf_cyc = FALSE
    /\ dcd = NoInsn /\ op = NoInsn /\ ex = NoInsn
    /\ dbgv = NoWrite /\ r_halted = FALSE

---------------------------------------------------------------------------
op_break == op # NoInsn /\ Code[op.pc] = "brk"
o_break == op_break /\ new_pc = NoPc
master_ce == ~cmd_halt /\ ~o_break
mem_busy == ex.at \in {"first", "busy"}
dcd_stalled == ~master_ce \/ dcd # NoInsn \/ op # NoInsn \/ mem_busy

\* What happens in this clock: a word is decoded, an instruction goes to the
\* ALU or the memory, one ends, the debugger's value is written.
Consume == pf.valid /\ ~dcd_stalled
Issue == master_ce /\ op # NoInsn /\ ~op_break /\ new_pc = NoPc
WriteBack ==
    IF dbgv # NoWrite THEN dbgv
    ELSE CASE ex.at = "alu" /\ new_pc = NoPc ->
                IF Code[ex.pc] = "jump" THEN [reg |-> sPC, val |-> 0]
                                        ELSE [reg |-> sR0, val |-> (ex.a + 1) % CodeSize]
           [] ex.at = "valid" -> [reg |-> sR0, val |-> 0]
           [] OTHER -> NoWrite
PcMoves == ex.at = "first" \/ (ex.at = "alu" /\ new_pc = NoPc)

Written(rs) ==
    LET moved == IF PcMoves THEN [rs EXCEPT ![sPC] = After(ex.pc)] ELSE rs
    IN  IF WriteBack = NoWrite THEN moved
        ELSE [moved EXCEPT ![WriteBack.reg] = WriteBack.val]

\* Where the prefetch goes next: a write of the debugger clears the pipe
\* whatever register it is, an instruction's when it writes the PC.
FetchFromWrittenPc ==
    IF WriteBack # NoWrite /\ IsPC(WriteBack.reg) THEN WriteBack.val ELSE NoPc
FetchFrom ==
    IF dbgv # NoWrite THEN IF IsPC(dbgv.reg) THEN dbgv.val ELSE regset[sPC]
    ELSE IF WriteBack # NoWrite /\ IsPC(WriteBack.reg) THEN WriteBack.val
    ELSE NoPc

\* r_halted: the halted CPU has nothing on the bus.
QuietFetch == cmd_halt /\ ~pf_cyc
Quiet == cmd_halt /\ ~pf_cyc /\ ~mem_busy

CtrlWrite(req) == req.to = "ctrl" /\ req.we
DataWrite(req) == req.to = "data" /\ req.we

NextHaltNoStep(req) ==
    IF cmd_reset THEN StartHalted
    ELSE IF CtrlWrite(req) THEN "halt" \in req.bits /\ "step" \notin req.bits
    ELSE cmd_halt \/ o_break
NextHaltSticky(req) ==
    IF cmd_reset THEN StartHalted
    ELSE IF CtrlWrite(req) /\ "step" \in req.bits THEN FALSE
    ELSE cmd_halt \/ cmd_step \/ o_break \/ (CtrlWrite(req) /\ "halt" \in req.bits)
NextHalt(req) ==
    IF cmd_reset THEN StartHalted
    ELSE IF CtrlWrite(req) THEN "halt" \in req.bits /\ "step" \notin req.bits
    ELSE cmd_halt \/ cmd_step \/ o_break

NextFetch(got) ==
    IF cmd_reset THEN [pf EXCEPT !.valid = FALSE]
    ELSE IF new_pc # NoPc THEN [pc |-> new_pc, valid |-> FALSE]
    ELSE IF Consume THEN [pc |-> After(pf.pc), valid |-> FALSE]
    ELSE [pf EXCEPT !.valid = @ \/ (pf_cyc /\ got)]

Cleared == cmd_reset \/ new_pc # NoPc

NextEx(got) ==
    IF cmd_reset THEN NoInsn
    ELSE IF Issue THEN
        [op EXCEPT !.at = IF Code[op.pc] = "load" THEN "first" ELSE "alu"]
    ELSE IF mem_busy THEN [ex EXCEPT !.at = IF got THEN "valid" ELSE "busy"]
    ELSE NoInsn

\* The registers of the debug port, when the host asks req of it.
DebugPort(req) ==
    /\ cmd_reset' = (CtrlWrite(req) /\ "reset" \in req.bits)
    /\ cmd_step' = (CtrlWrite(req) /\ "step" \in req.bits)
    /\ cmd_addr' = IF CtrlWrite(req) THEN req.addr % 4 ELSE cmd_addr
    /\ cmd_halt' = NextHalt(req)
    /\ dbgv' = IF DataWrite(req) /\ r_halted /\ ~cmd_reset
               THEN [reg |-> cmd_addr, val |-> req.val] ELSE NoWrite

\* The pipeline; fetched and loaded say whether the bus answers the fetch, and
\* the load, that is under way.
Pipeline(fetched, loaded) ==
    /\ regset' = IF cmd_reset THEN [Written(regset) EXCEPT ![sPC] = 0] ELSE Written(regset)
    /\ new_pc' = IF cmd_reset THEN 0 ELSE FetchFrom
    /\ pf' = NextFetch(fetched)
    /\ pf_cyc' = IF cmd_reset THEN FALSE
                 ELSE new_pc # NoPc \/ Consume \/ (pf_cyc /\ ~fetched)
    /\ dcd' = IF Consume /\ ~Cleared
              THEN [pc |-> pf.pc, a |-> regset'[sR0], at |-> "none"] ELSE NoInsn
    /\ op' = IF Cleared THEN NoInsn
             ELSE IF dcd # NoInsn THEN dcd
             ELSE IF Issue THEN NoInsn ELSE op
    /\ ex' = NextEx(loaded)
    /\ r_halted' = Quiet

Clock(req, fetched, loaded) == DebugPort(req) /\ Pipeline(fetched, loaded)

\* dbg_stall: only the data register of a CPU that has not stopped makes a host
\* wait.
Stalls(req) == req.to = "data" /\ ~r_halted
=============================================================================
