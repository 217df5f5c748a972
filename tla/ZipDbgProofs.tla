---------------------------- MODULE ZipDbgProofs ----------------------------
(* What ZipDbg does for every program of the CPU, every way the accesses of    *)
(* the host fall on its clocks, and every screen, value and number of retries: *)
(* a CPU that is seen halted stays so, what is shown of it is what it holds,   *)
(* and what it carries out is what it shows.                                   *)
EXTENDS ZipDbg, TLAPS

----------------------------------------------------------------------------
(* The parts of the inductive invariant.                                      *)

\* Types.
Instructions == [pc : Addresses, a : Addresses, at : {"none"}]
Executing == [pc : Addresses, a : Addresses, at : {"alu", "first", "busy", "valid"}]
CpuTypeOK ==
    /\ cmd_reset \in BOOLEAN /\ cmd_step \in BOOLEAN /\ cmd_halt \in BOOLEAN
    /\ cmd_addr \in Registers /\ regset \in [Registers -> Addresses]
    /\ new_pc \in Addresses \cup {NoPc}
    /\ pf \in [pc : Addresses, valid : BOOLEAN] /\ pf_cyc \in BOOLEAN
    /\ dcd \in Instructions \cup {NoInsn} /\ op \in Instructions \cup {NoInsn}
    /\ ex \in Executing \cup {NoInsn}
    /\ dbgv \in [reg : Registers, val : Addresses] \cup {NoWrite}
    /\ r_halted \in BOOLEAN
ProgramTypeOK ==
    /\ tool \in Tools /\ m_cursor \in Cells /\ m_show_users_timers \in BOOLEAN
    /\ screen \in [Cells -> Addresses \cup {NoPc}]
    /\ cell \in Cells /\ errcount \in Nat /\ writing \in BOOLEAN
    /\ edit \in [cell : Cells, val : Addresses] \cup {NoEdit}
    /\ gap \in 0 .. MinGap /\ ran \in 0 .. 2 /\ idle \in 0 .. 3

\* One instruction is between the prefetch and the register file, and the
\* prefetch has its next word, is getting it, or is about to be told.
OneInsn ==
    /\ dcd # NoInsn => op = NoInsn
    /\ dcd # NoInsn \/ op # NoInsn \/ new_pc # NoPc \/ dbgv # NoWrite => ex = NoInsn
    /\ pf.valid \/ pf_cyc \/ new_pc # NoPc

\* What an access leaves behind ends with the clock after it; a value of the
\* debugger meets a CPU that stands still.
AccessEnds ==
    /\ cmd_reset \/ cmd_step \/ dbgv # NoWrite => gap = MinGap
    /\ cmd_step => ~cmd_halt
    /\ dbgv # NoWrite => cmd_halt /\ ~cmd_reset /\ new_pc = NoPc

\* A CPU halted a few clocks ago has nothing in its ALU and fetches from no new PC.
Settles ==
    /\ cmd_halt /\ gap < MinGap - 1 => ex.at # "alu"
    /\ cmd_halt /\ gap < MinGap - 2 => new_pc = NoPc

\* A CPU that a host left halted: nothing of it moves but the end of an access
\* to memory, and of a fetch; and one that stands still.
Quieting ==
    /\ cmd_halt /\ ~cmd_reset /\ ~cmd_step /\ dbgv = NoWrite
    /\ gap < MinGap => ex.at # "alu"
    /\ gap < MinGap - 1 => new_pc = NoPc
    /\ gap < MinGap - 2 /\ r_halted => ex = NoInsn /\ ~pf_cyc
Still ==
    /\ cmd_halt /\ ~cmd_reset /\ ~cmd_step /\ dbgv = NoWrite
    /\ ex = NoInsn /\ new_pc = NoPc /\ ~pf_cyc /\ r_halted
HaltedStays ==
    /\ dpc = "poll" => Quieting
    /\ dpc \in {"data", "status"} => Still
    /\ dpc \in {"poll", "data"} => cmd_addr = Wanted % NRegs
    /\ dpc \in {"select", "poll", "data"} /\ ~writing /\ cell > 0 => Still

\* A register as the debug port reads it, and the cells read so far.
Shows(c) == screen[c] = regset[c % NRegs]
Shown ==
    /\ dpc \in {"select", "poll", "data"} /\ ~writing =>
          \A c \in Cells : c < cell => Shows(c)
    /\ dpc = "status" => tool = "zipdbg" /\ \A c \in Cells : Shows(c)
    /\ dpc = "key" => screen = Blank \/ (Still /\ \A c \in Cells : Shows(c))

\* The value typed is written to the register named, and to no other later.
Parked == cmd_halt /\ ~cmd_reset /\ ~cmd_step /\ ex = NoInsn
EditWritten ==
    /\ writing => key = "edit" /\ dpc \in {"select", "poll", "data", "failed"}
    /\ dbgv # NoWrite => key = "edit" /\ dpc = "check"
    /\ key = "edit" =>
          /\ edit # NoEdit /\ dpc # "command" /\ edit.cell \in Editable
          /\ ~writing => /\ Parked
                         /\ \/ dbgv = [reg |-> edit.cell % NRegs, val |-> edit.val]
                            \/ dbgv = NoWrite /\ regset[edit.cell % NRegs] = edit.val

\* What was typed is for the cell at the cursor, which only a key moves.
EditInView == key = "edit" => edit.cell = CellAtCursor

\* At zipdbg's prompt a CPU seen halted has fetched its next instruction.
SeenHalted ==
    dpc \in {"key", "command"} =>
        /\ cmd_halt => ex.at # "alu" /\ new_pc = NoPc
        /\ r_halted => cmd_halt /\ ex = NoInsn /\ ~pf_cyc
        /\ ~cmd_reset /\ ~cmd_step /\ dbgv = NoWrite
CommandKeys ==
    /\ dpc = "command" => key \in {"s", "r", "g"}
    /\ key = "g" => dpc \in {"command", "done"}

\* One clock of a step is not halted; a step that begins nothing has decoded.
OneClock ==
    key = "s" /\ dpc # "command" =>
        /\ ~cmd_reset
        /\ IF cmd_step THEN ran = 0 ELSE cmd_halt /\ ran <= 1
Decoded ==
    /\ idle >= 1 =>
          /\ cmd_halt \/ cmd_step
          /\ new_pc = NoPc /\ ex = NoInsn
          /\ dcd # NoInsn \/ op # NoInsn \/ (idle = 1 /\ cmd_step /\ pf.valid)
    /\ idle >= 2 => op_break \/ (idle = 2 /\ cmd_step /\ op # NoInsn)

\* Only a break halts a CPU that was let go.
LetGo ==
    dpc = "done" /\ key = "g" =>
        /\ ~cmd_reset /\ ~cmd_step /\ dbgv = NoWrite
        /\ cmd_halt => op_break /\ new_pc = NoPc

DebugInv ==
    /\ CpuTypeOK /\ ProgramTypeOK
    /\ OneInsn /\ AccessEnds /\ Settles /\ HaltedStays
    /\ Shown /\ EditWritten /\ SeenHalted /\ CommandKeys
    /\ OneClock /\ Decoded /\ LetGo /\ EditInView

\* The instruction in the pipe is the one at the PC, the word fetched the next;
\* unless the prefetch is being sent to the PC.
PipeFollowsPc ==
    /\ new_pc # NoPc => new_pc = regset[sPC]
    /\ new_pc = NoPc =>
          /\ \A i \in {dcd, op} :
                i # NoInsn => /\ i.pc = regset[sPC] /\ i.a = regset[sR0]
                             /\ pf.pc = After(i.pc)
          /\ ex.at \in {"alu", "first"} => ex.pc = regset[sPC] /\ pf.pc = After(ex.pc)
          /\ dcd = NoInsn /\ op = NoInsn /\ ex.at \notin {"alu", "first"}
                => pf.pc = regset[sPC]
    /\ dbgv.reg # uPC
----------------------------------------------------------------------------
(* The pipeline, whatever is asked of the debug port.                         *)

\* What the proofs need of the instructions there are.
LEMMA InsnFacts ==
    ASSUME CpuTypeOK
    PROVE  /\ \A i \in {dcd, op} : i # NoInsn => i.pc \in Addresses /\ i.a \in Addresses
           /\ ex = NoInsn <=> ex.at = "none"
           /\ ex # NoInsn => ex.pc \in Addresses /\ ex.a \in Addresses
           /\ ex.at \in {"none", "alu", "first", "busy", "valid"}
           /\ \A p \in Addresses : After(p) \in Addresses
  BY DEF CpuTypeOK, Instructions, Executing, NoInsn, NoPc, After, Addresses, CodeSize

LEMMA WrittenType ==
    ASSUME CpuTypeOK
    PROVE  /\ Written(regset) \in [Registers -> Addresses]
           /\ FetchFrom \in Addresses \cup {NoPc}
  <1>1. WriteBack = NoWrite \/ (WriteBack.reg \in Registers /\ WriteBack.val \in Addresses)
    BY InsnFacts DEF WriteBack, CpuTypeOK, NoWrite, Registers, Addresses, CodeSize, sR0, sPC
  <1>2. PcMoves => After(ex.pc) \in Addresses
    BY InsnFacts DEF PcMoves
  <1>. QED
    BY <1>1, <1>2 DEF Written, FetchFrom, CpuTypeOK, Registers, sPC

LEMMA PipelineType ==
    ASSUME CpuTypeOK, NEW f \in BOOLEAN, NEW l \in BOOLEAN, Pipeline(f, l)
    PROVE  /\ regset' \in [Registers -> Addresses]
           /\ new_pc' \in Addresses \cup {NoPc}
           /\ pf' \in [pc : Addresses, valid : BOOLEAN] /\ pf_cyc' \in BOOLEAN
           /\ dcd' \in Instructions \cup {NoInsn} /\ op' \in Instructions \cup {NoInsn}
           /\ ex' \in Executing \cup {NoInsn}
           /\ r_halted' \in BOOLEAN
  <1>1. regset' \in [Registers -> Addresses]
    BY WrittenType DEF Pipeline, Registers, Addresses, CodeSize, sPC
  <1>2. new_pc' \in Addresses \cup {NoPc}
    BY WrittenType DEF Pipeline, Addresses, CodeSize
  <1>3. pf' \in [pc : Addresses, valid : BOOLEAN]
    BY InsnFacts DEF Pipeline, NextFetch, CpuTypeOK
  <1>4. pf_cyc' \in BOOLEAN /\ r_halted' \in BOOLEAN
    BY DEF Pipeline, Quiet, Consume, CpuTypeOK
  <1>5. dcd' \in Instructions \cup {NoInsn}
    BY <1>1 DEF Pipeline, CpuTypeOK, Instructions, Registers, sR0
  <1>6. op' \in Instructions \cup {NoInsn}
    BY DEF Pipeline, CpuTypeOK
  <1>7. ex' \in Executing \cup {NoInsn}
    BY InsnFacts DEF Pipeline, NextEx, Issue, mem_busy, CpuTypeOK, Instructions, Executing
  <1>. QED
    BY <1>1, <1>2, <1>3, <1>4, <1>5, <1>6, <1>7

\* What goes on in a clock of a CPU whose pipe is not being cleared.
LEMMA PipelineOneInsn ==
    ASSUME CpuTypeOK, OneInsn, dbgv # NoWrite => cmd_halt,
           NEW f \in BOOLEAN, NEW l \in BOOLEAN, Pipeline(f, l)
    PROVE  /\ dcd' # NoInsn => op' = NoInsn
           /\ dcd' # NoInsn \/ op' # NoInsn \/ new_pc' # NoPc => ex' = NoInsn
           /\ pf'.valid \/ pf_cyc' \/ new_pc' # NoPc
  <1>1. dcd' # NoInsn => dcd = NoInsn /\ op = NoInsn /\ ~mem_busy
    BY DEF Pipeline, Consume, dcd_stalled
  <1>2. op' # NoInsn => dcd # NoInsn \/ (op # NoInsn /\ ~Issue)
    BY DEF Pipeline
  <1>3. dcd' # NoInsn => op' = NoInsn /\ ex' = NoInsn
    BY <1>1 DEF Pipeline, Issue, NextEx
  <1>4. op' # NoInsn => ex' = NoInsn
    BY <1>2, InsnFacts DEF OneInsn, Pipeline, Issue, NextEx, mem_busy
  <1>5. new_pc' # NoPc => ex' = NoInsn
    <2>1. CASE cmd_reset
      BY <2>1 DEF Pipeline, NextEx
    <2>2. CASE dbgv # NoWrite
      BY <2>2, InsnFacts DEF Pipeline, NextEx, OneInsn, Issue, master_ce, mem_busy
    <2>3. CASE ~cmd_reset /\ dbgv = NoWrite /\ new_pc' # NoPc
      <3>1. ex.at = "alu"
        BY <2>3 DEF Pipeline, FetchFrom, WriteBack, NoWrite, IsPC, sR0
      <3>. QED
        BY <2>3, <3>1, InsnFacts DEF Pipeline, NextEx, OneInsn, Issue, mem_busy
    <2>. QED
      BY <2>1, <2>2, <2>3
  <1>6. pf'.valid \/ pf_cyc' \/ new_pc' # NoPc
    <2>1. CASE cmd_reset \/ new_pc # NoPc \/ Consume
      <3>1. cmd_reset => new_pc' = 0
        BY DEF Pipeline
      <3>2. ~cmd_reset => pf_cyc'
        BY <2>1, Zenon DEF Pipeline
      <3>. QED
        BY <3>1, <3>2 DEF NoPc
    <2>2. CASE ~(cmd_reset \/ new_pc # NoPc \/ Consume)
      <3>1. pf'.valid = (pf.valid \/ (pf_cyc /\ f))
        BY <2>2 DEF Pipeline, NextFetch, CpuTypeOK
      <3>2. pf_cyc' = (pf_cyc /\ ~f)
        BY <2>2 DEF Pipeline, CpuTypeOK
      <3>. QED
        BY <2>2, <3>1, <3>2 DEF OneInsn
    <2>. QED
      BY <2>1, <2>2
  <1>. QED
    BY <1>3, <1>4, <1>5, <1>6

\* A halted CPU begins nothing: what goes on is an access to memory, and the end
\* of an instruction that was in the ALU.
LEMMA PipelineHalted ==
    ASSUME CpuTypeOK, OneInsn, cmd_halt, ~cmd_reset, dbgv = NoWrite,
           NEW f \in BOOLEAN, NEW l \in BOOLEAN, Pipeline(f, l)
    PROVE  /\ ~Issue /\ ~Consume
           /\ ex'.at # "alu"
           /\ ex = NoInsn => ex' = NoInsn /\ regset' = regset
           /\ ex.at # "alu" => new_pc' = NoPc
           /\ r_halted' => ~pf_cyc
           /\ r_halted' => ~mem_busy /\ ex' = NoInsn
           /\ new_pc = NoPc /\ ~pf_cyc => ~pf_cyc'
           /\ ex = NoInsn /\ ~pf_cyc => r_halted'
           /\ ex = NoInsn /\ new_pc = NoPc => op' = IF dcd # NoInsn THEN dcd ELSE op
           /\ new_pc = NoPc /\ pf.valid => pf'.valid
  <1>1. ~Issue /\ ~Consume
    BY DEF Issue, Consume, dcd_stalled, master_ce
  <1>2. ex'.at # "alu"
    BY <1>1, InsnFacts DEF Pipeline, NextEx, mem_busy, NoInsn, CpuTypeOK, Executing
  <1>3. ex = NoInsn => ex' = NoInsn
    BY <1>1 DEF Pipeline, NextEx, mem_busy, NoInsn
  <1>4. ex = NoInsn => regset' = regset
    BY DEF Pipeline, Written, WriteBack, PcMoves, NoInsn, NoWrite
  <1>5. ex.at # "alu" => new_pc' = NoPc
    BY DEF Pipeline, FetchFrom, WriteBack, NoWrite, IsPC, sR0
  <1>6. (r_halted' => ~pf_cyc) /\ (r_halted' => ~mem_busy)
    BY DEF Pipeline, Quiet
  <1>7. r_halted' => ex' = NoInsn
    BY <1>1, <1>6 DEF Pipeline, NextEx
  <1>8. new_pc = NoPc /\ ~pf_cyc => ~pf_cyc'
    BY <1>1, Zenon DEF Pipeline
  <1>9. ex = NoInsn /\ ~pf_cyc => r_halted'
    <2>1. r_halted' = Quiet
      BY DEF Pipeline
    <2>2. ex = NoInsn /\ ~pf_cyc => Quiet
      BY DEF Quiet, mem_busy, NoInsn
    <2>. QED
      BY <2>1, <2>2, Zenon
  <1>10. ex = NoInsn /\ new_pc = NoPc => op' = IF dcd # NoInsn THEN dcd ELSE op
    BY <1>1 DEF Pipeline, Cleared
  <1>11. new_pc = NoPc /\ pf.valid => pf'.valid
    BY <1>1 DEF Pipeline, NextFetch, CpuTypeOK
  <1>. QED
    BY <1>1, <1>2, <1>3, <1>4, <1>5, <1>6, <1>7, <1>8, <1>9, <1>10, <1>11

\* The word in the prefetch and the instruction behind it follow the PC.
LEMMA PipelineFollows ==
    ASSUME CpuTypeOK, OneInsn, dbgv # NoWrite => cmd_halt /\ new_pc = NoPc, PipeFollowsPc,
           NEW f \in BOOLEAN, NEW l \in BOOLEAN, Pipeline(f, l)
    PROVE  /\ new_pc' # NoPc => new_pc' = regset'[sPC]
           /\ new_pc' = NoPc =>
                 /\ \A i \in {dcd', op'} :
                       i # NoInsn => /\ i.pc = regset'[sPC] /\ i.a = regset'[sR0]
                                    /\ pf'.pc = After(i.pc)
                 /\ ex'.at \in {"alu", "first"}
                       => ex'.pc = regset'[sPC] /\ pf'.pc = After(ex'.pc)
                 /\ dcd' = NoInsn /\ op' = NoInsn /\ ex'.at \notin {"alu", "first"}
                       => pf'.pc = regset'[sPC]
  <1>1. CASE cmd_reset
    BY <1>1 DEF Pipeline, CpuTypeOK, Written, Registers, sPC, NoPc
  <1>2. CASE ~cmd_reset /\ dbgv # NoWrite
    <2>1. dbgv.reg \in {sR0, sPC, 2} /\ dbgv.val \in Addresses /\ ex = NoInsn
      BY <1>2 DEF CpuTypeOK, PipeFollowsPc, Registers, uPC, sR0, sPC, OneInsn
    <2>2. Written(regset) = [regset EXCEPT ![dbgv.reg] = dbgv.val]
      BY <1>2, <2>1 DEF Written, WriteBack, PcMoves, NoInsn
    <2>3. regset' = [regset EXCEPT ![dbgv.reg] = dbgv.val]
      BY <1>2, <2>2 DEF Pipeline
    <2>4. new_pc' = IF dbgv.reg = sPC THEN dbgv.val ELSE regset[sPC]
      BY <1>2, <2>1 DEF Pipeline, FetchFrom, IsPC, sPC, sR0
    <2>5. new_pc' = regset'[sPC]
      BY <2>1, <2>3, <2>4 DEF CpuTypeOK, Registers, sPC, sR0
    <2>6. new_pc' # NoPc
      BY <2>1, <2>4 DEF CpuTypeOK, Registers, Addresses, NoPc, sPC, CodeSize
    <2>. QED
      BY <2>5, <2>6
  <1>3. CASE ~cmd_reset /\ dbgv = NoWrite /\ new_pc # NoPc
    <2>1. ex = NoInsn /\ ~Issue
      BY <1>3 DEF OneInsn, Issue
    <2>2. ex' = NoInsn /\ dcd' = NoInsn /\ op' = NoInsn
      BY <1>3, <2>1 DEF Pipeline, NextEx, mem_busy, NoInsn, Cleared
    <2>3. regset' = regset /\ pf'.pc = new_pc
      BY <1>3, <2>1 DEF Pipeline, NextFetch, Written, WriteBack, PcMoves, NoInsn
    <2>4. new_pc' = NoPc
      BY <1>3, <2>1 DEF Pipeline, FetchFrom, WriteBack, NoInsn
    <2>. QED
      BY <1>3, <2>2, <2>3, <2>4 DEF PipeFollowsPc, NoInsn
  <1>4. CASE ~cmd_reset /\ dbgv = NoWrite /\ new_pc = NoPc
    <2>1. /\ pf'.pc = IF Consume THEN After(pf.pc) ELSE pf.pc
          /\ dcd' = IF Consume THEN [pc |-> pf.pc, a |-> regset'[sR0], at |-> "none"]
                    ELSE NoInsn
          /\ op' = IF dcd # NoInsn THEN dcd ELSE IF Issue THEN NoInsn ELSE op
          /\ regset' = Written(regset) /\ new_pc' = FetchFrom
      BY <1>4 DEF Pipeline, NextFetch, Cleared, CpuTypeOK
    <2>2. Consume => dcd = NoInsn /\ op = NoInsn /\ ~mem_busy
      BY DEF Consume, dcd_stalled
    \* The PC names the word in the prefetch, which is decoded or not.
    <2>a. ASSUME dcd = NoInsn, op = NoInsn, ~Issue, new_pc' = NoPc,
                 ex'.at \notin {"alu", "first"}, pf.pc = regset'[sPC]
          PROVE  /\ \A i \in {dcd', op'} :
                       i # NoInsn => /\ i.pc = regset'[sPC] /\ i.a = regset'[sR0]
                                    /\ pf'.pc = After(i.pc)
                 /\ dcd' = NoInsn /\ op' = NoInsn => pf'.pc = regset'[sPC]
      <3>1. op' = NoInsn
        BY <2>1, <2>a
      <3>2. CASE Consume
        <4>1. /\ dcd' # NoInsn
              /\ dcd'.pc = regset'[sPC] /\ dcd'.a = regset'[sR0]
          BY <2>1, <2>a, <3>2 DEF CpuTypeOK, NoInsn, NoPc, Addresses, CodeSize
        <4>2. pf'.pc = After(regset'[sPC])
          BY <2>1, <2>a, <3>2
        <4>. QED
          BY <3>1, <4>1, <4>2
      <3>3. CASE ~Consume
        BY <2>1, <2>a, <3>1, <3>3
      <3>. QED
        BY <3>2, <3>3
    <2>3. CASE ex.at = "alu"
      <3>1. dcd = NoInsn /\ op = NoInsn /\ ~Issue /\ ex # NoInsn
        BY <2>3 DEF OneInsn, Issue, NoInsn
      <3>2. ex' = NoInsn
        BY <1>4, <2>3, <3>1 DEF Pipeline, NextEx, mem_busy
      <3>3. CASE Code[ex.pc] = "jump"
        <4>1. WriteBack = [reg |-> sPC, val |-> 0]
          BY <1>4, <2>3, <3>3 DEF WriteBack
        <4>2. new_pc' = 0 /\ regset'[sPC] = 0
          BY <1>4, <2>1, <4>1 DEF FetchFrom, Written, IsPC, sPC, NoWrite, CpuTypeOK, Registers, NoPc
        <4>. QED
          BY <4>2 DEF NoPc
      <3>4. CASE Code[ex.pc] # "jump"
        <4>1. WriteBack = [reg |-> sR0, val |-> (ex.a + 1) % CodeSize]
          BY <1>4, <2>3, <3>4 DEF WriteBack
        <4>2. new_pc' = NoPc
          BY <1>4, <2>1, <4>1 DEF FetchFrom, IsPC, sR0
        <4>3. regset'[sPC] = After(ex.pc)
          BY <1>4, <2>1, <2>3, <4>1 DEF Written, PcMoves, sPC, sR0, NoWrite, CpuTypeOK, Registers, NoPc
        <4>4. pf.pc = regset'[sPC]
          BY <1>4, <2>3, <4>3 DEF PipeFollowsPc
        <4>. QED
          BY <2>a, <3>1, <3>2, <4>2, <4>4 DEF NoInsn
      <3>. QED
        BY <3>3, <3>4
    <2>4. CASE ex.at = "first"
      <3>1. dcd = NoInsn /\ op = NoInsn /\ ~Issue /\ ~Consume
        BY <2>2, <2>4 DEF OneInsn, Issue, NoInsn, mem_busy
      <3>2. ex'.at \in {"busy", "valid"}
        BY <1>4, <2>4, <3>1 DEF Pipeline, NextEx, mem_busy, CpuTypeOK, NoInsn, Executing
      <3>3. WriteBack = NoWrite
        BY <1>4, <2>4 DEF WriteBack
      <3>4. new_pc' = NoPc
        BY <1>4, <2>1, <3>3 DEF FetchFrom
      <3>5. regset'[sPC] = After(ex.pc)
        BY <1>4, <2>1, <2>4, <3>3 DEF Written, PcMoves, sPC, CpuTypeOK, Registers
      <3>6. pf.pc = regset'[sPC]
        BY <1>4, <2>4, <3>5 DEF PipeFollowsPc
      <3>. QED
        BY <2>a, <3>1, <3>2, <3>4, <3>6
    <2>5. CASE ex.at \in {"busy", "valid"}
      <3>1. dcd = NoInsn /\ op = NoInsn /\ ~Issue /\ ~PcMoves
        BY <2>5 DEF OneInsn, Issue, NoInsn, PcMoves
      <3>2. ex'.at \notin {"alu", "first"}
        BY <1>4, <2>5, <3>1 DEF Pipeline, NextEx, mem_busy, CpuTypeOK, NoInsn, Executing
      <3>3. new_pc' = NoPc
        BY <1>4, <2>1, <2>5 DEF FetchFrom, WriteBack, IsPC, sR0, NoWrite
      <3>4. regset'[sPC] = regset[sPC]
        BY <1>4, <2>1, <2>5, <3>1 DEF Written, WriteBack, sPC, sR0, NoWrite, CpuTypeOK, Registers
      <3>5. pf.pc = regset'[sPC]
        BY <1>4, <2>5, <3>1, <3>4 DEF PipeFollowsPc
      <3>. QED
        BY <2>a, <3>1, <3>2, <3>3, <3>5
    <2>6. CASE ex = NoInsn
      <3>1. regset' = regset /\ new_pc' = NoPc
        BY <1>4, <2>1, <2>6 DEF Written, WriteBack, PcMoves, FetchFrom, NoInsn
      <3>2. ex' = IF Issue THEN [op EXCEPT !.at = IF Code[op.pc] = "load" THEN "first" ELSE "alu"]
                  ELSE NoInsn
        BY <1>4, <2>6 DEF Pipeline, NextEx, mem_busy, NoInsn
      <3>3. Issue => op # NoInsn /\ dcd = NoInsn
        BY DEF Issue, OneInsn
      <3>4. CASE Issue
        <4>1. ex'.pc = op.pc /\ ex'.at \in {"alu", "first"} /\ dcd' = NoInsn /\ op' = NoInsn
              /\ pf'.pc = pf.pc
          BY <2>1, <2>2, <3>2, <3>3, <3>4 DEF CpuTypeOK, Instructions
        <4>. QED
          BY <1>4, <3>1, <3>3, <3>4, <4>1 DEF PipeFollowsPc
      <3>5. CASE ~Issue
        <4>1. ex' = NoInsn
          BY <3>2, <3>5
        <4>2. CASE dcd = NoInsn /\ op = NoInsn
          <5>1. pf.pc = regset'[sPC]
            BY <1>4, <2>6, <3>1, <4>2 DEF PipeFollowsPc, NoInsn
          <5>. QED
            BY <2>a, <3>1, <3>5, <4>1, <4>2, <5>1 DEF NoInsn
        <4>3. CASE dcd # NoInsn \/ op # NoInsn
          <5>1. ~Consume /\ dcd' = NoInsn /\ op' \in {dcd, op} /\ op' # NoInsn /\ pf'.pc = pf.pc
            BY <2>1, <2>2, <3>5, <4>3
          <5>2. op'.pc = regset[sPC] /\ op'.a = regset[sR0] /\ pf.pc = After(op'.pc)
            BY <1>4, <5>1 DEF PipeFollowsPc
          <5>. QED
            BY <3>1, <4>1, <5>1, <5>2 DEF NoInsn
        <4>. QED
          BY <4>2, <4>3
      <3>. QED
        BY <3>4, <3>5
    <2>. QED
      BY <2>3, <2>4, <2>5, <2>6, InsnFacts
  <1>. QED
    BY <1>1, <1>2, <1>3, <1>4

----------------------------------------------------------------------------
(* What an access, and a clock without one, do to the debug port.             *)

LEMMA GapFacts ==
    /\ MinGap \in Nat /\ MinGap >= 3
    /\ StartHalted \in BOOLEAN
    /\ Cells \subseteq Nat /\ 0 \in Cells /\ Registers \subseteq Cells
    /\ \A c \in Cells : c % NRegs \in Registers
    /\ \A r \in Registers : r % NRegs = r
  BY DebugAssumption, CodeAssumption DEF Cells, LastPeripheral, NRegs, Registers

LEMMA Asked ==
    ASSUME CommandKeys
    PROVE  /\ CtrlWrite(Request) <=> dpc \in {"halt", "select", "command"}
           /\ DataWrite(Request) <=> dpc = "data" /\ writing
           /\ CtrlWrite(Request) =>
                 /\ "halt" \in Request.bits <=> (dpc = "command" => key = "r")
                 /\ "step" \in Request.bits <=> (dpc = "command" /\ key = "s")
                 /\ "reset" \in Request.bits <=> (dpc = "command" /\ key = "r")
                 /\ Request.bits = {} <=> (dpc = "command" /\ key = "g")
                 /\ Request.addr = IF dpc = "select" THEN Wanted ELSE 0
           /\ DataWrite(Request) => Request.val = edit.val
           /\ Stalls(Request) <=> dpc = "data" /\ ~r_halted
  <1>1. CASE dpc = "command"
    BY <1>1 DEF CommandKeys, Request, CtrlWrite, DataWrite, Stalls, Ctrl
  <1>2. CASE dpc = "data"
    BY <1>2 DEF Request, CtrlWrite, DataWrite, Stalls, PutData, GetData
  <1>3. CASE dpc \in {"halt", "select"}
    BY <1>3 DEF Request, CtrlWrite, DataWrite, Stalls, Ctrl
  <1>4. CASE dpc \notin {"command", "data", "halt", "select"}
    BY <1>4 DEF Request, CtrlWrite, DataWrite, Stalls, Status, NoAccess
  <1>. QED
    BY <1>1, <1>2, <1>3, <1>4

LEMMA AccessPort ==
    ASSUME DebugInv, Access
    PROVE  /\ gap = 0 /\ ~cmd_reset /\ ~cmd_step /\ dbgv = NoWrite
           /\ dpc = "data" => r_halted
           /\ cmd_reset' = (dpc = "command" /\ key = "r")
           /\ cmd_step' = (dpc = "command" /\ key = "s")
           /\ cmd_addr' = IF dpc = "select" THEN Wanted % NRegs
                          ELSE IF dpc \in {"halt", "command"} THEN 0 ELSE cmd_addr
           /\ cmd_halt' = IF dpc \in {"halt", "select"} THEN TRUE
                          ELSE IF dpc = "command" THEN key = "r" ELSE cmd_halt \/ o_break
           /\ dbgv' = IF dpc = "data" /\ writing THEN [reg |-> cmd_addr, val |-> edit.val]
                      ELSE NoWrite
           /\ ran' = IF dpc = "command" /\ key \in {"s", "g"} THEN 0
                     ELSE IF Issue /\ ran < 2 THEN ran + 1 ELSE ran
           /\ idle' = IF Issue \/ (dpc = "command" /\ key = "g") THEN 0
                      ELSE IF dpc = "command" /\ key = "s" /\ r_halted /\ idle < 3 THEN idle + 1
                      ELSE idle
           /\ \E f, l \in BOOLEAN : Pipeline(f, l)
           /\ gap' = MinGap
           /\ UNCHANGED <<tool, key, m_cursor, m_show_users_timers, edit, keys, sessions>>
  <1>1. gap = 0 /\ ~cmd_reset /\ ~cmd_step /\ dbgv = NoWrite
    BY GapFacts DEF Access, MayAccess, DebugInv, AccessEnds
  <1>2. CommandKeys
    BY DEF DebugInv
  <1>3. DebugPort(Request) /\ \E f, l \in BOOLEAN : Pipeline(f, l)
    BY DEF Access, Clock
  <1>4. dpc = "data" => r_halted
    BY <1>2, Asked DEF Access, MayAccess
  <1>5. /\ cmd_reset' = (dpc = "command" /\ key = "r")
        /\ cmd_step' = (dpc = "command" /\ key = "s")
    BY <1>2, <1>3, Asked DEF DebugPort
  <1>6. cmd_addr' = IF dpc = "select" THEN Wanted % NRegs
                    ELSE IF dpc \in {"halt", "command"} THEN 0 ELSE cmd_addr
    BY <1>2, <1>3, Asked DEF DebugPort, NRegs
  <1>7. cmd_halt' = IF dpc \in {"halt", "select"} THEN TRUE
                    ELSE IF dpc = "command" THEN key = "r" ELSE cmd_halt \/ o_break
    <2>1. cmd_halt' = NextHalt(Request)
      BY <1>3 DEF DebugPort
    <2>. QED
      BY <1>1, <1>2, <2>1, Asked DEF NextHalt
  <1>8. dbgv' = IF dpc = "data" /\ writing THEN [reg |-> cmd_addr, val |-> edit.val]
                ELSE NoWrite
    BY <1>1, <1>2, <1>3, <1>4, Asked DEF DebugPort
  <1>9. /\ ran' = IF dpc = "command" /\ key \in {"s", "g"} THEN 0
                  ELSE IF Issue /\ ran < 2 THEN ran + 1 ELSE ran
        /\ idle' = IF Issue \/ (dpc = "command" /\ key = "g") THEN 0
                   ELSE IF dpc = "command" /\ key = "s" /\ r_halted /\ idle < 3 THEN idle + 1
                   ELSE idle
    <2>1. Orders(Request, "step") <=> dpc = "command" /\ key = "s"
      BY <1>2, Asked DEF Orders
    <2>2. CtrlWrite(Request) /\ Request.bits = {} <=> dpc = "command" /\ key = "g"
      BY <1>2, Asked
    <2>3. History(Request)
      BY DEF Access
    <2>. QED
      BY <1>1, <2>1, <2>2, <2>3 DEF History
  <1>10. gap' = MinGap /\ UNCHANGED <<tool, key, m_cursor, m_show_users_timers, edit, keys, sessions>>
    BY DEF Access
  <1>. QED
    BY <1>1, <1>3, <1>4, <1>5, <1>6, <1>7, <1>8, <1>9, <1>10

LEMMA TickPort ==
    ASSUME CpuTypeOK, NEW f \in BOOLEAN, NEW l \in BOOLEAN, Tick(f, l)
    PROVE  /\ cmd_reset' = FALSE /\ cmd_step' = FALSE /\ dbgv' = NoWrite /\ cmd_addr' = cmd_addr
           /\ cmd_halt' = IF cmd_reset THEN StartHalted ELSE cmd_halt \/ cmd_step \/ o_break
           /\ ran' = IF Issue /\ ran < 2 THEN ran + 1 ELSE ran
           /\ idle' = IF Issue \/ cmd_reset \/ dbgv # NoWrite THEN 0 ELSE idle
           /\ Pipeline(f, l)
           /\ gap' = IF gap > 0 THEN gap - 1 ELSE 0
           /\ UNCHANGED <<tool, dpc, key, m_cursor, m_show_users_timers, screen, cell, edit, writing,
                          errcount, keys, sessions>>
  <1>1. ~CtrlWrite(NoAccess) /\ ~DataWrite(NoAccess)
    BY DEF CtrlWrite, DataWrite, NoAccess
  <1>2. DebugPort(NoAccess) /\ Pipeline(f, l) /\ History(NoAccess)
    BY DEF Tick, Clock
  <1>3. cmd_reset' = FALSE /\ cmd_step' = FALSE /\ dbgv' = NoWrite /\ cmd_addr' = cmd_addr
    BY <1>1, <1>2 DEF DebugPort
  <1>4. cmd_halt' = IF cmd_reset THEN StartHalted ELSE cmd_halt \/ cmd_step \/ o_break
    <2>1. cmd_halt' = NextHalt(NoAccess)
      BY <1>2 DEF DebugPort
    <2>. QED
      BY <1>1, <2>1 DEF NextHalt
  <1>5. /\ ran' = IF Issue /\ ran < 2 THEN ran + 1 ELSE ran
        /\ idle' = IF Issue \/ cmd_reset \/ dbgv # NoWrite THEN 0 ELSE idle
    BY <1>1, <1>2 DEF History, Orders
  <1>6. /\ gap' = IF gap > 0 THEN gap - 1 ELSE 0
        /\ UNCHANGED <<tool, dpc, key, m_cursor, m_show_users_timers, screen, cell, edit, writing,
                       errcount, keys, sessions>>
    BY DEF Tick
  <1>. QED
    BY <1>2, <1>3, <1>4, <1>5, <1>6

----------------------------------------------------------------------------
(* A CPU that stands still, is at a break or is written by the debugger.      *)

LEMMA StillStays ==
    ASSUME CpuTypeOK, OneInsn, Still, NEW f \in BOOLEAN, NEW l \in BOOLEAN, Pipeline(f, l)
    PROVE  /\ ex' = NoInsn /\ new_pc' = NoPc /\ ~pf_cyc' /\ r_halted'
           /\ regset' = regset
  <1>1. cmd_halt /\ ~cmd_reset /\ dbgv = NoWrite
    BY DEF Still
  <1>2. ex = NoInsn /\ ~pf_cyc /\ new_pc = NoPc
    BY DEF Still
  <1>3. ex.at # "alu"
    BY <1>2 DEF NoInsn
  <1>. QED
    BY <1>1, <1>2, <1>3, PipelineHalted

LEMMA BreakStays ==
    ASSUME CpuTypeOK, OneInsn, op_break, new_pc = NoPc, ~cmd_reset, dbgv = NoWrite,
           NEW f \in BOOLEAN, NEW l \in BOOLEAN, Pipeline(f, l)
    PROVE  /\ o_break /\ ~Issue /\ ex = NoInsn
           /\ op_break' /\ op' # NoInsn /\ ex' = NoInsn /\ new_pc' = NoPc
  <1>1. op # NoInsn /\ dcd = NoInsn /\ ex = NoInsn /\ o_break /\ ~Issue
    BY DEF op_break, OneInsn, o_break, Issue
  <1>2. op' = op
    BY <1>1 DEF Pipeline, Cleared
  <1>3. ex' = NoInsn
    BY <1>1 DEF Pipeline, NextEx, mem_busy, NoInsn
  <1>4. new_pc' = NoPc
    BY <1>1 DEF Pipeline, FetchFrom, WriteBack, NoInsn
  <1>. QED
    BY <1>1, <1>2, <1>3, <1>4 DEF op_break

LEMMA WriteLands ==
    ASSUME CpuTypeOK, dbgv # NoWrite, cmd_halt, ~cmd_reset, ex = NoInsn,
           NEW f \in BOOLEAN, NEW l \in BOOLEAN, Pipeline(f, l)
    PROVE  ex' = NoInsn /\ regset' = [regset EXCEPT ![dbgv.reg] = dbgv.val]
  <1>1. ~Issue
    BY DEF Issue, master_ce
  <1>2. ex' = NoInsn
    BY <1>1 DEF Pipeline, NextEx, mem_busy, NoInsn
  <1>3. regset' = [regset EXCEPT ![dbgv.reg] = dbgv.val]
    BY DEF Pipeline, Written, WriteBack, PcMoves, NoInsn
  <1>. QED
    BY <1>2, <1>3

\* What brings an instruction into the ALU, and the prefetch to a new PC.
LEMMA Causes ==
    ASSUME CpuTypeOK, NEW f \in BOOLEAN, NEW l \in BOOLEAN, Pipeline(f, l)
    PROVE  /\ ex'.at = "alu" => Issue /\ ~cmd_halt /\ ~o_break
           /\ new_pc' # NoPc => cmd_reset \/ dbgv # NoWrite \/ ex.at = "alu"
           /\ r_halted' => cmd_halt
  <1>1. ex'.at = "alu" => Issue
    BY InsnFacts DEF Pipeline, NextEx, mem_busy, NoInsn, CpuTypeOK, Executing
  <1>2. Issue => ~cmd_halt /\ ~o_break
    BY DEF Issue, master_ce
  <1>3. new_pc' # NoPc => cmd_reset \/ dbgv # NoWrite \/ ex.at = "alu"
    BY DEF Pipeline, FetchFrom, WriteBack, NoWrite, IsPC, sR0
  <1>4. r_halted' => cmd_halt
    BY DEF Pipeline, Quiet
  <1>. QED
    BY <1>1, <1>2, <1>3, <1>4

----------------------------------------------------------------------------
(* A clock without an access.                                                 *)

LEMMA TickInv ==
    ASSUME DebugInv, NEW f \in BOOLEAN, NEW l \in BOOLEAN, Tick(f, l)
    PROVE  DebugInv'
  <1>. USE GapFacts
  <1>0. CpuTypeOK /\ ProgramTypeOK /\ OneInsn /\ AccessEnds
    BY DEF DebugInv
  \* What TickPort says of this clock.
  <1>t. cmd_reset' = FALSE /\ cmd_step' = FALSE /\ dbgv' = NoWrite /\ cmd_addr' = cmd_addr
    BY <1>0, TickPort
  <1>h. cmd_halt' = IF cmd_reset THEN StartHalted ELSE cmd_halt \/ cmd_step \/ o_break
    BY <1>0, TickPort
  <1>n. /\ ran' = IF Issue /\ ran < 2 THEN ran + 1 ELSE ran
        /\ idle' = IF Issue \/ cmd_reset \/ dbgv # NoWrite THEN 0 ELSE idle
    BY <1>0, TickPort
  <1>p. Pipeline(f, l)
    BY <1>0, TickPort
  <1>g. gap' = IF gap > 0 THEN gap - 1 ELSE 0
    BY <1>0, TickPort
  <1>u. UNCHANGED <<tool, dpc, key, m_cursor, m_show_users_timers, screen, cell, edit, writing, errcount,
                    keys, sessions>>
    BY <1>0, TickPort
  <1>1. CpuTypeOK'
    <2>1. cmd_halt' \in BOOLEAN
      BY <1>h DEF CpuTypeOK
    <2>. QED
      BY <1>0, <1>t, <1>p, <2>1, PipelineType DEF CpuTypeOK
  <1>2. ProgramTypeOK'
    BY <1>0, <1>n, <1>g, <1>u DEF ProgramTypeOK
  <1>3. OneInsn'
    BY <1>0, <1>t, <1>p, PipelineOneInsn DEF AccessEnds, OneInsn
  <1>4. AccessEnds'
    BY <1>t DEF AccessEnds
  <1>5. Settles'
    <2>. SUFFICES ASSUME cmd_halt'
                  PROVE  /\ gap' < MinGap - 1 => ex'.at # "alu"
                         /\ gap' < MinGap - 2 => new_pc' = NoPc
      BY DEF Settles
    <2>1. ~o_break /\ ~cmd_halt /\ ~cmd_reset => gap' = MinGap - 1
      <3>1. ~o_break /\ ~cmd_halt /\ ~cmd_reset => cmd_step
        BY <1>h
      <3>. QED
        BY <1>0, <1>g, <3>1 DEF AccessEnds
    <2>2. cmd_reset \/ dbgv # NoWrite => gap' = MinGap - 1
      BY <1>0, <1>g DEF AccessEnds
    <2>3. gap' < MinGap - 1 => ex'.at # "alu"
      BY <1>0, <2>1, <2>2, <1>p, Causes
    <2>4. ASSUME new_pc' # NoPc
          PROVE  gap' >= MinGap - 2
      <3>1. CASE cmd_reset \/ dbgv # NoWrite
        BY <2>2, <3>1
      <3>2. CASE ~cmd_reset /\ ex.at = "alu"
        <4>1. ~o_break
          BY <1>0, <3>2 DEF OneInsn, o_break, op_break, NoInsn
        <4>2. cmd_halt => gap >= MinGap - 1
          BY <3>2 DEF DebugInv, Settles, ProgramTypeOK
        <4>. QED
          BY <1>0, <2>1, <3>2, <4>1, <4>2, <1>g DEF ProgramTypeOK
      <3>. QED
        BY <1>0, <2>4, <3>1, <3>2, <1>p, Causes
    <2>. QED
      BY <2>3, <2>4, <1>g DEF ProgramTypeOK
  <1>a. Still => Still' /\ regset' = regset
    BY <1>0, <1>t, <1>h, <1>p, StillStays DEF Still
  <1>b. cmd_halt /\ ~cmd_reset => cmd_halt'
    BY <1>h
  <1>c. Wanted' = Wanted
    BY <1>u DEF Wanted
  <1>6. HaltedStays'
    <2>1. Quieting => Quieting'
      <3>. SUFFICES ASSUME Quieting PROVE Quieting'
        OBVIOUS
      <3>1. cmd_halt /\ ~cmd_reset /\ ~cmd_step /\ dbgv = NoWrite
        BY DEF Quieting
      <3>2. cmd_halt' /\ ~cmd_reset' /\ ~cmd_step' /\ dbgv' = NoWrite /\ ex'.at # "alu"
        BY <1>0, <1>b, <3>1, <1>t, <1>p, PipelineHalted
      <3>3. gap' < MinGap - 1 => new_pc' = NoPc
        BY <1>0, <3>1, <1>p, <1>g, PipelineHalted DEF Quieting, ProgramTypeOK
      <3>4. ASSUME gap' < MinGap - 2, r_halted' PROVE ex' = NoInsn /\ ~pf_cyc'
        <4>1. new_pc = NoPc
          BY <3>4, <1>0, <1>g DEF Quieting, ProgramTypeOK
        <4>. QED
          BY <1>0, <3>1, <3>4, <4>1, <1>p, PipelineHalted
      <3>. QED
        BY <3>2, <3>3, <3>4 DEF Quieting
    <2>2. HaltedStays
      BY DEF DebugInv
    <2>. QED
      BY <1>a, <1>c, <2>1, <2>2, <1>t, <1>u DEF HaltedStays
  <1>7. Shown'
    <2>1. Shown /\ HaltedStays
      BY DEF DebugInv
    <2>2. dpc' = dpc /\ writing' = writing /\ cell' = cell /\ screen' = screen /\ tool' = tool
      BY <1>u
    <2>3. ASSUME dpc' \in {"select", "poll", "data"}, ~writing', NEW c \in Cells, c < cell'
          PROVE  Shows(c)'
      <3>1. Shows(c) /\ cell > 0
        BY <1>0, <2>1, <2>2, <2>3 DEF Shown, ProgramTypeOK
      <3>. QED
        BY <1>a, <2>1, <2>2, <2>3, <3>1 DEF Shows, HaltedStays
    <2>4. dpc' = "status" => tool' = "zipdbg" /\ \A c \in Cells : Shows(c)'
      BY <1>a, <2>1, <2>2 DEF Shown, Shows, HaltedStays
    <2>5. dpc' = "key" => screen' = Blank \/ (Still' /\ \A c \in Cells : Shows(c)')
      BY <1>a, <2>1, <2>2 DEF Shown, Shows
    <2>. QED
      BY <2>3, <2>4, <2>5 DEF Shown, Blank
  <1>8. EditWritten'
    <2>1. EditWritten
      BY DEF DebugInv
    <2>2. ASSUME key = "edit", ~writing
          PROVE  /\ Parked'
                 /\ \/ dbgv' = [reg |-> edit.cell % NRegs, val |-> edit.val]
                    \/ dbgv' = NoWrite /\ regset'[edit.cell % NRegs] = edit.val
      <3>1. Parked
        BY <2>1, <2>2 DEF EditWritten
      <3>2. ~cmd_reset' /\ ~cmd_step' /\ cmd_halt' /\ dbgv' = NoWrite
        BY <1>b, <3>1, <1>t DEF Parked
      <3>3. CASE dbgv # NoWrite
        <4>1. dbgv.reg = edit.cell % NRegs /\ dbgv.val = edit.val
          BY <2>1, <2>2, <3>3 DEF EditWritten
        <4>2. dbgv.reg \in Registers
          BY <1>0, <3>3 DEF CpuTypeOK
        <4>3. ex' = NoInsn /\ regset' = [regset EXCEPT ![dbgv.reg] = dbgv.val]
          BY <1>0, <3>1, <3>3, <1>p, WriteLands DEF Parked
        <4>4. regset'[edit.cell % NRegs] = edit.val
          BY <1>0, <4>1, <4>2, <4>3 DEF CpuTypeOK
        <4>. QED
          BY <3>2, <4>3, <4>4 DEF Parked
      <3>4. CASE dbgv = NoWrite
        <4>1. regset[edit.cell % NRegs] = edit.val
          <5>1. edit.cell % NRegs \in Registers
            BY <1>0, <2>1, <2>2 DEF EditWritten, ProgramTypeOK
          <5>2. dbgv # [reg |-> edit.cell % NRegs, val |-> edit.val]
            BY <3>4, <5>1 DEF NoWrite, NoPc, Registers
          <5>. QED
            BY <2>1, <2>2, <5>2 DEF EditWritten
        <4>2. ex' = NoInsn /\ regset' = regset
          BY <1>0, <3>1, <3>4, <1>p, PipelineHalted DEF Parked
        <4>. QED
          BY <3>2, <4>1, <4>2 DEF Parked
      <3>. QED
        BY <3>3, <3>4
    <2>3. /\ dpc' = dpc /\ writing' = writing /\ key' = key /\ edit' = edit
          /\ dbgv' = NoWrite
      BY <1>t, <1>u
    <2>. QED
      BY <2>1, <2>2, <2>3 DEF EditWritten
  <1>d. ~cmd_reset /\ dbgv = NoWrite /\ op_break /\ new_pc = NoPc
          => /\ op_break' /\ op' # NoInsn /\ ex' = NoInsn /\ new_pc' = NoPc /\ ex = NoInsn /\ ~Issue
    BY <1>0, <1>p, BreakStays
  <1>9. SeenHalted'
    <2>. SUFFICES ASSUME dpc \in {"key", "command"}
                  PROVE  /\ cmd_halt' => ex'.at # "alu" /\ new_pc' = NoPc
                         /\ r_halted' => cmd_halt' /\ ex' = NoInsn /\ ~pf_cyc'
      BY <1>t, <1>u DEF SeenHalted
    <2>1. /\ ~cmd_reset /\ ~cmd_step /\ dbgv = NoWrite
          /\ cmd_halt => ex.at # "alu" /\ new_pc = NoPc
      BY DEF DebugInv, SeenHalted
    <2>2. CASE cmd_halt
      <3>1. ex'.at # "alu" /\ new_pc' = NoPc /\ cmd_halt'
        BY <1>0, <1>b, <2>1, <2>2, <1>p, PipelineHalted
      <3>2. r_halted' => ex' = NoInsn /\ ~pf_cyc'
        BY <1>0, <2>1, <2>2, <1>p, PipelineHalted
      <3>. QED
        BY <3>1, <3>2
    <2>3. CASE ~cmd_halt
      <3>1. ~r_halted'
        BY <1>0, <2>3, <1>p, Causes
      <3>2. cmd_halt' => op_break /\ new_pc = NoPc
        BY <2>1, <2>3, <1>h DEF o_break
      <3>. QED
        BY <1>d, <2>1, <3>1, <3>2 DEF NoInsn
    <2>. QED
      BY <2>2, <2>3
  <1>10. CommandKeys'
    BY <1>u DEF DebugInv, CommandKeys
  <1>11. OneClock'
    <2>. SUFFICES ASSUME key = "s", dpc # "command"
                  PROVE  cmd_halt' /\ ran' <= 1
      BY <1>t, <1>u DEF OneClock
    <2>1. ~cmd_reset /\ (IF cmd_step THEN ran = 0 ELSE cmd_halt /\ ran <= 1)
      BY DEF DebugInv, OneClock
    <2>2. cmd_halt'
      BY <2>1, <1>h DEF CpuTypeOK
    <2>3. cmd_halt => ~Issue
      BY DEF Issue, master_ce
    <2>. QED
      BY <2>1, <2>2, <2>3, <1>n DEF ProgramTypeOK
  <1>12. Decoded'
    <2>. SUFFICES ASSUME idle' >= 1 PROVE Decoded'
      BY <1>2 DEF Decoded, ProgramTypeOK
    <2>1. idle' = idle /\ idle >= 1 /\ ~Issue /\ ~cmd_reset /\ dbgv = NoWrite
      BY <1>n
    <2>2. /\ cmd_halt \/ cmd_step
          /\ new_pc = NoPc /\ ex = NoInsn
          /\ dcd # NoInsn \/ op # NoInsn \/ (idle = 1 /\ cmd_step /\ pf.valid)
          /\ idle >= 2 => op_break \/ (idle = 2 /\ cmd_step /\ op # NoInsn)
      BY <2>1 DEF DebugInv, Decoded
    <2>3. cmd_halt' /\ ex' = NoInsn /\ new_pc' = NoPc
      <3>1. cmd_halt'
        BY <2>1, <2>2, <1>h
      <3>2. ex' = NoInsn
        BY <2>1, <2>2, <1>p DEF Pipeline, NextEx, mem_busy, NoInsn
      <3>3. new_pc' = NoPc
        BY <1>0, <2>1, <2>2, <1>p, Causes DEF NoInsn
      <3>. QED
        BY <3>1, <3>2, <3>3
    <2>4. dcd # NoInsn \/ op # NoInsn => op' # NoInsn
      BY <2>1, <2>2, <1>p DEF Pipeline, Cleared
    <2>5. op_break => op_break'
      BY <1>d, <2>1, <2>2
    <2>6. CASE cmd_halt
      <3>1. ~cmd_step
        BY <2>6 DEF DebugInv, AccessEnds
      <3>2. op' # NoInsn /\ (idle >= 2 => op_break')
        BY <2>2, <2>4, <2>5, <3>1
      <3>. QED
        BY <2>1, <2>3, <3>2 DEF Decoded
    <2>7. CASE ~cmd_halt /\ op # NoInsn
      <3>1. op_break
        BY <2>1, <2>2, <2>7 DEF Issue, master_ce, o_break
      <3>. QED
        BY <2>1, <2>3, <2>4, <2>5, <2>7, <3>1 DEF Decoded
    <2>8. CASE ~cmd_halt /\ op = NoInsn
      <3>1. ~op_break /\ ~o_break /\ idle = 1
        BY <1>0, <2>1, <2>2, <2>8 DEF op_break, o_break, ProgramTypeOK
      <3>2. dcd = NoInsn => Consume
        BY <2>2, <2>8, <3>1 DEF Consume, dcd_stalled, master_ce, mem_busy, NoInsn
      <3>3. dcd = NoInsn => dcd' # NoInsn
        BY <1>0, <2>1, <2>2, <3>2, <1>p
           DEF Pipeline, Cleared, CpuTypeOK, NoInsn, NoPc, Addresses, CodeSize
      <3>. QED
        BY <2>1, <2>3, <2>4, <3>1, <3>3 DEF Decoded
    <2>. QED
      BY <2>6, <2>7, <2>8
  <1>13. LetGo'
    <2>. SUFFICES ASSUME dpc = "done", key = "g", cmd_halt'
                  PROVE  op_break' /\ new_pc' = NoPc
      BY <1>t, <1>u DEF LetGo
    <2>1. ~cmd_reset /\ ~cmd_step /\ dbgv = NoWrite /\ (cmd_halt => op_break /\ new_pc = NoPc)
      BY DEF DebugInv, LetGo
    <2>2. op_break /\ new_pc = NoPc
      BY <2>1, <1>h DEF o_break
    <2>. QED
      BY <1>d, <2>1, <2>2
  <1>14. EditInView'
    BY <1>u DEF DebugInv, EditInView, CellAtCursor
  <1>. QED
    BY <1>1, <1>2, <1>3, <1>4, <1>5, <1>6, <1>7, <1>8, <1>9, <1>10, <1>11, <1>12, <1>13, <1>14
       DEF DebugInv
----------------------------------------------------------------------------
(* A clock with an access.                                                    *)

LEMMA AccessInv ==
    ASSUME DebugInv, Access
    PROVE  DebugInv'
  <1>. USE GapFacts
  <1>0. CpuTypeOK /\ ProgramTypeOK /\ OneInsn /\ CommandKeys
    BY DEF DebugInv
  \* What AccessPort says of this clock.
  <1>q. gap = 0 /\ ~cmd_reset /\ ~cmd_step /\ dbgv = NoWrite
    BY AccessPort
  <1>t. /\ cmd_reset' = (dpc = "command" /\ key = "r")
        /\ cmd_step' = (dpc = "command" /\ key = "s")
    BY AccessPort
  <1>r. cmd_addr' = IF dpc = "select" THEN Wanted % NRegs
                    ELSE IF dpc \in {"halt", "command"} THEN 0 ELSE cmd_addr
    BY AccessPort
  <1>h. cmd_halt' = IF dpc \in {"halt", "select"} THEN TRUE
                    ELSE IF dpc = "command" THEN key = "r" ELSE cmd_halt \/ o_break
    BY AccessPort
  <1>w. dbgv' = IF dpc = "data" /\ writing THEN [reg |-> cmd_addr, val |-> edit.val]
                ELSE NoWrite
    BY AccessPort
  <1>n. /\ ran' = IF dpc = "command" /\ key \in {"s", "g"} THEN 0
                  ELSE IF Issue /\ ran < 2 THEN ran + 1 ELSE ran
        /\ idle' = IF Issue \/ (dpc = "command" /\ key = "g") THEN 0
                   ELSE IF dpc = "command" /\ key = "s" /\ r_halted /\ idle < 3 THEN idle + 1
                   ELSE idle
    BY AccessPort
  <1>u. gap' = MinGap /\ UNCHANGED <<tool, key, m_cursor, m_show_users_timers, edit, keys, sessions>>
    BY AccessPort
  <1>p. PICK f \in BOOLEAN, l \in BOOLEAN : Pipeline(f, l)
    BY AccessPort
  \* What becomes of the program.
  <1>m. Halt \/ Look \/ Check \/ Select \/ Poll \/ ReadData \/ WriteData \/ ReadStatus \/ Command
    BY DEF Access
  <1>x. Wanted \in Cells
    BY DEF DebugInv, Wanted, EditWritten, ProgramTypeOK
  <1>1. CpuTypeOK'
    <2>1. cmd_halt' \in BOOLEAN
      BY <1>0, <1>h DEF CpuTypeOK
    <2>2. cmd_addr' \in Registers
      BY <1>0, <1>r, <1>x DEF CpuTypeOK, Registers
    <2>3. writing => edit.val \in Addresses
      BY <1>0 DEF DebugInv, EditWritten, ProgramTypeOK
    <2>4. dbgv' \in [reg : Registers, val : Addresses] \cup {NoWrite}
      BY <1>0, <1>w, <2>3 DEF CpuTypeOK
    <2>. QED
      BY <1>0, <1>t, <1>p, <2>1, <2>2, <2>4, PipelineType DEF CpuTypeOK
  <1>2. ProgramTypeOK'
    <2>1. gap' \in 0 .. MinGap /\ ran' \in 0 .. 2 /\ idle' \in 0 .. 3
      BY <1>0, <1>n, <1>u DEF ProgramTypeOK
    <2>2. writing' \in BOOLEAN /\ errcount' \in Nat
      <3>1. CASE Halt \/ Check \/ Select \/ ReadData \/ WriteData \/ ReadStatus \/ Command
        BY <1>0, <3>1 DEF ProgramTypeOK, Halt, Check, Select, ReadData, WriteData, ReadStatus, Command
      <3>2. CASE Look
        BY <1>0, <3>2 DEF ProgramTypeOK, Look
      <3>3. CASE Poll
        BY <1>0, <3>3 DEF ProgramTypeOK, Poll
      <3>. QED
        BY <1>m, <3>1, <3>2, <3>3
    <2>3. cell' \in Cells
      <3>1. CASE ReadData
        <4>1. LastCell \in Nat /\ LastCell <= LastPeripheral
          BY DebugAssumption DEF LastCell, LastPeripheral, NRegs
        <4>2. cell' = 0 \/ (cell' = cell + 1 /\ cell < LastCell)
          BY <3>1 DEF ReadData
        <4>3. cell \in Nat
          BY <1>0 DEF ProgramTypeOK
        <4>. QED
          BY <4>1, <4>2, <4>3, DebugAssumption DEF Cells, LastPeripheral, NRegs
      <3>2. CASE ~ReadData
        BY <1>0, <1>m, <3>2 DEF ProgramTypeOK, Halt, Look, Check, Select, Poll, WriteData,
                                ReadStatus, Command
      <3>. QED
        BY <3>1, <3>2
    <2>4. screen' \in [Cells -> Addresses \cup {NoPc}]
      <3>1. CASE ReadData
        BY <1>0, <3>1 DEF ReadData, ProgramTypeOK, CpuTypeOK
      <3>2. CASE Check
        BY <1>0, <3>2 DEF Check, ProgramTypeOK, Blank
      <3>3. CASE ~ReadData /\ ~Check
        BY <1>0, <1>m, <3>3 DEF ProgramTypeOK, Halt, Look, Select, Poll, WriteData,
                                ReadStatus, Command
      <3>. QED
        BY <3>1, <3>2, <3>3
    <2>. QED
      BY <1>0, <1>u, <2>1, <2>2, <2>3, <2>4 DEF ProgramTypeOK
  <1>a. Still => ex' = NoInsn /\ new_pc' = NoPc /\ ~pf_cyc' /\ r_halted' /\ regset' = regset
    BY <1>0, <1>p, StillStays
  <1>b. Still /\ dpc # "command" /\ ~(dpc = "data" /\ writing) => Still'
    BY <1>a, <1>t, <1>h, <1>w DEF Still
  <1>c. dpc = "data" => Still
    BY DEF DebugInv, HaltedStays
  <1>3. OneInsn'
    <2>1. dbgv # NoWrite => cmd_halt
      BY <1>q
    <2>2. dbgv' # NoWrite => ex' = NoInsn
      BY <1>a, <1>c, <1>w
    <2>. QED
      BY <1>0, <1>p, <2>1, <2>2, PipelineOneInsn DEF OneInsn
  <1>4. AccessEnds'
    BY <1>a, <1>c, <1>t, <1>h, <1>w, <1>u DEF AccessEnds, Still
  <1>5. Settles'
    BY <1>u DEF Settles
  <1>6. HaltedStays'
    <2>1. dpc' = "poll" => Quieting'
      <3>a. ~(gap' < MinGap) /\ ~(gap' < MinGap - 1) /\ ~(gap' < MinGap - 2)
        BY <1>u
      <3>1. CASE Select
        <4>1. cmd_halt' /\ ~cmd_reset' /\ ~cmd_step' /\ dbgv' = NoWrite
          BY <1>t, <1>h, <1>w, <3>1 DEF Select
        <4>. QED
          BY <3>a, <4>1 DEF Quieting
      <3>2. CASE Poll
        <4>1. cmd_halt /\ dpc = "poll"
          BY <3>2 DEF DebugInv, HaltedStays, Quieting, Poll
        <4>2. cmd_halt' /\ ~cmd_reset' /\ ~cmd_step' /\ dbgv' = NoWrite
          BY <1>t, <1>h, <1>w, <4>1
        <4>. QED
          BY <3>a, <4>2 DEF Quieting
      <3>3. CASE ~Select /\ ~Poll
        BY <1>m, <3>3 DEF Halt, Look, Check, ReadData, WriteData, ReadStatus, Command
      <3>. QED
        BY <3>1, <3>2, <3>3
    <2>2. dpc' = "data" => dpc = "poll" /\ Still
      <3>. SUFFICES ASSUME dpc' = "data" PROVE dpc = "poll" /\ Still
        OBVIOUS
      <3>1. dpc = "poll" /\ r_halted
        BY <1>m DEF Halt, Look, Check, Select, Poll, ReadData, WriteData, ReadStatus, Command
      <3>. QED
        BY <1>q, <3>1 DEF DebugInv, HaltedStays, Quieting, Still
    <2>3. dpc' = "status" => dpc = "data" /\ ~writing
      BY <1>m DEF Halt, Look, Check, Select, Poll, ReadData, WriteData, ReadStatus, Command
    <2>4. ASSUME dpc' \in {"poll", "data"} PROVE cmd_addr' = Wanted' % NRegs
      <3>1. CASE Select
        BY <1>r, <1>u, <3>1 DEF Select, Wanted
      <3>2. CASE Poll
        BY <1>r, <1>u, <3>2 DEF Poll, Wanted, DebugInv, HaltedStays
      <3>3. CASE ~Select /\ ~Poll
        BY <1>m, <2>4, <3>3 DEF Halt, Look, Check, ReadData, WriteData, ReadStatus, Command
      <3>. QED
        BY <3>1, <3>2, <3>3
    <2>5. ASSUME dpc' \in {"select", "poll", "data"}, ~writing', cell' > 0
          PROVE  Still /\ dpc \in {"select", "poll", "data"} /\ ~writing
      <3>1. \/ dpc \in {"select", "poll"} /\ writing' = writing /\ cell' = cell
            \/ dpc = "data" /\ ~writing
        BY <1>m, <2>5 DEF Halt, Look, Check, Select, Poll, ReadData, WriteData, ReadStatus, Command
      <3>. QED
        BY <1>c, <2>5, <3>1 DEF DebugInv, HaltedStays
    <2>. QED
      BY <1>b, <1>c, <2>1, <2>2, <2>3, <2>4, <2>5 DEF HaltedStays
  <1>7. Shown'
    <2>1. ASSUME dpc' \in {"select", "poll", "data"}, ~writing', NEW c \in Cells, c < cell'
          PROVE  Shows(c)'
      <3>1. CASE ReadData
        <4>1. regset' = regset /\ cmd_addr = cell % NRegs
          BY <1>a, <1>c, <3>1 DEF ReadData, DebugInv, HaltedStays, Wanted
        <4>2. cell \in Nat /\ cell' \in {0, cell + 1}
          BY <1>0, <3>1 DEF ProgramTypeOK, ReadData
        <4>3. c # cell => c < cell
          BY <2>1, <4>2
        <4>4. c # cell => Shows(c)
          BY <3>1, <4>2, <4>3 DEF DebugInv, Shown, ReadData
        <4>5. screen' = [screen EXCEPT ![cell] = regset[cell % NRegs]]
          BY <3>1, <4>1 DEF ReadData
        <4>. QED
          BY <1>0, <4>1, <4>3, <4>4, <4>5 DEF Shows, ProgramTypeOK, Cells
      <3>2. CASE Select \/ Poll
        <4>1. /\ dpc \in {"select", "poll"}
              /\ writing' = writing /\ cell' = cell /\ screen' = screen
          BY <3>2 DEF Select, Poll
        <4>2. Shows(c) /\ cell > 0
          BY <1>0, <2>1, <4>1 DEF DebugInv, Shown, ProgramTypeOK
        <4>3. regset' = regset
          BY <1>a, <2>1, <4>1, <4>2 DEF DebugInv, HaltedStays
        <4>. QED
          BY <4>1, <4>2, <4>3 DEF Shows
      <3>3. CASE ~ReadData /\ ~Select /\ ~Poll
        BY <1>m, <2>1, <3>3 DEF Halt, Look, Check, WriteData, ReadStatus, Command
      <3>. QED
        BY <3>1, <3>2, <3>3
    <2>2. ASSUME dpc' = "status" PROVE tool' = "zipdbg" /\ \A c \in Cells : Shows(c)'
      <3>1. ReadData
        BY <1>m, <2>2 DEF Halt, Look, Check, Select, Poll, WriteData, ReadStatus, Command
      <3>2. tool = "zipdbg" /\ ~(cell < LastCell)
        BY <2>2, <3>1 DEF ReadData
      <3>3. cell = LastPeripheral
        BY <1>0, <3>2, DebugAssumption DEF ProgramTypeOK, Cells, LastCell, LastPeripheral, NRegs
      <3>4. regset' = regset /\ cmd_addr = cell % NRegs
        BY <1>a, <1>c, <3>1 DEF ReadData, DebugInv, HaltedStays, Wanted
      <3>5. \A c \in Cells : c # cell => Shows(c)
        <4>1. \A c \in Cells : c < cell => Shows(c)
          BY <3>1 DEF DebugInv, Shown, ReadData
        <4>. QED
          BY <3>3, <4>1, DebugAssumption DEF Cells, LastPeripheral, NRegs
      <3>6. screen' = [screen EXCEPT ![cell] = regset[cell % NRegs]]
        BY <3>1, <3>4 DEF ReadData
      <3>. QED
        BY <1>0, <1>u, <3>2, <3>4, <3>5, <3>6 DEF Shows, ProgramTypeOK
    <2>3. ASSUME dpc' = "key" PROVE screen' = Blank \/ (Still' /\ \A c \in Cells : Shows(c)')
      <3>1. screen' = Blank \/ (dpc = "status" /\ screen' = screen)
        BY <1>m, <2>3 DEF Halt, Look, Check, Select, Poll, ReadData, WriteData, ReadStatus, Command
      <3>2. dpc = "status" => Still /\ \A c \in Cells : Shows(c)
        BY DEF DebugInv, HaltedStays, Shown
      <3>. QED
        BY <1>a, <1>b, <3>1, <3>2 DEF Shows
    <2>. QED
      BY <2>1, <2>2, <2>3 DEF Shown, Blank
  <1>8. EditWritten'
    <2>1. EditWritten
      BY DEF DebugInv
    <2>2. dpc' # "command"
      BY <1>m DEF Halt, Look, Check, Select, Poll, ReadData, WriteData, ReadStatus, Command
    <2>3. ASSUME writing' PROVE writing /\ dpc' \in {"select", "poll", "data", "failed"}
      <3>1. writing
        BY <1>m, <2>3 DEF Halt, Look, Check, Select, Poll, ReadData, WriteData, ReadStatus, Command
      <3>2. Select \/ Poll
        BY <1>m, <2>1, <2>3, <3>1 DEF EditWritten, Halt, Look, Check, ReadData, WriteData,
                                       ReadStatus, Command
      <3>. QED
        BY <3>1, <3>2 DEF Select, Poll
    <2>4. dbgv' # NoWrite => key = "edit" /\ dpc' = "check"
      <3>1. dbgv' # NoWrite => WriteData /\ writing
        BY <1>m, <1>w DEF Halt, Look, Check, Select, Poll, ReadData, WriteData, ReadStatus, Command
      <3>. QED
        BY <2>1, <3>1 DEF EditWritten, WriteData
    <2>5. ASSUME key = "edit", ~writing'
          PROVE  /\ Parked'
                 /\ \/ dbgv' = [reg |-> edit.cell % NRegs, val |-> edit.val]
                    \/ dbgv' = NoWrite /\ regset'[edit.cell % NRegs] = edit.val
      <3>0. dpc # "command"
        BY <2>1, <2>5 DEF EditWritten
      <3>1. CASE writing
        <4>1. dpc = "data"
          BY <1>m, <2>1, <2>5, <3>1 DEF EditWritten, Halt, Look, Check, Select, Poll, ReadData,
                                        WriteData, ReadStatus, Command
        <4>2. cmd_addr = edit.cell % NRegs
          BY <3>1, <4>1 DEF DebugInv, HaltedStays, Wanted
        <4>. QED
          BY <1>a, <1>c, <1>t, <1>h, <1>w, <3>1, <4>1, <4>2 DEF Parked, Still
      <3>2. CASE ~writing
        <4>1. Parked
          BY <2>1, <2>5, <3>2 DEF EditWritten
        <4>2. regset[edit.cell % NRegs] = edit.val
          <5>1. edit.cell % NRegs \in Registers
            BY <1>0, <2>1, <2>5 DEF EditWritten, ProgramTypeOK
          <5>2. dbgv # [reg |-> edit.cell % NRegs, val |-> edit.val]
            BY <1>q, <5>1 DEF NoWrite, NoPc, Registers
          <5>. QED
            BY <2>1, <2>5, <3>2, <5>2 DEF EditWritten
        <4>3. ex' = NoInsn /\ regset' = regset
          BY <1>0, <1>p, <1>q, <4>1, PipelineHalted DEF Parked
        <4>4. cmd_halt' /\ ~cmd_reset' /\ ~cmd_step' /\ dbgv' = NoWrite
          BY <1>t, <1>h, <1>w, <3>0, <3>2, <4>1 DEF Parked
        <4>. QED
          BY <4>2, <4>3, <4>4 DEF Parked
      <3>. QED
        BY <3>1, <3>2
    <2>. QED
      BY <1>u, <2>1, <2>2, <2>3, <2>4, <2>5 DEF EditWritten
  <1>d. op_break /\ new_pc = NoPc => /\ op_break' /\ op' # NoInsn /\ ex' = NoInsn /\ new_pc' = NoPc
                                     /\ ex = NoInsn /\ ~Issue
    BY <1>0, <1>p, <1>q, BreakStays
  <1>9. SeenHalted'
    <2>. SUFFICES ASSUME dpc' = "key"
                  PROVE  /\ cmd_halt' => ex'.at # "alu" /\ new_pc' = NoPc
                         /\ r_halted' => cmd_halt' /\ ex' = NoInsn /\ ~pf_cyc'
                         /\ ~cmd_reset' /\ ~cmd_step' /\ dbgv' = NoWrite
      <3>1. dpc' # "command"
        BY <1>m DEF Halt, Look, Check, Select, Poll, ReadData, WriteData, ReadStatus, Command
      <3>. QED
        BY <3>1 DEF SeenHalted
    <2>0. dpc \in {"check", "status"}
      BY <1>m DEF Halt, Look, Check, Select, Poll, ReadData, WriteData, ReadStatus, Command
    <2>1. cmd_halt => ex.at # "alu" /\ new_pc = NoPc
      BY <1>q DEF DebugInv, Settles
    <2>2. CASE cmd_halt
      <3>1. ex'.at # "alu" /\ new_pc' = NoPc
        BY <1>0, <1>p, <1>q, <2>1, <2>2, PipelineHalted
      <3>2. r_halted' => ex' = NoInsn /\ ~pf_cyc'
        BY <1>0, <1>p, <1>q, <2>1, <2>2, PipelineHalted
      <3>. QED
        BY <1>t, <1>h, <1>w, <2>0, <2>2, <3>1, <3>2
    <2>3. CASE ~cmd_halt
      <3>1. ~r_halted'
        BY <1>0, <1>p, <2>3, Causes
      <3>2. cmd_halt' => op_break /\ new_pc = NoPc
        BY <1>h, <2>0, <2>3 DEF o_break
      <3>3. cmd_halt' => ex'.at # "alu" /\ new_pc' = NoPc
        BY <1>d, <3>2 DEF NoInsn
      <3>. QED
        BY <1>t, <1>w, <2>0, <3>1, <3>3
    <2>. QED
      BY <2>2, <2>3
  <1>10. CommandKeys'
    <2>1. key = "g" => dpc = "command"
      <3>1. dpc # "done"
        BY <1>m DEF Halt, Look, Check, Select, Poll, ReadData, WriteData, ReadStatus, Command
      <3>. QED
        BY <1>0, <3>1 DEF CommandKeys
    <2>2. dpc' # "command" /\ (dpc = "command" /\ key = "g" => dpc' = "done")
      BY <1>m DEF Halt, Look, Check, Select, Poll, ReadData, WriteData, ReadStatus, Command
    <2>. QED
      BY <1>u, <2>1, <2>2 DEF CommandKeys
  <1>e. cmd_halt => ~Issue
    BY DEF Issue, master_ce
  <1>11. OneClock'
    <2>. SUFFICES ASSUME key = "s"
                  PROVE  ~cmd_reset' /\ (IF cmd_step' THEN ran' = 0 ELSE cmd_halt' /\ ran' <= 1)
      BY <1>u DEF OneClock
    <2>1. CASE dpc = "command"
      BY <1>t, <1>n, <2>1
    <2>2. CASE dpc # "command"
      <3>1. cmd_halt /\ ran <= 1
        BY <1>q, <2>2 DEF DebugInv, OneClock
      <3>. QED
        BY <1>e, <1>t, <1>h, <1>n, <2>2, <3>1
    <2>. QED
      BY <2>1, <2>2
  <1>12. Decoded'
    <2>. SUFFICES ASSUME idle' >= 1 PROVE Decoded'
      BY <1>2 DEF Decoded, ProgramTypeOK
    <2>1. idle >= 1 => /\ cmd_halt /\ new_pc = NoPc /\ ex = NoInsn
                       /\ dcd # NoInsn \/ op # NoInsn
                       /\ idle >= 2 => op_break
      BY <1>q DEF DebugInv, Decoded
    <2>2. cmd_halt => /\ ex = NoInsn => ex' = NoInsn
                      /\ ex.at # "alu" => new_pc' = NoPc
                      /\ ex = NoInsn /\ new_pc = NoPc => op' = IF dcd # NoInsn THEN dcd ELSE op
                      /\ new_pc = NoPc /\ pf.valid => pf'.valid
      BY <1>0, <1>p, <1>q, PipelineHalted
    <2>3. CASE dpc = "command" /\ key = "s" /\ r_halted
      <3>1. cmd_halt /\ ex = NoInsn /\ new_pc = NoPc /\ ~pf_cyc
        BY <2>3 DEF DebugInv, SeenHalted
      <3>2. pf'.valid
        BY <1>0, <2>2, <3>1 DEF OneInsn
      <3>3. cmd_step' /\ idle' \in {idle, idle + 1} /\ (idle' = idle => idle >= 2)
        <4>1. idle' = IF idle < 3 THEN idle + 1 ELSE idle
          BY <1>e, <1>n, <2>3, <3>1
        <4>2. cmd_step'
          BY <1>t, <2>3
        <4>. QED
          BY <1>0, <4>1, <4>2 DEF ProgramTypeOK
      <3>4. ex' = NoInsn /\ new_pc' = NoPc
        BY <2>2, <3>1 DEF NoInsn
      <3>5. idle >= 1 => op' # NoInsn
        BY <2>1, <2>2, <3>1
      <3>6. idle >= 2 => op_break'
        BY <1>0, <1>d, <2>1 DEF ProgramTypeOK
      <3>. QED
        BY <1>0, <3>2, <3>3, <3>4, <3>5, <3>6 DEF Decoded, ProgramTypeOK
    <2>4. CASE ~(dpc = "command" /\ key = "s" /\ r_halted)
      <3>1. idle' = idle /\ idle >= 1 /\ ~(dpc = "command" /\ key = "g")
        BY <1>n, <2>4
      <3>2. cmd_halt' \/ cmd_step'
        BY <1>0, <1>h, <1>t, <2>1, <3>1 DEF CommandKeys
      <3>3. ex' = NoInsn /\ new_pc' = NoPc /\ op' # NoInsn
        BY <2>1, <2>2, <3>1 DEF NoInsn
      <3>4. idle >= 2 => op_break'
        BY <1>d, <2>1, <3>1
      <3>. QED
        BY <3>1, <3>2, <3>3, <3>4 DEF Decoded
    <2>. QED
      BY <2>3, <2>4
  <1>13. LetGo'
    <2>. SUFFICES ASSUME dpc' = "done", key = "g"
                  PROVE  ~cmd_reset' /\ ~cmd_step' /\ dbgv' = NoWrite /\ ~cmd_halt'
      BY <1>u DEF LetGo
    <2>1. dpc = "command"
      <3>1. dpc # "done"
        BY <1>m DEF Halt, Look, Check, Select, Poll, ReadData, WriteData, ReadStatus, Command
      <3>. QED
        BY <1>0, <3>1 DEF CommandKeys
    <2>. QED
      BY <1>h, <1>t, <1>w, <2>1
  <1>14. EditInView'
    BY <1>u DEF DebugInv, EditInView, CellAtCursor
  <1>. QED
    BY <1>1, <1>2, <1>3, <1>4, <1>5, <1>6, <1>7, <1>8, <1>9, <1>10, <1>11, <1>12, <1>13, <1>14
       DEF DebugInv

----------------------------------------------------------------------------
(* What leaves the CPU alone: a key, and the start of a program.              *)

LEMMA PressInv ==
    ASSUME DebugInv,
           \/ Go \/ Reset \/ Step \/ Quit \/ OtherKey \/ MoveCursor \/ EditValue
           \/ \E users \in BOOLEAN : ShowTimers(users)
    PROVE  DebugInv'
  <1>. USE GapFacts
  <1>. DEFINE Pressed ==
                 \/ Go \/ Reset \/ Step \/ Quit \/ OtherKey \/ MoveCursor \/ EditValue
                 \/ \E users \in BOOLEAN : ShowTimers(users)
  <1>0. /\ dpc = "key" /\ Pressed
        /\ OnlyPressed
    BY DEF Go, Reset, Step, Quit, OtherKey, MoveCursor, EditValue, ShowTimers, Press
  <1>1. /\ UNCHANGED cpuVars
        /\ tool' = tool /\ screen' = screen /\ cell' = cell /\ errcount' = errcount
        /\ gap' = gap /\ ran' = ran /\ idle' = idle
    BY <1>0 DEF OnlyPressed
  <1>2. /\ cmd_reset' = cmd_reset /\ cmd_halt' = cmd_halt /\ cmd_step' = cmd_step
        /\ cmd_addr' = cmd_addr /\ regset' = regset /\ new_pc' = new_pc /\ pf' = pf
        /\ pf_cyc' = pf_cyc /\ dcd' = dcd /\ op' = op /\ ex' = ex /\ dbgv' = dbgv
        /\ r_halted' = r_halted
    BY <1>1 DEF cpuVars
  <1>. HIDE DEF Pressed
  <1>3. \/ key' = "g" /\ dpc' = "command" /\ edit' = NoEdit /\ writing' = writing
        \/ key' = "r" /\ dpc' = "command" /\ edit' = NoEdit /\ writing' = writing
        \/ key' = "s" /\ dpc' = "command" /\ edit' = NoEdit /\ writing' = writing
        \/ key' = "q" /\ dpc' = "done" /\ edit' = NoEdit /\ writing' = writing
        \/ key' = "other" /\ dpc' = "check" /\ edit' = NoEdit /\ writing' = writing
        \/ /\ key' = "edit" /\ dpc' = "select" /\ writing' = TRUE /\ CellAtCursor \in Editable
           /\ \E v \in Values : edit' = [cell |-> CellAtCursor, val |-> v]
    BY <1>0 DEF Pressed, Go, Reset, Step, Quit, OtherKey, MoveCursor, EditValue, ShowTimers,
                    Press, NotTyped
  <1>4. ~writing
    BY <1>0 DEF DebugInv, EditWritten
  <1>5. m_cursor' \in Cells /\ m_show_users_timers' \in BOOLEAN
    <2>1. m_cursor' = m_cursor \/ MoveCursor
      BY <1>0 DEF Pressed, Go, Reset, Step, Quit, OtherKey, EditValue, ShowTimers, ViewKept
    <2>2. m_cursor \in Cells /\ m_show_users_timers \in BOOLEAN
      BY DEF DebugInv, ProgramTypeOK
    <2>3. MoveCursor => m_cursor' \in Cells
      BY <2>2, DebugAssumption DEF MoveCursor, LastCursor, Cells, LastPeripheral, NRegs
    <2>4. m_show_users_timers' \in BOOLEAN
      BY <1>0, <2>2 DEF Pressed, Go, Reset, Step, Quit, OtherKey, MoveCursor, EditValue,
                         ShowTimers, ViewKept
    <2>. QED
      BY <2>1, <2>2, <2>3, <2>4
  <1>6. edit' \in [cell : Cells, val : Addresses] \cup {NoEdit}
    <2>1. ASSUME CellAtCursor \in Editable, NEW v \in Values,
                 edit' = [cell |-> CellAtCursor, val |-> v]
          PROVE  edit' \in [cell : Cells, val : Addresses]
      BY <2>1, DebugAssumption
    <2>. QED
      BY <1>3, <2>1
  <1>7. CpuTypeOK' /\ OneInsn' /\ AccessEnds' /\ Settles'
    BY <1>1, <1>2 DEF DebugInv, CpuTypeOK, OneInsn, AccessEnds, Settles
  <1>8. ProgramTypeOK'
    BY <1>1, <1>3, <1>5, <1>6 DEF DebugInv, ProgramTypeOK
  <1>9. HaltedStays' /\ Shown'
    BY <1>3, <1>4 DEF HaltedStays, Shown
  <1>10. EditWritten'
    <2>1. dbgv' = NoWrite
      BY <1>0, <1>2 DEF DebugInv, SeenHalted
    <2>2. writing' => key' = "edit" /\ dpc' = "select"
      BY <1>3, <1>4
    <2>3. key' = "edit" => /\ writing' /\ dpc' # "command"
                           /\ edit'.cell \in Editable /\ edit' # NoEdit
      <3>1. ASSUME CellAtCursor \in Editable, NEW v \in Values,
                   edit' = [cell |-> CellAtCursor, val |-> v]
            PROVE  edit'.cell \in Editable /\ edit' # NoEdit
        BY <3>1, DebugAssumption DEF NoEdit, Cells
      <3>. QED
        BY <1>3, <3>1
    <2>. QED
      BY <2>1, <2>2, <2>3 DEF EditWritten
  <1>11. SeenHalted' /\ CommandKeys'
    BY <1>0, <1>2, <1>3 DEF DebugInv, SeenHalted, CommandKeys
  <1>12. OneClock' /\ LetGo'
    BY <1>3 DEF OneClock, LetGo
  <1>13. Decoded'
    BY <1>1, <1>2 DEF DebugInv, Decoded, op_break
  <1>14. EditInView'
    <2>1. key' = "edit" => EditValue
      BY <1>0 DEF Pressed, Go, Reset, Step, Quit, OtherKey, MoveCursor, ShowTimers, Press
    <2>2. EditValue => edit'.cell = CellAtCursor /\ m_cursor' = m_cursor
      BY DEF EditValue, ViewKept
    <2>. QED
      BY <2>1, <2>2 DEF EditInView, CellAtCursor
  <1>. QED
    BY <1>7, <1>8, <1>9, <1>10, <1>11, <1>12, <1>13, <1>14 DEF DebugInv

LEMMA StartInv ==
    ASSUME DebugInv, NEW t \in Tools, Start(t)
    PROVE  DebugInv'
  <1>. USE GapFacts
  <1>1. /\ UNCHANGED <<screen, gap, ran, idle>>
        /\ cmd_reset' = cmd_reset /\ cmd_halt' = cmd_halt /\ cmd_step' = cmd_step
        /\ cmd_addr' = cmd_addr /\ regset' = regset /\ new_pc' = new_pc /\ pf' = pf
        /\ pf_cyc' = pf_cyc /\ dcd' = dcd /\ op' = op /\ ex' = ex /\ dbgv' = dbgv
        /\ r_halted' = r_halted
    BY DEF Start, cpuVars
  <1>2. /\ dpc' \in {"halt", "short", "select"} /\ key' = "none" /\ tool' = t
        /\ m_cursor' = 0 /\ m_show_users_timers' = FALSE /\ cell' = 0 /\ edit' = NoEdit /\ writing' = FALSE /\ errcount' = 0
        /\ dpc \in {"done", "failed"}
    BY DEF Start
  <1>3. CpuTypeOK' /\ OneInsn' /\ AccessEnds' /\ Settles'
    BY <1>1 DEF DebugInv, CpuTypeOK, OneInsn, AccessEnds, Settles
  <1>4. ProgramTypeOK'
    BY <1>1, <1>2 DEF DebugInv, ProgramTypeOK
  <1>5. HaltedStays' /\ Shown'
    BY <1>2 DEF HaltedStays, Shown
  <1>6. EditWritten'
    BY <1>1, <1>2 DEF DebugInv, EditWritten
  <1>7. SeenHalted' /\ CommandKeys' /\ OneClock' /\ LetGo'
    BY <1>2 DEF SeenHalted, CommandKeys, OneClock, LetGo
  <1>8. Decoded'
    BY <1>1 DEF DebugInv, Decoded, op_break
  <1>9. EditInView'
    BY <1>2 DEF EditInView
  <1>. QED
    BY <1>3, <1>4, <1>5, <1>6, <1>7, <1>8, <1>9 DEF DebugInv

----------------------------------------------------------------------------
(* The invariant, and what follows from it.                                   *)

LEMMA InitInv == Init => DebugInv
  <1>. SUFFICES ASSUME Init PROVE DebugInv
    OBVIOUS
  <1>. USE GapFacts
  <1>1. /\ cmd_reset = FALSE /\ cmd_step = FALSE /\ cmd_addr = 0 /\ cmd_halt \in BOOLEAN
        /\ regset = [r \in Registers |-> 0]
        /\ new_pc = 0 /\ pf = [pc |-> 0, valid |-> FALSE] /\ pf_cyc = FALSE
        /\ dcd = NoInsn /\ op = NoInsn /\ ex = NoInsn
        /\ dbgv = NoWrite /\ r_halted = FALSE
    BY DEF Init, CpuInit
  <1>2. /\ tool = "zipdbg" /\ dpc = "done" /\ key = "none"
        /\ m_cursor = 0 /\ m_show_users_timers = FALSE /\ screen = Blank
        /\ cell = 0 /\ edit = NoEdit /\ writing = FALSE /\ errcount = 0
        /\ gap = MinGap /\ ran = 0 /\ idle = 0
    BY DEF Init
  <1>3. CpuTypeOK
    <2>1. 0 \in Addresses /\ 0 \in Registers
      BY DEF Addresses, CodeSize, Registers
    <2>. QED
      BY <1>1, <2>1 DEF CpuTypeOK
  <1>4. ProgramTypeOK
    <2>1. Blank \in [Cells -> Addresses \cup {NoPc}]
      BY DEF Blank
    <2>2. gap \in 0 .. MinGap /\ ran \in 0 .. 2 /\ idle \in 0 .. 3 /\ errcount \in Nat
      BY <1>2
    <2>3. tool \in Tools /\ m_cursor \in Cells /\ m_show_users_timers \in BOOLEAN /\ cell \in Cells
          /\ writing \in BOOLEAN /\ edit \in {NoEdit}
      BY <1>2 DEF Tools
    <2>4. screen \in [Cells -> Addresses \cup {NoPc}]
      BY <1>2, <2>1, Zenon
    <2>. QED
      BY <2>2, <2>3, <2>4 DEF ProgramTypeOK
  <1>5. OneInsn /\ AccessEnds /\ Settles
    BY <1>1, <1>2 DEF OneInsn, AccessEnds, Settles, NoPc
  <1>6. HaltedStays /\ Shown /\ EditWritten /\ SeenHalted /\ CommandKeys
    BY <1>1, <1>2 DEF HaltedStays, Shown, EditWritten, SeenHalted, CommandKeys
  <1>7. OneClock /\ Decoded /\ LetGo /\ EditInView
    BY <1>1, <1>2 DEF OneClock, Decoded, LetGo, EditInView
  <1>. QED
    BY <1>3, <1>4, <1>5, <1>6, <1>7 DEF DebugInv

LEMMA StepInv == DebugInv /\ [Next]_vars => DebugInv'
  <1>. SUFFICES ASSUME DebugInv, [Next]_vars PROVE DebugInv'
    OBVIOUS
  <1>1. CASE Access
    BY <1>1, AccessInv
  <1>2. CASE \E f, l \in BOOLEAN : Tick(f, l)
    BY <1>2, TickInv
  <1>3. CASE \/ Go \/ Reset \/ Step \/ Quit \/ OtherKey \/ MoveCursor \/ EditValue
             \/ \E users \in BOOLEAN : ShowTimers(users)
    BY <1>3, PressInv
  <1>4. CASE \E t \in Tools : Start(t)
    BY <1>4, StartInv
  <1>5. CASE UNCHANGED vars
    <2>1. UNCHANGED <<cmd_reset, cmd_halt, cmd_step, cmd_addr, regset, new_pc, pf, pf_cyc, dcd,
                      op, ex, dbgv, r_halted, tool, dpc, key, m_cursor, m_show_users_timers, screen,
                      cell, errcount, edit, writing, gap, ran, idle>>
      BY <1>5 DEF vars, cpuVars, dbgVars
    <2>. QED
      BY <2>1 DEF DebugInv, CpuTypeOK, ProgramTypeOK, OneInsn, AccessEnds, Settles, HaltedStays,
                  Wanted, Quieting, Still, Shown, Shows, EditWritten, Parked, SeenHalted,
                  CommandKeys, OneClock, Decoded, LetGo, EditInView, CellAtCursor, op_break
  <1>. QED
    BY <1>1, <1>2, <1>3, <1>4, <1>5 DEF Next

LEMMA DebugInvHolds == Spec => []DebugInv
  <1>. QED
    BY InitInv, StepInv, PTL DEF Spec

\* At its prompt zipdbg shows what the registers hold, whatever the CPU was doing
\* when it was halted, stepped or written, and wherever in its clocks the
\* accesses fell.  After an edit the cell at the cursor shows the value typed,
\* but where the user's timers are on the screen: there the value is in the
\* master's timer, which is not shown.
\* (zipdbg.cpp read_raw_state, read_state, get_value; zipcpu.v r_halted)
THEOREM CpuIsShown == Spec => []ShowsTheCpu
  <1>0. DebugInv /\ key = "edit" =>
           edit.cell = IF UsersTimerAtCursor THEN ShownAtCursor - Timers ELSE ShownAtCursor
    <2>1. DebugInv => m_cursor \in Nat
      BY GapFacts DEF DebugInv, ProgramTypeOK
    <2>. QED
      BY <2>1, DebugAssumption DEF DebugInv, EditInView, UsersTimerAtCursor, ShownAtCursor,
                                   CellAtCursor, NRegs
  <1>1. DebugInv => ShowsTheCpu
    <2>. SUFFICES ASSUME DebugInv, dpc = "key" PROVE ShowsTheCpu
      BY DEF ShowsTheCpu
    <2>1. screen = Blank \/ (Still /\ \A c \in Cells : Shows(c))
      BY DEF DebugInv, Shown
    <2>2. CASE screen = Blank
      <3>1. \A c \in Cells : screen[c] = NoPc
        BY <2>2 DEF Blank
      <3>2. key = "edit" => edit.cell \in Cells
        BY DebugAssumption DEF DebugInv, EditWritten
      <3>. QED
        BY <1>0, <3>1, <3>2, GapFacts DEF ShowsTheCpu
    <2>3. CASE Still /\ \A c \in Cells : Shows(c)
      <3>1. \A r \in Registers : screen[r] = regset[r]
        BY <2>3, GapFacts DEF Shows
      <3>2. ASSUME key = "edit" PROVE screen[edit.cell] = edit.val
        <4>1. edit.cell \in Cells /\ ~writing
          BY <3>2, DebugAssumption DEF DebugInv, EditWritten
        <4>2. dbgv # [reg |-> edit.cell % NRegs, val |-> edit.val]
          <5>1. edit.cell % NRegs \in Registers
            BY <4>1, GapFacts
          <5>. QED
            BY <2>3, <5>1 DEF Still, NoWrite, NoPc, Registers
        <4>3. regset[edit.cell % NRegs] = edit.val
          BY <3>2, <4>1, <4>2 DEF DebugInv, EditWritten
        <4>. QED
          BY <2>3, <4>1, <4>3 DEF Shows
      <3>. QED
        BY <1>0, <3>1, <3>2 DEF ShowsTheCpu
    <2>. QED
      BY <2>1, <2>2, <2>3
  <1>. QED
    BY <1>1, DebugInvHolds, PTL

\* No access of the programs to the data register makes the bus wait: a CPU
\* polled as halted is halted for good, until it is told to go on.
\* (zipbones.v dbg_stall; zipcpu.v r_halted; zipdbg.cpp and zipstate.cpp cmd_read)
THEOREM DataNeverStalls == Spec => []NeverStalls
  <1>1. DebugInv => NeverStalls
    BY Asked DEF DebugInv, HaltedStays, Still, NeverStalls
  <1>. QED
    BY <1>1, DebugInvHolds, PTL

\* A step carries out one instruction at most, and three steps of a halted CPU
\* without one are steps at a break.
\* (zipbones.v cmd_step, cmd_halt; zipcpu.v dcd_stalled, master_ce)
THEOREM StepIsOne == Spec => []StepsOne
  <1>1. DebugInv => StepsOne
    <2>. SUFFICES ASSUME DebugInv PROVE StepsOne
      OBVIOUS
    <2>1. key = "s" /\ dpc # "command" => ran <= 1
      BY DEF DebugInv, OneClock
    <2>2. idle > 2 => op_break
      BY DEF DebugInv, Decoded, ProgramTypeOK
    <2>. QED
      BY <2>1, <2>2 DEF StepsOne
  <1>. QED
    BY <1>1, DebugInvHolds, PTL

\* A CPU that zipdbg let go is halted by a break and by nothing else.
\* (zipdbg.cpp key g; zipbones.v cmd_halt)
THEOREM GoneRuns == Spec => []GoneIsRunning
  <1>1. DebugInv => GoneIsRunning
    BY DEF DebugInv, LetGo, GoneIsRunning
  <1>. QED
    BY <1>1, DebugInvHolds, PTL

----------------------------------------------------------------------------
(* The CPU carries out what its registers show, when no user edits the PC of   *)
(* user mode: that register is not the one the fetch is sent to.               *)

UserPcLeft == \A c \in Editable : c % NRegs # uPC

LEMMA StepFollows ==
    ASSUME UserPcLeft
    PROVE  DebugInv /\ PipeFollowsPc /\ [Next]_vars => PipeFollowsPc'
  <1>. SUFFICES ASSUME DebugInv, PipeFollowsPc, [Next]_vars PROVE PipeFollowsPc'
    OBVIOUS
  <1>0. CpuTypeOK /\ OneInsn /\ (dbgv # NoWrite => cmd_halt /\ new_pc = NoPc)
    BY DEF DebugInv, AccessEnds
  <1>1. ASSUME NEW f \in BOOLEAN, NEW l \in BOOLEAN, Pipeline(f, l), dbgv'.reg # uPC
        PROVE  PipeFollowsPc'
    BY <1>0, <1>1, PipelineFollows DEF PipeFollowsPc
  <1>2. CASE Access
    <2>1. dbgv' = NoWrite \/ (writing /\ dpc = "data" /\ dbgv'.reg = cmd_addr)
      BY <1>2, AccessPort
    <2>2. writing /\ dpc = "data" => cmd_addr = edit.cell % NRegs /\ edit.cell \in Editable
      BY DEF DebugInv, HaltedStays, Wanted, EditWritten
    <2>3. dbgv'.reg # uPC
      BY <2>1, <2>2 DEF UserPcLeft, NoWrite, NoPc, uPC
    <2>. QED
      BY <1>1, <1>2, <2>3, AccessPort
  <1>3. ASSUME NEW f \in BOOLEAN, NEW l \in BOOLEAN, Tick(f, l) PROVE PipeFollowsPc'
    <2>1. dbgv' = NoWrite /\ Pipeline(f, l)
      BY <1>0, <1>3, TickPort
    <2>. QED
      BY <1>1, <2>1 DEF NoWrite, NoPc, uPC
  <1>4. CASE UNCHANGED cpuVars
    <2>1. UNCHANGED <<regset, new_pc, pf, dcd, op, ex, dbgv>>
      BY <1>4 DEF cpuVars
    <2>. QED
      BY <2>1 DEF PipeFollowsPc
  <1>5. Access \/ (\E f, l \in BOOLEAN : Tick(f, l)) \/ UNCHANGED cpuVars
    BY DEF Next, vars, Go, Reset, Step, Quit, OtherKey, MoveCursor, EditValue, ShowTimers,
           OnlyPressed, Start
  <1>. QED
    BY <1>2, <1>3, <1>4, <1>5

\* What goes into the ALU or to memory is the instruction at the PC, with the
\* values the registers hold: no jump, load, halt, step, reset or edit leaves
\* anything stale behind.
\* (zipcpu.v dbg_clear_pipe, new_pc, pf_pc)
THEOREM CpuRunsAsShown == ASSUME UserPcLeft PROVE Spec => []RunsAsShown
  <1>1. Init => PipeFollowsPc
    BY DEF Init, CpuInit, PipeFollowsPc, Registers, sPC, uPC, NoPc, NoWrite
  <1>2. DebugInv /\ PipeFollowsPc /\ [Next]_vars => PipeFollowsPc'
    BY StepFollows
  <1>3. PipeFollowsPc => RunsAsShown
    BY DEF PipeFollowsPc, RunsAsShown, Issue
  <1>. QED
    BY <1>1, <1>2, <1>3, DebugInvHolds, PTL DEF Spec

=============================================================================
