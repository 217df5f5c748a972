------------------------------- MODULE MainTb -------------------------------
(* sim/main_tb.cpp, automaster_tb.cpp, testb.h and sim/zipelf.cpp: the simulator *)
(* reads a program from an ELF file into the simulated memories, starts the CPU  *)
(* at its entry, and ticks until the program ends the simulation.  The CPU is    *)
(* what Bootloader makes of the program, and then one last act of main()'s.      *)
EXTENDS Bootloader
CONSTANTS
    Files,                  \* shapes of ELF files, see MCBoardPrograms
    Acts,                   \* what main() comes to, see MCBoardPrograms
    StatusValues,           \* of a process, 256
    BombWait                \* ticks from a break to the end, 12
VARIABLES file, act, sim_at, section, m_done, m_cpu_bombed, status
None == "none"
StillRuns == StatusValues
simVars == <<file, act, sim_at, section, m_done, m_cpu_bombed, status>>

\* The program headers of the file: the program's words, perhaps in two parts,
\* and the BSS, which has no words in the file, anywhere or not at all.  The
\* last part may end inside a word.
Header(m, n, len, ragged) == [in |-> m, at |-> n, len |-> len, ragged |-> ragged]
ProgramWords == IF ld = "bkram" THEN size.image ELSE 1 + Kernel + size.image
ProgramIn == IF ld = "bkram" THEN "bkram" ELSE "flash"
Parts ==
    IF file.cut \in 1 .. ProgramWords - 1
    THEN <<Header(ProgramIn, 0, file.cut, FALSE),
           Header(ProgramIn, file.cut, ProgramWords - file.cut, file.ragged)>>
    ELSE <<Header(ProgramIn, 0, ProgramWords, file.ragged)>>
BssHeader == <<Header(_ram.in, size.image, 0, FALSE)>>
Headers == CASE file.bss = "first" -> BssHeader \o Parts
             [] file.bss = "last" -> Parts \o BssHeader
             [] file.bss = "none" -> Parts

\* elfread(): a header without words gets no section, and the next one takes its
\* place in memory, so that both entries of the list are that section.  The list
\* is ended by emptying its entry number CountSections.
HasWords(h) == h.len > 0
CountSections == Cardinality({k \in DOMAIN Headers : HasWords(Headers[k])})
End == Len(Headers) + 1
Entry(s) ==
    IF \E k \in s .. Len(Headers) : HasWords(Headers[k])
    THEN CHOOSE k \in s .. Len(Headers) :
            HasWords(Headers[k]) /\ \A j \in s .. k - 1 : ~HasWords(Headers[j])
    ELSE End
ListEnds(s) == Entry(s) \in {End, Entry(CountSections + 1)}

\* load(): words of a section as they are in the memory's file or array.  Flash
\* and SDRAM take octets; block RAM takes words, each turned round, but the index
\* is the offset in octets, and a last word that is not whole is not turned.
Turned(w) == <<"turned", w>>
Content(h, k) ==
    IF h.in = "bkram" /\ h.ragged /\ k = h.len - 1 THEN Turned(Loaded(h.in, h.at + k))
    ELSE Loaded(h.in, h.at + k)
Index(h) == IF h.in = "bkram" THEN 4 * h.at ELSE h.at
LoadWords(h) ==
    [memory EXCEPT ![h.in] = [n \in DOMAIN @ |->
        IF n - Index(h) \in 0 .. h.len - 1 THEN Content(h, n - Index(h)) ELSE @[n]]]

SimInit ==
    /\ BootStart /\ memory = [m \in Memories |-> [n \in 0 .. RamSize - 1 |-> Anything]]
    /\ file \in {f \in Files : f.ld = ld} /\ act = None
    /\ sim_at = "load" /\ section = 1
    /\ m_done = FALSE /\ m_cpu_bombed = 0 /\ status = StillRuns
\* main(), after the reset: load the sections in turn, start at the entry.
LoadSection ==
    /\ sim_at = "load"
    /\ IF ListEnds(section) THEN sim_at' = "run" /\ UNCHANGED <<section, memory>>
       ELSE /\ memory' = LoadWords(Headers[Entry(section)])
            /\ section' = section + 1 /\ UNCHANGED sim_at
    /\ UNCHANGED <<file, act, m_done, m_cpu_bombed, status, ld, size, boot_at, wrp, rdp, i>>

\* execsim(): NEXIT of a register's value, of the user's or of the set that runs,
\* or of a number.  A value on its way to the register counts.
RegisterSet == IF act.op = "exitUser" THEN "user" ELSE IF act.gie THEN "user" ELSE "supervisor"
ValueHeld == act.regs[RegisterSet]          \* mutant: what is in the register
Value_ == IF act.wr.to = RegisterSet THEN act.wr.value ELSE act.regs[RegisterSet]
ExitCode == IF act.op = "exitNumber" THEN act.number ELSE Value_
Exits == boot_at = "main" /\ act.op \in {"exitReg", "exitUser", "exitNumber"}
Breaks == boot_at = "main" /\ act.op = "break"
EndsWith(s) == sim_at' = "exited" /\ status' = s

\* A tick of the clock: the CPU's, and then sim_clk_tick().
CpuSteps ==
    /\ boot_at # "main" /\ BootStep
    /\ IF boot_at' = "main" THEN act' \in Acts ELSE UNCHANGED act
Bombed(n) == n > BombWait
Tick ==
    /\ sim_at = "run" /\ ~m_done /\ UNCHANGED <<file, section>>
    /\ IF Exits
       THEN /\ EndsWith(ExitCode % StatusValues) /\ m_done' = TRUE
            /\ UNCHANGED <<act, m_cpu_bombed, bootVars>>
       ELSE /\ IF m_cpu_bombed > 0
               THEN m_done' = Bombed(m_cpu_bombed) /\ m_cpu_bombed' = m_cpu_bombed + 1
               ELSE m_cpu_bombed' = (IF Breaks THEN 1 ELSE 0) /\ UNCHANGED m_done
            /\ CpuSteps \/ (boot_at = "main" /\ UNCHANGED <<act, bootVars>>)
            /\ UNCHANGED <<sim_at, status>>
\* The loop of main() ends when the simulation is done; a bomb is a success.
Leave == sim_at = "run" /\ m_done /\ EndsWith(0)
         /\ UNCHANGED <<file, act, section, m_done, m_cpu_bombed, bootVars>>
SimStep == LoadSection \/ Tick \/ Leave
=============================================================================
