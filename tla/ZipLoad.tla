------------------------------- MODULE ZipLoad -------------------------------
(* sw/host/zipload.cpp: load a program into block RAM and flash, and start the *)
(* CPU; sw/host/zipelf.cpp, which reads the program's sections, and the users' *)
(* commands to the flash, flashid.cpp and wbregs.cpp.  The loader may be       *)
(* killed at any time and started again: what it did to the board stays.       *)
EXTENDS FlashDrvr
CONSTANTS
    Programs,               \* an entry and a sequence of program headers each
    BkramBase, BkramBytes,
    Chips, Flashes,         \* the kinds of chip, what the flash holds at first
    MaxPrograms
VARIABLES
    prog, bkram, cpu,       \* the file; the block RAM; the CPU and its PC
    sec, startaddr, codelen,
    runs, user,             \* loaders started, commands sent by users
    found,                  \* history: the flash was ready, this run began
    dump                    \* the file that dumpflash wrote

loaderVars == <<prog, sec, startaddr, codelen>>
boardVars == <<bkram, cpu>>
countVars == <<runs, user, found>>
vars == <<flashVars, drvrVars, pc, out, loaderVars, boardVars, countVars, dump>>

\* What elfread() takes of a header: p_paddr, and p_filesz bytes.
Headers == [p_paddr : Int, p_filesz : Nat, bytes : Seq(Byte)]
ZipLoadAssumption ==
    /\ FlashBase \in Int /\ WordBytes \in Nat \ {0}
    /\ StaleLengths \subseteq Int
    /\ Flashes \subseteq [0 .. MemBytes - 1 -> Byte]
    /\ Programs \subseteq [e_entry : Int, phdr : Seq(Headers)]
ASSUME ZipLoadAssumption

\* Program headers, as elfread() turns them into sections: the program has
\* p_filesz bytes, at p_paddr.  The list ends at the first that has none.
Sections ==
    LET phdr == prog.phdr
        n == Min({i \in DOMAIN phdr : phdr[i].p_filesz = 0} \cup {Len(phdr) + 1})
    IN  [i \in 1 .. n - 1 |->
           [m_start |-> phdr[i].p_paddr, m_len |-> phdr[i].p_filesz, m_data |-> phdr[i].bytes]]

Within(sc, base, n) == sc.m_start >= base /\ sc.m_start + sc.m_len <= base + n
InBkram(sc) == Within(sc, BkramBase, BkramBytes)
InFlash(sc) == Within(sc, FlashBase, MemBytes)
Fbuf ==         \* before any section is copied
    [a \in FlashAddrs |-> Ones]

Init ==
    /\ prog \in Programs
    /\ \E kind \in Chips, mem \in Flashes : chip = FlashSimInit(kind, mem)
    /\ cfg_user_mode = FALSE /\ rx = Ones /\ sdram_ones \in BOOLEAN
    /\ bkram = [a \in BkramBase .. BkramBase + BkramBytes - 1 |-> Ones]
    /\ cpu = [running |-> FALSE, ipc |-> 0]
    /\ pc = "none" /\ out = <<>> /\ sec = 1 /\ startaddr = 0 /\ codelen = 0
    /\ data = Fbuf /\ addr = 0 /\ len = 0 /\ s = 0 /\ at = 0
    /\ need_erase = FALSE /\ newv = 0 /\ p = 0 /\ page_len = 0
    /\ runs = 0 /\ user = 0 /\ found = FALSE /\ dump = <<>>

\* The flash is in the mode in which it is read, and does nothing.
Ready == ~cfg_user_mode /\ chip.m_sreg \cap {"WIP", "DPD"} = {} /\ out = <<>>

\* The variables of a program that starts, or is gone.
ProgramStarts ==
    /\ data' = Fbuf /\ sec' = 1 /\ startaddr' = FlashBase /\ codelen' = 0
    /\ addr' = 0 /\ len' = 0 /\ s' = 0 /\ at' = 0 /\ need_erase' = FALSE /\ newv' = 0 /\ p' = 0
    /\ page_len' \in StaleLengths

\* zipload is started: it halts the CPU, and has all of the flash buffer ones.
Start ==
    /\ pc \in {"none", "done", "failed", "killed"} /\ runs + user < MaxPrograms
    /\ pc' = "check" /\ out' = <<>> /\ runs' = runs + 1
    /\ cpu' = [cpu EXCEPT !.running = FALSE]
    /\ ProgramStarts /\ found' = Ready
    /\ UNCHANGED <<prog, bkram, user, dump>> /\ UNCHANGED flashVars

\* No section may lie where there is no memory.
CheckSections ==
    /\ IF \A i \in DOMAIN Sections : InBkram(Sections[i]) \/ InFlash(Sections[i])
       THEN Goto("check", "section") ELSE Goto("check", "failed")
    /\ UNCHANGED <<out, loaderVars, boardVars, countVars>>
    /\ UNCHANGED flashVars /\ UNCHANGED drvrVars

\* Block RAM is written at once, in words: what is left of the last is zeros, or
\* what follows the section in the file's memory.
LoadBkram ==
    /\ sec \in DOMAIN Sections /\ InBkram(Sections[sec]) /\ Goto("section", "section")
    /\ LET sc == Sections[sec] IN
       \E rest \in {{}, Ones} :
         bkram' = [a \in DOMAIN bkram |->
           IF a - sc.m_start \in 0 .. sc.m_len - 1 THEN sc.m_data[a - sc.m_start + 1]
           ELSE IF a >= sc.m_start + sc.m_len
                    /\ a < sc.m_start + WordBytes * ((sc.m_len + WordBytes - 1) \div WordBytes)
                THEN rest ELSE bkram[a]]
    /\ sec' = sec + 1
    /\ UNCHANGED <<out, prog, startaddr, codelen, cpu, countVars>>
    /\ UNCHANGED flashVars /\ UNCHANGED drvrVars

GrowLength(sc, start) ==
    Larger(codelen + startaddr - start, sc.m_start + sc.m_len - start)
ToFlash ==
    /\ sec \in DOMAIN Sections /\ ~InBkram(Sections[sec]) /\ Goto("section", "section")
    /\ LET sc == Sections[sec]
           start == Smaller(startaddr, sc.m_start)
       IN  /\ startaddr' = start
           /\ codelen' = GrowLength(sc, start)
           /\ data' = [a \in DOMAIN data |->
                        IF a - sc.m_start \in 0 .. sc.m_len - 1
                        THEN sc.m_data[a - sc.m_start + 1] ELSE data[a]]
    /\ sec' = sec + 1
    /\ UNCHANGED <<out, prog, addr, len, s, at, need_erase, newv, p, page_len>>
    /\ UNCHANGED <<boardVars, countVars>> /\ UNCHANGED flashVars

WriteFlash ==
    /\ sec \notin DOMAIN Sections
    /\ Goto("section", IF codelen > 0 THEN "sector" ELSE "start")
    /\ addr' = startaddr /\ len' = codelen /\ s' = SectorOf(startaddr)
    /\ UNCHANGED <<out, data, at, need_erase, newv, p, page_len>>
    /\ UNCHANGED <<loaderVars, boardVars, countVars>> /\ UNCHANGED flashVars

Driver == Write("start") /\ UNCHANGED <<loaderVars, boardVars, countVars>>

\* The CPU's registers are cleared, its PC set; with -r it is started.
StartCpu ==
    /\ Goto("start", "done")
    /\ cpu' \in {[running |-> r, ipc |-> prog.e_entry] : r \in BOOLEAN}
    /\ UNCHANGED <<out, bkram, loaderVars, countVars>>
    /\ UNCHANGED flashVars /\ UNCHANGED drvrVars

SendByte == Send /\ UNCHANGED <<loaderVars, boardVars, countVars>>

Busy == pc \notin {"none", "done", "failed", "killed"}
Kill ==
    /\ Busy /\ runs + user < MaxPrograms /\ pc' = "killed" /\ out' = <<>> /\ ProgramStarts
    /\ UNCHANGED <<prog, boardVars, countVars>> /\ UNCHANGED flashVars

\* flashid, or calls of wbregs that send one command to the flash.
FlashId == <<End, Cmd("RDID"), Cmd("EMPTY"), Cmd("EMPTY"), End>>
WbRegs == {<<Cmd(c), End>> : c \in UserCommands}
UserSession ==
    /\ ~Busy /\ out = <<>> /\ runs + user < MaxPrograms
    /\ out' \in {FlashId} \cup WbRegs
    /\ user' = user + 1
    /\ UNCHANGED <<pc, dump, loaderVars, boardVars, runs, found>>
    /\ UNCHANGED flashVars /\ UNCHANGED drvrVars

\* dumpflash: all of the flash is read, and its file written but for the words
\* of ones at the end; the first is always there.
DumpedWords(words) ==
    Max({0} \cup {i \in DOMAIN words : \E b \in DOMAIN words[i] : words[i][b] # Ones}) + 1
DumpFlash ==
    /\ ~Busy /\ out = <<>> /\ runs + user < MaxPrograms
    /\ LET words == [i \in 0 .. (MemBytes \div WordBytes) - 1 |-> BusRead(FlashBase + i * WordBytes)]
       IN  dump' = [i \in 0 .. DumpedWords(words) - 1 |-> words[i]]
    /\ chip' = ChipAfterRead(FlashBase + MemBytes - WordBytes)
    /\ user' = user + 1
    /\ UNCHANGED <<pc, out, cfg_user_mode, rx, sdram_ones, loaderVars, boardVars, runs, found>>
    /\ UNCHANGED drvrVars

ChipDone ==
    /\ chip.m_write /\ chip' = WriteDone(chip)
    /\ UNCHANGED <<cfg_user_mode, rx, sdram_ones, pc, out, loaderVars, boardVars, countVars>>
    /\ UNCHANGED drvrVars

Loader ==
    \/ CheckSections \/ LoadBkram \/ ToFlash \/ WriteFlash \/ Driver \/ StartCpu \/ SendByte
Next ==
    /\ chip.alive
    /\ Start \/ UserSession \/ DumpFlash \/ ((Loader \/ Kill \/ ChipDone) /\ UNCHANGED dump)
Spec == Init /\ [][Next]_vars
Fairness == 
    /\ WF_vars(chip.alive /\ Loader /\ UNCHANGED dump)
    /\ WF_vars(chip.alive /\ ChipDone /\ UNCHANGED dump)
FairSpec == Spec /\ Fairness

----------------------------------------------------------------------------
(* Properties.                                                                *)

MemAt(a) == IF a \in FlashAddrs THEN chip.m_mem[a - FlashBase] ELSE bkram[a]
InWholeWords(a) == a \in FlashAddrs => a < startaddr + codelen - (codelen % WordBytes)
Loaded ==
    \A h \in {prog.phdr[i] : i \in DOMAIN prog.phdr} : \A j \in 1 .. h.p_filesz :
      InWholeWords(h.p_paddr + j - 1) => MemAt(h.p_paddr + j - 1) = h.bytes[j]
Written == FlashBase .. SectorOf(startaddr + codelen + SectorBytes - 1) - 1
Quiet == chip.kind = "chip" /\ user = 0 /\ runs = 1

\* A loader that found the flash ready and says that the program is loaded, or
\* starts the CPU (zipload.cpp:378), has loaded all of it that is in whole words
\* (flashdrvr.cpp:209 reads no others), whatever was in the flash, whether pages
\* had to be erased, and wherever its pages and sectors end.
\* What dumpflash.cpp:150 writes to its file, with ones after its end, is the flash.
Starts == cpu'.running /\ ~cpu.running
DumpIsFlash ==
    \A i \in 0 .. (MemBytes \div WordBytes) - 1, b \in 0 .. WordBytes - 1 :
        chip.m_mem[i * WordBytes + b] = IF i \in DOMAIN dump' THEN dump'[i][b] ELSE Ones
DoneAsSaid ==
    [][/\ pc' = "done" /\ found' => Loaded'
       /\ Starts /\ found => Loaded
       /\ dump' # dump /\ Ready => DumpIsFlash]_vars

\* While the CPU runs, the flash answers it (zipload.cpp:376, flashdrvr.cpp:258):
\* it is not left in the mode in which the controller sends it commands, nor busy.
RunsReadable ==
    cpu.running /\ found /\ user = 0 => ~cfg_user_mode /\ "WIP" \notin chip.m_sreg

\* The first loader never sends the flash a command that it refuses
\* (flashdrvr.cpp:63 waits for the last one, and each is enabled), and any calls
\* page_program() as it asserts (flashdrvr.cpp:130-132) - if what the stack holds
\* where the first page's length will be is none that ends in the flash: that
\* length is used before it is set (flashdrvr.cpp:244), and is of StaleLengths.
ChipAccepts == Quiet => chip.m_state # "INVALID"
PageAsserts == pc = "page" /\ p < s + SectorBytes /\ p < addr + len => PageAsserted
CommandsAccepted == PageAsserts /\ ChipAccepts

\* A loader changes no sector of the flash that its program does not reach, nor,
\* if it was read in whole words, one that has its program already
\* (flashdrvr.cpp:194-228).
HasIts(a) ==
    \A b \in FlashAddrs :
        SectorOf(b) = SectorOf(a) /\ b < addr + len => chip.m_mem[b - FlashBase] = data[b]
Changes(a) == chip'.m_mem[a - FlashBase] # chip.m_mem[a - FlashBase] /\ Busy
WholeWords == (SectorEnd - SectorBase) % WordBytes = 0
OnlyItsSectors ==
    [][\A a \in FlashAddrs :
        Changes(a) =>
          /\ chip.kind = "chip" /\ found => a \in Written
          /\ Quiet /\ WholeWords => ~HasIts(a)]_vars

\* A loader ends, as the chip finishes what it was asked to do.
LoaderEnds == Busy ~> (~Busy \/ ~chip.alive)
=============================================================================
