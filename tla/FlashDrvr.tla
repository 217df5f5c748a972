----------------------------- MODULE FlashDrvr ------------------------------
(* sw/host/flashdrvr.cpp, FLASHDRVR::write and what it calls, on the flash     *)
(* behind rtl/spixpress.v: a write to its configuration port sends a byte to   *)
(* the chip, or deselects it, and a read returns the last byte it sent.  An    *)
(* access to the bus is a step: the program may be killed between any two, and *)
(* the chip go on with its work.                                               *)
EXTENDS FlashSim, Sequences, FiniteSetsExt
CONSTANTS
    WordBytes, FlashBase,       \* 4 and 0x200000
    UserCommands,               \* what a user sends to the chip by wbregs, or flashid
    StaleLengths                \* what the stack may hold where a page's length will be
VARIABLES
    chip, cfg_user_mode, rx,    \* the flash, its controller's mode and last byte
    sdram_ones,                 \* what the SDRAM holds is all ones
    pc, out,                    \* where the program is; bytes it is about to send
    data, addr, len,            \* the parameters of write()
    s, at, need_erase, newv, p, \* its variables; at is where it reads
    page_len                    \* the len of the loop: of the page before this one

flashVars == <<chip, cfg_user_mode, rx, sdram_ones>>
drvrVars == <<data, addr, len, s, at, need_erase, newv, p, page_len>>

FlashAddrs == FlashBase .. FlashBase + MemBytes - 1

\* Bytes for the configuration port; F_END deselects the chip.
Cmd(c) == [t |-> "cmd", cmd |-> c]
Addr(a) == [t |-> "addr", addr |-> a]
DataByte(b) == [t |-> "data", byte |-> b]
End == [t |-> "end"]

Shifted(f, byte) ==
    /\ chip' = f /\ rx' = byte /\ cfg_user_mode' = TRUE
CfgWrite(b) ==
    \/ /\ b.t = "end"
       /\ chip' \in IF cfg_user_mode THEN Deselect(chip) ELSE {chip}
       /\ cfg_user_mode' = FALSE /\ UNCHANGED rx
    \/ /\ b.t = "cmd"
       /\ Shifted(IF chip.m_count = 0 THEN Command(chip, b.cmd) ELSE Data(chip, {}), chip.m_oreg)
    \/ b.t = "addr" /\ Shifted(Address(chip, b.addr), {})
    \/ b.t = "data" /\ Shifted(Data(chip, b.byte), chip.m_oreg)

\* In user mode the flash's memory port returns the last byte, below zeros.
UserWord == [i \in 0 .. WordBytes - 1 |-> IF i = WordBytes - 1 THEN rx ELSE {}]
BusRead(a) ==
    CASE a \in FlashAddrs /\ cfg_user_mode -> UserWord
      [] a \in FlashAddrs /\ ~cfg_user_mode -> SlowRead(chip, a - FlashBase, WordBytes)
      [] a \notin FlashAddrs -> [i \in 0 .. WordBytes - 1 |-> IF sdram_ones THEN Ones ELSE {}]
ChipAfterRead(a) ==
    IF a \in FlashAddrs /\ ~cfg_user_mode
    THEN AfterSlowRead(chip, a - FlashBase, WordBytes) ELSE chip

\* A step to another place of the program, with bytes to send on the way.
Goto(from, to) == pc = from /\ out = <<>> /\ pc' = to
Sends(bytes) == out' = bytes
Send ==
    /\ out # <<>> /\ CfgWrite(Head(out)) /\ out' = Tail(out)
    /\ UNCHANGED <<pc, sdram_ones>> /\ UNCHANGED drvrVars

\* flwait()
\* Mutant: the status is asked for once.
WhileWipOnce(from, to) ==
    /\ IF 0 \in rx THEN Goto(from, from) /\ Sends(<<>>)
                   ELSE Goto(from, to) /\ Sends(<<End>>)
    /\ UNCHANGED flashVars /\ UNCHANGED drvrVars
FlWait == <<End, Cmd("RDSR"), Cmd("EMPTY")>>
WhileWip(from, to) ==
    /\ IF 0 \in rx THEN Goto(from, from) /\ Sends(<<Cmd("EMPTY")>>)
                   ELSE Goto(from, to) /\ Sends(<<End>>)
    /\ UNCHANGED flashVars /\ UNCHANGED drvrVars

----------------------------------------------------------------------------
(* write(): one sector after the other.                                       *)

Larger(a, b) == IF a > b THEN a ELSE b
Smaller(a, b) == IF a < b THEN a ELSE b
SectorBase == Larger(addr, s)
SectorEnd == Smaller(addr + len, s + SectorBytes)

FinishOpen == <<Cmd("WRDI")>>              \* mutant
Finish == <<Cmd("WRDI"), End>>
NextSector(done) ==
    /\ IF s < SectorOf(addr + len + SectorBytes - 1)
       THEN Goto("sector", "compare") /\ Sends(<<>>)
       ELSE Goto("sector", done) /\ Sends(Finish)
    /\ at' = SectorBase /\ need_erase' = FALSE /\ newv' = 0
    /\ UNCHANGED <<data, addr, len, s, p, page_len>> /\ UNCHANGED flashVars

\* The bytes of a word that are compared; those past the last whole word were
\* not read, and sbuf holds anything.
Compared(a) == {i \in 0 .. WordBytes - 1 : a + i < SectorEnd}
Read(a) == IF a + WordBytes <= SectorEnd THEN {BusRead(a)}
           ELSE [0 .. WordBytes - 1 -> Byte]

\* Mutant: each sector is compared with the start of the data.
NeedsEraseStart(word, a) ==
    \E i \in Compared(a) : ~(data[a + i - SectorBase + addr] \subseteq word[i])
NeedsErase(word, a) == \E i \in Compared(a) : ~(data[a + i] \subseteq word[i])
Differs(word, a) == \E i \in Compared(a) : word[i] # data[a + i]

Compare ==
    /\ Goto("compare", "compare") /\ at < SectorEnd
    /\ \E word \in Read(at) :
         /\ need_erase' = (need_erase \/ NeedsErase(word, at))
         /\ newv' = IF newv = 0 /\ Differs(word, at) THEN at ELSE newv
    /\ chip' = ChipAfterRead(at)
    /\ at' = at + WordBytes
    /\ UNCHANGED <<out, data, addr, len, s, p, page_len, cfg_user_mode, rx, sdram_ones>>

\* Mutant: write enable is sent once for all.
EraseCommandNoEnable(a) == <<End, Cmd("SE"), Addr(a), End>>
EraseCommand(a) ==
    <<End, Cmd("WREN"), End, Cmd("SE"), Addr(a), End>>
Compared2 ==
    /\ at >= SectorEnd
    /\ \/ newv = 0 /\ Goto("compare", "sector") /\ Sends(<<>>) /\ s' = s + SectorBytes
       \/ /\ newv # 0 /\ ~need_erase
          /\ Goto("compare", "page") /\ Sends(<<>>) /\ UNCHANGED s
       \/ /\ need_erase
          /\ Goto("compare", "erasing") /\ Sends(EraseCommand(s) \o FlWait) /\ UNCHANGED s
    /\ p' = newv
    /\ UNCHANGED <<data, addr, len, at, need_erase, newv, page_len>> /\ UNCHANGED flashVars

\* The address that the erase is verified at: flashaddr has R_FLASH in it.
VerifyAddr(a) == FlashBase + a
SectorWords(a) == {a + i * WordBytes : i \in 0 .. (SectorBytes \div WordBytes) - 1}
VerifyErase ==
    /\ IF \A a \in SectorWords(VerifyAddr(s)) : \A b \in DOMAIN BusRead(a) : BusRead(a)[b] = Ones
       THEN Goto("verifyErase", "page") ELSE Goto("verifyErase", "failed")
    /\ p' = IF s < addr THEN addr ELSE s
    /\ chip' = ChipAfterRead(VerifyAddr(s) + SectorBytes - WordBytes)
    /\ UNCHANGED <<out, data, addr, len, s, at, need_erase, newv, page_len>>
    /\ UNCHANGED <<cfg_user_mode, rx, sdram_ones>>

----------------------------------------------------------------------------
(* page_program()                                                             *)

\* The length of a page is of the address, the program and the length itself, as
\* its initialiser has its own name in it: of the page before, or of nothing yet.
PageLength ==
    IF PageOf(addr + page_len - 1) # PageOf(p) THEN PageOf(p + PageBytes) - p
    ELSE addr + page_len - p
PageAsserted ==
    /\ PageLength > 0 /\ PageLength <= PageBytes
    /\ PageOf(p) = PageOf(p + PageLength - 1)
DataWord(a) ==
    [i \in 0 .. WordBytes - 1 |-> IF a + i \in DOMAIN data THEN data[a + i] ELSE Ones]
WordsOf(n) == {p + i * WordBytes : i \in 0 .. n - 1}
EmptyPage ==
    \A a \in WordsOf((PageLength + WordBytes - 1) \div WordBytes) :
      \A i \in 0 .. WordBytes - 1 : DataWord(a)[i] = Ones

ProgramCommand ==
    <<End, Cmd("WREN"), End, End, Cmd("PP"), Addr(p)>>
        \o [i \in 1 .. PageLength |-> DataByte(data[p + i - 1])] \o <<End>>
Page ==
    /\ p < s + SectorBytes /\ p < addr + len
    /\ LET to == IF ~PageAsserted THEN "failed" ELSE IF EmptyPage THEN "verifyPage" ELSE "writing"
       IN  Goto("page", to) /\ Sends(IF to = "writing" THEN ProgramCommand \o FlWait ELSE <<>>)
    /\ UNCHANGED flashVars /\ UNCHANGED drvrVars
\* Mutant: a page is taken for written as it is sent.
VerifyPageNot ==
    /\ Goto("verifyPage", "page") /\ p' = PageOf(p + PageBytes) /\ page_len' = PageLength
    /\ UNCHANGED <<out, data, addr, len, s, at, need_erase, newv>> /\ UNCHANGED flashVars
VerifyPage ==
    /\ IF \A a \in WordsOf(PageLength \div WordBytes) : BusRead(a) = DataWord(a)
       THEN Goto("verifyPage", "page") ELSE Goto("verifyPage", "failed")
    /\ p' = PageOf(p + PageBytes) /\ page_len' = PageLength
    /\ chip' = IF PageLength < WordBytes THEN chip
               ELSE ChipAfterRead(Max(WordsOf(PageLength \div WordBytes)))
    /\ UNCHANGED <<out, data, addr, len, s, at, need_erase, newv, cfg_user_mode, rx, sdram_ones>>
PagesDone ==
    /\ p >= s + SectorBytes \/ p >= addr + len
    /\ Goto("page", "sector") /\ s' = s + SectorBytes
    /\ UNCHANGED <<out, data, addr, len, at, need_erase, newv, p, page_len>> /\ UNCHANGED flashVars

Write(done) ==
    \/ NextSector(done) \/ Compare \/ Compared2
    \/ WhileWip("erasing", "verifyErase") \/ VerifyErase
    \/ Page \/ WhileWip("writing", "verifyPage") \/ VerifyPage \/ PagesDone
=============================================================================
