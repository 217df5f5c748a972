------------------------------ MODULE FlashSim ------------------------------
(* sim/flashsim.cpp: the simulated flash, a byte at a time, as the serial line *)
(* of rtl/spixpress.v brings them; and, with kind "chip", a real one.      The *)
(* two commands that the controller cannot send, dual and quad reads, are left *)
(* out.  A byte is the set of its bits that are one, so that programming is an *)
(* intersection.  A chip is a record of the members of FLASHSIM:               *)
(*   m_mem, m_pmem    the memory, and the page that is being programmed        *)
(*   m_state, m_addr  the command and its address                              *)
(*   m_count          bytes since the chip was selected, 4 for any more        *)
(*   m_oreg           the byte that it sends next                              *)
(*   m_sreg           WIP, WEL, BP for its bits 2 to 4, and deep power down    *)
(*   m_write          m_write_count is not zero                                *)
EXTENDS Integers, FiniteSets, Sequences
CONSTANTS
    MemBytes, PageBytes, SectorBytes,   \* 2^19, 256 and 2^16
    Bits                                \* of a byte: 0 is WIP in the status byte,
                                        \* 1 stands for the others

FlashSimAssumption ==
    MemBytes \in Nat \ {0} /\ PageBytes \in Nat \ {0} /\ SectorBytes \in Nat \ {0} /\ 0 \in Bits
ASSUME FlashSimAssumption

Byte == SUBSET Bits
Ones == Bits
PageOf(a) == a - (a % PageBytes)
SectorOf(a) == a - (a % SectorBytes)

\* Nothing sets m_addr before a command that takes an address: an address that
\* lies outside of the memory, as most values do that were there before.
FlashSimInit(kind, mem) ==
    [kind |-> kind, m_mem |-> mem,
     m_pmem |-> [i \in 0 .. PageBytes - 1 |-> Ones],
     m_state |-> "IDLE", m_addr |-> MemBytes, m_count |-> 0, m_oreg |-> Bits \ {0},
     m_sreg |-> {"BP"}, m_write |-> FALSE, alive |-> TRUE]

\* The time that a write or an erase takes has passed: WIP is cleared, and so
\* is every flag that the mask leaves out.
WriteDone(c) == [c EXCEPT !.m_write = FALSE, !.m_sreg = @ \cap {"BP"}]

StatusByte(c) == {b \in Bits : IF b = 0 THEN "WIP" \in c.m_sreg
                                       ELSE {"BP", "WEL"} \cap c.m_sreg # {}}

----------------------------------------------------------------------------
(* The first byte after the chip is selected is a command.                    *)

MayWrite(c) == "WEL" \in c.m_sreg /\ c.m_sreg \cap {"WIP", "DPD"} = {}
WriteState ==
    [WRR |-> "WRSR", PP |-> "PP", BE |-> "BULK_ERASE", SE |-> "SECTOR_ERASE"]
OtherState ==
    [READ |-> "SLOW_READ", WRDI |-> "IDLE", RDSR |-> "RDSR", WREN |-> "IDLE",
     CLSR |-> "CLSR", RDCR |-> "RDCR", RDID |-> "RDID", RES |-> "RELEASE",
     DP |-> "IDLE", EMPTY |-> "IDLE"]

StateAfter(c, cmd) ==
    IF cmd \in DOMAIN WriteState
    THEN IF MayWrite(c) THEN WriteState[cmd] ELSE "INVALID"
    ELSE IF cmd = "DP" /\ "WIP" \in c.m_sreg THEN "INVALID" ELSE OtherState[cmd]
StatusAfter(c, cmd) ==
    CASE cmd = "WREN" -> c.m_sreg \cup {"WEL"}
      [] cmd = "WRDI" -> c.m_sreg \ {"WEL"}
      [] cmd = "RES" -> c.m_sreg \ {"DPD"}
      [] cmd = "DP" /\ "WIP" \notin c.m_sreg -> c.m_sreg \cup {"DPD"}
      [] OTHER -> c.m_sreg

\* One that sleeps answers only to RES, and stays in the state it was in.
Command(c, cmd) ==
    IF "DPD" \in c.m_sreg /\ cmd # "RES"
    THEN [c EXCEPT !.m_count = 1, !.m_oreg = {0}]
    ELSE [c EXCEPT
            !.m_count = 1,
            !.m_state = StateAfter(c, cmd),
            !.m_sreg = StatusAfter(c, cmd),
            !.m_write = c.m_write \/ (cmd = "RES" /\ "DPD" \in c.m_sreg),
            !.m_oreg = CASE cmd = "RDSR" -> StatusByte(c)
                         [] cmd \in {"RDCR", "RDID"} -> {}
                         [] OTHER -> {0}]

----------------------------------------------------------------------------
(* The bytes that follow.                                                     *)

Counted(c, n) == IF c.m_count + n > 4 THEN 4 ELSE c.m_count + n

\* The three bytes of an address.
Address(c, a) ==
    LET d == [c EXCEPT !.m_count = Counted(c, 3), !.m_oreg = {}]
    IN  IF c.m_count # 1 THEN d
        ELSE CASE c.m_state = "PP" ->
                    [d EXCEPT !.m_addr = a % MemBytes,
                              !.m_pmem = [i \in 0 .. PageBytes - 1 |-> Ones]]
               [] c.m_state = "SECTOR_ERASE" -> [d EXCEPT !.m_addr = a]
               [] c.m_state = "WRSR" -> [d EXCEPT !.alive = FALSE]
               [] OTHER -> d

\* A byte of data: programming stays in its page, and a status register takes
\* two; more than that end the simulation.
Data(c, b) ==
    LET d == [c EXCEPT !.m_count = Counted(c, 1), !.m_oreg = {}]
    IN  CASE c.m_state = "PP" /\ c.m_count >= 4 ->
               [d EXCEPT !.m_pmem[c.m_addr % PageBytes] = b,
                         !.m_addr = PageOf(c.m_addr) + ((c.m_addr + 1) % PageBytes)]
          [] c.m_state = "WRSR" ->
               IF c.m_count > 2 THEN [d EXCEPT !.alive = FALSE]
               ELSE IF c.m_count = 2 THEN d         \* the configuration register
               ELSE [d EXCEPT !.m_sreg = {f \in {"WIP", "BP"} :
                                IF f = "BP" THEN 1 \in b ELSE f \in c.m_sreg}]
          [] c.m_state = "CLSR" -> [d EXCEPT !.alive = FALSE]
          [] c.m_state = "RDSR" -> [d EXCEPT !.m_oreg = StatusByte(c)]
          [] OTHER -> d

----------------------------------------------------------------------------
(* A command is carried out when the chip is deselected.                      *)

Started(c) == [c EXCEPT !.m_sreg = (c.m_sreg \ {"WEL"}) \cup {"WIP"}, !.m_write = TRUE]
Programmed(c) ==
    [a \in DOMAIN c.m_mem |->
      IF PageOf(a) = PageOf(c.m_addr) THEN c.m_mem[a] \cap c.m_pmem[a % PageBytes]
      ELSE c.m_mem[a]]
Erased(c, sector) == [a \in DOMAIN c.m_mem |-> IF a \in sector THEN Ones ELSE c.m_mem[a]]

\* The chip ignores the address bits it does not have, the simulator does not.
EraseAddr(c) == IF c.kind = "chip" THEN c.m_addr % MemBytes ELSE c.m_addr
SectorAt(c) == {a \in DOMAIN c.m_mem : SectorOf(a) = SectorOf(EraseAddr(c))}
\* The chip ignores a command that ends early as well.
Incomplete(c) ==
    c.kind = "chip" /\ c.m_state \in {"PP", "SECTOR_ERASE"} /\ c.m_count < 4
\* The simulator writes outside of its memory: it ends, or nothing is seen of it.
Astray(c) ==
    \/ c.m_state = "PP" /\ c.m_addr >= MemBytes
    \/ c.m_state = "SECTOR_ERASE" /\ EraseAddr(c) >= MemBytes

CarriedOut(c) ==
    IF Incomplete(c) THEN c
    ELSE CASE c.m_state = "PP" -> [Started(c) EXCEPT !.m_mem = Programmed(c)]
           [] c.m_state = "SECTOR_ERASE" ->
                [Started(c) EXCEPT !.m_mem = Erased(c, SectorAt(c)),
                                   !.m_addr = SectorOf(EraseAddr(c))]
           [] c.m_state = "BULK_ERASE" ->
                [Started(c) EXCEPT !.m_mem = Erased(c, DOMAIN c.m_mem)]
           [] c.m_state = "WRSR" -> Started(c)
           [] c.m_state = "RELEASE" -> [c EXCEPT !.m_write = TRUE]
           [] OTHER -> c
Resting == {"PP", "SECTOR_ERASE", "BULK_ERASE", "WRSR", "RELEASE", "CLSR"}
Deselect(c) ==
    {[CarriedOut(c) EXCEPT
        !.m_state = IF c.m_state \in Resting THEN "IDLE" ELSE c.m_state,
        !.m_count = 0, !.m_oreg = Bits \ {0}, !.alive = lives] :
     lives \in {c.alive} \cup (IF Astray(c) /\ ~Incomplete(c) THEN {FALSE} ELSE {})}

----------------------------------------------------------------------------
(* A word that the controller reads: the chip is selected, sent READ and the  *)
(* address, and sends bytes, zeros while it writes, but for the first.        *)

ReadState(c) == IF "DPD" \in c.m_sreg THEN c.m_state ELSE "SLOW_READ"
SlowRead(c, a, n) ==
    [i \in 0 .. n - 1 |->
      CASE ReadState(c) = "SLOW_READ" ->
             IF i = 0 \/ "WIP" \notin c.m_sreg THEN c.m_mem[(a + i) % MemBytes] ELSE {}
        [] ReadState(c) = "RDSR" -> StatusByte(c)
        [] OTHER -> {}]
AfterSlowRead(c, a, n) ==
    [c EXCEPT !.m_state = ReadState(c), !.m_count = 0, !.m_oreg = Bits \ {0},
              !.m_addr = IF ReadState(c) = "SLOW_READ" THEN a + n + 1 ELSE @]
=============================================================================
