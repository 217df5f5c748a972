---------------------------- MODULE ZipLoadProofs ----------------------------
(* Proofs about ZipLoad: the flash is left in a state in which the CPU can     *)
(* read it, the first loader sends it no command that it refuses, only the     *)
(* sectors of the program are changed, and only those that have to be, and a   *)
(* loader that is done has loaded its program.                                 *)
(* The loader goes from place to place, and at each place there are bytes that *)
(* it is about to send: the invariant says, for every place and every number   *)
(* of bytes that are sent, what the chip then does.                            *)
EXTENDS ZipLoad, NaturalsInduction, WellFoundedInduction, TLAPS

\* A chip is a record of the members of FLASHSIM, whatever they hold.
IsChip(c) ==
    c \in [kind : {c.kind}, m_mem : {c.m_mem}, m_pmem : {c.m_pmem}, m_state : {c.m_state},
           m_addr : {c.m_addr}, m_count : {c.m_count}, m_oreg : {c.m_oreg},
           m_sreg : {c.m_sreg}, m_write : BOOLEAN, alive : {c.alive}]
IsSeq(q) == q \in Seq({q[i] : i \in DOMAIN q})

Places ==
    {"none", "check", "section", "sector", "compare", "erasing", "verifyErase", "page",
     "writing", "verifyPage", "start", "done", "failed", "killed"}
FlashTypes ==
    /\ prog \in Programs /\ pc \in Places /\ IsSeq(out)
    /\ sec \in Nat \ {0}
    /\ startaddr \in Int /\ codelen \in Int
    /\ addr \in Int /\ len \in Int /\ s \in Int /\ at \in Int /\ newv \in Int /\ p \in Int
    /\ page_len \in Int
    /\ runs \in Nat /\ user \in Nat /\ found \in BOOLEAN
    /\ cpu \in [running : BOOLEAN, ipc : {cpu.ipc}]
    /\ IsChip(chip) /\ chip.m_count \in 0 .. 4 /\ cfg_user_mode \in BOOLEAN

Deselected ==
    ~cfg_user_mode => chip.m_count = 0 /\ chip.m_state \notin Resting

Acting == pc \in {"erasing", "writing"}
Bytes(w) == (IF w = "erasing" THEN EraseCommand(s) ELSE ProgramCommand) \o FlWait
Script == Bytes(pc)
Sent == Len(Script) - Len(out)
Sending ==
    /\ Sent >= 0
    /\ \A k \in 1 .. Len(out) : out[k] = Script[Sent + k]
CommandOf(w) == IF w = "erasing" THEN 4 ELSE 5
CommandAt == CommandOf(pc)
Operation == IF pc = "erasing" THEN "SECTOR_ERASE" ELSE "PP"
IsDone == "WIP" \notin chip.m_sreg /\ chip.m_state \notin Resting

Enabling ==
    Sent < CommandAt =>
        /\ IsDone
        /\ Sent = 0 => ~cfg_user_mode
        /\ Sent # 2 => chip.m_count = 0
        /\ Sent >= 2 /\ Quiet => "WEL" \in chip.m_sreg
Commanding ==
    Sent >= CommandAt /\ Len(out) >= 4 =>
        /\ cfg_user_mode /\ chip.m_state \in {Operation, "INVALID"}
        /\ chip.m_count >= 1
Polling ==
    Len(out) <= 3 =>
        /\ chip.m_state \notin Resting
        /\ Len(out) = 2 => chip.m_count = 0
        /\ Len(out) <= 1 =>
              /\ chip.m_state = "RDSR" /\ chip.m_count >= 1
              /\ "WIP" \in chip.m_sreg => 0 \in chip.m_oreg
        /\ Len(out) = 0 /\ "WIP" \in chip.m_sreg => 0 \in rx

Between ==
    /\ IsDone
    /\ out \in {<<>>, <<End>>, Finish}
    /\ out = <<>> => ~cfg_user_mode
    /\ out # <<End>> => chip.m_count = 0

LoaderKnows ==
    Busy /\ found =>
        /\ "DPD" \notin chip.m_sreg
        /\ Acting => Sending /\ Enabling /\ Commanding /\ Polling
        /\ ~Acting => Between
        /\ pc = "writing" => PageAsserted

CpuRuns ==
    /\ cpu.running => pc = "done"
    /\ user = 0 /\ ~Busy => out = <<>>
    /\ cpu.running /\ found /\ user = 0 => ~cfg_user_mode /\ "WIP" \notin chip.m_sreg

FirstLoader ==
    /\ runs = 0 /\ user = 0 =>
          /\ pc = "none" /\ Ready /\ chip.m_sreg = {"BP"} /\ ~chip.m_write
          /\ chip.m_state = "IDLE"
    /\ runs = 1 /\ user = 0 =>
          /\ Busy => found
          /\ chip.m_write => "WIP" \in chip.m_sreg
    /\ Quiet => chip.m_state # "INVALID"

LoaderInv == FlashTypes /\ Deselected /\ LoaderKnows /\ CpuRuns /\ FirstLoader

-----------------------------------------------------------------------------
(* Lemmas about sequences.                                                    *)

LEMMA SeqIs ==
    ASSUME NEW R, NEW q \in Seq(R)
    PROVE  IsSeq(q) /\ Len(q) \in Nat /\ DOMAIN q = 1 .. Len(q)
<1> DEFINE T == {q[i] : i \in DOMAIN q}
<1>1. DOMAIN q = 1 .. Len(q) /\ Len(q) \in Nat
    OBVIOUS
<1>2. \A i \in 1 .. Len(q) : q[i] \in T
    BY <1>1
<1>3. q \in Seq(T)
    <2> HIDE DEF T
    <2> QED BY <1>1, <1>2
<1> QED BY <1>1, <1>3 DEF IsSeq

\* The bytes that are left after one is sent.
LEMMA TailIs ==
    ASSUME NEW q, IsSeq(q), q # <<>>
    PROVE  /\ IsSeq(Tail(q)) /\ Len(q) \in Nat \ {0} /\ Len(Tail(q)) = Len(q) - 1
           /\ Head(q) = q[1] /\ \A k \in 1 .. Len(q) - 1 : Tail(q)[k] = q[k + 1]
<1> DEFINE R == {q[i] : i \in DOMAIN q}
<1>1. q \in Seq(R)
    BY DEF IsSeq
<1> HIDE DEF R
<1>2. /\ Len(q) \in Nat \ {0} /\ Len(Tail(q)) = Len(q) - 1 /\ Tail(q) \in Seq(R)
      /\ Head(q) = q[1] /\ \A k \in 1 .. Len(q) - 1 : Tail(q)[k] = q[k + 1]
    BY <1>1
<1>3. IsSeq(Tail(q))
    BY <1>2, SeqIs
<1> QED BY <1>2, <1>3

\* A concatenation is a sequence.
LEMMA ConcatIs ==
    ASSUME NEW q, NEW r, IsSeq(q), IsSeq(r)
    PROVE  /\ IsSeq(q \o r) /\ Len(q \o r) = Len(q) + Len(r)
           /\ Len(q) \in Nat /\ Len(r) \in Nat
           /\ \A k \in 1 .. Len(q) : (q \o r)[k] = q[k]
           /\ \A k \in 1 .. Len(r) : (q \o r)[Len(q) + k] = r[k]
<1> DEFINE Q == {q[i] : i \in DOMAIN q}  P == {r[i] : i \in DOMAIN r}  R == Q \cup P
<1>1. q \in Seq(R) /\ r \in Seq(R)
    <2>1. q \in Seq(Q) /\ r \in Seq(P)
        BY DEF IsSeq
    <2>2. Q \subseteq R /\ P \subseteq R
        OBVIOUS
    <2> HIDE DEF Q, P, R
    <2> QED BY <2>1, <2>2
<1> HIDE DEF R, Q, P
<1>2. /\ q \o r \in Seq(R) /\ Len(q \o r) = Len(q) + Len(r)
      /\ Len(q) \in Nat /\ Len(r) \in Nat
      /\ \A k \in 1 .. Len(q) : (q \o r)[k] = q[k]
      /\ \A k \in 1 .. Len(r) : (q \o r)[Len(q) + k] = r[k]
    BY <1>1
<1>3. IsSeq(q \o r)
    BY <1>2, SeqIs
<1> QED BY <1>2, <1>3

-----------------------------------------------------------------------------
(* Lemmas about the chip.                                                     *)

LEMMA WriteDoneIs ==
    ASSUME NEW c, IsChip(c)
    PROVE  LET d == WriteDone(c) IN
           /\ IsChip(d) /\ d.kind = c.kind /\ d.m_mem = c.m_mem /\ d.m_state = c.m_state
           /\ d.m_count = c.m_count /\ d.m_addr = c.m_addr /\ d.m_oreg = c.m_oreg
           /\ d.m_sreg = c.m_sreg \cap {"BP"} /\ d.m_write = FALSE
BY DEF IsChip, WriteDone

LEMMA CommandIs ==
    ASSUME NEW c, IsChip(c), NEW cmd, "DPD" \notin c.m_sreg
    PROVE  LET d == Command(c, cmd) IN
           /\ IsChip(d) /\ d.kind = c.kind /\ d.m_mem = c.m_mem /\ d.m_count = 1
           /\ d.m_addr = c.m_addr
           /\ d.m_state = StateAfter(c, cmd) /\ d.m_sreg = StatusAfter(c, cmd)
           /\ cmd = "RDSR" => d.m_oreg = StatusByte(c)
           /\ d.m_write = c.m_write
<1> DEFINE oreg == CASE cmd = "RDSR" -> StatusByte(c)
                     [] cmd \in {"RDCR", "RDID"} -> {}
                     [] OTHER -> {0}
           state == StateAfter(c, cmd)  status == StatusAfter(c, cmd)
           write == c.m_write \/ (cmd = "RES" /\ "DPD" \in c.m_sreg)
<1>1. Command(c, cmd) = [c EXCEPT !.m_count = 1, !.m_state = state, !.m_sreg = status,
                                  !.m_write = write, !.m_oreg = oreg]
    BY DEF Command
<1>2. (cmd = "RDSR" => oreg = StatusByte(c)) /\ write \in BOOLEAN
    BY DEF IsChip
<1> HIDE DEF oreg, state, status, write
<1>3. LET d == Command(c, cmd) IN
      /\ IsChip(d) /\ d.kind = c.kind /\ d.m_mem = c.m_mem /\ d.m_count = 1
      /\ d.m_addr = c.m_addr /\ d.m_state = state /\ d.m_sreg = status
      /\ d.m_oreg = oreg /\ d.m_write = write
    BY <1>1, <1>2 DEF IsChip
<1>4. write = c.m_write
    BY DEF write, IsChip
<1> QED BY <1>2, <1>3, <1>4 DEF state, status

\* What any command does to the record.
LEMMA CommandKeeps ==
    ASSUME NEW c, IsChip(c), NEW cmd
    PROVE  LET d == Command(c, cmd) IN
           IsChip(d) /\ d.kind = c.kind /\ d.m_mem = c.m_mem /\ d.m_count = 1
BY DEF IsChip, Command

LEMMA AddressIs ==
    ASSUME NEW c, IsChip(c), c.m_count \in 0 .. 4, NEW a
    PROVE  LET d == Address(c, a) IN
           /\ IsChip(d) /\ d.kind = c.kind /\ d.m_mem = c.m_mem
           /\ d.m_count \in 3 .. 4 /\ (c.m_count >= 1 => d.m_count = 4)
           /\ d.m_state = c.m_state /\ d.m_sreg = c.m_sreg /\ d.m_write = c.m_write
           /\ c.m_count = 1 /\ c.m_state = "SECTOR_ERASE" => d.m_addr = a
           /\ c.m_count = 1 /\ c.m_state = "PP" => d.m_addr = a % MemBytes
<1>1. Counted(c, 3) \in 3 .. 4 /\ (c.m_count >= 1 => Counted(c, 3) = 4)
    BY DEF Counted
<1>2. CASE c.m_count # 1
    BY <1>1, <1>2 DEF IsChip, Address
<1>3. CASE c.m_count = 1
    BY <1>1, <1>3 DEF IsChip, Address
<1> QED BY <1>2, <1>3

\* A byte of data changes the status only in a write of the status register.
LEMMA DataIs ==
    ASSUME NEW c, IsChip(c), c.m_count \in 0 .. 4, NEW b
    PROVE  LET d == Data(c, b) IN
           /\ IsChip(d) /\ d.kind = c.kind /\ d.m_mem = c.m_mem
           /\ d.m_count \in 1 .. 4 /\ d.m_count >= c.m_count
           /\ d.m_state = c.m_state /\ d.m_write = c.m_write
           /\ c.m_state # "WRSR" => d.m_sreg = c.m_sreg
           /\ c.m_state = "RDSR" => d.m_oreg = StatusByte(c)
           /\ c.m_state # "PP" => d.m_addr = c.m_addr
           /\ c.m_state = "PP" /\ c.m_count >= 4 =>
                d.m_addr = PageOf(c.m_addr) + ((c.m_addr + 1) % PageBytes)
<1>1. Counted(c, 1) \in 1 .. 4 /\ Counted(c, 1) >= c.m_count
    BY DEF Counted
<1>2. CASE c.m_state = "PP"
    BY <1>1, <1>2 DEF IsChip, Data
<1>3. CASE c.m_state = "WRSR"
    BY <1>1, <1>3 DEF IsChip, Data
<1>4. CASE c.m_state \notin {"PP", "WRSR"}
    BY <1>1, <1>4 DEF IsChip, Data
<1> QED BY <1>2, <1>3, <1>4

\* Nothing is carried out in a state that does not rest when it is done.
LEMMA DeselectIs ==
    ASSUME NEW c, IsChip(c), NEW d \in Deselect(c)
    PROVE  /\ IsChip(d) /\ d.kind = c.kind /\ d.m_count = 0
           /\ d.m_state = IF c.m_state \in Resting THEN "IDLE" ELSE c.m_state
           /\ c.m_state \notin Resting =>
                d.m_sreg = c.m_sreg /\ d.m_write = c.m_write /\ d.m_mem = c.m_mem
           /\ c.m_state \in {"PP", "SECTOR_ERASE"} =>
                \/ d.m_sreg = c.m_sreg /\ d.m_write = c.m_write
                \/ d.m_sreg = (c.m_sreg \ {"WEL"}) \cup {"WIP"} /\ d.m_write = TRUE
<1> DEFINE e == CarriedOut(c)
<1>1. /\ IsChip(e) /\ e.kind = c.kind /\ e.m_state = c.m_state
      /\ c.m_state \notin Resting =>
           e.m_sreg = c.m_sreg /\ e.m_write = c.m_write /\ e.m_mem = c.m_mem
      /\ c.m_state \in {"PP", "SECTOR_ERASE"} =>
           \/ e.m_sreg = c.m_sreg /\ e.m_write = c.m_write
           \/ e.m_sreg = (c.m_sreg \ {"WEL"}) \cup {"WIP"} /\ e.m_write = TRUE
    <2>1. CASE c.m_state \notin Resting \/ Incomplete(c)
        <3>1. ASSUME Incomplete(c) PROVE e = c
            BY <3>1 DEF CarriedOut
        <3>2. ASSUME ~Incomplete(c), c.m_state \notin Resting PROVE e = c
            <4>1. /\ c.m_state # "PP" /\ c.m_state # "SECTOR_ERASE" /\ c.m_state # "BULK_ERASE"
                  /\ c.m_state # "WRSR" /\ c.m_state # "RELEASE"
                BY <3>2 DEF Resting
            <4> QED BY <3>2, <4>1, Zenon DEF CarriedOut
        <3>3. e = c
            BY <2>1, <3>1, <3>2
        <3> QED BY <2>1, <3>3
    <2> DEFINE b == Started(c)
    <2>2. /\ IsChip(b) /\ b.kind = c.kind /\ b.m_state = c.m_state /\ b.m_mem = c.m_mem
          /\ b.m_sreg = (c.m_sreg \ {"WEL"}) \cup {"WIP"} /\ b.m_write = TRUE
        BY DEF IsChip, Started
    <2> HIDE DEF b
    <2>3. CASE c.m_state = "PP" /\ ~Incomplete(c)
        <3>1. e = [b EXCEPT !.m_mem = Programmed(c)]
            BY <2>3 DEF CarriedOut, b
        <3> QED BY <2>2, <2>3, <3>1 DEF IsChip, Resting
    <2>4. CASE c.m_state = "SECTOR_ERASE" /\ ~Incomplete(c)
        <3>1. e = [b EXCEPT !.m_mem = Erased(c, SectorAt(c)), !.m_addr = SectorOf(EraseAddr(c))]
            BY <2>4 DEF CarriedOut, b
        <3> QED BY <2>2, <2>4, <3>1 DEF IsChip, Resting
    <2>5. CASE c.m_state \in {"BULK_ERASE", "WRSR", "RELEASE", "CLSR"} /\ ~Incomplete(c)
        <3>1. \/ e = [b EXCEPT !.m_mem = Erased(c, DOMAIN c.m_mem)]
              \/ e = b \/ e = [c EXCEPT !.m_write = TRUE] \/ e = c
            BY <2>5 DEF CarriedOut, b
        <3>2. IsChip(e) /\ e.kind = c.kind /\ e.m_state = c.m_state
            BY <2>2, <3>1 DEF IsChip
        <3> QED BY <2>5, <3>2 DEF Resting
    <2> QED BY <2>1, <2>3, <2>4, <2>5 DEF Resting
<1>2. PICK lives : d = [e EXCEPT
          !.m_state = IF c.m_state \in Resting THEN "IDLE" ELSE c.m_state,
          !.m_count = 0, !.m_oreg = Bits \ {0}, !.alive = lives]
    BY DEF Deselect
<1> HIDE DEF e
<1> QED BY <1>1, <1>2 DEF IsChip

LEMMA AfterSlowReadIs ==
    ASSUME NEW c, IsChip(c), NEW a, NEW n
    PROVE  LET d == AfterSlowRead(c, a, n) IN
           /\ IsChip(d) /\ d.kind = c.kind /\ d.m_mem = c.m_mem /\ d.m_count = 0
           /\ d.m_sreg = c.m_sreg /\ d.m_write = c.m_write
           /\ d.m_state \in {c.m_state, "SLOW_READ"}
BY DEF IsChip, AfterSlowRead, ReadState

-----------------------------------------------------------------------------
(* Lemmas about numbers.                                                      *)

\* The list of sections ends no later than that of the headers.
LEMMA MinIs ==
    ASSUME NEW T \in SUBSET Nat, T # {}
    PROVE  Min(T) \in T /\ \A y \in T : Min(T) <= y
<1> DEFINE R == OpToRel(<, Nat)
<1>1. R = {ss \in Nat \X Nat : ss[1] < ss[2]}
    BY DEF OpToRel
<1>2. IsWellFoundedOn(R, Nat)
    BY NatLessThanWellFounded
<1> HIDE DEF R
<1>3. PICK m \in T : \A y \in T : <<y, m>> \notin R
    BY <1>2, WFMin
<1>4. ASSUME NEW y \in T, y < m PROVE FALSE
    <2>1. <<y, m>> \in Nat \X Nat /\ <<y, m>>[1] < <<y, m>>[2]
        BY <1>4
    <2> QED BY <2>1, <1>1, <1>3
<1>5. \A y \in T : m <= y
    BY <1>4
<1> QED BY <1>5 DEF Min

LEMMA SectionIs ==
    ASSUME prog \in Programs, NEW i \in Nat \ {0}, i \in DOMAIN Sections
    PROVE  /\ Sections[i].m_start \in Int /\ Sections[i].m_len \in Nat
           /\ i \in DOMAIN prog.phdr
           /\ Sections[i].m_start = prog.phdr[i].p_paddr
           /\ Sections[i].m_len = prog.phdr[i].p_filesz
<1> DEFINE phdr == prog.phdr
           T == {k \in DOMAIN phdr : phdr[k].p_filesz = 0} \cup {Len(phdr) + 1}
           n == Min(T)
<1>1. phdr \in Seq(Headers)
    BY ZipLoadAssumption DEF ZipLoadAssumption
<1>2. T \in SUBSET Nat /\ Len(phdr) + 1 \in T /\ Len(phdr) \in Nat /\ DOMAIN phdr = 1 .. Len(phdr)
    <2> HIDE DEF phdr
    <2> QED BY <1>1
<1>3. n \in Nat /\ n <= Len(phdr) + 1
    <2> HIDE DEF T
    <2> QED BY <1>2, MinIs
<1>4. Sections = [k \in 1 .. n - 1 |->
           [m_start |-> phdr[k].p_paddr, m_len |-> phdr[k].p_filesz, m_data |-> phdr[k].bytes]]
    BY DEF Sections
<1> HIDE DEF n, T, phdr
<1>5. i \in 1 .. n - 1
    BY <1>4
<1>6. i \in 1 .. Len(phdr)
    BY <1>2, <1>3, <1>5
<1>7. phdr[i] \in [p_paddr : Int, p_filesz : Nat, bytes : Seq(Byte)]
    <2>1. phdr[i] \in Headers
        BY <1>1, <1>6
    <2> QED BY <2>1 DEF Headers
<1>8. phdr[i].p_paddr \in Int /\ phdr[i].p_filesz \in Nat
    BY <1>7
<1>9. Sections[i] = [m_start |-> phdr[i].p_paddr, m_len |-> phdr[i].p_filesz, m_data |-> phdr[i].bytes]
    BY <1>4, <1>5
<1>10. Sections[i].m_start = phdr[i].p_paddr /\ Sections[i].m_len = phdr[i].p_filesz
    BY <1>9
<1> QED BY <1>2, <1>6, <1>8, <1>10 DEF phdr

\* The page of an address begins no further than a page before it.
LEMMA PageOfIs ==
    ASSUME NEW a \in Int
    PROVE  /\ PageOf(a) \in Int /\ PageOf(a) <= a /\ a < PageOf(a) + PageBytes
           /\ \E q \in Int : PageOf(a) = q * PageBytes
<1> DEFINE n == PageBytes
<1>1. n \in Nat \ {0}
    BY FlashSimAssumption DEF FlashSimAssumption
<1>2. PageOf(a) = a - (a % n)
    BY DEF PageOf
<1> HIDE DEF n
<1>3. a % n \in 0 .. n - 1 /\ a = (a \div n) * n + (a % n) /\ a \div n \in Int
    BY <1>1
<1>4. a - (a % n) = (a \div n) * n
    BY <1>1, <1>3
<1> QED BY <1>1, <1>2, <1>3, <1>4 DEF n

LEMMA PageIs ==
    ASSUME NEW b \in Int, NEW q \in Int, q * PageBytes <= b, b < q * PageBytes + PageBytes
    PROVE  PageOf(b) = q * PageBytes
<1> DEFINE n == PageBytes
<1>1. n \in Nat \ {0}
    BY FlashSimAssumption DEF FlashSimAssumption
<1>2. PICK r \in Int : PageOf(b) = r * n
    BY PageOfIs
<1>3. r * n <= b /\ b < r * n + n /\ q * n <= b /\ b < q * n + n
    BY <1>2, PageOfIs
<1> HIDE DEF n
<1>4. r * n < (q + 1) * n /\ q * n < (r + 1) * n
    <2>1. (q + 1) * n = q * n + n /\ (r + 1) * n = r * n + n
        BY <1>1
    <2> DEFINE x == q * n  y == r * n
    <2>2. x \in Int /\ y \in Int
        BY <1>1
    <2> HIDE DEF x, y
    <2>3. y < x + n /\ x < y + n
        BY <1>1, <1>3, <2>2 DEF x, y
    <2> QED BY <2>1, <2>3 DEF x, y
<1>5. r < q + 1 /\ q < r + 1
    BY <1>1, <1>4
<1>6. r = q
    BY <1>5
<1> QED BY <1>2, <1>6 DEF n

LEMMA SamePage ==
    ASSUME NEW a \in Int, NEW b \in Int, PageOf(a) <= b, b < PageOf(a) + PageBytes
    PROVE  PageOf(b) = PageOf(a)
BY PageOfIs, PageIs

\* The page after that of an address.
LEMMA NextPageIs ==
    ASSUME NEW a \in Int
    PROVE  PageOf(a + PageBytes) = PageOf(a) + PageBytes
<1> DEFINE n == PageBytes
<1>1. n \in Nat \ {0}
    BY FlashSimAssumption DEF FlashSimAssumption
<1>2. PICK q \in Int : PageOf(a) = q * n
    BY PageOfIs
<1>3. q * n <= a /\ a < q * n + n
    BY <1>2, PageOfIs
<1>4. (q + 1) * n = q * n + n /\ q * n \in Int
    <2> HIDE DEF n
    <2> QED BY <1>1
<1>5. (q + 1) * n <= a + n /\ a + n < (q + 1) * n + n
    <2> DEFINE x == q * n  y == (q + 1) * n
    <2> HIDE DEF n, x, y
    <2>1. y = x + n /\ x \in Int /\ x <= a /\ a < x + n
        BY <1>3, <1>4 DEF x, y
    <2>2. y <= a + n /\ a + n < y + n
        BY <1>1, <2>1
    <2> QED BY <2>2 DEF y
<1>6. PageOf(a + n) = (q + 1) * n
    <2> DEFINE b == a + n  r == q + 1
    <2>1. b \in Int /\ r \in Int /\ r * n <= b /\ b < r * n + n
        BY <1>1, <1>5
    <2> HIDE DEF b, r
    <2>2. PageOf(b) = r * n
        BY <2>1, PageIs
    <2> QED BY <2>2 DEF b, r
<1> QED BY <1>2, <1>4, <1>6

\* A page that page_program() takes has a length.
LEMMA PageLengthIs ==
    ASSUME addr \in Int, page_len \in Int, p \in Int
    PROVE  PageLength \in Int /\ (PageAsserted => PageLength \in Nat \ {0})
<1>1. PageBytes \in Nat
    BY FlashSimAssumption DEF FlashSimAssumption
<1>2. PageOf(p + PageBytes) \in Int
    BY <1>1, PageOfIs
<1>3. PageLength \in Int
    BY <1>2 DEF PageLength
<1> QED BY <1>3 DEF PageAsserted

-----------------------------------------------------------------------------
(* What the loader sends.                                                     *)

LEMMA ScriptIs ==
    ASSUME NEW w \in {"erasing", "writing"}, w = "writing" => PageLength \in Nat \ {0}
    PROVE  LET n == Len(Bytes(w)) IN
           /\ IsSeq(Bytes(w)) /\ n \in Nat /\ CommandOf(w) \in 4 .. 5 /\ n >= CommandOf(w) + 5
           /\ Bytes(w)[1] = End /\ Bytes(w)[2] = Cmd("WREN")
           /\ \A k \in 3 .. CommandOf(w) - 1 : Bytes(w)[k] = End
           /\ Bytes(w)[CommandOf(w)] = Cmd(IF w = "erasing" THEN "SE" ELSE "PP")
           /\ Bytes(w)[CommandOf(w) + 1] = Addr(IF w = "erasing" THEN s ELSE p)
           /\ \A k \in CommandOf(w) + 2 .. n - 4 : Bytes(w)[k].t = "data"
           /\ Bytes(w)[n - 3] = End /\ Bytes(w)[n - 2] = End
           /\ Bytes(w)[n - 1] = Cmd("RDSR") /\ Bytes(w)[n] = Cmd("EMPTY")
           /\ w = "erasing" => n = 9
           /\ w = "writing" =>
                /\ n = PageLength + 10
                /\ \A j \in 1 .. PageLength : Bytes(w)[j + 6] = DataByte(data[p + j - 1])
<1>1. CASE w = "erasing"
    <2> DEFINE e1 == End  e2 == Cmd("WREN")  e3 == Cmd("SE")  e4 == Addr(s)  e5 == Cmd("RDSR")
               e6 == Cmd("EMPTY")
               q == <<e1, e2, e1, e3, e4, e1>>  r == <<e1, e5, e6>>
    <2>1. Bytes(w) = q \o r
        BY <1>1 DEF Bytes, EraseCommand, FlWait
    <2>2. CommandOf(w) = 4
        BY <1>1 DEF CommandOf
    <2> HIDE DEF e1, e2, e3, e4, e5, e6
    <2>3. q \in Seq({e1, e2, e3, e4}) /\ Len(q) = 6 /\ r \in Seq({e1, e5, e6}) /\ Len(r) = 3
        OBVIOUS
    <2>4. IsSeq(q) /\ IsSeq(r)
        BY <2>3, SeqIs
    <2>5. q[1] = e1 /\ q[2] = e2 /\ q[3] = e1 /\ q[4] = e3 /\ q[5] = e4 /\ q[6] = e1
        OBVIOUS
    <2>6. r[1] = e1 /\ r[2] = e5 /\ r[3] = e6
        OBVIOUS
    <2> HIDE DEF q, r
    <2>7. /\ IsSeq(Bytes(w)) /\ Len(Bytes(w)) = 9
          /\ \A k \in 1 .. 6 : Bytes(w)[k] = q[k]
          /\ \A k \in 1 .. 3 : Bytes(w)[6 + k] = r[k]
        <3>1. /\ IsSeq(q \o r) /\ Len(q \o r) = Len(q) + Len(r)
              /\ \A k \in 1 .. Len(q) : (q \o r)[k] = q[k]
              /\ \A k \in 1 .. Len(r) : (q \o r)[Len(q) + k] = r[k]
            BY <2>4, ConcatIs
        <3>2. /\ IsSeq(Bytes(w)) /\ Len(Bytes(w)) = Len(q) + Len(r)
              /\ \A k \in 1 .. Len(q) : Bytes(w)[k] = q[k]
              /\ \A k \in 1 .. Len(r) : Bytes(w)[Len(q) + k] = r[k]
            BY <2>1, <3>1
        <3> HIDE <2>1
        <3> QED BY <2>3, <3>2
    <2>8. /\ Bytes(w)[1] = e1 /\ Bytes(w)[2] = e2 /\ Bytes(w)[3] = e1 /\ Bytes(w)[4] = e3
          /\ Bytes(w)[5] = e4 /\ Bytes(w)[6] = e1 /\ Bytes(w)[7] = e1 /\ Bytes(w)[8] = e5 /\ Bytes(w)[9] = e6
        <3>1. Bytes(w)[6 + 1] = r[1] /\ Bytes(w)[6 + 2] = r[2] /\ Bytes(w)[6 + 3] = r[3]
            BY <2>7
        <3> QED BY <2>5, <2>6, <2>7, <3>1
    <2> DEFINE n == Len(Bytes(w))
    <2>9. n = 9 /\ n \in Nat /\ n >= CommandOf(w) + 5 /\ CommandOf(w) \in 4 .. 5
        BY <2>2, <2>7
    <2>10. \A k \in 3 .. CommandOf(w) - 1 : Bytes(w)[k] = e1
        BY <2>2, <2>8
    <2>11. Bytes(w)[CommandOf(w)] = e3 /\ Bytes(w)[CommandOf(w) + 1] = e4
        BY <2>2, <2>8
    <2>12. /\ Bytes(w)[n - 3] = e1 /\ Bytes(w)[n - 2] = e1 /\ Bytes(w)[n - 1] = e5
           /\ Bytes(w)[n] = e6
        BY <2>8, <2>9
    <2>13. \A k \in CommandOf(w) + 2 .. n - 4 : Bytes(w)[k].t = "data"
        <3>1. n - 4 = 5 /\ CommandOf(w) + 2 = 6
            BY <2>2, <2>9
        <3> HIDE DEF n
        <3> SUFFICES ASSUME NEW k \in CommandOf(w) + 2 .. n - 4 PROVE FALSE
            OBVIOUS
        <3>2. k \in 6 .. 5
            BY <3>1
        <3> QED BY <3>2
    <2>14. IsSeq(Bytes(w)) /\ Bytes(w)[1] = e1 /\ Bytes(w)[2] = e2
        BY <2>7, <2>8
    <2> QED BY <1>1, <2>9, <2>10, <2>11, <2>12, <2>13, <2>14 DEF e1, e2, e3, e4, e5, e6
<1>2. CASE w = "writing"
    <2> DEFINE e1 == End  e2 == Cmd("WREN")  e3 == Cmd("PP")  e4 == Addr(p)  e5 == Cmd("RDSR")
               e6 == Cmd("EMPTY")
               d == [i \in 1 .. PageLength |-> DataByte(data[p + i - 1])]
               q == <<e1, e2, e1, e1, e3, e4>>  f == <<e1>>  r == <<e1, e5, e6>>
               D == {d[i] : i \in 1 .. PageLength}
               L == PageLength
    <2>1. Bytes(w) = ((q \o d) \o f) \o r
        BY <1>2 DEF Bytes, ProgramCommand, FlWait
    <2>2. CommandOf(w) = 5 /\ L \in Nat \ {0}
        BY <1>2 DEF CommandOf
    <2>3. \A i \in 1 .. L : d[i].t = "data"
        BY DEF DataByte
    <2>4. d \in [1 .. L -> D]
        OBVIOUS
    <2> HIDE DEF e1, e2, e3, e4, e5, e6, L, d, D
    <2>5. /\ q \in Seq({e1, e2, e3, e4}) /\ Len(q) = 6 /\ r \in Seq({e1, e5, e6}) /\ Len(r) = 3
          /\ f \in Seq({e1}) /\ Len(f) = 1 /\ d \in Seq(D) /\ Len(d) = L
        BY <2>2, <2>4
    <2>6. q[1] = e1 /\ q[2] = e2 /\ q[3] = e1 /\ q[4] = e1 /\ q[5] = e3 /\ q[6] = e4
        OBVIOUS
    <2>7. r[1] = e1 /\ r[2] = e5 /\ r[3] = e6 /\ f[1] = e1
        OBVIOUS
    <2> HIDE DEF q, r, f
    <2>8. IsSeq(q) /\ IsSeq(r) /\ IsSeq(f) /\ IsSeq(d)
        BY <2>5, SeqIs
    <2> DEFINE qd == q \o d
    <2>9. /\ IsSeq(qd) /\ Len(qd) = 6 + L
          /\ \A k \in 1 .. 6 : qd[k] = q[k]
          /\ \A k \in 1 .. L : qd[6 + k] = d[k]
        <3>1. /\ IsSeq(qd) /\ Len(qd) = Len(q) + Len(d)
              /\ \A k \in 1 .. Len(q) : qd[k] = q[k]
              /\ \A k \in 1 .. Len(d) : qd[Len(q) + k] = d[k]
            BY <2>8, ConcatIs
        <3> HIDE DEF qd
        <3> QED BY <2>5, <3>1
    <2> HIDE DEF qd
    <2> DEFINE qdf == qd \o f
    <2>10. /\ IsSeq(qdf) /\ Len(qdf) = 7 + L
           /\ \A k \in 1 .. 6 + L : qdf[k] = qd[k]
           /\ qdf[6 + L + 1] = f[1]
        <3>1. /\ IsSeq(qdf) /\ Len(qdf) = Len(qd) + Len(f)
              /\ \A k \in 1 .. Len(qd) : qdf[k] = qd[k]
              /\ \A k \in 1 .. Len(f) : qdf[Len(qd) + k] = f[k]
            BY <2>8, <2>9, ConcatIs
        <3>2. qdf[Len(qd) + 1] = f[1]
            BY <2>5, <3>1
        <3> QED BY <2>2, <2>5, <2>9, <3>1, <3>2
    <2> HIDE DEF qdf
    <2>11. Bytes(w) = qdf \o r
        BY <2>1 DEF qdf, qd
    <2>12. /\ IsSeq(Bytes(w)) /\ Len(Bytes(w)) = 10 + L
           /\ \A k \in 1 .. 7 + L : Bytes(w)[k] = qdf[k]
           /\ Bytes(w)[7 + L + 1] = r[1] /\ Bytes(w)[7 + L + 2] = r[2] /\ Bytes(w)[7 + L + 3] = r[3]
        <3>1. /\ IsSeq(Bytes(w)) /\ Len(Bytes(w)) = Len(qdf) + Len(r)
              /\ \A k \in 1 .. Len(qdf) : Bytes(w)[k] = qdf[k]
              /\ \A k \in 1 .. Len(r) : Bytes(w)[Len(qdf) + k] = r[k]
            <4>1. /\ IsSeq(qdf \o r) /\ Len(qdf \o r) = Len(qdf) + Len(r)
                  /\ \A k \in 1 .. Len(qdf) : (qdf \o r)[k] = qdf[k]
                  /\ \A k \in 1 .. Len(r) : (qdf \o r)[Len(qdf) + k] = r[k]
                BY <2>8, <2>10, ConcatIs
            <4> QED BY <2>11, <4>1
        <3>2. /\ Bytes(w)[Len(qdf) + 1] = r[1] /\ Bytes(w)[Len(qdf) + 2] = r[2]
              /\ Bytes(w)[Len(qdf) + 3] = r[3]
            BY <2>5, <3>1
        <3> QED BY <2>2, <2>5, <2>10, <3>1, <3>2
    <2>13. \A k \in 1 .. 6 : Bytes(w)[k] = q[k]
        BY <2>2, <2>9, <2>10, <2>12
    <2>14. \A k \in 7 .. 6 + L : Bytes(w)[k].t = "data"
        <3> TAKE k \in 7 .. 6 + L
        <3>1. k - 6 \in 1 .. L /\ 6 + (k - 6) = k
            BY <2>2
        <3>2. qd[k] = d[k - 6]
            BY <3>1, <2>9
        <3>3. Bytes(w)[k] = qd[k]
            BY <2>2, <2>10, <2>12
        <3> QED BY <3>1, <3>2, <3>3, <2>3
    <2>15. Bytes(w)[7 + L] = e1
        <3>1. 7 + L \in 1 .. 7 + L /\ 6 + L + 1 = 7 + L
            BY <2>2
        <3>2. Bytes(w)[7 + L] = qdf[7 + L]
            BY <2>12, <3>1
        <3>3. qdf[7 + L] = qdf[6 + L + 1]
            BY <3>1
        <3> QED BY <3>2, <3>3, <2>7, <2>10
    <2>16. LET n == Len(Bytes(w)) IN
           /\ n - 3 = 7 + L /\ n - 2 = 7 + L + 1 /\ n - 1 = 7 + L + 2 /\ n = 7 + L + 3
           /\ n - 4 = 6 + L /\ n \in Nat /\ n >= CommandOf(w) + 5
        BY <2>2, <2>12
    <2>17. /\ Bytes(w)[1] = e1 /\ Bytes(w)[2] = e2 /\ Bytes(w)[3] = e1 /\ Bytes(w)[4] = e1
           /\ Bytes(w)[5] = e3 /\ Bytes(w)[6] = e4
        BY <2>6, <2>13
    <2>18. \A k \in 3 .. CommandOf(w) - 1 : Bytes(w)[k] = e1
        BY <2>2, <2>17
    <2>19. LET n == Len(Bytes(w)) IN
           /\ Bytes(w)[n - 3] = e1 /\ Bytes(w)[n - 2] = e1 /\ Bytes(w)[n - 1] = e5 /\ Bytes(w)[n] = e6
        BY <2>7, <2>12, <2>15, <2>16
    <2>20. LET n == Len(Bytes(w)) IN \A k \in CommandOf(w) + 2 .. n - 4 : Bytes(w)[k].t = "data"
        BY <2>2, <2>14, <2>16
    <2>21. \A j \in 1 .. L : Bytes(w)[j + 6] = DataByte(data[p + j - 1])
        <3> TAKE j \in 1 .. L
        <3>1. d[j] = DataByte(data[p + j - 1])
            BY DEF d, L
        <3>2. qd[6 + j] = d[j] /\ 6 + j \in 1 .. 6 + L /\ 6 + j = j + 6
            BY <2>2, <2>9
        <3>3. Bytes(w)[6 + j] = qd[6 + j]
            BY <2>2, <2>10, <2>12, <3>2
        <3> QED BY <3>1, <3>2, <3>3
    <2>22. Len(Bytes(w)) = PageLength + 10
        BY <2>2, <2>12 DEF L
    <2>23. \A j \in 1 .. PageLength : Bytes(w)[j + 6] = DataByte(data[p + j - 1])
        BY <2>21 DEF L
    <2> QED BY <1>2, <2>2, <2>12, <2>16, <2>17, <2>18, <2>19, <2>20, <2>22, <2>23
            DEF e1, e2, e3, e4, e5, e6
<1> QED BY <1>1, <1>2 

-----------------------------------------------------------------------------
(* Types.                                                                     *)

LEMMA LiteralsAre ==
    /\ IsSeq(<<>>) /\ IsSeq(<<End>>) /\ IsSeq(<<Cmd("EMPTY")>>) /\ IsSeq(Finish)
    /\ IsSeq(FlashId) /\ \A q \in WbRegs : IsSeq(q)
<1> DEFINE e1 == End  e2 == Cmd("RDID")  e3 == Cmd("EMPTY")  e4 == Cmd("WRDI")
<1>1. \A c : <<Cmd(c), e1>> \in Seq({Cmd(c), e1})
    <2> TAKE c
    <2> DEFINE d == Cmd(c)
    <2> HIDE DEF d, e1
    <2> QED BY DEF d
<1> HIDE DEF e1, e2, e3, e4
<1>2. /\ <<>> \in Seq({}) /\ <<e1>> \in Seq({e1}) /\ <<e3>> \in Seq({e3})
      /\ <<e4, e1>> \in Seq({e4, e1}) /\ <<e1, e2, e3, e3, e1>> \in Seq({e1, e2, e3})
    OBVIOUS
<1>3. IsSeq(<<>>) /\ IsSeq(<<e1>>) /\ IsSeq(<<e3>>)
    BY <1>2, SeqIs
<1>4. IsSeq(<<e4, e1>>) /\ IsSeq(<<e1, e2, e3, e3, e1>>)
    BY <1>2, SeqIs
<1>5. \A c : IsSeq(<<Cmd(c), e1>>)
    BY <1>1, SeqIs
<1> QED BY <1>3, <1>4, <1>5 DEF e1, e2, e3, e4, Finish, FlashId, WbRegs

\* What sending a byte does to the record of the chip.
LEMMA CfgWriteKeeps ==
    ASSUME IsChip(chip), chip.m_count \in 0 .. 4, NEW b, CfgWrite(b)
    PROVE  IsChip(chip') /\ chip'.m_count \in 0 .. 4 /\ cfg_user_mode' \in BOOLEAN
<1>1. CASE b.t = "end" /\ chip' \in (IF cfg_user_mode THEN Deselect(chip) ELSE {chip})
                       /\ cfg_user_mode' = FALSE
    <2>1. CASE cfg_user_mode
        <3>1. chip' \in Deselect(chip)
            BY <1>1, <2>1
        <3>2. \A d \in Deselect(chip) : IsChip(d) /\ d.m_count = 0
            BY DeselectIs
        <3>3. IsChip(chip') /\ chip'.m_count = 0
            BY <3>1, <3>2
        <3>4. cfg_user_mode' \in BOOLEAN
            BY <1>1
        <3> QED BY <3>3, <3>4
    <2> QED BY <1>1, <2>1
<1>2. CASE b.t = "cmd" /\ chip' = (IF chip.m_count = 0 THEN Command(chip, b.cmd) ELSE Data(chip, {}))
                       /\ cfg_user_mode' = TRUE
    <2>1. /\ IsChip(Command(chip, b.cmd)) /\ Command(chip, b.cmd).m_count = 1
          /\ IsChip(Data(chip, {})) /\ Data(chip, {}).m_count \in 1 .. 4
        BY CommandKeeps, DataIs
    <2> QED BY <1>2, <2>1
<1>3. CASE b.t = "addr" /\ chip' = Address(chip, b.addr) /\ cfg_user_mode' = TRUE
    BY <1>3, AddressIs
<1>4. CASE b.t = "data" /\ chip' = Data(chip, b.byte) /\ cfg_user_mode' = TRUE
    BY <1>4, DataIs
<1> QED BY <1>1, <1>2, <1>3, <1>4 DEF CfgWrite, Shifted

LEMMA ReadKeeps ==
    ASSUME IsChip(chip), chip.m_count \in 0 .. 4, NEW a
    PROVE  LET c == ChipAfterRead(a) IN
           /\ IsChip(c) /\ c.m_count \in 0 .. 4 /\ c.m_sreg = chip.m_sreg
           /\ c.m_write = chip.m_write /\ c.m_state \in {chip.m_state, "SLOW_READ"}
           /\ c = chip \/ c.m_count = 0
           /\ c.kind = chip.kind
BY AfterSlowReadIs DEF ChipAfterRead

LEMMA OfIs ==
    ASSUME NEW a \in Int
    PROVE  SectorOf(a) \in Int /\ PageOf(a) \in Int
<1> DEFINE n == SectorBytes
<1>1. n \in Nat \ {0}
    BY FlashSimAssumption DEF FlashSimAssumption
<1> HIDE DEF n
<1>2. a - (a % n) \in Int
    BY <1>1
<1> QED BY <1>2, PageOfIs DEF SectorOf, n

LEMMA TypesInit == Init => FlashTypes
<1> SUFFICES ASSUME Init PROVE FlashTypes
    OBVIOUS
<1>1. PICK kind \in Chips, mem \in Flashes : chip = FlashSimInit(kind, mem)
    BY DEF Init
<1>2. IsChip(chip) /\ chip.m_count = 0
    BY <1>1 DEF FlashSimInit, IsChip
<1>3. IsSeq(out) /\ cpu \in [running : BOOLEAN, ipc : {cpu.ipc}]
    BY LiteralsAre DEF Init
<1>4. /\ prog \in Programs /\ pc = "none" /\ sec = 1 /\ startaddr = 0 /\ codelen = 0
      /\ addr = 0 /\ len = 0 /\ s = 0 /\ at = 0 /\ newv = 0 /\ p = 0 /\ page_len = 0
      /\ runs = 0 /\ user = 0
    BY DEF Init
<1>5. found \in BOOLEAN /\ cfg_user_mode \in BOOLEAN
    BY DEF Init
<1> QED BY <1>2, <1>3, <1>4, <1>5 DEF FlashTypes, Places

LEMMA TypesStep == FlashTypes /\ [Next]_vars => FlashTypes'
<1> SUFFICES ASSUME FlashTypes, [Next]_vars PROVE FlashTypes'
    OBVIOUS
<1>0. /\ FlashBase \in Int /\ WordBytes \in Nat /\ SectorBytes \in Nat /\ PageBytes \in Nat
      /\ StaleLengths \subseteq Int
    BY ZipLoadAssumption, FlashSimAssumption DEF ZipLoadAssumption, FlashSimAssumption
<1> USE <1>0
<1>1. CASE UNCHANGED vars
    BY <1>1 DEF FlashTypes, vars, flashVars, drvrVars, loaderVars, boardVars, countVars
<1>2. CASE Start
    <2>1. IsSeq(out')
        BY <1>2, LiteralsAre DEF Start
    <2>2. cpu' \in [running : BOOLEAN, ipc : {cpu'.ipc}]
        BY <1>2 DEF Start, FlashTypes
    <2>3. found' \in BOOLEAN
        BY <1>2 DEF Start, Ready
    <2>4. IsChip(chip)' /\ (chip.m_count \in 0 .. 4)' /\ (cfg_user_mode \in BOOLEAN)'
        BY <1>2 DEF Start, FlashTypes, flashVars
    <2>5. /\ sec' = 1 /\ startaddr' = FlashBase /\ codelen' = 0 /\ addr' = 0 /\ len' = 0 /\ s' = 0
          /\ at' = 0 /\ newv' = 0 /\ p' = 0 /\ page_len' \in Int
        BY <1>2 DEF Start, ProgramStarts
    <2>6. /\ prog' \in Programs /\ pc' \in Places /\ runs' \in Nat /\ user' \in Nat
        <3>1. prog' = prog /\ pc' = "check" /\ runs' = runs + 1 /\ user' = user
            BY <1>2 DEF Start
        <3>2. prog \in Programs /\ runs \in Nat /\ user \in Nat
            BY DEF FlashTypes
        <3> QED BY <3>1, <3>2 DEF Places
    <2>7. /\ sec' \in Nat \ {0} /\ startaddr' \in Int /\ codelen' \in Int /\ addr' \in Int
          /\ len' \in Int /\ s' \in Int /\ at' \in Int /\ newv' \in Int /\ p' \in Int
          /\ page_len' \in Int
        BY <2>5
    <2> QED BY <2>1, <2>2, <2>3, <2>4, <2>6, <2>7 DEF FlashTypes
<1>3. CASE UserSession
    <2>1. IsSeq(out')
        BY <1>3, LiteralsAre DEF UserSession
    <2>2. /\ UNCHANGED <<pc, prog, sec, startaddr, codelen, cpu, runs, found>>
          /\ UNCHANGED <<addr, len, s, at, newv, p, page_len>>
          /\ UNCHANGED <<chip, cfg_user_mode>>
        BY <1>3 DEF UserSession, flashVars, drvrVars, loaderVars, boardVars
    <2>3. user' = user + 1
        BY <1>3 DEF UserSession
    <2>4. user' \in Nat
        BY <2>3 DEF FlashTypes
    <2>5. /\ addr' \in Int /\ len' \in Int /\ s' \in Int /\ at' \in Int /\ newv' \in Int
          /\ p' \in Int /\ page_len' \in Int
        BY <2>2 DEF FlashTypes
    <2>6. /\ prog' \in Programs /\ pc' \in Places /\ sec' \in Nat \ {0} /\ startaddr' \in Int
          /\ codelen' \in Int /\ runs' \in Nat /\ found' \in BOOLEAN
        BY <2>2 DEF FlashTypes
    <2>7. /\ cpu' \in [running : BOOLEAN, ipc : {cpu'.ipc}]
          /\ IsChip(chip)' /\ (chip.m_count \in 0 .. 4)' /\ cfg_user_mode' \in BOOLEAN
        BY <2>2 DEF FlashTypes
    <2> QED BY <2>1, <2>4, <2>5, <2>6, <2>7 DEF FlashTypes
<1>4. CASE DumpFlash
    <2>1. IsChip(chip') /\ chip'.m_count \in 0 .. 4
        BY <1>4, ReadKeeps DEF DumpFlash, FlashTypes
    <2>2. /\ UNCHANGED <<pc, out, prog, sec, startaddr, codelen, cpu, runs, found>>
          /\ UNCHANGED <<addr, len, s, at, newv, p, page_len, cfg_user_mode>>
          /\ user' = user + 1
        BY <1>4 DEF DumpFlash, drvrVars, loaderVars, boardVars
    <2>3. /\ addr' \in Int /\ len' \in Int /\ s' \in Int /\ at' \in Int /\ newv' \in Int
          /\ p' \in Int /\ page_len' \in Int
        BY <2>2 DEF FlashTypes
    <2>4. /\ prog' \in Programs /\ pc' \in Places /\ IsSeq(out') /\ sec' \in Nat \ {0}
          /\ startaddr' \in Int /\ codelen' \in Int
        BY <2>2 DEF FlashTypes
    <2>5. /\ runs' \in Nat /\ user' \in Nat /\ found' \in BOOLEAN /\ cfg_user_mode' \in BOOLEAN
          /\ cpu' \in [running : BOOLEAN, ipc : {cpu'.ipc}]
        BY <2>2 DEF FlashTypes
    <2> QED BY <2>1, <2>3, <2>4, <2>5 DEF FlashTypes
<1>5. CASE CheckSections
    <2>1. /\ UNCHANGED <<out, prog, sec, startaddr, codelen, cpu, runs, user, found>>
          /\ UNCHANGED <<addr, len, s, at, newv, p, page_len, chip, cfg_user_mode>>
        BY <1>5 DEF CheckSections, flashVars, drvrVars, loaderVars, boardVars, countVars
    <2>2. pc' \in Places
        BY <1>5 DEF CheckSections, Goto, Places
    <2> QED BY <2>1, <2>2 DEF FlashTypes
<1>6. CASE LoadBkram
    <2>1. /\ UNCHANGED <<out, prog, startaddr, codelen, cpu, runs, user, found>> /\ sec' = sec + 1
          /\ UNCHANGED <<addr, len, s, at, newv, p, page_len, chip, cfg_user_mode>>
        BY <1>6 DEF LoadBkram, flashVars, drvrVars, countVars
    <2>2. pc' \in Places
        BY <1>6 DEF LoadBkram, Goto, Places
    <2> QED BY <2>1, <2>2 DEF FlashTypes
<1>7. CASE ToFlash
    <2> DEFINE sc == Sections[sec]
    <2>1. sc.m_start \in Int /\ sc.m_len \in Int
        BY <1>7, SectionIs DEF ToFlash, FlashTypes
    <2> HIDE DEF sc
    <2>2. startaddr' = Smaller(startaddr, sc.m_start) /\ codelen' = GrowLength(sc, startaddr')
        BY <1>7 DEF ToFlash, sc
    <2>3. startaddr' \in Int /\ codelen' \in Int
        BY <2>1, <2>2 DEF FlashTypes, GrowLength, Larger, Smaller
    <2>4. UNCHANGED <<addr, len, s, at, newv, p, page_len>> /\ sec' = sec + 1 /\ pc' = pc
        BY <1>7 DEF ToFlash, Goto
    <2>5. /\ UNCHANGED <<prog, cpu, runs, user, found, chip, cfg_user_mode, out>>
        BY <1>7 DEF ToFlash, flashVars, boardVars, countVars
    <2> QED BY <2>3, <2>4, <2>5 DEF FlashTypes
<1>8. CASE WriteFlash
    <2>1. /\ UNCHANGED <<at, newv, p, page_len, prog, sec, startaddr, codelen, cpu, runs, user, found>>
          /\ UNCHANGED <<chip, cfg_user_mode, out>>
        BY <1>8 DEF WriteFlash, flashVars, loaderVars, boardVars, countVars
    <2>2. addr' \in Int /\ len' \in Int /\ s' \in Int
        BY <1>8, OfIs DEF FlashTypes, WriteFlash
    <2>3. pc' \in Places
        BY <1>8 DEF WriteFlash, Goto, Places
    <2> QED BY <2>1, <2>2, <2>3 DEF FlashTypes
<1>9. CASE Driver
    <2>0. UNCHANGED <<loaderVars, boardVars, countVars>>
        BY <1>9 DEF Driver
    <2>1. CASE NextSector("start")
        <3>1. at' \in Int
            BY <2>1 DEF NextSector, SectorBase, Larger, FlashTypes
        <3>2. IsSeq(out')
            <4>1. out' \in {<<>>, Finish}
                BY <2>1 DEF NextSector, Sends
            <4> QED BY <4>1, LiteralsAre
        <3>3. pc' \in Places
            BY <2>1 DEF NextSector, Goto, Places
        <3> QED BY <2>0, <2>1, <3>1, <3>2, <3>3
            DEF FlashTypes, NextSector, Goto, Places, flashVars, loaderVars, boardVars, countVars
    <2>2. CASE Compare
        <3>1. IsChip(chip') /\ chip'.m_count \in 0 .. 4
            BY <2>2, ReadKeeps DEF Compare, FlashTypes
        <3>2. newv' \in Int /\ at' \in Int
            BY <2>2 DEF Compare, FlashTypes
        <3> QED BY <2>0, <2>2, <3>1, <3>2
            DEF FlashTypes, Compare, Goto, Places, loaderVars, boardVars, countVars
    <2>3. CASE Compared2
        <3>1. IsSeq(out') /\ s' \in Int /\ p' \in Int /\ pc' \in Places
            <4>1. ASSUME pc' = "erasing" PROVE IsSeq(EraseCommand(s) \o FlWait)
                <5> DEFINE e1 == End  e2 == Cmd("WREN")  e3 == Cmd("SE")  e4 == Addr(s)
                           e5 == Cmd("RDSR")  e6 == Cmd("EMPTY")
                <5> HIDE DEF e1, e2, e3, e4, e5, e6
                <5>1. /\ <<e1, e2, e1, e3, e4, e1>> \in Seq({e1, e2, e3, e4})
                      /\ <<e1, e5, e6>> \in Seq({e1, e5, e6})
                    OBVIOUS
                <5>2. IsSeq(<<e1, e2, e1, e3, e4, e1>>) /\ IsSeq(<<e1, e5, e6>>)
                    BY <5>1, SeqIs
                <5>3. IsSeq(EraseCommand(s)) /\ IsSeq(FlWait)
                    BY <5>2 DEF EraseCommand, FlWait, e1, e2, e3, e4, e5, e6
                <5> QED BY <5>3, ConcatIs
            <4>2. /\ pc' \in {"sector", "page", "erasing"}
                  /\ \/ out' = <<>>
                     \/ pc' = "erasing" /\ out' = EraseCommand(s) \o FlWait
                BY <2>3 DEF Compared2, Goto, Sends
            <4>3. IsSeq(out')
                BY <4>1, <4>2, LiteralsAre
            <4>4. s' \in Int /\ p' \in Int
                <5>1. p' = newv /\ (s' = s \/ s' = s + SectorBytes)
                    BY <2>3 DEF Compared2
                <5> QED BY <5>1 DEF FlashTypes
            <4> QED BY <4>2, <4>3, <4>4 DEF Places
        <3> QED BY <2>0, <2>3, <3>1
            DEF FlashTypes, Compared2, flashVars, loaderVars, boardVars, countVars
    <2>4. ASSUME NEW from, NEW to \in Places, WhileWip(from, to) PROVE FlashTypes'
        BY <2>0, <2>4, LiteralsAre DEF FlashTypes, WhileWip, Goto, Sends, flashVars, drvrVars,
            loaderVars, boardVars, countVars
    <2>5. CASE VerifyErase
        <3>1. IsChip(chip') /\ chip'.m_count \in 0 .. 4
            BY <2>5, ReadKeeps DEF VerifyErase, FlashTypes
        <3> QED BY <2>0, <2>5, <3>1
            DEF FlashTypes, VerifyErase, Goto, Places, loaderVars, boardVars, countVars
    <2>6. CASE Page
        <3>1. pc' \in Places
            BY <2>6 DEF Page, Goto, Places
        <3>2. IsSeq(out')
            <4>1. PageAsserted => PageLength \in Nat \ {0}
                BY PageLengthIs DEF FlashTypes
            <4>2. ASSUME PageAsserted PROVE IsSeq(ProgramCommand \o FlWait)
                <5> DEFINE e1 == End  e2 == Cmd("WREN")  e3 == Cmd("PP")  e4 == Addr(p)
                           e5 == Cmd("RDSR")  e6 == Cmd("EMPTY")  L == PageLength
                           d == [i \in 1 .. L |-> DataByte(data[p + i - 1])]
                           D == {d[i] : i \in 1 .. L}
                <5>0. d \in [1 .. L -> D] /\ L \in Nat
                    BY <4>1, <4>2
                <5> HIDE DEF e1, e2, e3, e4, e5, e6, d, D, L
                <5>1. /\ <<e1, e2, e1, e1, e3, e4>> \in Seq({e1, e2, e3, e4})
                      /\ <<e1, e5, e6>> \in Seq({e1, e5, e6}) /\ <<e1>> \in Seq({e1})
                      /\ d \in Seq(D)
                    BY <5>0
                <5>2. /\ IsSeq(<<e1, e2, e1, e1, e3, e4>>) /\ IsSeq(<<e1, e5, e6>>)
                      /\ IsSeq(<<e1>>) /\ IsSeq(d)
                    BY <5>1, SeqIs
                <5>3. ProgramCommand = (<<e1, e2, e1, e1, e3, e4>> \o d) \o <<e1>>
                    BY DEF ProgramCommand, e1, e2, e3, e4, d, L
                <5>4. IsSeq(ProgramCommand) /\ IsSeq(FlWait)
                    <6>1. IsSeq(<<e1, e2, e1, e1, e3, e4>> \o d)
                        BY <5>2, ConcatIs
                    <6>2. IsSeq((<<e1, e2, e1, e1, e3, e4>> \o d) \o <<e1>>)
                        BY <5>2, <6>1, ConcatIs
                    <6> QED BY <5>2, <5>3, <6>2 DEF FlWait, e1, e5, e6
                <5> QED BY <5>4, ConcatIs
            <4>3. out' = <<>> \/ (PageAsserted /\ out' = ProgramCommand \o FlWait)
                BY <2>6 DEF Page, Sends
            <4> QED BY <4>2, <4>3, LiteralsAre
        <3> QED BY <2>0, <2>6, <3>1, <3>2
            DEF FlashTypes, Page, flashVars, drvrVars, loaderVars, boardVars, countVars
    <2>7. CASE VerifyPage
        <3>1. IsChip(chip') /\ chip'.m_count \in 0 .. 4
            BY <2>7, ReadKeeps DEF VerifyPage, FlashTypes
        <3>2. p' \in Int /\ page_len' \in Int
            BY <2>7, OfIs, PageLengthIs DEF VerifyPage, FlashTypes
        <3> QED BY <2>0, <2>7, <3>1, <3>2
            DEF FlashTypes, VerifyPage, Goto, Places, loaderVars, boardVars, countVars
    <2>8. CASE PagesDone
        BY <2>0, <2>8 DEF FlashTypes, PagesDone, Goto, Places, flashVars, loaderVars, boardVars,
            countVars
    <2>9. "verifyErase" \in Places /\ "verifyPage" \in Places
        BY DEF Places
    <2> QED BY <1>9, <2>1, <2>2, <2>3, <2>4, <2>5, <2>6, <2>7, <2>8, <2>9 DEF Driver, Write
<1>10. CASE StartCpu
    BY <1>10 DEF FlashTypes, StartCpu, Goto, Places, flashVars, drvrVars, loaderVars, countVars
<1>11. CASE SendByte
    <2>1. IsChip(chip') /\ chip'.m_count \in 0 .. 4 /\ cfg_user_mode' \in BOOLEAN
        BY <1>11, CfgWriteKeeps DEF SendByte, Send, FlashTypes
    <2>2. IsSeq(out')
        BY <1>11, TailIs DEF SendByte, Send, FlashTypes
    <2> QED BY <1>11, <2>1, <2>2
        DEF FlashTypes, SendByte, Send, drvrVars, loaderVars, boardVars, countVars
<1>12. CASE Kill
    BY <1>12, LiteralsAre DEF FlashTypes, Kill, ProgramStarts, Places, flashVars, boardVars, countVars
<1>13. CASE ChipDone
    <2>1. IsChip(chip') /\ chip'.m_count \in 0 .. 4
        BY <1>13, WriteDoneIs DEF ChipDone, FlashTypes
    <2> QED BY <1>13, <2>1 DEF FlashTypes, ChipDone, drvrVars, loaderVars, boardVars, countVars
<1> QED BY <1>1, <1>2, <1>3, <1>4, <1>5, <1>6, <1>7, <1>8, <1>9, <1>10, <1>11, <1>12, <1>13
    DEF Next, Loader

-----------------------------------------------------------------------------
(* What each byte does.                                                       *)

LEMMA EndIs ==
    ASSUME IsChip(chip), Deselected, cfg_user_mode \in BOOLEAN, CfgWrite(End)
    PROVE  /\ cfg_user_mode' = FALSE /\ chip'.m_count = 0 /\ chip'.kind = chip.kind
           /\ chip'.m_state \notin Resting
           /\ chip'.m_state # chip.m_state => chip'.m_state = "IDLE"
           /\ chip.m_state \notin Resting =>
                chip'.m_sreg = chip.m_sreg /\ chip'.m_write = chip.m_write
           /\ chip.m_state \in {"PP", "SECTOR_ERASE"} =>
                \/ chip'.m_sreg = chip.m_sreg /\ chip'.m_write = chip.m_write
                \/ chip'.m_sreg = (chip.m_sreg \ {"WEL"}) \cup {"WIP"} /\ chip'.m_write = TRUE
<1>1. chip' \in (IF cfg_user_mode THEN Deselect(chip) ELSE {chip}) /\ cfg_user_mode' = FALSE
    BY DEF CfgWrite, End
<1>2. CASE cfg_user_mode
    <2>1. chip' \in Deselect(chip)
        BY <1>1, <1>2
    <2>2. \A d \in Deselect(chip) :
             /\ d.kind = chip.kind /\ d.m_count = 0
             /\ d.m_state = IF chip.m_state \in Resting THEN "IDLE" ELSE chip.m_state
             /\ chip.m_state \notin Resting =>
                  d.m_sreg = chip.m_sreg /\ d.m_write = chip.m_write
             /\ chip.m_state \in {"PP", "SECTOR_ERASE"} =>
                  \/ d.m_sreg = chip.m_sreg /\ d.m_write = chip.m_write
                  \/ d.m_sreg = (chip.m_sreg \ {"WEL"}) \cup {"WIP"} /\ d.m_write = TRUE
        BY DeselectIs
    <2>3. "IDLE" \notin Resting
        BY DEF Resting
    <2>4. /\ chip'.kind = chip.kind /\ chip'.m_count = 0
          /\ chip'.m_state = IF chip.m_state \in Resting THEN "IDLE" ELSE chip.m_state
        BY <2>1, <2>2
    <2>5. /\ chip'.m_state \notin Resting
          /\ chip'.m_state # chip.m_state => chip'.m_state = "IDLE"
        BY <2>3, <2>4
    <2> QED BY <1>1, <2>1, <2>2, <2>4, <2>5
<1>3. CASE ~cfg_user_mode
    <2>1. chip' = chip
        BY <1>1, <1>3
    <2> QED BY <1>1, <1>3, <2>1 DEF Deselected
<1> QED BY <1>2, <1>3

LEMMA CmdIs ==
    ASSUME IsChip(chip), chip.m_count = 0, "DPD" \notin chip.m_sreg, NEW c, CfgWrite(Cmd(c))
    PROVE  /\ cfg_user_mode' = TRUE /\ chip'.m_count = 1 /\ chip'.kind = chip.kind
           /\ chip'.m_state = StateAfter(chip, c) /\ chip'.m_sreg = StatusAfter(chip, c)
           /\ chip'.m_write = chip.m_write
           /\ c = "RDSR" => chip'.m_oreg = StatusByte(chip)
<1>1. chip' = Command(chip, c) /\ cfg_user_mode' = TRUE
    BY DEF CfgWrite, Cmd, Shifted
<1> QED BY <1>1, CommandIs

LEMMA MoreIs ==
    ASSUME IsChip(chip), chip.m_count \in 1 .. 4, chip.m_state = "RDSR", NEW c, CfgWrite(Cmd(c))
    PROVE  /\ cfg_user_mode' = TRUE /\ chip'.m_count >= 1 /\ chip'.kind = chip.kind
           /\ chip'.m_state = chip.m_state /\ chip'.m_sreg = chip.m_sreg
           /\ chip'.m_write = chip.m_write /\ chip'.m_oreg = StatusByte(chip)
           /\ rx' = chip.m_oreg
<1>1. chip' = Data(chip, {}) /\ cfg_user_mode' = TRUE /\ rx' = chip.m_oreg
    BY DEF CfgWrite, Cmd, Shifted
<1>2. chip'.m_count \in 1 .. 4 /\ chip'.m_count >= 1
    BY <1>1, DataIs
<1> QED BY <1>1, <1>2, DataIs

LEMMA OperandIs ==
    ASSUME NEW b, b.t \in {"addr", "data"}, CfgWrite(b),
           IsChip(chip), chip.m_count \in 1 .. 4, chip.m_state # "WRSR"
    PROVE  /\ cfg_user_mode' /\ chip'.m_count \in 1 .. 4 /\ chip'.kind = chip.kind
           /\ chip'.m_state = chip.m_state /\ chip'.m_sreg = chip.m_sreg
           /\ chip'.m_write = chip.m_write
<1>1. CASE b.t = "addr"
    <2>1. chip' = Address(chip, b.addr) /\ cfg_user_mode' = TRUE
        BY <1>1 DEF CfgWrite, Shifted
    <2> QED BY <2>1, AddressIs
<1>2. CASE b.t = "data"
    <2>1. chip' = Data(chip, b.byte) /\ cfg_user_mode' = TRUE
        BY <1>2 DEF CfgWrite, Shifted
    <2> QED BY <2>1, DataIs
<1> QED BY <1>1, <1>2

LEMMA ScriptStays ==
    ASSUME UNCHANGED drvrVars, NEW w
    PROVE  Bytes(w)' = Bytes(w)
BY DEF Bytes, EraseCommand, ProgramCommand, PageLength, FlWait, drvrVars

LEMMA AssertedStays ==
    ASSUME UNCHANGED drvrVars
    PROVE  PageAsserted' = PageAsserted
BY DEF PageAsserted, PageLength, drvrVars

\* A byte that is sent is the next one of those of the place.
LEMMA SentOne ==
    ASSUME FlashTypes, Acting, Sending, SendByte, pc = "writing" => PageAsserted
    PROVE  /\ Sent' = Sent + 1 /\ Sending' /\ Acting' /\ pc' = pc
           /\ Sent \in Nat /\ Len(out) \in Nat \ {0} /\ Len(out) + Sent = Len(Script)
           /\ Len(out') = Len(out) - 1 /\ CfgWrite(Script[Sent + 1])
           /\ CommandAt' = CommandAt /\ Operation' = Operation
           /\ PageLength \in Nat \ {0} \/ pc = "erasing"
<1>1. out # <<>> /\ CfgWrite(Head(out)) /\ out' = Tail(out) /\ UNCHANGED drvrVars /\ pc' = pc
    BY DEF SendByte, Send
<1>2. PageLength \in Nat \ {0} \/ pc = "erasing"
    BY PageLengthIs DEF FlashTypes, Acting
<1>3. Len(Script) \in Nat
    <2>1. pc \in {"erasing", "writing"}
        BY DEF Acting
    <2>2. Len(Bytes(pc)) \in Nat
        BY <1>2, <2>1, ScriptIs
    <2> QED BY <2>2 DEF Script
<1>4. Script' = Script
    <2>1. \A w : Bytes(w)' = Bytes(w)
        BY <1>1, ScriptStays
    <2> QED BY <1>1, <2>1 DEF Script
<1>5. /\ Len(out) \in Nat \ {0} /\ Len(out') = Len(out) - 1 /\ Head(out) = out[1]
      /\ \A k \in 1 .. Len(out) - 1 : out'[k] = out[k + 1]
    BY <1>1, TailIs DEF FlashTypes
<1> DEFINE S == Script  q == out  r == out'
<1> HIDE DEF S, q, r
<1>6. Sent = Len(S) - Len(q) /\ Sent' = Len(S) - Len(r)
    BY <1>4 DEF Sent, S, q, r
<1>7. Sent' = Sent + 1 /\ Sent \in Nat /\ Len(q) + Sent = Len(S)
    BY <1>3, <1>5, <1>6 DEF S, q, r, Sending
<1>8. \A k \in 1 .. Len(q) : q[k] = S[Sent + k]
    BY DEF Sending, S, q
<1>9. q[1] = S[Sent + 1]
    BY <1>5, <1>8 DEF q
<1>10. \A k \in 1 .. Len(r) : r[k] = S[Sent' + k]
    <2> TAKE k \in 1 .. Len(r)
    <2> DEFINE sent == Sent  nxt == Sent'
    <2>0. nxt = sent + 1 /\ sent \in Nat
        BY <1>7
    <2>1. k + 1 \in 1 .. Len(q) /\ k \in 1 .. Len(q) - 1
        BY <1>5 DEF q, r
    <2>2. r[k] = q[k + 1]
        BY <1>5, <2>1 DEF q, r
    <2>3. q[k + 1] = S[sent + (k + 1)]
        BY <1>8, <2>1
    <2> HIDE DEF sent, nxt
    <2>4. sent + (k + 1) = nxt + k
        BY <2>0
    <2>5. r[k] = S[nxt + k]
        BY <2>2, <2>3, <2>4
    <2> QED BY <2>5 DEF nxt
<1>11. Sending'
    BY <1>4, <1>7, <1>10 DEF Sending, S, r
<1> QED BY <1>1, <1>2, <1>5, <1>7, <1>9, <1>11
        DEF S, q, r, Acting, CommandAt, Operation

\* The commands that the loader sends.
LEMMA CommandsAre ==
    ASSUME NEW c
    PROVE  /\ StateAfter(c, "WREN") = "IDLE" /\ StatusAfter(c, "WREN") = c.m_sreg \cup {"WEL"}
           /\ StateAfter(c, "WRDI") = "IDLE" /\ StatusAfter(c, "WRDI") = c.m_sreg \ {"WEL"}
           /\ StateAfter(c, "RDSR") = "RDSR" /\ StatusAfter(c, "RDSR") = c.m_sreg
           /\ StateAfter(c, "SE") = IF MayWrite(c) THEN "SECTOR_ERASE" ELSE "INVALID"
           /\ StateAfter(c, "PP") = IF MayWrite(c) THEN "PP" ELSE "INVALID"
           /\ StatusAfter(c, "SE") = c.m_sreg /\ StatusAfter(c, "PP") = c.m_sreg
<1>1. DOMAIN WriteState = {"WRR", "PP", "BE", "SE"} /\ WriteState.SE = "SECTOR_ERASE"
      /\ WriteState.PP = "PP"
    BY DEF WriteState
<1>2. OtherState.WREN = "IDLE" /\ OtherState.WRDI = "IDLE" /\ OtherState.RDSR = "RDSR"
    BY DEF OtherState
<1> QED BY <1>1, <1>2 DEF StateAfter, StatusAfter

\* What the chip does as the loader sends it a command that erases or programs,
\* and asks for its status.
LEMMA SendActing ==
    ASSUME FlashTypes, Deselected, Acting, Sending, Enabling, Commanding, Polling,
           "DPD" \notin chip.m_sreg, pc = "writing" => PageAsserted, SendByte
    PROVE  /\ "DPD" \notin chip'.m_sreg
           /\ Enabling' /\ Commanding' /\ Polling' /\ Deselected'
           /\ (chip.m_write => "WIP" \in chip.m_sreg) => (chip'.m_write => "WIP" \in chip'.m_sreg)
           /\ Quiet /\ chip.m_state # "INVALID" => chip'.m_state # "INVALID"
<1> DEFINE i == Sent + 1  n == Len(Script)  l == Len(out)  c == CommandAt
           B == Script[i]
<1>1. /\ Sent' = Sent + 1 /\ CommandAt' = CommandAt /\ Operation' = Operation
      /\ Sent \in Nat /\ l \in Nat \ {0} /\ l + Sent = n /\ Len(out') = l - 1 /\ CfgWrite(B)
      /\ PageLength \in Nat \ {0} \/ pc = "erasing"
    BY SentOne
<1>2. /\ n \in Nat /\ c \in 4 .. 5 /\ n >= c + 5
      /\ Script[1] = End /\ Script[2] = Cmd("WREN")
      /\ \A k \in 3 .. c - 1 : Script[k] = End
      /\ Script[c] = Cmd(IF pc = "erasing" THEN "SE" ELSE "PP")
      /\ Script[c + 1] = Addr(IF pc = "erasing" THEN s ELSE p)
      /\ \A k \in c + 2 .. n - 4 : Script[k].t = "data"
      /\ Script[n - 3] = End /\ Script[n - 2] = End
      /\ Script[n - 1] = Cmd("RDSR") /\ Script[n] = Cmd("EMPTY")
    <2>1. pc \in {"erasing", "writing"} /\ (pc = "writing" => PageLength \in Nat \ {0})
        BY <1>1 DEF Acting
    <2> QED BY <2>1, ScriptIs DEF Script, CommandAt
<1>20. /\ i \in Nat \ {0} /\ Sent = i - 1 /\ l = n - i + 1 /\ l >= 1 /\ l \in Nat
       /\ n \in Nat /\ c \in 4 .. 5 /\ n >= c + 5
    <2>1. Sent \in Nat /\ l \in Nat \ {0} /\ l + Sent = n
        BY <1>1
    <2>2. n \in Nat /\ c \in 4 .. 5 /\ n >= c + 5
        BY <1>2
    <2> DEFINE sn == Sent
    <2> HIDE DEF sn, l, n, c
    <2>3. i = sn + 1
        BY DEF sn
    <2>4. sn \in Nat /\ l \in Nat \ {0} /\ l + sn = n
        BY <2>1 DEF sn
    <2> HIDE DEF i
    <2>5. i \in Nat \ {0} /\ sn = i - 1 /\ l = n - i + 1
        BY <2>2, <2>3, <2>4
    <2> QED BY <2>1, <2>2, <2>5 DEF sn
<1>3. IsChip(chip) /\ chip.m_count \in 0 .. 4 /\ cfg_user_mode \in BOOLEAN
    BY DEF FlashTypes
<1>4. runs' = runs /\ user' = user
    BY DEF SendByte, countVars
<1>5. Operation \in {"SECTOR_ERASE", "PP"} /\ {"SECTOR_ERASE", "PP"} \subseteq Resting
      /\ {"RDSR", "IDLE", "INVALID"} \cap Resting = {} /\ Resting # {} /\ "WRSR" \notin {"SECTOR_ERASE", "PP", "INVALID"}
    BY DEF Operation, Resting
<1> DEFINE sent == Sent  sent2 == Sent'  l2 == Len(out')
           Kept == /\ chip'.kind = chip.kind
                   /\ "DPD" \notin chip'.m_sreg
                   /\ (chip.m_write => "WIP" \in chip.m_sreg)
                        => (chip'.m_write => "WIP" \in chip'.m_sreg)
                   /\ Quiet /\ chip.m_state # "INVALID" => chip'.m_state # "INVALID"
           Early == /\ "WIP" \notin chip'.m_sreg /\ chip'.m_state \notin Resting
                    /\ i # 2 => chip'.m_count = 0
                    /\ i >= 2 /\ Quiet => "WEL" \in chip'.m_sreg
           Late == /\ cfg_user_mode' /\ chip'.m_state \in {Operation, "INVALID"}
                   /\ chip'.m_count >= 1
           Last == /\ chip'.m_state \notin Resting
                   /\ l = 3 => chip'.m_count = 0
                   /\ l <= 2 =>
                         /\ chip'.m_state = "RDSR" /\ chip'.m_count >= 1
                         /\ "WIP" \in chip'.m_sreg => 0 \in chip'.m_oreg
                   /\ l = 1 /\ "WIP" \in chip'.m_sreg => 0 \in rx'
<1>6. ASSUME Kept, Deselected', i < c => Early, i >= c /\ l >= 5 => Late, l <= 4 => Last
      PROVE  /\ "DPD" \notin chip'.m_sreg
             /\ Enabling' /\ Commanding' /\ Polling' /\ Deselected'
             /\ (chip.m_write => "WIP" \in chip.m_sreg)
                  => (chip'.m_write => "WIP" \in chip'.m_sreg)
             /\ Quiet /\ chip.m_state # "INVALID" => chip'.m_state # "INVALID"
    <2>1. Quiet' = Quiet
        BY <1>4, <1>6 DEF Quiet
    <2>2. i \in Nat /\ Sent' = i /\ c \in Nat
        BY <1>1, <1>2
    <2> HIDE DEF i, l
    <2>3. Enabling'
        BY <1>1, <1>6, <2>1, <2>2 DEF Enabling, IsDone
    <2>4. Commanding'
        BY <1>1, <1>6, <2>2 DEF Commanding
    <2>5. Polling'
        BY <1>1, <1>6 DEF Polling
    <2> QED BY <1>6, <2>3, <2>4, <2>5
<1>7. Sent < c =>
        /\ "WIP" \notin chip.m_sreg /\ chip.m_state \notin Resting
        /\ Sent = 0 => ~cfg_user_mode
        /\ Sent # 2 => chip.m_count = 0
        /\ Sent >= 2 /\ Quiet => "WEL" \in chip.m_sreg
    BY DEF Enabling, IsDone
<1>8. Sent >= c /\ l >= 4 =>
        cfg_user_mode /\ chip.m_state \in {Operation, "INVALID"} /\ chip.m_count >= 1
    BY DEF Commanding
<1>9. l <= 3 =>
        /\ chip.m_state \notin Resting
        /\ l = 2 => chip.m_count = 0
        /\ l <= 1 => /\ chip.m_state = "RDSR" /\ chip.m_count >= 1
                     /\ "WIP" \in chip.m_sreg => 0 \in chip.m_oreg
    BY DEF Polling
<1>10. CASE i = 1 \/ i \in 3 .. c - 1
    <2> HIDE DEF i, n, l, c
    <2>0. Sent < c /\ Sent # 1 /\ i < c /\ i # 2 /\ (i >= 2 => Sent >= 2) /\ l >= 5 /\ ~(l <= 4) /\ ~(i >= c)
        BY <1>20, <1>10
    <2>1. B = End
        BY <1>2, <1>10, <2>0
    <2>2. CfgWrite(End)
        BY <1>1, <2>0, <2>1
    <2>3. /\ chip'.m_count = 0 /\ chip'.kind = chip.kind
          /\ chip'.m_state \notin Resting /\ cfg_user_mode' = FALSE
          /\ chip'.m_state # chip.m_state => chip'.m_state = "IDLE"
          /\ chip'.m_sreg = chip.m_sreg /\ chip'.m_write = chip.m_write
        BY <1>3, <1>7, <2>0, <2>1, <2>2, EndIs
    <2>5. Kept /\ Early /\ Deselected'
        BY <1>7, <2>0, <2>3 DEF Deselected
    <2> QED BY <1>6, <2>0, <2>5
<1>11. CASE i = 2
    <2> HIDE DEF i, n, l, c
    <2>0. Sent < c /\ Sent # 2 /\ i < c /\ l >= 5 /\ ~(l <= 4) /\ ~(i >= c)
        BY <1>20, <1>11
    <2>1. B = Cmd("WREN")
        BY <1>2, <1>11, <2>0
    <2>2. CfgWrite(Cmd("WREN")) /\ chip.m_count = 0
        BY <1>1, <1>7, <2>0, <2>1
    <2>3. /\ chip'.kind = chip.kind /\ cfg_user_mode' = TRUE
          /\ chip'.m_state = "IDLE" /\ chip'.m_sreg = chip.m_sreg \cup {"WEL"}
          /\ chip'.m_write = chip.m_write
        BY <1>3, <2>2, CmdIs, CommandsAre
    <2>5. Kept /\ Early /\ Deselected'
        BY <1>5, <1>7, <1>11, <2>0, <2>1, <2>3 DEF Deselected
    <2> QED BY <1>6, <2>0, <2>5
<1>12. CASE i = c
    <2> DEFINE cmd == IF pc = "erasing" THEN "SE" ELSE "PP"
    <2> HIDE DEF i, n, l, c
    <2>0. Sent < c /\ Sent # 2 /\ Sent >= 2 /\ ~(i < c) /\ l >= 5 /\ ~(l <= 4)
        BY <1>20, <1>12
    <2>1. B = Cmd(cmd)
        BY <1>2, <1>12, <2>0
    <2>2. CfgWrite(Cmd(cmd)) /\ chip.m_count = 0
        BY <1>1, <1>7, <2>0, <2>1
    <2>3. StateAfter(chip, cmd) = (IF MayWrite(chip) THEN Operation ELSE "INVALID")
          /\ StatusAfter(chip, cmd) = chip.m_sreg
        BY CommandsAre DEF Operation
    <2> HIDE DEF cmd
    <2>4. /\ chip'.kind = chip.kind /\ cfg_user_mode' = TRUE /\ chip'.m_count = 1
          /\ chip'.m_state = (IF MayWrite(chip) THEN Operation ELSE "INVALID")
          /\ chip'.m_sreg = chip.m_sreg /\ chip'.m_write = chip.m_write
        BY <1>3, <2>2, <2>3, CmdIs
    <2>5. Quiet => MayWrite(chip)
        BY <1>7, <2>0, <2>1 DEF MayWrite
    <2>6. Kept /\ Late /\ Deselected'
        BY <1>5, <2>4, <2>5 DEF Deselected
    <2> QED BY <1>6, <2>0, <2>6
<1>13. CASE i \in c + 1 .. n - 4
    <2> HIDE DEF i, n, l, c
    <2>0. Sent >= c /\ ~(i < c) /\ l >= 5 /\ ~(l <= 4) /\ l >= 4
        BY <1>20, <1>13
    <2>1. B.t \in {"addr", "data"}
        <3>1. CASE i = c + 1
            BY <1>2, <3>1 DEF Addr
        <3>2. CASE i \in c + 2 .. n - 4
            BY <1>2, <3>2
        <3>3. i = c + 1 \/ i \in c + 2 .. n - 4
            BY <1>13, <1>20
        <3> QED BY <3>1, <3>2, <3>3
    <2>2. /\ cfg_user_mode /\ chip.m_state \in {Operation, "INVALID"} /\ chip.m_count \in 1 .. 4
          /\ chip.m_state # "WRSR"
        BY <1>3, <1>5, <1>8, <2>0, <2>1
    <2>3. CfgWrite(B)
        BY <1>1
    <2> HIDE DEF B
    <2>4. /\ cfg_user_mode' /\ chip'.m_count \in 1 .. 4 /\ chip'.kind = chip.kind
          /\ chip'.m_state = chip.m_state /\ chip'.m_sreg = chip.m_sreg
          /\ chip'.m_write = chip.m_write
        <3>1. PICK b : b = B
            OBVIOUS
        <3>2. b.t \in {"addr", "data"} /\ CfgWrite(b)
            BY <2>1, <2>3, <3>1
        <3>3. IsChip(chip) /\ chip.m_count \in 1 .. 4 /\ chip.m_state # "WRSR"
            BY <1>3, <2>2
        <3> QED BY <3>2, <3>3, OperandIs
    <2>5. Kept /\ Late /\ Deselected'
        BY <1>5, <2>2, <2>4 DEF Deselected
    <2> QED BY <1>6, <2>0, <2>5
<1>14. CASE i = n - 3
    <2> HIDE DEF i, n, l, c
    <2>0. Sent >= c /\ ~(i < c) /\ l = 4 /\ ~(l >= 5) /\ l <= 4 /\ l >= 4 /\ l # 3 /\ ~(l <= 2)
        BY <1>20, <1>14
    <2>1. B = End
        BY <1>2, <1>14, <2>0
    <2>2. CfgWrite(End) /\ chip.m_state \in {Operation, "INVALID"}
        BY <1>1, <1>8, <2>0, <2>1
    <2>3. /\ chip'.m_count = 0 /\ chip'.kind = chip.kind
          /\ chip'.m_state \notin Resting /\ cfg_user_mode' = FALSE
          /\ chip'.m_state # chip.m_state => chip'.m_state = "IDLE"
          /\ \/ chip'.m_sreg = chip.m_sreg /\ chip'.m_write = chip.m_write
             \/ chip'.m_sreg = (chip.m_sreg \ {"WEL"}) \cup {"WIP"} /\ chip'.m_write = TRUE
        BY <1>3, <1>5, <2>2, EndIs
    <2>4. Kept /\ Deselected'
        BY <1>5, <2>3 DEF Deselected
    <2>5. Last
        BY <2>0, <2>1, <2>3
    <2> QED BY <1>6, <2>0, <2>4, <2>5
<1>15. CASE i = n - 2
    <2> HIDE DEF i, n, l, c
    <2>0. ~(i < c) /\ l = 3 /\ ~(l >= 5) /\ ~(l <= 2) /\ l <= 3
        BY <1>20, <1>15
    <2>1. B = End
        BY <1>2, <1>15, <2>0
    <2>2. CfgWrite(End) /\ chip.m_state \notin Resting
        BY <1>1, <1>9, <2>0, <2>1
    <2>3. /\ chip'.m_count = 0 /\ chip'.kind = chip.kind
          /\ chip'.m_state \notin Resting /\ cfg_user_mode' = FALSE
          /\ chip'.m_state # chip.m_state => chip'.m_state = "IDLE"
          /\ chip'.m_sreg = chip.m_sreg /\ chip'.m_write = chip.m_write
        BY <1>3, <2>2, EndIs
    <2>4. Kept /\ Deselected'
        BY <1>5, <2>3 DEF Deselected
    <2>5. Last
        BY <2>0, <2>1, <2>3
    <2> QED BY <1>6, <2>0, <2>4, <2>5
<1>16. CASE i = n - 1
    <2> HIDE DEF i, n, l, c
    <2>0. ~(i < c) /\ l = 2 /\ ~(l >= 5) /\ l <= 3 /\ l # 3 /\ l # 1
        BY <1>20, <1>16
    <2>1. B = Cmd("RDSR")
        BY <1>2, <1>16, <2>0
    <2>2. CfgWrite(Cmd("RDSR")) /\ chip.m_count = 0
        BY <1>1, <1>9, <2>0, <2>1
    <2>3. /\ chip'.kind = chip.kind /\ cfg_user_mode' = TRUE /\ chip'.m_count = 1
          /\ chip'.m_state = "RDSR" /\ chip'.m_sreg = chip.m_sreg
          /\ chip'.m_write = chip.m_write /\ chip'.m_oreg = StatusByte(chip)
        BY <1>3, <2>2, CmdIs, CommandsAre
    <2>4. "WIP" \in chip.m_sreg => 0 \in StatusByte(chip)
        BY FlashSimAssumption DEF FlashSimAssumption, StatusByte
    <2>5. Kept /\ Deselected'
        BY <1>5, <2>3 DEF Deselected
    <2>6. Last
        BY <1>5, <2>0, <2>1, <2>3, <2>4
    <2> QED BY <1>6, <2>0, <2>5, <2>6
<1>17. CASE i = n
    <2> HIDE DEF i, n, l, c
    <2>0. ~(i < c) /\ l = 1 /\ ~(l >= 5) /\ l <= 3 /\ l # 3
        BY <1>20, <1>17
    <2>1. B = Cmd("EMPTY")
        BY <1>2, <1>17, <2>0
    <2>2. CfgWrite(Cmd("EMPTY")) /\ chip.m_state = "RDSR" /\ chip.m_count \in 1 .. 4
          /\ ("WIP" \in chip.m_sreg => 0 \in chip.m_oreg)
        BY <1>1, <1>3, <1>9, <2>0, <2>1
    <2>3. /\ cfg_user_mode' = TRUE /\ chip'.m_count >= 1 /\ chip'.kind = chip.kind
          /\ chip'.m_state = chip.m_state /\ chip'.m_sreg = chip.m_sreg
          /\ chip'.m_write = chip.m_write /\ chip'.m_oreg = StatusByte(chip)
          /\ rx' = chip.m_oreg
        BY <1>3, <2>2, MoreIs
    <2>4. "WIP" \in chip.m_sreg => 0 \in StatusByte(chip)
        BY FlashSimAssumption DEF FlashSimAssumption, StatusByte
    <2>5. Kept /\ Deselected'
        BY <1>5, <2>2, <2>3 DEF Deselected
    <2>6. Last
        BY <1>5, <2>0, <2>1, <2>2, <2>3, <2>4
    <2> QED BY <1>6, <2>0, <2>5, <2>6
<1>18. /\ i \in 1 .. n
       /\ \/ i = 1 \/ i = 2 \/ i \in 3 .. c - 1 \/ i = c \/ i \in c + 1 .. n - 4
          \/ i = n - 3 \/ i = n - 2 \/ i = n - 1 \/ i = n
    <2> HIDE DEF i, n, l, c
    <2> QED BY <1>20
<1> QED BY <1>10, <1>11, <1>12, <1>13, <1>14, <1>15, <1>16, <1>17, <1>18

\* What the chip does as the loader sends it the bytes between two commands.
LEMMA SendBetween ==
    ASSUME FlashTypes, Deselected, Between, "DPD" \notin chip.m_sreg, SendByte
    PROVE  /\ "DPD" \notin chip'.m_sreg /\ Between' /\ Deselected' /\ chip'.kind = chip.kind
           /\ (chip.m_write => "WIP" \in chip.m_sreg) => (chip'.m_write => "WIP" \in chip'.m_sreg)
           /\ chip.m_state # "INVALID" => chip'.m_state # "INVALID"
<1>1. out # <<>> /\ CfgWrite(Head(out)) /\ out' = Tail(out)
    BY DEF SendByte, Send
<1>2. IsChip(chip) /\ cfg_user_mode \in BOOLEAN
    BY DEF FlashTypes
<1>3. {"IDLE", "INVALID"} \cap Resting = {}
    BY DEF Resting
<1>4. CASE out = <<End>>
    <2>1. Head(out) = End /\ out' = <<>>
        <3> DEFINE e == End
        <3> HIDE DEF e
        <3>1. Head(<<e>>) = e /\ Tail(<<e>>) = <<>>
            OBVIOUS
        <3> QED BY <1>1, <1>4, <3>1 DEF e
    <2>2. CfgWrite(End)
        BY <1>1, <2>1
    <2>3. /\ chip'.m_count = 0 /\ chip'.kind = chip.kind
          /\ chip'.m_state \notin Resting /\ cfg_user_mode' = FALSE
          /\ chip'.m_state # chip.m_state => chip'.m_state = "IDLE"
          /\ chip'.m_sreg = chip.m_sreg /\ chip'.m_write = chip.m_write
        BY <1>2, <2>2, EndIs DEF Between, IsDone
    <2>4. out' \in {<<>>, <<End>>, Finish}
        BY <2>1
    <2> QED BY <2>3, <2>4 DEF Between, IsDone, Deselected
<1>5. CASE out = Finish
    <2>1. Head(out) = Cmd("WRDI") /\ out' = <<End>> /\ <<End>> # <<>> /\ out # <<End>>
        <3> DEFINE e == End  f == Cmd("WRDI")
        <3> HIDE DEF e, f
        <3>1. Head(<<f, e>>) = f /\ Tail(<<f, e>>) = <<e>> /\ <<e>> # <<>> /\ <<f, e>> # <<e>>
            OBVIOUS
        <3> QED BY <1>1, <1>5, <3>1 DEF e, f, Finish
    <2>2. CfgWrite(Cmd("WRDI")) /\ chip.m_count = 0
        BY <1>1, <2>1 DEF Between
    <2>3. /\ cfg_user_mode' = TRUE /\ chip'.kind = chip.kind
          /\ chip'.m_state = "IDLE" /\ chip'.m_sreg = chip.m_sreg \ {"WEL"}
          /\ chip'.m_write = chip.m_write
        BY <1>2, <2>2, CmdIs, CommandsAre
    <2>4. out' \in {<<>>, <<End>>, Finish} /\ out' # <<>>
        BY <2>1
    <2>5. Between'
        BY <1>3, <2>1, <2>3, <2>4 DEF Between, IsDone
    <2>6. Deselected'
        BY <2>3 DEF Deselected
    <2> QED BY <2>3, <2>5, <2>6
<1> QED BY <1>1, <1>4, <1>5 DEF Between

\* Whoever sends a byte, it leaves the flash as the controller's mode says.
LEMMA SendDeselects ==
    ASSUME NEW b, CfgWrite(b), FlashTypes, Deselected
    PROVE  Deselected'
<1>1. CASE b.t = "end" /\ chip' \in (IF cfg_user_mode THEN Deselect(chip) ELSE {chip})
            /\ cfg_user_mode' = FALSE /\ UNCHANGED rx
    <2>1. CfgWrite(End)
        BY <1>1 DEF CfgWrite, End
    <2>2. chip'.m_count = 0 /\ chip'.m_state \notin Resting
        BY <2>1, EndIs DEF FlashTypes
    <2> QED BY <2>2 DEF Deselected
<1>2. CASE cfg_user_mode' = TRUE
    BY <1>2 DEF Deselected
<1> QED BY <1>1, <1>2 DEF CfgWrite, Shifted

-----------------------------------------------------------------------------
(* Every step keeps the invariant.                                            *)

Rest == Deselected /\ LoaderKnows /\ CpuRuns /\ FirstLoader

\* Steps that read the flash, or nothing: the chip is what it was.
ReadsOnly ==
    /\ chip'.m_sreg = chip.m_sreg /\ chip'.m_write = chip.m_write /\ chip'.kind = chip.kind
    /\ chip'.m_state \in {chip.m_state, "SLOW_READ"}
    /\ chip'.m_count = chip.m_count \/ chip'.m_count = 0
    /\ cfg_user_mode' = cfg_user_mode

LEMMA ReadsAre ==
    ASSUME FlashTypes, cfg_user_mode' = cfg_user_mode, NEW a
    PROVE  /\ chip' = chip => ReadsOnly
           /\ chip' = ChipAfterRead(a) => ReadsOnly
BY ReadKeeps DEF FlashTypes, ReadsOnly

\* A step between two commands, or the end of the loader.
LEMMA Moves ==
    ASSUME LoaderInv, ReadsOnly, UNCHANGED <<runs, user, found, cpu>>,
           Busy, pc' \notin {"none", "erasing", "writing"},
           Busy' => ~Acting /\ out = <<>> /\ out' \in {<<>>, Finish},
           ~Busy' => out' = <<>>
    PROVE  Rest'
<1>1. {"SLOW_READ"} \cap Resting = {} /\ "SLOW_READ" # "INVALID"
    BY DEF Resting
<1>2. Deselected'
    BY <1>1 DEF LoaderInv, Deselected, ReadsOnly
<1>3. LoaderKnows'
    <2> SUFFICES ASSUME Busy', found'
                 PROVE  "DPD" \notin chip'.m_sreg /\ Between'
        BY DEF LoaderKnows, Acting
    <2>1. Between /\ "DPD" \notin chip.m_sreg /\ out = <<>> /\ out' \in {<<>>, Finish}
        BY DEF LoaderInv, LoaderKnows
    <2>2. chip.m_count = 0 /\ ~cfg_user_mode
        <3>1. <<>> # <<End>>
            <4> DEFINE e == End
            <4> HIDE DEF e
            <4>1. <<>> # <<e>>
                OBVIOUS
            <4> QED BY <4>1 DEF e
        <3> QED BY <2>1, <3>1 DEF Between
    <2> QED BY <1>1, <2>1, <2>2 DEF Between, IsDone, ReadsOnly
<1>4. ~cpu.running /\ CpuRuns'
    BY DEF LoaderInv, CpuRuns, Busy
<1>5. FirstLoader'
    BY <1>1 DEF LoaderInv, FirstLoader, Quiet, ReadsOnly, Busy
<1> QED BY <1>2, <1>3, <1>4, <1>5 DEF Rest

\* A step that starts a command.
LEMMA Begins ==
    ASSUME LoaderInv, FlashTypes', UNCHANGED flashVars, UNCHANGED <<runs, user, found, cpu>>,
           Busy, ~Acting, out = <<>>, Acting', out' = Script', Len(out') > 3,
           pc' = "writing" => PageAsserted'
    PROVE  Rest'
<1>1. chip' = chip /\ cfg_user_mode' = cfg_user_mode
    BY DEF flashVars
<1>2. Deselected'
    BY <1>1 DEF LoaderInv, Deselected
<1>3. Len(out') \in Nat
    <2>1. IsSeq(out')
        BY DEF FlashTypes
    <2>2. \A q : IsSeq(q) => Len(q) \in Nat
        BY ConcatIs
    <2> QED BY <2>1, <2>2
<1>4. Sent' = 0
    BY <1>3 DEF Sent
<1>5. Sending'
    BY <1>3, <1>4 DEF Sending
<1>6. LoaderKnows'
    <2> SUFFICES ASSUME found'
                 PROVE  /\ "DPD" \notin chip'.m_sreg
                        /\ Sending' /\ Enabling' /\ Commanding' /\ Polling'
        BY DEF LoaderKnows
    <2>1. Between /\ "DPD" \notin chip.m_sreg
        BY DEF LoaderInv, LoaderKnows
    <2>2. IsDone /\ chip.m_count = 0 /\ ~cfg_user_mode
        <3>1. <<>> # <<End>>
            <4> DEFINE e == End
            <4> HIDE DEF e
            <4>1. <<>> # <<e>>
                OBVIOUS
            <4> QED BY <4>1 DEF e
        <3> QED BY <2>1, <3>1 DEF Between
    <2>3. Enabling'
        BY <1>1, <1>4, <2>2 DEF Enabling, IsDone
    <2>4. Commanding'
        <3>1. CommandAt' \in 4 .. 5
            BY DEF CommandAt, CommandOf
        <3> QED BY <1>4, <3>1 DEF Commanding
    <2>5. Polling'
        BY <1>3 DEF Polling
    <2> QED BY <1>1, <1>5, <2>1, <2>3, <2>4, <2>5
<1>7. Busy'
    BY DEF Acting, Busy
<1>8. ~cpu.running /\ CpuRuns'
    BY <1>7 DEF LoaderInv, CpuRuns, Busy
<1>9. FirstLoader'
    BY <1>1, <1>7 DEF LoaderInv, FirstLoader, Quiet, Busy
<1> QED BY <1>2, <1>6, <1>8, <1>9 DEF Rest

\* flwait() asks for the status again, or is done.
LEMMA Waits ==
    ASSUME LoaderInv, FlashTypes', UNCHANGED <<runs, user, found, cpu>>,
           NEW from \in {"erasing", "writing"}, NEW to \in {"verifyErase", "verifyPage"},
           WhileWip(from, to)
    PROVE  Rest'
<1>1. /\ pc = from /\ out = <<>> /\ UNCHANGED flashVars /\ UNCHANGED drvrVars
      /\ chip' = chip /\ cfg_user_mode' = cfg_user_mode /\ rx' = rx
    BY DEF WhileWip, Goto, flashVars
<1>2. Busy /\ Acting /\ Busy'
    BY <1>1 DEF Acting, Busy, WhileWip, Goto
<1>3. Deselected'
    BY <1>1 DEF LoaderInv, Deselected
<1>4. ~cpu.running /\ CpuRuns'
    BY <1>2 DEF LoaderInv, CpuRuns, Busy
<1>5. FirstLoader'
    BY <1>1, <1>2 DEF LoaderInv, FirstLoader, Quiet, Busy
<1>6. LoaderKnows'
    <2> SUFFICES ASSUME found'
                 PROVE  LoaderKnows'
        BY DEF LoaderKnows
    <2>1. /\ "DPD" \notin chip.m_sreg /\ Sending /\ Enabling /\ Commanding /\ Polling
          /\ pc = "writing" => PageAsserted
        BY <1>2 DEF LoaderInv, LoaderKnows
    <2>2. Len(out) = 0
        BY <1>1
    <2>3. /\ chip.m_state = "RDSR" /\ chip.m_count >= 1
          /\ "WIP" \in chip.m_sreg => 0 \in chip.m_oreg /\ 0 \in rx
        BY <2>1, <2>2 DEF Polling
    <2>4. "RDSR" \notin Resting
        BY DEF Resting
    <2>5. CASE 0 \notin rx
        <3>1. pc' = to /\ out' = <<End>>
            BY <2>5 DEF WhileWip, Goto, Sends
        <3>2. <<End>> # <<>>
            <4> DEFINE e == End
            <4> HIDE DEF e
            <4>1. <<e>> # <<>>
                OBVIOUS
            <4> QED BY <4>1 DEF e
        <3>3. Between'
            BY <1>1, <2>3, <2>4, <2>5, <3>1, <3>2 DEF Between, IsDone
        <3>4. ~Acting' /\ pc' # "writing"
            BY <3>1 DEF Acting
        <3> QED BY <1>1, <2>1, <3>3, <3>4 DEF LoaderKnows
    <2>6. CASE 0 \in rx
        <3>1. pc' = pc /\ out' = <<Cmd("EMPTY")>>
            BY <1>1, <2>6 DEF WhileWip, Goto, Sends
        <3>2. Len(out') = 1 /\ out'[1] = Cmd("EMPTY")
            <4> DEFINE e == Cmd("EMPTY")
            <4> HIDE DEF e
            <4>1. Len(<<e>>) = 1 /\ <<e>>[1] = e
                OBVIOUS
            <4> QED BY <3>1, <4>1 DEF e
        <3>3. Script' = Script /\ CommandAt' = CommandAt
            <4>1. \A w : Bytes(w)' = Bytes(w)
                BY <1>1, ScriptStays
            <4> QED BY <3>1, <4>1 DEF Script, CommandAt
        <3> DEFINE n == Len(Script)
        <3>4. n \in Nat /\ CommandAt \in 4 .. 5 /\ n >= CommandAt + 5 /\ Script[n] = Cmd("EMPTY")
            <4>1. pc \in {"erasing", "writing"} /\ (pc = "writing" => PageLength \in Nat \ {0})
                BY <1>1, <2>1, PageLengthIs DEF LoaderInv, FlashTypes
            <4> QED BY <4>1, ScriptIs DEF Script, CommandAt
        <3>5. Sent' = n - 1
            BY <3>2, <3>3 DEF Sent
        <3>6. Sending'
            <4> HIDE DEF n
            <4>1. Sent' >= 0 /\ Sent' + 1 = n
                BY <3>4, <3>5
            <4>2. \A k \in 1 .. Len(out') : k = 1
                BY <3>2
            <4>3. \A k \in 1 .. Len(out') : out'[k] = Script'[Sent' + k]
                BY <3>2, <3>3, <3>4, <4>1, <4>2
            <4> QED BY <4>1, <4>3 DEF Sending
        <3>7. ~(Sent' < CommandAt')
            <4> HIDE DEF n
            <4>1. ~(n - 1 < CommandAt)
                BY <3>4
            <4> QED BY <3>3, <3>5, <4>1
        <3>8. Enabling' /\ Commanding'
            BY <3>2, <3>7 DEF Enabling, Commanding
        <3>9. Polling'
            BY <1>1, <2>3, <2>4, <3>2 DEF Polling
        <3>10. Acting' /\ (pc' = "writing" => PageAsserted')
            BY <1>1, <1>2, <2>1, <3>1, AssertedStays DEF Acting
        <3> QED BY <1>1, <2>1, <3>6, <3>8, <3>9, <3>10 DEF LoaderKnows
    <2> QED BY <2>5, <2>6
<1> QED BY <1>3, <1>4, <1>5, <1>6 DEF Rest

LEMMA KindStays ==
    ASSUME NEW b, CfgWrite(b), FlashTypes
    PROVE  chip'.kind = chip.kind
<1>1. IsChip(chip) /\ chip.m_count \in 0 .. 4
    BY DEF FlashTypes
<1>2. CASE b.t = "end" /\ chip' \in (IF cfg_user_mode THEN Deselect(chip) ELSE {chip})
    <2>1. \A d \in Deselect(chip) : d.kind = chip.kind
        BY <1>1, DeselectIs
    <2> QED BY <1>2, <2>1
<1>3. CASE chip' = (IF chip.m_count = 0 THEN Command(chip, b.cmd) ELSE Data(chip, {}))
    BY <1>1, <1>3, CommandKeeps, DataIs
<1>4. CASE chip' = Address(chip, b.addr)
    BY <1>1, <1>4, AddressIs
<1>5. CASE chip' = Data(chip, b.byte)
    BY <1>1, <1>5, DataIs
<1> QED BY <1>2, <1>3, <1>4, <1>5 DEF CfgWrite, Shifted

\* The loader, or a user, sends a byte.
LEMMA SendsKeep ==
    ASSUME LoaderInv, FlashTypes', SendByte
    PROVE  Rest'
<1>0. /\ FlashTypes /\ Deselected /\ LoaderKnows /\ CpuRuns /\ FirstLoader
      /\ UNCHANGED <<runs, user, found, cpu>> /\ pc' = pc /\ UNCHANGED drvrVars
      /\ out # <<>> /\ CfgWrite(Head(out))
    BY DEF LoaderInv, SendByte, Send, countVars, boardVars
<1>1. Deselected'
    <2>1. PICK b : b = Head(out)
        OBVIOUS
    <2>2. CfgWrite(b)
        BY <1>0, <2>1
    <2> QED BY <1>0, <2>2, SendDeselects
<1>2. CASE ~(Busy /\ found)
    <2>1. LoaderKnows'
        BY <1>0, <1>2 DEF LoaderKnows, Busy
    <2>2. ~(user = 0 /\ ~Busy) /\ (Busy => ~cpu.running)
        BY <1>0 DEF CpuRuns, Busy
    <2>3. ~(runs = 0 /\ user = 0) /\ ~(runs = 1 /\ user = 0)
        BY <1>0, <1>2, <2>2 DEF FirstLoader, Ready
    <2>4. CpuRuns'
        BY <1>0, <2>2 DEF CpuRuns, Busy
    <2>5. FirstLoader'
        BY <1>0, <2>3 DEF FirstLoader, Quiet
    <2> QED BY <1>1, <2>1, <2>4, <2>5 DEF Rest
<1>3. CASE Busy /\ found
    <2>1. Busy' /\ ~cpu.running /\ CpuRuns'
        BY <1>0, <1>3 DEF CpuRuns, Busy
    <2>2. "DPD" \notin chip.m_sreg
        BY <1>0, <1>3 DEF LoaderKnows
    <2>3. /\ LoaderKnows' /\ chip'.kind = chip.kind
          /\ (chip.m_write => "WIP" \in chip.m_sreg)
               => (chip'.m_write => "WIP" \in chip'.m_sreg)
          /\ Quiet /\ chip.m_state # "INVALID" => chip'.m_state # "INVALID"
        <3>1. CASE Acting
            <4>1. /\ Sending /\ Enabling /\ Commanding /\ Polling
                  /\ pc = "writing" => PageAsserted
                BY <1>0, <1>3, <3>1 DEF LoaderKnows
            <4>2. Sending' /\ Acting'
                BY <1>0, <3>1, <4>1, SentOne
            <4>3. /\ "DPD" \notin chip'.m_sreg
                  /\ Enabling' /\ Commanding' /\ Polling'
                  /\ (chip.m_write => "WIP" \in chip.m_sreg)
                       => (chip'.m_write => "WIP" \in chip'.m_sreg)
                  /\ Quiet /\ chip.m_state # "INVALID" => chip'.m_state # "INVALID"
                BY <1>0, <2>2, <3>1, <4>1, SendActing
            <4>4. chip'.kind = chip.kind
                <5>1. PICK b : b = Head(out)
                    OBVIOUS
                <5>2. CfgWrite(b)
                    BY <1>0, <5>1
                <5> QED BY <1>0, <5>2, KindStays
            <4>5. pc' = "writing" => PageAsserted'
                BY <1>0, <4>1, AssertedStays
            <4> QED BY <4>2, <4>3, <4>4, <4>5 DEF LoaderKnows
        <3>2. CASE ~Acting
            <4>1. Between
                BY <1>0, <1>3, <3>2 DEF LoaderKnows
            <4>2. /\ "DPD" \notin chip'.m_sreg /\ Between' /\ chip'.kind = chip.kind
                  /\ (chip.m_write => "WIP" \in chip.m_sreg)
                       => (chip'.m_write => "WIP" \in chip'.m_sreg)
                  /\ chip.m_state # "INVALID" => chip'.m_state # "INVALID"
                BY <1>0, <2>2, <4>1, SendBetween
            <4>3. ~Acting' /\ pc' # "writing"
                BY <1>0, <3>2 DEF Acting
            <4> QED BY <4>2, <4>3 DEF LoaderKnows
        <3> QED BY <3>1, <3>2
    <2>4. FirstLoader'
        <3>1. ~(runs = 0 /\ user = 0)
            BY <1>0 DEF FirstLoader, Ready
        <3> QED BY <1>0, <1>3, <2>3, <3>1 DEF FirstLoader, Quiet
    <2> QED BY <1>1, <2>1, <2>3, <2>4 DEF Rest
<1> QED BY <1>2, <1>3

LEMMA ChipDoneKeeps ==
    ASSUME LoaderInv, FlashTypes', ChipDone
    PROVE  Rest'
<1>1. /\ FlashTypes /\ Deselected /\ LoaderKnows /\ CpuRuns /\ FirstLoader
      /\ UNCHANGED <<runs, user, found, cpu>> /\ pc' = pc /\ out' = out /\ UNCHANGED drvrVars
      /\ cfg_user_mode' = cfg_user_mode /\ rx' = rx /\ chip.m_write /\ chip' = WriteDone(chip)
    BY DEF LoaderInv, ChipDone, countVars, boardVars
<1>2. /\ chip'.kind = chip.kind /\ chip'.m_state = chip.m_state /\ chip'.m_count = chip.m_count
      /\ chip'.m_sreg = chip.m_sreg \cap {"BP"} /\ chip'.m_oreg = chip.m_oreg
      /\ ~chip'.m_write
    BY <1>1, WriteDoneIs DEF FlashTypes
<1>3. "WIP" \notin chip'.m_sreg /\ "DPD" \notin chip'.m_sreg
    BY <1>2
<1>4. Deselected'
    BY <1>1, <1>2 DEF Deselected
<1>5. CpuRuns'
    BY <1>1, <1>3 DEF CpuRuns, Busy
<1>6. FirstLoader'
    <2>1. ~(runs = 0 /\ user = 0)
        BY <1>1 DEF FirstLoader
    <2> QED BY <1>1, <1>2, <2>1 DEF FirstLoader, Busy, Quiet
<1>7. LoaderKnows'
    <2> SUFFICES ASSUME Busy, found
                 PROVE  LoaderKnows'
        BY <1>1 DEF LoaderKnows, Busy
    <2>1. CASE Acting
        <3>1. /\ Sending /\ Enabling /\ Commanding /\ Polling
              /\ pc = "writing" => PageAsserted
            BY <1>1, <2>1 DEF LoaderKnows
        <3>2. Script' = Script /\ Sent' = Sent /\ CommandAt' = CommandAt /\ Operation' = Operation
            <4>1. \A w : Bytes(w)' = Bytes(w)
                BY <1>1, ScriptStays
            <4> QED BY <1>1, <4>1 DEF Script, Sent, CommandAt, Operation
        <3>3. Sending'
            BY <1>1, <3>1, <3>2 DEF Sending
        \* The chip that a quiet loader enables to write has nothing to do.
        <3>4. Quiet' = Quiet /\ (Quiet => "WIP" \in chip.m_sreg)
            BY <1>1, <1>2 DEF Quiet, FirstLoader
        <3>5. Enabling'
            BY <1>1, <1>2, <1>3, <3>1, <3>2, <3>4 DEF Enabling, IsDone
        <3>6. Commanding' /\ Polling'
            BY <1>1, <1>2, <1>3, <3>1, <3>2 DEF Commanding, Polling
        <3>7. Acting' /\ (pc' = "writing" => PageAsserted')
            BY <1>1, <2>1, <3>1, AssertedStays DEF Acting
        <3> QED BY <1>3, <3>3, <3>5, <3>6, <3>7 DEF LoaderKnows
    <2>2. CASE ~Acting
        <3>1. Between
            BY <1>1, <2>2 DEF LoaderKnows
        <3>2. Between'
            BY <1>1, <1>2, <1>3, <3>1 DEF Between, IsDone
        <3>3. ~Acting' /\ pc' # "writing"
            BY <1>1, <2>2 DEF Acting
        <3> QED BY <1>3, <3>2, <3>3 DEF LoaderKnows
    <2> QED BY <2>1, <2>2
<1> QED BY <1>4, <1>5, <1>6, <1>7 DEF Rest

LEMMA DriverKeeps ==
    ASSUME LoaderInv, FlashTypes', Driver
    PROVE  Rest'
<1>1. FlashTypes /\ UNCHANGED <<runs, user, found, cpu>>
    BY DEF LoaderInv, Driver, countVars, boardVars
<1>2. chip' = chip /\ cfg_user_mode' = cfg_user_mode => ReadsOnly
    BY <1>1, ReadsAre
<1>3. CASE NextSector("start")
    <2>1. /\ chip' = chip /\ cfg_user_mode' = cfg_user_mode /\ pc = "sector" /\ out = <<>>
          /\ pc' \in {"compare", "start"} /\ out' \in {<<>>, Finish}
        BY <1>3 DEF NextSector, Goto, Sends, flashVars
    <2> QED BY <1>1, <1>2, <2>1, Moves DEF Busy, Acting
<1>4. CASE Compare
    <2>1. /\ chip' = ChipAfterRead(at) /\ cfg_user_mode' = cfg_user_mode /\ pc = "compare"
          /\ out = <<>> /\ pc' = "compare" /\ out' = out
        BY <1>4 DEF Compare, Goto
    <2>2. ReadsOnly
        <3>1. PICK a : a = at
            OBVIOUS
        <3> QED BY <1>1, <2>1, <3>1, ReadsAre
    <2> QED BY <1>1, <2>1, <2>2, Moves DEF Busy, Acting
<1>5. CASE Compared2
    <2>1. /\ UNCHANGED flashVars /\ chip' = chip /\ cfg_user_mode' = cfg_user_mode
          /\ pc = "compare" /\ out = <<>>
        BY <1>5 DEF Compared2, Goto, flashVars
    <2>2. CASE pc' \in {"sector", "page"} /\ out' = <<>>
        BY <1>1, <1>2, <2>1, <2>2, Moves DEF Busy, Acting
    <2>3. CASE pc' = "erasing" /\ out' = EraseCommand(s) \o FlWait /\ s' = s
        <3>1. out' = Bytes("erasing") /\ out' = Script'
            BY <2>3 DEF Script, Bytes, EraseCommand, FlWait
        <3>2. Len(Bytes("erasing")) \in Nat /\ Len(Bytes("erasing")) >= 9
            <4>1. /\ Len(Bytes("erasing")) \in Nat /\ CommandOf("erasing") \in 4 .. 5
                  /\ Len(Bytes("erasing")) >= CommandOf("erasing") + 5
                BY ScriptIs
            <4> QED BY <4>1
        <3>3. Len(out') > 3
            BY <3>1, <3>2
        <3> QED BY <1>1, <2>1, <2>3, <3>1, <3>3, Begins DEF Busy, Acting
    <2> QED BY <1>5, <2>2, <2>3 DEF Compared2, Goto, Sends
<1>6. CASE WhileWip("erasing", "verifyErase")
    BY <1>1, <1>6, Waits
<1>7. CASE VerifyErase
    <2> DEFINE r == VerifyAddr(s) + SectorBytes - WordBytes
    <2>1. /\ chip' = ChipAfterRead(r) /\ cfg_user_mode' = cfg_user_mode
          /\ pc = "verifyErase" /\ out = <<>> /\ pc' \in {"page", "failed"} /\ out' = out
        BY <1>7 DEF VerifyErase, Goto
    <2>2. ReadsOnly
        <3>1. PICK a : a = r
            OBVIOUS
        <3> HIDE DEF r
        <3> QED BY <1>1, <2>1, <3>1, ReadsAre
    <2> QED BY <1>1, <2>1, <2>2, Moves DEF Busy, Acting
<1>8. CASE Page
    <2>1. /\ UNCHANGED flashVars /\ UNCHANGED drvrVars /\ chip' = chip
          /\ cfg_user_mode' = cfg_user_mode /\ pc = "page" /\ out = <<>>
        BY <1>8 DEF Page, Goto, flashVars
    <2>2. CASE pc' \in {"verifyPage", "failed"} /\ out' = <<>>
        BY <1>1, <1>2, <2>1, <2>2, Moves DEF Busy, Acting
    <2>3. CASE pc' = "writing" /\ out' = ProgramCommand \o FlWait /\ PageAsserted
        <3>1. out' = Bytes("writing")
            BY <2>3 DEF Bytes
        <3>2. Script' = Bytes("writing")
            <4>1. \A w : Bytes(w)' = Bytes(w)
                BY <2>1, ScriptStays
            <4> QED BY <2>3, <4>1 DEF Script
        <3>3. Len(Bytes("writing")) \in Nat /\ Len(Bytes("writing")) >= 9
            <4>1. PageLength \in Nat \ {0}
                BY <1>1, <2>3, PageLengthIs DEF FlashTypes
            <4>2. /\ Len(Bytes("writing")) \in Nat /\ CommandOf("writing") \in 4 .. 5
                  /\ Len(Bytes("writing")) >= CommandOf("writing") + 5
                BY <4>1, ScriptIs
            <4> QED BY <4>2
        <3>4. Len(out') > 3 /\ PageAsserted'
            BY <2>1, <2>3, <3>1, <3>3, AssertedStays
        <3> QED BY <1>1, <2>1, <2>3, <3>1, <3>2, <3>4, Begins DEF Busy, Acting
    <2> QED BY <1>8, <2>2, <2>3 DEF Page, Goto, Sends
<1>9. CASE WhileWip("writing", "verifyPage")
    BY <1>1, <1>9, Waits
<1>10. CASE VerifyPage
    <2> DEFINE r == Max(WordsOf(PageLength \div WordBytes))
    <2>1. /\ chip' = chip \/ chip' = ChipAfterRead(r)
          /\ cfg_user_mode' = cfg_user_mode
          /\ pc = "verifyPage" /\ out = <<>> /\ pc' \in {"page", "failed"} /\ out' = out
        BY <1>10 DEF VerifyPage, Goto
    <2>2. ReadsOnly
        <3>1. PICK a : a = r
            OBVIOUS
        <3> HIDE DEF r
        <3> QED BY <1>1, <2>1, <3>1, ReadsAre
    <2> QED BY <1>1, <2>1, <2>2, Moves DEF Busy, Acting
<1>11. CASE PagesDone
    <2>1. /\ chip' = chip /\ cfg_user_mode' = cfg_user_mode /\ pc = "page" /\ out = <<>>
          /\ pc' = "sector" /\ out' = out
        BY <1>11 DEF PagesDone, Goto, flashVars
    <2> QED BY <1>1, <1>2, <2>1, Moves DEF Busy, Acting
<1> QED BY <1>3, <1>4, <1>5, <1>6, <1>7, <1>8, <1>9, <1>10, <1>11 DEF Driver, Write

LEMMA RestInit == Init => Rest
<1> SUFFICES ASSUME Init PROVE Rest
    OBVIOUS
<1>1. PICK kind \in Chips, mem \in Flashes : chip = FlashSimInit(kind, mem)
    BY DEF Init
<1>2. /\ chip.m_count = 0 /\ chip.m_state = "IDLE" /\ chip.m_sreg = {"BP"} /\ ~chip.m_write
    BY <1>1 DEF FlashSimInit
<1>3. /\ pc = "none" /\ out = <<>> /\ runs = 0 /\ user = 0 /\ ~cfg_user_mode /\ ~cpu.running
    BY DEF Init
<1>4. Deselected
    BY <1>2 DEF Deselected, Resting
<1>5. LoaderKnows /\ CpuRuns
    BY <1>3 DEF LoaderKnows, CpuRuns, Busy
<1>6. FirstLoader
    BY <1>2, <1>3 DEF FirstLoader, Ready, Quiet
<1> QED BY <1>4, <1>5, <1>6 DEF Rest

LEMMA RestStep == LoaderInv /\ FlashTypes' /\ [Next]_vars => Rest'
<1> SUFFICES ASSUME LoaderInv, FlashTypes', [Next]_vars PROVE Rest'
    OBVIOUS
<1>0. FlashTypes /\ Deselected /\ LoaderKnows /\ CpuRuns /\ FirstLoader
    BY DEF LoaderInv
<1>1. CASE UNCHANGED vars
    <2>1. /\ UNCHANGED drvrVars /\ UNCHANGED <<runs, user, found, cpu>> /\ pc' = pc /\ out' = out
          /\ chip' = chip /\ cfg_user_mode' = cfg_user_mode /\ rx' = rx
        BY <1>1 DEF vars, flashVars, boardVars, countVars
    <2>2. Script' = Script /\ CommandAt' = CommandAt
        <3>1. \A w : Bytes(w)' = Bytes(w)
            BY <2>1, ScriptStays
        <3> QED BY <2>1, <3>1 DEF Script, CommandAt
    <2>3. Deselected' /\ CpuRuns' /\ FirstLoader'
        BY <1>0, <2>1 DEF Deselected, CpuRuns, FirstLoader, Busy, Ready, Quiet
    <2>4. /\ Sending' = Sending /\ Enabling' = Enabling /\ Commanding' = Commanding
          /\ Polling' = Polling /\ Between' = Between /\ Acting' = Acting /\ Busy' = Busy
        <3>1. Sent' = Sent /\ Operation' = Operation
            BY <2>1, <2>2 DEF Sent, Operation
        <3> QED BY <2>1, <2>2, <3>1
            DEF Sending, Enabling, Commanding, Polling, Between, Acting, Busy, IsDone, Quiet
    <2>5. LoaderKnows'
        BY <1>0, <2>1, <2>4, AssertedStays DEF LoaderKnows
    <2> QED BY <2>3, <2>5 DEF Rest
<1>2. CASE Start
    <2>1. /\ pc' = "check" /\ out' = <<>> /\ runs' = runs + 1 /\ user' = user /\ ~Busy
          /\ cpu' = [cpu EXCEPT !.running = FALSE] /\ found' = Ready
          /\ chip' = chip /\ cfg_user_mode' = cfg_user_mode
        BY <1>2 DEF Start, flashVars, Busy
    <2>2. Deselected'
        BY <1>0, <2>1 DEF Deselected
    <2>3. ~cpu'.running /\ Busy'
        BY <1>0, <2>1 DEF FlashTypes, Busy
    <2>4. CpuRuns'
        BY <2>3 DEF CpuRuns
    <2>5. LoaderKnows'
        <3> SUFFICES ASSUME found'
                     PROVE  "DPD" \notin chip'.m_sreg /\ Between'
            BY <2>1 DEF LoaderKnows, Acting
        <3>1. Ready
            BY <2>1
        <3> QED BY <1>0, <2>1, <3>1 DEF Ready, Between, IsDone, Deselected
    <2>6. FirstLoader'
        <3>1. runs' # 0 /\ (runs' = 1 => runs = 0)
            <4>1. runs \in Nat /\ runs' = runs + 1
                BY <1>0, <2>1 DEF FlashTypes
            <4> QED BY <4>1
        <3>2. CASE runs' = 1 /\ user' = 0
            <4>1. Ready /\ ~chip.m_write /\ chip.m_state = "IDLE"
                BY <1>0, <2>1, <3>1, <3>2 DEF FirstLoader
            <4> QED BY <2>1, <3>1, <4>1 DEF FirstLoader, Quiet
        <3>3. CASE ~(runs' = 1 /\ user' = 0)
            BY <3>1, <3>3 DEF FirstLoader, Quiet
        <3> QED BY <3>2, <3>3
    <2> QED BY <2>2, <2>4, <2>5, <2>6 DEF Rest
<1>3. CASE UserSession \/ DumpFlash
    <2>1. /\ pc' = pc /\ ~Busy /\ user' = user + 1 /\ cpu' = cpu
          /\ cfg_user_mode' = cfg_user_mode
        BY <1>3 DEF UserSession, DumpFlash, flashVars, boardVars
    <2>2. ReadsOnly
        <3>1. PICK a : a = FlashBase + MemBytes - WordBytes
            OBVIOUS
        <3>2. chip' = chip \/ chip' = ChipAfterRead(a)
            BY <1>3, <3>1 DEF UserSession, DumpFlash, flashVars
        <3> QED BY <1>0, <2>1, <3>2, ReadsAre
    <2>3. user' # 0
        BY <1>0, <2>1 DEF FlashTypes
    <2>4. Deselected'
        BY <1>0, <2>2 DEF Deselected, ReadsOnly, Resting
    <2>5. LoaderKnows' /\ CpuRuns' /\ FirstLoader'
        BY <1>0, <2>1, <2>3 DEF LoaderKnows, CpuRuns, FirstLoader, Busy, Quiet
    <2> QED BY <2>4, <2>5 DEF Rest
<1>4. CASE CheckSections \/ LoadBkram \/ ToFlash \/ WriteFlash
    <2>1. /\ UNCHANGED <<runs, user, found, cpu>> /\ chip' = chip /\ out = <<>> /\ out' = out
          /\ cfg_user_mode' = cfg_user_mode /\ pc \in {"check", "section"}
          /\ pc' \in {"section", "failed", "sector", "start"}
        BY <1>4 DEF CheckSections, LoadBkram, ToFlash, WriteFlash, Goto, flashVars, boardVars,
            countVars
    <2>2. ReadsOnly
        BY <1>0, <2>1, ReadsAre
    <2> QED BY <2>1, <2>2, Moves DEF Busy, Acting
<1>5. CASE Driver
    BY <1>5, DriverKeeps
<1>6. CASE StartCpu
    <2>1. /\ UNCHANGED <<runs, user, found>> /\ chip' = chip /\ cfg_user_mode' = cfg_user_mode
          /\ pc = "start" /\ out = <<>> /\ out' = out /\ pc' = "done"
        BY <1>6 DEF StartCpu, Goto, flashVars, countVars
    <2>2. Busy /\ ~Acting /\ ~Busy'
        BY <2>1 DEF Busy, Acting
    <2>3. found => ~cfg_user_mode /\ "WIP" \notin chip.m_sreg
        BY <1>0, <2>1, <2>2 DEF LoaderKnows, Between, IsDone
    <2>4. Deselected' /\ LoaderKnows' /\ FirstLoader'
        BY <1>0, <2>1, <2>2 DEF Deselected, LoaderKnows, FirstLoader, Quiet
    <2>5. CpuRuns'
        BY <1>0, <2>1, <2>3 DEF CpuRuns
    <2> QED BY <2>4, <2>5 DEF Rest
<1>7. CASE SendByte
    BY <1>7, SendsKeep
<1>8. CASE Kill
    <2>1. /\ UNCHANGED <<runs, user, found, cpu>> /\ chip' = chip /\ out' = <<>> /\ Busy
          /\ cfg_user_mode' = cfg_user_mode /\ pc' = "killed" /\ ~Busy'
        BY <1>8 DEF Kill, flashVars, boardVars, countVars, Busy
    <2>2. ReadsOnly
        BY <1>0, <2>1, ReadsAre
    <2> QED BY <2>1, <2>2, Moves
<1>9. CASE ChipDone
    BY <1>9, ChipDoneKeeps
<1> QED BY <1>1, <1>2, <1>3, <1>4, <1>5, <1>6, <1>7, <1>8, <1>9 DEF Next, Loader

\* The invariant: what the chip does, at every place of the loader and after every
\* byte that it sends (flashdrvr.cpp:54-127, 130-200, 203-300).
THEOREM SpecKeepsLoaderInv == Spec => []LoaderInv
<1>1. Init => LoaderInv
    BY TypesInit, RestInit DEF LoaderInv, Rest
<1>2. LoaderInv /\ [Next]_vars => LoaderInv'
    <2>1. LoaderInv /\ [Next]_vars => FlashTypes'
        BY TypesStep DEF LoaderInv
    <2> QED BY <2>1, RestStep DEF LoaderInv, Rest
<1> QED BY <1>1, <1>2, PTL DEF Spec

-----------------------------------------------------------------------------
(* The properties.                                                            *)

\* While the CPU runs, the flash answers it: the loader ends with a write to the
\* configuration port that leaves user mode, and never while the chip is at work.
THEOREM LeftReadable == Spec => []RunsReadable
<1>1. LoaderInv => RunsReadable
    BY DEF LoaderInv, CpuRuns, RunsReadable
<1> QED BY <1>1, SpecKeepsLoaderInv, PTL

-----------------------------------------------------------------------------
(* The pages that are programmed.                                             *)

\* As the flash is built, it begins and ends with a page, and so does a sector.
Aligned(a) == \E q \in Int : a = q * PageBytes
PagesAsBuilt ==
    /\ Aligned(FlashBase) /\ Aligned(MemBytes) /\ Aligned(SectorBytes)

\* What the stack held where the length of the first page will be does not end in
\* the flash.  Nothing in the code sees to it: flashdrvr.cpp:244 clips a length
\* that is not set yet.  With one that does end in the flash, the first page that
\* is programmed may be cut too short or fail page_program()'s assertions, so what
\* rests on the pages' lengths is proved of the behaviours where this holds.
StaleHarmless ==
    pc \in {"check", "section"} => page_len <= 0 \/ page_len > MemBytes

\* A length that was left by a page before an address, or none that matters.
Past(a) == page_len <= 0 \/ page_len > MemBytes \/ addr + page_len <= a
BySector == pc \in {"sector", "compare", "erasing", "verifyErase"}
PageByPage == pc \in {"page", "writing", "verifyPage"}
PagesInv ==
    /\ pc = "section" => \A i \in DOMAIN Sections : InBkram(Sections[i]) \/ InFlash(Sections[i])
    /\ pc \in {"check", "section"} =>
         startaddr = FlashBase /\ codelen <= MemBytes
    /\ BySector \/ PageByPage =>
         addr = FlashBase /\ len <= MemBytes /\ Aligned(s) /\ addr < s + SectorBytes
    /\ BySector => Past(s)
    /\ pc = "compare" =>
         /\ at >= addr /\ at >= s
         /\ newv # 0 => newv >= addr /\ newv >= s /\ newv < s + SectorBytes
    /\ PageByPage => p >= addr /\ p <= s + SectorBytes /\ Past(PageOf(p))
    /\ PageByPage /\ pc # "page" => p < s + SectorBytes /\ p < addr + len

LEMMA AlignedIs ==
    ASSUME NEW a \in Int, Aligned(a)
    PROVE  /\ PageOf(a) = a
           /\ \A b \in Int : a <= b => a <= PageOf(b)
           /\ \A b \in Int : b < a => PageOf(b) + PageBytes <= a
<1>0. PageBytes \in Nat \ {0}
    BY FlashSimAssumption DEF FlashSimAssumption
<1>1. PageOf(a) = a
    <2>1. PICK q \in Int : a = q * PageBytes
        BY DEF Aligned
    <2> DEFINE x == q * PageBytes
    <2>2. x = a /\ x <= a /\ a < x + PageBytes
        BY <1>0, <2>1
    <2> QED BY <2>1, <2>2, PageIs
<1>2. ASSUME NEW b \in Int, a <= b PROVE a <= PageOf(b)
    <2>1. PageOf(b) \in Int /\ b < PageOf(b) + PageBytes
        BY PageOfIs
    <2>2. CASE PageOf(b) <= a
        <3>1. PageOf(a) = PageOf(b)
            BY <1>0, <1>2, <2>1, <2>2, SamePage
        <3> QED BY <1>1, <2>1, <3>1
    <2> QED BY <2>1, <2>2
<1>3. ASSUME NEW b \in Int, b < a PROVE PageOf(b) + PageBytes <= a
    <2>1. PageOf(b) \in Int /\ PageOf(b) <= b
        BY PageOfIs
    <2>2. CASE a < PageOf(b) + PageBytes
        <3>1. PageOf(a) = PageOf(b)
            BY <1>0, <1>3, <2>1, <2>2, SamePage
        <3> QED BY <1>1, <1>3, <2>1, <3>1
    <2> QED BY <1>0, <2>1, <2>2
<1> QED BY <1>1, <1>2, <1>3

LEMMA AlignedSum ==
    ASSUME NEW a \in Int, NEW b \in Int, Aligned(a), Aligned(b)
    PROVE  Aligned(a + b)
<1>1. PICK q \in Int : a = q * PageBytes
    BY DEF Aligned
<1>2. PICK r \in Int : b = r * PageBytes
    BY DEF Aligned
<1>3. PageBytes \in Nat
    BY FlashSimAssumption DEF FlashSimAssumption
<1>4. a + b = (q + r) * PageBytes
    BY <1>1, <1>2, <1>3
<1> QED BY <1>4 DEF Aligned

\* A sector begins with a page.
LEMMA SectorIs ==
    ASSUME NEW a \in Int, PagesAsBuilt
    PROVE  SectorOf(a) \in Int /\ a < SectorOf(a) + SectorBytes /\ Aligned(SectorOf(a))
<1> DEFINE n == SectorBytes
<1>1. n \in Nat \ {0} /\ PageBytes \in Nat
    BY FlashSimAssumption DEF FlashSimAssumption
<1>2. SectorOf(a) = a - (a % n)
    BY DEF SectorOf
<1>3. PICK r \in Int : n = r * PageBytes
    BY DEF PagesAsBuilt, Aligned
<1> HIDE DEF n
<1>4. a % n \in 0 .. n - 1 /\ a = (a \div n) * n + (a % n) /\ a \div n \in Int
    BY <1>1
<1>5. a - (a % n) = (a \div n) * n /\ a - (a % n) \in Int /\ a < a - (a % n) + n
    BY <1>1, <1>4
<1>6. (a \div n) * n = ((a \div n) * r) * PageBytes /\ (a \div n) * r \in Int
    <2> DEFINE k == a \div n
    <2>1. k \in Int
        BY <1>4
    <2> HIDE DEF k
    <2>2. k * (r * PageBytes) = (k * r) * PageBytes /\ k * r \in Int
        BY <1>1, <2>1
    <2> QED BY <1>3, <2>2 DEF k
<1> QED BY <1>2, <1>5, <1>6 DEF Aligned, n

\* Each page is cut at its end, as the length there was says nothing of this one.
LEMMA Cut ==
    ASSUME FlashTypes, PagesAsBuilt, PagesInv, PageByPage, p < addr + len
    PROVE  PageLength = PageOf(p) + PageBytes - p /\ PageAsserted
<1> DEFINE last == addr + page_len - 1
<1>0. PageBytes \in Nat \ {0} /\ MemBytes \in Nat \ {0}
    BY FlashSimAssumption DEF FlashSimAssumption
<1>1. /\ addr = FlashBase /\ addr \in Int /\ len \in Int /\ len <= MemBytes /\ p \in Int
      /\ page_len \in Int /\ p >= addr /\ Past(PageOf(p)) /\ last \in Int
    BY DEF FlashTypes, PagesInv
<1>2. /\ PageOf(p) \in Int /\ PageOf(p) <= p /\ p < PageOf(p) + PageBytes
      /\ PageOf(last) \in Int /\ PageOf(last) <= last
    BY <1>1, PageOfIs
<1>3. addr <= PageOf(p)
    BY <1>1, AlignedIs DEF PagesAsBuilt
<1>4. PageOf(last) # PageOf(p)
    <2>1. CASE page_len > MemBytes
        <3> DEFINE e == FlashBase + MemBytes
        <3>1. Aligned(e) /\ e \in Int
            BY <1>0, <1>1, AlignedSum DEF PagesAsBuilt
        <3>2. e <= last /\ p < e
            BY <1>0, <1>1, <2>1
        <3> HIDE DEF e
        <3>3. e <= PageOf(last)
            BY <1>1, <3>1, <3>2, AlignedIs
        <3> QED BY <1>1, <1>2, <3>1, <3>2, <3>3
    <2>2. CASE page_len <= 0 \/ addr + page_len <= PageOf(p)
        <3>1. last < PageOf(p)
            BY <1>1, <1>2, <1>3, <2>2
        <3> HIDE DEF last
        <3> QED BY <1>1, <1>2, <3>1
    <2> QED BY <1>1, <2>1, <2>2 DEF Past
<1>5. PageLength = PageOf(p) + PageBytes - p
    <2>1. PageLength = PageOf(p + PageBytes) - p
        BY <1>4 DEF PageLength
    <2>2. PageOf(p + PageBytes) = PageOf(p) + PageBytes
        BY <1>1, NextPageIs
    <2> DEFINE next == PageOf(p + PageBytes)  this == PageOf(p)
    <2>3. /\ PageLength = next - p /\ next = this + PageBytes
          /\ this \in Int /\ p \in Int /\ PageBytes \in Int
        BY <1>0, <1>1, <1>2, <2>1, <2>2
    <2> HIDE DEF next, this
    <2>4. PageLength = this + PageBytes - p
        BY <2>3
    <2> QED BY <2>4 DEF this
<1>6. PageLength > 0 /\ PageLength <= PageBytes
    BY <1>0, <1>1, <1>2, <1>5
<1>7. PageOf(p + PageLength - 1) = PageOf(p)
    <2> DEFINE b == p + PageLength - 1
    <2>1. b \in Int /\ PageOf(p) <= b /\ b < PageOf(p) + PageBytes
        BY <1>0, <1>1, <1>2, <1>5
    <2> HIDE DEF b
    <2>2. PageOf(b) = PageOf(p)
        BY <1>1, <2>1, SamePage
    <2> QED BY <2>2 DEF b
<1> QED BY <1>5, <1>6, <1>7 DEF PageAsserted

LEMMA PagesInit == Init => PagesInv
BY DEF Init, PagesInv, BySector, PageByPage

\* Steps that leave the program of the loader where it is.
PlaceVars == <<pc, prog, startaddr, codelen, drvrVars>>
LEMMA PagesStay == PagesInv /\ UNCHANGED PlaceVars => PagesInv'
<1> SUFFICES ASSUME PagesInv, UNCHANGED PlaceVars PROVE PagesInv'
    OBVIOUS
<1>1. /\ pc' = pc /\ startaddr' = startaddr /\ codelen' = codelen /\ addr' = addr /\ len' = len
      /\ s' = s /\ at' = at /\ newv' = newv /\ p' = p /\ page_len' = page_len /\ prog' = prog
    BY DEF PlaceVars, drvrVars
<1>2. Sections' = Sections
    BY <1>1 DEF Sections
<1>3. \A a : Past(a)' = Past(a)
    BY <1>1 DEF Past
<1>4. BySector' = BySector /\ PageByPage' = PageByPage
    BY <1>1 DEF BySector, PageByPage
<1> QED BY <1>1, <1>2, <1>3, <1>4 DEF PagesInv

\* A place where none of this matters.
LEMMA PagesEnd ==
    ASSUME pc' \in {"none", "start", "done", "failed", "killed"}
    PROVE  PagesInv'
BY DEF PagesInv, BySector, PageByPage

LEMMA PagesToFlash ==
    ASSUME FlashTypes, PagesInv, ToFlash
    PROVE  PagesInv'
<1> DEFINE sc == Sections[sec]
<1>1. /\ sec \in DOMAIN Sections /\ ~InBkram(sc) /\ pc = "section" /\ pc' = "section"
      /\ startaddr' = Smaller(startaddr, sc.m_start)
      /\ codelen' = GrowLength(sc, startaddr') /\ page_len' = page_len /\ prog' = prog
    BY DEF ToFlash, Goto
<1>2. /\ startaddr = FlashBase /\ codelen <= MemBytes /\ InFlash(sc)
    BY <1>1 DEF PagesInv
<1>3. sc.m_start \in Int /\ sc.m_len \in Int
    BY <1>1, SectionIs DEF FlashTypes
<1>4. sc.m_start >= FlashBase /\ sc.m_start + sc.m_len <= FlashBase + MemBytes
    BY <1>2 DEF InFlash, Within
<1>5. FlashBase \in Int /\ MemBytes \in Nat /\ codelen \in Int
    BY ZipLoadAssumption, FlashSimAssumption DEF ZipLoadAssumption, FlashSimAssumption, FlashTypes
<1> HIDE DEF sc
<1>6. startaddr' = FlashBase
    BY <1>1, <1>2, <1>3, <1>4, <1>5 DEF Smaller
<1>7. codelen' <= MemBytes
    BY <1>1, <1>2, <1>3, <1>4, <1>5, <1>6 DEF GrowLength, Larger
<1>8. Sections' = Sections /\ \A i \in DOMAIN Sections : InBkram(Sections[i]) \/ InFlash(Sections[i])
    BY <1>1 DEF PagesInv, Sections
<1> QED BY <1>1, <1>2, <1>6, <1>7, <1>8 DEF PagesInv, BySector, PageByPage

LEMMA PagesWriteFlash ==
    ASSUME FlashTypes, PagesAsBuilt, PagesInv, StaleHarmless, WriteFlash
    PROVE  PagesInv'
<1>1. /\ pc = "section" /\ pc' \in {"sector", "start"} /\ addr' = startaddr /\ len' = codelen
      /\ s' = SectorOf(startaddr) /\ page_len' = page_len
    BY DEF WriteFlash, Goto
<1>2. /\ startaddr = FlashBase /\ codelen <= MemBytes
      /\ page_len <= 0 \/ page_len > MemBytes
    BY <1>1 DEF PagesInv, StaleHarmless
<1>3. startaddr \in Int
    BY DEF FlashTypes
<1>4. startaddr < SectorOf(startaddr) + SectorBytes /\ Aligned(SectorOf(startaddr))
    BY <1>3, SectorIs
<1>5. \A a : Past(a)'
    BY <1>1, <1>2 DEF Past
<1> QED BY <1>1, <1>2, <1>4, <1>5 DEF PagesInv, BySector, PageByPage

\* One sector after the other.
LEMMA PagesBySector ==
    ASSUME FlashTypes, PagesAsBuilt, PagesInv, BySector, Driver
    PROVE  PagesInv'
<1>0. /\ SectorBytes \in Nat \ {0} /\ WordBytes \in Nat \ {0} /\ s \in Int /\ at \in Int /\ addr \in Int
      /\ len \in Int /\ newv \in Int /\ page_len \in Int /\ Aligned(SectorBytes)
    BY ZipLoadAssumption, FlashSimAssumption
        DEF ZipLoadAssumption, FlashSimAssumption, FlashTypes, PagesAsBuilt
<1>1. addr = FlashBase /\ len <= MemBytes /\ Aligned(s) /\ addr < s + SectorBytes /\ Past(s)
    BY DEF PagesInv
<1>2. CASE NextSector("start")
    <2>1. /\ pc = "sector" /\ pc' \in {"compare", "start"} /\ at' = SectorBase /\ newv' = 0
          /\ addr' = addr /\ len' = len /\ s' = s /\ page_len' = page_len
        BY <1>2 DEF NextSector, Goto
    <2>2. SectorBase >= addr /\ SectorBase >= s
        BY <1>0 DEF SectorBase, Larger
    <2> QED BY <1>1, <2>1, <2>2 DEF PagesInv, BySector, PageByPage, Past
<1>3. CASE Compare
    <2>1. /\ pc = "compare" /\ pc' = "compare" /\ at < SectorEnd /\ at' = at + WordBytes
          /\ newv' = newv \/ newv' = at
          /\ addr' = addr /\ len' = len /\ s' = s /\ page_len' = page_len
        BY <1>3 DEF Compare, Goto
    <2>2. at < s + SectorBytes
        BY <1>0, <2>1 DEF SectorEnd, Smaller
    <2>3. /\ at >= addr /\ at >= s
          /\ newv # 0 => newv >= addr /\ newv >= s /\ newv < s + SectorBytes
        BY <2>1 DEF PagesInv
    <2>4. /\ at' >= addr /\ at' >= s
          /\ newv' # 0 => newv' >= addr /\ newv' >= s /\ newv' < s + SectorBytes
        BY <1>0, <2>1, <2>2, <2>3
    <2> QED BY <1>1, <2>1, <2>4 DEF PagesInv, BySector, PageByPage, Past
<1>4. CASE Compared2
    <2>1. /\ pc = "compare" /\ p' = newv /\ UNCHANGED <<addr, len, at, newv, page_len>>
          /\ \/ newv = 0 /\ pc' = "sector" /\ s' = s + SectorBytes
             \/ newv # 0 /\ pc' = "page" /\ s' = s
             \/ pc' = "erasing" /\ s' = s
        BY <1>4 DEF Compared2, Goto
    <2>2. CASE pc' = "sector" /\ s' = s + SectorBytes
        <3>1. Aligned(s')
            BY <1>0, <1>1, <2>2, AlignedSum
        <3>2. Past(s)' /\ addr' < s' + SectorBytes
            BY <1>0, <1>1, <2>1, <2>2 DEF Past
        <3> QED BY <1>1, <2>1, <2>2, <3>1, <3>2 DEF PagesInv, BySector, PageByPage
    <2>3. CASE newv # 0 /\ pc' = "page" /\ s' = s
        <3>1. newv >= addr /\ newv >= s /\ newv < s + SectorBytes
            BY <2>1, <2>3 DEF PagesInv
        <3>2. s <= PageOf(newv) /\ PageOf(newv) \in Int
            BY <1>0, <1>1, <3>1, AlignedIs, PageOfIs
        <3> DEFINE this == PageOf(newv)
        <3>3. PageOf(p)' = this
            BY <2>1 DEF PageOf
        <3> HIDE DEF this
        <3>4. s <= this /\ this \in Int
            BY <3>2 DEF this
        <3>5. Past(PageOf(p))'
            <4>1. page_len <= 0 \/ page_len > MemBytes \/ addr + page_len <= this
                BY <1>0, <1>1, <3>4 DEF Past
            <4> QED BY <2>1, <3>3, <4>1 DEF Past
        <3>6. p' >= addr' /\ p' <= s' + SectorBytes
            BY <1>0, <2>1, <2>3, <3>1
        <3> QED BY <1>1, <2>1, <2>3, <3>5, <3>6 DEF PagesInv, BySector, PageByPage
    <2>4. CASE pc' = "erasing" /\ s' = s
        BY <1>1, <2>1, <2>4 DEF PagesInv, BySector, PageByPage, Past
    <2> QED BY <2>1, <2>2, <2>3, <2>4
<1>5. CASE WhileWip("erasing", "verifyErase")
    <2>1. pc' \in {"erasing", "verifyErase"} /\ UNCHANGED drvrVars
        BY <1>5 DEF WhileWip, Goto
    <2> QED BY <1>1, <2>1 DEF PagesInv, BySector, PageByPage, Past, drvrVars
<1>6. CASE VerifyErase
    <2>1. /\ pc' \in {"page", "failed"} /\ p' = (IF s < addr THEN addr ELSE s)
          /\ UNCHANGED <<addr, len, s, page_len>>
        BY <1>6 DEF VerifyErase, Goto
    <2>2. p' >= addr /\ p' >= s /\ p' <= s + SectorBytes /\ p' \in Int
        BY <1>0, <1>1, <2>1
    <2> DEFINE q == p'  this == PageOf(q)
    <2>3. s <= this /\ this \in Int
        <3> HIDE DEF q
        <3>1. q >= s /\ q \in Int
            BY <2>2 DEF q
        <3> QED BY <1>0, <1>1, <3>1, AlignedIs, PageOfIs
    <2>4. PageOf(p)' = this
        BY DEF PageOf
    <2> HIDE DEF this
    <2>5. Past(PageOf(p))'
        <3>1. page_len <= 0 \/ page_len > MemBytes \/ addr + page_len <= this
            BY <1>0, <1>1, <2>3 DEF Past
        <3> QED BY <2>1, <2>4, <3>1 DEF Past
    <2> QED BY <1>1, <2>1, <2>2, <2>5 DEF PagesInv, BySector, PageByPage
<1> QED BY <1>2, <1>3, <1>4, <1>5, <1>6
    DEF Driver, Write, BySector, Page, WhileWip, VerifyPage, PagesDone, Goto

\* One page of a sector after the other.
LEMMA PagesByPage ==
    ASSUME FlashTypes, PagesAsBuilt, PagesInv, PageByPage, Driver
    PROVE  PagesInv'
<1>0. /\ SectorBytes \in Nat \ {0} /\ PageBytes \in Nat \ {0} /\ s \in Int /\ addr \in Int /\ p \in Int
      /\ len \in Int /\ page_len \in Int /\ Aligned(SectorBytes)
    BY FlashSimAssumption DEF FlashSimAssumption, FlashTypes, PagesAsBuilt
<1>1. /\ addr = FlashBase /\ len <= MemBytes /\ Aligned(s) /\ addr < s + SectorBytes
      /\ p >= addr /\ p <= s + SectorBytes /\ Past(PageOf(p))
    BY DEF PagesInv
<1>2. Aligned(s + SectorBytes) /\ PageOf(p) \in Int /\ PageOf(p) <= p /\ p < PageOf(p) + PageBytes
    BY <1>0, <1>1, AlignedSum, PageOfIs
<1>3. CASE Page
    <2>1. /\ pc' \in {"failed", "verifyPage", "writing"} /\ UNCHANGED drvrVars
          /\ p < s + SectorBytes /\ p < addr + len
        BY <1>3 DEF Page, Goto
    <2>2. Past(PageOf(p))'
        BY <1>1, <2>1 DEF Past, PageOf, drvrVars
    <2> QED BY <1>1, <2>1, <2>2 DEF PagesInv, BySector, PageByPage, drvrVars
<1>4. CASE WhileWip("writing", "verifyPage")
    <2>1. pc = "writing" /\ pc' \in {"verifyPage", "writing"} /\ UNCHANGED drvrVars
        BY <1>4 DEF WhileWip, Goto
    <2>2. Past(PageOf(p))'
        BY <1>1, <2>1 DEF Past, PageOf, drvrVars
    <2>3. p < s + SectorBytes /\ p < addr + len
        BY <2>1 DEF PagesInv, PageByPage
    <2> QED BY <1>1, <2>1, <2>2, <2>3 DEF PagesInv, BySector, PageByPage, drvrVars
<1>5. CASE VerifyPage
    <2>1. /\ pc = "verifyPage" /\ pc' \in {"page", "failed"} /\ p' = PageOf(p + PageBytes)
          /\ page_len' = PageLength /\ UNCHANGED <<addr, len, s>>
        BY <1>5 DEF VerifyPage, Goto
    <2>2. p < s + SectorBytes /\ p < addr + len
        BY <2>1 DEF PagesInv, PageByPage
    <2>3. PageLength = PageOf(p) + PageBytes - p
        BY <2>2, Cut
    <2>4. PageOf(p) + PageBytes <= s + SectorBytes
        BY <1>0, <1>2, <2>2, AlignedIs
    <2> DEFINE this == PageOf(p)
    <2>5. p' = this + PageBytes /\ page_len' = this + PageBytes - p
        BY <1>0, <2>1, <2>3, NextPageIs
    <2>6. this \in Int /\ this <= p /\ p < this + PageBytes /\ this + PageBytes <= s + SectorBytes
        BY <1>2, <2>4
    <2>7. PageOf(p)' = this + PageBytes
        <3>1. PICK q \in Int : this = q * PageBytes
            BY <1>0, PageOfIs
        <3> HIDE DEF this
        <3> DEFINE b == this + PageBytes
        <3>2. b = (q + 1) * PageBytes /\ q + 1 \in Int /\ b \in Int
            BY <1>0, <3>1
        <3>3. Aligned(b)
            BY <3>2 DEF Aligned
        <3> HIDE DEF b
        <3>4. PageOf(b) = b
            BY <3>2, <3>3, AlignedIs
        <3>5. p' = b
            BY <2>5 DEF b
        <3>6. PageOf(p)' = PageOf(b)
            BY <3>5 DEF PageOf
        <3> QED BY <3>4, <3>6 DEF b
    <2> HIDE DEF this
    <2>8. Past(PageOf(p))'
        <3>1. addr + page_len' <= this + PageBytes
            BY <1>0, <1>1, <2>5, <2>6
        <3> QED BY <2>1, <2>7, <3>1 DEF Past
    <2>9. p' >= addr' /\ p' <= s' + SectorBytes
        BY <1>0, <1>1, <2>1, <2>5, <2>6
    <2> QED BY <1>1, <2>1, <2>8, <2>9 DEF PagesInv, BySector, PageByPage
<1>6. CASE PagesDone
    <2>1. pc' = "sector" /\ s' = s + SectorBytes /\ UNCHANGED <<addr, len, page_len>>
        BY <1>6 DEF PagesDone, Goto
    <2>2. PageOf(p) <= s + SectorBytes
        BY <1>0, <1>1, <1>2
    <2>3. Past(s)'
        <3>1. page_len <= 0 \/ page_len > MemBytes \/ addr + page_len <= s + SectorBytes
            BY <1>0, <1>1, <1>2, <2>2 DEF Past
        <3> QED BY <2>1, <3>1 DEF Past
    <2>4. addr' < s' + SectorBytes /\ Aligned(s')
        BY <1>0, <1>1, <1>2, <2>1
    <2> QED BY <1>1, <2>1, <2>3, <2>4 DEF PagesInv, BySector, PageByPage
<1> QED BY <1>3, <1>4, <1>5, <1>6
    DEF Driver, Write, PageByPage, NextSector, Compare, Compared2, WhileWip, VerifyErase, Goto

LEMMA PagesStep ==
    ASSUME PagesAsBuilt
    PROVE  FlashTypes /\ PagesInv /\ StaleHarmless /\ [Next]_vars => PagesInv'
<1> SUFFICES ASSUME FlashTypes, PagesInv, StaleHarmless, [Next]_vars PROVE PagesInv'
    OBVIOUS
<1>1. CASE UNCHANGED vars
    <2>1. UNCHANGED PlaceVars
        BY <1>1 DEF vars, PlaceVars, loaderVars
    <2> QED BY <2>1, PagesStay
<1>2. CASE Start
    <2>1. pc' = "check" /\ startaddr' = FlashBase /\ codelen' = 0
        BY <1>2 DEF Start, ProgramStarts
    <2>2. codelen' <= MemBytes
        BY <2>1, FlashSimAssumption DEF FlashSimAssumption
    <2> QED BY <2>1, <2>2 DEF PagesInv, BySector, PageByPage
<1>3. CASE UserSession \/ DumpFlash \/ SendByte \/ ChipDone
    <2>1. UNCHANGED PlaceVars
        BY <1>3 DEF UserSession, DumpFlash, SendByte, Send, ChipDone, PlaceVars, loaderVars
    <2> QED BY <2>1, PagesStay
<1>4. CASE CheckSections
    <2>1. /\ pc = "check" /\ prog' = prog /\ startaddr' = startaddr /\ codelen' = codelen
          /\ page_len' = page_len
          /\ \/ pc' = "failed"
             \/ /\ pc' = "section"
                /\ \A i \in DOMAIN Sections : InBkram(Sections[i]) \/ InFlash(Sections[i])
        BY <1>4 DEF CheckSections, Goto, loaderVars, drvrVars
    <2>2. Sections' = Sections
        BY <2>1 DEF Sections
    <2> QED BY <2>1, <2>2 DEF PagesInv, BySector, PageByPage
<1>5. CASE LoadBkram
    <2>1. UNCHANGED PlaceVars
        BY <1>5 DEF LoadBkram, Goto, PlaceVars
    <2> QED BY <2>1, PagesStay
<1>6. CASE ToFlash
    BY <1>6, PagesToFlash
<1>7. CASE WriteFlash
    BY <1>7, PagesWriteFlash
<1>8. CASE Driver
    <2>1. BySector \/ PageByPage
        BY <1>8 DEF Driver, Write, NextSector, Compare, Compared2, WhileWip, VerifyErase, Page,
            VerifyPage, PagesDone, Goto, BySector, PageByPage
    <2> QED BY <1>8, <2>1, PagesBySector, PagesByPage
<1>9. CASE StartCpu \/ Kill
    <2>1. pc' \in {"done", "killed"}
        BY <1>9 DEF StartCpu, Kill, Goto
    <2> QED BY <2>1, PagesEnd
<1> QED BY <1>1, <1>2, <1>3, <1>4, <1>5, <1>6, <1>7, <1>8, <1>9 DEF Next, Loader

\* The first loader never sends the chip a command that it refuses, whatever the
\* lengths of the program, the pages and the sectors are, and whatever is on the
\* stack: each command is enabled, and none is sent while the chip is at work
\* (flashdrvr.cpp:63, 143-165).
THEOREM AllAccepted == Spec => []ChipAccepts
<1>1. LoaderInv => ChipAccepts
    BY DEF LoaderInv, FirstLoader, ChipAccepts
<1> QED BY <1>1, SpecKeepsLoaderInv, PTL

\* Where the stack held no length that ends in the flash, every loader calls
\* page_program() as it asserts, too (flashdrvr.cpp:130-132, 243-250).
THEOREM PagesAsAsserted ==
    ASSUME PagesAsBuilt PROVE Spec /\ []StaleHarmless => []CommandsAccepted
<1>1. LoaderInv /\ PagesInv => CommandsAccepted
    <2> SUFFICES ASSUME LoaderInv, PagesInv PROVE CommandsAccepted
        OBVIOUS
    <2>1. ChipAccepts
        BY DEF LoaderInv, FirstLoader, ChipAccepts
    <2>2. PageAsserts
        BY Cut DEF PageAsserts, PageByPage, LoaderInv
    <2> QED BY <2>1, <2>2 DEF CommandsAccepted
<1>2. Init => PagesInv
    BY PagesInit
<1>3. LoaderInv /\ PagesInv /\ StaleHarmless /\ [Next]_vars => PagesInv'
    BY PagesStep DEF LoaderInv
<1>4. Spec => []LoaderInv
    BY SpecKeepsLoaderInv
<1> QED BY <1>1, <1>2, <1>3, <1>4, PTL DEF Spec

-----------------------------------------------------------------------------
(* The sectors that are changed.                                              *)

\* As the flash is built, it begins at a multiple of its size, and is a number of
\* sectors.
SectorsAsBuilt ==
    /\ PagesAsBuilt
    /\ \E q \in Int : FlashBase = q * MemBytes
    /\ \E q \in Int : MemBytes = q * SectorBytes

IsSector(a) == \E q \in Int : a = q * SectorBytes
UnderWay == pc \in {"compare", "erasing", "verifyErase"} \/ PageByPage

\* Some byte of the sector that is compared is not what it will be.
Stale ==
    \E b \in FlashAddrs :
        SectorOf(b) = s /\ b < addr + len /\ chip.m_mem[b - FlashBase] # data[b]

\* What the chip has been sent of a page.
Buffered(n) ==
    \A i \in 0 .. PageBytes - 1 :
        \/ chip.m_pmem[i] = Ones
        \/ \E k \in 0 .. n - 1 : i = p + k - PageOf(p) /\ chip.m_pmem[i] = data[p + k]
Told ==
    LET n == Sent - CommandAt - 1 IN
    /\ n = -1 => chip.m_count = 1
    /\ n >= 0 /\ pc = "erasing" => chip.m_addr = s
    /\ n >= 0 /\ pc = "writing" =>
         /\ chip.m_count = 4 /\ n <= PageLength
         /\ PageOf(chip.m_addr) = PageOf(p) - FlashBase
         /\ n < PageLength => chip.m_addr = p + n - FlashBase
         /\ Buffered(n)

MemTyped ==
    /\ chip.m_mem \in [0 .. MemBytes - 1 -> Byte]
    /\ DOMAIN chip.m_pmem = 0 .. PageBytes - 1
\* The buffer's bytes after the program, which are programmed with its last page.
DataBeyond ==
    /\ DOMAIN data = FlashAddrs
    /\ pc \in {"check", "section"} \/ BySector \/ PageByPage =>
         \A a \in FlashAddrs : a >= startaddr + codelen => data[a] = Ones
SectorUnderWay ==
    /\ BySector \/ PageByPage =>
         addr = startaddr /\ len = codelen /\ s >= FlashBase /\ IsSector(s)
    /\ UnderWay => s < SectorOf(addr + len + SectorBytes - 1)
    /\ PageByPage => s <= p
    /\ pc = "compare" /\ WholeWords => \E k \in Nat : at = s + k * WordBytes
    /\ pc = "compare" /\ need_erase /\ Quiet /\ WholeWords => Stale
    /\ pc = "erasing" /\ Quiet /\ WholeWords /\ Len(out) >= 4 => Stale
    /\ Acting /\ found /\ Sent >= CommandAt /\ Len(out) >= 4 /\ chip.m_state = Operation => Told
SectorsInv == MemTyped /\ DataBeyond /\ SectorUnderWay

-----------------------------------------------------------------------------
(* Lemmas about numbers.                                                      *)

\* What is left of a number that lies in the interval of a multiple.
LEMMA MultIs ==
    ASSUME NEW n \in Nat \ {0}, NEW q \in Int, NEW b \in Int, q * n <= b, b < q * n + n
    PROVE  b - (b % n) = q * n
<1> DEFINE r == b \div n  x == q * n  y == r * n
<1>1. b % n \in 0 .. n - 1 /\ b = y + (b % n) /\ r \in Int /\ x \in Int /\ y \in Int
    OBVIOUS
<1>2. y = b - (b % n) /\ y <= b /\ b < y + n
    BY <1>1
<1>3. (q + 1) * n = x + n /\ (r + 1) * n = y + n
    BY <1>1
<1>4. r * n < (q + 1) * n /\ q * n < (r + 1) * n
    BY <1>1, <1>2, <1>3
<1>5. r \in Int
    BY <1>1
<1> HIDE DEF r, x, y
<1>6. r < q + 1 /\ q < r + 1
    BY <1>4, <1>5
<1>7. r = q
    BY <1>5, <1>6
<1> QED BY <1>2, <1>7 DEF x, y

LEMMA SectorOfIs ==
    ASSUME NEW a \in Int
    PROVE  /\ SectorOf(a) \in Int /\ SectorOf(a) <= a /\ a < SectorOf(a) + SectorBytes
           /\ IsSector(SectorOf(a))
<1> DEFINE n == SectorBytes
<1>1. n \in Nat \ {0}
    BY FlashSimAssumption DEF FlashSimAssumption
<1>2. SectorOf(a) = a - (a % n)
    BY DEF SectorOf
<1> HIDE DEF n
<1>3. a % n \in 0 .. n - 1 /\ a = (a \div n) * n + (a % n) /\ a \div n \in Int
    BY <1>1
<1>4. a - (a % n) = (a \div n) * n
    BY <1>1, <1>3
<1> QED BY <1>1, <1>2, <1>3, <1>4 DEF n, IsSector

LEMMA SameSector ==
    ASSUME NEW x \in Int, IsSector(x), NEW b \in Int, x <= b, b < x + SectorBytes
    PROVE  SectorOf(b) = x
<1>1. PICK q \in Int : x = q * SectorBytes
    BY DEF IsSector
<1>2. SectorBytes \in Nat \ {0}
    BY FlashSimAssumption DEF FlashSimAssumption
<1> DEFINE n == SectorBytes
<1> HIDE DEF n
<1>3. q * n <= b /\ b < q * n + n /\ n \in Nat \ {0} /\ x = q * n
    BY <1>1, <1>2 DEF n
<1>4. b - (b % n) = q * n
    BY <1>3, MultIs
<1> QED BY <1>3, <1>4 DEF SectorOf, n

LEMMA SectorsApart ==
    ASSUME NEW x \in Int, NEW y \in Int, IsSector(x), IsSector(y), x < y
    PROVE  x + SectorBytes <= y
<1>1. SectorBytes \in Nat \ {0}
    BY FlashSimAssumption DEF FlashSimAssumption
<1>2. CASE y < x + SectorBytes
    <2>1. SectorOf(y) = x
        BY <1>2, SameSector
    <2>2. SectorOf(y) = y
        BY <1>1, SameSector
    <2> QED BY <2>1, <2>2
<1> QED BY <1>1, <1>2

LEMMA SectorSum ==
    ASSUME NEW x \in Int, NEW y \in Int, IsSector(x), IsSector(y)
    PROVE  IsSector(x + y) /\ IsSector(x - y)
<1>1. PICK q \in Int : x = q * SectorBytes
    BY DEF IsSector
<1>2. PICK r \in Int : y = r * SectorBytes
    BY DEF IsSector
<1>3. SectorBytes \in Nat
    BY FlashSimAssumption DEF FlashSimAssumption
<1>4. x + y = (q + r) * SectorBytes /\ x - y = (q - r) * SectorBytes
    BY <1>1, <1>2, <1>3
<1> QED BY <1>4 DEF IsSector

\* The flash begins and ends with a sector.
LEMMA FlashIs ==
    ASSUME SectorsAsBuilt
    PROVE  /\ FlashBase \in Int /\ MemBytes \in Nat \ {0} /\ SectorBytes \in Nat \ {0}
           /\ PageBytes \in Nat \ {0} /\ WordBytes \in Nat \ {0}
           /\ IsSector(FlashBase) /\ IsSector(MemBytes) /\ IsSector(SectorBytes)
           /\ \A a \in 0 .. MemBytes - 1 : a % MemBytes = a
           /\ \A a \in FlashAddrs : a % MemBytes = a - FlashBase /\ a - FlashBase \in 0 .. MemBytes - 1
<1>1. /\ FlashBase \in Int /\ MemBytes \in Nat \ {0} /\ SectorBytes \in Nat \ {0}
      /\ PageBytes \in Nat \ {0} /\ WordBytes \in Nat \ {0}
    BY ZipLoadAssumption, FlashSimAssumption DEF ZipLoadAssumption, FlashSimAssumption
<1>2. PICK q \in Int : FlashBase = q * MemBytes
    BY DEF SectorsAsBuilt
<1>3. PICK r \in Int : MemBytes = r * SectorBytes
    BY DEF SectorsAsBuilt
<1> DEFINE n == MemBytes  m == SectorBytes
<1> HIDE DEF n, m
<1>4. FlashBase = q * n /\ n = r * m /\ n \in Nat \ {0} /\ m \in Nat \ {0}
    BY <1>1, <1>2, <1>3 DEF n, m
<1>5. q * (r * m) = (q * r) * m /\ q * r \in Int
    BY <1>4
<1>6. IsSector(FlashBase) /\ IsSector(n)
    BY <1>4, <1>5 DEF IsSector, m
<1>7. 1 * m = m
    BY <1>4
<1>8. IsSector(m)
    BY <1>7 DEF IsSector, m
<1>9. ASSUME NEW a \in 0 .. n - 1 PROVE a % n = a
    <2>1. 0 * n <= a /\ a < 0 * n + n /\ a \in Int /\ 0 * n = 0 /\ 0 \in Int
        BY <1>4
    <2>2. a - (a % n) = 0 * n /\ a % n \in Int
        BY <1>4, <2>1, MultIs
    <2> QED BY <2>1, <2>2
<1>10. ASSUME NEW a \in FlashBase .. FlashBase + n - 1
       PROVE  a % n = a - FlashBase /\ a - FlashBase \in 0 .. n - 1
    <2> DEFINE b == FlashBase
    <2>1. b = q * n /\ b \in Int /\ a \in b .. b + n - 1
        BY <1>1, <1>4
    <2> HIDE DEF b
    <2>2. q * n <= a /\ a < q * n + n /\ a \in Int
        BY <1>4, <2>1
    <2> HIDE <1>2, <1>3, <2>1
    <2>5. a - (a % n) = q * n
        BY <1>4, <2>2, MultIs
    <2>6. a % n \in Int
        BY <1>4, <2>2
    <2>3. a - (a % n) = q * n /\ a % n \in Int
        BY <2>5, <2>6
    <2>4. a % n = a - b /\ a - b \in 0 .. n - 1
        BY <1>4, <2>1, <2>2, <2>3
    <2> QED BY <2>4 DEF b
<1> QED BY <1>1, <1>6, <1>8, <1>9, <1>10 DEF n, m, FlashAddrs

\* A page of the bus is a page of the chip.
LEMMA PageShift ==
    ASSUME SectorsAsBuilt, NEW a \in Int
    PROVE  PageOf(a - FlashBase) = PageOf(a) - FlashBase
<1>1. FlashBase \in Int /\ PageBytes \in Nat \ {0}
    BY FlashIs
<1>2. PICK q \in Int : FlashBase = q * PageBytes
    BY DEF SectorsAsBuilt, PagesAsBuilt, Aligned
<1>3. /\ PageOf(a) \in Int /\ PageOf(a) <= a /\ a < PageOf(a) + PageBytes
      /\ \E r \in Int : PageOf(a) = r * PageBytes
    BY PageOfIs
<1>4. PICK r \in Int : PageOf(a) = r * PageBytes
    BY <1>3
<1> DEFINE n == PageBytes  b == FlashBase  this == PageOf(a)
<1> HIDE DEF n, b, this
<1>5. b = q * n /\ this = r * n /\ n \in Nat \ {0} /\ this <= a /\ a < this + n /\ b \in Int /\ this \in Int
    BY <1>1, <1>2, <1>3, <1>4 DEF n, b, this
<1>6. (r - q) * n = this - b /\ r - q \in Int
    BY <1>5
<1> DEFINE k == r - q  c == a - b
<1> HIDE DEF k, c
<1>7. k \in Int /\ c \in Int /\ k * n <= c /\ c < k * n + n /\ k * n = this - b
    BY <1>5, <1>6 DEF k, c
<1>8. PageOf(c) = k * n
    BY <1>7, PageIs DEF n
<1> QED BY <1>7, <1>8 DEF c, b, this

-----------------------------------------------------------------------------
(* What each byte does to the memory.                                         *)

\* What is carried out.
LEMMA DeselectMemory ==
    ASSUME NEW c, IsChip(c), NEW d \in Deselect(c)
    PROVE  /\ d.m_pmem = c.m_pmem
           /\ \/ d.m_mem = c.m_mem
              \/ c.m_state = "PP" /\ d.m_mem = Programmed(c)
              \/ c.m_state = "SECTOR_ERASE" /\ d.m_mem = Erased(c, SectorAt(c))
              \/ c.m_state = "BULK_ERASE" /\ d.m_mem = Erased(c, DOMAIN c.m_mem)
           /\ Incomplete(c) => d.m_mem = c.m_mem
<1> DEFINE e == CarriedOut(c)  b == Started(c)
<1>1. /\ IsChip(b) /\ b.m_mem = c.m_mem /\ b.m_pmem = c.m_pmem
    BY DEF IsChip, Started
<1>2. \/ e = c
      \/ ~Incomplete(c) /\ c.m_state = "PP" /\ e = [b EXCEPT !.m_mem = Programmed(c)]
      \/ /\ ~Incomplete(c) /\ c.m_state = "SECTOR_ERASE"
         /\ e = [b EXCEPT !.m_mem = Erased(c, SectorAt(c)), !.m_addr = SectorOf(EraseAddr(c))]
      \/ ~Incomplete(c) /\ c.m_state = "BULK_ERASE" /\ e = [b EXCEPT !.m_mem = Erased(c, DOMAIN c.m_mem)]
      \/ ~Incomplete(c) /\ e = b
      \/ ~Incomplete(c) /\ e = [c EXCEPT !.m_write = TRUE]
    BY DEF CarriedOut
<1> HIDE DEF e, b
<1>3. /\ IsChip(e) /\ e.m_pmem = c.m_pmem
      /\ \/ e.m_mem = c.m_mem
         \/ ~Incomplete(c) /\ c.m_state = "PP" /\ e.m_mem = Programmed(c)
         \/ ~Incomplete(c) /\ c.m_state = "SECTOR_ERASE" /\ e.m_mem = Erased(c, SectorAt(c))
         \/ ~Incomplete(c) /\ c.m_state = "BULK_ERASE" /\ e.m_mem = Erased(c, DOMAIN c.m_mem)
    BY <1>1, <1>2 DEF IsChip
<1>4. PICK lives : d = [e EXCEPT
          !.m_state = IF c.m_state \in Resting THEN "IDLE" ELSE c.m_state,
          !.m_count = 0, !.m_oreg = Bits \ {0}, !.alive = lives]
    BY DEF Deselect, e
<1>5. d.m_mem = e.m_mem /\ d.m_pmem = e.m_pmem
    BY <1>3, <1>4 DEF IsChip
<1> QED BY <1>3, <1>5

\* A byte of a page that is sent goes to its place in the page.
LEMMA DataMemory ==
    ASSUME NEW c, IsChip(c), c.m_count \in 0 .. 4, NEW b
    PROVE  LET d == Data(c, b) IN
           /\ d.m_mem = c.m_mem
           /\ c.m_state # "PP" \/ c.m_count < 4 => d.m_pmem = c.m_pmem
           /\ c.m_state = "PP" /\ c.m_count >= 4 =>
                d.m_pmem = [c.m_pmem EXCEPT ![c.m_addr % PageBytes] = b] /\ d.m_count = 4
<1>1. c.m_count >= 4 => Counted(c, 1) = 4
    BY DEF Counted
<1>2. CASE c.m_state = "PP" /\ c.m_count >= 4
    BY <1>1, <1>2 DEF IsChip, Data
<1>3. CASE c.m_state = "PP" /\ c.m_count < 4
    BY <1>3 DEF IsChip, Data
<1>4. CASE c.m_state # "PP"
    <2>1. CASE c.m_state = "WRSR"
        BY <2>1 DEF IsChip, Data
    <2>2. CASE c.m_state \notin {"PP", "WRSR"}
        BY <2>2 DEF IsChip, Data
    <2> QED BY <1>4, <2>1, <2>2
<1> QED BY <1>2, <1>3, <1>4

LEMMA AddressMemory ==
    ASSUME NEW c, IsChip(c), NEW a
    PROVE  LET d == Address(c, a) IN
           /\ d.m_mem = c.m_mem
           /\ d.m_pmem = c.m_pmem \/ d.m_pmem = [i \in 0 .. PageBytes - 1 |-> Ones]
           /\ c.m_count = 1 /\ c.m_state = "PP" => d.m_pmem = [i \in 0 .. PageBytes - 1 |-> Ones]
<1>1. CASE c.m_count # 1
    BY <1>1 DEF IsChip, Address
<1>2. CASE c.m_count = 1
    BY <1>2 DEF IsChip, Address
<1> QED BY <1>1, <1>2

LEMMA CommandMemory ==
    ASSUME NEW c, IsChip(c), NEW cmd
    PROVE  Command(c, cmd).m_mem = c.m_mem /\ Command(c, cmd).m_pmem = c.m_pmem
BY DEF IsChip, Command

\* Only the end of a command changes the memory.
LEMMA OnlyEndChanges ==
    ASSUME IsChip(chip), chip.m_count \in 0 .. 4, NEW b, CfgWrite(b)
    PROVE  \/ chip'.m_mem = chip.m_mem
           \/ b.t = "end" /\ cfg_user_mode /\ chip' \in Deselect(chip)
<1>1. CASE b.t = "end" /\ chip' \in (IF cfg_user_mode THEN Deselect(chip) ELSE {chip})
    BY <1>1
<1>2. CASE b.t = "cmd" /\ chip' = (IF chip.m_count = 0 THEN Command(chip, b.cmd) ELSE Data(chip, {}))
    BY <1>2, CommandMemory, DataMemory
<1>3. CASE b.t = "addr" /\ chip' = Address(chip, b.addr)
    BY <1>3, AddressMemory
<1>4. CASE b.t = "data" /\ chip' = Data(chip, b.byte)
    BY <1>4, DataMemory
<1> QED BY <1>1, <1>2, <1>3, <1>4 DEF CfgWrite, Shifted

LEMMA DataShape ==
    ASSUME NEW c, IsChip(c), c.m_count \in 0 .. 4, NEW b
    PROVE  Data(c, b).m_mem = c.m_mem /\ DOMAIN Data(c, b).m_pmem = DOMAIN c.m_pmem
<1> DEFINE d == Data(c, b)
<1>1. /\ d.m_mem = c.m_mem
      /\ c.m_state # "PP" \/ c.m_count < 4 => d.m_pmem = c.m_pmem
      /\ c.m_state = "PP" /\ c.m_count >= 4 =>
           d.m_pmem = [c.m_pmem EXCEPT ![c.m_addr % PageBytes] = b]
    BY DataMemory
<1> HIDE DEF d
<1>2. DOMAIN d.m_pmem = DOMAIN c.m_pmem
    BY <1>1
<1> QED BY <1>1, <1>2 DEF d

\* The memory stays one, whoever sends the byte.
LEMMA MemoryStays ==
    ASSUME IsChip(chip), chip.m_count \in 0 .. 4, MemTyped, NEW b, CfgWrite(b)
    PROVE  MemTyped'
<1>1. CASE b.t = "end" /\ chip' \in (IF cfg_user_mode THEN Deselect(chip) ELSE {chip})
    <2>1. CASE chip' = chip
        BY <2>1 DEF MemTyped
    <2>2. CASE chip' \in Deselect(chip)
        <3>1. /\ chip'.m_pmem = chip.m_pmem
              /\ \/ chip'.m_mem = chip.m_mem \/ chip'.m_mem = Programmed(chip)
                 \/ \E sector : chip'.m_mem = Erased(chip, sector)
            BY <2>2, DeselectMemory
        <3>2. chip.m_mem \in [0 .. MemBytes - 1 -> Byte] /\ DOMAIN chip.m_pmem = 0 .. PageBytes - 1
            BY DEF MemTyped
        <3>3. Programmed(chip) \in [0 .. MemBytes - 1 -> Byte]
            BY <3>2 DEF Programmed, Byte
        <3>4. \A sector : Erased(chip, sector) \in [0 .. MemBytes - 1 -> Byte]
            BY <3>2 DEF Erased, Byte, Ones
        <3> QED BY <3>1, <3>2, <3>3, <3>4 DEF MemTyped
    <2> QED BY <1>1, <2>1, <2>2
<1>2. CASE b.t = "cmd" /\ chip' = (IF chip.m_count = 0 THEN Command(chip, b.cmd) ELSE Data(chip, {}))
    <2>1. chip'.m_mem = chip.m_mem /\ DOMAIN chip'.m_pmem = DOMAIN chip.m_pmem
        <3>1. CASE chip.m_count = 0
            BY <1>2, <3>1, CommandMemory
        <3>2. CASE chip.m_count # 0
            BY <1>2, <3>2, DataShape
        <3> QED BY <3>1, <3>2
    <2> QED BY <2>1 DEF MemTyped
<1>3. CASE b.t = "addr" /\ chip' = Address(chip, b.addr)
    <2>1. chip'.m_mem = chip.m_mem
          /\ (chip'.m_pmem = chip.m_pmem \/ chip'.m_pmem = [i \in 0 .. PageBytes - 1 |-> Ones])
        <3> DEFINE d == Address(chip, b.addr)
        <3>1. /\ d.m_mem = chip.m_mem
              /\ d.m_pmem = chip.m_pmem \/ d.m_pmem = [i \in 0 .. PageBytes - 1 |-> Ones]
            BY AddressMemory
        <3>2. chip' = d
            BY <1>3
        <3> HIDE DEF d
        <3> QED BY <3>1, <3>2
    <2> QED BY <2>1 DEF MemTyped
<1>4. CASE b.t = "data" /\ chip' = Data(chip, b.byte)
    <2>1. chip'.m_mem = chip.m_mem /\ DOMAIN chip'.m_pmem = DOMAIN chip.m_pmem
        BY <1>4, DataShape
    <2> QED BY <2>1 DEF MemTyped
<1> QED BY <1>1, <1>2, <1>3, <1>4 DEF CfgWrite, Shifted

-----------------------------------------------------------------------------
(* What the loader sends the chip.                                            *)

\* The page that is programmed is in the flash, and in the sector.
LEMMA PageInside ==
    ASSUME FlashTypes, SectorsAsBuilt, PagesInv, SectorUnderWay, pc = "writing"
    PROVE  /\ p \in Int /\ PageOf(p) \in Int /\ PageLength = PageOf(p) + PageBytes - p
           /\ PageLength \in Nat \ {0} /\ PageLength <= PageBytes /\ PageOf(p) <= p
           /\ p < PageOf(p) + PageBytes
           /\ s <= PageOf(p) /\ PageOf(p) + PageBytes <= s + SectorBytes
           /\ PageOf(p) + PageBytes <= FlashBase + MemBytes
           /\ s \in Int /\ s >= FlashBase
<1>1. FlashBase \in Int /\ MemBytes \in Nat \ {0} /\ SectorBytes \in Nat \ {0} /\ PageBytes \in Nat \ {0}
    BY FlashIs
<1>2. /\ p \in Int /\ s \in Int /\ addr = FlashBase /\ len \in Int /\ len <= MemBytes /\ Aligned(s)
      /\ p < s + SectorBytes /\ p < addr + len /\ s <= p /\ s >= FlashBase
    BY DEF FlashTypes, PagesInv, PageByPage, SectorUnderWay
<1>3. PagesAsBuilt
    BY DEF SectorsAsBuilt
<1>4. PageLength = PageOf(p) + PageBytes - p
    BY <1>2, <1>3, Cut DEF PageByPage
<1>5. PageOf(p) \in Int /\ PageOf(p) <= p /\ p < PageOf(p) + PageBytes
    BY <1>2, PageOfIs
<1>6. s <= PageOf(p)
    BY <1>2, AlignedIs
<1>7. PageOf(p) + PageBytes <= s + SectorBytes
    <2>1. Aligned(s + SectorBytes) /\ s + SectorBytes \in Int
        BY <1>1, <1>2, <1>3, AlignedSum DEF PagesAsBuilt
    <2> DEFINE e == s + SectorBytes
    <2>2. e \in Int /\ Aligned(e) /\ p < e
        BY <1>2, <2>1
    <2> HIDE DEF e
    <2>3. PageOf(p) + PageBytes <= e
        BY <1>2, <2>2, AlignedIs
    <2> QED BY <2>3 DEF e
<1>8. PageOf(p) + PageBytes <= FlashBase + MemBytes
    <2>1. Aligned(FlashBase + MemBytes) /\ FlashBase + MemBytes \in Int /\ p < FlashBase + MemBytes
        BY <1>1, <1>2, <1>3, AlignedSum DEF PagesAsBuilt
    <2> DEFINE e == FlashBase + MemBytes
    <2>2. e \in Int /\ Aligned(e) /\ p < e
        BY <2>1
    <2> HIDE DEF e
    <2>3. PageOf(p) + PageBytes <= e
        BY <1>2, <2>2, AlignedIs
    <2> QED BY <2>3 DEF e
<1>9. PageLength \in Nat \ {0} /\ PageLength <= PageBytes
    BY <1>1, <1>2, <1>4, <1>5
<1> QED BY <1>2, <1>4, <1>5, <1>6, <1>7, <1>8, <1>9

\* A byte of data goes where it belongs in the page.
LEMMA DataTells ==
    ASSUME NEW n, FlashTypes, MemTyped, SectorsAsBuilt, PagesInv, SectorUnderWay, pc = "writing",
           n \in 0 .. PageLength - 1, chip.m_state = "PP", chip.m_count = 4,
           chip.m_addr = p + n - FlashBase, Buffered(n), UNCHANGED drvrVars,
           CfgWrite(DataByte(data[p + n]))
    PROVE  /\ chip'.m_count = 4 /\ PageOf(chip'.m_addr) = PageOf(p) - FlashBase
           /\ n + 1 < PageLength => chip'.m_addr = p + (n + 1) - FlashBase
           /\ Buffered(n + 1)'
<1> DEFINE m == chip.m_addr  w == PageBytes  this == PageOf(p)  base == FlashBase  b == data[p + n]
           i == m % w
<1>1. /\ p \in Int /\ this \in Int /\ PageLength = this + w - p /\ this <= p /\ p < this + w
      /\ w \in Nat \ {0} /\ base \in Int
    BY PageInside, FlashIs
<1>2. n \in Nat /\ p + n \in Int /\ this <= p + n /\ p + n < this + w /\ m \in Int
    <2> HIDE DEF w, this, base
    <2> QED BY <1>1 DEF m, base
<1>3. PageOf(p + n) = this
    <2> DEFINE a == p + n
    <2>1. a \in Int /\ this <= a /\ a < this + w
        BY <1>2
    <2> HIDE DEF a
    <2>2. PageOf(a) = PageOf(p)
        BY <1>1, <2>1, SamePage
    <2> QED BY <2>2 DEF a
<1>4. PageOf(m) = this - base
    <2> DEFINE a == p + n
    <2>3. m = p + n - base
        OBVIOUS
    <2>4. a \in Int /\ PageOf(a) = this
        BY <1>2, <1>3
    <2>1. a \in Int /\ m = a - FlashBase /\ PageOf(a) = this
        <3>1. m = a - base
            <4> HIDE DEF m, base, w, this
            <4> QED BY <1>1, <1>2, <2>3
        <3> QED BY <2>4, <3>1
    <2> HIDE DEF a, m
    <2>2. PageOf(a - FlashBase) = PageOf(a) - FlashBase
        BY <2>1, PageShift
    <2> QED BY <2>1, <2>2
<1>5. i = p + n - this /\ i \in 0 .. w - 1
    <2>1. PageOf(m) = m - i /\ i \in Int
        BY <1>1, <1>2 DEF PageOf
    <2>2. m = p + n - base
        OBVIOUS
    <2> HIDE DEF m, i, this, w, base
    <2> QED BY <1>1, <1>2, <1>4, <2>1, <2>2
<1>6. chip' = Data(chip, b)
    BY DEF CfgWrite, DataByte, Shifted
<1>7. /\ chip'.m_pmem = [chip.m_pmem EXCEPT ![i] = b] /\ chip'.m_count = 4
      /\ chip'.m_addr = PageOf(m) + ((m + 1) % w)
    <2>1. IsChip(chip) /\ chip.m_count \in 0 .. 4 /\ chip.m_count >= 4
        BY DEF FlashTypes
    <2>2. chip'.m_pmem = [chip.m_pmem EXCEPT ![i] = b] /\ chip'.m_count = 4
        BY <1>6, <2>1, DataMemory
    <2>3. chip'.m_addr = PageOf(m) + ((m + 1) % w)
        BY <1>6, <2>1, DataIs
    <2> QED BY <2>2, <2>3
<1>8. PageOf(m + 1) = (m + 1) - ((m + 1) % w) /\ (m + 1) % w \in 0 .. w - 1
    BY <1>1, <1>2 DEF PageOf
<1>9. PageOf(chip'.m_addr) = this - base
    <2> DEFINE a == chip'.m_addr
    <2>1. a \in Int /\ PageOf(m) <= a /\ a < PageOf(m) + PageBytes
        <3> DEFINE r == (m + 1) % w  q == PageOf(m)
        <3>1. q \in Int /\ r \in 0 .. w - 1 /\ a = q + r
            <4> HIDE DEF this, base, w, m
            <4> QED BY <1>1, <1>4, <1>7, <1>8
        <3> HIDE DEF r, q, a
        <3>2. a \in Int /\ q <= a /\ a < q + w
            BY <1>1, <3>1
        <3> QED BY <3>2 DEF q
    <2> HIDE DEF a
    <2>2. PageOf(a) = PageOf(m)
        BY <1>2, <2>1, SamePage
    <2> QED BY <1>4, <2>2 DEF a
<1>10. ASSUME n + 1 < PageLength PROVE chip'.m_addr = p + (n + 1) - base
    <2>1. PageOf(p + n + 1) = this
        <3> DEFINE a == p + n + 1
        <3>1. a \in Int /\ this <= a /\ a < this + w
            <4> HIDE DEF this, w
            <4> QED BY <1>1, <1>2, <1>10
        <3> HIDE DEF a
        <3>2. PageOf(a) = PageOf(p)
            BY <1>1, <3>1, SamePage
        <3> QED BY <3>2 DEF a
    <2>2. PageOf(m + 1) = this - base
        <3> DEFINE a == p + n + 1
        <3>1. a \in Int /\ m + 1 = a - base /\ PageOf(a) = this
            BY <1>1, <1>2, <2>1
        <3> HIDE DEF a, m
        <3>2. PageOf(a - FlashBase) = PageOf(a) - FlashBase
            BY <3>1, PageShift
        <3> QED BY <3>1, <3>2
    <2> DEFINE r == (m + 1) % w
    <2>3. m = p + n - base /\ r \in Int /\ this - base = m + 1 - r /\ chip'.m_addr = (this - base) + r
        <3>1. m = p + n - base
            OBVIOUS
        <3> HIDE DEF this, base, w, m
        <3> QED BY <1>4, <1>7, <1>8, <2>2, <3>1
    <2> HIDE DEF r, this, base, w, m
    <2> QED BY <1>1, <1>2, <2>3
<1>11. Buffered(n + 1)'
    <2>1. \A j \in 0 .. w - 1 : j # i => chip'.m_pmem[j] = chip.m_pmem[j]
        BY <1>7
    <2>2. chip'.m_pmem[i] = b
        BY <1>5, <1>7 DEF MemTyped
    <2>3. data' = data /\ p' = p /\ PageOf(p)' = PageOf(p)
        BY DEF drvrVars, PageOf
    <2> HIDE DEF i, m, base, b
    <2>4. ASSUME NEW j \in 0 .. PageBytes - 1
          PROVE  \/ chip'.m_pmem[j] = Ones
                 \/ \E k \in 0 .. (n + 1) - 1 : j = p + k - PageOf(p) /\ chip'.m_pmem[j] = data[p + k]
        <3>1. CASE j = i
            <4>1. n \in 0 .. (n + 1) - 1 /\ j = p + n - PageOf(p) /\ chip'.m_pmem[j] = data[p + n]
                BY <1>2, <1>5, <2>2, <3>1 DEF b
            <4> QED BY <4>1
        <3>2. CASE j # i
            <4>1. chip'.m_pmem[j] = chip.m_pmem[j]
                BY <2>1, <3>2
            <4>2. \/ chip.m_pmem[j] = Ones
                  \/ \E k \in 0 .. n - 1 : j = p + k - PageOf(p) /\ chip.m_pmem[j] = data[p + k]
                BY DEF Buffered
            <4>3. \A k \in 0 .. n - 1 : k \in 0 .. (n + 1) - 1
                BY <1>2
            <4> QED BY <4>1, <4>2, <4>3
        <3> QED BY <3>1, <3>2
    <2> QED BY <2>3, <2>4 DEF Buffered
<1> QED BY <1>7, <1>9, <1>10, <1>11

\* What the chip has been told of the command, after every byte of it.
LEMMA SendTells ==
    ASSUME FlashTypes, FlashTypes', Deselected, SectorsAsBuilt, PagesInv, MemTyped, SectorUnderWay,
           Acting, Sending, Enabling, Commanding, "DPD" \notin chip.m_sreg,
           found, pc = "writing" => PageAsserted, SendByte,
           Sent' >= CommandAt', Len(out') >= 4, chip'.m_state = Operation'
    PROVE  Told'
<1> DEFINE i == Sent + 1  n == Len(Script)  l == Len(out)  c == CommandAt  B == Script[i]
<1>1. /\ Sent' = Sent + 1 /\ CommandAt' = CommandAt /\ Operation' = Operation /\ pc' = pc
      /\ Sent \in Nat /\ l \in Nat \ {0} /\ l + Sent = n /\ Len(out') = l - 1 /\ CfgWrite(B)
      /\ PageLength \in Nat \ {0} \/ pc = "erasing"
    BY SentOne
<1>2. UNCHANGED drvrVars
    BY DEF SendByte, Send
<1>3. /\ n \in Nat /\ c \in 4 .. 5 /\ n >= c + 5
      /\ Script[c] = Cmd(IF pc = "erasing" THEN "SE" ELSE "PP")
      /\ Script[c + 1] = Addr(IF pc = "erasing" THEN s ELSE p)
      /\ pc = "erasing" => n = 9 /\ c = 4
      /\ pc = "writing" =>
           /\ n = PageLength + 10 /\ c = 5
           /\ \A j \in 1 .. PageLength : Script[j + 6] = DataByte(data[p + j - 1])
    <2>1. pc \in {"erasing", "writing"} /\ (pc = "writing" => PageLength \in Nat \ {0})
        BY <1>1 DEF Acting
    <2>2. /\ pc = "erasing" => CommandOf(pc) = 4
          /\ pc = "writing" => CommandOf(pc) = 5
        BY DEF CommandOf
    <2> QED BY <2>1, <2>2, ScriptIs DEF Script, CommandAt
<1>4. i \in Nat /\ i >= c /\ l - 1 >= 4 /\ l \in Nat /\ l + (i - 1) = n /\ Sent = i - 1
    <2> DEFINE sn == Sent
    <2>1. sn + 1 >= c /\ l - 1 >= 4 /\ sn \in Nat /\ l \in Nat \ {0} /\ l + sn = n
        BY <1>1
    <2> HIDE DEF sn, l, n, c
    <2>2. sn + 1 \in Nat /\ l + ((sn + 1) - 1) = n /\ sn = (sn + 1) - 1
        BY <2>1
    <2> QED BY <2>1, <2>2 DEF sn
<1>5. /\ IsChip(chip) /\ chip.m_count \in 0 .. 4 /\ PageOf(p)' = PageOf(p)
      /\ PageLength' = PageLength /\ p' = p /\ s' = s /\ data' = data
    BY <1>2 DEF FlashTypes, PageOf, PageLength, drvrVars
<1>6. ASSUME NEW k, k = i - c - 1,
             k = -1 => chip'.m_count = 1,
             k >= 0 /\ pc = "erasing" => chip'.m_addr = s,
             k >= 0 /\ pc = "writing" =>
               /\ chip'.m_count = 4 /\ k <= PageLength
               /\ PageOf(chip'.m_addr) = PageOf(p) - FlashBase
               /\ k < PageLength => chip'.m_addr = p + k - FlashBase
               /\ Buffered(k)'
      PROVE  Told'
    <2>1. Sent' - CommandAt' - 1 = k
        BY <1>1, <1>6
    <2> HIDE DEF i, c
    <2>2. /\ k = -1 => chip'.m_count = 1
          /\ k >= 0 /\ pc' = "erasing" => chip'.m_addr = s'
          /\ k >= 0 /\ pc' = "writing" =>
               /\ chip'.m_count = 4 /\ k <= PageLength'
               /\ PageOf(chip'.m_addr) = PageOf(p)' - FlashBase
               /\ k < PageLength' => chip'.m_addr = p' + k - FlashBase
               /\ Buffered(k)'
        BY <1>1, <1>5, <1>6
    <2> QED BY <2>1, <2>2 DEF Told
<1>7. CASE i = c
    <2>1. CfgWrite(Cmd(IF pc = "erasing" THEN "SE" ELSE "PP"))
        BY <1>1, <1>3, <1>7
    <2>2. chip.m_count = 0
        <3>1. Sent < c /\ Sent # 2
            <4> HIDE DEF c, i
            <4> QED BY <1>3, <1>4, <1>7
        <3> QED BY <3>1 DEF Enabling
    <2>3. chip'.m_count = 1
        BY <1>5, <2>1, <2>2, CmdIs
    <2>4. i - c - 1 = -1 /\ ~(i - c - 1 >= 0)
        <3> HIDE DEF c, i
        <3> QED BY <1>3, <1>4, <1>7
    <2>5. PICK k : k = i - c - 1
        OBVIOUS
    <2>6. k = -1 /\ ~(k >= 0)
        <3> HIDE DEF c, i
        <3> QED BY <2>4, <2>5
    <2> HIDE DEF c, i
    <2> QED BY <1>6, <2>3, <2>5, <2>6
<1>8. ASSUME i > c PROVE chip.m_state = Operation /\ cfg_user_mode /\ Told
    <2>1. Sent >= c /\ l >= 4
        <3> HIDE DEF c, i, l, n
        <3> QED BY <1>3, <1>4, <1>8
    <2>2. cfg_user_mode /\ chip.m_state \in {Operation, "INVALID"} /\ chip.m_count >= 1
        BY <2>1 DEF Commanding
    <2>3. chip'.m_state = chip.m_state
        <3>1. B.t \in {"addr", "data"}
            <4>1. CASE i = c + 1
                BY <1>3, <4>1 DEF Addr
            <4>2. CASE i # c + 1 /\ pc = "writing"
                <5>1. i - 6 \in 1 .. PageLength /\ (i - 6) + 6 = i
                    <6> DEFINE L == PageLength
                    <6>1. n = L + 10 /\ c = 5
                        BY <1>3, <4>2
                    <6>2. L \in Nat
                        BY <1>1, <4>2
                    <6> HIDE DEF c, i, l, n, L
                    <6>3. i - 6 \in 1 .. L /\ (i - 6) + 6 = i
                        BY <1>3, <1>4, <1>8, <4>2, <6>1, <6>2
                    <6> QED BY <6>3 DEF L
                <5>2. Script[(i - 6) + 6] = DataByte(data[p + (i - 6) - 1])
                    BY <1>3, <4>2, <5>1
                <5>3. B = DataByte(data[p + (i - 6) - 1])
                    BY <5>1, <5>2
                <5> QED BY <5>3 DEF DataByte
            <4>3. CASE i # c + 1 /\ pc = "erasing"
                <5>1. n = 9 /\ c = 4
                    BY <1>3, <4>3
                <5> HIDE DEF c, i, l, n
                <5> QED BY <1>3, <1>4, <1>8, <4>3, <5>1
            <4> QED BY <4>1, <4>2, <4>3 DEF Acting
        <3>2. chip.m_count \in 1 .. 4 /\ chip.m_state # "WRSR"
            BY <1>5, <2>2 DEF Operation
        <3>3. PICK b : b = B
            OBVIOUS
        <3>4. b.t \in {"addr", "data"} /\ CfgWrite(b)
            BY <1>1, <3>1, <3>3
        <3> QED BY <1>5, <3>2, <3>4, OperandIs
    <2>4. chip.m_state = Operation
        BY <1>1, <2>2, <2>3
    <2>5. Told
        BY <2>1, <2>4 DEF SectorUnderWay
    <2> QED BY <2>2, <2>4, <2>5
<1>9. CASE i = c + 1
    <2>1. i > c /\ Sent - c - 1 = -1 /\ i - c - 1 = 0
        <3> HIDE DEF c, i
        <3> QED BY <1>3, <1>4, <1>9
    <2>2. chip.m_count = 1 /\ chip.m_state = Operation
        BY <1>8, <2>1 DEF Told
    <2> DEFINE a == IF pc = "erasing" THEN s ELSE p
    <2>3. chip' = Address(chip, a)
        <3>1. B = Addr(a)
            BY <1>3, <1>9
        <3> HIDE DEF a
        <3>2. CfgWrite(Addr(a))
            BY <1>1, <3>1
        <3> QED BY <3>2 DEF CfgWrite, Addr, Shifted
    <2>4. CASE pc = "erasing"
        <3>1. chip.m_state = "SECTOR_ERASE" /\ a = s
            BY <2>2, <2>4 DEF Operation
        <3>2. chip'.m_addr = s
            BY <1>5, <2>2, <2>3, <3>1, AddressIs
        <3>3. ~(0 = -1) /\ 0 = i - c - 1 /\ pc # "writing"
            BY <2>1, <2>4
        <3> HIDE DEF c, i
        <3> QED BY <1>6, <3>2, <3>3
    <2>5. CASE pc = "writing"
        <3>1. chip.m_state = "PP" /\ a = p
            BY <2>2, <2>5 DEF Operation
        <3>2. chip'.m_addr = p % MemBytes /\ chip'.m_count = 4
            BY <1>5, <2>2, <2>3, <3>1, AddressIs
        <3>3. chip'.m_pmem = [j \in 0 .. PageBytes - 1 |-> Ones]
            BY <1>5, <2>2, <2>3, <3>1, AddressMemory
        <3>4. /\ p \in Int /\ PageLength \in Nat \ {0} /\ p >= FlashBase /\ p < FlashBase + MemBytes
              /\ FlashBase \in Int
            <4>1. /\ p \in Int /\ PageOf(p) \in Int /\ s \in Int /\ s <= PageOf(p) /\ PageOf(p) <= p
                  /\ p < PageOf(p) + PageBytes /\ s >= FlashBase
                  /\ PageOf(p) + PageBytes <= FlashBase + MemBytes /\ PageLength \in Nat \ {0}
                BY <2>5, PageInside
            <4>2. FlashBase \in Int /\ MemBytes \in Nat /\ PageBytes \in Nat
                BY FlashIs
            <4> DEFINE this == PageOf(p)
            <4> HIDE DEF this
            <4>3. this \in Int /\ s <= this /\ this <= p /\ p < this + PageBytes /\ this + PageBytes <= FlashBase + MemBytes
                BY <4>1 DEF this
            <4>4. p >= FlashBase /\ p < FlashBase + MemBytes
                BY <4>1, <4>2, <4>3
            <4> QED BY <4>1, <4>2, <4>4
        <3>5. p % MemBytes = p - FlashBase
            BY <3>4, FlashIs DEF FlashAddrs
        <3>6. PageOf(chip'.m_addr) = PageOf(p) - FlashBase
            BY <3>2, <3>4, <3>5, PageShift
        <3>7. chip'.m_addr = p + 0 - FlashBase /\ 0 <= PageLength
            BY <3>2, <3>4, <3>5
        <3>8. Buffered(0)'
            BY <3>3 DEF Buffered
        <3>9. ~(0 = -1) /\ 0 = i - c - 1 /\ pc # "erasing"
            BY <2>1, <2>5
        <3> HIDE DEF c, i
        <3> QED BY <1>6, <3>2, <3>6, <3>7, <3>8, <3>9
    <2> QED BY <2>4, <2>5 DEF Acting
<1>10. CASE i > c + 1
    <2>1. pc = "writing"
        <3>1. CASE pc = "erasing"
            <4>1. n = 9 /\ c = 4
                BY <1>3, <3>1
            <4> HIDE DEF c, i, l, n
            <4> QED BY <1>3, <1>4, <1>10, <4>1
        <3> QED BY <3>1 DEF Acting
    <2>2. c = 5 /\ n = PageLength + 10 /\ PageLength \in Nat \ {0}
        BY <1>1, <1>3, <2>1
    <2> DEFINE k == i - 7  L == PageLength
    <2>3. /\ k \in 0 .. L - 1 /\ Sent - c - 1 = k /\ i - c - 1 = k + 1 /\ i > c /\ k >= 0 /\ k + 1 >= 0
          /\ k + 1 <= L /\ i = (k + 1) + 6 /\ k + 1 \in 1 .. L /\ ~(k + 1 = -1) /\ (k + 1) - 1 = k
        <3>1. c = 5 /\ n = L + 10 /\ L \in Nat \ {0}
            BY <2>2
        <3>2. i \in Nat /\ Sent = i - 1 /\ l \in Nat /\ l - 1 >= 4 /\ l + (i - 1) = n /\ i > c + 1
            BY <1>4, <1>10
        <3> HIDE DEF c, i, l, n, L
        <3>3. i > 6 /\ i - 7 <= L - 1
            BY <3>1, <3>2
        <3>4. k \in 0 .. L - 1 /\ k \in Nat /\ i = k + 7
            BY <3>1, <3>2, <3>3
        <3> HIDE DEF k
        <3>5. Sent - c - 1 = k /\ i - c - 1 = k + 1 /\ i > c
            BY <3>1, <3>2, <3>4
        <3>6. /\ k >= 0 /\ k + 1 >= 0 /\ k + 1 <= L /\ i = (k + 1) + 6 /\ k + 1 \in 1 .. L
              /\ ~(k + 1 = -1) /\ (k + 1) - 1 = k
            BY <3>1, <3>4
        <3> QED BY <3>4, <3>5, <3>6
    <2>4. chip.m_state = "PP" /\ Told
        BY <1>8, <2>1, <2>3 DEF Operation
    <2>5. chip.m_count = 4 /\ chip.m_addr = p + k - FlashBase /\ Buffered(k)
        <3>1. PICK kk : kk = k
            OBVIOUS
        <3>2. Sent - CommandAt - 1 = kk /\ kk >= 0 /\ kk < PageLength
            <4>1. kk \in 0 .. PageLength - 1
                BY <2>3, <3>1
            <4>2. Sent - CommandAt - 1 = kk
                BY <2>3, <3>1
            <4> QED BY <2>2, <4>1, <4>2
        <3>3. chip.m_count = 4 /\ chip.m_addr = p + kk - FlashBase /\ Buffered(kk)
            BY <2>1, <2>4, <3>2 DEF Told
        <3> QED BY <3>1, <3>3
    <2>6. CfgWrite(DataByte(data[p + k]))
        <3>1. Script[(k + 1) + 6] = DataByte(data[p + (k + 1) - 1])
            BY <1>3, <2>1, <2>3
        <3>2. p + (k + 1) - 1 = p + k
            <4>1. p \in Int /\ k \in Int
                BY <2>1, <2>3, PageInside
            <4> HIDE DEF k
            <4> QED BY <4>1
        <3> QED BY <1>1, <2>3, <3>1, <3>2
    <2>7. PICK kk : kk = k
        OBVIOUS
    <2>8. /\ kk \in 0 .. PageLength - 1 /\ chip.m_addr = p + kk - FlashBase /\ Buffered(kk)
          /\ CfgWrite(DataByte(data[p + kk]))
        BY <2>3, <2>5, <2>6, <2>7
    <2>9. kk + 1 = i - c - 1 /\ kk + 1 <= PageLength /\ ~(kk + 1 = -1)
        BY <2>3, <2>7
    <2> HIDE DEF k, c, i
    <2>10. /\ chip'.m_count = 4 /\ PageOf(chip'.m_addr) = PageOf(p) - FlashBase
           /\ kk + 1 < PageLength => chip'.m_addr = p + (kk + 1) - FlashBase
           /\ Buffered(kk + 1)'
        BY <1>2, <2>1, <2>4, <2>5, <2>8, DataTells
    <2> QED BY <1>6, <2>1, <2>9, <2>10
<1>11. i = c \/ i = c + 1 \/ i > c + 1
    <2> HIDE DEF c, i
    <2> QED BY <1>3, <1>4
<1> QED BY <1>7, <1>9, <1>10, <1>11

-----------------------------------------------------------------------------
(* Every step keeps what is said of the memory and of the data.               *)

LEMMA ReadMemory ==
    ASSUME IsChip(chip), NEW a
    PROVE  ChipAfterRead(a).m_mem = chip.m_mem /\ ChipAfterRead(a).m_pmem = chip.m_pmem
BY DEF IsChip, ChipAfterRead, AfterSlowRead

LEMMA DoneMemory ==
    ASSUME IsChip(chip)
    PROVE  WriteDone(chip).m_mem = chip.m_mem /\ WriteDone(chip).m_pmem = chip.m_pmem
BY DEF IsChip, WriteDone

\* Only the bytes that are sent to the chip change its memory.
MemoryIs == chip'.m_mem = chip.m_mem /\ chip'.m_pmem = chip.m_pmem
LEMMA DriverMemory ==
    ASSUME FlashTypes, Driver
    PROVE  MemoryIs
<1>1. IsChip(chip)
    BY DEF FlashTypes
<1>2. chip' = chip \/ \E a : chip' = ChipAfterRead(a)
    <2>1. CASE NextSector("start") \/ Compared2 \/ Page \/ PagesDone
        BY <2>1 DEF NextSector, Compared2, Page, PagesDone, flashVars
    <2>2. CASE WhileWip("erasing", "verifyErase") \/ WhileWip("writing", "verifyPage")
        BY <2>2 DEF WhileWip, flashVars
    <2>3. CASE Compare
        <3>1. chip' = ChipAfterRead(at)
            BY <2>3 DEF Compare
        <3> QED BY <3>1
    <2>4. CASE VerifyErase
        <3>1. chip' = ChipAfterRead(VerifyAddr(s) + SectorBytes - WordBytes)
            BY <2>4 DEF VerifyErase
        <3> QED BY <3>1
    <2>5. CASE VerifyPage
        <3>1. chip' = chip \/ chip' = ChipAfterRead(Max(WordsOf(PageLength \div WordBytes)))
            BY <2>5 DEF VerifyPage
        <3> QED BY <3>1
    <2> QED BY <2>1, <2>2, <2>3, <2>4, <2>5 DEF Driver, Write
<1>3. CASE \E a : chip' = ChipAfterRead(a)
    <2>1. PICK a : chip' = ChipAfterRead(a)
        BY <1>3
    <2> QED BY <1>1, <2>1, ReadMemory DEF MemoryIs
<1> QED BY <1>2, <1>3 DEF MemoryIs

LEMMA OnlySendsChange ==
    ASSUME FlashTypes, [Next]_vars
    PROVE  SendByte \/ MemoryIs
<1>1. IsChip(chip)
    BY DEF FlashTypes
<1>2. CASE UNCHANGED chip
    BY <1>2 DEF MemoryIs
<1>3. CASE UNCHANGED vars \/ Start \/ UserSession \/ CheckSections \/ LoadBkram \/ ToFlash
           \/ WriteFlash \/ StartCpu \/ Kill
    <2>1. UNCHANGED chip
        BY <1>3 DEF vars, flashVars, Start, UserSession, CheckSections, LoadBkram, ToFlash,
            WriteFlash, StartCpu, Kill
    <2> QED BY <1>2, <2>1
<1>4. CASE Driver
    BY <1>4, DriverMemory
<1>5. CASE DumpFlash
    <2>1. PICK a : chip' = ChipAfterRead(a)
        BY <1>5 DEF DumpFlash
    <2> QED BY <1>1, <2>1, ReadMemory DEF MemoryIs
<1>6. CASE ChipDone
    BY <1>1, <1>6, DoneMemory DEF ChipDone, MemoryIs
<1> QED BY <1>3, <1>4, <1>5, <1>6 DEF Next, Loader

LEMMA MemoryStep ==
    ASSUME FlashTypes, MemTyped, [Next]_vars
    PROVE  MemTyped'
<1>1. CASE MemoryIs
    BY <1>1 DEF MemoryIs, MemTyped
<1>2. CASE SendByte
    <2>1. CfgWrite(Head(out))
        BY <1>2 DEF SendByte, Send
    <2>2. PICK b : b = Head(out)
        OBVIOUS
    <2> QED BY <2>1, <2>2, MemoryStays DEF FlashTypes
<1> QED BY <1>1, <1>2, OnlySendsChange

LEMMA DataToFlash ==
    ASSUME FlashTypes, PagesInv, DataBeyond, ToFlash
    PROVE  DataBeyond'
<1> DEFINE sc == Sections[sec]
<1>1. /\ sec \in DOMAIN Sections /\ ~InBkram(sc) /\ pc = "section" /\ pc' = "section"
      /\ startaddr' = Smaller(startaddr, sc.m_start)
      /\ codelen' = GrowLength(sc, startaddr')
      /\ data' = [a \in DOMAIN data |->
                   IF a - sc.m_start \in 0 .. sc.m_len - 1
                   THEN sc.m_data[a - sc.m_start + 1] ELSE data[a]]
    BY DEF ToFlash, Goto
<1>2. startaddr = FlashBase /\ InFlash(sc)
    BY <1>1 DEF PagesInv
<1>3. sc.m_start \in Int /\ sc.m_len \in Int
    BY <1>1, SectionIs DEF FlashTypes
<1>4. sc.m_start >= FlashBase
    BY <1>2 DEF InFlash, Within
<1>5. FlashBase \in Int /\ MemBytes \in Nat /\ codelen \in Int
    BY ZipLoadAssumption, FlashSimAssumption DEF ZipLoadAssumption, FlashSimAssumption, FlashTypes
<1> HIDE DEF sc
<1>6. startaddr' = FlashBase
    BY <1>1, <1>2, <1>3, <1>4, <1>5 DEF Smaller
<1>7. codelen' \in Int /\ codelen' >= codelen /\ FlashBase + codelen' >= sc.m_start + sc.m_len
    BY <1>1, <1>2, <1>3, <1>5, <1>6 DEF GrowLength, Larger
<1>8. /\ DOMAIN data = FlashAddrs
      /\ \A a \in FlashAddrs : a >= FlashBase + codelen => data[a] = Ones
    BY <1>1, <1>2 DEF DataBeyond
<1>9. ASSUME NEW a \in FlashAddrs, a >= FlashBase + codelen' PROVE data'[a] = Ones
    <2>1. a \in Int
        BY <1>5 DEF FlashAddrs
    <2>2. a >= FlashBase + codelen /\ ~(a - sc.m_start \in 0 .. sc.m_len - 1)
        <3>1. PICK c : c = codelen'
            OBVIOUS
        <3>2. PICK m, n : m = sc.m_start /\ n = sc.m_len
            OBVIOUS
        <3>3. c \in Int /\ c >= codelen /\ FlashBase + c >= m + n /\ m \in Int /\ n \in Int /\ a >= FlashBase + c
            BY <1>3, <1>7, <1>9, <3>1, <3>2
        <3>4. a >= FlashBase + codelen /\ ~(a - m \in 0 .. n - 1)
            BY <1>5, <2>1, <3>3
        <3> QED BY <3>2, <3>4
    <2> QED BY <1>1, <1>8, <2>2
<1>10. DOMAIN data' = FlashAddrs
    BY <1>1, <1>8
<1> QED BY <1>6, <1>9, <1>10 DEF DataBeyond

LEMMA DataStep ==
    ASSUME FlashTypes, PagesInv, DataBeyond, [Next]_vars
    PROVE  DataBeyond'
<1>1. ASSUME data' = data, startaddr' = startaddr, codelen' = codelen,
             pc' \in {"check", "section"} \cup {"sector", "compare", "erasing", "verifyErase"}
                       \cup {"page", "writing", "verifyPage"} =>
               pc \in {"check", "section"} \/ BySector \/ PageByPage
      PROVE  DataBeyond'
    BY <1>1 DEF DataBeyond, BySector, PageByPage
<1>2. ASSUME data' = Fbuf PROVE DataBeyond'
    BY <1>2 DEF DataBeyond, Fbuf
<1>3. CASE Start \/ Kill
    <2>1. data' = Fbuf
        BY <1>3 DEF Start, Kill, ProgramStarts
    <2> QED BY <1>2, <2>1
<1>4. CASE UNCHANGED vars \/ UserSession \/ DumpFlash \/ SendByte \/ ChipDone
    <2>1. UNCHANGED <<pc, data, startaddr, codelen>>
        BY <1>4 DEF vars, UserSession, DumpFlash, SendByte, Send, ChipDone, drvrVars, loaderVars
    <2> QED BY <1>1, <2>1 DEF BySector, PageByPage
<1>5. CASE CheckSections \/ LoadBkram \/ WriteFlash
    <2>1. UNCHANGED <<data, startaddr, codelen>> /\ pc \in {"check", "section"}
        BY <1>5 DEF CheckSections, LoadBkram, WriteFlash, Goto, drvrVars, loaderVars
    <2> QED BY <1>1, <2>1
<1>6. CASE ToFlash
    BY <1>6, DataToFlash
<1>7. CASE StartCpu
    <2>1. UNCHANGED <<data, startaddr, codelen>> /\ pc' = "done"
        BY <1>7 DEF StartCpu, Goto, drvrVars, loaderVars
    <2> QED BY <1>1, <2>1
<1>8. CASE Driver
    <2>1. UNCHANGED <<startaddr, codelen>>
        BY <1>8 DEF Driver, loaderVars
    <2>2. UNCHANGED data /\ (BySector \/ PageByPage)
        BY <1>8 DEF Driver, Write, NextSector, Compare, Compared2, WhileWip, VerifyErase, Page,
            VerifyPage, PagesDone, Goto, BySector, PageByPage, drvrVars
    <2> QED BY <1>1, <2>1, <2>2
<1> QED BY <1>3, <1>4, <1>5, <1>6, <1>7, <1>8 DEF Next, Loader

LEMMA SectorsInit == Init => SectorsInv
<1> SUFFICES ASSUME Init PROVE SectorsInv
    OBVIOUS
<1>1. PICK kind \in Chips, mem \in Flashes : chip = FlashSimInit(kind, mem)
    BY DEF Init
<1>2. MemTyped
    BY <1>1, ZipLoadAssumption DEF ZipLoadAssumption, MemTyped, FlashSimInit
<1>3. DataBeyond
    BY DEF Init, DataBeyond, Fbuf
<1>4. pc = "none"
    BY DEF Init
<1> QED BY <1>2, <1>3, <1>4 DEF SectorsInv, SectorUnderWay, BySector, PageByPage, UnderWay, Acting

-----------------------------------------------------------------------------
(* Every step keeps what is said of the sector.                               *)

\* A multiple that lies before another ends no later than it.
LEMMA WordsFit ==
    ASSUME NEW n \in Nat \ {0}, NEW k \in Int, NEW x \in Int, x % n = 0, k * n < x
    PROVE  k * n + n <= x
<1>1. CASE x < k * n + n
    <2>1. k * n <= x /\ k * n \in Int
        OBVIOUS
    <2>2. x - (x % n) = k * n
        BY <1>1, <2>1, MultIs
    <2> DEFINE y == k * n
    <2>3. x - 0 = y /\ y < x
        BY <2>2
    <2> HIDE DEF y
    <2> QED BY <2>3
<1>2. k * n \in Int
    OBVIOUS
<1> QED BY <1>1, <1>2

\* A word that is read in the mode in which the flash is read.
LEMMA BusReadIs ==
    ASSUME NEW a \in FlashAddrs, ~cfg_user_mode, "DPD" \notin chip.m_sreg, "WIP" \notin chip.m_sreg,
           NEW i \in 0 .. WordBytes - 1
    PROVE  BusRead(a)[i] = chip.m_mem[(a - FlashBase + i) % MemBytes]
<1>1. BusRead(a) = SlowRead(chip, a - FlashBase, WordBytes)
    BY DEF BusRead
<1>2. ReadState(chip) = "SLOW_READ"
    BY DEF ReadState
<1> QED BY <1>1, <1>2 DEF SlowRead

LEMMA StaleStays ==
    ASSUME Stale, chip'.m_mem = chip.m_mem, s' = s, addr' = addr, len' = len, data' = data
    PROVE  Stale'
BY DEF Stale

\* What is read of a loader that found the flash ready is what the flash holds.
LEMMA FoundReads ==
    ASSUME LoaderInv, Busy, found, ~Acting, out = <<>>
    PROVE  ~cfg_user_mode /\ "DPD" \notin chip.m_sreg /\ "WIP" \notin chip.m_sreg
BY DEF LoaderInv, LoaderKnows, Between, IsDone

\* A word of the sector that needs an erase is not what it will be.
LEMMA CompareFinds ==
    ASSUME LoaderInv, PagesInv, SectorsInv, SectorsAsBuilt,
           pc = "compare", out = <<>>, at < SectorEnd, WholeWords, Quiet,
           NEW word \in Read(at), NeedsErase(word, at)
    PROVE  Stale
<1> DEFINE e == SectorEnd  w == WordBytes  base == FlashBase
<1>1. /\ base \in Int /\ w \in Nat \ {0} /\ MemBytes \in Nat \ {0} /\ SectorBytes \in Nat \ {0}
    BY FlashIs
<1>2. /\ addr = base /\ s >= base /\ s \in Int /\ len \in Int /\ len <= MemBytes /\ at \in Int
      /\ IsSector(s)
    BY DEF PagesInv, SectorsInv, SectorUnderWay, BySector, LoaderInv, FlashTypes
<1>3. e \in Int /\ e <= addr + len /\ e <= s + SectorBytes
    BY <1>1, <1>2 DEF SectorEnd, Smaller
<1>4. SectorBase = s
    BY <1>1, <1>2 DEF SectorBase, Larger
<1>5. PICK k \in Nat : at = s + k * w
    BY DEF SectorsInv, SectorUnderWay
<1>6. at + w <= e /\ at >= s
    <2> DEFINE x == e - s  y == k * w
    <2>1. x % w = 0
        BY <1>4 DEF WholeWords
    <2>2. at < e
        OBVIOUS
    <2>3. y \in Nat
        BY <1>1
    <2> HIDE DEF x, y, e, w, base
    <2>4. x \in Int /\ y < x
        BY <1>2, <1>3, <1>5, <2>2, <2>3 DEF x, y
    <2>5. k * w + w <= x
        <3>1. w \in Nat \ {0} /\ k \in Int
            BY <1>1, <1>5
        <3>2. k * w < x
            BY <2>4 DEF y
        <3>3. x \in Int /\ x % w = 0
            BY <2>1, <2>4
        <3> QED BY <3>1, <3>2, <3>3, WordsFit, Zenon
    <2>6. y + w <= x /\ at = s + y
        BY <1>5, <2>5 DEF y
    <2> QED BY <1>1, <1>2, <1>3, <2>3, <2>6 DEF x
<1>7. word = BusRead(at)
    BY <1>6 DEF Read
<1>8. at \in FlashAddrs
    <2> HIDE DEF e
    <2> QED BY <1>1, <1>2, <1>3, <1>6 DEF FlashAddrs
<1>9. PICK i \in Compared(at) : ~(data[at + i] \subseteq word[i])
    BY DEF NeedsErase
<1>10. i \in 0 .. w - 1 /\ at + i < e
    BY <1>9 DEF Compared
<1>11. found
    BY DEF LoaderInv, FirstLoader, Quiet, Busy
<1>12. word[i] = chip.m_mem[(at - FlashBase + i) % MemBytes]
    <2>1. ~cfg_user_mode /\ "DPD" \notin chip.m_sreg /\ "WIP" \notin chip.m_sreg
        BY <1>11, FoundReads DEF Busy, Acting
    <2> QED BY <1>7, <1>8, <1>10, <2>1, BusReadIs
<1> DEFINE b == at + i
<1>13. /\ b \in Int /\ s <= b /\ b < s + SectorBytes /\ b < addr + len /\ b \in FlashAddrs
       /\ at - base + i = b - base /\ b - base \in 0 .. MemBytes - 1
    <2> HIDE DEF e
    <2> QED BY <1>1, <1>2, <1>3, <1>6, <1>10 DEF FlashAddrs
<1>14. SectorOf(b) = s
    <2> HIDE DEF b
    <2> QED BY <1>2, <1>13, SameSector
<1>15. chip.m_mem[b - FlashBase] # data[b]
    <2>1. (b - base) % MemBytes = b - base
        <3> DEFINE c == b - base
        <3>1. c \in 0 .. MemBytes - 1
            BY <1>13
        <3> HIDE DEF c
        <3>2. c % MemBytes = c
            BY <3>1, FlashIs
        <3> QED BY <3>2 DEF c
    <2>2. word[i] = chip.m_mem[b - FlashBase]
        BY <1>12, <1>13, <2>1
    <2> QED BY <1>9, <2>2
<1> QED BY <1>13, <1>14, <1>15 DEF Stale

\* A byte that the loader sends changes the memory only as it ends the command.
LEMMA SendMemory ==
    ASSUME LoaderInv, Busy, found, SendByte
    PROVE  \/ chip'.m_mem = chip.m_mem
           \/ /\ Acting /\ Len(out) = 4 /\ Sent \in Nat /\ Sent + 4 = Len(Script)
              /\ Sent >= CommandAt /\ chip.m_state = Operation /\ chip' \in Deselect(chip)
<1> SUFFICES ASSUME chip'.m_mem # chip.m_mem
             PROVE  /\ Acting /\ Len(out) = 4 /\ Sent \in Nat /\ Sent + 4 = Len(Script)
                    /\ Sent >= CommandAt /\ chip.m_state = Operation /\ chip' \in Deselect(chip)
    OBVIOUS
<1>1. FlashTypes /\ IsChip(chip) /\ chip.m_count \in 0 .. 4
    BY DEF LoaderInv, FlashTypes
<1>2. ASSUME NEW b, CfgWrite(b) PROVE b.t = "end" /\ chip' \in Deselect(chip) /\ chip.m_state \in Resting
    <2>1. b.t = "end" /\ chip' \in Deselect(chip)
        BY <1>1, <1>2, OnlyEndChanges
    <2>2. PICK d : d = chip'
        OBVIOUS
    <2>3. chip.m_state \in Resting
        BY <1>1, <2>1, <2>2, DeselectIs
    <2> QED BY <2>1, <2>3
<1>3. CfgWrite(Head(out))
    BY DEF SendByte, Send
<1>4. chip' \in Deselect(chip) /\ chip.m_state \in Resting
    <2>1. PICK b : b = Head(out)
        OBVIOUS
    <2> QED BY <1>2, <1>3, <2>1
<1>5. Acting
    BY <1>4 DEF LoaderInv, LoaderKnows, Between, IsDone
<1>6. /\ Sending /\ Enabling /\ Commanding /\ Polling /\ (pc = "writing" => PageAsserted)
    BY <1>5 DEF LoaderInv, LoaderKnows
<1> DEFINE i == Sent + 1  n == Len(Script)  l == Len(out)  c == CommandAt  B == Script[i]
<1>7. /\ Sent \in Nat /\ l \in Nat \ {0} /\ l + Sent = n /\ CfgWrite(B)
      /\ PageLength \in Nat \ {0} \/ pc = "erasing"
    BY <1>1, <1>5, <1>6, SentOne
<1>8. B.t = "end"
    <2>1. PICK b : b = B
        OBVIOUS
    <2> QED BY <1>2, <1>7, <2>1
<1>9. l > 3 /\ Sent >= c
    <2>1. ~(l <= 3)
        BY <1>4, <1>6 DEF Polling
    <2>2. ~(Sent < c)
        BY <1>4, <1>6 DEF Enabling, IsDone
    <2>3. CommandAt \in Nat
        BY <1>5 DEF CommandAt, CommandOf
    <2> DEFINE sn == Sent
    <2>4. l \in Nat /\ sn \in Nat /\ c \in Nat /\ ~(sn < c)
        BY <1>7, <2>2, <2>3
    <2> HIDE DEF l, c, sn
    <2>5. l > 3 /\ sn >= c
        BY <2>1, <2>4
    <2> QED BY <2>5 DEF sn
<1>10. chip.m_state = Operation
    <2>1. "INVALID" \notin Resting
        BY DEF Resting
    <2>2. chip.m_state \in {Operation, "INVALID"}
        BY <1>6, <1>7, <1>9 DEF Commanding
    <2> QED BY <1>4, <2>1, <2>2
<1>11. /\ n \in Nat /\ c \in 4 .. 5 /\ n >= c + 5
       /\ Script[c + 1].t = "addr" /\ \A k \in c + 2 .. n - 4 : Script[k].t = "data"
    <2>1. pc \in {"erasing", "writing"} /\ (pc = "writing" => PageLength \in Nat \ {0})
        BY <1>5, <1>7 DEF Acting
    <2>2. /\ n \in Nat /\ c \in 4 .. 5 /\ n >= c + 5
          /\ Script[c + 1] = Addr(IF pc = "erasing" THEN s ELSE p)
          /\ \A k \in c + 2 .. n - 4 : Script[k].t = "data"
        BY <2>1, ScriptIs DEF Script, CommandAt
    <2> QED BY <2>2 DEF Addr
<1>12. l = 4
    <2>1. CASE l > 4
        <3>1. i = c + 1 \/ i \in c + 2 .. n - 4
            <4> DEFINE sn == Sent
            <4>1. sn \in Nat /\ sn >= c /\ l + sn = n /\ i = sn + 1
                BY <1>7, <1>9
            <4> HIDE DEF sn, i, n, l, c
            <4> QED BY <1>7, <1>11, <2>1, <4>1
        <3>2. B.t \in {"addr", "data"}
            <4>1. PICK j : j = i
                OBVIOUS
            <4> QED BY <1>11, <3>1, <4>1
        <3> QED BY <1>8, <3>2
    <2> HIDE DEF l
    <2> QED BY <1>7, <1>9, <2>1
<1> QED BY <1>4, <1>5, <1>7, <1>9, <1>10, <1>12

\* A place where the flash is not written to.
LEMMA SectorsEnd ==
    ASSUME pc' \in {"none", "check", "section", "start", "done", "failed", "killed"}
    PROVE  SectorUnderWay'
BY DEF SectorUnderWay, BySector, PageByPage, UnderWay, Acting

LEMMA SectorsWriteFlash ==
    ASSUME FlashTypes, PagesInv, SectorsAsBuilt, WriteFlash
    PROVE  SectorUnderWay'
<1>1. /\ pc = "section" /\ pc' \in {"sector", "start"} /\ addr' = startaddr /\ len' = codelen
      /\ s' = SectorOf(startaddr) /\ startaddr' = startaddr /\ codelen' = codelen
    BY DEF WriteFlash, Goto, loaderVars
<1>2. startaddr = FlashBase
    BY <1>1 DEF PagesInv
<1>3. SectorOf(FlashBase) = FlashBase
    <2> DEFINE x == FlashBase
    <2>1. x \in Int /\ IsSector(x) /\ x < x + SectorBytes
        BY FlashIs
    <2> HIDE DEF x
    <2>2. SectorOf(x) = x
        BY <2>1, SameSector
    <2> QED BY <2>2 DEF x
<1>4. s' >= FlashBase /\ IsSector(s')
    BY <1>1, <1>2, <1>3, FlashIs
<1>5. IsSector(s)'
    BY <1>4 DEF IsSector
<1> QED BY <1>1, <1>4, <1>5 DEF SectorUnderWay, BySector, PageByPage, UnderWay, Acting

\* A byte is sent.
LEMMA SectorsSend ==
    ASSUME LoaderInv, FlashTypes', PagesInv, SectorsInv, SectorsAsBuilt, SendByte
    PROVE  SectorUnderWay'
<1>1. /\ pc' = pc /\ found' = found /\ runs' = runs /\ user' = user
      /\ startaddr' = startaddr /\ codelen' = codelen /\ UNCHANGED drvrVars
    BY DEF SendByte, Send, countVars, loaderVars
<1>2. /\ data' = data /\ addr' = addr /\ len' = len /\ s' = s /\ at' = at
      /\ need_erase' = need_erase /\ p' = p
    BY <1>1 DEF drvrVars
<1>3. FlashTypes /\ CfgWrite(Head(out)) /\ IsSeq(out) /\ out # <<>> /\ out' = Tail(out)
    BY DEF LoaderInv, FlashTypes, SendByte, Send
<1>4. chip'.kind = chip.kind
    <2>1. PICK b : b = Head(out)
        OBVIOUS
    <2> QED BY <1>3, <2>1, KindStays
<1>5. Quiet' => Quiet
    BY <1>1, <1>4 DEF Quiet
<1>6. WholeWords' => WholeWords
    BY <1>2 DEF WholeWords, SectorEnd, SectorBase
<1>7. ASSUME Busy, Quiet PROVE found
    BY <1>7 DEF LoaderInv, FirstLoader, Quiet
<1>8. Len(out) \in Nat \ {0} /\ Len(out') = Len(out) - 1
    BY <1>3, TailIs
<1>9. /\ BySector' = BySector /\ PageByPage' = PageByPage /\ UnderWay' = UnderWay /\ Acting' = Acting
    BY <1>1 DEF BySector, PageByPage, UnderWay, Acting
<1>10. pc = "compare" /\ need_erase /\ Quiet' /\ WholeWords' => Stale'
    <2> SUFFICES ASSUME pc = "compare", need_erase, Quiet', WholeWords' PROVE Stale'
        OBVIOUS
    <2>1. found /\ Stale
        BY <1>5, <1>6, <1>7 DEF Busy, SectorsInv, SectorUnderWay
    <2>2. chip'.m_mem = chip.m_mem
        BY <2>1, SendMemory DEF Busy, Acting
    <2> QED BY <1>2, <2>1, <2>2, StaleStays
<1>11. pc = "erasing" /\ Quiet' /\ WholeWords' /\ Len(out') >= 4 => Stale'
    <2> SUFFICES ASSUME pc = "erasing", Quiet', WholeWords', Len(out') >= 4 PROVE Stale'
        OBVIOUS
    <2>1. Len(out) >= 4 /\ Len(out) # 4
        BY <1>8
    <2>2. found /\ Stale
        BY <1>5, <1>6, <1>7, <2>1 DEF Busy, SectorsInv, SectorUnderWay
    <2>3. chip'.m_mem = chip.m_mem
        BY <2>1, <2>2, SendMemory DEF Busy
    <2> QED BY <1>2, <2>2, <2>3, StaleStays
<1>12. ASSUME Acting, found, Sent' >= CommandAt', Len(out') >= 4, chip'.m_state = Operation'
       PROVE  Told'
    <2>1. /\ Sending /\ Enabling /\ Commanding /\ "DPD" \notin chip.m_sreg
          /\ pc = "writing" => PageAsserted
        BY <1>12 DEF LoaderInv, LoaderKnows, Busy, Acting
    <2>2. Deselected /\ MemTyped /\ SectorUnderWay
        BY DEF LoaderInv, SectorsInv
    <2> QED BY <1>3, <1>12, <2>1, <2>2, SendTells
<1>13. /\ BySector \/ PageByPage => addr' = startaddr' /\ len' = codelen' /\ s' >= FlashBase /\ IsSector(s)'
       /\ UnderWay => s' < SectorOf(addr + len + SectorBytes - 1)'
       /\ PageByPage => s' <= p'
       /\ pc = "compare" /\ WholeWords' => \E k \in Nat : at' = s' + k * WordBytes
    <2>1. IsSector(s)' <=> IsSector(s)
        BY <1>2 DEF IsSector
    <2>2. SectorOf(addr + len + SectorBytes - 1)' = SectorOf(addr + len + SectorBytes - 1)
        BY <1>2 DEF SectorOf
    <2> QED BY <1>1, <1>2, <1>6, <2>1, <2>2 DEF SectorsInv, SectorUnderWay
<1> QED BY <1>1, <1>2, <1>9, <1>10, <1>11, <1>12, <1>13 DEF SectorUnderWay

\* Nothing that matters is changed.
LEMMA SectorsStay ==
    ASSUME SectorsInv, UNCHANGED drvrVars,
           pc' = pc, out' = out, found' = found, runs' = runs, user' = user,
           startaddr' = startaddr, codelen' = codelen,
           chip'.kind = chip.kind, chip'.m_mem = chip.m_mem, chip'.m_pmem = chip.m_pmem,
           chip'.m_state = chip.m_state, chip'.m_count = chip.m_count, chip'.m_addr = chip.m_addr
    PROVE  SectorUnderWay'
<1>1. /\ UNCHANGED drvrVars
      /\ pc' = pc /\ out' = out /\ found' = found /\ runs' = runs /\ user' = user
      /\ startaddr' = startaddr /\ codelen' = codelen
    OBVIOUS
<1>2. /\ data' = data /\ addr' = addr /\ len' = len /\ s' = s /\ at' = at
      /\ need_erase' = need_erase /\ p' = p /\ page_len' = page_len
    BY <1>1 DEF drvrVars
<1>3. /\ chip'.kind = chip.kind /\ chip'.m_mem = chip.m_mem /\ chip'.m_pmem = chip.m_pmem
      /\ chip'.m_state = chip.m_state /\ chip'.m_count = chip.m_count /\ chip'.m_addr = chip.m_addr
    OBVIOUS
<1>4. Quiet' => Quiet
    BY <1>1, <1>3 DEF Quiet
<1>5. WholeWords' => WholeWords
    BY <1>2 DEF WholeWords, SectorEnd, SectorBase
<1>6. Stale => Stale'
    BY <1>2, <1>3, StaleStays
<1>7. /\ BySector' = BySector /\ PageByPage' = PageByPage /\ UnderWay' = UnderWay /\ Acting' = Acting
    BY <1>1 DEF BySector, PageByPage, UnderWay, Acting
<1>8. CommandAt' = CommandAt /\ Operation' = Operation /\ Sent' = Sent
    <2>1. \A w : Bytes(w)' = Bytes(w)
        BY <1>1, ScriptStays
    <2>2. Script' = Script
        BY <1>1, <2>1 DEF Script
    <2> QED BY <1>1, <2>2 DEF CommandAt, Operation, Sent, CommandOf
<1>9. Told => Told'
    <2>1. PageLength' = PageLength /\ PageOf(p)' = PageOf(p)
        BY <1>2 DEF PageLength, PageOf
    <2>2. \A n : Buffered(n)' <=> Buffered(n)
        BY <1>2, <1>3, <2>1 DEF Buffered
    <2>3. PageOf(chip.m_addr)' = PageOf(chip.m_addr)
        BY <1>3 DEF PageOf
    <2> QED BY <1>1, <1>2, <1>3, <1>8, <2>1, <2>2, <2>3 DEF Told
<1>13. /\ BySector \/ PageByPage => addr' = startaddr' /\ len' = codelen' /\ s' >= FlashBase /\ IsSector(s)'
       /\ UnderWay => s' < SectorOf(addr + len + SectorBytes - 1)'
       /\ PageByPage => s' <= p'
       /\ pc = "compare" /\ WholeWords' => \E k \in Nat : at' = s' + k * WordBytes
    <2>1. IsSector(s)' <=> IsSector(s)
        BY <1>2 DEF IsSector
    <2>2. SectorOf(addr + len + SectorBytes - 1)' = SectorOf(addr + len + SectorBytes - 1)
        BY <1>2 DEF SectorOf
    <2> QED BY <1>1, <1>2, <1>5, <2>1, <2>2 DEF SectorsInv, SectorUnderWay
<1> QED BY <1>1, <1>2, <1>3, <1>4, <1>5, <1>6, <1>7, <1>8, <1>9, <1>13 DEF SectorsInv, SectorUnderWay

\* A step from a place of the sector to another, or to the next sector.
LEMMA SectorsMove ==
    ASSUME FlashTypes, SectorsInv, SectorsAsBuilt, BySector \/ PageByPage,
           UNCHANGED <<addr, len, startaddr, codelen>>,
           pc' \in {"sector", "erasing", "verifyErase", "page", "writing", "verifyPage"},
           (s' = s /\ UnderWay) \/ (s' = s + SectorBytes /\ pc' = "sector"),
           PageByPage' => s' <= p',
           pc' = "erasing" /\ Quiet' /\ WholeWords' /\ Len(out') >= 4 => Stale',
           Acting' => ~(Sent' >= CommandAt' /\ Len(out') >= 4)
    PROVE  SectorUnderWay'
<1>1. addr' = addr /\ len' = len /\ startaddr' = startaddr /\ codelen' = codelen
    OBVIOUS
<1>2. /\ addr = startaddr /\ len = codelen /\ s >= FlashBase /\ IsSector(s) /\ s \in Int
      /\ FlashBase \in Int /\ SectorBytes \in Nat
    BY FlashIs DEF SectorsInv, SectorUnderWay, FlashTypes
<1>3. s' >= FlashBase /\ IsSector(s')
    <2>1. CASE s' = s
        BY <1>2, <2>1
    <2>2. CASE s' = s + SectorBytes
        BY <1>2, <2>2, SectorSum, FlashIs
    <2> QED BY <2>1, <2>2
<1>4. IsSector(s)'
    BY <1>3 DEF IsSector
<1>5. UnderWay' => s' < SectorOf(addr + len + SectorBytes - 1)'
    <2>1. SectorOf(addr + len + SectorBytes - 1)' = SectorOf(addr + len + SectorBytes - 1)
        BY <1>1 DEF SectorOf
    <2>2. UnderWay' => s' = s /\ UnderWay
        BY DEF UnderWay, PageByPage
    <2> QED BY <2>1, <2>2 DEF SectorsInv, SectorUnderWay
<1> QED BY <1>1, <1>2, <1>3, <1>4, <1>5 DEF SectorUnderWay

\* To the next sector; to a place where nothing is sent; to one where it is.
LEMMA SectorsNext ==
    ASSUME FlashTypes, SectorsInv, SectorsAsBuilt, BySector \/ PageByPage,
           addr' = addr, len' = len, startaddr' = startaddr, codelen' = codelen,
           pc' = "sector", s' = s + SectorBytes
    PROVE  SectorUnderWay'
<1>1. ~PageByPage' /\ ~Acting' /\ pc' # "erasing"
    BY DEF PageByPage, Acting
<1>2. UNCHANGED <<addr, len, startaddr, codelen>>
    OBVIOUS
<1> QED BY <1>1, <1>2, SectorsMove

LEMMA SectorsThere ==
    ASSUME FlashTypes, SectorsInv, SectorsAsBuilt, UnderWay,
           addr' = addr, len' = len, startaddr' = startaddr, codelen' = codelen,
           pc' \in {"verifyErase", "page", "verifyPage"}, s' = s, PageByPage' => s' <= p'
    PROVE  SectorUnderWay'
<1>1. ~Acting' /\ pc' # "erasing"
    BY DEF Acting
<1>2. UNCHANGED <<addr, len, startaddr, codelen>>
    OBVIOUS
<1>3. BySector \/ PageByPage
    BY DEF UnderWay, BySector
<1>4. pc' \in {"sector", "erasing", "verifyErase", "page", "writing", "verifyPage"}
    OBVIOUS
<1>5. (s' = s /\ UnderWay) \/ (s' = s + SectorBytes /\ pc' = "sector")
    OBVIOUS
<1> QED BY <1>1, <1>2, <1>3, <1>4, <1>5, SectorsMove, Zenon

LEMMA SectorsSends ==
    ASSUME FlashTypes, SectorsInv, SectorsAsBuilt, UnderWay,
           addr' = addr, len' = len, startaddr' = startaddr, codelen' = codelen,
           pc' \in {"erasing", "writing"}, s' = s, PageByPage' => s' <= p',
           pc' = "erasing" /\ Quiet' /\ WholeWords' /\ Len(out') >= 4 => Stale',
           ~(Sent' >= CommandAt' /\ Len(out') >= 4)
    PROVE  SectorUnderWay'
<1>1. UNCHANGED <<addr, len, startaddr, codelen>>
    OBVIOUS
<1>2. BySector \/ PageByPage
    BY DEF UnderWay, BySector
<1>3. pc' \in {"sector", "erasing", "verifyErase", "page", "writing", "verifyPage"}
    OBVIOUS
<1>4. (s' = s /\ UnderWay) \/ (s' = s + SectorBytes /\ pc' = "sector")
    OBVIOUS
<1> QED BY <1>1, <1>2, <1>3, <1>4, SectorsMove, Zenon

\* A step that starts a command has sent nothing of it.
LEMMA NothingSent ==
    ASSUME FlashTypes, s' = s, out' = Script',
           pc' \in {"erasing", "writing"}, pc' = "writing" => PageAsserted /\ UNCHANGED drvrVars
    PROVE  ~(Sent' >= CommandAt' /\ Len(out') >= 4)
<1>1. Len(out') \in Nat
    <2>1. CASE pc' = "erasing"
        <3>1. out' = Bytes("erasing")
            BY <2>1 DEF Script, Bytes, EraseCommand
        <3>2. Len(Bytes("erasing")) \in Nat
            BY ScriptIs
        <3> QED BY <3>1, <3>2
    <2>2. CASE pc' = "writing"
        <3>1. Script' = Bytes("writing")
            <4>1. \A w : Bytes(w)' = Bytes(w)
                BY <2>2, ScriptStays
            <4> QED BY <2>2, <4>1 DEF Script
        <3>2. PageLength \in Nat \ {0}
            BY <2>2, PageLengthIs DEF FlashTypes
        <3>3. Len(Bytes("writing")) \in Nat
            BY <3>2, ScriptIs
        <3> QED BY <3>1, <3>3
    <2> QED BY <2>1, <2>2
<1>2. Sent' = 0
    BY <1>1 DEF Sent
<1>3. CommandAt' \in 4 .. 5
    BY DEF CommandAt, CommandOf
<1> QED BY <1>2, <1>3

LEMMA SectorsDriver ==
    ASSUME LoaderInv, PagesInv, SectorsInv, SectorsAsBuilt, BySector \/ PageByPage, Driver
    PROVE  SectorUnderWay'
<1>0. /\ SectorBytes \in Nat \ {0} /\ WordBytes \in Nat \ {0} /\ s \in Int /\ at \in Int /\ addr \in Int
      /\ len \in Int /\ newv \in Int /\ p \in Int /\ FlashBase \in Int /\ FlashTypes
    BY FlashIs DEF LoaderInv, FlashTypes
<1>1. /\ addr = startaddr /\ len = codelen /\ s >= FlashBase /\ IsSector(s) /\ addr = FlashBase
    BY DEF SectorsInv, SectorUnderWay, PagesInv
<1>2. /\ runs' = runs /\ user' = user /\ found' = found /\ startaddr' = startaddr /\ codelen' = codelen
      /\ chip'.m_mem = chip.m_mem
    BY <1>0, DriverMemory DEF Driver, countVars, loaderVars, MemoryIs
<1>3. CASE NextSector("start")
    <2>1. /\ pc = "sector" /\ pc' \in {"compare", "start"} /\ at' = SectorBase
          /\ need_erase' = FALSE /\ addr' = addr /\ len' = len /\ s' = s /\ p' = p
          /\ pc' = "compare" => s < SectorOf(addr + len + SectorBytes - 1)
        BY <1>3 DEF NextSector, Goto
    <2>2. CASE pc' = "start"
        BY <2>2, SectorsEnd
    <2>3. CASE pc' = "compare"
        <3>1. SectorBase = s
            BY <1>0, <1>1 DEF SectorBase, Larger
        <3>2. at' = s' + 0 * WordBytes /\ 0 \in Nat
            BY <1>0, <2>1, <3>1
        <3>3. s' < SectorOf(addr + len + SectorBytes - 1)'
            BY <2>1, <2>3 DEF SectorOf
        <3>4. IsSector(s)'
            BY <1>1, <2>1 DEF IsSector
        <3> QED BY <1>1, <1>2, <2>1, <2>3, <3>2, <3>3, <3>4
            DEF SectorUnderWay, BySector, PageByPage, Acting
    <2> QED BY <2>1, <2>2, <2>3
<1>4. CASE Compare
    <2>1. /\ pc = "compare" /\ pc' = "compare" /\ at < SectorEnd /\ at' = at + WordBytes /\ out = <<>>
          /\ addr' = addr /\ len' = len /\ s' = s /\ data' = data
          /\ \E word \in Read(at) : need_erase' = (need_erase \/ NeedsErase(word, at))
        BY <1>4 DEF Compare, Goto
    <2>2. WholeWords' => WholeWords
        BY <2>1 DEF WholeWords, SectorEnd, SectorBase
    <2>3. chip'.kind = chip.kind
        <3>1. PICK a : a = at
            OBVIOUS
        <3>2. chip' = ChipAfterRead(a)
            BY <1>4, <3>1 DEF Compare
        <3> QED BY <1>0, <3>2, ReadKeeps DEF FlashTypes
    <2>4. Quiet' => Quiet
        BY <1>2, <2>3 DEF Quiet
    <2>5. need_erase' /\ Quiet' /\ WholeWords' => Stale'
        <3> SUFFICES ASSUME need_erase', Quiet', WholeWords' PROVE Stale'
            OBVIOUS
        <3>1. PICK word \in Read(at) : need_erase' = (need_erase \/ NeedsErase(word, at))
            BY <2>1
        <3>2. CASE need_erase
            <4>1. Stale
                BY <2>1, <2>2, <2>4, <3>2 DEF SectorsInv, SectorUnderWay
            <4> QED BY <1>2, <2>1, <4>1, StaleStays
        <3>3. CASE NeedsErase(word, at)
            <4>1. Stale
                BY <2>1, <2>2, <2>4, <3>3, CompareFinds
            <4> QED BY <1>2, <2>1, <4>1, StaleStays
        <3> QED BY <3>1, <3>2, <3>3
    <2>6. WholeWords' => \E k \in Nat : at' = s' + k * WordBytes
        <3> SUFFICES ASSUME WholeWords' PROVE \E k \in Nat : at' = s' + k * WordBytes
            OBVIOUS
        <3>1. PICK k \in Nat : at = s + k * WordBytes
            BY <2>1, <2>2 DEF SectorsInv, SectorUnderWay
        <3>2. (k + 1) * WordBytes = k * WordBytes + WordBytes /\ k * WordBytes \in Nat /\ k + 1 \in Nat
            BY <1>0
        <3> DEFINE x == k * WordBytes
        <3>3. at' = (s + x) + WordBytes /\ x \in Nat
            BY <2>1, <3>1, <3>2
        <3> HIDE DEF x
        <3>4. at' = s + (x + WordBytes)
            BY <1>0, <3>3
        <3>5. at' = s' + (k + 1) * WordBytes
            BY <2>1, <3>2, <3>4 DEF x
        <3> QED BY <3>2, <3>5
    <2>7. s' < SectorOf(addr + len + SectorBytes - 1)' /\ IsSector(s)'
        <3>1. SectorOf(addr + len + SectorBytes - 1)' = SectorOf(addr + len + SectorBytes - 1)
            BY <2>1 DEF SectorOf
        <3> QED BY <1>1, <2>1, <3>1 DEF SectorsInv, SectorUnderWay, UnderWay, IsSector
    <2> QED BY <1>1, <1>2, <2>1, <2>5, <2>6, <2>7 DEF SectorUnderWay, BySector, PageByPage, Acting
<1>5. CASE Compared2
    <2>1. /\ pc = "compare" /\ p' = newv /\ UNCHANGED <<addr, len, data>> /\ chip' = chip
          /\ \/ pc' = "sector" /\ s' = s + SectorBytes
             \/ newv # 0 /\ pc' = "page" /\ s' = s
             \/ pc' = "erasing" /\ s' = s /\ need_erase /\ out' = EraseCommand(s) \o FlWait
        BY <1>5 DEF Compared2, Goto, Sends, flashVars
    <2>2. CASE pc' = "sector"
        BY <1>0, <1>2, <2>1, <2>2, SectorsNext
    <2>3. CASE newv # 0 /\ pc' = "page" /\ s' = s
        <3>1. s' <= p'
            BY <2>1, <2>3 DEF PagesInv
        <3> QED BY <1>0, <1>2, <2>1, <2>3, <3>1, SectorsThere DEF UnderWay
    <2>4. CASE pc' = "erasing" /\ s' = s /\ need_erase /\ out' = EraseCommand(s) \o FlWait
        <3>1. out' = Script'
            BY <2>4 DEF Script, Bytes, EraseCommand, FlWait
        <3>2. ~(Sent' >= CommandAt' /\ Len(out') >= 4)
            BY <1>0, <2>4, <3>1, NothingSent
        <3>3. Quiet' /\ WholeWords' => Stale'
            <4> SUFFICES ASSUME Quiet', WholeWords' PROVE Stale'
                OBVIOUS
            <4>1. Quiet /\ WholeWords
                BY <1>2, <2>1, <2>4 DEF Quiet, WholeWords, SectorEnd, SectorBase
            <4>2. Stale
                BY <2>1, <2>4, <4>1 DEF SectorsInv, SectorUnderWay
            <4> QED BY <1>2, <2>1, <2>4, <4>2, StaleStays
        <3>4. UnderWay /\ ~PageByPage'
            BY <2>1, <2>4 DEF UnderWay, PageByPage
        <3> QED BY <1>0, <1>2, <2>1, <2>4, <3>2, <3>3, <3>4, SectorsSends
    <2> QED BY <2>1, <2>2, <2>3, <2>4
<1>6. ASSUME NEW from \in {"erasing", "writing"}, NEW to \in {"verifyErase", "verifyPage"},
             WhileWip(from, to), from = "erasing" <=> to = "verifyErase"
      PROVE  SectorUnderWay'
    <2>1. /\ pc = from /\ pc' \in {from, to} /\ UNCHANGED drvrVars
          /\ out' = <<Cmd("EMPTY")>> \/ out' = <<End>>
        BY <1>6 DEF WhileWip, Goto, Sends
    <2>2. ~(Len(out') >= 4)
        <3> DEFINE e1 == End  e2 == Cmd("EMPTY")
        <3> HIDE DEF e1, e2
        <3>1. Len(<<e1>>) = 1 /\ Len(<<e2>>) = 1
            OBVIOUS
        <3>2. Len(out') = 1
            BY <2>1, <3>1 DEF e1, e2
        <3> QED BY <3>2
    <2>3. s' = s /\ p' = p /\ addr' = addr /\ len' = len
        BY <2>1 DEF drvrVars
    <2>4. UnderWay /\ (PageByPage' => PageByPage)
        BY <1>6, <2>1 DEF UnderWay, PageByPage
    <2>5. PageByPage' => s' <= p'
        BY <2>3, <2>4 DEF SectorsInv, SectorUnderWay
    <2>7. CASE pc' \in {"verifyErase", "verifyPage"}
        BY <1>0, <1>2, <2>3, <2>4, <2>5, <2>7, SectorsThere
    <2>8. CASE pc' \in {"erasing", "writing"}
        BY <1>0, <1>2, <2>2, <2>3, <2>4, <2>5, <2>8, SectorsSends
    <2> QED BY <2>1, <2>7, <2>8
<1>7. CASE VerifyErase
    <2>1. /\ pc = "verifyErase" /\ pc' \in {"page", "failed"} /\ p' = (IF s < addr THEN addr ELSE s)
          /\ UNCHANGED <<addr, len>> /\ s' = s
        BY <1>7 DEF VerifyErase, Goto
    <2>2. CASE pc' = "page"
        <3>1. s' <= p'
            BY <1>0, <2>1
        <3> QED BY <1>0, <1>2, <2>1, <2>2, <3>1, SectorsThere DEF UnderWay
    <2> QED BY <2>1, <2>2, SectorsEnd
<1>8. CASE Page
    <2>1. /\ pc = "page" /\ UNCHANGED drvrVars
          /\ \/ pc' \in {"failed", "verifyPage"}
             \/ pc' = "writing" /\ PageAsserted /\ out' = ProgramCommand \o FlWait
        BY <1>8 DEF Page, Goto, Sends
    <2>2. s' = s /\ p' = p /\ addr' = addr /\ len' = len
        BY <2>1 DEF drvrVars
    <2>3. UnderWay /\ s' <= p'
        BY <2>1, <2>2 DEF UnderWay, PageByPage, SectorsInv, SectorUnderWay
    <2>4. CASE pc' = "failed"
        BY <2>4, SectorsEnd
    <2>5. CASE pc' = "verifyPage"
        BY <1>0, <1>2, <2>2, <2>3, <2>5, SectorsThere
    <2>6. CASE pc' = "writing" /\ PageAsserted /\ out' = ProgramCommand \o FlWait
        <3>1. out' = Script'
            <4>1. out' = Bytes("writing")
                BY <2>6 DEF Bytes
            <4>2. \A w : Bytes(w)' = Bytes(w)
                BY <2>1, ScriptStays
            <4> QED BY <2>6, <4>1, <4>2 DEF Script
        <3>2. ~(Sent' >= CommandAt' /\ Len(out') >= 4)
            BY <1>0, <2>1, <2>2, <2>6, <3>1, NothingSent
        <3> QED BY <1>0, <1>2, <2>2, <2>3, <2>6, <3>2, SectorsSends
    <2> QED BY <2>1, <2>4, <2>5, <2>6
<1>9. CASE VerifyPage
    <2>1. /\ pc = "verifyPage" /\ pc' \in {"page", "failed"} /\ p' = PageOf(p + PageBytes)
          /\ UNCHANGED <<addr, len>> /\ s' = s
        BY <1>9 DEF VerifyPage, Goto
    <2>2. CASE pc' = "page"
        <3>1. s <= p
            BY <2>1 DEF SectorsInv, SectorUnderWay, PageByPage
        <3>2. PageOf(p) \in Int /\ p < PageOf(p) + PageBytes /\ p' = PageOf(p) + PageBytes
            BY <1>0, <2>1, PageOfIs, NextPageIs
        <3>3. PageBytes \in Nat
            BY FlashIs
        <3>4. s' <= p'
            <4> DEFINE this == PageOf(p)
            <4>1. this \in Int /\ p < this + PageBytes /\ p' = this + PageBytes
                BY <3>2
            <4> HIDE DEF this
            <4> QED BY <1>0, <2>1, <3>1, <3>3, <4>1
        <3> QED BY <1>0, <1>2, <2>1, <2>2, <3>4, SectorsThere DEF UnderWay, PageByPage
    <2> QED BY <2>1, <2>2, SectorsEnd
<1>10. CASE PagesDone
    <2>1. pc' = "sector" /\ s' = s + SectorBytes /\ UNCHANGED <<addr, len>>
        BY <1>10 DEF PagesDone, Goto
    <2> QED BY <1>0, <1>2, <2>1, SectorsNext
<1> QED BY <1>3, <1>4, <1>5, <1>6, <1>7, <1>8, <1>9, <1>10 DEF Driver, Write

LEMMA SectorsStep ==
    ASSUME SectorsAsBuilt
    PROVE  LoaderInv /\ LoaderInv' /\ PagesInv /\ SectorsInv /\ [Next]_vars => SectorsInv'
<1> SUFFICES ASSUME LoaderInv, LoaderInv', PagesInv, SectorsInv, [Next]_vars PROVE SectorsInv'
    OBVIOUS
<1>1. FlashTypes /\ FlashTypes' /\ MemTyped /\ DataBeyond /\ SectorUnderWay
    BY DEF LoaderInv, SectorsInv
<1>2. MemTyped' /\ DataBeyond'
    BY <1>1, MemoryStep, DataStep
<1>3. SectorUnderWay'
    <2>1. CASE UNCHANGED vars
        BY <2>1, SectorsStay DEF vars, flashVars, loaderVars, countVars
    <2>2. CASE Start
        <3>1. pc' = "check"
            BY <2>2 DEF Start
        <3> QED BY <3>1, SectorsEnd
    <2>3. CASE UserSession \/ DumpFlash
        <3>1. pc' = pc /\ ~Busy
            BY <2>3 DEF UserSession, DumpFlash
        <3> QED BY <3>1, SectorsEnd DEF Busy
    <2>4. CASE CheckSections \/ LoadBkram \/ ToFlash \/ StartCpu \/ Kill
        <3>1. pc' \in {"section", "failed", "done", "killed"}
            BY <2>4 DEF CheckSections, LoadBkram, ToFlash, StartCpu, Kill, Goto
        <3> QED BY <3>1, SectorsEnd
    <2>5. CASE WriteFlash
        BY <1>1, <2>5, SectorsWriteFlash
    <2>6. CASE Driver
        <3>1. BySector \/ PageByPage
            BY <2>6 DEF Driver, Write, NextSector, Compare, Compared2, WhileWip, VerifyErase, Page,
                VerifyPage, PagesDone, Goto, BySector, PageByPage
        <3> QED BY <2>6, <3>1, SectorsDriver
    <2>7. CASE SendByte
        BY <1>1, <2>7, SectorsSend
    <2>8. CASE ChipDone
        <3>1. /\ chip' = WriteDone(chip) /\ UNCHANGED drvrVars
              /\ pc' = pc /\ out' = out /\ found' = found /\ runs' = runs /\ user' = user
              /\ startaddr' = startaddr /\ codelen' = codelen
            BY <2>8 DEF ChipDone, countVars, loaderVars
        <3>2. IsChip(chip)
            BY <1>1 DEF FlashTypes
        <3>3. /\ chip'.kind = chip.kind /\ chip'.m_mem = chip.m_mem /\ chip'.m_pmem = chip.m_pmem
              /\ chip'.m_state = chip.m_state /\ chip'.m_count = chip.m_count
              /\ chip'.m_addr = chip.m_addr
            BY <3>1, <3>2, WriteDoneIs, DoneMemory
        <3> QED BY <3>1, <3>3, SectorsStay
    <2> QED BY <2>1, <2>2, <2>3, <2>4, <2>5, <2>6, <2>7, <2>8 DEF Next, Loader
<1> QED BY <1>2, <1>3 DEF SectorsInv

-----------------------------------------------------------------------------
(* What is changed.                                                           *)

\* The sector that is worked on is one of those that are written.
LEMMA SectorInside ==
    ASSUME FlashTypes, PagesInv, SectorsInv, SectorsAsBuilt, UnderWay,
           NEW a \in Int, s <= a, a < s + SectorBytes
    PROVE  /\ s \in FlashAddrs /\ SectorOf(a) = s /\ a \in Written
<1> DEFINE base == FlashBase  m == SectorBytes  last == addr + len + m - 1  e == SectorOf(last)
<1>1. /\ base \in Int /\ MemBytes \in Nat \ {0} /\ m \in Nat \ {0}
    BY FlashIs
<1>2. BySector \/ PageByPage
    BY DEF UnderWay, BySector
<1>3. /\ addr = base /\ len \in Int /\ len <= MemBytes /\ s \in Int /\ s >= base /\ IsSector(s)
      /\ addr = startaddr /\ len = codelen /\ s < e
    BY <1>2 DEF FlashTypes, PagesInv, SectorsInv, SectorUnderWay
<1>4. last \in Int
    BY <1>1, <1>3
<1>5. e \in Int /\ e <= last /\ IsSector(e)
    <2> HIDE DEF last
    <2> QED BY <1>4, SectorOfIs
<1>6. s + m <= e
    <2> HIDE DEF e
    <2> QED BY <1>3, <1>5, SectorsApart
<1>7. s < base + MemBytes
    <2>1. e <= base + len + m - 1
        BY <1>3, <1>5
    <2> HIDE DEF e
    <2> QED BY <1>1, <1>3, <1>5, <1>6, <2>1
<1>8. SectorOf(a) = s
    BY <1>3, SameSector
<1>9. a \in base .. e - 1
    <2> HIDE DEF e
    <2> QED BY <1>1, <1>3, <1>5, <1>6
<1>10. Written = base .. e - 1
    BY <1>3 DEF Written
<1>11. s \in FlashAddrs
    <2>1. s \in Int /\ s >= base
        BY <1>3
    <2> QED BY <1>1, <1>7, <2>1 DEF FlashAddrs
<1>12. a \in Written
    <2> HIDE DEF e
    <2> QED BY <1>9, <1>10
<1> QED BY <1>8, <1>11, <1>12

\* An erase is of the sector that was compared.
LEMMA EraseChanges ==
    ASSUME FlashTypes, PagesInv, SectorsInv, SectorsAsBuilt, pc = "erasing",
           chip.kind = "chip", chip.m_state = "SECTOR_ERASE", chip.m_addr = s,
           chip' \in Deselect(chip), NEW a \in FlashAddrs,
           chip'.m_mem[a - FlashBase] # chip.m_mem[a - FlashBase]
    PROVE  a \in Int /\ s <= a /\ a < s + SectorBytes
<1> DEFINE base == FlashBase  m == a - base  t == s - base
<1>1. /\ base \in Int /\ MemBytes \in Nat \ {0} /\ SectorBytes \in Nat \ {0} /\ IsSector(base)
      /\ a \in Int /\ m \in 0 .. MemBytes - 1
    BY FlashIs DEF FlashAddrs
<1>2. s \in Int /\ IsSector(s) /\ UnderWay
    BY DEF FlashTypes, SectorsInv, SectorUnderWay, BySector, UnderWay
<1>3. s \in FlashAddrs
    <2>1. s <= s /\ s < s + SectorBytes
        BY <1>1, <1>2
    <2> QED BY <1>2, <2>1, SectorInside
<1>4. EraseAddr(chip) = t
    <2>1. s % MemBytes = s - FlashBase
        BY <1>3, FlashIs
    <2> QED BY <2>1 DEF EraseAddr
<1>5. t \in Int /\ IsSector(t) /\ SectorOf(t) = t
    <2>1. base \in Int /\ s \in Int /\ IsSector(base) /\ IsSector(s) /\ SectorBytes \in Nat \ {0}
        BY <1>1, <1>2
    <2>2. IsSector(t)
        <3> HIDE DEF base
        <3> QED BY <2>1, SectorSum
    <2>3. t \in Int
        <3> HIDE DEF base
        <3> QED BY <2>1
    <2> HIDE DEF t
    <2>4. t <= t /\ t < t + SectorBytes
        BY <2>1, <2>3
    <2> QED BY <2>2, <2>3, <2>4, SameSector
<1>6. IsChip(chip) /\ DOMAIN chip.m_mem = 0 .. MemBytes - 1
    BY DEF FlashTypes, SectorsInv, MemTyped
<1>7. chip'.m_mem = Erased(chip, SectorAt(chip))
    <2>1. chip'.m_mem # chip.m_mem
        OBVIOUS
    <2>2. PICK d : d = chip'
        OBVIOUS
    <2>3. d.m_mem = chip.m_mem \/ d.m_mem = Erased(chip, SectorAt(chip))
        BY <1>6, <2>2, DeselectMemory
    <2> QED BY <2>1, <2>2, <2>3
<1>8. m \in SectorAt(chip)
    <2> HIDE DEF m
    <2> QED BY <1>1, <1>6, <1>7 DEF Erased, m
<1>9. SectorOf(m) = t
    BY <1>4, <1>5, <1>8 DEF SectorAt
<1>10. SectorOf(m) <= m /\ m < SectorOf(m) + SectorBytes
    <2>1. m \in Int
        BY <1>1
    <2> HIDE DEF m
    <2> QED BY <2>1, SectorOfIs
<1>11. t <= m /\ m < t + SectorBytes
    BY <1>9, <1>10
<1> QED BY <1>1, <1>2, <1>11

\* A program is of bytes of the page that are not as they will be.
LEMMA ProgramChanges ==
    ASSUME FlashTypes, PagesInv, SectorsInv, SectorsAsBuilt, pc = "writing",
           chip.m_state = "PP", PageOf(chip.m_addr) = PageOf(p) - FlashBase, Buffered(PageLength),
           chip' \in Deselect(chip), NEW a \in FlashAddrs,
           chip'.m_mem[a - FlashBase] # chip.m_mem[a - FlashBase]
    PROVE  /\ a \in Int /\ s <= a /\ p <= a /\ a < s + SectorBytes
           /\ a < addr + len /\ chip.m_mem[a - FlashBase] # data[a]
<1> DEFINE base == FlashBase  w == PageBytes  m == a - base  this == PageOf(p)  i == m % w
           dom == 0 .. MemBytes - 1
<1>1. /\ base \in Int /\ MemBytes \in Nat \ {0} /\ w \in Nat \ {0} /\ SectorBytes \in Nat \ {0}
      /\ a \in Int /\ m \in dom
    BY FlashIs DEF FlashAddrs
<1>2. /\ p \in Int /\ this \in Int /\ PageLength \in Nat \ {0} /\ this <= p /\ p < this + w
      /\ s <= this /\ this + w <= s + SectorBytes /\ s \in Int
    BY PageInside DEF SectorsInv
<1>3. IsChip(chip) /\ chip.m_mem \in [dom -> Byte] /\ DOMAIN chip.m_pmem = 0 .. w - 1
    BY DEF FlashTypes, SectorsInv, MemTyped
<1>4. chip'.m_mem = Programmed(chip)
    <2>1. chip'.m_mem # chip.m_mem
        OBVIOUS
    <2>2. PICK d : d = chip'
        OBVIOUS
    <2>3. d.m_mem = chip.m_mem \/ d.m_mem = Programmed(chip)
        BY <1>3, <2>2, DeselectMemory
    <2> QED BY <2>1, <2>2, <2>3
<1>5. PageOf(m) = this - base /\ chip.m_mem[m] \cap chip.m_pmem[i] # chip.m_mem[m]
    <2>1. Programmed(chip)[m] = IF PageOf(m) = PageOf(chip.m_addr)
                                THEN chip.m_mem[m] \cap chip.m_pmem[i] ELSE chip.m_mem[m]
        <3> HIDE DEF m
        <3>1. m \in DOMAIN chip.m_mem
            BY <1>1, <1>3
        <3> QED BY <3>1 DEF Programmed, i
    <2>2. Programmed(chip)[m] # chip.m_mem[m]
        BY <1>4
    <2> QED BY <2>1, <2>2
<1>6. PageOf(a) = this /\ i = a - this /\ i \in 0 .. w - 1
    <2>1. PageOf(a - FlashBase) = PageOf(a) - FlashBase
        BY <1>1, PageShift
    <2>2. PageOf(a) \in Int
        BY <1>1, PageOfIs
    <2>3. m \in Int
        BY <1>1
    <2>4. i \in 0 .. w - 1 /\ PageOf(m) = m - i
        <3> HIDE DEF m
        <3> QED BY <1>1, <2>3 DEF PageOf
    <2> DEFINE q == PageOf(a)
    <2>5. q \in Int /\ q - base = this - base /\ m - i = this - base /\ m = a - base
        BY <1>5, <2>1, <2>2, <2>4
    <2> HIDE DEF q, i, m, this, base
    <2>6. q = this /\ i = a - this
        BY <1>1, <1>2, <2>3, <2>4, <2>5
    <2> QED BY <2>4, <2>6 DEF q
<1>7. this <= a /\ a < this + w
    <2> HIDE DEF i, this, w
    <2> QED BY <1>1, <1>2, <1>6
<1>8. chip.m_pmem[i] # Ones
    <2>1. chip.m_mem[m] \in Byte
        BY <1>1, <1>3
    <2> QED BY <1>5, <2>1 DEF Byte, Ones
<1>9. PICK k \in 0 .. PageLength - 1 : i = p + k - PageOf(p) /\ chip.m_pmem[i] = data[p + k]
    BY <1>6, <1>8 DEF Buffered
<1>10. p + k = a
    <2>1. k \in Int /\ i = p + k - this
        BY <1>2, <1>9
    <2> HIDE DEF i, this
    <2> QED BY <1>1, <1>2, <1>6, <2>1
<1>11. chip.m_pmem[i] = data[a]
    BY <1>9, <1>10
<1>12. chip.m_mem[m] # data[a] /\ data[a] # Ones
    BY <1>5, <1>8, <1>11
<1>13. a < addr + len
    <2>1. startaddr = addr /\ codelen = len /\ addr \in Int /\ len \in Int
        BY DEF SectorsInv, SectorUnderWay, PageByPage, FlashTypes
    <2>2. ~(a >= startaddr + codelen)
        BY <1>12 DEF SectorsInv, DataBeyond, PageByPage
    <2> QED BY <1>1, <2>1, <2>2
<1>14. s <= a /\ a < s + SectorBytes
    <2> HIDE DEF this, w
    <2> QED BY <1>1, <1>2, <1>7
<1>15. p <= a
    <2>1. k \in Nat /\ p \in Int
        BY <1>2
    <2> QED BY <1>1, <1>10, <2>1
<1> QED BY <1>1, <1>12, <1>13, <1>14, <1>15

LEMMA SendsOnlyIts ==
    ASSUME LoaderInv, PagesInv, SectorsInv, SectorsAsBuilt, SendByte, Busy, found, chip.kind = "chip",
           NEW a \in FlashAddrs, chip'.m_mem[a - FlashBase] # chip.m_mem[a - FlashBase]
    PROVE  a \in Written /\ (Quiet /\ WholeWords => ~HasIts(a))
<1>1. FlashTypes /\ IsChip(chip) /\ DataBeyond /\ SectorUnderWay
    BY DEF LoaderInv, FlashTypes, SectorsInv
<1>2. chip'.m_mem # chip.m_mem
    OBVIOUS
<1>3. /\ Acting /\ Len(out) = 4 /\ Sent \in Nat /\ Sent + 4 = Len(Script)
      /\ Sent >= CommandAt /\ chip.m_state = Operation /\ chip' \in Deselect(chip)
    BY <1>2, SendMemory
<1>4. Told
    BY <1>1, <1>3 DEF SectorUnderWay
<1>5. CASE pc = "erasing"
    <2>1. Sent - CommandAt - 1 = 0
        <3>1. Len(Bytes("erasing")) = 9
            BY ScriptIs
        <3>2. Len(Script) = 9 /\ CommandAt = 4
            BY <1>5, <3>1 DEF Script, CommandAt, CommandOf
        <3> QED BY <1>3, <3>2
    <2>2. chip.m_addr = s /\ chip.m_state = "SECTOR_ERASE"
        BY <1>3, <1>4, <1>5, <2>1 DEF Told, Operation
    <2>3. a \in Int /\ s <= a /\ a < s + SectorBytes
        BY <1>1, <1>3, <1>5, <2>2, EraseChanges
    <2>4. SectorOf(a) = s /\ a \in Written
        BY <1>1, <1>5, <2>3, SectorInside DEF UnderWay
    <2>5. Quiet /\ WholeWords => Stale
        BY <1>1, <1>3, <1>5 DEF SectorUnderWay
    <2>6. Stale => ~HasIts(a)
        BY <2>4 DEF Stale, HasIts
    <2> QED BY <2>4, <2>5, <2>6
<1>6. CASE pc = "writing"
    <2>1. PageLength \in Nat \ {0}
        BY <1>1, <1>6, PageInside
    <2>2. Sent - CommandAt - 1 = PageLength
        <3>1. Len(Bytes("writing")) = PageLength + 10
            BY <2>1, ScriptIs
        <3>2. Len(Script) = PageLength + 10 /\ CommandAt = 5
            BY <1>6, <3>1 DEF Script, CommandAt, CommandOf
        <3> QED BY <1>3, <2>1, <3>2
    <2>3. /\ PageOf(chip.m_addr) = PageOf(p) - FlashBase /\ Buffered(PageLength)
          /\ chip.m_state = "PP"
        BY <1>3, <1>4, <1>6, <2>1, <2>2 DEF Told, Operation
    <2>4. /\ a \in Int /\ s <= a /\ a < s + SectorBytes
          /\ a < addr + len /\ chip.m_mem[a - FlashBase] # data[a]
        BY <1>1, <1>3, <1>6, <2>3, ProgramChanges
    <2>5. SectorOf(a) = s /\ a \in Written
        BY <1>1, <1>6, <2>4, SectorInside DEF UnderWay, PageByPage
    <2>6. ~HasIts(a)
        BY <2>4 DEF HasIts
    <2> QED BY <2>5, <2>6
<1> QED BY <1>3, <1>5, <1>6 DEF Acting

\* A loader changes no sector of the flash that its program does not reach, nor,
\* if it was read in whole words, one that has its program already
\* (flashdrvr.cpp:194-228), whatever the flash held at first, and wherever the
\* program, its pages and its sectors end - where the stack held no length that
\* ends in the flash (StaleHarmless).
THEOREM OnlySectorsChanged ==
    ASSUME SectorsAsBuilt PROVE Spec /\ []StaleHarmless => OnlyItsSectors
<1> DEFINE Step ==
        \A a \in FlashAddrs :
          Changes(a) =>
            /\ chip.kind = "chip" /\ found => a \in Written
            /\ Quiet /\ WholeWords => ~HasIts(a)
           Inv == LoaderInv /\ PagesInv /\ SectorsInv
<1>1. Init => PagesInv /\ SectorsInv
    BY PagesInit, SectorsInit
<1>2. LoaderInv /\ LoaderInv' /\ PagesInv /\ SectorsInv /\ StaleHarmless /\ [Next]_vars
        => PagesInv' /\ SectorsInv'
    <2>1. PagesAsBuilt
        BY DEF SectorsAsBuilt
    <2> QED BY <2>1, PagesStep, SectorsStep DEF LoaderInv
<1>3. Inv /\ [Next]_vars => [Step]_vars
    <2> SUFFICES ASSUME Inv, Next, NEW a \in FlashAddrs, Changes(a)
                 PROVE  /\ chip.kind = "chip" /\ found => a \in Written
                        /\ Quiet /\ WholeWords => ~HasIts(a)
        OBVIOUS
    <2>1. chip'.m_mem[a - FlashBase] # chip.m_mem[a - FlashBase] /\ Busy
        BY DEF Changes
    <2>2. SendByte
        BY <2>1, OnlySendsChange DEF LoaderInv, MemoryIs
    <2>3. Quiet => chip.kind = "chip" /\ found
        BY <2>1 DEF LoaderInv, FirstLoader, Quiet
    <2>4. chip.kind = "chip" /\ found => a \in Written /\ (Quiet /\ WholeWords => ~HasIts(a))
        BY <2>1, <2>2, SendsOnlyIts
    <2> QED BY <2>3, <2>4
<1>4. Spec => []LoaderInv
    BY SpecKeepsLoaderInv
<1>5. OnlyItsSectors <=> [][Step]_vars
    BY DEF OnlyItsSectors
<1> HIDE DEF Step
<1> QED BY <1>1, <1>2, <1>3, <1>4, <1>5, PTL DEF Spec, Inv
-----------------------------------------------------------------------------
(* The program is loaded.                                                    *)

\* The linker's programs: no two of their headers overlap, nor does one begin in
\* block RAM in the last word of another, and only the last ones are empty, as
\* the list of sections ends with the first that is (zipelf.cpp).  Pages are
\* whole words.  The flash does not begin at zero, where the simulator would
\* erase it, nor share addresses with block RAM.  Users write nothing to it.
InWords(n) == WordBytes * ((n + WordBytes - 1) \div WordBytes)
Apart(g, h) ==
    LET n == IF g.p_paddr \in FlashAddrs THEN g.p_filesz ELSE InWords(g.p_filesz)
    IN  h.p_paddr >= g.p_paddr + n \/ h.p_paddr + h.p_filesz <= g.p_paddr
Linked(phdr) ==
    \A i, j \in DOMAIN phdr :
      /\ i < j /\ phdr[i].p_filesz = 0 => phdr[j].p_filesz = 0
      /\ i # j /\ phdr[i].p_filesz > 0 /\ phdr[j].p_filesz > 0 => Apart(phdr[i], phdr[j])
LoadsAsBuilt ==
    /\ SectorsAsBuilt
    /\ FlashBase > 0 /\ \E q \in Int : PageBytes = q * WordBytes
    /\ BkramBase \in Int /\ BkramBytes \in Nat
    /\ BkramBase + BkramBytes <= FlashBase \/ FlashBase + MemBytes <= BkramBase
    /\ UserCommands \subseteq DOMAIN OtherState
    /\ \A program \in Programs : Linked(program.phdr)

\* The flash holds the buffer's bytes that are in whole words, up to an address.
WordsEnd == startaddr + codelen - (codelen % WordBytes)
DoneTo(x) == \A a \in FlashAddrs : a < x /\ a < WordsEnd => chip.m_mem[a - FlashBase] = data[a]
OnWord(a) == \E k \in Int : a = k * WordBytes

\* A section is in the buffer, or in block RAM.
Held(a) == IF a \in FlashAddrs THEN data[a] ELSE bkram[a]
Copied(i) ==
    \A j \in 1 .. Sections[i].m_len :
      Held(Sections[i].m_start + j - 1) = Sections[i].m_data[j]
AllCopied == \A i \in DOMAIN Sections : Copied(i)

\* What users send while the loader's work is there changes nothing.
Writing == {"PP", "SECTOR_ERASE", "BULK_ERASE"}
Harmless ==
    /\ chip.m_state \notin Writing
    /\ \A i \in 1 .. Len(out) :
         \/ out[i].t = "end"
         \/ out[i].t = "cmd" /\ out[i].cmd \in DOMAIN OtherState

CopiedInv ==
    /\ DOMAIN bkram = BkramBase .. BkramBase + BkramBytes - 1
    /\ pc = "check" => sec = 1
    /\ pc = "section" => \A i \in DOMAIN Sections : i < sec => Copied(i)
    /\ BySector \/ PageByPage \/ pc \in {"start", "done"} => AllCopied
InFlashInv ==
    found =>
      /\ BySector \/ PageByPage => DoneTo(s)
      /\ pc = "compare" =>
           /\ DoneTo(IF newv = 0 THEN at ELSE newv) /\ OnWord(at)
           /\ newv # 0 => OnWord(newv)
      /\ PageByPage => DoneTo(p) /\ OnWord(p)
      /\ pc \in {"start", "done"} => DoneTo(startaddr + codelen)
      /\ pc = "done" => Harmless

-----------------------------------------------------------------------------
(* The sections.                                                              *)

\* The sections are the headers, but for the empty ones at the end.
LEMMA SectionsAre ==
    ASSUME prog \in Programs
    PROVE  \E n \in Nat :
             /\ n <= Len(prog.phdr) /\ DOMAIN Sections = 1 .. n
             /\ Len(prog.phdr) \in Nat /\ DOMAIN prog.phdr = 1 .. Len(prog.phdr)
             /\ \A i \in 1 .. n :
                  /\ Sections[i].m_start = prog.phdr[i].p_paddr
                  /\ Sections[i].m_len = prog.phdr[i].p_filesz
                  /\ Sections[i].m_data = prog.phdr[i].bytes
                  /\ prog.phdr[i].p_filesz # 0
             /\ n < Len(prog.phdr) => prog.phdr[n + 1].p_filesz = 0
             /\ \A i \in DOMAIN prog.phdr :
                  prog.phdr[i].p_paddr \in Int /\ prog.phdr[i].p_filesz \in Nat
<1> DEFINE phdr == prog.phdr
           T == {k \in DOMAIN phdr : phdr[k].p_filesz = 0} \cup {Len(phdr) + 1}
           m == Min(T)
<1>1. phdr \in Seq(Headers)
    BY ZipLoadAssumption DEF ZipLoadAssumption
<1>2. /\ T \in SUBSET Nat /\ Len(phdr) + 1 \in T /\ Len(phdr) \in Nat /\ DOMAIN phdr = 1 .. Len(phdr)
      /\ 0 \notin T
    <2> HIDE DEF phdr
    <2> QED BY <1>1
<1>3. m \in T /\ \A y \in T : m <= y
    <2> HIDE DEF T
    <2> QED BY <1>2, MinIs
<1>4. Sections = [k \in 1 .. m - 1 |->
           [m_start |-> phdr[k].p_paddr, m_len |-> phdr[k].p_filesz, m_data |-> phdr[k].bytes]]
    BY DEF Sections
<1> HIDE DEF m
<1>5. m \in Nat \ {0} /\ m <= Len(phdr) + 1
    <2> HIDE DEF T
    <2> QED BY <1>2, <1>3
<1>6. \A k \in 1 .. Len(phdr) : k < m => phdr[k].p_filesz # 0
    <2> SUFFICES ASSUME NEW k \in 1 .. Len(phdr), k < m, phdr[k].p_filesz = 0 PROVE FALSE
        OBVIOUS
    <2>1. k \in T
        BY <1>2
    <2> HIDE DEF T, phdr
    <2> QED BY <1>2, <1>3, <1>5, <2>1
<1>7. m <= Len(phdr) => phdr[m].p_filesz = 0
    <2> HIDE DEF phdr
    <2> QED BY <1>2, <1>3
<1>8. \A k \in DOMAIN phdr : phdr[k].p_paddr \in Int /\ phdr[k].p_filesz \in Nat
    <2> TAKE k \in DOMAIN phdr
    <2>1. phdr[k] \in Headers
        <3> HIDE DEF phdr
        <3> QED BY <1>1, <1>2
    <2> QED BY <2>1 DEF Headers
<1> DEFINE n == m - 1
<1>9. n \in Nat /\ n <= Len(phdr) /\ n + 1 = m
    <2> HIDE DEF phdr
    <2> QED BY <1>2, <1>5
<1>10. DOMAIN Sections = 1 .. n
    <2> HIDE DEF phdr
    <2> QED BY <1>4
<1>11. ASSUME NEW i \in 1 .. n
       PROVE  /\ Sections[i].m_start = phdr[i].p_paddr
              /\ Sections[i].m_len = phdr[i].p_filesz
              /\ Sections[i].m_data = phdr[i].bytes
              /\ phdr[i].p_filesz # 0
    <2> HIDE DEF phdr
    <2>1. i \in 1 .. Len(phdr) /\ i < m
        BY <1>2, <1>5
    <2> QED BY <1>4, <1>6, <2>1
<1>12. n < Len(phdr) => phdr[n + 1].p_filesz = 0
    <2> HIDE DEF n, phdr
    <2> QED BY <1>2, <1>7, <1>9
<1> HIDE DEF n
<1> QED BY <1>2, <1>8, <1>9, <1>10, <1>11, <1>12

\* Two sections lie apart.
LEMMA SectionsApart ==
    ASSUME FlashTypes, LoadsAsBuilt, NEW i \in DOMAIN Sections, NEW j \in DOMAIN Sections, i # j
    PROVE  LET g == Sections[i]  h == Sections[j]
               n == IF g.m_start \in FlashAddrs THEN g.m_len ELSE InWords(g.m_len) IN
           /\ g.m_start \in Int /\ g.m_len \in Nat \ {0} /\ h.m_start \in Int /\ h.m_len \in Nat \ {0}
           /\ h.m_start >= g.m_start + n \/ h.m_start + h.m_len <= g.m_start
<1> DEFINE phdr == prog.phdr
<1>1. prog \in Programs /\ Linked(phdr)
    BY DEF FlashTypes, LoadsAsBuilt
<1>2. PICK n \in Nat :
             /\ n <= Len(phdr) /\ DOMAIN Sections = 1 .. n
             /\ Len(phdr) \in Nat /\ DOMAIN phdr = 1 .. Len(phdr)
             /\ \A k \in 1 .. n :
                  /\ Sections[k].m_start = phdr[k].p_paddr
                  /\ Sections[k].m_len = phdr[k].p_filesz
                  /\ Sections[k].m_data = phdr[k].bytes
                  /\ phdr[k].p_filesz # 0
             /\ \A k \in DOMAIN phdr : phdr[k].p_paddr \in Int /\ phdr[k].p_filesz \in Nat
    BY <1>1, SectionsAre
<1> HIDE DEF phdr
<1>3. i \in DOMAIN phdr /\ j \in DOMAIN phdr /\ i \in 1 .. n /\ j \in 1 .. n
    BY <1>2
<1>4. /\ phdr[i].p_paddr \in Int /\ phdr[i].p_filesz \in Nat \ {0}
      /\ phdr[j].p_paddr \in Int /\ phdr[j].p_filesz \in Nat \ {0}
    BY <1>2, <1>3
<1>5. Apart(phdr[i], phdr[j])
    BY <1>1, <1>3, <1>4 DEF Linked
<1>6. /\ Sections[i].m_start = phdr[i].p_paddr /\ Sections[i].m_len = phdr[i].p_filesz
      /\ Sections[j].m_start = phdr[j].p_paddr /\ Sections[j].m_len = phdr[j].p_filesz
    BY <1>2, <1>3
<1> QED BY <1>4, <1>5, <1>6 DEF Apart

\* A section that is in block RAM is not in the flash, and as long in words.
LEMMA RamApart ==
    ASSUME LoadsAsBuilt, NEW sc, sc.m_start \in Int, sc.m_len \in Nat \ {0}, InBkram(sc)
    PROVE  \A a \in sc.m_start .. sc.m_start + sc.m_len - 1 :
             a \notin FlashAddrs /\ a \in BkramBase .. BkramBase + BkramBytes - 1
<1>1. /\ BkramBase \in Int /\ BkramBytes \in Nat /\ FlashBase \in Int /\ MemBytes \in Nat \ {0}
      /\ BkramBase + BkramBytes <= FlashBase \/ FlashBase + MemBytes <= BkramBase
    BY FlashIs DEF LoadsAsBuilt
<1>2. sc.m_start >= BkramBase /\ sc.m_start + sc.m_len <= BkramBase + BkramBytes
    BY DEF InBkram, Within
<1> DEFINE b == sc.m_start  n == sc.m_len
<1>3. b \in Int /\ n \in Nat \ {0} /\ b >= BkramBase /\ b + n <= BkramBase + BkramBytes
    BY <1>2
<1> HIDE DEF b, n
<1>4. \A a \in b .. b + n - 1 :
             a \notin FlashAddrs /\ a \in BkramBase .. BkramBase + BkramBytes - 1
    BY <1>1, <1>3 DEF FlashAddrs
<1> QED BY <1>4 DEF b, n

\* A number of words is no less than the bytes.
LEMMA InWordsIs ==
    ASSUME NEW n \in Nat, WordBytes \in Nat \ {0}
    PROVE  InWords(n) \in Nat /\ InWords(n) >= n
<1> DEFINE w == WordBytes  x == n + w - 1
<1> HIDE DEF w
<1>1. w \in Nat \ {0} /\ x \in Nat
    BY DEF w
<1>2. x = (x \div w) * w + (x % w) /\ x % w \in 0 .. w - 1 /\ x \div w \in Nat
    <2> HIDE DEF x
    <2> QED BY <1>1
<1> DEFINE q == x \div w  y == w * q
<1>3. y \in Nat /\ x = y + (x % w)
    <2> HIDE DEF x
    <2> QED BY <1>1, <1>2
<1>4. y >= n
    <2> DEFINE r == x % w
    <2>1. r \in Int /\ r <= w - 1 /\ n + w - 1 = y + r
        BY <1>1, <1>2, <1>3
    <2> HIDE DEF r, y, x, q
    <2> QED BY <1>1, <1>3, <2>1
<1>5. InWords(n) = y
    BY DEF InWords, w
<1> HIDE DEF y
<1> QED BY <1>3, <1>4, <1>5

\* What is where it belongs stays there as nothing is written.
LEMMA CopiedStays ==
    ASSUME data' = data, bkram' = bkram, prog' = prog
    PROVE  Sections' = Sections /\ \A i : Copied(i)' <=> Copied(i)
<1>1. Sections' = Sections
    BY DEF Sections
<1>2. \A a : Held(a)' = Held(a)
    BY DEF Held
<1> QED BY <1>1, <1>2 DEF Copied

\* Each byte of a section is in block RAM, or in the flash.
Placed == FlashAddrs \cup (BkramBase .. BkramBase + BkramBytes - 1)
LEMMA SectionPlaced ==
    ASSUME FlashTypes, LoadsAsBuilt, PagesInv, pc = "section", NEW i \in DOMAIN Sections
    PROVE  /\ Sections[i].m_start \in Int /\ Sections[i].m_len \in Nat \ {0}
           /\ \A a \in Sections[i].m_start .. Sections[i].m_start + Sections[i].m_len - 1 : a \in Placed
           /\ \/ InBkram(Sections[i]) /\ Sections[i].m_start \notin FlashAddrs
              \/ InFlash(Sections[i]) /\ Sections[i].m_start \in FlashAddrs
<1> DEFINE sc == Sections[i]  b == sc.m_start  n == sc.m_len
<1>1. b \in Int /\ n \in Nat \ {0}
    <2>1. PICK k \in Nat :
             /\ k <= Len(prog.phdr) /\ DOMAIN Sections = 1 .. k
             /\ Len(prog.phdr) \in Nat /\ DOMAIN prog.phdr = 1 .. Len(prog.phdr)
             /\ \A j \in 1 .. k :
                  /\ Sections[j].m_start = prog.phdr[j].p_paddr
                  /\ Sections[j].m_len = prog.phdr[j].p_filesz
                  /\ prog.phdr[j].p_filesz # 0
             /\ \A j \in DOMAIN prog.phdr :
                  prog.phdr[j].p_paddr \in Int /\ prog.phdr[j].p_filesz \in Nat
        BY SectionsAre DEF FlashTypes
    <2>2. i \in DOMAIN prog.phdr
        BY <2>1
    <2> QED BY <2>1, <2>2
<1>2. InBkram(sc) \/ InFlash(sc)
    BY DEF PagesInv
<1>3. b \in b .. b + n - 1
    <2> HIDE DEF b, n
    <2> QED BY <1>1
<1>4. CASE InBkram(sc)
    <2>1. \A a \in b .. b + n - 1 : a \notin FlashAddrs /\ a \in BkramBase .. BkramBase + BkramBytes - 1
        BY <1>1, <1>4, RamApart
    <2> QED BY <1>1, <1>3, <1>4, <2>1 DEF Placed
<1>5. CASE InFlash(sc)
    <2>1. FlashBase \in Int /\ MemBytes \in Nat \ {0}
        BY FlashIs DEF LoadsAsBuilt
    <2>2. b >= FlashBase /\ b + n <= FlashBase + MemBytes
        BY <1>5 DEF InFlash, Within
    <2>3. \A a \in b .. b + n - 1 : a \in FlashAddrs
        <3> HIDE DEF b, n
        <3> QED BY <1>1, <2>1, <2>2 DEF FlashAddrs
    <2> QED BY <1>1, <1>3, <1>5, <2>3 DEF Placed
<1> QED BY <1>2, <1>4, <1>5

\* A section is copied, and those before it stay where they are.
LEMMA CopiesOne ==
    ASSUME NEW k, NEW b, NEW n, NEW bytes, NEW l,
           FlashTypes, LoadsAsBuilt, PagesInv, pc = "section", Sections' = Sections,
           k = sec, k \in DOMAIN Sections, sec' = sec + 1,
           b = Sections[k].m_start, n = Sections[k].m_len, bytes = Sections[k].m_data,
           l = IF b \in FlashAddrs THEN n ELSE InWords(n),
           \A i \in DOMAIN Sections : i < sec => Copied(i),
           \A j \in 1 .. n : Held(b + j - 1)' = bytes[j],
           \A a \in Placed : Held(a)' = Held(a) \/ a - b \in 0 .. l - 1
    PROVE  \A i \in DOMAIN Sections' : i < sec' => Copied(i)'
<1> SUFFICES ASSUME NEW i \in DOMAIN Sections, i < sec'
             PROVE  Copied(i)'
    OBVIOUS
<1>1. i \in Int /\ sec \in Nat
    <2>1. PICK c \in Nat : DOMAIN Sections = 1 .. c
        BY SectionsAre DEF FlashTypes
    <2> QED BY <2>1 DEF FlashTypes
<1>2. PICK hs, hn, hb : hs = Sections[i].m_start /\ hn = Sections[i].m_len /\ hb = Sections[i].m_data
    OBVIOUS
<1>3. Sections'[i].m_start = hs /\ Sections'[i].m_len = hn /\ Sections'[i].m_data = hb
    BY <1>2
<1>4. \A j \in 1 .. hn : Held(hs + j - 1)' = hb[j]
    <2>1. CASE i = k
        BY <1>2, <2>1
    <2>2. CASE i # k
        <3>1. Copied(i)
            BY <1>1, <2>2
        <3>2. /\ b \in Int /\ n \in Nat \ {0} /\ hs \in Int /\ hn \in Nat \ {0}
              /\ hs >= b + l \/ hs + hn <= b
            BY <1>2, <2>2, SectionsApart
        <3>3. l \in Nat
            <4>1. WordBytes \in Nat \ {0}
                BY ZipLoadAssumption DEF ZipLoadAssumption
            <4> QED BY <3>2, <4>1, InWordsIs
        <3>4. \A a \in hs .. hs + hn - 1 : a \in Placed
            BY <1>2, SectionPlaced
        <3> TAKE j \in 1 .. hn
        <3>5. PICK a : a = hs + j - 1
            OBVIOUS
        <3>6. a \in hs .. hs + hn - 1 /\ ~(a - b \in 0 .. l - 1)
            BY <3>2, <3>3, <3>5
        <3>7. Held(a)' = Held(a)
            BY <3>4, <3>6
        <3>8. Held(a) = hb[j]
            BY <1>2, <3>1, <3>5 DEF Copied
        <3> QED BY <3>5, <3>7, <3>8
    <2> QED BY <2>1, <2>2
<1> QED BY <1>3, <1>4 DEF Copied

LEMMA CopiedLoadBkram ==
    ASSUME FlashTypes, LoadsAsBuilt, PagesInv, CopiedInv, LoadBkram
    PROVE  CopiedInv'
<1>1. PICK k : k = sec
    OBVIOUS
<1>2. PICK b, n, bytes : b = Sections[k].m_start /\ n = Sections[k].m_len /\ bytes = Sections[k].m_data
    OBVIOUS
<1>3. /\ k \in DOMAIN Sections /\ InBkram(Sections[k]) /\ pc = "section" /\ pc' = "section"
      /\ sec' = sec + 1 /\ prog' = prog /\ data' = data
    BY <1>1 DEF LoadBkram, Goto, drvrVars
<1>4. PICK rest :
        bkram' = [a \in DOMAIN bkram |->
           IF a - b \in 0 .. n - 1 THEN bytes[a - b + 1]
           ELSE IF a >= b + n /\ a < b + InWords(n) THEN rest ELSE bkram[a]]
    BY <1>1, <1>2 DEF LoadBkram, InWords
<1>5. Sections' = Sections
    BY <1>3 DEF Sections
<1>6. /\ DOMAIN bkram = BkramBase .. BkramBase + BkramBytes - 1
      /\ \A i \in DOMAIN Sections : i < sec => Copied(i)
    BY <1>3 DEF CopiedInv
<1>7. b \in Int /\ n \in Nat \ {0}
    BY <1>2, <1>3, SectionPlaced
<1>8. \A a \in b .. b + n - 1 : a \notin FlashAddrs /\ a \in DOMAIN bkram
    BY <1>2, <1>3, <1>6, <1>7, RamApart
<1>9. b \notin FlashAddrs
    <2>1. b \in b .. b + n - 1
        BY <1>7
    <2> QED BY <1>8, <2>1
<1>10. PICK l : l = InWords(n)
    OBVIOUS
<1>11. l \in Nat /\ l >= n
    <2>1. WordBytes \in Nat \ {0}
        BY ZipLoadAssumption DEF ZipLoadAssumption
    <2> QED BY <1>7, <1>10, <2>1, InWordsIs
<1>12. ASSUME NEW j \in 1 .. n PROVE Held(b + j - 1)' = bytes[j]
    <2>1. PICK a : a = b + j - 1
        OBVIOUS
    <2>2. a \in b .. b + n - 1 /\ a - b \in 0 .. n - 1 /\ a - b + 1 = j
        BY <1>7, <2>1
    <2>3. a \notin FlashAddrs /\ a \in DOMAIN bkram
        BY <1>8, <2>2
    <2>4. bkram'[a] = bytes[j]
        BY <1>4, <2>2, <2>3
    <2> QED BY <2>1, <2>3, <2>4 DEF Held
<1>13. ASSUME NEW a \in Placed PROVE Held(a)' = Held(a) \/ a - b \in 0 .. l - 1
    <2> SUFFICES ASSUME ~(a - b \in 0 .. l - 1), a \notin FlashAddrs PROVE bkram'[a] = bkram[a]
        BY <1>3 DEF Held
    <2>1. a \in DOMAIN bkram /\ a \in Int
        <3>1. BkramBase \in Int /\ BkramBytes \in Nat
            BY DEF LoadsAsBuilt
        <3> QED BY <1>6, <3>1 DEF Placed
    <2>2. ~(a - b \in 0 .. n - 1) /\ ~(a >= b + n /\ a < b + l)
        BY <1>7, <1>11, <2>1
    <2> QED BY <1>4, <1>10, <2>1, <2>2
<1>14. \A i \in DOMAIN Sections' : i < sec' => Copied(i)'
    BY <1>1, <1>2, <1>3, <1>5, <1>6, <1>9, <1>10, <1>12, <1>13, CopiesOne
<1>15. DOMAIN bkram' = BkramBase .. BkramBase + BkramBytes - 1
    BY <1>4, <1>6
<1> QED BY <1>3, <1>14, <1>15 DEF CopiedInv, BySector, PageByPage

LEMMA CopiedToFlash ==
    ASSUME FlashTypes, LoadsAsBuilt, PagesInv, DataBeyond, CopiedInv, ToFlash
    PROVE  CopiedInv'
<1>1. PICK k : k = sec
    OBVIOUS
<1>2. PICK b, n, bytes : b = Sections[k].m_start /\ n = Sections[k].m_len /\ bytes = Sections[k].m_data
    OBVIOUS
<1>3. /\ k \in DOMAIN Sections /\ ~InBkram(Sections[k]) /\ pc = "section" /\ pc' = "section"
      /\ sec' = sec + 1 /\ prog' = prog /\ bkram' = bkram
      /\ data' = [a \in DOMAIN data |-> IF a - b \in 0 .. n - 1 THEN bytes[a - b + 1] ELSE data[a]]
    BY <1>1, <1>2 DEF ToFlash, Goto, boardVars
<1>4. Sections' = Sections
    BY <1>3 DEF Sections
<1>5. /\ DOMAIN bkram = BkramBase .. BkramBase + BkramBytes - 1
      /\ \A i \in DOMAIN Sections : i < sec => Copied(i)
    BY <1>3 DEF CopiedInv
<1>6. b \in Int /\ n \in Nat \ {0} /\ b \in FlashAddrs /\ InFlash(Sections[k])
    BY <1>2, <1>3, SectionPlaced
<1>7. DOMAIN data = FlashAddrs
    BY DEF DataBeyond
<1>8. \A a \in b .. b + n - 1 : a \in FlashAddrs
    <2>1. FlashBase \in Int /\ MemBytes \in Nat \ {0}
        BY FlashIs DEF LoadsAsBuilt
    <2>2. b >= FlashBase /\ b + n <= FlashBase + MemBytes
        BY <1>2, <1>6 DEF InFlash, Within
    <2> QED BY <1>6, <2>1, <2>2 DEF FlashAddrs
<1>9. ASSUME NEW j \in 1 .. n PROVE Held(b + j - 1)' = bytes[j]
    <2>1. PICK a : a = b + j - 1
        OBVIOUS
    <2>2. a \in b .. b + n - 1 /\ a - b \in 0 .. n - 1 /\ a - b + 1 = j
        BY <1>6, <2>1
    <2>3. a \in FlashAddrs
        BY <1>8, <2>2
    <2>4. data'[a] = bytes[j]
        BY <1>3, <1>7, <2>2, <2>3
    <2> QED BY <2>1, <2>3, <2>4 DEF Held
<1>10. ASSUME NEW a \in Placed PROVE Held(a)' = Held(a) \/ a - b \in 0 .. n - 1
    BY <1>3, <1>7 DEF Held
<1>11. \A i \in DOMAIN Sections' : i < sec' => Copied(i)'
    <2>1. n = IF b \in FlashAddrs THEN n ELSE InWords(n)
        BY <1>6
    <2> QED BY <1>1, <1>2, <1>3, <1>4, <1>5, <1>9, <1>10, <2>1, CopiesOne
<1> QED BY <1>3, <1>5, <1>11 DEF CopiedInv, BySector, PageByPage

LEMMA CopiedInit == Init => CopiedInv
BY DEF Init, CopiedInv, BySector, PageByPage

\* Steps that copy nothing, and go on when all is copied, or stay.
LEMMA CopiedMove ==
    ASSUME CopiedInv, data' = data, bkram' = bkram, prog' = prog,
           pc' = "check" => pc = "check" /\ sec' = sec,
           pc' = "section" => pc = "section" /\ sec' = sec,
           (BySector \/ PageByPage \/ pc \in {"start", "done"})' =>
             BySector \/ PageByPage \/ pc \in {"start", "done"} \/ AllCopied
    PROVE  CopiedInv'
<1>1. Sections' = Sections /\ \A i : Copied(i)' <=> Copied(i)
    BY CopiedStays
<1>2. AllCopied' <=> AllCopied
    BY <1>1 DEF AllCopied
<1>3. DOMAIN bkram' = BkramBase .. BkramBase + BkramBytes - 1
    BY DEF CopiedInv
<1>4. (BySector \/ PageByPage \/ pc \in {"start", "done"})' => AllCopied'
    BY <1>2 DEF CopiedInv
<1>5. pc' = "check" => sec' = 1
    BY DEF CopiedInv
<1>6. pc' = "section" => \A i \in DOMAIN Sections' : i < sec' => Copied(i)'
    BY <1>1 DEF CopiedInv
<1> QED BY <1>3, <1>4, <1>5, <1>6 DEF CopiedInv

LEMMA CopiedStep ==
    ASSUME LoadsAsBuilt
    PROVE  FlashTypes /\ FlashTypes' /\ PagesInv /\ DataBeyond /\ CopiedInv /\ [Next]_vars => CopiedInv'
<1> SUFFICES ASSUME FlashTypes, FlashTypes', PagesInv, DataBeyond, CopiedInv, [Next]_vars PROVE CopiedInv'
    OBVIOUS
<1>1. CASE UNCHANGED vars \/ UserSession \/ DumpFlash \/ SendByte \/ ChipDone
    <2>1. UNCHANGED <<pc, sec, data, bkram, prog>>
        BY <1>1 DEF vars, UserSession, DumpFlash, SendByte, Send, ChipDone, drvrVars, loaderVars, boardVars
    <2> QED BY <2>1, CopiedMove DEF BySector, PageByPage
<1>2. CASE Start \/ Kill
    <2>1. /\ pc' \in {"check", "killed"} /\ sec' = 1 /\ bkram' = bkram
        BY <1>2 DEF Start, Kill, ProgramStarts, boardVars
    <2> QED BY <2>1 DEF CopiedInv, BySector, PageByPage
<1>3. CASE CheckSections
    <2>1. /\ pc = "check" /\ pc' \in {"section", "failed"} /\ UNCHANGED <<sec, data, bkram, prog>>
        BY <1>3 DEF CheckSections, Goto, drvrVars, loaderVars, boardVars
    <2>2. sec = 1
        BY <2>1 DEF CopiedInv
    <2>3. DOMAIN Sections' = DOMAIN Sections /\ \A i \in DOMAIN Sections : ~(i < 1)
        <3>1. PICK n \in Nat : DOMAIN Sections = 1 .. n
            BY SectionsAre DEF FlashTypes
        <3> QED BY <2>1, <3>1 DEF Sections
    <2> QED BY <2>1, <2>2, <2>3 DEF CopiedInv, BySector, PageByPage
<1>4. CASE LoadBkram
    BY <1>4, CopiedLoadBkram
<1>5. CASE ToFlash
    BY <1>5, CopiedToFlash
<1>6. CASE WriteFlash
    <2>1. /\ pc = "section" /\ pc' \in {"sector", "start"} /\ UNCHANGED <<sec, data, bkram, prog>>
          /\ sec \notin DOMAIN Sections
        BY <1>6 DEF WriteFlash, Goto, loaderVars, boardVars
    <2>2. AllCopied
        <3>1. PICK n \in Nat : DOMAIN Sections = 1 .. n
            BY SectionsAre DEF FlashTypes
        <3>2. sec \in Nat \ {0}
            BY DEF FlashTypes
        <3>3. \A i \in DOMAIN Sections : i < sec
            BY <2>1, <3>1, <3>2
        <3> QED BY <2>1, <3>3 DEF CopiedInv, AllCopied
    <2> QED BY <2>1, <2>2, CopiedMove
<1>7. CASE StartCpu
    <2>1. pc = "start" /\ pc' = "done" /\ UNCHANGED <<sec, data, bkram, prog>>
        BY <1>7 DEF StartCpu, Goto, drvrVars, loaderVars
    <2> QED BY <2>1, CopiedMove
<1>8. CASE Driver
    <2>1. UNCHANGED <<sec, bkram, prog>>
        BY <1>8 DEF Driver, loaderVars, boardVars
    <2>2. UNCHANGED data /\ (BySector \/ PageByPage) /\ pc' \notin {"check", "section"}
        BY <1>8 DEF Driver, Write, NextSector, Compare, Compared2, WhileWip, VerifyErase, Page,
            VerifyPage, PagesDone, Goto, BySector, PageByPage, drvrVars
    <2> QED BY <2>1, <2>2, CopiedMove
<1> QED BY <1>1, <1>2, <1>3, <1>4, <1>5, <1>6, <1>7, <1>8 DEF Next, Loader

-----------------------------------------------------------------------------
(* Words.                                                                     *)

LEMMA OnWordIs ==
    ASSUME LoadsAsBuilt, NEW a \in Int
    PROVE  /\ WordBytes \in Nat \ {0}
           /\ Aligned(a) => OnWord(a)
           /\ OnWord(a) => OnWord(a + WordBytes)
           /\ OnWord(a) => \A b \in Int : OnWord(b) /\ a < b => a + WordBytes <= b
<1>1. WordBytes \in Nat \ {0} /\ PageBytes \in Nat \ {0}
    BY FlashIs DEF LoadsAsBuilt
<1> DEFINE w == WordBytes
<1>2. Aligned(a) => OnWord(a)
    <2> SUFFICES ASSUME Aligned(a) PROVE OnWord(a)
        OBVIOUS
    <2>1. PICK q \in Int : a = q * PageBytes
        BY DEF Aligned
    <2>2. PICK r \in Int : PageBytes = r * w
        BY DEF LoadsAsBuilt
    <2> HIDE DEF w
    <2>3. w \in Nat
        BY <1>1 DEF w
    <2>4. q * (r * w) = (q * r) * w /\ q * r \in Int
        BY <2>3
    <2> QED BY <2>1, <2>2, <2>4 DEF OnWord, w
<1>3. OnWord(a) => OnWord(a + w)
    <2> SUFFICES ASSUME OnWord(a) PROVE OnWord(a + w)
        OBVIOUS
    <2>1. PICK k \in Int : a = k * w
        BY DEF OnWord
    <2>2. a + w = (k + 1) * w /\ k + 1 \in Int
        BY <1>1, <2>1
    <2> QED BY <2>2 DEF OnWord
<1>4. ASSUME OnWord(a), NEW b \in Int, OnWord(b), a < b PROVE a + w <= b
    <2>1. PICK k \in Int : a = k * w
        BY <1>4 DEF OnWord
    <2>2. PICK m \in Int : b = m * w
        BY <1>4 DEF OnWord
    <2> HIDE DEF w
    <2>3. w \in Nat \ {0}
        BY <1>1 DEF w
    <2>4. CASE b < a + w
        <3>1. k * w <= b /\ b < k * w + w /\ m * w <= b /\ b < m * w + w
            BY <1>4, <2>1, <2>2, <2>3, <2>4
        <3>2. b - (b % w) = k * w /\ b - (b % w) = m * w
            BY <2>3, <3>1, MultIs
        <3> QED BY <1>4, <2>1, <2>2, <3>2
    <2> QED BY <2>3, <2>4
<1> QED BY <1>1, <1>2, <1>3, <1>4

\* The end of the last whole word.
LEMMA WordsEndIs ==
    ASSUME LoadsAsBuilt, startaddr \in Int, codelen \in Int
    PROVE  /\ WordsEnd \in Int /\ WordsEnd <= startaddr + codelen
           /\ startaddr + codelen < WordsEnd + WordBytes
           /\ OnWord(startaddr) => OnWord(WordsEnd)
           /\ codelen <= 0 => WordsEnd <= startaddr
<1> DEFINE w == WordBytes  r == codelen % w  q == codelen \div w  y == q * w
<1>1. w \in Nat \ {0}
    BY OnWordIs
<1>2. r \in 0 .. w - 1 /\ codelen = y + r /\ q \in Int /\ y \in Int
    <2> HIDE DEF w
    <2> QED BY <1>1
<1>3. WordsEnd = startaddr + codelen - r
    BY DEF WordsEnd
<1> HIDE DEF r, w
<1>4. r \in Int /\ WordsEnd = startaddr + y
    <2> HIDE DEF y
    <2> QED BY <1>1, <1>2, <1>3
<1>5. OnWord(startaddr) => OnWord(WordsEnd)
    <2> SUFFICES ASSUME OnWord(startaddr) PROVE OnWord(WordsEnd)
        OBVIOUS
    <2>1. PICK k \in Int : startaddr = k * w
        BY DEF OnWord, w
    <2> HIDE DEF q
    <2>2. k * w + q * w = (k + q) * w /\ k + q \in Int
        BY <1>1, <1>2
    <2> QED BY <1>4, <2>1, <2>2 DEF OnWord, w
<1>6. codelen <= 0 => WordsEnd <= startaddr
    <2> HIDE DEF y
    <2> QED BY <1>1, <1>2, <1>4
<1>7. WordsEnd \in Int /\ WordsEnd <= startaddr + codelen /\ startaddr + codelen < WordsEnd + w
    <2> HIDE DEF y
    <2> QED BY <1>1, <1>2, <1>4
<1> QED BY <1>5, <1>6, <1>7 DEF w

\* Where the loader is in the flash.
LEMMA PlaceIs ==
    ASSUME FlashTypes, PagesInv, SectorUnderWay, LoadsAsBuilt, BySector \/ PageByPage
    PROVE  /\ WordBytes \in Nat \ {0} /\ FlashBase \in Int /\ FlashBase > 0
           /\ SectorBytes \in Nat \ {0} /\ PageBytes \in Nat \ {0} /\ MemBytes \in Nat \ {0}
           /\ addr = FlashBase /\ startaddr = FlashBase /\ len = codelen /\ len \in Int
           /\ s \in Int /\ s >= FlashBase /\ OnWord(s) /\ OnWord(s + SectorBytes)
           /\ SectorBase = s /\ SectorEnd \in Int
           /\ SectorEnd \in {addr + len, s + SectorBytes}
           /\ SectorEnd <= addr + len /\ SectorEnd <= s + SectorBytes
           /\ WordsEnd \in Int /\ WordsEnd <= addr + len /\ addr + len < WordsEnd + WordBytes
           /\ OnWord(WordsEnd)
<1>1. /\ WordBytes \in Nat \ {0} /\ FlashBase \in Int /\ FlashBase > 0
      /\ SectorBytes \in Nat \ {0} /\ PageBytes \in Nat \ {0} /\ MemBytes \in Nat \ {0}
      /\ Aligned(FlashBase) /\ Aligned(SectorBytes)
    BY FlashIs DEF LoadsAsBuilt, SectorsAsBuilt, PagesAsBuilt
<1>2. /\ addr = FlashBase /\ startaddr = FlashBase /\ len = codelen /\ len \in Int
      /\ s \in Int /\ s >= FlashBase /\ Aligned(s)
    BY DEF FlashTypes, PagesInv, SectorUnderWay
<1>3. OnWord(s) /\ OnWord(FlashBase)
    BY <1>1, <1>2, OnWordIs
<1>4. OnWord(s + SectorBytes)
    <2>1. Aligned(s + SectorBytes)
        BY <1>1, <1>2, AlignedSum
    <2>2. s + SectorBytes \in Int
        BY <1>1, <1>2
    <2> QED BY <2>1, <2>2, OnWordIs
<1>5. /\ SectorBase = s /\ SectorEnd \in Int /\ SectorEnd \in {addr + len, s + SectorBytes}
      /\ SectorEnd <= addr + len /\ SectorEnd <= s + SectorBytes
    BY <1>1, <1>2 DEF SectorBase, SectorEnd, Larger, Smaller
<1>6. /\ WordsEnd \in Int /\ WordsEnd <= addr + len /\ addr + len < WordsEnd + WordBytes
      /\ OnWord(WordsEnd)
    <2>1. startaddr \in Int /\ codelen \in Int /\ OnWord(startaddr)
        BY <1>1, <1>2, <1>3
    <2>2. /\ WordsEnd \in Int /\ WordsEnd <= startaddr + codelen
          /\ startaddr + codelen < WordsEnd + WordBytes /\ OnWord(WordsEnd)
        BY <2>1, WordsEndIs
    <2> QED BY <1>2, <2>2
<1> QED BY <1>1, <1>2, <1>3, <1>4, <1>5, <1>6

\* What is done up to an address is done up to any before it, and past the end.
LEMMA DoneLess ==
    ASSUME FlashBase \in Int, NEW x \in Int, NEW y \in Int, DoneTo(x), WordsEnd \in Int,
           y <= x \/ WordsEnd <= x
    PROVE  DoneTo(y)
<1> SUFFICES ASSUME NEW a \in FlashAddrs, a < y, a < WordsEnd
             PROVE  chip.m_mem[a - FlashBase] = data[a]
    BY DEF DoneTo
<1>1. a \in Int
    <2>1. MemBytes \in Nat
        BY FlashSimAssumption DEF FlashSimAssumption
    <2> QED BY <2>1 DEF FlashAddrs
<1>2. a < x
    BY <1>1
<1> QED BY <1>2 DEF DoneTo

LEMMA DoneStays ==
    ASSUME NEW x, DoneTo(x), data' = data, startaddr' = startaddr, codelen' = codelen,
           \A a \in FlashAddrs : a < x => chip'.m_mem[a - FlashBase] = chip.m_mem[a - FlashBase]
    PROVE  DoneTo(x)'
<1>1. WordsEnd' = WordsEnd
    BY DEF WordsEnd
<1> QED BY <1>1 DEF DoneTo

-----------------------------------------------------------------------------
(* What is compared, and verified, is in the flash.                           *)

\* A word that is not what it will be is found, or it is.
LEMMA WordCompared ==
    ASSUME LoaderInv, PagesInv, SectorsInv, LoadsAsBuilt, found,
           pc = "compare", out = <<>>, at < SectorEnd, OnWord(at), DoneTo(at),
           NEW word \in Read(at), ~Differs(word, at)
    PROVE  DoneTo(at + WordBytes)
<1> DEFINE w == WordBytes  e == SectorEnd
<1>0. FlashTypes /\ SectorUnderWay /\ BySector
    BY DEF LoaderInv, SectorsInv, BySector
<1>1. /\ w \in Nat \ {0} /\ FlashBase \in Int /\ MemBytes \in Nat \ {0} /\ SectorBytes \in Nat \ {0}
      /\ s \in Int /\ s >= FlashBase /\ OnWord(s + SectorBytes) /\ addr = FlashBase /\ len \in Int
      /\ e \in Int /\ e \in {addr + len, s + SectorBytes}
      /\ WordsEnd \in Int /\ WordsEnd <= addr + len /\ addr + len < WordsEnd + w /\ OnWord(WordsEnd)
    BY <1>0, PlaceIs
<1>2. at \in Int /\ at >= s /\ len <= MemBytes
    BY <1>0 DEF FlashTypes, PagesInv
<1> SUFFICES ASSUME NEW a \in FlashAddrs, a < at + w, a < WordsEnd, ~(a < at)
             PROVE  chip.m_mem[a - FlashBase] = data[a]
    BY DEF DoneTo
<1>3. a \in Int
    BY <1>1 DEF FlashAddrs
<1>4. at < WordsEnd
    BY <1>1, <1>2, <1>3
<1>5. at + w <= WordsEnd
    BY <1>1, <1>2, <1>4, OnWordIs
<1>6. at + w <= s + SectorBytes \/ e = addr + len
    <2>1. CASE e = s + SectorBytes
        <3> DEFINE b == s + SectorBytes
        <3>1. b \in Int /\ OnWord(b) /\ at < b
            BY <1>1, <2>1
        <3> HIDE DEF b
        <3>2. at + w <= b
            BY <1>2, <3>1, OnWordIs
        <3> QED BY <3>2 DEF b
    <2> QED BY <1>1, <2>1
<1>7. at + w <= e
    <2> HIDE DEF e, w
    <2> QED BY <1>1, <1>2, <1>5, <1>6
<1>8. word = BusRead(at)
    BY <1>7 DEF Read
<1> DEFINE i == a - at
<1>9. i \in 0 .. w - 1 /\ at + i = a /\ a < e
    <2> HIDE DEF e, w
    <2> QED BY <1>1, <1>2, <1>3, <1>7
<1>10. word[i] = data[a]
    <2> HIDE DEF i
    <2>1. i \in Compared(at)
        BY <1>9 DEF Compared
    <2> QED BY <1>9, <2>1 DEF Differs
<1>11. at \in FlashAddrs
    <2>1. at <= a
        BY <1>2, <1>3
    <2> QED BY <1>1, <1>2, <1>3, <2>1 DEF FlashAddrs
<1>12. word[i] = chip.m_mem[(at - FlashBase + i) % MemBytes]
    <2>1. ~cfg_user_mode /\ "DPD" \notin chip.m_sreg /\ "WIP" \notin chip.m_sreg
        BY FoundReads DEF Busy, Acting
    <2> HIDE DEF i
    <2> QED BY <1>8, <1>9, <1>11, <2>1, BusReadIs
<1>13. (at - FlashBase + i) % MemBytes = a - FlashBase
    <2> DEFINE c == a - FlashBase
    <2>1. at - FlashBase + i = c
        BY <1>1, <1>2, <1>3
    <2>2. c \in 0 .. MemBytes - 1
        BY FlashIs DEF LoadsAsBuilt
    <2> HIDE DEF c, i
    <2>3. c % MemBytes = c
        BY <2>2, FlashIs DEF LoadsAsBuilt
    <2> QED BY <2>1, <2>3 DEF c
<1> QED BY <1>10, <1>12, <1>13

\* A page is verified in whole words.
LEMMA PageVerified ==
    ASSUME LoaderInv, PagesInv, SectorsInv, LoadsAsBuilt, found,
           pc = "verifyPage", out = <<>>, OnWord(p), DoneTo(p),
           \A a \in WordsOf(PageLength \div WordBytes) : BusRead(a) = DataWord(a)
    PROVE  DoneTo(PageOf(p) + PageBytes) /\ OnWord(PageOf(p) + PageBytes)
<1> DEFINE w == WordBytes  e == PageOf(p) + PageBytes  n == PageLength \div w
<1>0. FlashTypes /\ SectorUnderWay /\ PageByPage /\ PagesAsBuilt /\ DOMAIN data = FlashAddrs
    BY DEF LoaderInv, SectorsInv, DataBeyond, PageByPage, LoadsAsBuilt, SectorsAsBuilt
<1>1. /\ w \in Nat \ {0} /\ FlashBase \in Int /\ MemBytes \in Nat \ {0} /\ PageBytes \in Nat \ {0}
      /\ addr = FlashBase /\ len \in Int
    BY <1>0, PlaceIs
<1>2. p \in Int /\ p < addr + len /\ p >= addr
    BY <1>0 DEF FlashTypes, PagesInv
<1>3. PageLength = e - p
    <2>1. PageLength = PageOf(p) + PageBytes - p
        BY <1>0, <1>2, Cut
    <2>2. PageOf(p) \in Int
        BY <1>2, PageOfIs
    <2> QED BY <1>1, <1>2, <2>1, <2>2
<1>4. /\ PageOf(p) \in Int /\ p < e /\ e \in Int /\ OnWord(e)
    <2>1. /\ PageOf(p) \in Int /\ p < PageOf(p) + PageBytes
          /\ \E q \in Int : PageOf(p) = q * PageBytes
        BY <1>2, PageOfIs
    <2>2. PICK q \in Int : PageOf(p) = q * PageBytes
        BY <2>1
    <2> DEFINE t == PageOf(p)
    <2>3. t = q * PageBytes /\ t \in Int
        BY <2>1, <2>2
    <2> HIDE DEF t
    <2>4. t + PageBytes = (q + 1) * PageBytes /\ q + 1 \in Int
        BY <1>1, <2>3
    <2>5. Aligned(t + PageBytes)
        BY <2>4 DEF Aligned
    <2>6. t + PageBytes \in Int
        BY <1>1, <2>3
    <2>7. OnWord(t + PageBytes)
        BY <2>5, <2>6, OnWordIs
    <2> QED BY <2>1, <2>6, <2>7 DEF t
<1>5. ASSUME NEW a \in FlashAddrs, a < e, ~(a < p)
      PROVE  chip.m_mem[a - FlashBase] = data[a]
    <2> DEFINE d == a - p  i == d \div w  b == d % w  x == p + i * w
    <2>1. a \in Int /\ d \in Nat /\ d < e - p
        <3>1. a \in Int
            BY <1>1 DEF FlashAddrs
        <3> HIDE DEF e
        <3> QED BY <1>2, <1>4, <1>5, <3>1
    <2>2. d = i * w + b /\ i \in Nat /\ b \in 0 .. w - 1 /\ i * w \in Nat
        <3> HIDE DEF d, w
        <3> QED BY <1>1, <2>1
    <2>3. i \in 0 .. n - 1
        <3>1. PICK k \in Int : p = k * w
            BY DEF OnWord
        <3>2. PICK m \in Int : e = m * w
            BY <1>4 DEF OnWord
        <3> DEFINE l == e - p
        <3>3. l = (m - k) * w /\ m - k \in Int
            <4> HIDE DEF e, w
            <4> QED BY <1>1, <3>1, <3>2
        <3>4. PICK c \in Int : c = m - k
            BY <3>3
        <3>5. l = c * w /\ l \in Int
            <4> HIDE DEF w, l
            <4>1. l = c * w
                BY <3>3, <3>4
            <4> QED BY <1>1, <4>1
        <3> HIDE DEF l
        <3>6. l \div w = c
            <4> HIDE DEF w
            <4> QED BY <1>1, <3>5
        <3>7. n = c
            BY <1>3, <3>6 DEF l
        <3>8. i < c
            <4> DEFINE y == i * w  z == c * w
            <4>1. y \in Nat /\ z \in Int /\ d < z /\ d = y + b
                <5> HIDE DEF d
                <5> QED BY <2>1, <2>2, <3>5 DEF l
            <4>2. y < z
                <5> HIDE DEF y, z, d, b
                <5> QED BY <1>1, <2>2, <4>1
            <4> HIDE DEF i, w
            <4> QED BY <1>1, <2>2, <4>2
        <3> HIDE DEF i, n
        <3> QED BY <2>2, <3>4, <3>7, <3>8
    <2> HIDE DEF n
    <2>4. x \in WordsOf(n) /\ BusRead(x) = DataWord(x)
        <3> HIDE DEF i, w
        <3>1. x \in WordsOf(n)
            BY <2>3 DEF WordsOf, w
        <3> QED BY <3>1 DEF n, w
    <2>5. x \in Int /\ x + b = a /\ x <= a /\ x \in FlashAddrs
        <3> DEFINE y == i * w
        <3>1. y \in Nat /\ a - p = y + b /\ x = p + y /\ b \in Nat
            BY <2>2
        <3> HIDE DEF y, x, b, w
        <3>2. x \in Int /\ x + b = a /\ x <= a /\ x >= FlashBase
            BY <1>1, <1>2, <2>1, <3>1
        <3> QED BY <1>1, <2>1, <3>2 DEF FlashAddrs
    <2> HIDE DEF x, b, i, d
    <2>6. DataWord(x)[b] = data[a]
        BY <1>0, <2>2, <2>5 DEF DataWord
    <2>7. BusRead(x)[b] = chip.m_mem[(x - FlashBase + b) % MemBytes]
        <3>1. ~cfg_user_mode /\ "DPD" \notin chip.m_sreg /\ "WIP" \notin chip.m_sreg
            BY FoundReads DEF Busy, Acting
        <3> QED BY <2>2, <2>5, <3>1, BusReadIs
    <2>8. (x - FlashBase + b) % MemBytes = a - FlashBase
        <3> DEFINE c == a - FlashBase
        <3>1. x - FlashBase + b = c
            BY <1>1, <2>1, <2>2, <2>5
        <3>2. c \in 0 .. MemBytes - 1
            BY FlashIs DEF LoadsAsBuilt
        <3> HIDE DEF c
        <3>3. c % MemBytes = c
            BY <3>2, FlashIs DEF LoadsAsBuilt
        <3> QED BY <3>1, <3>3 DEF c
    <2> QED BY <2>4, <2>6, <2>7, <2>8
<1>6. DoneTo(e)
    <2> HIDE DEF e
    <2> QED BY <1>5 DEF DoneTo
<1> QED BY <1>4, <1>6

-----------------------------------------------------------------------------
(* Every step of the driver keeps what is said of the flash.                  *)

LEMMA InFlashThere ==
    ASSUME NEW x, NEW y, NEW z,
           (BySector \/ PageByPage)' => s' = x /\ DoneTo(x)',
           pc' = "compare" => /\ y = (IF newv' = 0 THEN at' ELSE newv') /\ DoneTo(y)'
                              /\ OnWord(at') /\ (newv' # 0 => OnWord(newv')),
           PageByPage' => p' = z /\ DoneTo(z)' /\ OnWord(z),
           pc' = "start" => \E u : u = (startaddr + codelen)' /\ DoneTo(u)',
           pc' # "done"
    PROVE  InFlashInv'
<1>1. (BySector \/ PageByPage)' => DoneTo(s)'
    BY DEF DoneTo
<1>2. pc' = "compare" => DoneTo(IF newv = 0 THEN at ELSE newv)'
    BY DEF DoneTo
<1>3. pc' = "compare" => OnWord(at)' /\ (newv' # 0 => OnWord(newv)')
    BY DEF OnWord
<1>4. PageByPage' => DoneTo(p)' /\ OnWord(p)'
    BY DEF DoneTo, OnWord
<1>5. pc' = "start" => DoneTo(startaddr + codelen)'
    BY DEF DoneTo
<1> QED BY <1>1, <1>2, <1>3, <1>4, <1>5 DEF InFlashInv

\* The sectors end no earlier than the program.
LEMMA SectorsReach ==
    ASSUME FlashTypes, SectorsAsBuilt, ~(s < SectorOf(addr + len + SectorBytes - 1))
    PROVE  s >= addr + len
<1> DEFINE e == addr + len + SectorBytes - 1
<1>1. SectorBytes \in Nat \ {0} /\ addr \in Int /\ len \in Int /\ s \in Int
    BY FlashIs DEF FlashTypes
<1>2. e \in Int
    BY <1>1
<1> HIDE DEF e
<1>3. SectorOf(e) \in Int /\ e < SectorOf(e) + SectorBytes
    BY <1>2, SectorOfIs
<1>4. ~(s < SectorOf(e))
    BY DEF e
<1> DEFINE q == SectorOf(e)
<1>5. q \in Int /\ e < q + SectorBytes /\ ~(s < q)
    BY <1>3, <1>4
<1> HIDE DEF q
<1> QED BY <1>1, <1>5 DEF e

LEMMA InFlashDriver ==
    ASSUME LoaderInv, PagesInv, SectorsInv, LoadsAsBuilt, InFlashInv, found,
           BySector \/ PageByPage, Driver
    PROVE  InFlashInv'
<1>0. FlashTypes /\ SectorUnderWay /\ SectorsAsBuilt
    BY DEF LoaderInv, SectorsInv, LoadsAsBuilt
<1>1. /\ WordBytes \in Nat \ {0} /\ FlashBase \in Int /\ FlashBase > 0 /\ SectorBytes \in Nat \ {0}
      /\ addr = FlashBase /\ startaddr = FlashBase /\ len = codelen /\ len \in Int
      /\ s \in Int /\ s >= FlashBase /\ OnWord(s) /\ OnWord(s + SectorBytes)
      /\ SectorBase = s /\ SectorEnd \in Int
      /\ SectorEnd \in {addr + len, s + SectorBytes}
      /\ WordsEnd \in Int /\ WordsEnd <= addr + len
    BY <1>0, PlaceIs
<1>2. /\ startaddr' = startaddr /\ codelen' = codelen /\ data' = data /\ chip'.m_mem = chip.m_mem
    <2>1. UNCHANGED data
        BY DEF Driver, Write, NextSector, Compare, Compared2, WhileWip, VerifyErase, Page,
            VerifyPage, PagesDone, drvrVars
    <2> QED BY <1>0, <2>1, DriverMemory DEF Driver, loaderVars, MemoryIs
<1>3. \A x : DoneTo(x) => DoneTo(x)'
    BY <1>2, DoneStays
<1>4. DoneTo(s) /\ (PageByPage => DoneTo(p) /\ OnWord(p)) /\ at \in Int /\ newv \in Int /\ p \in Int
    BY <1>0 DEF InFlashInv, FlashTypes
<1>5. ASSUME NEW x \in Int, DoneTo(x), NEW y \in Int, y <= x \/ WordsEnd <= x PROVE DoneTo(y)
    BY <1>1, <1>5, DoneLess
<1>6. CASE NextSector("start")
    <2>1. /\ pc' \in {"compare", "start"} /\ s' = s /\ at' = s /\ newv' = 0
          /\ pc' = "start" => ~(s < SectorOf(addr + len + SectorBytes - 1))
        BY <1>1, <1>6 DEF NextSector, Goto
    <2>2. pc' = "start" => DoneTo(startaddr + codelen)
        <3> SUFFICES ASSUME pc' = "start" PROVE DoneTo(startaddr + codelen)
            OBVIOUS
        <3>1. s >= addr + len
            BY <1>0, <2>1, SectorsReach
        <3>2. startaddr + codelen \in Int /\ startaddr + codelen <= s
            BY <1>1, <3>1
        <3> QED BY <1>1, <1>4, <1>5, <3>2
    <2>3. PICK x, u : x = s /\ u = startaddr + codelen
        OBVIOUS
    <2>4. ~PageByPage' /\ pc' # "done"
        BY <2>1 DEF PageByPage
    <2>5. (BySector \/ PageByPage)' => s' = x /\ DoneTo(x)'
        BY <1>3, <1>4, <2>1, <2>3
    <2>6. pc' = "compare" => /\ x = (IF newv' = 0 THEN at' ELSE newv') /\ DoneTo(x)'
                             /\ OnWord(at') /\ (newv' # 0 => OnWord(newv'))
        BY <1>1, <1>3, <1>4, <2>1, <2>3
    <2>7. pc' = "start" => \E v : v = (startaddr + codelen)' /\ DoneTo(v)'
        BY <1>2, <1>3, <2>2, <2>3
    <2> QED BY <2>4, <2>5, <2>6, <2>7, InFlashThere
<1>7. CASE Compare
    <2>1. /\ pc = "compare" /\ pc' = "compare" /\ out = <<>> /\ at < SectorEnd /\ at' = at + WordBytes
          /\ s' = s
          /\ \E word \in Read(at) : newv' = IF newv = 0 /\ Differs(word, at) THEN at ELSE newv
        BY <1>7 DEF Compare, Goto
    <2>2. /\ DoneTo(IF newv = 0 THEN at ELSE newv) /\ OnWord(at) /\ (newv # 0 => OnWord(newv))
          /\ at >= addr
        BY <2>1 DEF InFlashInv, PagesInv
    <2>3. PICK word \in Read(at) : newv' = IF newv = 0 /\ Differs(word, at) THEN at ELSE newv
        BY <2>1
    <2>4. PICK x, y : x = s /\ y = (IF newv' = 0 THEN at' ELSE newv')
        OBVIOUS
    <2>5. DoneTo(y)
        <3>1. CASE newv # 0
            BY <2>2, <2>3, <2>4, <3>1
        <3>2. CASE newv = 0 /\ Differs(word, at)
            <4>1. y = at
                BY <1>1, <1>4, <2>2, <2>3, <2>4, <3>2
            <4> QED BY <2>2, <3>2, <4>1
        <3>3. CASE newv = 0 /\ ~Differs(word, at)
            <4>1. y = at + WordBytes /\ DoneTo(at)
                BY <2>1, <2>2, <2>3, <2>4, <3>3
            <4> QED BY <2>1, <2>2, <3>3, <4>1, WordCompared
        <3> QED BY <3>1, <3>2, <3>3
    <2>6. OnWord(at') /\ (newv' # 0 => OnWord(newv'))
        <3>1. OnWord(at + WordBytes)
            BY <1>4, <2>2, OnWordIs
        <3> QED BY <2>1, <2>2, <2>3, <3>1
    <2>7. ~PageByPage' /\ pc' # "done" /\ pc' # "start"
        BY <2>1 DEF PageByPage
    <2>8. (BySector \/ PageByPage)' => s' = x /\ DoneTo(x)'
        BY <1>3, <1>4, <2>1, <2>4
    <2>9. pc' = "compare" => /\ y = (IF newv' = 0 THEN at' ELSE newv') /\ DoneTo(y)'
                             /\ OnWord(at') /\ (newv' # 0 => OnWord(newv'))
        BY <1>3, <2>4, <2>5, <2>6
    <2> QED BY <2>7, <2>8, <2>9, InFlashThere
<1>8. CASE Compared2
    <2>1. /\ pc = "compare" /\ at >= SectorEnd /\ p' = newv
          /\ \/ newv = 0 /\ pc' = "sector" /\ s' = s + SectorBytes
             \/ newv # 0 /\ pc' = "page" /\ s' = s
             \/ pc' = "erasing" /\ s' = s
        BY <1>8 DEF Compared2, Goto
    <2>2. DoneTo(IF newv = 0 THEN at ELSE newv) /\ (newv # 0 => OnWord(newv))
        BY <2>1 DEF InFlashInv
    <2>3. PICK x, z : x = s' /\ z = newv
        OBVIOUS
    <2>4. DoneTo(x)
        <3>1. CASE newv = 0 /\ s' = s + SectorBytes
            <4>1. s + SectorBytes \in Int /\ (s + SectorBytes <= at \/ WordsEnd <= at)
                BY <1>1, <1>4, <2>1
            <4> QED BY <1>4, <1>5, <2>2, <2>3, <3>1, <4>1
        <3>2. CASE s' = s
            BY <1>4, <2>3, <3>2
        <3> QED BY <2>1, <3>1, <3>2
    <2>5. pc' # "compare" /\ pc' # "start" /\ pc' # "done"
        BY <2>1
    <2>6. (BySector \/ PageByPage)' => s' = x /\ DoneTo(x)'
        BY <1>3, <2>3, <2>4
    <2>7. PageByPage' => p' = z /\ DoneTo(z)' /\ OnWord(z)
        <3> SUFFICES ASSUME PageByPage' PROVE p' = z /\ DoneTo(z)' /\ OnWord(z)
            OBVIOUS
        <3>1. newv # 0
            BY <2>1 DEF PageByPage
        <3> QED BY <1>3, <2>1, <2>2, <2>3, <3>1
    <2> QED BY <2>5, <2>6, <2>7, InFlashThere
<1>9. CASE Page \/ WhileWip("erasing", "verifyErase") \/ WhileWip("writing", "verifyPage")
    <2>1. /\ UNCHANGED drvrVars /\ pc' \notin {"compare", "start", "done"}
          /\ PageByPage' => PageByPage
        BY <1>9 DEF Page, WhileWip, Goto, PageByPage
    <2>2. s' = s /\ p' = p
        BY <2>1 DEF drvrVars
    <2>3. PICK x, z : x = s /\ z = p
        OBVIOUS
    <2>4. (BySector \/ PageByPage)' => s' = x /\ DoneTo(x)'
        BY <1>3, <1>4, <2>2, <2>3
    <2>5. PageByPage' => p' = z /\ DoneTo(z)' /\ OnWord(z)
        BY <1>3, <1>4, <2>1, <2>2, <2>3
    <2> QED BY <2>1, <2>4, <2>5, InFlashThere
<1>10. CASE VerifyErase
    <2>1. /\ pc' \in {"page", "failed"} /\ p' = (IF s < addr THEN addr ELSE s) /\ s' = s
        BY <1>10 DEF VerifyErase, Goto
    <2>2. p' = s
        BY <1>1, <2>1
    <2>3. PICK x : x = s
        OBVIOUS
    <2>4. (BySector \/ PageByPage)' => s' = x /\ DoneTo(x)'
        BY <1>3, <1>4, <2>1, <2>3
    <2>5. PageByPage' => p' = x /\ DoneTo(x)' /\ OnWord(x)
        BY <1>1, <1>3, <1>4, <2>2, <2>3
    <2> QED BY <2>1, <2>4, <2>5, InFlashThere
<1>11. CASE VerifyPage
    <2>1. /\ pc = "verifyPage" /\ out = <<>> /\ p' = PageOf(p + PageBytes) /\ s' = s
          /\ \/ /\ \A a \in WordsOf(PageLength \div WordBytes) : BusRead(a) = DataWord(a)
                /\ pc' = "page"
             \/ pc' = "failed"
        BY <1>11 DEF VerifyPage, Goto
    <2>2. CASE pc' = "failed"
        BY <2>2 DEF InFlashInv, BySector, PageByPage
    <2>3. CASE /\ \A a \in WordsOf(PageLength \div WordBytes) : BusRead(a) = DataWord(a)
               /\ pc' = "page"
        <3>1. PICK x, z : x = s /\ z = PageOf(p) + PageBytes
            OBVIOUS
        <3>2. p' = z
            BY <1>4, <2>1, <3>1, NextPageIs
        <3>3. DoneTo(p) /\ OnWord(p)
            BY <1>4, <2>1 DEF PageByPage
        <3>4. DoneTo(PageOf(p) + PageBytes) /\ OnWord(PageOf(p) + PageBytes)
            BY <2>1, <2>3, <3>3, PageVerified
        <3>5. (BySector \/ PageByPage)' => s' = x /\ DoneTo(x)'
            BY <1>3, <1>4, <2>1, <3>1
        <3>6. PageByPage' => p' = z /\ DoneTo(z)' /\ OnWord(z)
            BY <1>3, <3>1, <3>2, <3>4
        <3> QED BY <2>3, <3>5, <3>6, InFlashThere
    <2> QED BY <2>1, <2>2, <2>3
<1>12. CASE PagesDone
    <2>1. /\ pc = "page" /\ pc' = "sector" /\ s' = s + SectorBytes
          /\ p >= s + SectorBytes \/ p >= addr + len
        BY <1>12 DEF PagesDone, Goto
    <2>2. PICK x : x = s + SectorBytes
        OBVIOUS
    <2>3. DoneTo(x)
        <3>1. x \in Int /\ (x <= p \/ WordsEnd <= p) /\ DoneTo(p)
            BY <1>1, <1>4, <2>1, <2>2 DEF PageByPage
        <3> QED BY <1>4, <1>5, <3>1
    <2>4. (BySector \/ PageByPage)' => s' = x /\ DoneTo(x)'
        BY <1>3, <2>1, <2>2, <2>3
    <2>5. ~PageByPage'
        BY <2>1 DEF PageByPage
    <2> QED BY <2>1, <2>4, <2>5, InFlashThere
<1> QED BY <1>6, <1>7, <1>8, <1>9, <1>10, <1>11, <1>12 DEF Driver, Write

-----------------------------------------------------------------------------
(* What is sent keeps what is done.                                           *)

\* The simulator takes the address of an erase for one outside of its memory.
LEMMA ErasesNothing ==
    ASSUME FlashTypes, SectorsInv, LoadsAsBuilt, pc = "erasing",
           chip.kind # "chip", chip.m_state = "SECTOR_ERASE", chip.m_addr = s, chip' \in Deselect(chip)
    PROVE  chip'.m_mem = chip.m_mem
<1>1. /\ FlashBase \in Int /\ FlashBase > 0 /\ MemBytes \in Nat \ {0} /\ SectorBytes \in Nat \ {0}
      /\ s \in Int /\ s >= FlashBase /\ IsSector(s)
    BY FlashIs DEF LoadsAsBuilt, FlashTypes, SectorsInv, SectorUnderWay, BySector
<1>2. MemBytes <= s
    <2>1. PICK q \in Int : FlashBase = q * MemBytes
        BY DEF LoadsAsBuilt, SectorsAsBuilt
    <2> DEFINE n == MemBytes
    <2>2. n \in Nat \ {0} /\ q * n > 0
        BY <1>1, <2>1
    <2> HIDE DEF n
    <2>3. q >= 1
        BY <2>2
    <2>4. q * n >= n
        BY <2>2, <2>3
    <2> DEFINE y == q * n
    <2>5. FlashBase = y /\ y >= n
        BY <2>1, <2>4 DEF n
    <2> HIDE DEF y
    <2> QED BY <1>1, <2>2, <2>5 DEF n
<1>3. IsChip(chip) /\ DOMAIN chip.m_mem = 0 .. MemBytes - 1
    BY DEF FlashTypes, SectorsInv, MemTyped
<1>4. EraseAddr(chip) = s
    BY DEF EraseAddr
<1>5. SectorOf(s) = s
    <2>1. s <= s /\ s < s + SectorBytes
        BY <1>1
    <2> QED BY <1>1, <2>1, SameSector
<1>6. ASSUME NEW a \in 0 .. MemBytes - 1 PROVE a \notin SectorAt(chip)
    <2>1. a \in Int /\ SectorOf(a) <= a /\ SectorOf(a) \in Int
        BY <1>1, SectorOfIs
    <2>2. SectorOf(a) # s
        BY <1>1, <1>2, <2>1
    <2> QED BY <1>4, <1>5, <2>2 DEF SectorAt
<1>7. Erased(chip, SectorAt(chip)) = [a \in 0 .. MemBytes - 1 |-> chip.m_mem[a]]
    BY <1>3, <1>6 DEF Erased
<1>8. Erased(chip, SectorAt(chip)) = chip.m_mem
    <2>1. chip.m_mem \in [0 .. MemBytes - 1 -> Byte]
        BY DEF SectorsInv, MemTyped
    <2> QED BY <1>7, <2>1
<1>9. PICK d : d = chip'
    OBVIOUS
<1>10. d.m_mem = chip.m_mem \/ d.m_mem = Erased(chip, SectorAt(chip))
    BY <1>3, <1>9, DeselectMemory
<1> QED BY <1>8, <1>9, <1>10

\* What the loader sends changes nothing before the sector, or page, it is at.
LEMMA SendsBeyond ==
    ASSUME LoaderInv, PagesInv, SectorsInv, LoadsAsBuilt, SendByte, Busy, found,
           NEW a \in FlashAddrs, chip'.m_mem[a - FlashBase] # chip.m_mem[a - FlashBase]
    PROVE  Acting /\ a \in Int /\ s <= a /\ (pc = "writing" => p <= a)
<1>1. FlashTypes /\ IsChip(chip) /\ SectorUnderWay /\ SectorsAsBuilt
    BY DEF LoaderInv, FlashTypes, SectorsInv, LoadsAsBuilt
<1>2. chip'.m_mem # chip.m_mem
    OBVIOUS
<1>3. /\ Acting /\ Len(out) = 4 /\ Sent \in Nat /\ Sent + 4 = Len(Script)
      /\ Sent >= CommandAt /\ chip.m_state = Operation /\ chip' \in Deselect(chip)
    BY <1>2, SendMemory
<1>4. Told
    BY <1>1, <1>3 DEF SectorUnderWay
<1>5. CASE pc = "erasing"
    <2>1. Sent - CommandAt - 1 = 0
        <3>1. Len(Bytes("erasing")) = 9
            BY ScriptIs
        <3>2. Len(Script) = 9 /\ CommandAt = 4
            BY <1>5, <3>1 DEF Script, CommandAt, CommandOf
        <3> QED BY <1>3, <3>2
    <2>2. chip.m_addr = s /\ chip.m_state = "SECTOR_ERASE"
        BY <1>3, <1>4, <1>5, <2>1 DEF Told, Operation
    <2>3. chip.kind = "chip"
        BY <1>1, <1>2, <1>3, <1>5, <2>2, ErasesNothing
    <2>4. a \in Int /\ s <= a
        BY <1>1, <1>3, <1>5, <2>2, <2>3, EraseChanges
    <2> QED BY <1>3, <1>5, <2>4
<1>6. CASE pc = "writing"
    <2>1. PageLength \in Nat \ {0}
        BY <1>1, <1>6, PageInside
    <2>2. Sent - CommandAt - 1 = PageLength
        <3>1. Len(Bytes("writing")) = PageLength + 10
            BY <2>1, ScriptIs
        <3>2. Len(Script) = PageLength + 10 /\ CommandAt = 5
            BY <1>6, <3>1 DEF Script, CommandAt, CommandOf
        <3> QED BY <1>3, <2>1, <3>2
    <2>3. /\ PageOf(chip.m_addr) = PageOf(p) - FlashBase /\ Buffered(PageLength)
          /\ chip.m_state = "PP"
        BY <1>3, <1>4, <1>6, <2>1, <2>2 DEF Told, Operation
    <2>4. a \in Int /\ s <= a /\ p <= a
        BY <1>1, <1>3, <1>6, <2>3, ProgramChanges
    <2> QED BY <1>3, <2>4
<1> QED BY <1>3, <1>5, <1>6 DEF Acting

LEMMA InFlashSend ==
    ASSUME LoaderInv, PagesInv, SectorsInv, LoadsAsBuilt, InFlashInv, found, Busy, SendByte
    PROVE  InFlashInv'
<1>1. /\ pc' = pc /\ startaddr' = startaddr /\ codelen' = codelen
      /\ data' = data /\ s' = s /\ p' = p /\ at' = at /\ newv' = newv
    BY DEF SendByte, Send, loaderVars, drvrVars
<1>2. s \in Int /\ p \in Int
    BY DEF LoaderInv, FlashTypes
<1>3. \A a \in FlashAddrs : a < s => chip'.m_mem[a - FlashBase] = chip.m_mem[a - FlashBase]
    BY <1>2, SendsBeyond
<1>4. \A a \in FlashAddrs : PageByPage /\ a < p => chip'.m_mem[a - FlashBase] = chip.m_mem[a - FlashBase]
    BY <1>2, SendsBeyond DEF Acting, PageByPage
<1>5. ~Acting => chip'.m_mem = chip.m_mem
    BY SendMemory
<1>6. BySector' = BySector /\ PageByPage' = PageByPage
    BY <1>1 DEF BySector, PageByPage
<1>7. PICK x, y, z, u : /\ x = s /\ y = (IF newv = 0 THEN at ELSE newv) /\ z = p
                        /\ u = startaddr + codelen
    OBVIOUS
<1>8. (BySector \/ PageByPage)' => s' = x /\ DoneTo(x)'
    <2> SUFFICES ASSUME BySector \/ PageByPage PROVE DoneTo(x)'
        BY <1>1, <1>6, <1>7
    <2>1. DoneTo(x)
        BY <1>7 DEF InFlashInv
    <2> QED BY <1>1, <1>3, <1>7, <2>1, DoneStays
<1>9. pc' = "compare" => /\ y = (IF newv' = 0 THEN at' ELSE newv') /\ DoneTo(y)'
                         /\ OnWord(at') /\ (newv' # 0 => OnWord(newv'))
    <2> SUFFICES ASSUME pc = "compare" 
                 PROVE  DoneTo(y)' /\ OnWord(at) /\ (newv # 0 => OnWord(newv))
        BY <1>1, <1>7
    <2>1. DoneTo(y) /\ OnWord(at) /\ (newv # 0 => OnWord(newv))
        BY <1>7 DEF InFlashInv
    <2>2. DoneTo(y)'
        BY <1>1, <1>5, <2>1, DoneStays DEF Acting
    <2> QED BY <2>1, <2>2
<1>10. PageByPage' => p' = z /\ DoneTo(z)' /\ OnWord(z)
    <2> SUFFICES ASSUME PageByPage PROVE DoneTo(z)' /\ OnWord(z)
        BY <1>1, <1>6, <1>7
    <2>1. DoneTo(z) /\ OnWord(z)
        BY <1>7 DEF InFlashInv
    <2>2. DoneTo(z)'
        BY <1>1, <1>4, <1>7, <2>1, DoneStays
    <2> QED BY <2>1, <2>2
<1>11. pc' = "start" => \E v : v = (startaddr + codelen)' /\ DoneTo(v)'
    <2> SUFFICES ASSUME pc = "start" PROVE DoneTo(u)'
        BY <1>1, <1>7
    <2>1. DoneTo(u)
        BY <1>7 DEF InFlashInv
    <2> QED BY <1>1, <1>5, <2>1, DoneStays DEF Acting
<1>12. pc' # "done"
    BY <1>1 DEF Busy
<1> QED BY <1>8, <1>9, <1>10, <1>11, <1>12, InFlashThere

-----------------------------------------------------------------------------
(* What users send, and the steps of the loader.                              *)

\* The other commands lead to no state in which the chip writes.
LEMMA OthersAre ==
    ASSUME NEW c, IsChip(c), NEW cmd \in DOMAIN OtherState
    PROVE  StateAfter(c, cmd) \notin Writing
<1>1. /\ cmd \in {"READ", "WRDI", "RDSR", "WREN", "CLSR", "RDCR", "RDID", "RES", "DP", "EMPTY"}
      /\ OtherState[cmd] \in {"SLOW_READ", "IDLE", "RDSR", "CLSR", "RDCR", "RDID", "RELEASE"}
    BY DEF OtherState
<1>2. cmd \notin DOMAIN WriteState
    BY <1>1 DEF WriteState
<1>3. StateAfter(c, cmd) \in {"INVALID", OtherState[cmd]}
    BY <1>2 DEF StateAfter
<1> QED BY <1>1, <1>3 DEF Writing

LEMMA HarmlessSend ==
    ASSUME FlashTypes, Harmless, SendByte
    PROVE  Harmless' /\ chip'.m_mem = chip.m_mem
<1>1. /\ IsChip(chip) /\ chip.m_count \in 0 .. 4 /\ IsSeq(out) /\ out # <<>>
      /\ CfgWrite(Head(out)) /\ out' = Tail(out)
    BY DEF FlashTypes, SendByte, Send
<1>2. PICK b, r : b = Head(out) /\ r = Tail(out)
    OBVIOUS
<1>3. /\ b = out[1] /\ Len(out) \in Nat \ {0} /\ Len(r) = Len(out) - 1
      /\ \A k \in 1 .. Len(out) - 1 : r[k] = out[k + 1]
    BY <1>1, <1>2, TailIs
<1>4. CfgWrite(b) /\ (b.t = "end" \/ (b.t = "cmd" /\ b.cmd \in DOMAIN OtherState))
    BY <1>1, <1>2, <1>3 DEF Harmless
<1>5. chip.m_state \notin Writing
    BY DEF Harmless
<1>6. chip'.m_mem = chip.m_mem
    <2>1. CASE chip' \in Deselect(chip)
        <3>1. PICK d : d = chip'
            OBVIOUS
        <3>2. d.m_mem = chip.m_mem
            BY <1>1, <1>5, <2>1, <3>1, DeselectMemory DEF Writing
        <3> QED BY <3>1, <3>2
    <2> QED BY <1>1, <1>4, <2>1, OnlyEndChanges
<1>7. chip'.m_state \notin Writing
    <2>1. CASE b.t = "end"
        <3>1. chip' \in IF cfg_user_mode THEN Deselect(chip) ELSE {chip}
            BY <1>4, <2>1 DEF CfgWrite
        <3>2. CASE chip' = chip
            BY <1>5, <3>2
        <3>3. CASE chip' \in Deselect(chip)
            <4>1. PICK d : d = chip'
                OBVIOUS
            <4>2. d.m_state \in {"IDLE", chip.m_state}
                BY <1>1, <3>3, <4>1, DeselectIs
            <4> QED BY <1>5, <4>1, <4>2 DEF Writing
        <3> QED BY <3>1, <3>2, <3>3
    <2>2. CASE b.t = "cmd" /\ b.cmd \in DOMAIN OtherState
        <3>1. chip' = IF chip.m_count = 0 THEN Command(chip, b.cmd) ELSE Data(chip, {})
            BY <1>4, <2>2 DEF CfgWrite, Shifted
        <3>2. Data(chip, {}).m_state = chip.m_state
            BY <1>1, DataIs
        <3>3. Command(chip, b.cmd).m_state \in {chip.m_state, StateAfter(chip, b.cmd)}
            BY <1>1 DEF Command, IsChip
        <3> QED BY <1>1, <1>5, <2>2, <3>1, <3>2, <3>3, OthersAre
    <2> QED BY <1>4, <2>1, <2>2
<1>8. \A i \in 1 .. Len(r) : r[i].t = "end" \/ (r[i].t = "cmd" /\ r[i].cmd \in DOMAIN OtherState)
    <2> TAKE i \in 1 .. Len(r)
    <2>1. i + 1 \in 1 .. Len(out) /\ r[i] = out[i + 1]
        BY <1>3
    <2> QED BY <2>1 DEF Harmless
<1> QED BY <1>1, <1>2, <1>6, <1>7, <1>8 DEF Harmless

\* What a user's program is about to send.
LEMMA SessionHarmless ==
    ASSUME LoadsAsBuilt, UserSession, Harmless
    PROVE  Harmless'
<1>1. UserCommands \subseteq DOMAIN OtherState
    BY DEF LoadsAsBuilt
<1>2. chip' = chip
    BY DEF UserSession, flashVars
<1>3. PICK q : q = out'
    OBVIOUS
<1>4. q \in {FlashId} \cup WbRegs
    BY <1>3 DEF UserSession
<1>5. \A i \in 1 .. Len(q) : q[i].t = "end" \/ (q[i].t = "cmd" /\ q[i].cmd \in DOMAIN OtherState)
    <2>1. CASE q = FlashId
        <3>1. Len(q) = 5 /\ q[1] = End /\ q[2] = Cmd("RDID") /\ q[3] = Cmd("EMPTY")
              /\ q[4] = Cmd("EMPTY") /\ q[5] = End
            BY <2>1 DEF FlashId
        <3>2. "RDID" \in DOMAIN OtherState /\ "EMPTY" \in DOMAIN OtherState
            BY DEF OtherState
        <3>3. \A i \in 1 .. 5 : i = 1 \/ i = 2 \/ i = 3 \/ i = 4 \/ i = 5
            OBVIOUS
        <3> QED BY <3>1, <3>2, <3>3 DEF End, Cmd
    <2>2. CASE q \in WbRegs
        <3>1. PICK c \in UserCommands : q = <<Cmd(c), End>>
            BY <2>2 DEF WbRegs
        <3>2. Len(q) = 2 /\ q[1] = Cmd(c) /\ q[2] = End /\ c \in DOMAIN OtherState
            BY <1>1, <3>1
        <3>3. \A i \in 1 .. 2 : i = 1 \/ i = 2
            OBVIOUS
        <3> QED BY <3>2, <3>3 DEF End, Cmd
    <2> QED BY <1>4, <2>1, <2>2
<1> QED BY <1>2, <1>3, <1>5 DEF Harmless

\* A step that is not the loader's changes nothing of what is said.
LEMMA InFlashSame ==
    ASSUME InFlashInv, found, UNCHANGED <<pc, startaddr, codelen, data, s, p, at, newv>>,
           chip'.m_mem = chip.m_mem, pc = "done" => Harmless'
    PROVE  InFlashInv'
<1>1. /\ pc' = pc /\ startaddr' = startaddr /\ codelen' = codelen
      /\ data' = data /\ s' = s /\ p' = p /\ at' = at /\ newv' = newv
    OBVIOUS
<1>2. \A x : DoneTo(x) => DoneTo(x)'
    BY <1>1, DoneStays
<1>3. BySector' = BySector /\ PageByPage' = PageByPage
    BY <1>1 DEF BySector, PageByPage
<1>4. PICK x, y, z, u : /\ x = s /\ y = (IF newv = 0 THEN at ELSE newv) /\ z = p
                        /\ u = startaddr + codelen
    OBVIOUS
<1>5. /\ BySector \/ PageByPage => DoneTo(x)'
      /\ pc = "compare" => DoneTo(y)' /\ OnWord(at) /\ (newv # 0 => OnWord(newv))
      /\ PageByPage => DoneTo(z)' /\ OnWord(z)
      /\ pc \in {"start", "done"} => DoneTo(u)'
    BY <1>2, <1>4 DEF InFlashInv
<1>6. (BySector \/ PageByPage)' => DoneTo(s)'
    BY <1>1, <1>3, <1>4, <1>5 DEF DoneTo
<1>7. pc' = "compare" => DoneTo(IF newv = 0 THEN at ELSE newv)'
    BY <1>1, <1>4, <1>5 DEF DoneTo
<1>8. pc' = "compare" => OnWord(at)' /\ (newv' # 0 => OnWord(newv)')
    BY <1>1, <1>5 DEF OnWord
<1>9. PageByPage' => DoneTo(p)' /\ OnWord(p)'
    BY <1>1, <1>3, <1>4, <1>5 DEF DoneTo, OnWord
<1>10. pc' \in {"start", "done"} => DoneTo(startaddr + codelen)'
    BY <1>1, <1>4, <1>5 DEF DoneTo
<1>11. pc' = "done" => Harmless'
    BY <1>1
<1> QED BY <1>6, <1>7, <1>8, <1>9, <1>10, <1>11 DEF InFlashInv

LEMMA InFlashInit == Init => InFlashInv
BY DEF Init, InFlashInv

\* The driver begins with the first sector; there may be nothing to write.
LEMMA InFlashWriteFlash ==
    ASSUME FlashTypes, PagesInv, LoadsAsBuilt, WriteFlash
    PROVE  InFlashInv'
<1>1. /\ pc = "section" /\ pc' \in {"sector", "start"} /\ (pc' = "start" => codelen <= 0)
      /\ s' = SectorOf(startaddr) /\ startaddr' = startaddr /\ codelen' = codelen
      /\ data' = data /\ chip' = chip /\ startaddr \in Int /\ codelen \in Int
    BY DEF WriteFlash, Goto, loaderVars, flashVars, FlashTypes
<1>2. startaddr = FlashBase /\ FlashBase \in Int /\ MemBytes \in Nat /\ IsSector(FlashBase)
      /\ SectorBytes \in Nat \ {0}
    BY <1>1, FlashIs DEF PagesInv, LoadsAsBuilt
<1>3. s' = FlashBase
    <2> DEFINE x == FlashBase
    <2>1. x \in Int /\ IsSector(x) /\ x < x + SectorBytes
        BY <1>2
    <2> HIDE DEF x
    <2>2. SectorOf(x) = x
        BY <2>1, SameSector
    <2> QED BY <1>1, <1>2, <2>2 DEF x
<1>4. \A a \in FlashAddrs : a \in Int /\ ~(a < FlashBase)
    BY <1>2 DEF FlashAddrs
<1>5. DoneTo(FlashBase)
    BY <1>4 DEF DoneTo
<1>6. pc' = "start" => DoneTo(startaddr + codelen)
    <2> SUFFICES ASSUME codelen <= 0 PROVE DoneTo(startaddr + codelen)
        BY <1>1
    <2>1. WordsEnd \in Int /\ WordsEnd <= startaddr
        BY <1>1, WordsEndIs
    <2>2. startaddr + codelen \in Int
        BY <1>1
    <2> QED BY <1>2, <1>5, <2>1, <2>2, DoneLess
<1>7. \A x : DoneTo(x) => DoneTo(x)'
    BY <1>1, DoneStays
<1>8. PICK x, u : x = FlashBase /\ u = startaddr + codelen
    OBVIOUS
<1>9. (BySector \/ PageByPage)' => s' = x /\ DoneTo(x)'
    BY <1>3, <1>5, <1>7, <1>8
<1>10. pc' = "start" => \E v : v = (startaddr + codelen)' /\ DoneTo(v)'
    BY <1>1, <1>6, <1>7, <1>8
<1>11. pc' # "compare" /\ ~PageByPage' /\ pc' # "done"
    BY <1>1 DEF PageByPage
<1> QED BY <1>9, <1>10, <1>11, InFlashThere

\* The loader is done as it clears the CPU's registers.
LEMMA InFlashStartCpu ==
    ASSUME LoaderInv, InFlashInv, found, StartCpu
    PROVE  InFlashInv'
<1>1. /\ pc = "start" /\ pc' = "done" /\ out = <<>> /\ out' = out /\ chip' = chip
      /\ startaddr' = startaddr /\ codelen' = codelen /\ data' = data
    BY DEF StartCpu, Goto, loaderVars, flashVars, drvrVars
<1>2. IsDone
    BY <1>1 DEF LoaderInv, LoaderKnows, Between, Busy, Acting
<1>3. chip.m_state \notin Writing
    BY <1>2 DEF IsDone, Resting, Writing
<1>4. Harmless'
    BY <1>1, <1>3 DEF Harmless
<1>5. PICK u : u = startaddr + codelen
    OBVIOUS
<1>6. DoneTo(u)
    BY <1>1, <1>5 DEF InFlashInv
<1>7. DoneTo(u)'
    BY <1>1, <1>6, DoneStays
<1>8. DoneTo(startaddr + codelen)'
    BY <1>1, <1>5, <1>7 DEF DoneTo
<1>9. ~BySector' /\ ~PageByPage' /\ pc' # "compare"
    BY <1>1 DEF BySector, PageByPage
<1> QED BY <1>4, <1>8, <1>9 DEF InFlashInv

LEMMA InFlashStep ==
    ASSUME LoadsAsBuilt
    PROVE  LoaderInv /\ PagesInv /\ SectorsInv /\ InFlashInv /\ [Next]_vars => InFlashInv'
<1> SUFFICES ASSUME LoaderInv, PagesInv, SectorsInv, InFlashInv, [Next]_vars PROVE InFlashInv'
    OBVIOUS
<1>1. FlashTypes /\ IsChip(chip)
    BY DEF LoaderInv, FlashTypes
<1>2. CASE ~found'
    BY <1>2 DEF InFlashInv
<1>3. CASE Start \/ Kill \/ CheckSections \/ LoadBkram \/ ToFlash
    <2>1. pc' \in {"check", "killed", "section", "failed"}
        BY <1>3 DEF Start, Kill, CheckSections, LoadBkram, ToFlash, Goto
    <2> QED BY <2>1 DEF InFlashInv, BySector, PageByPage
<1>4. found' = found \/ Start
    BY DEF vars, countVars, Next, Loader, UserSession, DumpFlash, CheckSections, LoadBkram, ToFlash,
        WriteFlash, Driver, StartCpu, SendByte, Kill, ChipDone
<1>5. CASE found /\ UNCHANGED vars
    <2>1. UNCHANGED <<pc, startaddr, codelen, data, s, p, at, newv, chip, out>>
        BY <1>5 DEF vars, flashVars, drvrVars, loaderVars
    <2>2. pc = "done" => Harmless'
        BY <1>5, <2>1 DEF InFlashInv, Harmless
    <2> QED BY <1>5, <2>1, <2>2, InFlashSame
<1>6. CASE found /\ UserSession
    <2>1. UNCHANGED <<pc, startaddr, codelen, data, s, p, at, newv, chip>>
        BY <1>6 DEF UserSession, flashVars, drvrVars, loaderVars
    <2>2. pc = "done" => Harmless'
        BY <1>6, SessionHarmless DEF InFlashInv
    <2> QED BY <1>6, <2>1, <2>2, InFlashSame
<1>7. CASE found /\ DumpFlash
    <2>1. UNCHANGED <<pc, startaddr, codelen, data, s, p, at, newv, out>>
        BY <1>7 DEF DumpFlash, drvrVars, loaderVars
    <2>2. PICK a : chip' = ChipAfterRead(a)
        BY <1>7 DEF DumpFlash
    <2>3. chip'.m_mem = chip.m_mem
        BY <1>1, <2>2, ReadMemory
    <2>4. chip'.m_state \in {chip.m_state, "SLOW_READ"}
        BY <1>1, <2>2, ReadKeeps DEF FlashTypes
    <2>5. pc = "done" => Harmless'
        BY <1>7, <2>1, <2>4 DEF InFlashInv, Harmless, Writing
    <2> QED BY <1>7, <2>1, <2>3, <2>5, InFlashSame
<1>8. CASE found /\ ChipDone
    <2>1. UNCHANGED <<pc, startaddr, codelen, data, s, p, at, newv, out>> /\ chip' = WriteDone(chip)
        BY <1>8 DEF ChipDone, drvrVars, loaderVars
    <2>2. chip'.m_mem = chip.m_mem /\ chip'.m_state = chip.m_state
        BY <1>1, <2>1, WriteDoneIs
    <2>3. pc = "done" => Harmless'
        BY <1>8, <2>1, <2>2 DEF InFlashInv, Harmless
    <2> QED BY <1>8, <2>1, <2>2, <2>3, InFlashSame
<1>9. CASE found /\ SendByte
    <2>1. CASE Busy
        BY <1>9, <2>1, InFlashSend
    <2>2. CASE ~Busy /\ pc = "done"
        <3>1. UNCHANGED <<pc, startaddr, codelen, data, s, p, at, newv>>
            BY <1>9 DEF SendByte, Send, drvrVars, loaderVars
        <3>2. Harmless' /\ chip'.m_mem = chip.m_mem
            BY <1>1, <1>9, <2>2, HarmlessSend DEF InFlashInv
        <3> QED BY <1>9, <3>1, <3>2, InFlashSame
    <2>3. CASE ~Busy /\ pc # "done"
        <3>1. pc' = pc
            BY <1>9 DEF SendByte, Send
        <3> QED BY <2>3, <3>1 DEF InFlashInv, BySector, PageByPage, Busy
    <2> QED BY <2>1, <2>2, <2>3
<1>10. CASE found /\ WriteFlash
    BY <1>1, <1>10, InFlashWriteFlash
<1>11. CASE found /\ StartCpu
    BY <1>11, InFlashStartCpu
<1>12. CASE found /\ Driver
    <2>1. BySector \/ PageByPage
        BY <1>12 DEF Driver, Write, NextSector, Compare, Compared2, WhileWip, VerifyErase, Page,
            VerifyPage, PagesDone, Goto, BySector, PageByPage
    <2> QED BY <1>12, <2>1, InFlashDriver
<1>13. CASE found' /\ ~found
    BY <1>3, <1>4, <1>13
<1> QED BY <1>2, <1>3, <1>5, <1>6, <1>7, <1>8, <1>9, <1>10, <1>11, <1>12, <1>13 DEF Next, Loader
-----------------------------------------------------------------------------
(* What is loaded.                                                            *)

\* The headers that have bytes are sections, as only the last ones are empty.
LEMMA HeaderSection ==
    ASSUME prog \in Programs, LoadsAsBuilt, NEW i \in DOMAIN prog.phdr, prog.phdr[i].p_filesz > 0
    PROVE  /\ i \in DOMAIN Sections /\ Sections[i].m_start = prog.phdr[i].p_paddr
           /\ Sections[i].m_len = prog.phdr[i].p_filesz /\ Sections[i].m_data = prog.phdr[i].bytes
           /\ prog.phdr[i].p_paddr \in Int /\ prog.phdr[i].p_filesz \in Nat
<1> DEFINE phdr == prog.phdr
<1>1. PICK n \in Nat :
        /\ n <= Len(phdr) /\ DOMAIN Sections = 1 .. n
        /\ Len(phdr) \in Nat /\ DOMAIN phdr = 1 .. Len(phdr)
        /\ \A k \in 1 .. n :
             /\ Sections[k].m_start = phdr[k].p_paddr
             /\ Sections[k].m_len = phdr[k].p_filesz
             /\ Sections[k].m_data = phdr[k].bytes
             /\ phdr[k].p_filesz # 0
        /\ n < Len(phdr) => phdr[n + 1].p_filesz = 0
        /\ \A k \in DOMAIN phdr : phdr[k].p_paddr \in Int /\ phdr[k].p_filesz \in Nat
    BY SectionsAre
<1>2. Linked(phdr)
    BY DEF LoadsAsBuilt
<1>3. i \in 1 .. n
    <2> SUFFICES ASSUME i > n PROVE FALSE
        BY <1>1
    <2>1. n + 1 \in DOMAIN phdr /\ phdr[n + 1].p_filesz = 0 /\ (n + 1 < i \/ n + 1 = i)
        BY <1>1
    <2>2. n + 1 < i => phdr[i].p_filesz = 0
        BY <1>2, <2>1 DEF Linked
    <2> QED BY <1>1, <2>1, <2>2
<1> QED BY <1>1, <1>3

\* A loader that is done has loaded what is in whole words.
LEMMA DoneLoaded ==
    ASSUME FlashTypes, LoadsAsBuilt, CopiedInv, InFlashInv, found, pc \in {"start", "done"}
    PROVE  Loaded
<1>1. prog \in Programs /\ startaddr \in Int /\ codelen \in Int
    BY DEF FlashTypes
<1>2. AllCopied /\ DoneTo(startaddr + codelen)
    BY DEF CopiedInv, InFlashInv
<1>3. WordsEnd \in Int /\ WordsEnd <= startaddr + codelen
    BY <1>1, WordsEndIs
<1>4. ASSUME NEW i \in DOMAIN prog.phdr, NEW j \in 1 .. prog.phdr[i].p_filesz,
             InWholeWords(prog.phdr[i].p_paddr + j - 1)
      PROVE  MemAt(prog.phdr[i].p_paddr + j - 1) = prog.phdr[i].bytes[j]
    <2> DEFINE h == prog.phdr[i]  a == h.p_paddr + j - 1
    <2>1. h.p_filesz > 0
        <3>1. h.p_filesz \in Nat
            BY <1>1, SectionsAre
        <3> QED BY <1>4, <3>1
    <2>2. /\ i \in DOMAIN Sections /\ Sections[i].m_start = h.p_paddr
          /\ Sections[i].m_len = h.p_filesz /\ Sections[i].m_data = h.bytes
          /\ h.p_paddr \in Int /\ h.p_filesz \in Nat
        BY <1>1, <2>1, HeaderSection
    <2>3. Held(a) = h.bytes[j]
        BY <1>2, <2>2 DEF AllCopied, Copied
    <2>4. CASE a \in FlashAddrs
        <3>1. a \in Int /\ a < WordsEnd
            BY <1>4, <2>2, <2>4 DEF InWholeWords, WordsEnd
        <3> HIDE DEF a
        <3>2. a < startaddr + codelen
            BY <1>1, <1>3, <3>1
        <3>3. chip.m_mem[a - FlashBase] = data[a]
            BY <1>2, <2>4, <3>1, <3>2 DEF DoneTo
        <3>4. MemAt(a) = h.bytes[j]
            BY <2>3, <2>4, <3>3 DEF Held, MemAt
        <3> QED BY <3>4 DEF a
    <2>5. CASE a \notin FlashAddrs
        BY <2>3, <2>5 DEF Held, MemAt
    <2> QED BY <2>4, <2>5
<1> QED BY <1>4 DEF Loaded

-----------------------------------------------------------------------------
(* What dumpflash writes.                                                     *)

LEMMA MaxIs ==
    ASSUME NEW n \in Nat, NEW T \in SUBSET (0 .. n), T # {}
    PROVE  Max(T) \in T /\ \A y \in T : Max(T) >= y
<1> DEFINE D == {n - y : y \in T}
<1>1. D \in SUBSET Nat /\ D # {}
    <2>1. \A y \in T : n - y \in Nat
        OBVIOUS
    <2>2. PICK y : y \in T
        OBVIOUS
    <2>3. n - y \in D
        BY <2>2
    <2>4. \A d \in D : d \in Nat
        BY <2>1
    <2> QED BY <2>3, <2>4
<1>2. Min(D) \in D /\ \A y \in D : Min(D) <= y
    <2> HIDE DEF D
    <2> QED BY <1>1, MinIs
<1>3. PICK m \in T : Min(D) = n - m
    BY <1>2
<1>4. \A y \in T : m >= y
    <2> TAKE y \in T
    <2>1. n - y \in D
        OBVIOUS
    <2>2. n - m <= n - y
        <3> HIDE DEF D
        <3> QED BY <1>2, <1>3, <2>1
    <2> QED BY <2>2
<1> QED BY <1>4 DEF Max

\* A word of the flash, as dumpflash reads it.
LEMMA WordDumped ==
    ASSUME SectorsAsBuilt, Ready, NEW i \in 0 .. (MemBytes \div WordBytes) - 1
    PROVE  LET word == BusRead(FlashBase + i * WordBytes) IN
           /\ DOMAIN word = 0 .. WordBytes - 1
           /\ \A b \in 0 .. WordBytes - 1 : word[b] = chip.m_mem[i * WordBytes + b]
<1> DEFINE w == WordBytes  n == MemBytes \div w  a == FlashBase + i * w
<1>1. /\ w \in Nat \ {0} /\ FlashBase \in Int /\ MemBytes \in Nat \ {0}
      /\ \A c \in 0 .. MemBytes - 1 : c % MemBytes = c
    BY FlashIs
<1>2. n \in Nat /\ n * w <= MemBytes /\ n * w \in Nat /\ i \in 0 .. n - 1
    <2> DEFINE M == MemBytes
    <2>1. M \in Nat \ {0} /\ M % w \in 0 .. w - 1 /\ M \div w \in Nat /\ M = (M \div w) * w + (M % w)
        <3>1. M \in Nat \ {0}
            BY <1>1
        <3> HIDE DEF M, w
        <3> QED BY <1>1, <3>1
    <2> DEFINE y == n * w
    <2>2. M = y + (M % w) /\ y \in Nat
        <3>1. n \in Nat
            BY <2>1
        <3>2. y \in Nat
            <4> HIDE DEF n, w
            <4> QED BY <1>1, <3>1
        <3> QED BY <2>1, <3>2
    <2>3. y <= M
        <3> HIDE DEF y, w
        <3> QED BY <2>1, <2>2
    <2> QED BY <2>1, <2>2, <2>3
<1>3. i * w \in Nat /\ i * w + w <= MemBytes
    <2> HIDE DEF n, w
    <2>1. (i + 1) * w <= n * w
        BY <1>1, <1>2
    <2>2. (i + 1) * w = i * w + w /\ i * w \in Nat
        BY <1>1, <1>2
    <2> DEFINE x == i * w  y == n * w
    <2>3. x \in Nat /\ y \in Nat /\ x + w <= y /\ y <= MemBytes
        BY <1>2, <2>1, <2>2
    <2> HIDE DEF x, y
    <2>4. x + w <= MemBytes
        BY <1>1, <2>3
    <2> QED BY <2>3, <2>4 DEF x
<1> DEFINE x == i * w
<1>4. x \in Nat /\ x + w <= MemBytes /\ a = FlashBase + x
    BY <1>3
<1> HIDE DEF x, a, w, n
<1>5. a \in FlashAddrs /\ a - FlashBase = x /\ \A b \in 0 .. w - 1 : x + b \in 0 .. MemBytes - 1
    BY <1>1, <1>4 DEF FlashAddrs
<1>6. ~cfg_user_mode /\ "DPD" \notin chip.m_sreg /\ "WIP" \notin chip.m_sreg
    BY DEF Ready
<1>7. DOMAIN BusRead(a) = 0 .. w - 1
    BY <1>5, <1>6 DEF BusRead, SlowRead, w
<1>8. ASSUME NEW b \in 0 .. w - 1 PROVE BusRead(a)[b] = chip.m_mem[x + b]
    <2>1. BusRead(a)[b] = chip.m_mem[(a - FlashBase + b) % MemBytes]
        BY <1>5, <1>6, BusReadIs DEF w
    <2> QED BY <1>1, <1>5, <2>1
<1> QED BY <1>7, <1>8 DEF a, x, w

LEMMA Dumps ==
    ASSUME SectorsAsBuilt, Ready, DumpFlash
    PROVE  DumpIsFlash
<1> DEFINE N == MemBytes \div WordBytes
           words == [i \in 0 .. N - 1 |-> BusRead(FlashBase + i * WordBytes)]
           T == {0} \cup {i \in DOMAIN words : \E b \in DOMAIN words[i] : words[i][b] # Ones}
           m == Max(T)
<1>1. dump' = [i \in 0 .. DumpedWords(words) - 1 |-> words[i]]
    BY DEF DumpFlash
<1>2. DumpedWords(words) = m + 1
    BY DEF DumpedWords
<1>3. N \in Nat
    <2>1. WordBytes \in Nat \ {0} /\ MemBytes \in Nat \ {0}
        BY FlashIs
    <2> QED BY <2>1
<1>4. \A i \in 0 .. N - 1 :
        /\ DOMAIN words[i] = 0 .. WordBytes - 1
        /\ \A b \in 0 .. WordBytes - 1 : words[i][b] = chip.m_mem[i * WordBytes + b]
    BY WordDumped
<1>5. T \in SUBSET (0 .. N) /\ T # {} /\ DOMAIN words = 0 .. N - 1
    <2> HIDE DEF N
    <2> QED BY <1>3
<1>6. m \in T /\ \A y \in T : m >= y
    <2> HIDE DEF T, N
    <2> QED BY <1>3, <1>5, MaxIs
<1>7. m \in Nat
    <2>1. m \in T /\ T \in SUBSET (0 .. N)
        BY <1>5, <1>6
    <2> HIDE DEF T, N, m
    <2> QED BY <1>3, <2>1
<1>8. \A i \in 0 .. N - 1 : i > m => \A b \in 0 .. WordBytes - 1 : words[i][b] = Ones
    <2> SUFFICES ASSUME NEW i \in 0 .. N - 1, i > m, NEW b \in 0 .. WordBytes - 1, words[i][b] # Ones
                 PROVE  FALSE
        OBVIOUS
    <2>1. i \in T
        <3>1. i \in DOMAIN words /\ b \in DOMAIN words[i]
            BY <1>4, <1>5
        <3> HIDE DEF words
        <3> QED BY <3>1
    <2> HIDE DEF T, N, m, words
    <2> QED BY <1>3, <1>6, <1>7, <2>1
<1> HIDE DEF words, T, m, N
<1>9. dump' = [i \in 0 .. m |-> words[i]]
    BY <1>1, <1>2, <1>7
<1>10. ASSUME NEW i \in 0 .. N - 1, NEW b \in 0 .. WordBytes - 1
       PROVE  chip.m_mem[i * WordBytes + b] = IF i \in DOMAIN dump' THEN dump'[i][b] ELSE Ones
    <2>1. CASE i <= m
        <3>1. i \in DOMAIN dump' /\ dump'[i] = words[i]
            BY <1>3, <1>7, <1>9, <2>1
        <3> QED BY <1>4, <3>1
    <2>2. CASE i > m
        <3>1. i \notin DOMAIN dump'
            BY <1>3, <1>7, <1>9, <2>2
        <3> QED BY <1>4, <1>8, <2>2, <3>1
    <2> QED BY <1>3, <1>7, <2>1, <2>2
<1> QED BY <1>10 DEF DumpIsFlash, N

\* A loader that found the flash ready and says that the program is loaded, or
\* starts the CPU (zipload.cpp:378), has loaded all of it that is in whole words
\* (flashdrvr.cpp:209), for every program, chip and flash, whenever loaders are
\* killed and users send commands; and what dumpflash writes (dumpflash.cpp:150)
\* is the flash - where the stack held no length that ends in the flash
\* (StaleHarmless): with one that does, bytes of the program may be left out.
THEOREM LoadedAsSaid == ASSUME LoadsAsBuilt PROVE Spec /\ []StaleHarmless => DoneAsSaid
<1> DEFINE Good == pc \in {"start", "done"} /\ found => Loaded
           Step ==
             /\ pc' = "done" /\ found' => Loaded'
             /\ Starts /\ found => Loaded
             /\ dump' # dump /\ Ready => DumpIsFlash
           Inv == PagesInv /\ SectorsInv /\ CopiedInv /\ InFlashInv
<1>1. SectorsAsBuilt /\ PagesAsBuilt
    BY DEF LoadsAsBuilt, SectorsAsBuilt
<1>2. Init => Inv
    BY PagesInit, SectorsInit, CopiedInit, InFlashInit
<1>3. LoaderInv /\ LoaderInv' /\ Inv /\ StaleHarmless /\ [Next]_vars => Inv'
    <2> SUFFICES ASSUME LoaderInv, LoaderInv', Inv, StaleHarmless, [Next]_vars PROVE Inv'
        OBVIOUS
    <2>1. FlashTypes /\ FlashTypes' /\ DataBeyond
        BY DEF LoaderInv, SectorsInv
    <2>2. PagesInv' /\ SectorsInv'
        BY <1>1, <2>1, PagesStep, SectorsStep
    <2>3. CopiedInv'
        BY <2>1, CopiedStep
    <2>4. InFlashInv'
        BY InFlashStep
    <2> QED BY <2>2, <2>3, <2>4
<1>4. LoaderInv /\ Inv => Good
    BY DoneLoaded DEF LoaderInv
<1>5. LoaderInv /\ Good /\ Good' /\ [Next]_vars => [Step]_vars
    <2> SUFFICES ASSUME LoaderInv, Good, Good', Next PROVE Step
        OBVIOUS
    <2>1. pc' = "done" /\ found' => Loaded'
        OBVIOUS
    <2>2. Starts /\ found => Loaded
        <3> SUFFICES ASSUME Starts, found PROVE Loaded
            OBVIOUS
        <3>1. cpu' # cpu /\ cpu'.running
            BY DEF Starts
        <3>2. StartCpu \/ Start
            BY <3>1 DEF Next, Loader, UserSession, DumpFlash, CheckSections, LoadBkram, ToFlash,
                WriteFlash, Driver, SendByte, Kill, ChipDone, boardVars
        <3>3. ~Start
            BY <3>1 DEF Start, LoaderInv, FlashTypes
        <3>4. pc = "start"
            BY <3>2, <3>3 DEF StartCpu, Goto
        <3> QED BY <3>4
    <2>3. dump' # dump /\ Ready => DumpIsFlash
        <3>1. dump' # dump => DumpFlash
            BY DEF Next, Start, UserSession
        <3> QED BY <1>1, <3>1, Dumps
    <2> QED BY <2>1, <2>2, <2>3
<1>6. Spec => []LoaderInv
    BY SpecKeepsLoaderInv
<1>7. DoneAsSaid <=> [][Step]_vars
    BY DEF DoneAsSaid
<1> HIDE DEF Step, Good, Inv
<1> QED BY <1>2, <1>3, <1>4, <1>5, <1>6, <1>7, PTL DEF Spec
=============================================================================
