------------------------------- MODULE MemTest ------------------------------
(* sw/board/memtest.c: four tests of the SDRAM, over and over, each filling it  *)
(* with the values of a shift register and reading them back, and what the      *)
(* supervisor does with a failure.  A word holds two characters; the SDRAM,     *)
(* external, may be faulty.  The LEDs are left out.                             *)
EXTENDS Naturals, Sequences, FiniteSets
CONSTANTS
    LGMEMTEST,              \* the SDRAM's words, 2^19 on the board
    WordBits, TAPS,
    Faults                  \* of the SDRAM: a record each, see MCBoardPrograms
VARIABLES fault, sdram, test_at, test, counts, mptr, fill, dfill
testVars == <<fault, sdram, test_at, test, counts, mptr, fill, dfill>>

MemTestAssumption == LGMEMTEST \in Nat \ {0} /\ WordBits \in Nat /\ TAPS \in Nat
ASSUME MemTestAssumption

Words == 2 ^ LGMEMTEST
MaxWord == 2 ^ WordBits
CharValues == 2 ^ (WordBits \div 2)
MemTestInit ==
    /\ fault \in Faults /\ sdram = [a \in 0 .. Words - 1 |-> 0]
    /\ test_at = "round" /\ test = 1 /\ counts = 0 /\ mptr = 0 /\ fill = 0 /\ dfill = 0

\* STEP: shift right, and exclusive-or with TAPS if a one came out.
Bit(x, b) == (x \div (2 ^ b)) % 2
XorSum[b \in 0 .. WordBits] == [x \in 0 .. MaxWord - 1, y \in 0 .. MaxWord - 1 |->
    IF b = 0 THEN 0
    ELSE XorSum[b - 1][x, y] + (IF Bit(x, b - 1) # Bit(y, b - 1) THEN 2 ^ (b - 1) ELSE 0)]
STEP(f) == IF f % 2 = 1 THEN XorSum[WordBits][f \div 2, TAPS] ELSE f \div 2

\* What a faulty SDRAM does: a word keeps what it has, or two are one.
Cell(a) == IF fault.kind = "alias" /\ a = fault.other THEN fault.cell ELSE a
Written(m, a, v) ==
    IF fault.kind = "stuck" /\ a = fault.cell THEN m ELSE [m EXCEPT ![Cell(a)] = v]
Read(a) == IF fault.kind = "stuck" /\ a = fault.cell THEN fault.value ELSE sdram[Cell(a)]

\* A place in memory: a word or, for test #3, a character; the high half of a
\* word is its first character.
Low(f) == f % CharValues
High(f) == f \div CharValues
Value(f) == IF test = 3 THEN Low(f) ELSE f
Put(m, k, f) ==
    IF test # 3 THEN Written(m, k, f)
    ELSE LET w == m[Cell(k \div 2)] IN
         Written(m, k \div 2, IF k % 2 = 0 THEN (Low(f) * CharValues) + Low(w)
                              ELSE (High(w) * CharValues) + Low(f))
Get(k) == IF test # 3 THEN Read(k) ELSE IF k % 2 = 0 THEN High(Read(k \div 2)) ELSE Low(Read(k \div 2))

\* Tests #1 to #3 go through the places in order, one or three at a time; the
\* last place a stride of three ends at is left out.
Places == IF test = 3 THEN 2 * Words ELSE Words
Stride == IF test = 1 THEN 1 ELSE 3
MorePlaces == IF test = 1 THEN mptr < Places ELSE mptr + 3 < Places
Seed(n) == (counts + (CASE n = 1 -> 0 [] n = 2 -> 4 [] n = 3 -> 19 [] n = 4 -> 0)) % MaxWord
DSeed == (counts + 23) % MaxWord
Steps == LET s == STEP(fill) IN <<s, STEP(s), STEP(STEP(s))>>

\* To the filling or the checking of test n.
StartOn(l, n) ==
    /\ test_at' = l /\ test' = n /\ mptr' = 0 /\ fill' = Seed(n) /\ dfill' = DSeed
    /\ UNCHANGED counts
FAIL == test_at' = "fail" /\ UNCHANGED <<sdram, test, counts, mptr, fill, dfill>>
Advance ==
    /\ mptr' = mptr + Stride /\ fill' = Steps[Stride]
    /\ UNCHANGED <<test_at, test, counts, dfill>>

Round ==
    /\ test_at = "round"
    /\ counts' = IF (counts + 1) % MaxWord = 0 THEN 1 ELSE counts + 1
    /\ test_at' = "fill" /\ test' = 1 /\ fill' = counts' /\ mptr' = 0
    /\ UNCHANGED <<sdram, dfill>>
Fill ==
    /\ test_at = "fill" /\ test < 4
    /\ IF MorePlaces
       THEN /\ sdram' = LET one == Put(sdram, mptr, Steps[1]) IN
                        IF Stride = 1 THEN one
                        ELSE Put(Put(one, mptr + 1, Steps[2]), mptr + 2, Steps[3])
            /\ Advance
       ELSE StartOn("check", test) /\ UNCHANGED sdram
Holds(k, f) == Get(k) = Value(f)
Check ==
    /\ test_at = "check" /\ test < 4
    /\ IF ~MorePlaces THEN StartOn("fill", test + 1) /\ UNCHANGED sdram
       ELSE IF \E k \in 1 .. Stride : ~Holds(mptr + k - 1, Steps[k]) THEN FAIL
       ELSE Advance /\ UNCHANGED sdram

\* #4: at the addresses of a second register, until it is where it started.
Inside(f) == f < Words
BackToZero(f) == f = 0                      \* mutant: where it never is
Back(f) == f = counts
Random ==
    /\ test = 4 /\ test_at \in {"fill", "check"}
    /\ LET f == STEP(fill)  d == STEP(dfill) IN
       IF test_at = "check" /\ Inside(f) /\ Read(f) # d THEN FAIL
       ELSE /\ sdram' = IF test_at = "fill" /\ Inside(f) THEN Written(sdram, f, d) ELSE sdram
            /\ IF ~Back(f)
               THEN fill' = f /\ dfill' = d /\ UNCHANGED <<test_at, test, counts, mptr>>
               ELSE IF test_at = "fill" THEN StartOn("check", 4)
               ELSE test_at' = "round" /\ UNCHANGED <<test, counts, mptr, fill, dfill>>
\* The trap returns to entry(), which triggers the scopes, reports and halts.
Report == test_at = "fail" /\ test_at' = "halted" /\ UNCHANGED <<sdram, test, counts, mptr, fill, dfill>>
TestStep == (Round \/ Fill \/ Check \/ Random \/ Report) /\ UNCHANGED fault
=============================================================================
