----------------------------- MODULE LongDivide -----------------------------
(* sw/zlib/udiv.c and umod.c: what the compiler calls for a division of two     *)
(* longs on a CPU that divides words.  A word has Half bits, a long twice that. *)
EXTENDS Integers
CONSTANTS
    Half,                   \* 32 in the code; a power of two
    SignedOperands,         \* what __divdi3 is given
    UnsignedOperands        \* what __udivdi3 is given
VARIABLES divide_at, x, y, signed, a, b, r, m
divVars == <<divide_at, x, y, signed, a, b, r, m>>

HalfAssumption == Half \in {2, 4, 8}
ASSUME HalfAssumption

WordMax == 2 ^ Half
LongMax == WordMax * WordMax
Hi(v) == v \div WordMax
Lo(v) == v % WordMax
ShiftL(v, n) == (v * 2 ^ n) % LongMax

\* The word counted is the high one, or the low if that is zero; a shift of
\* powers of two, each made when the bits it would shift out are zero (the bits
\* are reversed in the code, and looked at from the other end).
Zeros[v \in 0 .. WordMax - 1, n \in 0 .. Half] ==
    IF n = 0 THEN 0
    ELSE IF v \div (2 ^ (Half - n)) = 0 THEN n + Zeros[ShiftL(v, n) % WordMax, n \div 2]
    ELSE Zeros[v, n \div 2]
cltz(v) == IF Hi(v) = 0 THEN Half + Zeros[Lo(v), Half \div 2] ELSE Zeros[Hi(v), Half \div 2]

Operands == IF signed THEN SignedOperands ELSE UnsignedOperands
Unsigned(v) == v % LongMax
Signed(v) == IF v < LongMax \div 2 THEN v ELSE v - LongMax
Negated(v) == Unsigned(-v)
DivideInit ==
    /\ signed \in BOOLEAN /\ x \in Operands /\ y \in Operands
    /\ divide_at = "start" /\ a = 0 /\ b = 0 /\ r = 0 /\ m = 0

\* A division of words by zero is an exception of the CPU's.
DivideWords(u, v) ==
    IF v = 0 THEN divide_at' = "exception" /\ UNCHANGED r
    ELSE divide_at' = "sign" /\ r' = u \div v
\* __divdi3 divides the magnitudes; the largest negative is its own negation.
Magnitude(v) == IF signed /\ v < 0 THEN Negated(v) ELSE Unsigned(v)
\* __udivdi3: a division of words does, or it is made to, or bit by bit.
InWords(u, v) == Hi(u) = 0 /\ Hi(v) = 0
MadeWords(u, v) == cltz(v) - cltz(u) < Half /\ Lo(ShiftL(v, cltz(u))) = 0
Enter ==
    /\ divide_at = "start"
    /\ LET u == Magnitude(x)  v == Magnitude(y)
           la == cltz(u)      lb == cltz(v)
       IN  IF u < v THEN divide_at' = "sign" /\ r' = 0 /\ UNCHANGED <<a, b, m>>
           ELSE IF InWords(u, v) THEN DivideWords(u, v) /\ UNCHANGED <<a, b, m>>
           ELSE IF MadeWords(u, v)
           THEN /\ DivideWords(Hi(ShiftL(u, la)), Hi(ShiftL(v, la)))
                /\ a' = ShiftL(u, la) /\ b' = ShiftL(v, la) /\ UNCHANGED m
           ELSE /\ divide_at' = "bits" /\ r' = 0
                /\ a' = ShiftL(u, la) /\ b' = ShiftL(v, lb) /\ m' = 2 ^ (lb - la)
AboveOnly(u, v) == u > v                    \* mutant: a remainder may be the divisor
AtLeast(u, v) == u >= v
Subtract ==
    /\ divide_at = "bits"
    /\ IF m = 0 THEN divide_at' = "sign" /\ UNCHANGED <<a, b, r, m>>
       ELSE /\ IF AtLeast(a, b) THEN r' = r + m /\ a' = a - b ELSE UNCHANGED <<r, a>>
            /\ m' = m \div 2 /\ b' = b \div 2 /\ UNCHANGED divide_at
Sign ==
    /\ divide_at = "sign" /\ divide_at' = "done" /\ UNCHANGED <<a, b, m>>
    /\ r' = IF signed /\ (x < 0) # (y < 0) THEN Negated(r) ELSE r
DivideStep == (Enter \/ Subtract \/ Sign) /\ UNCHANGED <<x, y, signed>>

\* What is returned, and by __umoddi3.
Quotient == IF signed THEN Signed(r) ELSE r
__umoddi3 == Unsigned(x - r * y)
=============================================================================
