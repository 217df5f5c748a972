------------------------------- MODULE Ufifo --------------------------------
(* rtl/ufifo.v: a FIFO in a memory, of which both the next word and the number *)
(* of words are kept in registers, so that they are known without a read.      *)
(* A FIFO is a record; len is 2^LGFLEN and receive is RXFIFO, its parameters:  *)
(*   first, last, next       where to write, where to read, and the one after  *)
(*   over, under             will_overflow, will_underflow                     *)
(*   ovfl, some, fill        r_ovfl, r_empty_n, r_fill                         *)
(*   mem                     fifo                                              *)
(*   out                     o_data, which osrc picks out of fifo_here,        *)
(*                           fifo_next and r_data                              *)
EXTENDS Integers

FifoLengths(len) == 0 .. (IF len = 0 THEN 0 ELSE len - 1)

\* Nothing sets r_next before the first reset.
FifoInit(len, receive) ==
    {[len |-> len, receive |-> receive,
      first |-> 0, last |-> 0, next |-> n, over |-> FALSE, under |-> TRUE,
      ovfl |-> FALSE, some |-> FALSE, fill |-> 0,
      mem |-> [i \in FifoLengths(len) |-> 0],
      out |-> 0] :
     n \in FifoLengths(len)}

\* Indices have LGFLEN bits.
AfterUnbounded(f, i) == i + 1                           \* mutant
After(f, i) == IF i + 1 = f.len THEN 0 ELSE i + 1
Distance(f, from, to) == IF to >= from THEN to - from ELSE to - from + f.len

WillOverflow(f, wr, rd) ==
    IF rd THEN f.over /\ wr
    ELSE IF wr THEN f.over \/ After(f, After(f, f.first)) = f.last
    ELSE f.over \/ After(f, f.first) = f.last

WillUnderflow(f, wr, rd) ==
    IF wr THEN f.under /\ rd
    ELSE IF rd THEN f.under \/ f.next = f.first
    ELSE f.last = f.first

Accepts(f, wr, rd) == wr /\ (rd \/ ~f.over)
Advances(f, wr, rd) == rd /\ (wr \/ ~f.under)

\* The word to show next: the one now written, or one of the memory.
ShowMemory(f, data, rd) ==          \* mutant: the one now written is not seen
    IF f.under THEN data ELSE f.mem[IF rd THEN f.next ELSE f.last]
Show(f, data, rd) ==
    IF f.under THEN data
    ELSE IF rd /\ f.first = f.next THEN data
    ELSE IF rd THEN f.mem[f.next]
    ELSE f.mem[f.last]

NotEmpty(f, wr, rd) ==
    IF wr THEN ~rd \/ f.first # f.last
    ELSE IF ~rd THEN f.first # f.last
    ELSE IF ~f.under THEN f.first # f.next
    ELSE f.some
\* The words to be read, or the room that is left.
Fill(f, wr, rd) ==
    LET took == wr /\ ~f.over
        gave == rd /\ ~f.under
    IN  IF f.receive
        THEN IF gave /\ ~took THEN Distance(f, f.next, f.first)
             ELSE IF took /\ ~gave
             THEN After(f, Distance(f, f.last, f.first))
             ELSE Distance(f, f.last, f.first)
        ELSE IF rd /\ ~wr THEN Distance(f, f.first, f.last)
             ELSE IF wr /\ ~rd
             THEN Distance(f, After(f, After(f, f.first)), f.last)
             ELSE Distance(f, After(f, f.first), f.last)

\* A clock of the FIFO; reset, wr, data and rd are its inputs.
Fifo(f, reset, wr, data, rd) ==
    [len |-> f.len, receive |-> f.receive,
     first |-> IF reset THEN 0
               ELSE IF Accepts(f, wr, rd) THEN After(f, f.first) ELSE f.first,
     last |-> IF reset THEN 0
              ELSE IF Advances(f, wr, rd) THEN f.next ELSE f.last,
     next |-> IF reset THEN 1
              ELSE IF Advances(f, wr, rd) THEN After(f, After(f, f.last))
              ELSE f.next,
     over |-> ~reset /\ WillOverflow(f, wr, rd),
     under |-> reset \/ WillUnderflow(f, wr, rd),
     ovfl |-> ~reset /\ (f.ovfl \/ (wr /\ ~Accepts(f, wr, rd))),
     some |-> ~reset /\ NotEmpty(f, wr, rd),
     fill |-> IF reset THEN IF f.receive THEN 0 ELSE f.len - 1
              ELSE Fill(f, wr, rd),
     mem |-> IF wr THEN [f.mem EXCEPT ![f.first] = data] ELSE f.mem,
     out |-> Show(f, data, rd)]

HalfFull(f) == f.fill >= f.len \div 2                   \* o_status[1]
Status(f) == IF f.receive THEN f.some ELSE f.over       \* o_status[0]

----------------------------------------------------------------------------
(* What the registers say, at every clock after a reset.                      *)

IndicesAgree(f) ==
    /\ f.next = After(f, f.last)
    /\ f.under <=> (f.first = f.last)
    /\ f.some <=> (f.first # f.last)
    /\ f.over <=> (After(f, f.first) = f.last)
\* The word shown is the oldest one in the memory.
ShowsOldest(f) == f.some => f.out = f.mem[f.last]
Sound(f) == IndicesAgree(f) /\ ShowsOldest(f)
=============================================================================
