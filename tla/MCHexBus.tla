------------------------------ MODULE MCHexBus ------------------------------
(* HexBus on twelve addresses, of which 8 to 10 are memory: the digits of an   *)
(* address come in two groups, and the last one tells four addresses apart.    *)
EXTENDS HexBus

MCInitMem == [a \in 8 .. 10 |-> a]
MCBad == 0 .. 7 \cup {11}

ReadCall(fn, a, n) == [fn |-> fn, addr |-> a, n |-> n]
WriteCall(fn, a, d) == [fn |-> fn, addr |-> a, n |-> Len(d), data |-> d]

MCCalls ==
    {ReadCall("readio", 11, 1), ReadCall("readz", 9, 2),
     ReadCall("readi", 9, 1), ReadCall("readi", 10, 1),
     WriteCall("writeio", 8, <<0>>), WriteCall("writei", 9, <<1, 2>>)}

\* For the runs about interrupts and the console: one read of one word.
OneWordReads == {ReadCall("readi", 9, 1), ReadCall("readio", 11, 1)}
Typed == {[t |-> "op", op |-> "read"]}

Events(typed, printed, interrupt, quiet) ==
    [typed |-> typed, printed |-> printed, interrupt |-> interrupt, quiet |-> quiet]
QuietOrPrinted == Events(0, 1, 0, 1)
InputOrQuiet == Events(1, 0, 1, 1)
NoEvent == Events(0, 0, 0, 0)

\* A write of one word, then a read of the word two further on.
WriteThenRead == {WriteCall("writei", 8, <<1>>), ReadCall("readi", 10, 1)}
=============================================================================
