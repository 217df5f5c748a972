--------------------------- MODULE MCBoardPrograms --------------------------
(* The programs of the board for TLC: an SDRAM of eight words, of four bits.    *)
(* A file has the program's words in one part, or cut in two after file.cut.    *)
EXTENDS BoardPrograms
\* A good memory, every word stuck at two of its values, and every pair of words
\* that one address line tells apart.
MCCells == 0 .. 7
MCFaults ==
    {[kind |-> "none"]}
    \cup [kind : {"stuck"}, cell : MCCells, value : {0, 5}]
    \cup {[kind |-> "alias", cell |-> c, other |-> o] : c \in MCCells, o \in MCCells}
MCOneLine == {f \in MCFaults : f.kind = "alias" =>
    \E k \in 0 .. 2 : f.other = f.cell + 2 ^ k /\ (f.cell \div 2 ^ k) % 2 = 0}
\* Around zero, a word, and the largest longs.
MCUnsignedOperands == (0 .. 63) \cup (120 .. 136) \cup (240 .. 255)
MCSignedOperands == (-128 .. -125) \cup (-17 .. 17) \cup (125 .. 127)
\* Files of every shape, and those whose program the simulator loads.
MCEveryFile == [ld : Scripts, cut : 0 .. 2, bss : {"none", "first", "last"}, ragged : BOOLEAN]
MCFiles == {f \in MCEveryFile : f.bss # "first" /\ ~f.ragged /\ (f.ld = "bkram" => f.cut = 0)}
\* What main() comes to: an exit with a register, of four statuses, that the
\* program wrote just before or long ago, an exit with a number, a break, nothing.
MCAct(op, gie, to, number) ==
    [op |-> op, gie |-> gie, number |-> number, wr |-> [to |-> to, value |-> 7],
     regs |-> [user |-> 5, supervisor |-> 2]]
MCActs ==
    {MCAct(op, gie, to, 0) : op \in {"exitReg", "exitUser"}, gie \in BOOLEAN,
                             to \in {"none", "user", "supervisor"}}
    \cup {MCAct("exitNumber", FALSE, "none", 1), MCAct("break", FALSE, "none", 0),
          MCAct("none", FALSE, "none", 0)}
=============================================================================
