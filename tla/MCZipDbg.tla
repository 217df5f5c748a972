------------------------------ MODULE MCZipDbg ------------------------------
EXTENDS ZipDbg

\* A loop of an addition and a load, and a break only an edit of the PC reaches.
MCCode == [p \in 0 .. 3 |-> <<"add", "load", "jump", "brk">>[p + 1]]

\* The general registers, the supervisor's PC and the master's timer.
MCEditable == {0, 1, 2, 4}
EveryCell == Cells
=============================================================================
