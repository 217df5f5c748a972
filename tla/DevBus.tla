------------------------------- MODULE DevBus -------------------------------
(* sw/host/devbus.h: what the driver promises a program.  A call of n words is *)
(* equivalent to n accesses of one word, in order: at addr, addr + 1, ... for  *)
(* readi and writei, all at addr for the others.  A BUSERR is thrown only for  *)
(* an access to an address that has one.                                       *)
EXTENDS Naturals, Sequences
CONSTANTS Calls, Bad, InitMem
VARIABLES
    call,               \* the call in progress
    got,                \* the words it has read or written so far
    mem,
    result              \* how the last call ended

vars == <<call, got, mem, result>>

NoCall == [fn |-> "none"]
IsWrite == call.fn \in {"writeio", "writei", "writez"}
NextAddress == IF call.fn \in {"readi", "writei"} THEN call.addr + Len(got) ELSE call.addr

Init ==
    /\ call = NoCall /\ got = <<>> /\ mem = InitMem
    /\ result = [outcome |-> "none", words |-> <<>>]

Call ==
    /\ call = NoCall /\ call' \in Calls /\ got' = <<>>
    /\ UNCHANGED <<mem, result>>

Access ==
    /\ call # NoCall /\ Len(got) < call.n /\ NextAddress \notin Bad
    /\ IF IsWrite THEN mem' = [mem EXCEPT ![NextAddress] = call.data[Len(got) + 1]]
                  ELSE UNCHANGED mem
    /\ got' = Append(got, mem'[NextAddress])
    /\ UNCHANGED <<call, result>>

Return ==
    /\ call # NoCall /\ Len(got) = call.n /\ call' = NoCall
    /\ result' = [outcome |-> "ok", words |-> IF IsWrite THEN <<>> ELSE got]
    /\ UNCHANGED <<got, mem>>

Throw ==
    /\ call # NoCall /\ Len(got) < call.n /\ NextAddress \in Bad /\ call' = NoCall
    /\ result' = [outcome |-> "err", words |-> <<>>]
    /\ UNCHANGED <<got, mem>>

Next == Call \/ Access \/ Return \/ Throw

Spec == Init /\ [][Next]_vars
=============================================================================
