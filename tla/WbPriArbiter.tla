---------------------------- MODULE WbPriArbiter ----------------------------
(* rtl/cpu/wbpriarbiter.v: two wishbone masters, A with priority over B, share *)
(* one bus.  The only register is r_a_owner; every output is combinational.    *)
(* A bus is a record of the wires its master drives, [cyc, stb, req].          *)
VARIABLE
    r_a_owner           \* TRUE when the wires of A drive the shared bus

ArbInit == r_a_owner = TRUE

\* Mutant: A's strobe, not its cycle, keeps B off.
ArbitrateOnStrobe(a, b) ==
    r_a_owner' = IF ~b.cyc THEN TRUE
                 ELSE IF b.stb /\ ~a.stb THEN FALSE
                 ELSE r_a_owner

\* Mutant: B takes an unused bus as its cycle starts, strobe or not.
ArbitrateOnCycle(a, b) ==
    r_a_owner' = IF ~b.cyc THEN TRUE
                 ELSE IF ~a.cyc THEN FALSE
                 ELSE r_a_owner

\* The owner changes only while the bus it would take away is not in a cycle:
\* B's cycle over gives the bus back to A; B asking for an unused bus takes it.
Arbitrate(a, b) ==
    r_a_owner' = IF ~b.cyc THEN TRUE
                 ELSE IF b.stb /\ ~a.cyc THEN FALSE
                 ELSE r_a_owner

\* o_cyc, o_stb, o_adr: the owner's wires.
Shared(a, b) == IF r_a_owner THEN a ELSE b

\* Mutant: an error is not gated by ownership.
ReturnErrorToBoth(isOwner, bus) ==
    [ack   |-> isOwner /\ bus.ack,
     err   |-> bus.err,
     stall |-> isOwner => bus.stall,
     data  |-> bus.data]

\* What a master sees of the shared bus: the owner its responses, the other a
\* stall and nothing else.
ReturnTo(isOwner, bus) ==
    [ack   |-> isOwner /\ bus.ack,
     err   |-> isOwner /\ bus.err,
     stall |-> isOwner => bus.stall,
     data  |-> bus.data]

ReturnToA(bus) == ReturnTo(r_a_owner, bus)
ReturnToB(bus) == ReturnTo(~r_a_owner, bus)
=============================================================================
