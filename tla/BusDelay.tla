------------------------------ MODULE BusDelay ------------------------------
(* rtl/cpu/busdelay.v with DELAY_STALL = 1, as rtl/main.v builds it: a         *)
(* one-clock register stage on a wishbone bus, with a second register (r_stb,  *)
(* r_req) that catches the request which arrives as the far side stalls.       *)
(* Request lines are tracked while their strobe is up and data while it is     *)
(* acknowledged; at other times nothing reads them.                            *)
(* i_reset is tied to zero by rtl/toplevel.v, here and in every module below.  *)
VARIABLES
    dly_cyc, dly_stb, dly_req,      \* o_dly_cyc, o_dly_stb and the request lines
    r_stb, r_req,                   \* the request held back by a stall
    up_ack, up_err, up_data         \* o_wb_ack, o_wb_err, o_wb_data
CONSTANTS NoRequest, NoWord         \* lines and data that no strobe or ack goes with

delayVars == <<dly_cyc, dly_stb, dly_req, r_stb, r_req, up_ack, up_err, up_data>>

DelayInit ==
    /\ dly_cyc = FALSE /\ dly_stb = FALSE /\ dly_req = NoRequest
    /\ r_stb = FALSE   /\ r_req = NoRequest
    /\ up_ack = FALSE  /\ up_err = FALSE  /\ up_data = NoWord

\* Mutant: the near side is never stalled.
DelayReturnNoStall == [ack |-> up_ack, err |-> up_err, stall |-> FALSE, data |-> up_data]

\* What the near side sees: o_wb_stall is the second register being in use.
DelayReturn == [ack |-> up_ack, err |-> up_err, stall |-> r_stb, data |-> up_data]

\* Mutant: only the second register's use keeps a stalled request in place.
AdvanceUnlessHeld(down) == ~down.stall \/ ~r_stb

\* The far side takes the request in o_dly_*, or there is none to take.
Advance(down) == ~down.stall \/ ~dly_stb

\* The bus cycle ends: the master ended it, or an error did.
EndsRequests(up, down) == ~up.cyc \/ (down.err /\ dly_cyc) \/ up_err

DelayCycle(up, down) ==
    dly_cyc' = (up.cyc /\ ~up_err /\ (~down.err \/ ~dly_cyc))

DelayRequests(up, down) ==
    LET next == IF ~Advance(down) THEN dly_req ELSE IF r_stb THEN r_req ELSE up.req
        held == IF r_stb THEN r_req ELSE up.req
    IN  /\ dly_stb' = (/\ ~EndsRequests(up, down)
                       /\ ~Advance(down) \/ r_stb \/ up.stb)
        /\ dly_req' = IF dly_stb' THEN next ELSE NoRequest
        /\ r_stb' = (/\ ~EndsRequests(up, down)
                     /\ ~Advance(down)
                     /\ r_stb \/ up.stb)
        /\ r_req' = IF r_stb' THEN held ELSE NoRequest

\* Mutant: an acknowledgement is passed on without a cycle on the far side.
DelayResponsesUngated(up, down) ==
    /\ up_ack' = (up.cyc /\ ~up_err /\ down.ack /\ ~down.err)
    /\ up_err' = (up.cyc /\ down.err /\ dly_cyc)
    /\ up_data' = IF down.ack THEN down.data ELSE NoWord

DelayResponses(up, down) ==
    /\ up_ack' = (up.cyc /\ ~up_err /\ down.ack /\ dly_cyc /\ ~down.err)
    /\ up_err' = (up.cyc /\ down.err /\ dly_cyc)
    /\ up_data' = IF down.ack THEN down.data ELSE NoWord

Delay(up, down) ==
    /\ DelayCycle(up, down)
    /\ DelayRequests(up, down)
    /\ DelayResponses(up, down)
=============================================================================
