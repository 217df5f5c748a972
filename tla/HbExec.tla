------------------------------- MODULE HbExec -------------------------------
(* rtl/hexbus/hbexec.v: takes one command word at a time from the host and     *)
(* runs it as one wishbone request.  A command is a record with a field op:    *)
(*   "none"                     no command this clock                          *)
(*   "addr"  addr, diff, hold   set the address (diff: add to it); hold: the   *)
(*                              address is not to increment                    *)
(*   "read"; "write" data       run one bus request at the address             *)
(* A response is [kind, addr, hold, data] of which the kind says what counts.  *)
(* The core takes a command only while it is idle; o_cmd_busy is not connected *)
(* in hbconsole.v, so a command it does not take is lost.                      *)
EXTENDS Naturals
CONSTANTS
    AddrSpace,          \* addresses, 2^30 in the code
    NoWord              \* the data of a response that carries none
VARIABLES
    hb_cyc, hb_stb, hb_we, hb_addr, hb_data,    \* o_wb_*
    inc, newaddr,
    rsp_stb, rsp                                \* o_rsp_stb, o_rsp_word

busVars == <<hb_cyc, hb_stb, hb_we, hb_addr, hb_data, inc>>
execVars == <<busVars, newaddr, rsp_stb, rsp>>

NoCmd == [op |-> "none", addr |-> 0, diff |-> FALSE, hold |-> FALSE, data |-> NoWord]
Rsp(kind) == [kind |-> kind, addr |-> 0, hold |-> FALSE, data |-> NoWord]
DataRsp(w) == [Rsp("data") EXCEPT !.data = w]
AddrRsp(a, h) == [Rsp("addr") EXCEPT !.addr = a, !.hold = h]

\* o_wb_addr, inc and o_wb_we have no initial value; the registers of the iCE40
\* this is built for come up zero.
BusInit ==
    /\ hb_cyc = FALSE /\ hb_stb = FALSE /\ hb_we = FALSE
    /\ hb_addr = 0 /\ inc = FALSE /\ hb_data = NoWord

ResponseInit ==
    /\ newaddr = FALSE
    /\ rsp_stb = TRUE /\ rsp = Rsp("reset")

IsBus(cmd) == cmd.op \in {"read", "write"}
SetsAddress(cmd) == cmd.op = "addr" /\ ~hb_cyc

\* o_wb_cyc and o_wb_stb: idle, bus request, bus wait.
ExecCycle(reset, cmd, bus) ==
    LET aborts == reset \/ (bus.err /\ hb_cyc)
    IN  /\ hb_cyc' = (/\ ~aborts
                      /\ IF hb_stb THEN ~(~bus.stall /\ bus.ack)
                         ELSE IF hb_cyc THEN ~bus.ack
                         ELSE IsBus(cmd))
        /\ hb_stb' = (/\ ~aborts
                      /\ IF hb_stb THEN bus.stall
                         ELSE ~hb_cyc /\ IsBus(cmd))

\* Mutant: a held address moves on as well.
ExecAddressAlways(cmd, bus) ==
    /\ hb_addr' = IF SetsAddress(cmd)
                  THEN IF cmd.diff THEN (hb_addr + cmd.addr) % AddrSpace ELSE cmd.addr
                  ELSE IF hb_stb /\ ~bus.stall THEN (hb_addr + 1) % AddrSpace
                  ELSE hb_addr
    /\ inc' = IF SetsAddress(cmd) THEN ~cmd.hold ELSE inc

\* o_wb_addr moves on as the bus takes the request, whatever the bus answers.
ExecAddress(cmd, bus) ==
    /\ hb_addr' = IF SetsAddress(cmd)
                  THEN IF cmd.diff THEN (hb_addr + cmd.addr) % AddrSpace ELSE cmd.addr
                  ELSE IF hb_stb /\ ~bus.stall /\ inc THEN (hb_addr + 1) % AddrSpace
                  ELSE hb_addr
    /\ inc' = IF SetsAddress(cmd) THEN ~cmd.hold ELSE inc

ExecData(cmd, bus) ==
    /\ hb_we' = IF hb_cyc THEN hb_we ELSE cmd.op = "write"
    /\ hb_data' = IF hb_stb /\ bus.stall THEN hb_data ELSE cmd.data

Response(reset, bus) ==
    rsp' = IF reset THEN Rsp("reset")
           ELSE IF bus.err THEN Rsp("err")
           ELSE IF hb_cyc THEN IF hb_we THEN Rsp("ack") ELSE DataRsp(bus.data)
           ELSE AddrRsp(hb_addr, ~inc)

\* Mutant: an error is not told.
ExecResponseNoError(reset, cmd, bus) ==
    /\ newaddr' = (~reset /\ SetsAddress(cmd))
    /\ rsp_stb' = (reset \/ IF hb_cyc THEN bus.ack ELSE newaddr)
    /\ Response(reset, bus)

\* A new address is echoed the clock after it is set, once it is in hb_addr.
ExecResponse(reset, cmd, bus) ==
    /\ newaddr' = (~reset /\ SetsAddress(cmd))
    /\ rsp_stb' = (reset \/ bus.err \/ IF hb_cyc THEN bus.ack ELSE newaddr)
    /\ Response(reset, bus)

\* The side of the core that is the bus master.
ExecBus(reset, cmd, bus) ==
    /\ ExecCycle(reset, cmd, bus)
    /\ ExecAddress(cmd, bus)
    /\ ExecData(cmd, bus)

Exec(reset, cmd, bus) ==
    /\ ExecBus(reset, cmd, bus)
    /\ ExecResponse(reset, cmd, bus)
=============================================================================
