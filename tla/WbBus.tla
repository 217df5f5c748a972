------------------------------- MODULE WbBus --------------------------------
(* The buses of rtl/main.v put together: the CPU's bus master (zip) and the    *)
(* host's (hb, HbExec) share the wb bus through the priority arbiter and the   *)
(* delay stage; the host's hb bus also reaches the CPU's debug port.  One step *)
(* is one clock.                                                               *)
(*                                                                             *)
(* The CPU is any master that keeps the rules of bench/formal/fwb_slave.v,     *)
(* with at most MaxOutstanding requests unanswered.  main.v adds a rule of its *)
(* own: software never accesses two peripherals one right after the other.     *)
EXTENDS Naturals, Sequences
CONSTANTS
    Decode, AddrSpace, NoWord, ExitData,
    FirstDelay, PipeDelay, UserDelay, FlashSize,
    CpuRequests,        \* the requests the CPU may make
    HostCommands,       \* the commands the host may send
    MaxOutstanding,
    PipelinedConfig     \* whether the CPU may pipeline flashcfg accesses

\* The data of a request: bit 8 of a written word, or nothing.
WriteData == {NoWord, ExitData, "byte"}
Requests == [addr : DOMAIN Decode, we : BOOLEAN, data : WriteData]
Selects == {"sio", "dio", "bkram", "flash", "flashcfg", "zipdbg", "none"}
FlashWords == 0 .. FlashSize - 1

\* Every address decodes to one select, and the flash's to a word it has; the
\* flash needs longer than the clocks spent taking a request.
ASSUME BusAssumption ==
    /\ AddrSpace \in Nat \ {0}
    /\ Decode \in [0 .. AddrSpace - 1 -> Selects \X Nat]
    /\ FlashSize \in Nat \ {0}
    /\ \A a \in DOMAIN Decode : Decode[a][1] = "flash" => Decode[a][2] \in FlashWords
    /\ {FirstDelay, PipeDelay, UserDelay} \subseteq Nat \ 0 .. 2
    /\ CpuRequests \subseteq Requests
    /\ HostCommands \subseteq [op : {"addr", "read", "write"}, addr : DOMAIN Decode,
                               diff : BOOLEAN, hold : BOOLEAN, data : WriteData]
    /\ MaxOutstanding \in Nat
    /\ PipelinedConfig \in BOOLEAN

VARIABLES
    zip_cyc, zip_stb, zip_req,
    hb_cyc, hb_stb, hb_we, hb_addr, hb_data, inc,
    r_a_owner,
    dly_cyc, dly_stb, dly_req, r_stb, r_req, up_ack, up_err, up_data,
    sio_ack, sio_data, dio_ack0, dio_ack1, dio_bus_select, dio_data,
    ram_last_stb, ram_last_addr, ram_ack, ram_data,
    flash_stall, ack_delay, flash_ack, cfg_user_mode, cs_n, r_next_addr,
    shift_addr, flash_data,
    wb_ack, wb_many_ack, r_wb_bus_select, wb_idata,
    dbg_ack, hb_ack, hb_many_ack, hb_idata,
    zip_pend, hb_pend   \* each master's requests taken and not yet answered,
                        \* in the bus cycle it is in

NoRequest == [addr |-> 0, we |-> FALSE, data |-> NoWord]

Arb == INSTANCE WbPriArbiter
Dly == INSTANCE BusDelay
Ic == INSTANCE WbInterconnect
Ex == INSTANCE HbExec WITH newaddr <- FALSE, rsp_stb <- FALSE, rsp <- NoWord

zipVars == <<zip_cyc, zip_stb, zip_req>>
hbVars == <<dbg_ack, hb_ack, hb_many_ack, hb_idata>>
vars == <<zipVars, Ex!busVars, r_a_owner, Dly!delayVars, Ic!icVars, hbVars,
          zip_pend, hb_pend>>

ZipBus == [cyc |-> zip_cyc, stb |-> zip_stb, req |-> zip_req]

\* The words a data line may carry: which word of which peripheral.
Words == {NoWord} \cup (Selects \X Nat)

HbRequest == [addr |-> hb_addr, we |-> hb_we, data |-> hb_data]
DebugSelected == Ic!Sel(HbRequest) = "zipdbg"

\* The host's side of the arbiter: its strobe only when the address is on wb.
HbDwb == [cyc |-> hb_cyc, stb |-> hb_stb /\ ~DebugSelected, req |-> HbRequest]

SharedBus == Arb!Shared(ZipBus, HbDwb)
WbSide == [cyc |-> dly_cyc, stb |-> dly_stb, req |-> dly_req]
ZipSees == Arb!ReturnToA(Dly!DelayReturn)
HbDwbSees == Arb!ReturnToB(Dly!DelayReturn)

----------------------------------------------------------------------------
(* The hb bus: the arbiter's port or the debug port of rtl/cpu/zipbones.v.    *)

\* The data register of the debug port waits for the CPU to halt.
DebugStall(halted) == ~halted /\ hb_addr % 2 = 1

\* Mutant: either register is acknowledged only while the CPU is halted.
DebugPortHalted(halted) ==
    dbg_ack' = (hb_stb /\ DebugSelected /\ halted)

\* Acknowledged a clock after it is taken; the data is picked, that clock, by
\* the low address bit the master drives then.
DebugPort(halted) ==
    dbg_ack' = (hb_stb /\ DebugSelected /\ ~DebugStall(halted))
DebugData == <<"zipdbg", hb_addr % 2>>

HbSees(halted) ==
    [ack   |-> hb_ack,
     err   |-> hb_many_ack \/ HbDwbSees.err,
     stall |-> IF DebugSelected THEN DebugStall(halted) ELSE HbDwbSees.stall,
     data  |-> hb_idata]

HbMerge ==
    /\ hb_ack' = (hb_cyc /\ (HbDwbSees.ack \/ dbg_ack))
    /\ hb_many_ack' = (hb_cyc /\ HbDwbSees.ack /\ dbg_ack)
    /\ hb_idata' = IF HbDwbSees.ack THEN HbDwbSees.data
                   ELSE IF dbg_ack THEN DebugData ELSE NoWord

----------------------------------------------------------------------------
(* What a master knows of its own requests.                                   *)

\* The requests unanswered after this clock, of a master that drives `bus` and
\* sees `ret`, when it is in a cycle now and `stays` in it.
Outstanding(pend, bus, ret, stays) ==
    IF ~bus.cyc \/ ~stays THEN <<>>
    ELSE (IF ret.ack /\ pend # <<>> THEN Tail(pend) ELSE pend)
         \o (IF bus.stb /\ ~ret.stall THEN <<bus.req>> ELSE <<>>)

TrackRequests(halted) ==
    /\ zip_pend' = Outstanding(zip_pend, ZipBus, ZipSees, zip_cyc')
    /\ hb_pend' = Outstanding(hb_pend, [cyc |-> hb_cyc, stb |-> hb_stb, req |-> HbRequest],
                              HbSees(halted), hb_cyc')

\* main.v: "two peripherals are not accessed immediately one after the other".
OneAtATime(r, pend) ==
    \A i \in 1 .. Len(pend) :
        /\ Ic!Sel(pend[i]) \in Ic!Mapped /\ Ic!Sel(r) \in Ic!Mapped
               => Ic!Sel(r) = Ic!Sel(pend[i])
        /\ Ic!Sel(r) = "flashcfg" => PipelinedConfig

MayRequest(r, pend) ==
    /\ Len(pend) < MaxOutstanding
    /\ \A i \in 1 .. Len(pend) : pend[i].we = r.we
    /\ OneAtATime(r, pend)

----------------------------------------------------------------------------
(* The CPU's master.                                                          *)

\* It is not in a cycle, or ends one, or gives one up.
ZipRelease ==
    /\ zip_cyc' = FALSE /\ zip_stb' = FALSE /\ zip_req' = NoRequest

\* A request the bus stalls stays as it is.
ZipStalled ==
    /\ zip_cyc /\ zip_stb /\ ZipSees.stall /\ ~ZipSees.err
    /\ UNCHANGED zipVars

ZipWait ==
    /\ zip_cyc /\ ~(zip_stb /\ ZipSees.stall) /\ ~ZipSees.err
    /\ zip_stb' = FALSE /\ zip_req' = NoRequest /\ UNCHANGED zip_cyc

ZipRequest ==
    /\ zip_cyc => ~(zip_stb /\ ZipSees.stall) /\ ~ZipSees.err
    /\ zip_cyc' = TRUE /\ zip_stb' = TRUE
    /\ \E r \in CpuRequests :
          /\ MayRequest(r, Outstanding(zip_pend, ZipBus, ZipSees, TRUE))
          /\ zip_req' = r

----------------------------------------------------------------------------
Init ==
    /\ zip_cyc = FALSE /\ zip_stb = FALSE /\ zip_req = NoRequest
    /\ Ex!BusInit
    /\ Arb!ArbInit
    /\ Dly!DelayInit
    /\ Ic!IcInit
    /\ dbg_ack = FALSE /\ hb_ack = FALSE /\ hb_many_ack = FALSE /\ hb_idata = NoWord
    /\ zip_pend = <<>> /\ hb_pend = <<>>

Zip == ZipRelease \/ ZipStalled \/ ZipWait \/ ZipRequest

\* Everything that happens in a clock; the CPU's part of it is a choice.
Clock(reset, cmd) == \E halted \in (IF hb_stb /\ DebugSelected THEN BOOLEAN ELSE {TRUE}) :
    /\ Ex!ExecBus(reset, cmd, HbSees(halted))
    /\ Arb!Arbitrate(ZipBus, HbDwb)
    /\ Dly!Delay(SharedBus, Ic!IcReturn(WbSide))
    /\ Ic!Interconnect(WbSide)
    /\ DebugPort(halted)
    /\ HbMerge
    /\ Zip
    /\ TrackRequests(halted)

\* Of a reset only what it does to the bus is kept here: it ends a cycle.
HostIdle == Clock(FALSE, Ex!NoCmd)
HostCommand == ~hb_cyc /\ \E c \in HostCommands : Clock(FALSE, c)
HostReset == hb_cyc /\ Clock(TRUE, Ex!NoCmd)

Next == HostIdle \/ HostCommand \/ HostReset

Spec == Init /\ [][Next]_vars

----------------------------------------------------------------------------
\* Types.
ZipTypeOK ==
    /\ zip_cyc \in BOOLEAN /\ zip_stb \in BOOLEAN /\ zip_req \in Requests
ExecTypeOK ==
    /\ hb_cyc \in BOOLEAN /\ hb_stb \in BOOLEAN /\ hb_we \in BOOLEAN /\ inc \in BOOLEAN
    /\ hb_addr \in DOMAIN Decode /\ hb_data \in WriteData
DelayTypeOK ==
    /\ dly_cyc \in BOOLEAN /\ dly_stb \in BOOLEAN /\ dly_req \in Requests
    /\ r_stb \in BOOLEAN /\ r_req \in Requests
    /\ up_ack \in BOOLEAN /\ up_err \in BOOLEAN /\ up_data \in Words
SlaveTypeOK ==
    /\ sio_ack \in BOOLEAN /\ sio_data \in Words
    /\ dio_ack0 \in BOOLEAN /\ dio_ack1 \in BOOLEAN /\ dio_data \in Words
    /\ dio_bus_select \in Nat \cup {NoWord}
    /\ ram_last_stb \in BOOLEAN /\ ram_ack \in BOOLEAN /\ ram_data \in Words
    /\ ram_last_addr \in Nat \cup {NoWord}
    /\ dio_ack0 => dio_bus_select \in Nat
    /\ ram_last_stb => ram_last_addr \in Nat
FlashTypeOK ==
    /\ flash_stall \in BOOLEAN /\ flash_ack \in BOOLEAN
    /\ cfg_user_mode \in BOOLEAN /\ cs_n \in BOOLEAN
    /\ ack_delay \in Nat /\ ack_delay <= FirstDelay + PipeDelay + UserDelay
    /\ r_next_addr \in FlashWords /\ shift_addr \in FlashWords
    /\ flash_data \in 0 .. FlashSize
MergeTypeOK ==
    /\ wb_ack \in BOOLEAN /\ wb_many_ack \in BOOLEAN
    /\ r_wb_bus_select \in Ic!Mapped /\ wb_idata \in Words
HbTypeOK ==
    /\ dbg_ack \in BOOLEAN /\ hb_ack \in BOOLEAN /\ hb_many_ack \in BOOLEAN
    /\ hb_idata \in Words
TypeOK ==
    /\ ZipTypeOK /\ ExecTypeOK /\ r_a_owner \in BOOLEAN /\ DelayTypeOK
    /\ SlaveTypeOK /\ FlashTypeOK /\ MergeTypeOK /\ HbTypeOK
    /\ zip_pend \in Seq(Requests) /\ hb_pend \in Seq(Requests)

\* What may be read by a request: the word at its address.  A write returns
\* nothing that matters, and neither does the flash's configuration register;
\* in user mode the flash returns its shift register.
MayReturn(r, w) ==
    \/ r.we \/ Ic!Sel(r) = "flashcfg"
    \/ w = Decode[r.addr]
    \/ Ic!Sel(r) = "flash" /\ cfg_user_mode

\* Every acknowledgement a master sees in a bus cycle answers its oldest
\* unanswered request, with the word at that request's address: wb_ack and
\* wb_idata of main.v, through the delay stage and the arbiter, are never those
\* of another master, of an earlier, abandoned cycle, or of a later request.
AnswersOldest ==
    /\ zip_cyc /\ ZipSees.ack => zip_pend # <<>> /\ MayReturn(zip_pend[1], ZipSees.data)
    /\ hb_cyc /\ hb_ack => hb_pend # <<>> /\ MayReturn(hb_pend[1], hb_idata)

\* A master is told of a bus error only when one of its own requests reached an
\* address nothing answers.  hbexec takes i_wb_err without looking at its own
\* cycle, and wbpriarbiter gives errors to the host whenever the CPU is not the
\* owner: outside a cycle the host does see an error, but only in the clock after
\* a reset of the debugging bus ended its cycle, of the request given up, and
\* not one it was told of before.
Unmapped(pend) == \E i \in 1 .. Len(pend) : Ic!Sel(pend[i]) \notin Ic!Mapped
ErrorsAreOwn ==
    [][ /\ zip_cyc' /\ ZipSees.err' => Unmapped(zip_pend)'
        /\ HbSees(FALSE).err' =>
              IF hb_cyc' THEN Unmapped(hb_pend)'
              ELSE hb_cyc /\ Unmapped(hb_pend) /\ ~HbSees(FALSE).err ]_vars

BitOf(b) == IF b THEN 1 ELSE 0

\* The requests of the present cycle between the arbiter and the answer: those
\* in the delay stage, in the peripherals, and answers on their way back.
InFlight ==
    BitOf(r_stb) + BitOf(dly_stb)
    + BitOf(sio_ack) + BitOf(dio_ack0) + BitOf(dio_ack1)
    + BitOf(ram_last_stb) + BitOf(ram_ack)
    + BitOf(ack_delay > 0) + BitOf(flash_ack)
    + BitOf(wb_ack) + BitOf(up_ack)

HbWbPending == BitOf(hb_pend # <<>> /\ Ic!Sel(hb_pend[1]) # "zipdbg" /\ ~hb_ack)

\* No request a master was told is taken is dropped and none is answered twice:
\* until an error ends the cycle, the owner's unanswered requests are exactly
\* those in flight.
NoneDropped ==
    /\ r_a_owner /\ zip_cyc /\ dly_cyc /\ ~up_err => Len(zip_pend) = InFlight
    /\ ~r_a_owner /\ hb_cyc /\ dly_cyc /\ ~up_err => HbWbPending = InFlight

\* Only the owner of the shared bus waits for anything on it: what comes back is
\* given to the owner alone, so a master that lost the bus with a request
\* unanswered would wait for ever and its answer would go to the other.
OnlyOwnerWaits ==
    /\ ~r_a_owner => zip_pend = <<>>
    /\ r_a_owner /\ hb_pend # <<>> => Ic!Sel(hb_pend[1]) = "zipdbg"

\* hbexec has one request at a time, and no master has any outside its cycles.
\* With this OnlyOwnerWaits is inductive.
OneHostRequest ==
    /\ hb_stb => hb_cyc /\ hb_pend = <<>>
    /\ Len(hb_pend) <= 1
    /\ ~hb_cyc => hb_pend = <<>>
    /\ ~zip_cyc => zip_pend = <<>>

\* The asserts of wbpriarbiter.v: a cycle keeps its owner.
OwnerKeepsCycle ==
    [][SharedBus.cyc /\ SharedBus.cyc' => r_a_owner' = r_a_owner]_vars

\* The delay stage is itself a master that keeps the rules: a request the wb bus
\* stalls is still there, unchanged, on the next clock of the cycle.
StalledRequestHeld ==
    [][dly_stb /\ Ic!Stall(WbSide) /\ dly_cyc' => dly_stb' /\ dly_req' = dly_req]_vars
=============================================================================
