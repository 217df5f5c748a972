---------------------------- MODULE WbBusProofs -----------------------------
(* What WbBus does for every memory map, flash and set of requests: its types; *)
(* that a bus cycle, the requests in it and the answers to them stay with the  *)
(* master that began it; and, position by position, where in the bus the       *)
(* requests taken and not yet answered are (FlightInv), from which it follows  *)
(* that none is dropped and each is answered with its own word.                *)
EXTENDS WbBus, SequenceTheorems, TLAPS

----------------------------------------------------------------------------
(* Requests and what they select.                                             *)

LEMMA AddressFacts ==
    /\ DOMAIN Decode = 0 .. AddrSpace - 1
    /\ 0 \in DOMAIN Decode
    /\ NoRequest \in Requests
  BY BusAssumption, SMT DEF NoRequest, Requests, WriteData

LEMMA SelectFacts ==
    ASSUME NEW r \in Requests
    PROVE  Ic!Sel(r) \in Selects /\ Ic!Reg(r) \in Nat
           /\ (Ic!Sel(r) = "flash" => Ic!Reg(r) \in FlashWords)
  <1>1. r.addr \in DOMAIN Decode
    BY DEF Requests
  <1>2. Decode[r.addr] \in Selects \X Nat
    BY <1>1, BusAssumption
  <1>. QED
    BY <1>1, <1>2, BusAssumption, Zenon DEF Ic!Sel, Ic!Reg

LEMMA HbRequestType ==
    ASSUME ExecTypeOK
    PROVE  HbRequest \in Requests
  BY DEF ExecTypeOK, HbRequest, Requests

LEMMA CommandFacts ==
    ASSUME NEW c \in HostCommands \cup {Ex!NoCmd}
    PROVE  c.addr \in DOMAIN Decode /\ c.data \in WriteData /\ c.hold \in BOOLEAN
  <1>1. CASE c \in HostCommands
    <2>1. c \in [op : {"addr", "read", "write"}, addr : DOMAIN Decode,
                 diff : BOOLEAN, hold : BOOLEAN, data : WriteData]
      BY <1>1, BusAssumption, Zenon
    <2>. QED
      BY <2>1
  <1>2. CASE c = Ex!NoCmd
    BY <1>2, AddressFacts DEF Ex!NoCmd, WriteData
  <1>. QED
    BY <1>1, <1>2

LEMMA FlashFacts ==
    /\ FlashSize \in Nat \ {0}
    /\ FirstDelay \in Nat /\ PipeDelay \in Nat /\ UserDelay \in Nat
    /\ FirstDelay > 2 /\ PipeDelay > 2 /\ UserDelay > 2
  BY BusAssumption

----------------------------------------------------------------------------
(* Types.                                                                     *)

LEMMA InitType == Init => TypeOK
  <1>. SUFFICES ASSUME Init PROVE TypeOK
    OBVIOUS
  <1>. USE AddressFacts
  <1>1. ZipTypeOK
    BY DEF Init, ZipTypeOK
  <1>2. ExecTypeOK
    BY DEF Init, Ex!BusInit, ExecTypeOK, WriteData
  <1>3. r_a_owner \in BOOLEAN
    BY DEF Init, Arb!ArbInit
  <1>4. DelayTypeOK
    BY DEF Init, Dly!DelayInit, DelayTypeOK, Words
  <1>5. SlaveTypeOK
    BY DEF Init, Ic!IcInit, SlaveTypeOK, Words
  <1>6. FlashTypeOK
    <2>1. /\ 0 \in FlashWords /\ FlashSize \in 0 .. FlashSize
          /\ 0 <= FirstDelay + PipeDelay + UserDelay
      BY FlashFacts DEF FlashWords
    <2>2. /\ flash_stall = FALSE /\ ack_delay = 0 /\ flash_ack = FALSE
          /\ cfg_user_mode = FALSE /\ cs_n = TRUE
          /\ r_next_addr = 0 /\ shift_addr = 0 /\ flash_data = FlashSize
      BY DEF Init, Ic!IcInit, Ic!Fl!FlashInit, Ic!Fl!Shifting
    <2>. QED
      BY <2>1, <2>2 DEF FlashTypeOK
  <1>7. MergeTypeOK
    BY DEF Init, Ic!IcInit, MergeTypeOK, Words, Ic!Mapped
  <1>8. HbTypeOK
    BY DEF Init, HbTypeOK, Words
  <1>9. zip_pend \in Seq(Requests) /\ hb_pend \in Seq(Requests)
    BY DEF Init
  <1>. QED
    BY <1>1, <1>2, <1>3, <1>4, <1>5, <1>6, <1>7, <1>8, <1>9 DEF TypeOK

LEMMA ZipStepType ==
    ASSUME ZipTypeOK, Zip
    PROVE  ZipTypeOK'
  <1>1. CASE ZipRelease
    BY <1>1, AddressFacts DEF ZipRelease, ZipTypeOK
  <1>2. CASE ZipStalled
    BY <1>2 DEF ZipStalled, zipVars, ZipTypeOK
  <1>3. CASE ZipWait
    BY <1>3, AddressFacts DEF ZipWait, ZipTypeOK
  <1>4. CASE ZipRequest
    BY <1>4, BusAssumption DEF ZipRequest, ZipTypeOK
  <1>. QED
    BY <1>1, <1>2, <1>3, <1>4 DEF Zip

LEMMA ExecStepType ==
    ASSUME ExecTypeOK, NEW reset \in BOOLEAN,
           NEW cmd \in HostCommands \cup {Ex!NoCmd},
           NEW bus, bus.stall \in BOOLEAN, bus.ack \in BOOLEAN, bus.err \in BOOLEAN,
           Ex!ExecBus(reset, cmd, bus)
    PROVE  ExecTypeOK'
  <1>1. cmd.addr \in DOMAIN Decode /\ cmd.data \in WriteData /\ cmd.hold \in BOOLEAN
    BY CommandFacts
  <1>2. hb_cyc' \in BOOLEAN /\ hb_stb' \in BOOLEAN
    BY DEF Ex!ExecBus, Ex!ExecCycle
  <1>3. hb_addr' \in DOMAIN Decode
    <2>1. hb_addr + cmd.addr \in Nat /\ hb_addr + 1 \in Nat
      BY <1>1, AddressFacts DEF ExecTypeOK
    <2>2. \A n \in Nat : n % AddrSpace \in 0 .. AddrSpace - 1
      BY BusAssumption, Z3
    <2>. QED
      BY <1>1, <2>1, <2>2, AddressFacts DEF Ex!ExecBus, Ex!ExecAddress, ExecTypeOK
  <1>4. hb_we' \in BOOLEAN /\ inc' \in BOOLEAN /\ hb_data' \in WriteData
    BY <1>1 DEF Ex!ExecBus, Ex!ExecAddress, Ex!ExecData, ExecTypeOK
  <1>. QED
    BY <1>2, <1>3, <1>4 DEF ExecTypeOK

LEMMA DelayStepType ==
    ASSUME DelayTypeOK,
           NEW up, up.cyc \in BOOLEAN, up.stb \in BOOLEAN, up.req \in Requests,
           NEW down, down.ack \in BOOLEAN, down.err \in BOOLEAN,
           down.stall \in BOOLEAN, down.data \in Words,
           Dly!Delay(up, down)
    PROVE  DelayTypeOK'
  <1>1. dly_cyc' \in BOOLEAN
    BY DEF Dly!Delay, Dly!DelayCycle
  <1>2. /\ dly_stb' \in BOOLEAN /\ dly_req' \in Requests
        /\ r_stb' \in BOOLEAN /\ r_req' \in Requests
    BY AddressFacts DEF Dly!Delay, Dly!DelayRequests, DelayTypeOK
  <1>3. up_ack' \in BOOLEAN /\ up_err' \in BOOLEAN /\ up_data' \in Words
    BY DEF Dly!Delay, Dly!DelayResponses, Words
  <1>. QED
    BY <1>1, <1>2, <1>3 DEF DelayTypeOK

LEMMA SlaveStepType ==
    ASSUME NEW bus, bus.cyc \in BOOLEAN, bus.stb \in BOOLEAN, bus.req \in Requests,
           SlaveTypeOK, Ic!Sio(bus), Ic!Dio(bus), Ic!MemDev(bus)
    PROVE  SlaveTypeOK'
  <1>. Ic!Reg(bus.req) \in Nat
    BY SelectFacts
  <1>1. sio_ack' \in BOOLEAN /\ sio_data' \in Words
    BY DEF Ic!Sio, Ic!Tracked, Ic!Selects, Words, Selects
  <1>2. /\ dio_ack0' \in BOOLEAN /\ dio_bus_select' \in Nat \cup {NoWord}
        /\ dio_ack0' => dio_bus_select' \in Nat
    BY DEF Ic!Dio, Ic!Tracked, Ic!Selects
  <1>3. dio_ack1' \in BOOLEAN /\ dio_data' \in Words
    BY DEF Ic!Dio, Ic!Tracked, SlaveTypeOK, Words, Selects
  <1>4. /\ ram_last_stb' \in BOOLEAN /\ ram_last_addr' \in Nat \cup {NoWord}
        /\ ram_last_stb' => ram_last_addr' \in Nat
    BY DEF Ic!MemDev, Ic!Tracked, Ic!Selects
  <1>5. ram_ack' \in BOOLEAN /\ ram_data' \in Words
    BY DEF Ic!MemDev, Ic!Tracked, SlaveTypeOK, Words, Selects
  <1>. QED
    BY <1>1, <1>2, <1>3, <1>4, <1>5 DEF SlaveTypeOK

LEMMA FlashStepType ==
    ASSUME NEW cyc \in BOOLEAN, NEW stb \in BOOLEAN, NEW cfg \in BOOLEAN,
           NEW req, req.we \in BOOLEAN, req.exit \in BOOLEAN, req.addr \in Nat,
           stb => req.addr \in FlashWords,
           FlashTypeOK, Ic!Fl!Flash(cyc, stb, cfg, req)
    PROVE  FlashTypeOK'
  <1>. USE FlashFacts
  <1>1. Ic!Fl!BusRequest(stb, req) \in BOOLEAN /\ Ic!Fl!UserRequest(cfg, req) \in BOOLEAN
    BY DEF Ic!Fl!BusRequest, Ic!Fl!UserRequest
  <1>2. ack_delay' \in Nat /\ ack_delay' <= FirstDelay + PipeDelay + UserDelay
    BY DEF Ic!Fl!Flash, Ic!Fl!FlashDelay, FlashTypeOK
  <1>3. flash_ack' \in BOOLEAN /\ flash_stall' \in BOOLEAN
    BY DEF Ic!Fl!Flash, Ic!Fl!FlashAck, Ic!Fl!FlashStall
  <1>4. cfg_user_mode' \in BOOLEAN /\ cs_n' \in BOOLEAN
    BY DEF Ic!Fl!Flash, Ic!Fl!FlashMode, Ic!Fl!FlashSelect, FlashTypeOK
  <1>5. \A n \in Nat : n % FlashSize \in FlashWords
    BY Z3 DEF FlashWords
  <1>6. r_next_addr' \in FlashWords /\ shift_addr' \in FlashWords
    <2>1. req.addr + 1 \in Nat /\ shift_addr + 1 \in Nat
      BY DEF FlashTypeOK, FlashWords
    <2>2. Ic!Fl!BusRequest(stb, req) => req.addr \in FlashWords
      BY DEF Ic!Fl!BusRequest
    <2>. QED
      BY <1>5, <2>1, <2>2 DEF Ic!Fl!Flash, Ic!Fl!FlashData, FlashTypeOK
  <1>7. flash_data' \in 0 .. FlashSize
    BY DEF Ic!Fl!Flash, Ic!Fl!FlashData, Ic!Fl!Shifting, FlashTypeOK, FlashWords
  <1>. QED
    BY <1>2, <1>3, <1>4, <1>6, <1>7 DEF FlashTypeOK

LEMMA MergeStepType ==
    ASSUME NEW bus, bus.cyc \in BOOLEAN, bus.req \in Requests,
           SlaveTypeOK, FlashTypeOK, MergeTypeOK, Ic!Merge(bus)
    PROVE  MergeTypeOK'
  <1>1. wb_ack' \in BOOLEAN /\ wb_many_ack' \in BOOLEAN
    BY DEF Ic!Merge
  <1>2. r_wb_bus_select' \in Ic!Mapped
    BY DEF Ic!Merge, MergeTypeOK
  <1>3. Ic!Selected \in Words
    BY FlashFacts DEF Ic!Selected, SlaveTypeOK, FlashTypeOK, Words, Selects
  <1>4. wb_idata' \in Words
    BY <1>3 DEF Ic!Merge, Ic!Tracked, Words
  <1>. QED
    BY <1>1, <1>2, <1>4 DEF MergeTypeOK

----------------------------------------------------------------------------
(* What each side of a bus sees of the other.                                 *)

IsBus(bus) == bus.cyc \in BOOLEAN /\ bus.stb \in BOOLEAN /\ bus.req \in Requests
IsReturn(ret) ==
    /\ ret.ack \in BOOLEAN /\ ret.err \in BOOLEAN /\ ret.stall \in BOOLEAN
    /\ ret.data \in Words

LEMMA BusTypes ==
    ASSUME TypeOK
    PROVE  /\ IsBus(ZipBus) /\ IsBus(HbDwb) /\ IsBus(SharedBus) /\ IsBus(WbSide)
           /\ HbRequest \in Requests
  <1>1. HbRequest \in Requests
    BY HbRequestType DEF TypeOK
  <1>2. IsBus(ZipBus)
    BY DEF TypeOK, ZipTypeOK, IsBus, ZipBus
  <1>3. IsBus(HbDwb)
    BY <1>1 DEF TypeOK, ExecTypeOK, IsBus, HbDwb
  <1>4. IsBus(SharedBus)
    BY <1>2, <1>3 DEF SharedBus, Arb!Shared
  <1>5. IsBus(WbSide)
    BY DEF TypeOK, DelayTypeOK, IsBus, WbSide
  <1>. QED
    BY <1>1, <1>2, <1>3, <1>4, <1>5

LEMMA ReturnTypes ==
    ASSUME TypeOK
    PROVE  /\ IsReturn(Ic!IcReturn(WbSide)) /\ IsReturn(Dly!DelayReturn)
           /\ IsReturn(ZipSees) /\ IsReturn(HbDwbSees)
           /\ \A halted \in BOOLEAN : IsReturn(HbSees(halted))
  <1>1. IsReturn(Ic!IcReturn(WbSide))
    BY DEF TypeOK, MergeTypeOK, FlashTypeOK, DelayTypeOK, IsReturn, WbSide, Ic!IcReturn,
           Ic!BusError, Ic!NoneSelected, Ic!Stall
  <1>2. IsReturn(Dly!DelayReturn)
    BY DEF TypeOK, DelayTypeOK, IsReturn, Dly!DelayReturn
  <1>3. IsReturn(ZipSees) /\ IsReturn(HbDwbSees)
    BY <1>2 DEF IsReturn, ZipSees, HbDwbSees, Arb!ReturnToA, Arb!ReturnToB, Arb!ReturnTo
  <1>4. ASSUME NEW halted \in BOOLEAN
        PROVE  IsReturn(HbSees(halted))
    BY <1>3 DEF TypeOK, HbTypeOK, IsReturn, HbSees, DebugStall
  <1>. QED
    BY <1>1, <1>2, <1>3, <1>4

LEMMA HbStepType ==
    ASSUME TypeOK, NEW halted \in BOOLEAN, DebugPort(halted), HbMerge
    PROVE  HbTypeOK'
  <1>1. dbg_ack' \in BOOLEAN /\ hb_ack' \in BOOLEAN /\ hb_many_ack' \in BOOLEAN
    BY DEF DebugPort, HbMerge
  <1>2. DebugData \in Words
    BY AddressFacts DEF TypeOK, ExecTypeOK, DebugData, Words, Selects
  <1>3. HbDwbSees.data \in Words
    BY ReturnTypes DEF IsReturn
  <1>4. hb_idata' \in Words
    BY <1>2, <1>3 DEF HbMerge, Words
  <1>. QED
    BY <1>1, <1>4 DEF HbTypeOK

LEMMA OutstandingType ==
    ASSUME NEW pend \in Seq(Requests), NEW bus, IsBus(bus) \/ bus.req \in Requests,
           NEW ret, NEW stays
    PROVE  Outstanding(pend, bus, ret, stays) \in Seq(Requests)
  <1>. bus.req \in Requests
    BY DEF IsBus
  <1>1. pend # <<>> => Tail(pend) \in Seq(Requests)
    OBVIOUS
  <1>2. <<bus.req>> \in Seq(Requests)
    OBVIOUS
  <1>. QED
    BY <1>1, <1>2 DEF Outstanding

\* A step is a clock, with some command and some state of the CPU's debug port.
LEMMA NextIsClock ==
    ASSUME Next
    PROVE  Zip /\ \E reset \in BOOLEAN, cmd \in HostCommands \cup {Ex!NoCmd}, halted \in BOOLEAN :
              /\ Ex!ExecBus(reset, cmd, HbSees(halted))
              /\ Arb!Arbitrate(ZipBus, HbDwb)
              /\ Dly!Delay(SharedBus, Ic!IcReturn(WbSide))
              /\ Ic!Interconnect(WbSide)
              /\ DebugPort(halted)
              /\ HbMerge
              /\ TrackRequests(halted)
  <1>1. ASSUME NEW reset \in BOOLEAN, NEW cmd \in HostCommands \cup {Ex!NoCmd}, Clock(reset, cmd)
        PROVE  Zip /\ \E halted \in BOOLEAN :
                  /\ Ex!ExecBus(reset, cmd, HbSees(halted))
                  /\ Arb!Arbitrate(ZipBus, HbDwb)
                  /\ Dly!Delay(SharedBus, Ic!IcReturn(WbSide))
                  /\ Ic!Interconnect(WbSide)
                  /\ DebugPort(halted)
                  /\ HbMerge
                  /\ TrackRequests(halted)
    BY <1>1, Zenon DEF Clock
  <1>2. CASE HostIdle
    BY <1>1, <1>2 DEF HostIdle
  <1>3. CASE HostCommand
    BY <1>1, <1>3 DEF HostCommand
  <1>4. CASE HostReset
    BY <1>1, <1>4 DEF HostReset
  <1>. QED
    BY <1>2, <1>3, <1>4 DEF Next

LEMMA StepType == TypeOK /\ [Next]_vars => TypeOK'
  <1>. SUFFICES ASSUME TypeOK, [Next]_vars PROVE TypeOK'
    OBVIOUS
  <1>1. CASE UNCHANGED vars
    BY <1>1 DEF vars, zipVars, hbVars, Ex!busVars, Dly!delayVars, Ic!icVars, Ic!slaveVars,
           Ic!mergeVars, Ic!Fl!flashVars, TypeOK, ZipTypeOK, ExecTypeOK, DelayTypeOK,
           SlaveTypeOK, FlashTypeOK, MergeTypeOK, HbTypeOK
  <1>2. CASE Next
    <2>1. PICK reset \in BOOLEAN, cmd \in HostCommands \cup {Ex!NoCmd}, halted \in BOOLEAN :
              /\ Ex!ExecBus(reset, cmd, HbSees(halted))
              /\ Arb!Arbitrate(ZipBus, HbDwb)
              /\ Dly!Delay(SharedBus, Ic!IcReturn(WbSide))
              /\ Ic!Interconnect(WbSide)
              /\ DebugPort(halted)
              /\ HbMerge
              /\ TrackRequests(halted)
      BY <1>2, NextIsClock
    <2>2. /\ IsBus(SharedBus) /\ IsBus(WbSide) /\ IsBus(ZipBus) /\ HbRequest \in Requests
          /\ IsReturn(Ic!IcReturn(WbSide)) /\ IsReturn(HbSees(halted))
      BY BusTypes, ReturnTypes
    <2>3. ZipTypeOK'
      BY <1>2, NextIsClock, ZipStepType DEF TypeOK
    <2>4. ExecTypeOK'
      BY <2>1, <2>2, ExecStepType DEF TypeOK, IsReturn
    <2>5. r_a_owner' \in BOOLEAN
      BY <2>1 DEF TypeOK, Arb!Arbitrate
    <2>6. DelayTypeOK'
      BY <2>1, <2>2, DelayStepType DEF TypeOK, IsBus, IsReturn
    <2>7. SlaveTypeOK'
      BY <2>1, <2>2, SlaveStepType DEF TypeOK, IsBus, Ic!Interconnect
    <2>8. FlashTypeOK'
      <3>. DEFINE req == [addr |-> Ic!Reg(WbSide.req), we |-> WbSide.req.we,
                          exit |-> WbSide.req.data = ExitData]
      <3>1. Ic!Fl!Flash(WbSide.cyc, Ic!Selects(WbSide, "flash"),
                        Ic!Selects(WbSide, "flashcfg"), req)
        BY <2>1 DEF Ic!Interconnect, Ic!FlashPorts
      <3>2. /\ Ic!Reg(WbSide.req) \in Nat /\ WbSide.req.we \in BOOLEAN
            /\ Ic!Selects(WbSide, "flash") => Ic!Reg(WbSide.req) \in FlashWords
        BY <2>2, SelectFacts DEF IsBus, Requests, Ic!Selects
      <3>3. /\ req.addr \in Nat /\ req.we \in BOOLEAN /\ req.exit \in BOOLEAN
            /\ Ic!Selects(WbSide, "flash") => req.addr \in FlashWords
        BY <3>2
      <3>4. /\ WbSide.cyc \in BOOLEAN
            /\ Ic!Selects(WbSide, "flash") \in BOOLEAN
            /\ Ic!Selects(WbSide, "flashcfg") \in BOOLEAN
        BY <2>2 DEF IsBus, Ic!Selects
      <3>. HIDE DEF req
      <3>. QED
        BY <3>1, <3>3, <3>4, FlashStepType DEF TypeOK
    <2>9. MergeTypeOK'
      BY <2>1, <2>2, MergeStepType DEF TypeOK, IsBus, Ic!Interconnect
    <2>10. HbTypeOK'
      BY <2>1, HbStepType
    <2>11. zip_pend' \in Seq(Requests) /\ hb_pend' \in Seq(Requests)
      BY <2>1, <2>2, OutstandingType DEF TypeOK, TrackRequests
    <2>. QED
      BY <2>3, <2>4, <2>5, <2>6, <2>7, <2>8, <2>9, <2>10, <2>11 DEF TypeOK
  <1>. QED
    BY <1>1, <1>2

\* Every register of the buses, for every memory map, holds what its type says:
\* the flash's counter and word addresses stay in range, and what is tracked as
\* pending are requests.
THEOREM TypeCorrect == Spec => []TypeOK
  <1>1. Init => TypeOK
    BY InitType
  <1>2. TypeOK /\ [Next]_vars => TypeOK'
    BY StepType
  <1>. QED
    BY <1>1, <1>2, PTL DEF Spec

----------------------------------------------------------------------------
(* The arbiter and the delay stage.                                           *)

\* wbpriarbiter.v never takes the bus away in the middle of a cycle, so the
\* requests of one cycle all come from one master.
THEOREM OwnerKept == Spec => OwnerKeepsCycle
  <1>1. TypeOK /\ [Next]_vars
           => [SharedBus.cyc /\ SharedBus.cyc' => r_a_owner' = r_a_owner]_vars
    <2>. SUFFICES ASSUME TypeOK, Next, SharedBus.cyc
                  PROVE  r_a_owner' = r_a_owner
      OBVIOUS
    <2>1. Arb!Arbitrate(ZipBus, HbDwb)
      BY NextIsClock
    <2>2. CASE r_a_owner
      BY <2>1, <2>2 DEF TypeOK, Arb!Arbitrate, SharedBus, Arb!Shared
    <2>3. CASE ~r_a_owner
      BY <2>1, <2>3 DEF TypeOK, Arb!Arbitrate, SharedBus, Arb!Shared
    <2>. QED
      BY <2>2, <2>3
  <1>. QED
    BY <1>1, TypeCorrect, PTL DEF Spec, OwnerKeepsCycle

\* busdelay.v keeps the rules of a master towards the peripherals: what they
\* stall is still there on the next clock, as it was.
THEOREM StalledHeld == Spec => StalledRequestHeld
  <1>1. TypeOK /\ [Next]_vars
           => [dly_stb /\ Ic!Stall(WbSide) /\ dly_cyc' => dly_stb' /\ dly_req' = dly_req]_vars
    <2>. SUFFICES ASSUME TypeOK, Next, dly_stb, Ic!Stall(WbSide), dly_cyc'
                  PROVE  dly_stb' /\ dly_req' = dly_req
      OBVIOUS
    <2>1. Dly!Delay(SharedBus, Ic!IcReturn(WbSide))
      BY NextIsClock
    <2>2. ~Dly!Advance(Ic!IcReturn(WbSide))
      BY DEF Dly!Advance, Ic!IcReturn
    <2>3. ~Dly!EndsRequests(SharedBus, Ic!IcReturn(WbSide))
      BY <2>1 DEF Dly!Delay, Dly!DelayCycle, Dly!EndsRequests
    <2>4. dly_stb'
      BY <2>1, <2>2, <2>3 DEF Dly!Delay, Dly!DelayRequests
    <2>. QED
      BY <2>1, <2>2, <2>4 DEF Dly!Delay, Dly!DelayRequests
  <1>. QED
    BY <1>1, TypeCorrect, PTL DEF Spec, StalledRequestHeld

----------------------------------------------------------------------------
(* Who waits for answers.                                                     *)

LEMMA OutstandingFacts ==
    ASSUME NEW pend \in Seq(Requests), NEW bus, bus.req \in Requests, NEW ret, NEW stays
    PROVE  LET next == Outstanding(pend, bus, ret, stays)
           IN  /\ ~bus.cyc \/ ~stays => next = <<>>
               /\ pend = <<>> /\ ~(bus.stb /\ ~ret.stall) => next = <<>>
               /\ pend = <<>> => Len(next) <= 1 /\ (next # <<>> => next[1] = bus.req)
               /\ ~bus.stb /\ Len(pend) <= 1
                     => Len(next) <= 1 /\ (next # <<>> => next = pend)
  <1>. DEFINE kept == IF ret.ack /\ pend # <<>> THEN Tail(pend) ELSE pend
              next == Outstanding(pend, bus, ret, stays)
  <1>1. next = IF ~bus.cyc \/ ~stays THEN <<>>
               ELSE kept \o (IF bus.stb /\ ~ret.stall THEN <<bus.req>> ELSE <<>>)
    BY DEF Outstanding
  <1>2. kept \in Seq(Requests) /\ <<bus.req>> \in Seq(Requests)
    OBVIOUS
  <1>3. kept \o <<>> = kept
    BY <1>2
  <1>4. ~bus.cyc \/ ~stays => next = <<>>
    BY <1>1
  <1>5. CASE pend = <<>>
    <2>1. kept = <<>>
      BY <1>5
    <2>2. kept \o <<bus.req>> = <<bus.req>>
      BY <1>2, <2>1, ConcatEmptySeq
    <2>3. next = <<>> \/ (next = <<bus.req>> /\ bus.stb /\ ~ret.stall)
      <3>. HIDE DEF next, kept
      <3>. QED
        BY <1>1, <1>3, <2>1, <2>2
    <2>4. Len(<<bus.req>>) = 1 /\ <<bus.req>>[1] = bus.req /\ Len(<<>>) = 0
      OBVIOUS
    <2>5. ~bus.stb => next = <<>>
      BY <2>3
    <2>. HIDE DEF next, kept
    <2>. QED
      BY <1>4, <1>5, <2>3, <2>4, <2>5 DEF next
  <1>6. CASE pend # <<>>
    <2>1. ASSUME ~bus.stb, Len(pend) <= 1
          PROVE  Len(next) <= 1 /\ (next # <<>> => next = pend)
      <3>1. next = <<>> \/ next = kept
        BY <1>1, <1>3, <2>1
      <3>2. kept = pend \/ kept = <<>>
        BY <1>6, <2>1
      <3>3. Len(<<>>) = 0
        OBVIOUS
      <3>. HIDE DEF next, kept
      <3>. QED
        BY <2>1, <3>1, <3>2, <3>3
    <2>. HIDE DEF next, kept
    <2>. QED
      BY <1>4, <1>6, <2>1 DEF next
  <1>. QED
    BY <1>5, <1>6

BusInv == TypeOK /\ OneHostRequest /\ OnlyOwnerWaits

LEMMA InitBusInv == Init => BusInv
  <1>. SUFFICES ASSUME Init PROVE BusInv
    OBVIOUS
  <1>1. zip_pend = <<>> /\ hb_pend = <<>> /\ Len(<<>>) = 0 /\ ~hb_stb
    BY DEF Init, Ex!BusInit
  <1>. QED
    BY <1>1, InitType DEF BusInv, OneHostRequest, OnlyOwnerWaits

LEMMA StepBusInv == BusInv /\ [Next]_vars => BusInv'
  <1>. SUFFICES ASSUME BusInv, [Next]_vars PROVE BusInv'
    OBVIOUS
  <1>. USE DEF BusInv
  <1>1. TypeOK'
    BY StepType
  <1>2. CASE UNCHANGED vars
    <2>1. UNCHANGED <<zip_cyc, zip_pend, hb_cyc, hb_stb, hb_pend, r_a_owner>>
      BY <1>2 DEF vars, zipVars, Ex!busVars
    <2>. QED
      BY <1>1, <2>1 DEF OneHostRequest, OnlyOwnerWaits
  <1>3. CASE Next
    <2>. DEFINE HbSide == [cyc |-> hb_cyc, stb |-> hb_stb, req |-> HbRequest]
    <2>1. PICK reset \in BOOLEAN, cmd \in HostCommands \cup {Ex!NoCmd}, halted \in BOOLEAN :
              /\ Ex!ExecBus(reset, cmd, HbSees(halted))
              /\ Arb!Arbitrate(ZipBus, HbDwb)
              /\ Dly!Delay(SharedBus, Ic!IcReturn(WbSide))
              /\ Ic!Interconnect(WbSide)
              /\ DebugPort(halted)
              /\ HbMerge
              /\ TrackRequests(halted)
      BY <1>3, NextIsClock
    <2>2. HbRequest \in Requests /\ zip_req \in Requests
      BY BusTypes DEF TypeOK, ZipTypeOK
    \* What becomes of each master's requests.
    <2>3. /\ ~zip_cyc \/ ~zip_cyc' => zip_pend' = <<>>
          /\ zip_pend = <<>> /\ ~(zip_stb /\ ~ZipSees.stall) => zip_pend' = <<>>
      BY <2>1, <2>2, OutstandingFacts DEF TrackRequests, ZipBus, TypeOK
    <2>4. /\ ~hb_cyc \/ ~hb_cyc' => hb_pend' = <<>>
          /\ hb_pend = <<>> /\ ~(hb_stb /\ ~HbSees(halted).stall) => hb_pend' = <<>>
          /\ hb_pend = <<>> => Len(hb_pend') <= 1 /\ (hb_pend' # <<>> => hb_pend'[1] = HbRequest)
          /\ ~hb_stb /\ Len(hb_pend) <= 1
               => Len(hb_pend') <= 1 /\ (hb_pend' # <<>> => hb_pend' = hb_pend)
      <3>1. hb_pend' = Outstanding(hb_pend, HbSide, HbSees(halted), hb_cyc')
        BY <2>1 DEF TrackRequests
      <3>2. HbSide.cyc = hb_cyc /\ HbSide.stb = hb_stb /\ HbSide.req = HbRequest
        OBVIOUS
      <3>. HIDE DEF HbSide
      <3>. QED
        BY <2>2, <3>1, <3>2, OutstandingFacts DEF TypeOK
    <2>5. OneHostRequest'
      <3>1. hb_stb' => hb_cyc' /\ ((hb_stb /\ HbSees(halted).stall) \/ (~hb_stb /\ ~hb_cyc))
        BY <2>1 DEF Ex!ExecBus, Ex!ExecCycle, OneHostRequest, TypeOK, ExecTypeOK
      <3>2. hb_stb' => hb_pend' = <<>>
        BY <2>4, <3>1 DEF OneHostRequest
      <3>3. Len(hb_pend') <= 1
        BY <2>4 DEF OneHostRequest
      <3>. QED
        BY <2>3, <2>4, <3>1, <3>2, <3>3 DEF OneHostRequest
    <2>6. ~r_a_owner' => zip_pend' = <<>>
      <3>1. ~r_a_owner => ZipSees.stall /\ zip_pend = <<>>
        BY DEF ZipSees, Arb!ReturnToA, Arb!ReturnTo, OnlyOwnerWaits
      <3>2. ~r_a_owner' => ~r_a_owner \/ ~zip_cyc
        BY <2>1 DEF Arb!Arbitrate, ZipBus, TypeOK
      <3>. QED
        BY <2>3, <3>1, <3>2
    <2>7. r_a_owner' /\ hb_pend' # <<>> => Ic!Sel(hb_pend'[1]) = "zipdbg"
      <3>. SUFFICES ASSUME r_a_owner', hb_pend' # <<>>
                    PROVE  Ic!Sel(hb_pend'[1]) = "zipdbg"
        OBVIOUS
      <3>1. r_a_owner
        BY <2>1, <2>4 DEF Arb!Arbitrate, HbDwb, TypeOK
      <3>2. CASE hb_stb
        <4>1. hb_pend = <<>> /\ ~HbSees(halted).stall
          BY <2>4, <3>2 DEF OneHostRequest
        <4>2. HbDwbSees.stall
          BY <3>1 DEF HbDwbSees, Arb!ReturnToB, Arb!ReturnTo
        <4>3. DebugSelected
          BY <4>1, <4>2 DEF HbSees
        <4>. QED
          BY <2>4, <4>1, <4>3 DEF DebugSelected
      <3>3. CASE ~hb_stb
        BY <2>4, <3>1, <3>3 DEF OneHostRequest, OnlyOwnerWaits
      <3>. QED
        BY <3>2, <3>3
    <2>. QED
      BY <1>1, <2>5, <2>6, <2>7 DEF OnlyOwnerWaits, Ic!Sel
  <1>. QED
    BY <1>2, <1>3

\* The arbiter gives the bus away only once the loser has nothing unanswered on
\* it, whatever the two masters ask for, and however an error, a reset of the
\* host's port or an abandoned cycle ends a request.
THEOREM OnlyOwnerEverWaits == Spec => []OnlyOwnerWaits
  <1>1. Init => BusInv
    BY InitBusInv
  <1>2. BusInv /\ [Next]_vars => BusInv'
    BY StepBusInv
  <1>3. BusInv => OnlyOwnerWaits
    BY DEF BusInv
  <1>. QED
    BY <1>1, <1>2, <1>3, PTL DEF Spec

----------------------------------------------------------------------------
(* What is on its way.                                                        *)

\* The clocks of a bus cycle, from the second on; the requests of the owner's
\* that the shared bus has not answered yet.
Live == SharedBus.cyc /\ dly_cyc
Waiting == IF r_a_owner THEN zip_pend ELSE IF HbWbPending = 1 THEN hb_pend ELSE <<>>

\* Where they are: in a peripheral since one clock or more, acknowledged by it,
\* in the merge's register, in the delay stage's.  The oldest is the first.
EarlyOn == dio_ack0 \/ ram_last_stb \/ ack_delay > 0
LateOn == sio_ack \/ dio_ack1 \/ ram_ack \/ flash_ack
AtMerge == 1 + BitOf(up_ack)
AtLate == AtMerge + BitOf(wb_ack)
AtEarly == AtLate + BitOf(LateOn)
AtDelay == AtEarly + BitOf(EarlyOn)
AtHeld == AtDelay + BitOf(dly_stb)

\* A request in the peripheral that r is for, and one it has answered.
EarlyIs(r) ==
    /\ r_wb_bus_select = Ic!Sel(r)
    /\ dio_ack0 => Ic!Sel(r) = "dio" /\ dio_bus_select = Ic!Reg(r)
    /\ ram_last_stb => Ic!Sel(r) = "bkram" /\ ram_last_addr = Ic!Reg(r)
    /\ ack_delay > 0 =>
         \/ Ic!Sel(r) = "flashcfg"
         \/ /\ Ic!Sel(r) = "flash" /\ ~r.we /\ ~cfg_user_mode
            /\ shift_addr = Ic!Reg(r) /\ r_next_addr = (Ic!Reg(r) + 1) % FlashSize
LateIs(r) ==
    /\ r_wb_bus_select = Ic!Sel(r)
    /\ sio_ack => Ic!Sel(r) = "sio" /\ sio_data = <<"sio", Ic!Reg(r)>>
    /\ dio_ack1 => Ic!Sel(r) = "dio" /\ dio_data = <<"dio", Ic!Reg(r)>>
    /\ ram_ack => Ic!Sel(r) = "bkram" /\ ram_data = <<"bkram", Ic!Reg(r)>>
    /\ flash_ack =>
         \/ Ic!Sel(r) = "flashcfg"
         \/ Ic!Sel(r) = "flash" /\ (r.we \/ cfg_user_mode \/ flash_data = Ic!Reg(r))

\* Nothing else is anywhere, and all is in the order it was asked for in.
FlightOrder ==
    /\ Len(Waiting) = AtHeld + BitOf(r_stb) - 1
    /\ up_ack => MayReturn(Waiting[1], up_data)
    /\ wb_ack => MayReturn(Waiting[AtMerge], wb_idata)
    /\ LateOn => LateIs(Waiting[AtLate])
    /\ EarlyOn => EarlyIs(Waiting[AtEarly])
    /\ dly_stb => Waiting[AtDelay] = dly_req
    /\ r_stb => Waiting[AtHeld] = r_req

\* The flash is stalled while it works, but for the clock before its answer if
\* the next word is asked for; it is selected only while it works, or by the user.
FlashHolds ==
    /\ ack_delay > 1 => flash_stall
    /\ ack_delay = 0 => ~flash_stall /\ (cs_n \/ cfg_user_mode)
    /\ ack_delay = 1 /\ ~flash_stall =>
         /\ dly_stb /\ Ic!Sel(dly_req) = "flash" /\ ~dly_req.we /\ ~cfg_user_mode
         /\ Ic!Reg(dly_req) = r_next_addr
InFlightInv == Live => FlightOrder /\ FlashHolds /\ ~wb_many_ack

\* Requests of one cycle are to one peripheral; what is waiting to be taken too.
Alike(p) ==
    /\ \A i, j \in 1 .. Len(p) :
         Ic!Sel(p[i]) \in Ic!Mapped /\ Ic!Sel(p[j]) \in Ic!Mapped => Ic!Sel(p[i]) = Ic!Sel(p[j])
    /\ \A i \in 1 .. Len(p) : Ic!Sel(p[i]) = "flashcfg" => i = 1
CpuAsks ==
    /\ Alike(zip_pend)
    /\ zip_stb => zip_cyc /\ OneAtATime(zip_req, zip_pend)

\* The host's one request is answered by the wb bus or by the debug port.
HostAsks ==
    /\ hb_cyc => ~hb_many_ack
    /\ hb_cyc /\ (dbg_ack \/ hb_ack) => hb_pend # <<>>
    /\ hb_cyc /\ dbg_ack => Ic!Sel(hb_pend[1]) = "zipdbg" /\ ~hb_ack

\* A cycle of the wb bus is one of its owner's, from a clock later on.
CyclesMatch ==
    /\ dly_stb \/ up_ack => dly_cyc
    /\ r_stb => dly_stb
    /\ up_err => ~dly_cyc
    /\ ~dly_cyc /\ ~up_err => Waiting = <<>>
    /\ up_err /\ SharedBus.cyc =>
         \E i \in 1 .. Len(Waiting) : Ic!Sel(Waiting[i]) \notin Ic!Mapped

FlightInv == BusInv /\ CyclesMatch /\ CpuAsks /\ HostAsks /\ InFlightInv

\* A clock of the flash controller in a bus cycle.
ToFlash == dly_stb /\ Ic!Sel(dly_req) = "flash"
ToConfig == dly_stb /\ Ic!Sel(dly_req) = "flashcfg"
Reads == ToFlash /\ ~flash_stall /\ ~dly_req.we /\ ~cfg_user_mode
Sends == ToConfig /\ ~flash_stall /\ dly_req.we /\ dly_req.data # ExitData
LEMMA FlashClock ==
    ASSUME dly_cyc, Ic!Interconnect(WbSide)
    PROVE  /\ ack_delay' = IF Reads THEN IF cs_n THEN FirstDelay ELSE PipeDelay
                           ELSE IF Sends THEN UserDelay
                           ELSE IF ack_delay # 0 THEN ack_delay - 1 ELSE 0
           /\ flash_ack' = IF ack_delay = 1 THEN TRUE
                           ELSE (ToFlash /\ ~flash_stall /\ ~Reads) \/ (ToConfig /\ ~flash_stall /\ ~Sends)
           /\ flash_stall' = \/ Reads \/ Sends
                             \/ /\ ~(/\ ToFlash /\ ~dly_req.we /\ ~cfg_user_mode
                                     /\ Ic!Reg(dly_req) = r_next_addr /\ ack_delay = 2)
                                /\ ack_delay > 1
           /\ cfg_user_mode' = IF ToConfig /\ ~flash_stall /\ dly_req.we THEN dly_req.data # ExitData
                               ELSE cfg_user_mode
           /\ cs_n' = IF Reads THEN FALSE
                      ELSE IF ToConfig /\ ~flash_stall /\ dly_req.we THEN dly_req.data = ExitData
                      ELSE IF cfg_user_mode THEN FALSE ELSE IF ack_delay = 1 THEN TRUE ELSE cs_n
           /\ r_next_addr' = IF flash_stall THEN r_next_addr ELSE (Ic!Reg(dly_req) + 1) % FlashSize
           /\ shift_addr' = IF ~Reads THEN shift_addr ELSE IF cs_n THEN Ic!Reg(dly_req)
                            ELSE (shift_addr + 1) % FlashSize
           /\ flash_data' = IF ack_delay = 1 /\ ~cfg_user_mode THEN shift_addr ELSE Ic!Fl!Shifting
  <1> DEFINE req == [addr |-> Ic!Reg(dly_req), we |-> dly_req.we, exit |-> dly_req.data = ExitData]
  <1>1. Ic!Fl!Flash(TRUE, ToFlash, ToConfig, req)
    <2>1. WbSide.cyc = dly_cyc /\ WbSide.stb = dly_stb /\ WbSide.req = dly_req
      BY DEF WbSide
    <2>2. Ic!Fl!Flash(WbSide.cyc, Ic!Selects(WbSide, "flash"), Ic!Selects(WbSide, "flashcfg"),
              [addr |-> Ic!Reg(WbSide.req), we |-> WbSide.req.we, exit |-> WbSide.req.data = ExitData])
      BY DEF Ic!Interconnect, Ic!FlashPorts
    <2> QED
      BY <2>1, <2>2 DEF Ic!Selects, ToFlash, ToConfig
  <1>2. req.addr = Ic!Reg(dly_req) /\ req.we = dly_req.we /\ req.exit = (dly_req.data = ExitData)
    OBVIOUS
  <1> HIDE DEF req
  <1>3. Ic!Fl!BusRequest(ToFlash, req) = Reads /\ Ic!Fl!UserRequest(ToConfig, req) = Sends
    BY <1>2 DEF Ic!Fl!BusRequest, Ic!Fl!UserRequest, Reads, Sends
  <1> QED
    BY <1>1, <1>2, <1>3 DEF Ic!Fl!Flash, Ic!Fl!FlashDelay, Ic!Fl!FlashAck, Ic!Fl!FlashStall,
        Ic!Fl!NextRequest, Ic!Fl!FlashMode, Ic!Fl!FlashSelect, Ic!Fl!FlashData

LEMMA SlaveClock ==
    ASSUME dly_cyc, Ic!Interconnect(WbSide)
    PROVE  /\ sio_ack' = (dly_stb /\ Ic!Sel(dly_req) = "sio")
           /\ sio_ack' => sio_data' = <<"sio", Ic!Reg(dly_req)>>
           /\ dio_ack0' = (dly_stb /\ Ic!Sel(dly_req) = "dio")
           /\ dio_ack0' => dio_bus_select' = Ic!Reg(dly_req)
           /\ dio_ack1' = (TRUE /\ dio_ack0)
           /\ dio_ack1' => dio_data' = <<"dio", dio_bus_select>>
           /\ ram_last_stb' = (dly_stb /\ Ic!Sel(dly_req) = "bkram")
           /\ ram_last_stb' => ram_last_addr' = Ic!Reg(dly_req)
           /\ ram_ack' = (ram_last_stb /\ TRUE)
           /\ ram_ack' => ram_data' = <<"bkram", ram_last_addr>>
           /\ r_wb_bus_select' = IF /\ dly_stb /\ ~(Ic!Sel(dly_req) = "flash" /\ flash_stall)
                                    /\ Ic!Sel(dly_req) \in Ic!Mapped
                                 THEN Ic!Sel(dly_req) ELSE r_wb_bus_select
  <1>1. WbSide.cyc = TRUE /\ WbSide.stb = dly_stb /\ WbSide.req = dly_req
    BY DEF WbSide
  <1>2. Ic!Sio(WbSide) /\ Ic!Dio(WbSide) /\ Ic!MemDev(WbSide) /\ Ic!Merge(WbSide)
    BY DEF Ic!Interconnect
  <1> QED
    BY <1>1, <1>2 DEF Ic!Sio, Ic!Dio, Ic!MemDev, Ic!Merge, Ic!Selects, Ic!Tracked, Ic!Stall

\* A request r, the oldest that no peripheral has answered, goes through one
\* clock with d, the one in the delay stage, which is alike.
Taken == dly_stb /\ ~Ic!Stall(WbSide)
Arrives(r, d) ==
    /\ r \in Requests /\ d \in Requests /\ dly_stb => d = dly_req
    /\ EarlyOn => EarlyIs(r)
    /\ ~EarlyOn => r = d
    /\ dly_stb => Ic!Sel(d) \in Ic!Mapped
    /\ EarlyOn /\ dly_stb => Ic!Sel(d) = Ic!Sel(r) /\ Ic!Sel(d) # "flashcfg"
Passed(r, d) ==
    /\ BitOf(LateOn)' + BitOf(EarlyOn)' = BitOf(EarlyOn) + BitOf(Taken)
    /\ LateOn' => LateIs(r)'
    /\ EarlyOn' => IF LateOn' THEN EarlyIs(d)' ELSE EarlyIs(r)'

LEMMA SlaveTypes ==
    ASSUME TypeOK
    PROVE  /\ dly_stb \in BOOLEAN /\ dly_req \in Requests /\ dly_req.we \in BOOLEAN
           /\ dio_ack0 \in BOOLEAN /\ ram_last_stb \in BOOLEAN /\ sio_ack \in BOOLEAN
           /\ dio_ack1 \in BOOLEAN /\ ram_ack \in BOOLEAN /\ flash_ack \in BOOLEAN
           /\ ack_delay \in Nat /\ flash_stall \in BOOLEAN /\ cs_n \in BOOLEAN
           /\ cfg_user_mode \in BOOLEAN /\ wb_ack \in BOOLEAN /\ up_ack \in BOOLEAN
           /\ r_stb \in BOOLEAN /\ r_req \in Requests
  BY DEF TypeOK, DelayTypeOK, SlaveTypeOK, FlashTypeOK, MergeTypeOK, Requests

LEMMA FixedMoves ==
    ASSUME TypeOK, TypeOK', dly_cyc, Ic!Interconnect(WbSide), FlashHolds,
           NEW r \in Requests, NEW d \in Requests, Arrives(r, d),
           Ic!Sel(r) \in {"sio", "dio", "bkram"}, EarlyOn \/ dly_stb
    PROVE  Passed(r, d)
  <1>1. ack_delay = 0 /\ ~flash_stall
    BY SlaveTypes DEF Arrives, EarlyIs, EarlyOn, FlashHolds
  <1>2. Taken = dly_stb /\ (dly_stb => Ic!Sel(dly_req) = Ic!Sel(r))
    BY <1>1, SlaveTypes DEF Taken, Ic!Stall, Arrives, WbSide
  <1>3. ack_delay' = 0 /\ flash_ack' = FALSE
    <2>1. ~ToFlash /\ ~ToConfig
      BY <1>2, SlaveTypes DEF ToFlash, ToConfig
    <2>2. ~Reads /\ ~Sends
      BY <2>1 DEF Reads, Sends
    <2>3. ack_delay' = 0
      BY <1>1, <2>2, FlashClock
    <2>4. flash_ack' = IF ack_delay = 1 THEN TRUE ELSE FALSE
      BY <2>1, FlashClock
    <2>5. ack_delay # 1
      BY <1>1
    <2> QED
      BY <2>3, <2>4, <2>5
  <1>4. r_wb_bus_select' = Ic!Sel(r)
    BY <1>1, <1>2, SlaveClock DEF Arrives, EarlyIs, Ic!Mapped
  <1>5. CASE Ic!Sel(r) = "sio"
    <2>1. ~EarlyOn /\ dly_stb
      BY <1>1, <1>5 DEF Arrives, EarlyOn, EarlyIs
    <2>2. r = dly_req /\ Ic!Sel(dly_req) = "sio"
      BY <2>1, <1>2, <1>5 DEF Arrives
    <2>3. /\ sio_ack' /\ ~dio_ack0' /\ ~ram_last_stb' /\ ~dio_ack1' /\ ~ram_ack'
          /\ sio_data' = <<"sio", Ic!Reg(r)>>
      BY <2>1, <2>2, SlaveClock DEF EarlyOn
    <2>4. LateOn' /\ ~EarlyOn' /\ ~EarlyOn /\ Taken
      BY <2>1, <2>3, <1>2, <1>3 DEF LateOn, EarlyOn
    <2> QED
      BY <1>3, <1>4, <1>5, <2>3, <2>4 DEF Passed, LateIs, BitOf
  <1>6. CASE Ic!Sel(r) = "dio"
    <2>1. /\ ~ram_last_stb /\ (dio_ack0 => dio_bus_select = Ic!Reg(r))
          /\ (dly_stb => Ic!Sel(d) = "dio" /\ Ic!Sel(dly_req) = "dio")
      BY <1>1, <1>2, <1>6 DEF Arrives, EarlyOn, EarlyIs
    <2>2. /\ ~sio_ack' /\ dio_ack0' = dly_stb /\ ~ram_last_stb' /\ dio_ack1' = dio_ack0 /\ ~ram_ack'
          /\ dio_ack1' => dio_data' = <<"dio", Ic!Reg(r)>>
          /\ dio_ack0' => dio_bus_select' = Ic!Reg(d)
      BY <2>1, SlaveClock, SlaveTypes DEF Arrives
    <2>3. /\ LateOn' = dio_ack0 /\ EarlyOn' = dly_stb /\ EarlyOn = dio_ack0 /\ Taken = dly_stb
      BY <2>1, <2>2, <1>1, <1>2, <1>3, SlaveTypes DEF LateOn, EarlyOn
    <2>4. LateOn' => LateIs(r)'
      BY <1>3, <1>4, <1>6, <2>2 DEF LateIs
    <2>5. dly_stb => EarlyIs(d)'
      BY <1>3, <1>4, <1>6, <2>1, <2>2 DEF EarlyIs, Ic!Sel, Ic!Reg
    <2>6. EarlyOn' => IF LateOn' THEN EarlyIs(d)' ELSE EarlyIs(r)'
      BY <2>3, <2>5 DEF Arrives
    <2> QED
      BY <2>3, <2>4, <2>6 DEF Passed, BitOf
  <1>7. CASE Ic!Sel(r) = "bkram"
    <2>1. /\ ~dio_ack0 /\ (ram_last_stb => ram_last_addr = Ic!Reg(r))
          /\ (dly_stb => Ic!Sel(d) = "bkram" /\ Ic!Sel(dly_req) = "bkram")
      BY <1>1, <1>2, <1>7 DEF Arrives, EarlyOn, EarlyIs
    <2>2. /\ ~sio_ack' /\ ram_last_stb' = dly_stb /\ ~dio_ack0' /\ ram_ack' = ram_last_stb /\ ~dio_ack1'
          /\ ram_ack' => ram_data' = <<"bkram", Ic!Reg(r)>>
          /\ ram_last_stb' => ram_last_addr' = Ic!Reg(d)
      BY <2>1, SlaveClock, SlaveTypes DEF Arrives
    <2>3. /\ LateOn' = ram_last_stb /\ EarlyOn' = dly_stb /\ EarlyOn = ram_last_stb /\ Taken = dly_stb
      BY <2>1, <2>2, <1>1, <1>2, <1>3, SlaveTypes DEF LateOn, EarlyOn
    <2>4. LateOn' => LateIs(r)'
      BY <1>3, <1>4, <1>7, <2>2 DEF LateIs
    <2>5. dly_stb => EarlyIs(d)'
      BY <1>3, <1>4, <1>7, <2>1, <2>2 DEF EarlyIs, Ic!Sel, Ic!Reg
    <2>6. EarlyOn' => IF LateOn' THEN EarlyIs(d)' ELSE EarlyIs(r)'
      BY <2>3, <2>5 DEF Arrives
    <2> QED
      BY <2>3, <2>4, <2>6 DEF Passed, BitOf
  <1> QED
    BY <1>5, <1>6, <1>7

LEMMA FlashMoves ==
    ASSUME TypeOK, TypeOK', dly_cyc, Ic!Interconnect(WbSide), FlashHolds,
           NEW r \in Requests, NEW d \in Requests, Arrives(r, d),
           Ic!Sel(r) \in {"flash", "flashcfg"}, EarlyOn \/ dly_stb
    PROVE  Passed(r, d)
  <1> USE FlashFacts, SlaveTypes
  <1>1. /\ ~dio_ack0 /\ ~ram_last_stb /\ EarlyOn = (ack_delay > 0)
        /\ dly_stb => d = dly_req /\ Ic!Sel(dly_req) = Ic!Sel(r)
        /\ EarlyOn /\ dly_stb => Ic!Sel(r) = "flash"
    BY DEF Arrives, EarlyIs, EarlyOn
  <1>2. LateOn' = flash_ack' /\ EarlyOn' = (ack_delay' > 0)
    <2>1. /\ sio_ack' = FALSE /\ dio_ack0' = FALSE /\ dio_ack1' = FALSE
          /\ ram_last_stb' = FALSE /\ ram_ack' = FALSE
      BY <1>1, SlaveClock
    <2> QED
      BY <2>1, SlaveTypes DEF LateOn, EarlyOn, TypeOK, FlashTypeOK
  <1>3. ~(sio_ack' \/ dio_ack0' \/ dio_ack1' \/ ram_last_stb' \/ ram_ack')
    BY <1>1, SlaveClock
  <1>4. ~Taken => r_wb_bus_select' = r_wb_bus_select
    BY SlaveClock DEF Taken, Ic!Stall, WbSide
  <1>5. Taken => r_wb_bus_select' = Ic!Sel(r)
    BY <1>1, SlaveClock DEF Taken, Ic!Stall, WbSide, Ic!Mapped
  <1>6. r_wb_bus_select' = Ic!Sel(r)
    BY <1>1, <1>4, <1>5 DEF Arrives, EarlyIs, FlashHolds, Taken, Ic!Stall
  <1>7. CASE Ic!Sel(r) = "flash"
    <2>1. ~ToConfig /\ ~Sends /\ cfg_user_mode' = cfg_user_mode
      BY <1>1, <1>7, FlashClock DEF ToConfig, Sends
    <2>2. CASE ack_delay = 0
      <3>1. dly_stb /\ ~EarlyOn /\ r = d /\ d = dly_req /\ ~flash_stall /\ ToFlash /\ Taken
        BY <1>1, <1>7, <2>2 DEF Arrives, FlashHolds, ToFlash, Taken, Ic!Stall, WbSide
      <3>2. CASE Reads
        <4>1. cs_n /\ ~r.we /\ ~cfg_user_mode
          BY <2>2, <3>1, <3>2 DEF FlashHolds, Reads
        <4>2. /\ ack_delay' > 0 /\ ~flash_ack' /\ shift_addr' = Ic!Reg(r)
              /\ r_next_addr' = (Ic!Reg(r) + 1) % FlashSize
          BY <2>1, <2>2, <3>1, <3>2, <4>1, FlashClock
        <4>3. EarlyIs(r)'
          BY <1>3, <1>6, <1>7, <2>1, <4>1, <4>2 DEF EarlyIs
        <4> QED
          BY <1>2, <3>1, <4>2, <4>3 DEF Passed, BitOf
      <3>3. CASE ~Reads
        <4>1. ack_delay' = 0 /\ flash_ack'
          BY <2>1, <2>2, <3>1, <3>3, FlashClock
        <4>2. r.we \/ cfg_user_mode'
          BY <2>1, <3>1, <3>3 DEF Reads
        <4>3. LateIs(r)'
          BY <1>3, <1>6, <1>7, <4>2 DEF LateIs
        <4> QED
          BY <1>2, <3>1, <4>1, <4>3 DEF Passed, BitOf
      <3> QED
        BY <3>2, <3>3
    <2>3. CASE ack_delay = 1
      <3>1. /\ EarlyOn /\ ~r.we /\ ~cfg_user_mode
            /\ shift_addr = Ic!Reg(r) /\ r_next_addr = (Ic!Reg(r) + 1) % FlashSize
        BY <1>1, <1>7, <2>3 DEF Arrives, EarlyIs
      <3>2. flash_ack' /\ flash_data' = Ic!Reg(r)
        BY <2>3, <3>1, FlashClock
      <3>3. LateIs(r)'
        BY <1>3, <1>6, <1>7, <3>2 DEF LateIs
      <3>4. CASE flash_stall
        <4>1. ~Taken /\ ~Reads
          BY <1>1, <1>7, <3>4 DEF Taken, Reads, Ic!Stall, WbSide
        <4>2. ack_delay' = 0
          BY <2>1, <2>3, <4>1, FlashClock
        <4> QED
          BY <1>2, <3>1, <3>2, <3>3, <4>1, <4>2 DEF Passed, BitOf
      <3>5. CASE ~flash_stall
        <4>1. /\ dly_stb /\ d = dly_req /\ Ic!Sel(d) = "flash" /\ ~d.we
              /\ Ic!Reg(d) = r_next_addr
          BY <1>1, <2>3, <3>5 DEF FlashHolds
        <4>2. Taken /\ Reads
          BY <3>1, <3>5, <4>1 DEF Taken, Reads, ToFlash, Ic!Stall, WbSide
        <4>3. /\ ack_delay' > 0 /\ shift_addr' = Ic!Reg(d)
              /\ r_next_addr' = (Ic!Reg(d) + 1) % FlashSize
          BY <3>1, <3>5, <4>1, <4>2, FlashClock
        <4>4. r_wb_bus_select' = Ic!Sel(d)
          BY <1>6, <1>7, <4>1
        <4>5. EarlyIs(d)'
          BY <1>3, <2>1, <3>1, <4>1, <4>3, <4>4 DEF EarlyIs
        <4> QED
          BY <1>2, <3>1, <3>2, <3>3, <4>2, <4>3, <4>5 DEF Passed, BitOf
      <3> QED
        BY <3>4, <3>5
    <2>4. CASE ack_delay > 1
      <3>1. /\ EarlyOn /\ ~r.we /\ ~cfg_user_mode
            /\ shift_addr = Ic!Reg(r) /\ r_next_addr = (Ic!Reg(r) + 1) % FlashSize
        BY <1>1, <1>7, <2>4 DEF Arrives, EarlyIs
      <3>2. flash_stall /\ ~Taken /\ ~Reads
        BY <1>1, <1>7, <2>4 DEF FlashHolds, Taken, Reads, Ic!Stall, WbSide
      <3>3. ack_delay' = ack_delay - 1 /\ ack_delay' > 0
        <4>1. ack_delay # 0 /\ ack_delay - 1 > 0
          BY <2>4
        <4>2. ack_delay' = ack_delay - 1
          BY <2>1, <3>2, <4>1, FlashClock
        <4> QED
          BY <4>1, <4>2
      <3>5. ~flash_ack'
        <4>1. ack_delay # 1
          BY <2>4
        <4> QED
          BY <2>1, <3>2, <4>1, FlashClock
      <3>6. shift_addr' = shift_addr /\ r_next_addr' = r_next_addr
        BY <3>2, FlashClock
      <3>4. EarlyIs(r)'
        BY <1>3, <1>6, <1>7, <2>1, <3>1, <3>6 DEF EarlyIs
      <3>7. ~LateOn' /\ EarlyOn'
        BY <1>2, <3>3, <3>5
      <3> QED
        BY <3>1, <3>2, <3>4, <3>7 DEF Passed, BitOf
    <2> QED
      BY <2>2, <2>3, <2>4
  <1>8. CASE Ic!Sel(r) = "flashcfg"
    <2>1. EarlyIs(r)' /\ LateIs(r)'
      BY <1>3, <1>6, <1>8 DEF EarlyIs, LateIs
    <2>2. ~ToFlash /\ ~Reads
      BY <1>1, <1>8 DEF ToFlash, Reads
    <2>3. CASE ack_delay = 0
      <3>1. dly_stb /\ ~EarlyOn /\ ~flash_stall /\ ToConfig /\ Taken
        BY <1>1, <1>8, <2>3 DEF FlashHolds, ToConfig, Taken, Ic!Stall, WbSide
      <3>2. CASE Sends
        <4>1. ack_delay' > 0
          BY <2>2, <3>2, FlashClock
        <4>2. ~flash_ack'
          <5>1. ack_delay # 1
            BY <2>3
          <5> QED
            BY <2>2, <3>2, <5>1, FlashClock
        <4> QED
          BY <1>2, <2>1, <3>1, <4>1, <4>2 DEF Passed, BitOf
      <3>3. CASE ~Sends
        <4>1. ack_delay' = 0
          BY <2>2, <2>3, <3>3, FlashClock
        <4>2. flash_ack'
          BY <2>2, <2>3, <3>1, <3>3, FlashClock
        <4> QED
          BY <1>2, <2>1, <3>1, <4>1, <4>2 DEF Passed, BitOf
      <3> QED
        BY <3>2, <3>3
    <2>4. CASE ack_delay > 0
      <3>1. EarlyOn /\ ~dly_stb /\ ~Taken /\ ~ToConfig /\ ~Sends
        BY <1>1, <1>8, <2>4 DEF ToConfig, Sends, Taken
      <3>2. ack_delay' = ack_delay - 1
        <4>1. ack_delay # 0
          BY <2>4
        <4> QED
          BY <2>2, <3>1, <4>1, FlashClock
      <3>3. (ack_delay' > 0) = (ack_delay # 1)
        BY <2>4, <3>2
      <3>4. flash_ack' = (ack_delay = 1)
        BY <2>2, <3>1, FlashClock
      <3>5. CASE ack_delay = 1
        <4>1. LateOn' /\ ~EarlyOn'
          BY <1>2, <3>3, <3>4, <3>5
        <4> QED
          BY <2>1, <3>1, <4>1 DEF Passed, BitOf
      <3>6. CASE ack_delay # 1
        <4>1. ~LateOn' /\ EarlyOn'
          BY <1>2, <3>3, <3>4, <3>6
        <4> QED
          BY <2>1, <3>1, <4>1 DEF Passed, BitOf
      <3> QED
        BY <3>5, <3>6
    <2> QED
      BY <2>3, <2>4
  <1> QED
    BY <1>7, <1>8

LEMMA NothingMoves ==
    ASSUME TypeOK, TypeOK', dly_cyc, Ic!Interconnect(WbSide), ~EarlyOn, ~dly_stb
    PROVE  ~EarlyOn' /\ ~LateOn'
  <1> USE SlaveTypes
  <1>1. ~dio_ack0 /\ ~ram_last_stb /\ ack_delay = 0 /\ ~Reads /\ ~Sends /\ ~ToFlash /\ ~ToConfig
    BY DEF EarlyOn, Reads, Sends, ToFlash, ToConfig
  <1>2. ack_delay' = 0
    BY <1>1, FlashClock
  <1>3. ~flash_ack'
    BY <1>1, FlashClock
  <1>4. ~(sio_ack' \/ dio_ack0' \/ dio_ack1' \/ ram_last_stb' \/ ram_ack')
    BY <1>1, SlaveClock
  <1> QED
    BY <1>2, <1>3, <1>4 DEF EarlyOn, LateOn

\* What the flash's lines say stays true: a stalled request is still there.
LEMMA FlashHoldsStep ==
    ASSUME TypeOK, TypeOK', dly_cyc, Ic!Interconnect(WbSide), FlashHolds,
           dly_stb /\ Ic!Stall(WbSide) => dly_stb' /\ dly_req' = dly_req
    PROVE  FlashHolds'
  <1> USE FlashFacts, SlaveTypes
  <1>1. ack_delay' \in Nat
    BY DEF TypeOK, FlashTypeOK
  <1>2. ack_delay' > 1 => flash_stall'
    BY <1>1, FlashClock
  <1>3. ack_delay' = 0 => ~flash_stall' /\ (cs_n' \/ cfg_user_mode')
    <2> SUFFICES ASSUME ack_delay' = 0 PROVE ~flash_stall' /\ (cs_n' \/ cfg_user_mode')
      OBVIOUS
    <2>1. ~Reads /\ ~Sends /\ ack_delay \in {0, 1}
      BY FlashClock
    <2>2. ~flash_stall'
      BY <2>1, FlashClock
    <2>3. ToConfig /\ ~flash_stall /\ dly_req.we => cs_n'
      BY <2>1, FlashClock DEF Sends
    <2>4. ~(ToConfig /\ ~flash_stall /\ dly_req.we) => cs_n' \/ cfg_user_mode'
      BY <2>1, FlashClock DEF FlashHolds
    <2> QED
      BY <2>2, <2>3, <2>4
  <1>4. ack_delay' = 1 /\ ~flash_stall' =>
          /\ dly_stb' /\ Ic!Sel(dly_req') = "flash" /\ ~dly_req'.we /\ ~cfg_user_mode'
          /\ Ic!Reg(dly_req') = r_next_addr'
    <2> SUFFICES ASSUME ack_delay' = 1, ~flash_stall'
                 PROVE  /\ dly_stb' /\ Ic!Sel(dly_req') = "flash" /\ ~dly_req'.we /\ ~cfg_user_mode'
                        /\ Ic!Reg(dly_req') = r_next_addr'
      OBVIOUS
    <2>1. ~Reads /\ ~Sends /\ ack_delay = 2
      BY FlashClock
    <2>2. ToFlash /\ ~dly_req.we /\ ~cfg_user_mode /\ Ic!Reg(dly_req) = r_next_addr
      BY <2>1, FlashClock
    <2>3. flash_stall /\ dly_stb /\ Ic!Sel(dly_req) = "flash"
      BY <2>1, <2>2 DEF FlashHolds, ToFlash
    <2>4. dly_stb' /\ dly_req' = dly_req
      BY <2>3 DEF Ic!Stall, WbSide
    <2>5. cfg_user_mode' = cfg_user_mode /\ r_next_addr' = r_next_addr
      BY <2>3, FlashClock
    <2> QED
      BY <2>2, <2>3, <2>4, <2>5
  <1> QED
    BY <1>2, <1>3, <1>4 DEF FlashHolds, Ic!Sel, Ic!Reg

----------------------------------------------------------------------------
(* What a clock does to the requests that wait for an answer.                 *)

\* From p to q: the oldest goes, perhaps, and r is added, perhaps.
Moves(q, p, gone, new, r) ==
    /\ Len(q) = Len(p) - gone + new
    /\ \A i \in 1 .. Len(p) - gone : q[i] = p[i + gone]
    /\ new = 1 => q[Len(p) - gone + 1] = r

LEMMA BitFacts ==
    ASSUME NEW b
    PROVE  BitOf(b) \in {0, 1} /\ (BitOf(b) = 1 <=> b) /\ (BitOf(b) = 0 <=> ~b)
  BY DEF BitOf

LEMMA OutstandingMoves ==
    ASSUME NEW pend \in Seq(Requests), NEW bus, bus.req \in Requests, bus.cyc,
           NEW ret, NEW stays, stays
    PROVE  Moves(Outstanding(pend, bus, ret, stays), pend,
                 BitOf(ret.ack /\ pend # <<>>), BitOf(bus.stb /\ ~ret.stall), bus.req)
  <1> DEFINE gone == BitOf(ret.ack /\ pend # <<>>)
             kept == IF ret.ack /\ pend # <<>> THEN Tail(pend) ELSE pend
             more == IF bus.stb /\ ~ret.stall THEN <<bus.req>> ELSE <<>>
  <1>1. Outstanding(pend, bus, ret, stays) = kept \o more
    BY DEF Outstanding
  <1>2. /\ kept \in Seq(Requests) /\ Len(kept) = Len(pend) - gone
        /\ \A i \in 1 .. Len(pend) - gone : kept[i] = pend[i + gone]
    <2>1. CASE ret.ack /\ pend # <<>>
      <3>1. kept = Tail(pend) /\ gone = 1
        BY <2>1 DEF BitOf
      <3>2. Tail(pend) \in Seq(Requests) /\ Len(Tail(pend)) = Len(pend) - 1
            /\ \A i \in 1 .. Len(pend) - 1 : Tail(pend)[i] = pend[i + 1]
        BY <2>1
      <3> QED
        BY <3>1, <3>2
    <2>2. CASE ~(ret.ack /\ pend # <<>>)
      <3>1. kept = pend /\ gone = 0
        BY <2>2 DEF BitOf
      <3>2. Len(pend) \in Nat
        OBVIOUS
      <3> HIDE DEF kept, gone
      <3> QED
        BY <3>1, <3>2
    <2> QED
      BY <2>1, <2>2
  <1>3. gone \in {0, 1} /\ Len(pend) \in Nat
    BY DEF BitOf
  <1>4. /\ Len(kept \o <<bus.req>>) = Len(kept) + 1 /\ (kept \o <<bus.req>>)[Len(kept) + 1] = bus.req
        /\ \A i \in 1 .. Len(kept) : (kept \o <<bus.req>>)[i] = kept[i]
    <2> HIDE DEF kept
    <2> QED
      BY <1>2
  <1>5. kept \o <<>> = kept
    BY <1>2
  <1> HIDE DEF kept, gone
  <1>6. CASE bus.stb /\ ~ret.stall
    <2>1. more = <<bus.req>> /\ BitOf(bus.stb /\ ~ret.stall) = 1
      BY <1>6 DEF BitOf
    <2> DEFINE next == Outstanding(pend, bus, ret, stays)
    <2>2. next = kept \o <<bus.req>>
      BY <1>1, <2>1
    <2> HIDE DEF more, next
    <2>3. Len(next) = Len(pend) - gone + 1 /\ next[Len(pend) - gone + 1] = bus.req
      BY <1>2, <1>4, <2>2
    <2>4. \A i \in 1 .. Len(pend) - gone : next[i] = pend[i + gone]
      BY <1>2, <1>4, <2>2
    <2>5. Moves(next, pend, gone, 1, bus.req)
      BY <2>3, <2>4 DEF Moves
    <2> QED
      BY <2>1, <2>5 DEF gone, next
  <1>7. CASE ~(bus.stb /\ ~ret.stall)
    <2>1. more = <<>> /\ BitOf(bus.stb /\ ~ret.stall) = 0
      BY <1>7 DEF BitOf
    <2> DEFINE next == Outstanding(pend, bus, ret, stays)
    <2>2. next = kept
      BY <1>1, <1>5, <2>1
    <2> HIDE DEF more, next
    <2>3. Len(next) = Len(pend) - gone + 0 /\ \A i \in 1 .. Len(pend) - gone : next[i] = pend[i + gone]
      BY <1>2, <1>3, <2>2
    <2>4. Moves(next, pend, gone, 0, bus.req)
      BY <2>3 DEF Moves
    <2> QED
      BY <2>1, <2>4 DEF gone, next
  <1> QED
    BY <1>6, <1>7

LEMMA OneAdded ==
    ASSUME NEW r, NEW q, NEW b, Moves(q, <<>>, 0, b, r), q \in Seq(Requests), b \in {0, 1}
    PROVE  (b = 0 => q = <<>>) /\ (b = 1 => q # <<>> /\ q[1] = r /\ Len(q) = 1)
  <1>1. Len(q) = b /\ (b = 1 => q[1] = r)
    BY DEF Moves
  <1> QED
    BY <1>1

Clocked(reset, cmd, halted) ==
    /\ Ex!ExecBus(reset, cmd, HbSees(halted))
    /\ Arb!Arbitrate(ZipBus, HbDwb)
    /\ Dly!Delay(SharedBus, Ic!IcReturn(WbSide))
    /\ Ic!Interconnect(WbSide)
    /\ DebugPort(halted) /\ HbMerge
    /\ Zip /\ TrackRequests(halted)

\* What each master sees, and drives.
LEMMA Wires ==
    ASSUME TypeOK
    PROVE  /\ SharedBus.cyc = IF r_a_owner THEN zip_cyc ELSE hb_cyc
           /\ SharedBus.stb = IF r_a_owner THEN zip_stb ELSE hb_stb /\ ~DebugSelected
           /\ SharedBus.req = IF r_a_owner THEN zip_req ELSE HbRequest
           /\ ZipSees.ack = (r_a_owner /\ up_ack) /\ ZipSees.err = (r_a_owner /\ up_err)
           /\ ZipSees.stall = (r_a_owner => r_stb) /\ ZipSees.data = up_data
           /\ HbDwbSees.ack = (~r_a_owner /\ up_ack) /\ HbDwbSees.err = (~r_a_owner /\ up_err)
           /\ HbDwbSees.stall = (~r_a_owner => r_stb) /\ HbDwbSees.data = up_data
           /\ \A halted : /\ HbSees(halted).ack = hb_ack /\ HbSees(halted).data = hb_idata
                          /\ HbSees(halted).err = (hb_many_ack \/ HbDwbSees.err)
                          /\ HbSees(halted).stall = IF DebugSelected THEN DebugStall(halted)
                                                    ELSE HbDwbSees.stall
  BY DEF TypeOK, SharedBus, Arb!Shared, ZipBus, HbDwb, ZipSees, HbDwbSees, Arb!ReturnToA,
         Arb!ReturnToB, Arb!ReturnTo, Dly!DelayReturn, HbSees

LEMMA OwnerKeeps ==
    ASSUME TypeOK, SharedBus.cyc, Arb!Arbitrate(ZipBus, HbDwb)
    PROVE  r_a_owner' = r_a_owner
  <1>1. CASE r_a_owner
    BY <1>1 DEF TypeOK, Arb!Arbitrate, SharedBus, Arb!Shared
  <1>2. CASE ~r_a_owner
    BY <1>2 DEF TypeOK, Arb!Arbitrate, SharedBus, Arb!Shared
  <1> QED
    BY <1>1, <1>2

LEMMA SharedNext ==
    ASSUME TypeOK'
    PROVE  SharedBus.cyc' = IF r_a_owner' THEN zip_cyc' ELSE hb_cyc'
  BY DEF SharedBus, Arb!Shared, ZipBus, HbDwb

LEMMA AnswerWaits ==
    ASSUME FlightInv, SharedBus.cyc, up_ack
    PROVE  Waiting # <<>>
  <1>1. FlightOrder
    BY DEF FlightInv, CyclesMatch, InFlightInv, Live
  <1>2. Len(Waiting) = AtHeld + BitOf(r_stb) - 1
    BY <1>1 DEF FlightOrder
  <1>3. /\ BitOf(r_stb) \in Nat /\ BitOf(wb_ack) \in Nat /\ BitOf(LateOn) \in Nat
        /\ BitOf(EarlyOn) \in Nat /\ BitOf(dly_stb) \in Nat
    BY DEF BitOf
  <1>4. AtHeld \in Nat /\ AtHeld >= 2
    <2>1. AtMerge = 2
      BY DEF AtMerge, BitOf
    <2>2. AtLate \in Nat /\ AtLate >= 2
      BY <1>3, <2>1 DEF AtLate
    <2>3. AtEarly \in Nat /\ AtEarly >= 2
      BY <1>3, <2>2 DEF AtEarly
    <2>4. AtDelay \in Nat /\ AtDelay >= 2
      BY <1>3, <2>3 DEF AtDelay
    <2> QED
      BY <1>3, <2>4 DEF AtHeld
  <1>5. Len(Waiting) # 0
    BY <1>2, <1>3, <1>4
  <1> QED
    BY <1>5

\* The owner's requests: the wb bus answers the oldest, and takes one.
WaitingMove ==
    Moves(Waiting', Waiting, BitOf(up_ack /\ Waiting # <<>>),
          BitOf(SharedBus.stb /\ ~r_stb), SharedBus.req)

LEMMA CpuWaits ==
    ASSUME FlightInv, TypeOK', NEW halted \in BOOLEAN, TrackRequests(halted),
           r_a_owner, r_a_owner', zip_cyc, zip_cyc'
    PROVE  WaitingMove
  <1>1. Waiting = zip_pend /\ Waiting' = zip_pend'
    BY DEF Waiting
  <1>2. zip_pend \in Seq(Requests) /\ zip_req \in Requests /\ up_ack \in BOOLEAN
    BY DEF FlightInv, BusInv, TypeOK, ZipTypeOK, DelayTypeOK
  <1>3. ZipBus.cyc = zip_cyc /\ ZipBus.stb = zip_stb /\ ZipBus.req = zip_req
    BY DEF ZipBus
  <1>4. Moves(zip_pend', zip_pend, BitOf(ZipSees.ack /\ zip_pend # <<>>),
              BitOf(ZipBus.stb /\ ~ZipSees.stall), ZipBus.req)
    BY <1>2, <1>3, OutstandingMoves DEF TrackRequests
  <1>5. ZipSees.ack = up_ack /\ (ZipSees.stall <=> r_stb) /\ SharedBus.req = zip_req
        /\ SharedBus.stb = zip_stb
    BY <1>2, Wires DEF FlightInv, BusInv
  <1>6. BitOf(ZipBus.stb /\ ~ZipSees.stall) = BitOf(SharedBus.stb /\ ~r_stb)
    BY <1>3, <1>5 DEF BitOf
  <1> QED
    BY <1>1, <1>3, <1>4, <1>5, <1>6 DEF WaitingMove

LEMMA HostWaits ==
    ASSUME FlightInv, TypeOK', NEW reset, NEW cmd, NEW halted \in BOOLEAN,
           Clocked(reset, cmd, halted), ~r_a_owner, ~r_a_owner', hb_cyc, hb_cyc'
    PROVE  WaitingMove
  <1> DEFINE HbSide == [cyc |-> hb_cyc, stb |-> hb_stb, req |-> HbRequest]
             taken == BitOf(hb_stb /\ ~HbSees(halted).stall)
  <1>1. /\ HbRequest \in Requests /\ hb_pend \in Seq(Requests) /\ hb_pend' \in Seq(Requests)
        /\ up_ack \in BOOLEAN /\ hb_stb \in BOOLEAN /\ hb_ack' \in BOOLEAN
    BY HbRequestType DEF FlightInv, BusInv, TypeOK, ExecTypeOK, DelayTypeOK, HbTypeOK
  <1>2. HbSide.cyc = hb_cyc /\ HbSide.stb = hb_stb /\ HbSide.req = HbRequest
    OBVIOUS
  <1>3. hb_pend' = Outstanding(hb_pend, HbSide, HbSees(halted), hb_cyc')
    BY DEF Clocked, TrackRequests
  <1>4. Moves(hb_pend', hb_pend, BitOf(HbSees(halted).ack /\ hb_pend # <<>>), taken, HbRequest)
    <2> HIDE DEF HbSide
    <2> QED
      BY <1>1, <1>2, <1>3, OutstandingMoves
  <1>5. /\ HbSees(halted).ack = hb_ack /\ HbDwbSees.ack = up_ack
        /\ HbSees(halted).stall = IF DebugSelected THEN DebugStall(halted) ELSE r_stb
        /\ SharedBus.stb = (hb_stb /\ ~DebugSelected) /\ SharedBus.req = HbRequest /\ SharedBus.cyc
    BY <1>1, Wires DEF FlightInv, BusInv, TypeOK, DelayTypeOK
  <1>6. hb_ack' = (up_ack \/ dbg_ack)
    BY <1>5 DEF Clocked, HbMerge
  <1>7. /\ Waiting = IF hb_pend # <<>> /\ Ic!Sel(hb_pend[1]) # "zipdbg" /\ ~hb_ack THEN hb_pend ELSE <<>>
        /\ Waiting' = IF hb_pend' # <<>> /\ Ic!Sel(hb_pend'[1]) # "zipdbg" /\ ~hb_ack'
                      THEN hb_pend' ELSE <<>>
    BY DEF Waiting, HbWbPending, BitOf, Ic!Sel
  <1>8. dbg_ack => hb_pend # <<>> /\ Ic!Sel(hb_pend[1]) = "zipdbg"
    BY DEF FlightInv, HostAsks
  <1>9. up_ack => Waiting # <<>>
    BY <1>5, AnswerWaits
  <1>10. \A req : Moves(<<>>, <<>>, 0, 0, req)
    BY DEF Moves
  <1>11. CASE hb_stb
    <2>1. hb_pend = <<>> /\ Waiting = <<>> /\ ~up_ack /\ ~dbg_ack /\ ~hb_ack'
      BY <1>6, <1>7, <1>8, <1>9, <1>11 DEF FlightInv, BusInv, OneHostRequest
    <2>2. BitOf(HbSees(halted).ack /\ hb_pend # <<>>) = 0 /\ BitOf(up_ack /\ Waiting # <<>>) = 0
      BY <2>1 DEF BitOf
    <2>3. taken \in {0, 1}
      BY DEF BitOf
    <2> HIDE DEF taken
    <2>4. Moves(hb_pend', <<>>, 0, taken, HbRequest)
      BY <1>4, <2>1, <2>2
    <2>5. (taken = 0 => hb_pend' = <<>>) /\ (taken = 1 => hb_pend' # <<>> /\ hb_pend'[1] = HbRequest)
      BY <1>1, <2>3, <2>4, OneAdded
    <2>6. CASE DebugSelected
      <3>1. hb_pend' # <<>> => Ic!Sel(hb_pend'[1]) = "zipdbg"
        BY <2>3, <2>5, <2>6 DEF DebugSelected
      <3>2. Waiting' = <<>>
        BY <1>7, <3>1
      <3>3. BitOf(SharedBus.stb /\ ~r_stb) = 0
        BY <1>5, <2>6 DEF BitOf
      <3> QED
        BY <1>10, <2>1, <2>2, <3>2, <3>3 DEF WaitingMove
    <2>7. CASE ~DebugSelected
      <3>1. hb_pend' # <<>> => Ic!Sel(hb_pend'[1]) # "zipdbg"
        BY <2>3, <2>5, <2>7 DEF DebugSelected
      <3>2. Waiting' = hb_pend'
        BY <1>7, <2>1, <3>1
      <3>3. BitOf(SharedBus.stb /\ ~r_stb) = taken
        BY <1>5, <2>7 DEF BitOf, taken
      <3> QED
        BY <1>5, <2>1, <2>2, <2>4, <3>2, <3>3 DEF WaitingMove
    <2> QED
      BY <2>6, <2>7
  <1>12. CASE ~hb_stb
    <2>1. ~hb_ack
      BY <1>5, <1>12 DEF Clocked, Ex!ExecBus, Ex!ExecCycle
    <2>2. hb_pend' = hb_pend
      <3>1. ~HbSees(halted).ack /\ ~(HbSide.stb /\ ~HbSees(halted).stall) /\ HbSide.cyc
        BY <1>5, <1>12, <2>1
      <3>2. hb_pend \o <<>> = hb_pend
        BY <1>1
      <3> HIDE DEF HbSide
      <3> QED
        BY <1>3, <3>1, <3>2 DEF Outstanding
    <2>3. BitOf(SharedBus.stb /\ ~r_stb) = 0
      BY <1>5, <1>12 DEF BitOf
    <2>4. CASE Waiting = <<>>
      <3>1. Waiting' = <<>> /\ BitOf(up_ack /\ Waiting # <<>>) = 0
        BY <1>7, <2>1, <2>2, <2>4 DEF BitOf
      <3> QED
        BY <1>10, <2>3, <2>4, <3>1 DEF WaitingMove
    <2>5. CASE Waiting # <<>>
      <3>1. Waiting = hb_pend /\ hb_ack' = up_ack /\ Waiting' = IF up_ack THEN <<>> ELSE hb_pend
        BY <1>1, <1>6, <1>7, <1>8, <2>1, <2>2, <2>5
      <3>2. Len(hb_pend) = 1
        <4>1. Len(hb_pend) \in Nat /\ Len(hb_pend) <= 1
          BY <1>1 DEF FlightInv, BusInv, OneHostRequest
        <4>2. hb_pend # <<>>
          BY <2>5, <3>1
        <4>3. Len(hb_pend) # 0
          BY <1>1, <4>2
        <4> DEFINE l == Len(hb_pend)
        <4>4. l \in Nat /\ l <= 1 /\ l # 0
          BY <4>1, <4>3
        <4> HIDE DEF l
        <4>5. l = 1
          BY <4>4
        <4> QED
          BY <4>5 DEF l
      <3>3. BitOf(up_ack /\ Waiting # <<>>) = IF up_ack THEN 1 ELSE 0
        BY <2>5 DEF BitOf
      <3>4. CASE up_ack
        BY <2>3, <3>1, <3>2, <3>3, <3>4 DEF WaitingMove, Moves
      <3>5. CASE ~up_ack
        BY <2>3, <3>1, <3>2, <3>3, <3>5 DEF WaitingMove, Moves
      <3> QED
        BY <3>4, <3>5
    <2> QED
      BY <2>4, <2>5
  <1> QED
    BY <1>11, <1>12

LEMMA WaitingAlike ==
    ASSUME FlightInv
    PROVE  Waiting \in Seq(Requests) /\ Alike(Waiting)
  <1>1. zip_pend \in Seq(Requests) /\ hb_pend \in Seq(Requests) /\ <<>> \in Seq(Requests)
    BY DEF FlightInv, BusInv, TypeOK
  <1>2. Alike(zip_pend)
    BY DEF FlightInv, CpuAsks
  <1>3. ASSUME NEW p \in Seq(Requests), Len(p) <= 1 PROVE Alike(p)
    <2>1. \A i \in 1 .. Len(p) : i = 1
      BY <1>3
    <2> QED
      BY <2>1 DEF Alike
  <1>4. Len(hb_pend) <= 1 /\ Len(<<>>) <= 1
    BY DEF FlightInv, BusInv, OneHostRequest
  <1> QED
    BY <1>1, <1>2, <1>3, <1>4 DEF Waiting

\* Where everything is, in numbers.
LEMMA Places ==
    ASSUME FlightInv, Live
    PROVE  /\ AtMerge \in Nat /\ AtLate \in Nat /\ AtEarly \in Nat /\ AtDelay \in Nat /\ AtHeld \in Nat
           /\ AtMerge = IF up_ack THEN 2 ELSE 1
           /\ AtLate = IF wb_ack THEN AtMerge + 1 ELSE AtMerge
           /\ AtEarly = IF LateOn THEN AtLate + 1 ELSE AtLate
           /\ AtDelay = IF EarlyOn THEN AtEarly + 1 ELSE AtEarly
           /\ AtHeld = IF dly_stb THEN AtDelay + 1 ELSE AtDelay
           /\ Len(Waiting) = IF r_stb THEN AtHeld ELSE AtHeld - 1
           /\ Len(Waiting) \in Nat
  <1>1. FlightOrder
    BY DEF FlightInv, InFlightInv
  <1>2. AtMerge \in Nat /\ AtMerge = IF up_ack THEN 2 ELSE 1
    BY DEF AtMerge, BitOf
  <1>3. AtLate \in Nat /\ AtLate = IF wb_ack THEN AtMerge + 1 ELSE AtMerge
    BY <1>2 DEF AtLate, BitOf
  <1>4. AtEarly \in Nat /\ AtEarly = IF LateOn THEN AtLate + 1 ELSE AtLate
    BY <1>3 DEF AtEarly, BitOf
  <1>5. AtDelay \in Nat /\ AtDelay = IF EarlyOn THEN AtEarly + 1 ELSE AtEarly
    BY <1>4 DEF AtDelay, BitOf
  <1>6. AtHeld \in Nat /\ AtHeld = IF dly_stb THEN AtDelay + 1 ELSE AtDelay
    BY <1>5 DEF AtHeld, BitOf
  <1>7. Len(Waiting) = IF r_stb THEN AtHeld ELSE AtHeld - 1
    BY <1>1, <1>6 DEF FlightOrder, BitOf
  <1>8. Len(Waiting) \in Nat
    BY WaitingAlike
  <1> QED
    BY <1>2, <1>3, <1>4, <1>5, <1>6, <1>7, <1>8

\* The flash's mode stays as long as anything is on its way.
LEMMA ModeKept ==
    ASSUME FlightInv, Live, Ic!Interconnect(WbSide), up_ack \/ wb_ack \/ LateOn \/ EarlyOn
    PROVE  cfg_user_mode' = cfg_user_mode
  <1>1. SUFFICES ASSUME ToConfig PROVE FALSE
    <2>1. CASE ~ToConfig
      BY <2>1, FlashClock DEF Live
    <2> QED
      BY <1>1, <2>1
  <1>2. dly_stb /\ Waiting[AtDelay] = dly_req /\ Ic!Sel(dly_req) = "flashcfg"
    BY <1>1 DEF ToConfig, FlightInv, InFlightInv, FlightOrder
  <1>3. AtDelay \in 1 .. Len(Waiting) /\ AtDelay # 1
    <2>1. AtDelay \in Nat /\ AtDelay >= 2 /\ AtHeld = AtDelay + 1
      BY <1>2, Places
    <2> QED
      BY <2>1, Places
  <1> QED
    BY <1>2, <1>3, WaitingAlike DEF Alike

LEMMA WordOf ==
    ASSUME NEW r \in Requests
    PROVE  Decode[r.addr] = <<Ic!Sel(r), Ic!Reg(r)>>
  <1>1. r.addr \in DOMAIN Decode
    BY DEF Requests
  <1>2. Decode[r.addr] \in Selects \X Nat
    BY <1>1, BusAssumption
  <1> QED
    BY <1>2 DEF Ic!Sel, Ic!Reg

\* What a peripheral acknowledges is what the merge takes, and nothing else.
LEMMA LateAnswers ==
    ASSUME TypeOK, NEW r \in Requests, LateOn, LateIs(r)
    PROVE  /\ MayReturn(r, Ic!Selected) /\ Ic!Acking # {}
           /\ \A s, t \in Ic!Acking : s = t
  <1>1. Decode[r.addr] = <<Ic!Sel(r), Ic!Reg(r)>>
    BY WordOf
  <1>2. Ic!Acking = {s \in Ic!Mapped : \/ s = "sio" /\ sio_ack
                                       \/ s = "dio" /\ dio_ack1
                                       \/ s = "bkram" /\ ram_ack
                                       \/ s = "flash" /\ flash_ack}
    BY DEF Ic!Acking
  <1>3. CASE sio_ack
    <2>1. ~dio_ack1 /\ ~ram_ack /\ ~flash_ack /\ r_wb_bus_select = "sio"
      BY <1>3 DEF LateIs
    <2>2. Ic!Selected = Decode[r.addr]
      BY <1>1, <1>3, <2>1 DEF LateIs, Ic!Selected
    <2> QED
      BY <1>2, <1>3, <2>1, <2>2 DEF MayReturn, Ic!Mapped
  <1>4. CASE dio_ack1
    <2>1. ~sio_ack /\ ~ram_ack /\ ~flash_ack /\ r_wb_bus_select = "dio"
      BY <1>4 DEF LateIs
    <2>2. Ic!Selected = Decode[r.addr]
      BY <1>1, <1>4, <2>1 DEF LateIs, Ic!Selected
    <2> QED
      BY <1>2, <1>4, <2>1, <2>2 DEF MayReturn, Ic!Mapped
  <1>5. CASE ram_ack
    <2>1. ~sio_ack /\ ~dio_ack1 /\ ~flash_ack /\ r_wb_bus_select = "bkram"
      BY <1>5 DEF LateIs
    <2>2. Ic!Selected = Decode[r.addr]
      BY <1>1, <1>5, <2>1 DEF LateIs, Ic!Selected
    <2> QED
      BY <1>2, <1>5, <2>1, <2>2 DEF MayReturn, Ic!Mapped
  <1>6. CASE flash_ack
    <2>1. ~sio_ack /\ ~dio_ack1 /\ ~ram_ack /\ r_wb_bus_select \in {"flash", "flashcfg"}
      BY <1>6 DEF LateIs
    <2>2. Ic!Selected = <<"flash", flash_data>>
      BY <2>1 DEF Ic!Selected
    <2>3. MayReturn(r, Ic!Selected)
      BY <1>1, <1>6, <2>2 DEF LateIs, MayReturn
    <2> QED
      BY <1>2, <1>6, <2>1, <2>3 DEF Ic!Mapped
  <1> QED
    BY <1>3, <1>4, <1>5, <1>6 DEF LateOn

\* The delay stage: what it has is taken, or waits; what is asked for follows.
LEMMA DelayMoves ==
    ASSUME TypeOK, TypeOK', CyclesMatch, Live, Dly!Delay(SharedBus, Ic!IcReturn(WbSide)), dly_cyc'
    PROVE  /\ ~Ic!BusError(WbSide) /\ ~up_err' /\ up_ack' = wb_ack
           /\ wb_ack => up_data' = wb_idata
           /\ dly_stb /\ ~Taken =>
                /\ dly_stb' /\ dly_req' = dly_req /\ r_stb' = (r_stb \/ SharedBus.stb)
                /\ r_stb' => r_req' = IF r_stb THEN r_req ELSE SharedBus.req
           /\ ~dly_stb \/ Taken =>
                /\ ~r_stb' /\ dly_stb' = (r_stb \/ SharedBus.stb)
                /\ dly_stb' => dly_req' = IF r_stb THEN r_req ELSE SharedBus.req
  <1> DEFINE ret == Ic!IcReturn(WbSide)
  <1>1. /\ ret.ack = wb_ack /\ ret.err = Ic!BusError(WbSide) /\ ret.stall = Ic!Stall(WbSide)
        /\ ret.data = wb_idata
    BY DEF Ic!IcReturn
  <1>2. SharedBus.cyc /\ dly_cyc /\ ~up_err
    BY DEF Live, CyclesMatch
  <1>3. IsBus(SharedBus) /\ IsReturn(ret)
    BY BusTypes, ReturnTypes
  <1> HIDE DEF ret
  <1>4. Dly!Delay(SharedBus, ret)
    BY DEF ret
  <1>5. ~Ic!BusError(WbSide)
    BY <1>1, <1>2, <1>4 DEF Dly!Delay, Dly!DelayCycle
  <1>6. ~up_err' /\ up_ack' = wb_ack /\ (wb_ack => up_data' = wb_idata)
    BY <1>1, <1>2, <1>3, <1>4, <1>5 DEF Dly!Delay, Dly!DelayResponses, TypeOK, MergeTypeOK
  <1>7. ~Dly!EndsRequests(SharedBus, ret)
    BY <1>1, <1>2, <1>5 DEF Dly!EndsRequests
  <1>8. Dly!Advance(ret) = (~dly_stb \/ Taken)
    BY <1>1 DEF Dly!Advance, Taken
  <1>9. ASSUME dly_stb, ~Taken
        PROVE  /\ dly_stb' /\ dly_req' = dly_req /\ r_stb' = (r_stb \/ SharedBus.stb)
               /\ r_stb' => r_req' = IF r_stb THEN r_req ELSE SharedBus.req
    BY <1>3, <1>4, <1>7, <1>8, <1>9 DEF Dly!Delay, Dly!DelayRequests, IsBus
  <1>10. ASSUME ~dly_stb \/ Taken
         PROVE  /\ ~r_stb' /\ dly_stb' = (r_stb \/ SharedBus.stb)
                /\ dly_stb' => dly_req' = IF r_stb THEN r_req ELSE SharedBus.req
    BY <1>3, <1>4, <1>7, <1>8, <1>10 DEF Dly!Delay, Dly!DelayRequests, IsBus
  <1> QED
    BY <1>5, <1>6, <1>9, <1>10

\* A clock in the middle of a cycle.
CycleGoesOn ==
    /\ TypeOK' /\ Live /\ dly_cyc' /\ WaitingMove
    /\ Dly!Delay(SharedBus, Ic!IcReturn(WbSide)) /\ Ic!Interconnect(WbSide)

LEMMA MovedTo ==
    ASSUME FlightInv, TypeOK', Live, WaitingMove
    PROVE  \E p \in Seq(Requests), q \in Seq(Requests), g \in {0, 1}, n \in {0, 1} :
             /\ p = Waiting /\ q = Waiting' /\ g = BitOf(up_ack) /\ n = BitOf(SharedBus.stb /\ ~r_stb)
             /\ Len(p) \in Nat /\ Len(q) = Len(p) - g + n
             /\ \A i \in 1 .. Len(p) - g : q[i] = p[i + g]
             /\ n = 1 => q[Len(p) - g + 1] = SharedBus.req
  <1>1. Waiting \in Seq(Requests)
    BY WaitingAlike
  <1>2. Waiting' \in Seq(Requests)
    BY DEF TypeOK, Waiting
  <1>3. BitOf(up_ack /\ Waiting # <<>>) = BitOf(up_ack)
    BY AnswerWaits DEF BitOf, Live
  <1>4. BitOf(up_ack) \in {0, 1} /\ BitOf(SharedBus.stb /\ ~r_stb) \in {0, 1}
    BY DEF BitOf
  <1>5. Moves(Waiting', Waiting, BitOf(up_ack), BitOf(SharedBus.stb /\ ~r_stb), SharedBus.req)
    BY <1>3 DEF WaitingMove
  <1>6. /\ Len(Waiting') = Len(Waiting) - BitOf(up_ack) + BitOf(SharedBus.stb /\ ~r_stb)
        /\ \A i \in 1 .. Len(Waiting) - BitOf(up_ack) : Waiting'[i] = Waiting[i + BitOf(up_ack)]
        /\ BitOf(SharedBus.stb /\ ~r_stb) = 1
             => Waiting'[Len(Waiting) - BitOf(up_ack) + 1] = SharedBus.req
    BY <1>5, Zenon DEF Moves
  <1>7. Len(Waiting) \in Nat
    BY <1>1
  <1> QED
    BY <1>1, <1>2, <1>4, <1>6, <1>7, Zenon

\* Where everything is next.
LEMMA PlacesNext ==
    ASSUME FlightInv, CycleGoesOn,
           BitOf(LateOn)' + BitOf(EarlyOn)' = BitOf(EarlyOn) + BitOf(Taken), wb_ack' = LateOn
    PROVE  /\ AtMerge' = AtLate - BitOf(up_ack) /\ AtLate' = AtEarly - BitOf(up_ack)
           /\ AtEarly' = IF LateOn' THEN AtEarly - BitOf(up_ack) + 1 ELSE AtEarly - BitOf(up_ack)
           /\ AtDelay' = AtDelay - BitOf(up_ack) + BitOf(Taken)
           /\ AtHeld' = IF dly_stb' THEN AtDelay' + 1 ELSE AtDelay'
  <1> USE Places DEF CycleGoesOn
  <1>1. up_ack' = wb_ack
    BY DelayMoves DEF FlightInv, BusInv
  <1>2. BitOf(up_ack) \in {0, 1} /\ (BitOf(up_ack) = 1 <=> up_ack)
    BY DEF BitOf
  <1>3. AtMerge' = IF wb_ack THEN 2 ELSE 1
    BY <1>1 DEF AtMerge, BitOf
  <1>4. AtMerge = 1 + BitOf(up_ack)
    BY DEF AtMerge
  <1>5. AtMerge' = AtLate - BitOf(up_ack)
    BY <1>2, <1>3, <1>4
  <1>6. AtLate' = AtMerge' + (IF LateOn THEN 1 ELSE 0)
    BY DEF AtLate, BitOf
  <1>7. AtLate' = AtEarly - BitOf(up_ack)
    BY <1>2, <1>5, <1>6
  <1>8. AtEarly' = IF LateOn' THEN AtLate' + 1 ELSE AtLate'
    <2>1. AtLate' \in Int
      BY <1>2, <1>7
    <2>2. AtEarly' = AtLate' + (IF LateOn' THEN 1 ELSE 0)
      BY DEF AtEarly, BitOf
    <2>3. PICK a \in Int : a = AtLate'
      BY <2>1
    <2>4. AtEarly' = a + (IF LateOn' THEN 1 ELSE 0)
      BY <2>2, <2>3
    <2>5. AtEarly' = IF LateOn' THEN a + 1 ELSE a
      BY <2>4
    <2> QED
      BY <2>3, <2>5
  <1>9. AtDelay' = AtDelay - BitOf(up_ack) + BitOf(Taken)
    <2>1. AtDelay' = AtLate' + BitOf(LateOn)' + BitOf(EarlyOn)'
      BY DEF AtDelay, AtEarly
    <2>2. /\ BitOf(LateOn)' \in {0, 1} /\ BitOf(EarlyOn)' \in {0, 1}
          /\ BitOf(EarlyOn) \in {0, 1} /\ BitOf(Taken) \in {0, 1}
      BY DEF BitOf
    <2>3. AtDelay = AtEarly + BitOf(EarlyOn)
      BY DEF AtDelay
    <2>4. PICK l \in {0, 1}, e \in {0, 1}, a \in Int, b \in Int, d \in Int :
             /\ l = BitOf(LateOn)' /\ e = BitOf(EarlyOn)' /\ a = AtLate' /\ d = AtDelay'
             /\ b = BitOf(up_ack)
      <3>1. AtLate' \in Int /\ BitOf(up_ack) \in Int
        BY <1>2, <1>7
      <3>2. PICK l \in {0, 1}, e \in {0, 1}, a \in Int :
               l = BitOf(LateOn)' /\ e = BitOf(EarlyOn)' /\ a = AtLate'
        BY <2>2, <3>1
      <3>3. AtDelay' = a + l + e /\ a + l + e \in Int
        BY <2>1, <3>2
      <3> QED
        BY <3>1, <3>2, <3>3
    <2>5. d = a + l + e /\ a = AtEarly - b /\ l + e = BitOf(EarlyOn) + BitOf(Taken)
      BY <1>7, <2>1, <2>4
    <2>6. d = AtDelay - b + BitOf(Taken)
      <3>1. PICK e0 \in {0, 1}, t0 \in {0, 1}, x \in Nat, y \in Nat :
               e0 = BitOf(EarlyOn) /\ t0 = BitOf(Taken) /\ x = AtEarly /\ y = AtDelay
        BY <2>2
      <3>2. d = a + l + e /\ a = x - b /\ l + e = e0 + t0 /\ y = x + e0
        BY <2>3, <2>5, <3>1
      <3>3. d = y - b + t0
        BY <3>2
      <3> QED
        BY <3>1, <3>3
    <2> QED
      BY <2>4, <2>6
  <1>10. AtHeld' = IF dly_stb' THEN AtDelay' + 1 ELSE AtDelay'
    <2>1. BitOf(Taken) \in Int /\ BitOf(up_ack) \in Int /\ AtDelay \in Int
      BY DEF BitOf
    <2>2. AtDelay' \in Int
      BY <1>9, <2>1
    <2>3. AtHeld' = AtDelay' + (IF dly_stb' THEN 1 ELSE 0)
      BY DEF AtHeld, BitOf
    <2>4. PICK a \in Int : a = AtDelay'
      BY <2>2
    <2>5. AtHeld' = a + (IF dly_stb' THEN 1 ELSE 0)
      BY <2>3, <2>4
    <2>6. AtHeld' = IF dly_stb' THEN a + 1 ELSE a
      BY <2>5
    <2> QED
      BY <2>4, <2>6
  <1> QED
    BY <1>5, <1>7, <1>8, <1>9, <1>10

LEMMA Passes ==
    ASSUME FlightInv, CycleGoesOn
    PROVE  /\ BitOf(LateOn)' + BitOf(EarlyOn)' = BitOf(EarlyOn) + BitOf(Taken)
           /\ \E r \in Requests, d \in Requests :
                /\ EarlyOn \/ dly_stb => r = Waiting[AtEarly]
                /\ dly_stb => d = Waiting[AtDelay]
                /\ LateOn' => (EarlyOn \/ dly_stb) /\ LateIs(r)'
                /\ EarlyOn' => (EarlyOn \/ dly_stb) /\ IF LateOn' THEN EarlyIs(d)' ELSE EarlyIs(r)'
  <1> USE DEF CycleGoesOn
  <1>1. FlightOrder /\ FlashHolds /\ TypeOK /\ dly_cyc
    BY DEF FlightInv, InFlightInv, BusInv, Live
  <1>2. CASE ~EarlyOn /\ ~dly_stb
    <2>1. ~LateOn' /\ ~EarlyOn'
      BY <1>1, <1>2, NothingMoves
    <2>2. ~Taken
      BY <1>2 DEF Taken
    <2>3. NoRequest \in Requests
      BY AddressFacts
    <2> QED
      BY <1>2, <2>1, <2>2, <2>3 DEF BitOf
  <1>3. CASE EarlyOn \/ dly_stb
    <2>1. AtEarly \in 1 .. Len(Waiting)
      BY <1>3, Places
    <2>2. PICK r \in Requests : r = Waiting[AtEarly]
      BY <2>1, WaitingAlike
    <2>3. dly_req \in Requests
      BY <1>1, SlaveTypes
    <2>4. PICK d \in Requests : d = IF dly_stb THEN dly_req ELSE r
      BY <2>3
    <2>5. dly_stb => d = Waiting[AtDelay] /\ AtDelay \in 1 .. Len(Waiting)
      <3>1. dly_stb => d = Waiting[AtDelay]
        BY <1>1, <2>4 DEF FlightOrder
      <3>2. dly_stb => AtDelay \in 1 .. Len(Waiting)
        BY Places
      <3> QED
        BY <3>1, <3>2
    <2>6. ~EarlyOn => r = d
      BY <1>3, <2>2, <2>5, Places
    <2>7. EarlyOn => EarlyIs(r)
      BY <1>1, <2>2 DEF FlightOrder
    <2>8. dly_stb => Ic!Sel(d) \in Ic!Mapped
      <3>1. ~Ic!BusError(WbSide)
        BY DelayMoves DEF FlightInv, BusInv
      <3> QED
        BY <2>4, <3>1 DEF Ic!BusError, Ic!NoneSelected, WbSide
    <2>9. EarlyOn => Ic!Sel(r) \in Ic!Mapped
      BY <2>7, <1>1, SlaveTypes DEF EarlyOn, EarlyIs, Ic!Mapped
    <2>10. EarlyOn /\ dly_stb => Ic!Sel(d) = Ic!Sel(r) /\ Ic!Sel(d) # "flashcfg"
      <3>1. EarlyOn => AtDelay # 1
        BY Places
      <3> QED
        BY <2>1, <2>2, <2>5, <2>8, <2>9, <3>1, WaitingAlike DEF Alike
    <2>11. Arrives(r, d)
      BY <2>4, <2>6, <2>7, <2>8, <2>10 DEF Arrives
    <2>12. Ic!Sel(r) \in {"sio", "dio", "bkram", "flash", "flashcfg"}
      BY <1>3, <2>6, <2>8, <2>9 DEF Ic!Mapped
    <2>13. Passed(r, d)
      <3>1. CASE Ic!Sel(r) \in {"sio", "dio", "bkram"}
        BY <1>1, <1>3, <2>11, <3>1, FixedMoves
      <3>2. CASE Ic!Sel(r) \in {"flash", "flashcfg"}
        BY <1>1, <1>3, <2>11, <3>2, FlashMoves
      <3> QED
        BY <2>12, <3>1, <3>2
    <2> QED
      BY <1>3, <2>2, <2>5, <2>13 DEF Passed
  <1> QED
    BY <1>2, <1>3

LEMMA OrderKept ==
    ASSUME FlightInv, CycleGoesOn
    PROVE  FlightOrder' /\ ~wb_many_ack'
  <1> USE DEF CycleGoesOn
  <1>1. FlightOrder /\ TypeOK /\ dly_cyc
    BY DEF FlightInv, InFlightInv, BusInv, Live
  <1>2. PICK p \in Seq(Requests), q \in Seq(Requests), g \in {0, 1}, n \in {0, 1} :
             /\ p = Waiting /\ q = Waiting' /\ g = BitOf(up_ack) /\ n = BitOf(SharedBus.stb /\ ~r_stb)
             /\ Len(p) \in Nat /\ Len(q) = Len(p) - g + n
             /\ \A i \in 1 .. Len(p) - g : q[i] = p[i + g]
             /\ n = 1 => q[Len(p) - g + 1] = SharedBus.req
    BY MovedTo
  <1>3. PICK am \in Nat, al \in Nat, ae \in Nat, ad \in Nat, ah \in Nat :
             am = AtMerge /\ al = AtLate /\ ae = AtEarly /\ ad = AtDelay /\ ah = AtHeld
    BY Places
  <1>4. /\ am = 1 + g /\ al = (IF wb_ack THEN am + 1 ELSE am)
        /\ ae = (IF LateOn THEN al + 1 ELSE al) /\ ad = (IF EarlyOn THEN ae + 1 ELSE ae)
        /\ ah = (IF dly_stb THEN ad + 1 ELSE ad) /\ Len(p) = (IF r_stb THEN ah ELSE ah - 1)
    BY <1>2, <1>3, Places DEF BitOf
  <1>18. g \in Nat /\ g <= 1 /\ n \in Nat /\ n <= 1
    BY <1>2
  <1>19. PICK len \in Nat : len = Len(p) /\ len = IF r_stb THEN ah ELSE ah - 1
    BY <1>2, <1>4
  <1>20. /\ am \in g + 1 .. am /\ am <= al /\ al <= ae /\ ae <= ad /\ ad <= ah /\ ah - 1 <= len
         /\ wb_ack => am + 1 <= al
         /\ LateOn => al + 1 <= ae
         /\ EarlyOn => ae + 1 <= ad
         /\ dly_stb => ad + 1 <= ah
         /\ r_stb => ah = len
    BY <1>3, <1>4, <1>18, <1>19
  <1>5. \A k \in g + 1 .. Len(p) : q[k - g] = p[k]
    <2> SUFFICES ASSUME NEW k \in g + 1 .. Len(p) PROVE q[k - g] = p[k]
      OBVIOUS
    <2>1. k \in Int /\ k >= g + 1 /\ k <= len
      BY <1>18, <1>19
    <2>2. k - g \in 1 .. Len(p) - g /\ (k - g) + g = k
      BY <1>18, <1>19, <2>1
    <2> QED
      BY <1>2, <2>2
  <1>6. PICK r \in Requests, d \in Requests :
                /\ EarlyOn \/ dly_stb => r = Waiting[AtEarly]
                /\ dly_stb => d = Waiting[AtDelay]
                /\ LateOn' => (EarlyOn \/ dly_stb) /\ LateIs(r)'
                /\ EarlyOn' => (EarlyOn \/ dly_stb) /\ IF LateOn' THEN EarlyIs(d)' ELSE EarlyIs(r)'
    BY Passes
  <1>7. LateOn => LateIs(p[al]) /\ p[al] \in Requests /\ al \in g + 1 .. Len(p)
    <2>1. LateOn => al \in g + 1 .. Len(p) /\ al \in 1 .. Len(p)
      BY <1>3, <1>18, <1>19, <1>20
    <2> QED
      BY <1>1, <1>2, <1>3, <2>1 DEF FlightOrder
  <1>8. /\ wb_ack' = LateOn /\ ~wb_many_ack'
        /\ LateOn => wb_idata' = Ic!Selected /\ MayReturn(p[al], Ic!Selected)
    <2>1. /\ wb_ack' = (TRUE /\ Ic!Acking # {}) /\ wb_many_ack' = (TRUE /\ \E s, t \in Ic!Acking : s # t)
          /\ wb_ack' => wb_idata' = Ic!Selected
      BY <1>1 DEF Ic!Interconnect, Ic!Merge, WbSide, Ic!Tracked
    <2>2. CASE LateOn
      BY <1>1, <1>7, <2>1, <2>2, LateAnswers
    <2>3. CASE ~LateOn
      <3>1. Ic!Acking = {}
        BY <2>3 DEF LateOn, Ic!Acking
      <3> QED
        BY <2>1, <2>3, <3>1 DEF LateOn
    <2> QED
      BY <2>2, <2>3
  <1>9. PICK am2 \in Int, al2 \in Int, ae2 \in Int, ad2 \in Int, ah2 \in Int, t \in {0, 1} :
             /\ am2 = AtMerge' /\ al2 = AtLate' /\ ae2 = AtEarly' /\ ad2 = AtDelay' /\ ah2 = AtHeld'
             /\ am2 = al - g /\ al2 = ae - g /\ ae2 = (IF LateOn' THEN ae - g + 1 ELSE ae - g)
             /\ ad2 = ad - g + t /\ ah2 = (IF dly_stb' THEN ad2 + 1 ELSE ad2) /\ t = BitOf(Taken)
    <2>1. BitOf(Taken) \in {0, 1}
      BY DEF BitOf
    <2>2. /\ AtMerge' = al - g /\ AtLate' = ae - g
          /\ AtEarly' = (IF LateOn' THEN ae - g + 1 ELSE ae - g)
          /\ AtDelay' = ad - g + BitOf(Taken)
          /\ AtHeld' = IF dly_stb' THEN AtDelay' + 1 ELSE AtDelay'
      BY <1>2, <1>3, <1>8, Passes, PlacesNext
    <2>3. al - g \in Int /\ ae - g \in Int /\ ae - g + 1 \in Int /\ ad - g + BitOf(Taken) \in Int
          /\ ad - g + BitOf(Taken) + 1 \in Int
      BY <2>1
    <2> QED
      BY <2>1, <2>2, <2>3, Zenon
  <1>10. wb_ack \/ LateOn => cfg_user_mode' = cfg_user_mode
    BY ModeKept
  <1>11. up_ack' = wb_ack /\ (up_ack' => MayReturn(Waiting[1], up_data)')
    <2>1. up_ack' = wb_ack /\ (wb_ack => up_data' = wb_idata)
      BY <1>1, DelayMoves DEF FlightInv
    <2>2. ASSUME wb_ack PROVE MayReturn(Waiting[1], up_data)'
      <3>1. MayReturn(p[am], wb_idata)
        BY <1>1, <1>2, <1>3, <2>2 DEF FlightOrder
      <3>2. am \in g + 1 .. Len(p) /\ am - g = 1
        BY <1>3, <1>4, <1>18, <1>19, <1>20, <2>2
      <3>3. q[1] = p[am]
        BY <1>5, <3>2
      <3>4. Waiting'[1] = p[am]
        BY <1>2, <3>3
      <3> QED
        BY <1>10, <2>1, <2>2, <3>1, <3>4 DEF MayReturn, Ic!Sel
    <2> QED
      BY <2>1, <2>2
  <1>12. wb_ack' => MayReturn(Waiting[AtMerge], wb_idata)'
    <2> SUFFICES ASSUME LateOn PROVE MayReturn(Waiting[AtMerge], wb_idata)'
      BY <1>8
    <2>1. q[al - g] = p[al]
      BY <1>5, <1>7
    <2>2. Waiting'[AtMerge'] = p[al]
      BY <1>2, <1>9, <2>1
    <2> QED
      BY <1>8, <1>10, <2>2 DEF MayReturn, Ic!Sel
  <1>13. EarlyOn \/ dly_stb => q[ae - g] = r
    <2>1. EarlyOn \/ dly_stb => ae \in g + 1 .. Len(p)
      BY <1>3, <1>18, <1>19, <1>20
    <2> QED
      BY <1>2, <1>3, <1>5, <1>6, <2>1
  <1>14. dly_stb => q[ad - g] = d /\ ad \in g + 1 .. Len(p)
    <2>1. dly_stb => ad \in g + 1 .. Len(p)
      BY <1>3, <1>18, <1>19, <1>20
    <2> QED
      BY <1>2, <1>3, <1>5, <1>6, <2>1
  <1>15. LateOn' => LateIs(Waiting[AtLate])'
    <2> SUFFICES ASSUME LateOn' PROVE LateIs(Waiting[AtLate])'
      OBVIOUS
    <2>1. Waiting'[AtLate'] = r
      BY <1>2, <1>6, <1>9, <1>13
    <2> QED
      BY <1>6, <2>1 DEF LateIs, Ic!Sel, Ic!Reg
  <1>16. EarlyOn' => EarlyIs(Waiting[AtEarly])'
    <2> SUFFICES ASSUME EarlyOn' PROVE EarlyIs(Waiting[AtEarly])'
      OBVIOUS
    <2>1. CASE LateOn'
      <3>1. EarlyOn /\ Taken
        BY <2>1, Passes DEF BitOf
      <3>2. ae2 = ad - g /\ dly_stb
        BY <1>4, <1>9, <2>1, <3>1 DEF Taken
      <3>3. Waiting'[AtEarly'] = d
        BY <1>2, <1>9, <1>14, <3>2
      <3> QED
        BY <1>6, <2>1, <3>3 DEF EarlyIs, Ic!Sel, Ic!Reg
    <2>2. CASE ~LateOn'
      <3>1. Waiting'[AtEarly'] = r
        BY <1>2, <1>6, <1>9, <1>13, <2>2
      <3> QED
        BY <1>6, <2>2, <3>1 DEF EarlyIs, Ic!Sel, Ic!Reg
    <2> QED
      BY <2>1, <2>2
  <1>21. Len(q) = len - g + n
    BY <1>2, <1>19
  <1>17. /\ Len(Waiting)' = AtHeld' + BitOf(r_stb)' - 1
         /\ dly_stb' => Waiting'[AtDelay'] = dly_req'
         /\ r_stb' => Waiting'[AtHeld'] = r_req'
    <2>1. r_stb => dly_stb /\ ah \in g + 1 .. Len(p) /\ q[ah - g] = r_req
      <3>1. r_stb => dly_stb
        BY DEF FlightInv, CyclesMatch
      <3>2. r_stb => ah \in g + 1 .. Len(p)
        BY <1>3, <1>18, <1>19, <1>20
      <3>3. r_stb => p[ah] = r_req
        BY <1>1, <1>2, <1>3 DEF FlightOrder
      <3> QED
        BY <1>5, <3>1, <3>2, <3>3
    <2>2. n = IF r_stb THEN 0 ELSE IF SharedBus.stb THEN 1 ELSE 0
      BY <1>2 DEF BitOf
    <2>3. t = IF Taken THEN 1 ELSE 0
      BY <1>9 DEF BitOf
    <2>4. BitOf(r_stb)' = IF r_stb' THEN 1 ELSE 0
      BY DEF BitOf
    <2>5. SUFFICES /\ Len(q) = ah2 + (IF r_stb' THEN 1 ELSE 0) - 1
                   /\ dly_stb' => q[ad2] = dly_req'
                   /\ r_stb' => q[ah2] = r_req'
      BY <1>2, <1>9, <2>4
    <2>6. CASE dly_stb /\ ~Taken
      <3>1. /\ dly_stb' /\ dly_req' = dly_req /\ r_stb' = (r_stb \/ SharedBus.stb)
            /\ r_stb' => r_req' = IF r_stb THEN r_req ELSE SharedBus.req
        BY <1>1, <2>6, DelayMoves DEF FlightInv
      <3>2. ad2 = ad - g /\ ah2 = ah - g
        BY <1>4, <1>9, <2>3, <2>6, <3>1
      <3>3. q[ad2] = dly_req'
        BY <1>1, <1>3, <1>6, <1>14, <2>6, <3>1, <3>2 DEF FlightOrder
      <3>4. CASE r_stb
        <4>1. n = 0 /\ r_stb' /\ r_req' = r_req
          BY <2>2, <3>1, <3>4
        <4>2. Len(q) = ah2
          BY <1>3, <1>18, <1>19, <1>21, <3>2, <3>4, <4>1
        <4> QED
          BY <2>1, <3>2, <3>3, <3>4, <4>1, <4>2
      <3>5. CASE ~r_stb /\ SharedBus.stb
        <4>1. n = 1 /\ r_stb' /\ r_req' = SharedBus.req
          BY <2>2, <3>1, <3>5
        <4>2. Len(q) = ah2 /\ Len(p) - g + 1 = ah2
          BY <1>3, <1>18, <1>19, <1>21, <3>2, <3>5, <4>1
        <4> QED
          BY <1>2, <3>3, <4>1, <4>2
      <3>6. CASE ~r_stb /\ ~SharedBus.stb
        <4>1. n = 0 /\ ~r_stb'
          BY <2>2, <3>1, <3>6
        <4>2. Len(q) = ah2 - 1
          BY <1>3, <1>18, <1>19, <1>21, <3>2, <3>6, <4>1
        <4> QED
          BY <3>3, <4>1, <4>2
      <3> QED
        BY <3>4, <3>5, <3>6
    <2>7. CASE ~dly_stb \/ Taken
      <3>1. /\ ~r_stb' /\ dly_stb' = (r_stb \/ SharedBus.stb)
            /\ dly_stb' => dly_req' = IF r_stb THEN r_req ELSE SharedBus.req
        BY <1>1, <2>7, DelayMoves DEF FlightInv
      <3>2. ad2 = ah - g
        BY <1>4, <1>9, <2>3, <2>7 DEF Taken
      <3>3. CASE r_stb
        <4>1. n = 0 /\ dly_stb' /\ dly_req' = r_req
          BY <2>2, <3>1, <3>3
        <4>3. ah2 = ad2 + 1
          BY <1>9, <4>1
        <4>4. len = ah
          BY <1>19, <3>3
        <4>2. Len(q) = ah2 - 1
          BY <1>3, <1>18, <1>21, <3>2, <4>1, <4>3, <4>4
        <4> QED
          BY <2>1, <3>1, <3>2, <3>3, <4>1, <4>2
      <3>4. CASE ~r_stb /\ SharedBus.stb
        <4>1. n = 1 /\ dly_stb' /\ dly_req' = SharedBus.req
          BY <2>2, <3>1, <3>4
        <4>3. ah2 = ad2 + 1
          BY <1>9, <4>1
        <4>4. len = ah - 1 /\ len = Len(p)
          BY <1>19, <3>4
        <4>2. Len(q) = ah2 - 1 /\ Len(p) - g + 1 = ad2
          BY <1>3, <1>18, <1>21, <3>2, <4>1, <4>3, <4>4
        <4> QED
          BY <1>2, <3>1, <4>1, <4>2
      <3>5. CASE ~r_stb /\ ~SharedBus.stb
        <4>1. n = 0 /\ ~dly_stb'
          BY <2>2, <3>1, <3>5
        <4>3. ah2 = ad2
          BY <1>9, <4>1
        <4>4. len = ah - 1
          BY <1>19, <3>5
        <4>2. Len(q) = ah2 - 1
          BY <1>3, <1>18, <1>21, <3>2, <4>1, <4>3, <4>4
        <4> QED
          BY <3>1, <4>1, <4>2
      <3> QED
        BY <3>3, <3>4, <3>5
    <2> QED
      BY <2>6, <2>7
  <1> QED
    BY <1>8, <1>11, <1>12, <1>15, <1>16, <1>17 DEF FlightOrder

----------------------------------------------------------------------------
(* How a cycle begins and ends.                                               *)

\* The first clock of a cycle finds the peripherals at rest.
LEMMA FlashRests ==
    ASSUME TypeOK, ~dly_cyc, ~dly_stb, Ic!Interconnect(WbSide)
    PROVE  /\ ack_delay' = 0 /\ ~flash_stall' /\ (cs_n' \/ cfg_user_mode') /\ ~flash_ack'
  <1> DEFINE req == [addr |-> Ic!Reg(dly_req), we |-> dly_req.we, exit |-> dly_req.data = ExitData]
  <1>1. Ic!Fl!Flash(FALSE, FALSE, FALSE, req)
    <2>1. WbSide.cyc = FALSE /\ WbSide.stb = FALSE /\ WbSide.req = dly_req
      BY SlaveTypes DEF WbSide, TypeOK, DelayTypeOK
    <2>2. Ic!Fl!Flash(WbSide.cyc, Ic!Selects(WbSide, "flash"), Ic!Selects(WbSide, "flashcfg"),
              [addr |-> Ic!Reg(WbSide.req), we |-> WbSide.req.we, exit |-> WbSide.req.data = ExitData])
      BY DEF Ic!Interconnect, Ic!FlashPorts
    <2> QED
      BY <2>1, <2>2 DEF Ic!Selects
  <1> HIDE DEF req
  <1> QED
    BY <1>1, SlaveTypes DEF Ic!Fl!Flash, Ic!Fl!FlashDelay, Ic!Fl!FlashAck, Ic!Fl!FlashStall,
        Ic!Fl!FlashMode, Ic!Fl!FlashSelect, Ic!Fl!BusRequest, Ic!Fl!UserRequest

LEMMA AllRest ==
    ASSUME TypeOK, ~dly_cyc, ~dly_stb, Ic!Interconnect(WbSide)
    PROVE  ~EarlyOn' /\ ~LateOn' /\ ~wb_ack' /\ ~wb_many_ack' /\ FlashHolds'
  <1>1. WbSide.cyc = FALSE /\ WbSide.stb = FALSE
    BY SlaveTypes DEF WbSide, TypeOK, DelayTypeOK
  <1>2. ~(sio_ack' \/ dio_ack0' \/ dio_ack1' \/ ram_last_stb' \/ ram_ack')
    BY <1>1 DEF Ic!Interconnect, Ic!Sio, Ic!Dio, Ic!MemDev, Ic!Selects
  <1>3. ~wb_ack' /\ ~wb_many_ack'
    BY <1>1 DEF Ic!Interconnect, Ic!Merge
  <1>4. ack_delay' = 0 /\ ~flash_stall' /\ (cs_n' \/ cfg_user_mode') /\ ~flash_ack'
    BY FlashRests
  <1>5. ~(ack_delay' > 0) /\ ~(ack_delay' > 1) /\ ack_delay' # 1
    BY <1>4
  <1> QED
    BY <1>2, <1>3, <1>4, <1>5 DEF EarlyOn, LateOn, FlashHolds

\* The delay stage as a cycle begins, and what it makes of an error.
LEMMA CycleEnds ==
    ASSUME TypeOK, CyclesMatch, Dly!Delay(SharedBus, Ic!IcReturn(WbSide))
    PROVE  /\ dly_stb' \/ up_ack' => dly_cyc'
           /\ r_stb' => dly_stb'
           /\ up_err' => ~dly_cyc' /\ SharedBus.cyc /\ dly_cyc /\ Ic!BusError(WbSide)
           /\ dly_cyc' => SharedBus.cyc /\ ~up_err /\ (dly_cyc => ~Ic!BusError(WbSide))
           /\ ~dly_cyc' /\ ~up_err' => ~SharedBus.cyc \/ up_err
           /\ dly_cyc' /\ ~dly_cyc =>
                /\ ~r_stb' /\ ~up_ack' /\ dly_stb' = SharedBus.stb
                /\ dly_stb' => dly_req' = SharedBus.req
  <1> DEFINE ret == Ic!IcReturn(WbSide)
  <1>1. ret.ack = wb_ack /\ ret.err = Ic!BusError(WbSide)
    BY DEF Ic!IcReturn
  <1>2. IsBus(SharedBus) /\ IsReturn(ret)
    BY BusTypes, ReturnTypes
  <1> HIDE DEF ret
  <1>3. Dly!Delay(SharedBus, ret)
    BY DEF ret
  <1>4. up_err' = (SharedBus.cyc /\ ret.err /\ dly_cyc)
    BY <1>3 DEF Dly!Delay, Dly!DelayResponses
  <1>5. dly_cyc' = (SharedBus.cyc /\ ~up_err /\ (~ret.err \/ ~dly_cyc))
    BY <1>3 DEF Dly!Delay, Dly!DelayCycle
  <1>6. up_ack' = (SharedBus.cyc /\ ~up_err /\ ret.ack /\ dly_cyc /\ ~ret.err)
    BY <1>3 DEF Dly!Delay, Dly!DelayResponses
  <1>7. dly_stb' => ~Dly!EndsRequests(SharedBus, ret)
    BY <1>3 DEF Dly!Delay, Dly!DelayRequests
  <1>8. r_stb' => dly_stb'
    BY <1>3 DEF Dly!Delay, Dly!DelayRequests
  <1>9. ASSUME dly_cyc', ~dly_cyc
        PROVE  /\ ~r_stb' /\ dly_stb' = SharedBus.stb /\ (dly_stb' => dly_req' = SharedBus.req)
    <2>1. ~dly_stb /\ ~r_stb /\ Dly!Advance(ret) /\ ~Dly!EndsRequests(SharedBus, ret)
      BY <1>5, <1>9 DEF CyclesMatch, Dly!Advance, Dly!EndsRequests
    <2> QED
      BY <1>2, <1>3, <2>1 DEF Dly!Delay, Dly!DelayRequests, IsBus, TypeOK, DelayTypeOK
  <1> QED
    BY <1>1, <1>2, <1>4, <1>5, <1>6, <1>7, <1>8, <1>9 DEF Dly!EndsRequests, IsBus, IsReturn

\* A cycle that goes on stays with its owner.
LEMMA OwnerGoesOn ==
    ASSUME FlightInv, TypeOK', NEW reset, NEW cmd, NEW halted \in BOOLEAN,
           Clocked(reset, cmd, halted), SharedBus.cyc, SharedBus.cyc'
    PROVE  WaitingMove /\ r_a_owner' = r_a_owner
  <1>1. r_a_owner' = r_a_owner
    BY OwnerKeeps DEF FlightInv, BusInv, Clocked
  <1>2. /\ SharedBus.cyc = IF r_a_owner THEN zip_cyc ELSE hb_cyc
        /\ SharedBus.cyc' = IF r_a_owner' THEN zip_cyc' ELSE hb_cyc'
    BY Wires, SharedNext DEF FlightInv, BusInv
  <1>3. CASE r_a_owner
    BY <1>1, <1>2, <1>3, CpuWaits DEF Clocked
  <1>4. CASE ~r_a_owner
    BY <1>1, <1>2, <1>4, HostWaits
  <1> QED
    BY <1>1, <1>3, <1>4

\* An error that ends a cycle is of a request the owner still waits for.
LEMMA ErrorWaits ==
    ASSUME FlightInv, TypeOK', Live, WaitingMove, Ic!BusError(WbSide)
    PROVE  \E i \in 1 .. Len(Waiting') : Ic!Sel(Waiting'[i]) \notin Ic!Mapped
  <1>1. dly_stb /\ Ic!Sel(dly_req) \notin Ic!Mapped /\ Waiting[AtDelay] = dly_req
    BY DEF FlightInv, InFlightInv, FlightOrder, Ic!BusError, Ic!NoneSelected, WbSide
  <1>2. PICK p \in Seq(Requests), q \in Seq(Requests), g \in {0, 1}, n \in {0, 1} :
             /\ p = Waiting /\ q = Waiting' /\ g = BitOf(up_ack) /\ n = BitOf(SharedBus.stb /\ ~r_stb)
             /\ Len(p) \in Nat /\ Len(q) = Len(p) - g + n
             /\ \A i \in 1 .. Len(p) - g : q[i] = p[i + g]
             /\ n = 1 => q[Len(p) - g + 1] = SharedBus.req
    BY MovedTo
  <1>3. g \in Nat /\ g <= 1 /\ n \in Nat /\ n <= 1 /\ (g = 1 <=> up_ack)
    BY <1>2 DEF BitOf
  <1>4. PICK am \in Nat, al \in Nat, ae \in Nat, ad \in Nat, len \in Nat :
             am = AtMerge /\ al = AtLate /\ ae = AtEarly /\ ad = AtDelay /\ len = Len(p)
    BY <1>2, Places
  <1>5. am = 1 + g /\ am <= al /\ al <= ae /\ ae <= ad /\ ad <= len
    <2>1. /\ am = (IF up_ack THEN 2 ELSE 1) /\ al = (IF wb_ack THEN am + 1 ELSE am)
          /\ ae = (IF LateOn THEN al + 1 ELSE al) /\ ad = (IF EarlyOn THEN ae + 1 ELSE ae)
          /\ len = IF r_stb THEN ad + 1 ELSE ad
      BY <1>1, <1>2, <1>4, Places
    <2> QED
      BY <1>3, <1>4, <2>1
  <1>6. ad - g \in 1 .. len - g /\ (ad - g) + g = ad /\ ad - g \in 1 .. (len - g + n)
    BY <1>3, <1>4, <1>5
  <1>7. q[ad - g] = dly_req /\ ad - g \in 1 .. Len(q)
    BY <1>1, <1>2, <1>4, <1>6
  <1> QED
    BY <1>1, <1>2, <1>7

\* A master that is not in a cycle, or that gives one up on an error, has
\* nothing on the wb bus after this clock.
LEMMA NothingWaits ==
    ASSUME FlightInv, TypeOK', NEW reset, NEW cmd, NEW halted \in BOOLEAN,
           Clocked(reset, cmd, halted), ~SharedBus.cyc \/ up_err
    PROVE  Waiting' = <<>>
  <1> USE DEF FlightInv, BusInv
  <1> DEFINE HbSide == [cyc |-> hb_cyc, stb |-> hb_stb, req |-> HbRequest]
  <1>1. /\ zip_pend' = Outstanding(zip_pend, ZipBus, ZipSees, zip_cyc')
        /\ hb_pend' = Outstanding(hb_pend, HbSide, HbSees(halted), hb_cyc')
    BY DEF Clocked, TrackRequests
  <1>2. /\ HbSide.cyc = hb_cyc /\ HbSide.stb = hb_stb /\ HbSide.req = HbRequest
        /\ ZipBus.cyc = zip_cyc /\ ZipBus.stb = zip_stb /\ ZipBus.req = zip_req
    BY DEF ZipBus
  <1> HIDE DEF HbSide
  <1>3. /\ zip_pend \in Seq(Requests) /\ hb_pend \in Seq(Requests)
        /\ zip_req \in Requests /\ HbRequest \in Requests
    BY BusTypes DEF TypeOK, ZipTypeOK
  <1>4. /\ ~zip_cyc \/ ~zip_cyc' => zip_pend' = <<>>
        /\ zip_pend = <<>> /\ ~(zip_stb /\ ~ZipSees.stall) => zip_pend' = <<>>
        /\ ~hb_cyc \/ ~hb_cyc' => hb_pend' = <<>>
        /\ hb_pend = <<>> /\ ~(hb_stb /\ ~HbSees(halted).stall) => hb_pend' = <<>>
    BY <1>1, <1>2, <1>3, OutstandingFacts
  <1>5. Waiting' = <<>> \/ Waiting' = IF r_a_owner' THEN zip_pend' ELSE hb_pend'
    BY DEF Waiting
  <1>6. r_a_owner' => zip_pend' = <<>>
    <2>1. CASE r_a_owner
      <3>1. SharedBus.cyc = zip_cyc /\ ZipSees.err = up_err
        BY <2>1, Wires DEF TypeOK, DelayTypeOK
      <3>2. zip_cyc /\ up_err => ~zip_cyc'
        BY <3>1 DEF Clocked, Zip, ZipRelease, ZipStalled, ZipWait, ZipRequest
      <3> QED
        BY <1>4, <3>1, <3>2
    <2>2. CASE ~r_a_owner
      BY <1>4, <2>2, Wires DEF OnlyOwnerWaits
    <2> QED
      BY <2>1, <2>2
  <1>7. ~r_a_owner' => hb_pend' = <<>>
    <2>1. CASE ~r_a_owner
      <3>1. SharedBus.cyc = hb_cyc /\ (up_err => HbSees(halted).err)
        BY <2>1, Wires DEF TypeOK, DelayTypeOK
      <3>2. hb_cyc /\ up_err => ~hb_cyc'
        BY <3>1 DEF Clocked, Ex!ExecBus, Ex!ExecCycle
      <3> QED
        BY <1>4, <3>1, <3>2
    <2>2. CASE r_a_owner
      <3>1. ~r_a_owner' => hb_stb /\ ~DebugSelected
        BY <2>2 DEF Clocked, Arb!Arbitrate, HbDwb
      <3>2. ~DebugSelected => HbSees(halted).stall
        BY <2>2, Wires
      <3> QED
        BY <1>4, <3>1, <3>2 DEF OneHostRequest
    <2> QED
      BY <2>1, <2>2
  <1> QED
    BY <1>5, <1>6, <1>7

LEMMA CyclesStep ==
    ASSUME FlightInv, TypeOK', NEW reset, NEW cmd, NEW halted \in BOOLEAN,
           Clocked(reset, cmd, halted)
    PROVE  CyclesMatch'
  <1>1. /\ dly_stb' \/ up_ack' => dly_cyc'
        /\ r_stb' => dly_stb'
        /\ up_err' => ~dly_cyc' /\ SharedBus.cyc /\ dly_cyc /\ Ic!BusError(WbSide)
        /\ ~dly_cyc' /\ ~up_err' => ~SharedBus.cyc \/ up_err
    BY CycleEnds DEF FlightInv, BusInv, Clocked
  <1>2. ~dly_cyc' /\ ~up_err' => Waiting' = <<>>
    BY <1>1, NothingWaits
  <1>3. up_err' /\ SharedBus.cyc' =>
          \E i \in 1 .. Len(Waiting') : Ic!Sel(Waiting'[i]) \notin Ic!Mapped
    BY <1>1, OwnerGoesOn, ErrorWaits DEF Live
  <1> QED
    BY <1>1, <1>2, <1>3 DEF CyclesMatch, Ic!Sel, Ic!Mapped

\* The first clock of a cycle: what is asked for is all that is on its way.
LEMMA FlightBegins ==
    ASSUME FlightInv, TypeOK', WaitingMove, Ic!Interconnect(WbSide),
           Dly!Delay(SharedBus, Ic!IcReturn(WbSide)), dly_cyc', ~dly_cyc
    PROVE  FlightOrder' /\ FlashHolds' /\ ~wb_many_ack'
  <1>1. /\ SharedBus.cyc /\ ~up_err /\ ~r_stb' /\ ~up_ack' /\ dly_stb' = SharedBus.stb
        /\ dly_stb' => dly_req' = SharedBus.req
    BY CycleEnds DEF FlightInv, BusInv
  <1>2. ~dly_stb /\ ~up_ack /\ ~r_stb /\ Waiting = <<>>
    BY <1>1 DEF FlightInv, CyclesMatch
  <1>3. ~EarlyOn' /\ ~LateOn' /\ ~wb_ack' /\ ~wb_many_ack' /\ FlashHolds'
    BY <1>2, AllRest DEF FlightInv, BusInv
  <1>4. BitOf(up_ack /\ Waiting # <<>>) = 0 /\ BitOf(SharedBus.stb /\ ~r_stb) = BitOf(dly_stb)'
    BY <1>1, <1>2 DEF BitOf
  <1>5. BitOf(dly_stb)' \in {0, 1} /\ (BitOf(dly_stb)' = 1 <=> dly_stb')
    BY DEF BitOf
  <1>6. Moves(Waiting', <<>>, 0, BitOf(dly_stb)', SharedBus.req)
    BY <1>2, <1>4 DEF WaitingMove
  <1>7. PICK n \in {0, 1} : n = BitOf(dly_stb)' /\ (n = 1 <=> dly_stb')
    BY <1>5
  <1>8. Len(Waiting') = n /\ (n = 1 => Waiting'[1] = SharedBus.req)
    BY <1>6, <1>7 DEF Moves
  <1>9. AtMerge' = 1 /\ AtLate' = 1 /\ AtEarly' = 1 /\ AtDelay' = 1 /\ AtHeld' = 1 + n
    <2>1. AtMerge' = 1
      BY <1>1 DEF AtMerge, BitOf
    <2>2. AtLate' = 1
      BY <1>3, <2>1 DEF AtLate, BitOf
    <2>3. AtEarly' = 1
      BY <1>3, <2>2 DEF AtEarly, BitOf
    <2>4. AtDelay' = 1
      BY <1>3, <2>3 DEF AtDelay, BitOf
    <2> QED
      BY <1>7, <2>1, <2>2, <2>3, <2>4 DEF AtHeld
  <1>10. BitOf(r_stb)' = 0
    BY <1>1 DEF BitOf
  <1>11. Len(Waiting') = AtHeld' + BitOf(r_stb)' - 1
    BY <1>7, <1>8, <1>9, <1>10
  <1>12. dly_stb' => Waiting'[AtDelay'] = dly_req'
    BY <1>1, <1>7, <1>8, <1>9
  <1> QED
    BY <1>1, <1>3, <1>11, <1>12 DEF FlightOrder

LEMMA FlightStep ==
    ASSUME FlightInv, TypeOK', NEW reset, NEW cmd, NEW halted \in BOOLEAN,
           Clocked(reset, cmd, halted)
    PROVE  InFlightInv'
  <1> SUFFICES ASSUME SharedBus.cyc', dly_cyc'
               PROVE  FlightOrder' /\ FlashHolds' /\ ~wb_many_ack'
    BY DEF InFlightInv, Live
  <1>1. SharedBus.cyc /\ ~up_err
    BY CycleEnds DEF FlightInv, BusInv, Clocked
  <1>2. WaitingMove
    BY <1>1, OwnerGoesOn
  <1>3. CASE ~dly_cyc
    BY <1>2, <1>3, FlightBegins DEF Clocked
  <1>4. CASE dly_cyc
    <2>1. CycleGoesOn
      BY <1>1, <1>2, <1>4 DEF CycleGoesOn, Live, Clocked
    <2>2. FlightOrder' /\ ~wb_many_ack'
      BY <2>1, OrderKept
    <2>3. dly_stb /\ Ic!Stall(WbSide) => dly_stb' /\ dly_req' = dly_req
      BY <2>1, DelayMoves DEF FlightInv, BusInv, CycleGoesOn, Taken
    <2>4. FlashHolds
      BY <2>1 DEF FlightInv, InFlightInv, CycleGoesOn
    <2>5. FlashHolds'
      BY <1>4, <2>1, <2>3, <2>4, FlashHoldsStep DEF FlightInv, BusInv, CycleGoesOn
    <2> QED
      BY <2>2, <2>5
  <1> QED
    BY <1>3, <1>4

----------------------------------------------------------------------------
(* What the masters ask for.                                                  *)

LEMMA CpuAsksStep ==
    ASSUME ~PipelinedConfig, FlightInv, TypeOK', NEW reset, NEW cmd, NEW halted \in BOOLEAN,
           Clocked(reset, cmd, halted)
    PROVE  CpuAsks'
  <1> USE DEF FlightInv, BusInv
  <1>1. zip_pend' = Outstanding(zip_pend, ZipBus, ZipSees, zip_cyc')
    BY DEF Clocked, TrackRequests
  <1>2. ZipBus.cyc = zip_cyc /\ ZipBus.stb = zip_stb /\ ZipBus.req = zip_req
    BY DEF ZipBus
  <1>3. zip_pend \in Seq(Requests) /\ zip_pend' \in Seq(Requests) /\ zip_req \in Requests
    BY DEF TypeOK, ZipTypeOK
  <1>4. CASE ~zip_cyc \/ ~zip_cyc'
    <2>1. zip_pend' = <<>>
      BY <1>1, <1>2, <1>4 DEF Outstanding
    <2>2. \A i \in 1 .. Len(zip_pend') : FALSE
      BY <2>1
    <2>3. zip_stb' => zip_cyc'
      <3>1. ZipStalled => zip_cyc /\ zip_cyc' = zip_cyc
        BY DEF ZipStalled, zipVars
      <3>2. ZipRequest => zip_cyc'
        BY DEF ZipRequest
      <3>3. ZipRelease \/ ZipWait => ~zip_stb'
        BY DEF ZipRelease, ZipWait
      <3>4. Zip
        BY DEF Clocked
      <3> QED
        BY <3>1, <3>2, <3>3, <3>4 DEF Zip
    <2> QED
      BY <2>2, <2>3 DEF CpuAsks, Alike, OneAtATime
  <1>5. CASE zip_cyc /\ zip_cyc'
    <2>1. PICK p \in Seq(Requests), q \in Seq(Requests) : p = zip_pend /\ q = zip_pend'
      BY <1>3
    <2>2. PICK g \in {0, 1}, n \in {0, 1} :
             /\ g = BitOf(ZipSees.ack /\ zip_pend # <<>>) /\ n = BitOf(zip_stb /\ ~ZipSees.stall)
      BY DEF BitOf
    <2>3. Moves(q, p, g, n, zip_req)
      <3>1. Moves(Outstanding(zip_pend, ZipBus, ZipSees, zip_cyc'), zip_pend,
                  BitOf(ZipSees.ack /\ zip_pend # <<>>),
                  BitOf(ZipBus.stb /\ ~ZipSees.stall), ZipBus.req)
        BY <1>2, <1>3, <1>5, OutstandingMoves
      <3>2. Moves(zip_pend', zip_pend, BitOf(ZipSees.ack /\ zip_pend # <<>>),
                  BitOf(zip_stb /\ ~ZipSees.stall), zip_req)
        BY <1>1, <1>2, <3>1
      <3> QED
        BY <2>1, <2>2, <3>2
    <2>4. /\ Len(p) \in Nat /\ Len(q) = Len(p) - g + n
          /\ \A i \in 1 .. Len(p) - g : q[i] = p[i + g]
          /\ n = 1 => q[Len(p) - g + 1] = zip_req
      BY <2>3 DEF Moves
    <2>5. PICK len \in Nat : len = Len(p)
      BY <2>4
    <2>6. g \in Nat /\ g <= 1 /\ n \in Nat /\ n <= 1 /\ (g = 1 => len # 0)
      <3>1. g = 1 => p # <<>>
        BY <2>1, <2>2 DEF BitOf
      <3>2. p # <<>> => Len(p) # 0
        OBVIOUS
      <3> QED
        BY <2>2, <2>5, <3>1, <3>2
    \* What is unanswered next: what was, and perhaps zip_req.
    <2>7. \A i \in 1 .. Len(q) :
             \/ i + g \in 1 .. len /\ q[i] = p[i + g]
             \/ i = len - g + 1 /\ n = 1 /\ q[i] = zip_req
      <3> SUFFICES ASSUME NEW i \in 1 .. Len(q)
                   PROVE  \/ i + g \in 1 .. len /\ q[i] = p[i + g]
                          \/ i = len - g + 1 /\ n = 1 /\ q[i] = zip_req
        OBVIOUS
      <3>1. i \in 1 .. (len - g + n)
        BY <2>4, <2>5
      <3>2. CASE i <= len - g
        <4>1. i \in 1 .. Len(p) - g /\ i + g \in 1 .. len
          BY <2>5, <2>6, <3>1, <3>2
        <4> QED
          BY <2>4, <4>1
      <3>3. CASE i > len - g
        <4>1. i = len - g + 1 /\ n = 1
          BY <2>6, <3>1, <3>3
        <4> QED
          BY <2>4, <2>5, <4>1
      <3> QED
        BY <2>5, <2>6, <3>1, <3>2, <3>3
    <2>8. n = 1 => zip_stb
      BY <2>2 DEF BitOf
    <2>9. Alike(p) /\ (zip_stb => OneAtATime(zip_req, p))
      BY <2>1 DEF CpuAsks
    <2>10. \A i \in 1 .. len, j \in 1 .. len :
             Ic!Sel(p[i]) \in Ic!Mapped /\ Ic!Sel(p[j]) \in Ic!Mapped => Ic!Sel(p[i]) = Ic!Sel(p[j])
      BY <2>5, <2>9 DEF Alike
    <2>11. zip_stb => \A i \in 1 .. len :
             Ic!Sel(p[i]) \in Ic!Mapped /\ Ic!Sel(zip_req) \in Ic!Mapped
               => Ic!Sel(zip_req) = Ic!Sel(p[i])
      BY <2>5, <2>9 DEF OneAtATime
    <2>12. Alike(q)
      <3>1. \A i, j \in 1 .. Len(q) :
              Ic!Sel(q[i]) \in Ic!Mapped /\ Ic!Sel(q[j]) \in Ic!Mapped => Ic!Sel(q[i]) = Ic!Sel(q[j])
        BY <2>7, <2>8, <2>10, <2>11, Zenon
      <3>2. ASSUME NEW i \in 1 .. Len(q), Ic!Sel(q[i]) = "flashcfg"
            PROVE  i = 1
        <4>1. CASE i + g \in 1 .. len /\ q[i] = p[i + g]
          <5>1. i + g = 1
            BY <2>5, <2>9, <3>2, <4>1 DEF Alike
          <5> QED
            BY <2>6, <5>1
        <4>2. CASE i = len - g + 1 /\ n = 1 /\ q[i] = zip_req
          <5>1. \A k \in 1 .. len : FALSE
            BY <2>5, <2>8, <2>9, <3>2, <4>2 DEF OneAtATime
          <5>2. len = 0
            BY <5>1
          <5>3. g = 0
            BY <2>6, <5>2
          <5> QED
            BY <4>2, <5>2, <5>3
        <4> QED
          BY <2>7, <4>1, <4>2
      <3> QED
        BY <3>1, <3>2 DEF Alike
    <2>13. zip_stb' => OneAtATime(zip_req', q)
      <3> SUFFICES ASSUME zip_stb' PROVE OneAtATime(zip_req', q)
        OBVIOUS
      <3>1. CASE ZipStalled
        <4>1. zip_stb /\ ZipSees.stall /\ zip_req' = zip_req
          BY <3>1 DEF ZipStalled, zipVars
        <4>2. n = 0
          BY <2>2, <4>1 DEF BitOf
        <4>3. \A i \in 1 .. Len(q) : i + g \in 1 .. Len(p) /\ q[i] = p[i + g]
          BY <2>5, <2>7, <4>2
        <4>4. OneAtATime(zip_req, q)
          BY <2>9, <4>1, <4>3, Zenon DEF OneAtATime
        <4> QED
          BY <4>1, <4>4
      <3>2. CASE ZipRequest
        <4>1. MayRequest(zip_req', Outstanding(zip_pend, ZipBus, ZipSees, TRUE))
          BY <3>2 DEF ZipRequest
        <4>2. Outstanding(zip_pend, ZipBus, ZipSees, TRUE) = q
          BY <1>1, <1>5, <2>1 DEF Outstanding
        <4> QED
          BY <4>1, <4>2, Zenon DEF MayRequest
      <3> QED
        BY <3>1, <3>2 DEF Clocked, Zip, ZipRelease, ZipWait
    <2>14. Alike(q) = Alike(zip_pend)' /\ OneAtATime(zip_req', q) = OneAtATime(zip_req, zip_pend)'
      BY <2>1 DEF Alike, OneAtATime, Ic!Sel, Ic!Mapped
    <2> QED
      BY <1>5, <2>12, <2>13, <2>14 DEF CpuAsks
  <1> QED
    BY <1>4, <1>5

LEMMA HostAsksStep ==
    ASSUME FlightInv, TypeOK', NEW reset, NEW cmd, NEW halted \in BOOLEAN,
           Clocked(reset, cmd, halted)
    PROVE  /\ HostAsks'
           /\ dbg_ack' /\ hb_cyc' => hb_cyc /\ hb_stb /\ DebugSelected /\ hb_pend'[1] = HbRequest
           /\ hb_ack' /\ hb_cyc' => hb_cyc /\ hb_pend # <<>> /\ hb_pend' = hb_pend
           /\ hb_ack' => (~r_a_owner /\ up_ack /\ Waiting = hb_pend /\ ~dbg_ack)
                         \/ (dbg_ack /\ ~HbDwbSees.ack)
  <1> USE DEF FlightInv, BusInv
  <1> DEFINE HbSide == [cyc |-> hb_cyc, stb |-> hb_stb, req |-> HbRequest]
  <1>1. hb_pend' = Outstanding(hb_pend, HbSide, HbSees(halted), hb_cyc')
    BY DEF Clocked, TrackRequests
  <1>2. HbSide.cyc = hb_cyc /\ HbSide.stb = hb_stb /\ HbSide.req = HbRequest
    OBVIOUS
  <1> HIDE DEF HbSide
  <1>3. hb_pend \in Seq(Requests) /\ HbRequest \in Requests
    BY BusTypes DEF TypeOK
  <1>4. /\ HbDwbSees.ack = (~r_a_owner /\ up_ack) /\ HbSees(halted).ack = hb_ack
        /\ HbSees(halted).stall = IF DebugSelected THEN DebugStall(halted) ELSE HbDwbSees.stall
        /\ ~r_a_owner => SharedBus.cyc = hb_cyc
    BY Wires
  <1>5. /\ dbg_ack' = (hb_stb /\ DebugSelected /\ ~DebugStall(halted))
        /\ hb_ack' = (hb_cyc /\ (HbDwbSees.ack \/ dbg_ack))
        /\ hb_many_ack' = (hb_cyc /\ HbDwbSees.ack /\ dbg_ack)
    BY DEF Clocked, DebugPort, HbMerge
  <1>6. hb_stb => hb_cyc /\ hb_pend = <<>>
    BY DEF OneHostRequest
  <1>7. hb_cyc /\ dbg_ack => hb_pend # <<>> /\ Ic!Sel(hb_pend[1]) = "zipdbg" /\ ~hb_ack
    BY DEF HostAsks
  <1>8. hb_cyc /\ HbDwbSees.ack =>
          hb_pend # <<>> /\ Ic!Sel(hb_pend[1]) # "zipdbg" /\ ~hb_ack /\ Waiting = hb_pend
    <2>1. hb_cyc /\ HbDwbSees.ack => ~r_a_owner /\ Waiting # <<>>
      BY <1>4, AnswerWaits
    <2> QED
      BY <2>1 DEF Waiting, HbWbPending, BitOf
  <1>9. ~hb_many_ack'
    BY <1>5, <1>7, <1>8
  <1>10. dbg_ack' /\ hb_cyc' => /\ hb_pend' # <<>> /\ hb_pend'[1] = HbRequest /\ ~hb_ack'
                                /\ hb_cyc /\ hb_stb /\ DebugSelected
    <2> SUFFICES ASSUME dbg_ack', hb_cyc'
                 PROVE  hb_pend' # <<>> /\ hb_pend'[1] = HbRequest /\ ~hb_ack'
      BY <1>5, <1>6
    <2>1. hb_stb /\ DebugSelected /\ ~HbSees(halted).stall /\ hb_cyc /\ hb_pend = <<>>
      BY <1>4, <1>5, <1>6
    <2>2. hb_pend' = <<>> \o <<HbRequest>>
      BY <1>1, <1>2, <2>1 DEF Outstanding
    <2>3. hb_pend' = <<HbRequest>>
      BY <1>3, <2>2, ConcatEmptySeq
    <2>4. ~hb_ack'
      BY <1>5, <1>7, <1>8, <2>1
    <2> QED
      BY <2>3, <2>4
  <1>11. hb_ack' /\ hb_cyc' => hb_cyc /\ hb_pend # <<>> /\ hb_pend' = hb_pend
    <2> SUFFICES ASSUME hb_ack', hb_cyc' PROVE hb_cyc /\ hb_pend # <<>> /\ hb_pend' = hb_pend
      OBVIOUS
    <2>1. hb_cyc /\ hb_pend # <<>> /\ ~hb_ack /\ ~hb_stb
      BY <1>5, <1>6, <1>7, <1>8
    <2>2. hb_pend' = hb_pend \o <<>>
      BY <1>1, <1>2, <1>4, <2>1 DEF Outstanding
    <2> QED
      BY <1>3, <2>1, <2>2
  <1>12. hb_ack' => (~r_a_owner /\ up_ack /\ Waiting = hb_pend /\ ~dbg_ack)
                    \/ (dbg_ack /\ ~HbDwbSees.ack)
    BY <1>4, <1>5, <1>7, <1>8
  <1>13. HostAsks'
    <2>1. hb_cyc' /\ (dbg_ack' \/ hb_ack') => hb_pend' # <<>>
      BY <1>10, <1>11
    <2>2. hb_cyc' /\ dbg_ack' => Ic!Sel(hb_pend'[1]) = "zipdbg" /\ ~hb_ack'
      BY <1>10 DEF DebugSelected
    <2> QED
      BY <1>9, <2>1, <2>2 DEF HostAsks, Ic!Sel
  <1> QED
    BY <1>10, <1>11, <1>12, <1>13

LEMMA InitFlight == Init => FlightInv
  <1> SUFFICES ASSUME Init PROVE FlightInv
    OBVIOUS
  <1>1. BusInv
    BY InitBusInv
  <1>2. /\ zip_pend = <<>> /\ hb_pend = <<>> /\ ~zip_stb /\ ~hb_cyc
        /\ ~dly_cyc /\ ~dly_stb /\ ~r_stb /\ ~up_ack /\ ~up_err
    BY DEF Init, Ex!BusInit, Dly!DelayInit
  <1>3. Waiting = <<>> /\ ~Live
    BY <1>2 DEF Waiting, Live
  <1>4. \A i \in 1 .. Len(<<>>) : FALSE
    OBVIOUS
  <1>5. CpuAsks
    BY <1>2, <1>4 DEF CpuAsks, Alike
  <1>6. CyclesMatch
    BY <1>2, <1>3 DEF CyclesMatch
  <1> QED
    BY <1>1, <1>2, <1>3, <1>5, <1>6 DEF FlightInv, HostAsks, InFlightInv

LEMMA StepFlight ==
    ASSUME ~PipelinedConfig, FlightInv, [Next]_vars
    PROVE  FlightInv'
  <1>1. BusInv'
    BY StepBusInv DEF FlightInv
  <1>2. CASE UNCHANGED vars
    <2>1. /\ UNCHANGED <<zip_cyc, zip_stb, zip_req, hb_cyc, hb_stb, hb_we, hb_addr, hb_data>>
          /\ UNCHANGED <<r_a_owner, dly_cyc, dly_stb, dly_req, r_stb, r_req, up_ack, up_err, up_data>>
          /\ UNCHANGED <<dbg_ack, hb_ack, hb_many_ack, hb_idata, zip_pend, hb_pend>>
          /\ UNCHANGED <<sio_ack, sio_data, dio_ack0, dio_ack1, dio_bus_select, dio_data,
                         ram_last_stb, ram_last_addr, ram_ack, ram_data>>
          /\ UNCHANGED <<flash_stall, ack_delay, flash_ack, cfg_user_mode, cs_n, r_next_addr,
                         shift_addr, flash_data>>
          /\ UNCHANGED <<wb_ack, wb_many_ack, r_wb_bus_select, wb_idata>>
      BY <1>2 DEF vars, zipVars, hbVars, Ex!busVars, Dly!delayVars, Ic!icVars, Ic!slaveVars,
           Ic!mergeVars, Ic!Fl!flashVars
    <2>2. Waiting' = Waiting /\ (Live' <=> Live)
      BY <2>1 DEF Waiting, HbWbPending, Live, SharedBus, Arb!Shared, ZipBus, HbDwb, Ic!Sel
    <2>3. CyclesMatch'
      BY <2>1, <2>2 DEF FlightInv, CyclesMatch, SharedBus, Arb!Shared, ZipBus, HbDwb, Ic!Sel, Ic!Mapped
    <2>4. CpuAsks' /\ HostAsks'
      BY <2>1 DEF FlightInv, CpuAsks, HostAsks, Alike, OneAtATime, Ic!Sel, Ic!Mapped
    <2>5. /\ AtMerge' = AtMerge /\ AtLate' = AtLate /\ AtEarly' = AtEarly /\ AtDelay' = AtDelay
          /\ AtHeld' = AtHeld /\ (EarlyOn' <=> EarlyOn) /\ (LateOn' <=> LateOn)
      BY <2>1 DEF AtMerge, AtLate, AtEarly, AtDelay, AtHeld, EarlyOn, LateOn, BitOf
    <2>6. FlightOrder => FlightOrder'
      BY <2>1, <2>2, <2>5 DEF FlightOrder, EarlyIs, LateIs, MayReturn, Ic!Sel, Ic!Reg, BitOf
    <2>7. FlashHolds => FlashHolds'
      BY <2>1 DEF FlashHolds, Ic!Sel, Ic!Reg
    <2> QED
      BY <1>1, <2>1, <2>2, <2>3, <2>4, <2>6, <2>7 DEF FlightInv, InFlightInv
  <1>3. CASE Next
    <2>1. PICK reset \in BOOLEAN, cmd \in HostCommands \cup {Ex!NoCmd}, halted \in BOOLEAN :
             Clocked(reset, cmd, halted)
      BY <1>3, NextIsClock DEF Clocked
    <2>2. TypeOK'
      BY <1>1 DEF BusInv
    <2>3. CpuAsks'
      BY <2>1, <2>2, CpuAsksStep
    <2>4. HostAsks'
      BY <2>1, <2>2, HostAsksStep
    <2>5. CyclesMatch'
      BY <2>1, <2>2, CyclesStep
    <2>6. InFlightInv'
      BY <2>1, <2>2, FlightStep
    <2> QED
      BY <1>1, <2>3, <2>4, <2>5, <2>6 DEF FlightInv
  <1> QED
    BY <1>2, <1>3

\* In a memory map with the two registers of the debug port of rtl/cpu/zipbones.v,
\* <<"zipdbg", r>> is at the addresses of parity r.
DebugWords == \A a \in DOMAIN Decode : Decode[a][1] = "zipdbg" => Decode[a][2] = a % 2

\* The host asks the debug port only at an address it holds, as HEXBUS::readio
\* and writeio do: the port picks the data a clock after it takes the request.
DebugHeld == hb_stb /\ DebugSelected => ~inc

\* The host's answers, in the register of the hb bus and in the debug port.
HostGets ==
    /\ hb_cyc /\ hb_ack => MayReturn(hb_pend[1], hb_idata)
    /\ hb_cyc /\ dbg_ack => DebugData = Decode[hb_pend[1].addr]

LEMMA DebugWord ==
    ASSUME DebugWords, NEW r \in Requests, Ic!Sel(r) = "zipdbg"
    PROVE  Decode[r.addr] = <<"zipdbg", r.addr % 2>>
  <1>1. Decode[r.addr] = <<Ic!Sel(r), Ic!Reg(r)>> /\ r.addr \in DOMAIN Decode
    BY WordOf DEF Requests
  <1>2. Ic!Reg(r) = r.addr % 2
    BY <1>1 DEF DebugWords, Ic!Sel, Ic!Reg
  <1> QED
    BY <1>1, <1>2

LEMMA HostGetsStep ==
    ASSUME DebugWords, FlightInv, HostGets, DebugHeld, [Next]_vars, TypeOK'
    PROVE  HostGets'
  <1>1. CASE UNCHANGED vars
    <2>1. UNCHANGED <<hb_cyc, hb_ack, dbg_ack, hb_pend, hb_idata, hb_addr, cfg_user_mode>>
      BY <1>1 DEF vars, hbVars, Ex!busVars, Ic!icVars, Ic!Fl!flashVars
    <2> QED
      BY <2>1 DEF HostGets, MayReturn, DebugData, Ic!Sel
  <1>2. CASE Next
    <2>1. PICK reset \in BOOLEAN, cmd \in HostCommands \cup {Ex!NoCmd}, halted \in BOOLEAN :
             Clocked(reset, cmd, halted)
      BY <1>2, NextIsClock DEF Clocked
    <2>2. /\ dbg_ack' /\ hb_cyc' => hb_cyc /\ hb_stb /\ DebugSelected /\ hb_pend'[1] = HbRequest
          /\ hb_ack' /\ hb_cyc' => hb_cyc /\ hb_pend # <<>> /\ hb_pend' = hb_pend
          /\ hb_ack' => (~r_a_owner /\ up_ack /\ Waiting = hb_pend /\ ~dbg_ack)
                        \/ (dbg_ack /\ ~HbDwbSees.ack)
      BY <2>1, HostAsksStep
    <2>3. hb_idata' = IF HbDwbSees.ack THEN HbDwbSees.data ELSE IF dbg_ack THEN DebugData ELSE NoWord
      BY <2>1 DEF Clocked, HbMerge
    <2>4. TypeOK /\ HbRequest \in Requests /\ hb_pend \in Seq(Requests)
      BY BusTypes DEF FlightInv, BusInv, TypeOK
    <2>5. ASSUME hb_cyc', hb_ack'
          PROVE  MayReturn(hb_pend[1], hb_idata)'
      <3>1. hb_cyc /\ hb_pend # <<>> /\ hb_pend' = hb_pend
        BY <2>2, <2>5
      <3>2. CASE ~r_a_owner /\ up_ack /\ Waiting = hb_pend /\ ~dbg_ack
        <4>1. HbDwbSees.ack /\ HbDwbSees.data = up_data /\ SharedBus.cyc
          BY <2>4, <3>1, <3>2, Wires
        <4>2. Live
          BY <3>2, <4>1 DEF FlightInv, CyclesMatch, Live
        <4>3. MayReturn(hb_pend[1], up_data)
          BY <3>2, <4>2 DEF FlightInv, InFlightInv, FlightOrder
        <4>4. cfg_user_mode' = cfg_user_mode
          BY <2>1, <3>2, <4>2, ModeKept DEF Clocked
        <4> QED
          BY <2>3, <3>1, <4>1, <4>3, <4>4 DEF MayReturn, Ic!Sel
      <3>3. CASE dbg_ack /\ ~HbDwbSees.ack
        <4>1. hb_idata' = DebugData /\ DebugData = Decode[hb_pend[1].addr]
          BY <2>3, <3>1, <3>3 DEF HostGets
        <4> QED
          BY <3>1, <4>1 DEF MayReturn
      <3> QED
        BY <2>2, <2>5, <3>2, <3>3
    <2>6. ASSUME hb_cyc', dbg_ack'
          PROVE  DebugData' = Decode[hb_pend'[1].addr]
      <3>1. hb_cyc /\ hb_stb /\ DebugSelected /\ hb_pend'[1] = HbRequest
        BY <2>2, <2>6
      <3>2. hb_addr' = hb_addr
        BY <2>1, <3>1 DEF DebugHeld, Clocked, Ex!ExecBus, Ex!ExecAddress, Ex!SetsAddress
      <3>3. HbRequest.addr = hb_addr
        BY DEF HbRequest
      <3>4. Decode[HbRequest.addr] = <<"zipdbg", hb_addr % 2>>
        BY <2>4, <3>1, <3>3, DebugWord DEF DebugSelected
      <3> QED
        BY <3>1, <3>2, <3>4 DEF DebugData
    <2> QED
      BY <2>5, <2>6 DEF HostGets
  <1> QED
    BY <1>1, <1>2

LEMMA WaitingIs ==
    ASSUME FlightInv
    PROVE  /\ r_a_owner => Waiting = zip_pend
           /\ ~r_a_owner => Waiting = hb_pend \/ Waiting = <<>>
           /\ ~r_a_owner => Len(Waiting) = HbWbPending
  <1>1. r_a_owner => Waiting = zip_pend
    BY DEF Waiting
  <1>2. ~r_a_owner => Waiting = hb_pend \/ Waiting = <<>>
    BY DEF Waiting
  <1>3. ASSUME ~r_a_owner, HbWbPending = 1
        PROVE  Len(Waiting) = 1
    <2>1. Waiting = hb_pend /\ hb_pend # <<>> /\ hb_pend \in Seq(Requests) /\ Len(hb_pend) <= 1
      BY <1>3 DEF Waiting, HbWbPending, BitOf, FlightInv, BusInv, TypeOK, OneHostRequest
    <2>2. PICK l \in Nat : l = Len(hb_pend)
      BY <2>1
    <2>3. l <= 1 /\ l # 0
      BY <2>1, <2>2
    <2>4. l = 1
      BY <2>3
    <2> QED
      BY <2>1, <2>2, <2>4
  <1>4. ASSUME ~r_a_owner, HbWbPending # 1
        PROVE  Len(Waiting) = 0 /\ HbWbPending = 0
    BY <1>4 DEF Waiting, HbWbPending, BitOf
  <1> QED
    BY <1>1, <1>2, <1>3, <1>4

\* Each of the two clocks of the peripherals holds one request at most.
LEMMA OnePlaceEach ==
    ASSUME FlightInv, Live
    PROVE  Len(Waiting) = InFlight
  <1> USE DEF BitOf
  <1>1. FlightOrder
    BY DEF FlightInv, InFlightInv
  <1>2. BitOf(EarlyOn) = BitOf(dio_ack0) + BitOf(ram_last_stb) + BitOf(ack_delay > 0)
    <2>1. CASE EarlyOn
      <3>1. EarlyIs(Waiting[AtEarly])
        BY <1>1, <2>1 DEF FlightOrder
      <3> QED
        BY <2>1, <3>1 DEF EarlyIs, EarlyOn
    <2>2. CASE ~EarlyOn
      BY <2>2 DEF EarlyOn
    <2> QED
      BY <2>1, <2>2
  <1>3. BitOf(LateOn) = BitOf(sio_ack) + BitOf(dio_ack1) + BitOf(ram_ack) + BitOf(flash_ack)
    <2>1. CASE LateOn
      <3>1. LateIs(Waiting[AtLate])
        BY <1>1, <2>1 DEF FlightOrder
      <3> QED
        BY <2>1, <3>1 DEF LateIs, LateOn
    <2>2. CASE ~LateOn
      BY <2>2 DEF LateOn
    <2> QED
      BY <2>1, <2>2
  <1>4. Len(Waiting) = 1 + BitOf(up_ack) + BitOf(wb_ack) + BitOf(LateOn) + BitOf(EarlyOn)
                       + BitOf(dly_stb) + BitOf(r_stb) - 1
    BY <1>1 DEF FlightOrder, AtHeld, AtDelay, AtEarly, AtLate, AtMerge
  <1>5. PICK b1 \in Nat, b2 \in Nat, b3 \in Nat, b4 \in Nat, b5 \in Nat, b6 \in Nat, b7 \in Nat,
             b8 \in Nat, b9 \in Nat, b10 \in Nat, b11 \in Nat :
             /\ b1 = BitOf(r_stb) /\ b2 = BitOf(dly_stb) /\ b3 = BitOf(sio_ack)
             /\ b4 = BitOf(dio_ack0) /\ b5 = BitOf(dio_ack1) /\ b6 = BitOf(ram_last_stb)
             /\ b7 = BitOf(ram_ack) /\ b8 = BitOf(ack_delay > 0) /\ b9 = BitOf(flash_ack)
             /\ b10 = BitOf(wb_ack) /\ b11 = BitOf(up_ack)
    <2>1. \A b : BitOf(b) \in Nat
      OBVIOUS
    <2> HIDE DEF BitOf
    <2> QED
      BY <2>1
  <1> HIDE DEF BitOf
  <1>6. InFlight = b1 + b2 + b3 + b4 + b5 + b6 + b7 + b8 + b9 + b10 + b11
    BY <1>5 DEF InFlight
  <1>7. Len(Waiting) = 1 + b11 + b10 + (b3 + b5 + b7 + b9) + (b4 + b6 + b8) + b2 + b1 - 1
    BY <1>2, <1>3, <1>4, <1>5
  <1> QED
    BY <1>6, <1>7

\* An error in a cycle is of a request of that cycle.
ErrorsInCycle ==
    /\ zip_cyc /\ ZipSees.err => Unmapped(zip_pend)
    /\ hb_cyc /\ HbSees(FALSE).err => Unmapped(hb_pend)

LEMMA FlightMeans ==
    ASSUME FlightInv
    PROVE  /\ NoneDropped /\ ErrorsInCycle
           /\ zip_cyc /\ ZipSees.ack => zip_pend # <<>> /\ MayReturn(zip_pend[1], ZipSees.data)
           /\ hb_cyc /\ hb_ack => hb_pend # <<>>
  <1>1. TypeOK
    BY DEF FlightInv, BusInv
  <1>2. NoneDropped
    <2>1. r_a_owner /\ zip_cyc /\ dly_cyc => Live /\ Waiting = zip_pend
      BY <1>1, Wires, WaitingIs DEF Live
    <2>2. ~r_a_owner /\ hb_cyc /\ dly_cyc => Live /\ Len(Waiting) = HbWbPending
      BY <1>1, Wires, WaitingIs DEF Live
    <2> QED
      BY <2>1, <2>2, OnePlaceEach DEF NoneDropped
  <1>3. ErrorsInCycle
    <2>1. zip_cyc /\ ZipSees.err => Unmapped(zip_pend)
      BY <1>1, Wires, WaitingIs DEF FlightInv, CyclesMatch, Unmapped
    <2>2. hb_cyc /\ HbSees(FALSE).err => Unmapped(hb_pend)
      <3> SUFFICES ASSUME hb_cyc, HbSees(FALSE).err
                   PROVE  Unmapped(hb_pend)
        OBVIOUS
      <3>1. ~r_a_owner /\ up_err /\ SharedBus.cyc
        BY <1>1, Wires DEF FlightInv, HostAsks
      <3>2. PICK i \in 1 .. Len(Waiting) : Ic!Sel(Waiting[i]) \notin Ic!Mapped
        BY <3>1 DEF FlightInv, CyclesMatch
      <3>3. Waiting # <<>>
        BY <3>2
      <3> QED
        BY <3>1, <3>2, <3>3, WaitingIs DEF Unmapped
    <2> QED
      BY <2>1, <2>2 DEF ErrorsInCycle
  <1>4. zip_cyc /\ ZipSees.ack => zip_pend # <<>> /\ MayReturn(zip_pend[1], ZipSees.data)
    <2> SUFFICES ASSUME zip_cyc, ZipSees.ack
                 PROVE  zip_pend # <<>> /\ MayReturn(zip_pend[1], ZipSees.data)
      OBVIOUS
    <2>1. r_a_owner /\ up_ack /\ SharedBus.cyc /\ ZipSees.data = up_data
      BY <1>1, Wires
    <2>2. Live /\ Waiting # <<>> /\ Waiting = zip_pend
      BY <2>1, AnswerWaits, WaitingIs DEF Live, FlightInv, CyclesMatch
    <2> QED
      BY <2>1, <2>2 DEF FlightInv, InFlightInv, FlightOrder
  <1>5. hb_cyc /\ hb_ack => hb_pend # <<>>
    BY DEF FlightInv, HostAsks
  <1> QED
    BY <1>2, <1>3, <1>4, <1>5

\* An error outside a cycle is of the request given up the clock before.
LEMMA ErrorOutside ==
    ASSUME FlightInv, TypeOK', NEW reset, NEW cmd, NEW halted \in BOOLEAN,
           Clocked(reset, cmd, halted), HbSees(FALSE).err'
    PROVE  ~hb_cyc' => hb_cyc /\ Unmapped(hb_pend) /\ ~HbSees(FALSE).err
  <1>1. hb_many_ack' \/ (~r_a_owner' /\ up_err')
    BY DEF TypeOK, HbSees, HbDwbSees, Arb!ReturnToB, Arb!ReturnTo, Dly!DelayReturn
  <1>2. ~hb_many_ack'
    <2>1. hb_many_ack' = (hb_cyc /\ ~r_a_owner /\ up_ack /\ dbg_ack)
      BY Wires DEF Clocked, HbMerge, FlightInv, BusInv
    <2>2. SUFFICES ASSUME hb_cyc, ~r_a_owner, up_ack, dbg_ack PROVE FALSE
      BY <2>1
    <2>3. HbWbPending = 1
      BY <2>2, Wires, AnswerWaits DEF Waiting, FlightInv, BusInv
    <2>4. Ic!Sel(hb_pend[1]) = "zipdbg"
      BY <2>2 DEF FlightInv, HostAsks
    <2>. QED
      BY <2>3, <2>4 DEF HbWbPending, BitOf
  <1>3. SharedBus.cyc /\ dly_cyc /\ Ic!BusError(WbSide)
    BY <1>1, <1>2, CycleEnds DEF Clocked, FlightInv, BusInv
  <1>4. ~r_a_owner /\ hb_cyc
    <2>1. TypeOK /\ Arb!Arbitrate(ZipBus, HbDwb)
      BY DEF Clocked, FlightInv, BusInv
    <2>2. r_a_owner' = r_a_owner
      BY <1>3, <2>1, OwnerKeeps
    <2>3. SharedBus.cyc = IF r_a_owner THEN zip_cyc ELSE hb_cyc
      BY <2>1, Wires
    <2>. QED
      BY <1>1, <1>2, <1>3, <2>2, <2>3
  <1>5. ~HbSees(FALSE).err
    BY <1>3, <1>4, Wires DEF FlightInv, BusInv, CyclesMatch, HostAsks
  <1>6. dly_stb /\ Ic!Sel(dly_req) \notin Ic!Mapped /\ Waiting[AtDelay] = dly_req
    BY <1>3 DEF FlightInv, InFlightInv, FlightOrder, Live, Ic!BusError, Ic!NoneSelected, WbSide
  <1>7. AtDelay \in 1 .. Len(Waiting)
    BY <1>3, <1>6, Places DEF Live
  <1>8. Waiting = hb_pend
    BY <1>4, <1>7, WaitingIs
  <1>. QED
    BY <1>4, <1>5, <1>6, <1>7, <1>8 DEF Unmapped

----------------------------------------------------------------------------
\* While an owner keeps its cycle, every request it was told is taken is in one
\* place of the bus and no other: in busdelay.v's two registers, in a peripheral,
\* in main.v's merge or on its way back.  The one flashcfg access at a time is
\* the CPU's driver's (PipelinedConfig).
THEOREM NothingDropped ==
    ASSUME ~PipelinedConfig
    PROVE  Spec => []NoneDropped
  <1>1. Init => FlightInv
    BY InitFlight
  <1>2. FlightInv /\ [Next]_vars => FlightInv'
    BY StepFlight
  <1>3. FlightInv => NoneDropped
    BY FlightMeans
  <1> QED
    BY <1>1, <1>2, <1>3, PTL DEF Spec

\* An error main.v raises for an address nothing answers comes back through
\* busdelay.v and wbpriarbiter.v to the master that asked for it and to no other,
\* in the cycle it asked in.  The host is told of one outside a cycle as well, in
\* the clock after a reset ended the cycle (hbexec.v does not look at its own
\* o_wb_cyc): it is then of the request it had given up.
THEOREM OwnErrors ==
    ASSUME ~PipelinedConfig
    PROVE  Spec => ErrorsAreOwn
  <1>1. Init => FlightInv
    BY InitFlight
  <1>2. FlightInv /\ [Next]_vars => FlightInv'
    BY StepFlight
  <1>3. FlightInv => ErrorsInCycle
    BY FlightMeans
  <1>4. FlightInv /\ ErrorsInCycle' /\ FlightInv' /\ [Next]_vars =>
          [ /\ zip_cyc' /\ ZipSees.err' => Unmapped(zip_pend)'
            /\ HbSees(FALSE).err' =>
                  IF hb_cyc' THEN Unmapped(hb_pend)'
                  ELSE hb_cyc /\ Unmapped(hb_pend) /\ ~HbSees(FALSE).err ]_vars
    <2>. SUFFICES ASSUME FlightInv, ErrorsInCycle', FlightInv', Next
                  PROVE  /\ zip_cyc' /\ ZipSees.err' => Unmapped(zip_pend)'
                         /\ HbSees(FALSE).err' =>
                               IF hb_cyc' THEN Unmapped(hb_pend)'
                               ELSE hb_cyc /\ Unmapped(hb_pend) /\ ~HbSees(FALSE).err
      OBVIOUS
    <2>1. PICK reset \in BOOLEAN, cmd \in HostCommands \cup {Ex!NoCmd}, halted \in BOOLEAN :
             Clocked(reset, cmd, halted)
      BY NextIsClock DEF Clocked
    <2>2. TypeOK'
      BY DEF FlightInv, BusInv
    <2>3. HbSees(FALSE).err' /\ ~hb_cyc' => hb_cyc /\ Unmapped(hb_pend) /\ ~HbSees(FALSE).err
      BY <2>1, <2>2, ErrorOutside
    <2>. QED
      BY <2>3 DEF ErrorsInCycle
  <1> QED
    BY <1>1, <1>2, <1>3, <1>4, PTL DEF Spec, ErrorsAreOwn

\* An acknowledgement answers the oldest request its master has unanswered, with
\* the word at that request's address: for every memory map whose debug port is
\* as zipbones.v decodes it, every set of requests and every flash, whichever
\* peripherals, delays, errors and abandoned cycles came before.  The host's
\* addresses in the debug port do not increment.
THEOREM OldestAnswered ==
    ASSUME ~PipelinedConfig, DebugWords
    PROVE  Spec /\ []DebugHeld => []AnswersOldest
  <1>1. Init => FlightInv /\ HostGets
    <2>1. Init => ~hb_cyc
      BY DEF Init, Ex!BusInit
    <2> QED
      BY <2>1, InitFlight DEF HostGets
  <1>2. FlightInv /\ HostGets /\ DebugHeld /\ [Next]_vars => (FlightInv /\ HostGets)'
    <2> SUFFICES ASSUME FlightInv, HostGets, DebugHeld, [Next]_vars
                 PROVE  FlightInv' /\ HostGets'
      OBVIOUS
    <2>1. FlightInv'
      BY StepFlight
    <2>2. TypeOK'
      BY <2>1 DEF FlightInv, BusInv
    <2> QED
      BY <2>1, <2>2, HostGetsStep
  <1>3. FlightInv /\ HostGets => AnswersOldest
    BY FlightMeans DEF AnswersOldest, HostGets
  <1> QED
    BY <1>1, <1>2, <1>3, PTL DEF Spec

=============================================================================
