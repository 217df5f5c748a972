------------------------------- MODULE HexBus -------------------------------
(* A host program, its driver (HbHost), the serial line, and the device's side *)
(* of it: rtl/hexbus/hbconsole.v with HbConsole and HbExec, and a memory in    *)
(* place of the hb bus, which answers each request it takes once and after any *)
(* delay (module WbBus is that bus).  Host steps and clocks of the device      *)
(* interleave.                                                                 *)
(*                                                                             *)
(* A byte takes hundreds of clocks to arrive, the bus far fewer to answer: a   *)
(* byte is taken only once the device has nothing left to do with the last.    *)
EXTENDS Naturals, Sequences, Functions
CONSTANTS
    Calls, MaxCalls, LowAddr,
    AddrSpace, Bad, InitMem,
    ConsoleInput,       \* what the user of the console may type
    MaxOf,              \* bound: how often each event happens: "typed" and "printed"
                        \* (a byte at the console), "interrupt" (the line rises),
                        \* "quiet" (the port is idle long enough to say so)
    MaxEvents           \* bound: how many of them happen in all
VARIABLES
    call, ncalls, sent, buf, result, m_addr_set, m_lastaddr, m_inc, m_isspace,
    m_cmd, m_nacks, m_interrupt_flag, word, draining, abort_countdown, up, down,
    w_reset, dh, cmd_loaded, r_word, pck,
    hb_cyc, hb_stb, hb_we, hb_addr, hb_data, inc, newaddr, rsp_stb, rsp,
    int_state, pending_interrupt, loaded, int_stb, int_loaded, int_word,
    idl_stb, idl_word, dw_stb, dw_tok, r_len, gx_stb, gx_tok,
    nl_stb, nl_tok, cr_state, last_cr, nl_loaded, ps_full, ps_tok,
    bus_pend, mem,      \* the request the bus has taken, and what it reads
    bus_interrupt, nevents,
    asked, got          \* accesses sent for and not yet answered; the words of
                        \* those of the call in progress that are done

ASSUME HexBusAssumption ==
    /\ LowAddr \in Nat \ {0} /\ AddrSpace \in Nat \ {0}
    /\ Bad \subseteq 0 .. AddrSpace - 1
    /\ \A c \in Calls :
          /\ c.fn \in {"readio", "readi", "readz", "writeio", "writei", "writez"}
          /\ c.n \in Nat \ {0} /\ c.addr \in 0 .. AddrSpace - 1

NoToken == [t |-> "none"]
NoRequest == [we |-> FALSE, addr |-> AddrSpace, data |-> 0]

Ex == INSTANCE HbExec WITH NoWord <- 0
NoCmd == Ex!NoCmd
Rsp(kind) == Ex!Rsp(kind)
DigitGroups == 2        \* the eight digits of a word are two groups here

Con == INSTANCE HbConsole
H == INSTANCE HbHost
Promise == INSTANCE DevBus

hostVars == <<call, ncalls, sent, buf, result, m_addr_set, m_lastaddr, m_inc, m_isspace,
              m_cmd, m_nacks, m_interrupt_flag, word, draining, abort_countdown>>
deviceVars == <<w_reset, dh, cmd_loaded, r_word, pck,
                hb_cyc, hb_stb, hb_we, hb_addr, hb_data, inc, newaddr, rsp_stb, rsp,
                int_state, pending_interrupt, loaded, int_stb, int_loaded, int_word,
                idl_stb, idl_word, dw_stb, dw_tok, r_len, gx_stb, gx_tok,
                nl_stb, nl_tok, cr_state, last_cr, nl_loaded, ps_full, ps_tok,
                bus_pend, mem>>
vars == <<hostVars, up, down, deviceVars, bus_interrupt, nevents, asked, got>>

Init ==
    /\ H!HostInit /\ up = <<>> /\ down = <<>>
    /\ Con!ReceiveInit /\ Ex!BusInit /\ Ex!ResponseInit /\ Con!TransmitInit
    /\ bus_pend = NoRequest /\ mem = InitMem
    /\ bus_interrupt = FALSE /\ nevents = [event \in DOMAIN MaxOf |-> 0]
    /\ asked = <<>> /\ got = <<>>

----------------------------------------------------------------------------
\* One more event of a kind.
Count(event) ==
    /\ nevents[event] < MaxOf[event]
    /\ FoldFunctionOnSet(+, 0, nevents, DOMAIN nevents) < MaxEvents
    /\ nevents' = [nevents EXCEPT ![event] = @ + 1]

Answered(answer) == answer /\ bus_pend # NoRequest
BusReturn(stall, answer) ==
    [stall |-> stall,
     ack   |-> Answered(answer) /\ bus_pend.addr \notin Bad,
     err   |-> Answered(answer) /\ bus_pend.addr \in Bad,
     data  |-> IF bus_pend = NoRequest \/ bus_pend.addr \in Bad THEN 0
               ELSE mem[bus_pend.addr]]

\* The memory behind the bus, and which of the accesses asked for it has done.
BusMemory(stall, answer) ==
    LET ret == BusReturn(stall, answer)
    IN  /\ bus_pend' = IF hb_stb /\ ~stall
                       THEN [we |-> hb_we, addr |-> hb_addr, data |-> hb_data]
                       ELSE IF Answered(answer) THEN NoRequest ELSE bus_pend
        /\ mem' = IF ret.ack /\ bus_pend.we
                  THEN [mem EXCEPT ![bus_pend.addr] = bus_pend.data] ELSE mem
        /\ asked' = IF Answered(answer) /\ asked # <<>> THEN Tail(asked) ELSE asked
        /\ got' = IF ret.ack THEN Append(got, mem'[bus_pend.addr]) ELSE got

\* One clock of the device.
Clock(byte, stall, answer, quiet, console, txBusy) ==
    /\ Con!Receive(byte)
    /\ Ex!Exec(w_reset, pck, BusReturn(stall, answer))
    /\ Con!Transmit(w_reset, bus_interrupt, rsp_stb, rsp, quiet, console, txBusy)
    /\ BusMemory(stall, answer)
    /\ down' = down \o Con!Sent(txBusy)
    /\ UNCHANGED <<hostVars, bus_interrupt>>

Choice(possible) == IF possible THEN BOOLEAN ELSE {FALSE}
ByteTime == dh = NoToken /\ pck = NoCmd /\ ~hb_cyc
Silent == ~rsp_stb /\ ~int_stb /\ ~idl_stb /\ ~dw_stb /\ ~gx_stb /\ ~nl_stb

AnyClock(byte) ==
    \E stall \in Choice(hb_stb), answer \in Choice(bus_pend # NoRequest),
       txBusy \in Choice(ps_full) :
          Clock(byte, stall, answer, FALSE, FALSE, txBusy)

DeviceClock == AnyClock(NoToken) /\ UNCHANGED <<up, nevents>>

DeviceTakes ==
    /\ ByteTime /\ up # <<>> /\ AnyClock(Head(up))
    /\ up' = Tail(up) /\ UNCHANGED nevents

\* A byte typed at the console goes down the same line; one printed there comes
\* up it.
ConsoleTypes ==
    /\ ByteTime /\ Count("typed")
    /\ \E byte \in ConsoleInput : AnyClock(byte)
    /\ UNCHANGED up

ConsolePrints ==
    /\ Count("printed")
    /\ Clock(NoToken, FALSE, FALSE, FALSE, TRUE, FALSE)
    /\ UNCHANGED up

DeviceQuiet ==
    /\ Silent /\ Count("quiet")
    /\ Clock(NoToken, FALSE, FALSE, TRUE, FALSE, FALSE)
    /\ UNCHANGED up

Interrupt ==
    /\ IF bus_interrupt THEN UNCHANGED nevents ELSE Count("interrupt")
    /\ bus_interrupt' = ~bus_interrupt
    /\ UNCHANGED <<hostVars, up, down, deviceVars, asked, got>>

\* A step of the host, with the accesses it asks the device for.
HostAsks ==
    IF call # H!NoCall /\ sent' > sent
    THEN <<[we |-> H!IsWrite(call), addr |-> H!AddressOf(call, sent')]>>
    ELSE IF call = H!NoCall THEN <<[we |-> H!IsWrite(call'), addr |-> call'.addr]>>
    ELSE <<>>

HostStep ==
    /\ H!Host
    /\ asked' = asked \o HostAsks
    /\ got' = IF call = H!NoCall THEN <<>> ELSE got
    /\ UNCHANGED <<deviceVars, bus_interrupt, nevents>>

Next ==
    \/ HostStep
    \/ DeviceClock \/ DeviceTakes \/ DeviceQuiet
    \/ ConsoleTypes \/ ConsolePrints
    \/ Interrupt

Spec == Init /\ [][Next]_vars

\* The clock goes on, the line carries bytes, the bus answers, and the program
\* runs.
Prompt ==
    /\ nevents' = nevents
    /\ IF ByteTime /\ up # <<>>
       THEN Clock(Head(up), FALSE, TRUE, FALSE, FALSE, FALSE) /\ up' = Tail(up)
       ELSE Clock(NoToken, FALSE, TRUE, FALSE, FALSE, FALSE) /\ UNCHANGED up
FairSpec == Spec /\ WF_vars(Prompt) /\ WF_vars(HostStep)

----------------------------------------------------------------------------
\* Each access the device's bus makes is the next one a call asked for: hbexec
\* keeps the address itself, the driver keeps a copy in m_lastaddr, and leaves
\* the address out when it takes the two to be the same.
AccessesAsAsked ==
    bus_pend # NoRequest =>
        asked # <<>> /\ Head(asked) = [we |-> bus_pend.we, addr |-> bus_pend.addr]

\* hbconsole.v, "if (int_busy) assume(!ow_stb)": hbexec does not wait for hbints,
\* so what it says while hbints holds another word would be lost.
ResponseTaken == Con!IntBusy => ~rsp_stb

\* What devbus.h promises.
KeepsPromise == Promise!Spec

\* Every call returns.
CallReturns == call # H!NoCall ~> call = H!NoCall

\* An interrupt is reported no later than the answer to a command that is on its
\* way.
InterruptAnswered == pending_interrupt /\ up # <<>> ~> ~pending_interrupt
=============================================================================
