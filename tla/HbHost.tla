------------------------------- MODULE HbHost -------------------------------
(* sw/host/hexbus.cpp: the driver a host program uses to reach the device's    *)
(* bus.  A call is [fn, addr, n, data]: readio, readi, readz, writeio, writei  *)
(* or writez of n words from addr; addresses are those of words, an eighth     *)
(* digit that is odd asks the device not to increment (hold).  One action is   *)
(* one character taken from the socket (a group of digits counts as one) or    *)
(* one write to it.  m_bus_err, which nothing here reads, is left out.         *)
EXTENDS Naturals, Sequences, SequencesExt
CONSTANTS
    Calls,              \* the calls the program makes
    MaxCalls,           \* bound: how many it makes
    LowAddr,            \* addresses that the last group of digits tells apart
    DigitGroups         \* groups of digits in a word
VARIABLES
    call, ncalls, sent, buf, result,    \* the call, the words sent for it and
                                        \* received; how the last one ended
    m_addr_set, m_lastaddr, m_inc, m_isspace, m_cmd, m_nacks, m_interrupt_flag,
    word,                               \* the digits since the last letter
    draining, abort_countdown,          \* inside readidle; in readword
    up, down                            \* characters to and from the device

progress == <<call, sent, buf, result>>

NoCall == [fn |-> "none"]
IsRead(c) == c.fn \in {"readio", "readi", "readz"}
IsWrite(c) == c.fn \in {"writeio", "writei", "writez"}
Increments(c) == c.fn \in {"readi", "writei"}
AddressOf(c, i) == IF Increments(c) THEN c.addr + i - 1 ELSE c.addr
AddressAfter(c) == IF Increments(c) THEN c.addr + c.n ELSE c.addr
Bit(b) == IF b THEN 1 ELSE 0

\* init() leaves m_inc, m_isspace and m_lastaddr as they are in memory.
HostInit ==
    /\ call = NoCall /\ ncalls = 0 /\ sent = 0 /\ buf = <<>>
    /\ result = [outcome |-> "none", words |-> <<>>]
    /\ m_addr_set = FALSE /\ m_lastaddr = 0
    /\ m_inc \in BOOLEAN /\ m_isspace \in BOOLEAN
    /\ m_cmd = "none" /\ m_nacks = 0 /\ m_interrupt_flag = FALSE
    /\ word = <<>> /\ draining = FALSE /\ abort_countdown = 3

----------------------------------------------------------------------------
(* What is sent.                                                              *)

Op(op) == [t |-> "op", op |-> op]
End == [t |-> "end"]
Digits(a, h, d) == [t |-> "digits", addr |-> a, hold |-> h, data |-> d]

\* encode_address: an address is not sent again if the device is known to have
\* it.  A held address is odd, and so never the last one.
AddressKnownHeld(c) ==      \* mutant: whether or not the device increments
    m_addr_set /\ m_lastaddr = c.addr /\ Increments(c)
AddressKnown(c) ==
    m_addr_set /\ m_lastaddr = c.addr /\ Increments(c) /\ m_inc
EncodeAddress(c) ==
    IF AddressKnown(c) THEN <<>>
    ELSE <<Op("addr"), Digits(c.addr, ~Increments(c), 0)>>

ReadCommand == <<Op("read"), End>>
WriteCommand(v) ==      \* the digits of zero are left out
    IF v = 0 THEN <<Op("write"), End>> ELSE <<Op("write"), Digits(0, FALSE, v), End>>

\* readv, writev up to the first wait.
HostCall ==
    /\ call = NoCall /\ result.outcome # "exit" /\ ncalls < MaxCalls
    /\ \E c \in Calls :
          /\ call' = c /\ ncalls' = ncalls + 1
          /\ up' = up \o (EncodeAddress(c)
                        \o IF IsRead(c) THEN ReadCommand ELSE WriteCommand(c.data[1]))
          /\ m_lastaddr' = c.addr /\ m_addr_set' = TRUE
          /\ m_inc' = IF IsRead(c) THEN Increments(c) ELSE m_inc
          /\ m_nacks' = IF IsRead(c) THEN m_nacks ELSE 0
    /\ sent' = 1 /\ buf' = <<>> /\ word' = <<>> /\ abort_countdown' = 3
    /\ UNCHANGED <<result, m_isspace, m_cmd, m_interrupt_flag, draining, down>>

\* writev keeps one write ahead of the acknowledgements.
HostWriteNext ==
    /\ IsWrite(call) /\ ~draining /\ sent < call.n /\ m_nacks >= sent - 1
    /\ up' = up \o WriteCommand(call.data[sent + 1]) /\ sent' = sent + 1
    /\ UNCHANGED <<call, ncalls, buf, result, m_addr_set, m_lastaddr, m_inc, m_isspace,
                   m_cmd, m_nacks, m_interrupt_flag, word, draining,
                   abort_countdown, down>>

AcksWanted == IF sent < call.n THEN sent - 1 ELSE call.n

\* writev has its acknowledgements; writeio then sets the address itself.
HostWriteDone ==
    /\ IsWrite(call) /\ ~draining /\ sent = call.n /\ m_nacks >= call.n
    /\ m_lastaddr' = IF call.fn = "writei" THEN m_lastaddr + call.n
                     ELSE IF call.fn = "writeio" THEN call.addr ELSE m_lastaddr
    /\ m_addr_set' = (call.fn = "writeio" \/ m_addr_set)
    /\ result' = [outcome |-> "ok", words |-> <<>>] /\ call' = NoCall
    /\ UNCHANGED <<ncalls, sent, buf, m_inc, m_isspace, m_cmd, m_nacks, m_interrupt_flag,
                   word, draining, abort_countdown, up, down>>

----------------------------------------------------------------------------
(* What is received.                                                          *)

\* readidle: called until enough acknowledgements are in; it starts a new word
\* and returns as soon as no character is there to be read.
HostReadIdle ==
    /\ IsWrite(call) /\ ~draining /\ m_nacks < AcksWanted /\ down # <<>>
    /\ draining' = TRUE /\ word' = <<>>
    /\ UNCHANGED <<progress, ncalls, m_addr_set, m_lastaddr, m_inc, m_isspace, m_cmd,
                   m_nacks, m_interrupt_flag, abort_countdown, up, down>>

HostReadIdleReturns ==
    /\ draining /\ down = <<>> /\ draining' = FALSE
    /\ UNCHANGED <<progress, ncalls, m_addr_set, m_lastaddr, m_inc, m_isspace, m_cmd,
                   m_nacks, m_interrupt_flag, word, abort_countdown, up, down>>

Takes == (IsRead(call) \/ draining) /\ down # <<>> /\ down' = Tail(down)
IsDigits(tok) == tok.t \in {"hi", "lo"}
IsSpace(tok) == tok.t \in {"cr", "lf"}

HostDigits ==
    /\ Takes /\ IsDigits(Head(down))
    /\ word' = Append(word, Head(down))
    /\ m_isspace' = (draining /\ m_isspace)
    /\ UNCHANGED <<progress, ncalls, m_addr_set, m_lastaddr, m_inc, m_cmd, m_nacks,
                   m_interrupt_flag, draining, abort_countdown, up>>

\* A character that is no digit ends a word of kind m_cmd, unless the last one
\* was a space, and begins the next.
Ends(kind) == Takes /\ ~IsDigits(Head(down)) /\ ~m_isspace /\ m_cmd = kind
NextCmd == m_cmd' = IF IsSpace(Head(down)) THEN m_cmd ELSE Head(down).word.kind
NextSpace == m_isspace' = IsSpace(Head(down))
NextWord == NextCmd /\ NextSpace /\ word' = <<>>

\* The value of the digits that were kept: those of earlier calls of readidle
\* are lost.
Echo ==
    IF word = <<>> THEN [addr |-> 0, hold |-> FALSE]
    ELSE [addr |-> IF Len(word) = DigitGroups THEN Last(word).word.addr
                   ELSE Last(word).word.addr % LowAddr,
          hold |-> Last(word).word.hold]

HostAddrEcho ==
    /\ Ends("addr") /\ NextWord
    /\ m_addr_set' = TRUE /\ m_inc' = ~Echo.hold /\ m_lastaddr' = Echo.addr
    /\ UNCHANGED <<progress, ncalls, m_nacks, m_interrupt_flag, draining,
                   abort_countdown, up>>

\* readword is done: the next word of the call is asked for, or the addresses
\* are compared and the call returns.  The driver exits if they differ.
HostData ==
    /\ Ends("data") /\ NextWord
    /\ m_lastaddr' = m_lastaddr + Bit(m_inc)
    /\ IF IsWrite(call) THEN UNCHANGED <<progress, abort_countdown, up>>
       ELSE /\ buf' = Append(buf, Head(word).word.data)
            /\ abort_countdown' = 3
            /\ IF sent < call.n
               THEN up' = up \o ReadCommand /\ sent' = sent + 1 /\ UNCHANGED <<call, result>>
               ELSE /\ call' = NoCall
                    /\ result' = IF m_lastaddr' = AddressAfter(call)
                                 THEN [outcome |-> "ok", words |-> buf']
                                 ELSE [outcome |-> "exit", words |-> <<>>]
                    /\ UNCHANGED <<sent, up>>
    /\ UNCHANGED <<ncalls, m_addr_set, m_inc, m_nacks, m_interrupt_flag, draining>>

HostAck ==
    /\ Ends("ack") /\ NextWord
    /\ m_lastaddr' = m_lastaddr + Bit(m_inc) /\ m_nacks' = m_nacks + 1
    /\ UNCHANGED <<progress, ncalls, m_addr_set, m_inc, m_interrupt_flag, draining,
                   abort_countdown, up>>

\* A BUSERR leaves the call.  readword notes the character it was told by before
\* it throws, readidle does not.
HostThrow ==
    /\ result' = [outcome |-> "err", words |-> <<>>]
    /\ call' = NoCall /\ draining' = FALSE
    /\ UNCHANGED <<ncalls, sent, buf, m_addr_set, m_lastaddr, m_inc, m_nacks,
                   m_interrupt_flag, up>>
HostError ==
    /\ Ends("err") /\ HostThrow /\ word' = <<>>
    /\ IF draining THEN UNCHANGED <<m_isspace, m_cmd>> ELSE NextCmd /\ NextSpace
    /\ UNCHANGED abort_countdown

\* Three signs of life and no answer: readword gives up.
HostIdleWord ==
    /\ Ends("idle")
    /\ IF IsRead(call) /\ abort_countdown = 1
       THEN HostThrow /\ abort_countdown' = 3 /\ word' = <<>> /\ UNCHANGED <<m_isspace, m_cmd>>
       ELSE /\ NextWord
            /\ abort_countdown' = abort_countdown - Bit(IsRead(call))
            /\ UNCHANGED <<progress, ncalls, m_addr_set, m_lastaddr, m_inc, m_nacks,
                           m_interrupt_flag, draining, up>>

\* An interrupt, a reset of the device, or a word that is not to be looked at.
HostOther ==
    /\ Takes /\ ~IsDigits(Head(down)) /\ NextWord
    /\ m_isspace \/ m_cmd \in {"int", "reset", "none"}
    /\ m_interrupt_flag' = (m_interrupt_flag \/ (~m_isspace /\ m_cmd = "int"))
    /\ m_addr_set' = (m_addr_set /\ (m_isspace \/ m_cmd # "reset"))
    /\ UNCHANGED <<progress, ncalls, m_lastaddr, m_inc, m_nacks, draining,
                   abort_countdown, up>>

Host ==
    \/ HostCall \/ HostWriteNext \/ HostWriteDone
    \/ HostReadIdle \/ HostReadIdleReturns
    \/ HostDigits \/ HostAddrEcho \/ HostData \/ HostAck
    \/ HostError \/ HostIdleWord \/ HostOther
=============================================================================
