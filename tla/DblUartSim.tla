----------------------------- MODULE DblUartSim -----------------------------
(* sim/dbluartsim.cpp: the simulator's server, which is netuart and the serial *)
(* line in one.  It is called on every clock: between two characters it looks  *)
(* for connections and for something to send.                                  *)
EXTENDS NetPorts
CONSTANTS DblPipeBufLen     \* DBLPIPEBUFLEN
ASSUME BufAssumption == DblPipeBufLen \in Nat /\ DblPipeBufLen > 2
VARIABLES m_cmdbuf, m_conbuf, m_rxbuf, sending      \* what send() has still to take
dbluartVars == <<m_cmdbuf, m_conbuf, m_rxbuf, sending>>

DblUartSimInit == m_cmdbuf = <<>> /\ m_conbuf = <<>> /\ m_rxbuf = <<>> /\ sending = <<>>

\* poll_accept()
PollAccept(c) ==
    /\ pc = "tick" /\ fd[c] = 0 /\ Readable(c) /\ Accept(c)
    /\ UNCHANGED <<pc, dbluartVars, sock, told, lineVars>>

\* received(): commands are kept until a line is whole, or the buffer full.
Received ==
    LET b == Head(rx) IN
    /\ line = "up" /\ rx # <<>> /\ Goto("tick", "cmd") /\ rx' = Tail(rx)
    /\ told' = [told EXCEPT ![b.c] = @ + 1]
    /\ IF b.c = "cmd" THEN m_cmdbuf' = Append(m_cmdbuf, b) /\ UNCHANGED m_conbuf
       ELSE m_conbuf' = Append(m_conbuf, b) /\ UNCHANGED m_cmdbuf
    /\ UNCHANGED <<m_rxbuf, sending, clientVars, fd, tx, line, seen, sent>>
LineEnds(buf) == buf # <<>> /\ (Last(buf).nl \/ Len(buf) >= DblPipeBufLen - 2)
AfterLineKept == m_cmdbuf                       \* mutant: m_cmdpos is not reset
AfterLine == IF LineEnds(m_cmdbuf) THEN <<>> ELSE m_cmdbuf
CmdLine ==
    /\ pc = "cmd" /\ sending = <<>>
    /\ IF LineEnds(m_cmdbuf) /\ fd.cmd # 0 THEN sending' = m_cmdbuf /\ pc' = "send cmd"
       ELSE UNCHANGED sending /\ pc' = "con"
    /\ m_cmdbuf' = AfterLine
    /\ UNCHANGED <<m_conbuf, m_rxbuf, clientVars, fd, told, lineVars>>

\* A console's program is sent the newest character, and those kept from before
\* it connected are dropped; with no program a line is printed as it ends.
ConsoleSends == <<Last(m_conbuf)>>
ConChar ==
    /\ pc = "con" /\ sending = <<>>
    /\ IF m_conbuf # <<>> /\ fd.con # 0
       THEN sending' = ConsoleSends /\ pc' = "send con" /\ m_conbuf' = <<>>
       ELSE /\ UNCHANGED sending /\ pc' = "tick"
            /\ m_conbuf' = IF LineEnds(m_conbuf) THEN <<>> ELSE m_conbuf
    /\ UNCHANGED <<m_cmdbuf, m_rxbuf, clientVars, fd, told, lineVars>>

\* send() waits until it has room for all; if it fails the connection is closed.
SendTo(c, here, there) ==
    /\ pc = here /\ sending # <<>>
    /\ \/ /\ Refuses(c) /\ fd' = [fd EXCEPT ![c] = 0]
          /\ sending' = <<>> /\ UNCHANGED sock
       \/ LET n == IF TakesBytes(c) THEN Some(SockRoom - Len(sock[c][fd[c]].down), Len(sending))
                   ELSE Len(sending)
          IN  /\ ~Refuses(c) /\ n > 0 /\ sock' = AfterSend(c, SubSeq(sending, 1, n))
              /\ sending' = SubSeq(sending, n + 1, Len(sending)) /\ UNCHANGED fd
    /\ pc' = IF sending' = <<>> THEN there ELSE here
    /\ UNCHANGED <<m_cmdbuf, m_conbuf, m_rxbuf, accepted, from, told, lineVars>>

\* poll_read(): both programs' bytes go to one buffer, those of the command port
\* first and with bit 7.  A read of nothing, or an error, closes the connection.
RecvLen(c, room) == Some(Len(sock[c][fd[c]].up), room)
Received7(c, n) ==
    [i \in 1 .. n |-> [sock[c][fd[c]].up[i] EXCEPT !.hi = @ \/ c = "cmd"]]
Polled(c) == fd[c] # 0 /\ Readable(c)
PollRead ==
    LET n == [c \in Ports |-> IF Polled(c) THEN RecvLen(c, DblPipeBufLen) ELSE 0]
        full == n["cmd"] = DblPipeBufLen
        m == IF Polled("con") THEN RecvLen("con", DblPipeBufLen - n["cmd"]) ELSE 0
        takes == [cmd |-> n["cmd"], con |-> IF full THEN 0 ELSE m]
        ends == {c \in Ports : Polled(c) /\ takes[c] = 0 /\ ~(c = "con" /\ full)}
    IN  /\ pc = "tick" /\ m_rxbuf = <<>> /\ \E c \in Ports : Polled(c)
        /\ m_rxbuf' = Received7("cmd", takes.cmd) \o Received7("con", takes.con)
        /\ sock' = [c \in Ports |-> IF takes[c] = 0 THEN sock[c]
                     ELSE [sock[c] EXCEPT ![fd[c]].up = SubSeq(@, takes[c] + 1, Len(@))]]
        /\ fd' = [c \in Ports |-> IF c \in ends THEN 0 ELSE fd[c]]
        /\ UNCHANGED <<pc, m_cmdbuf, m_conbuf, sending, accepted, from, told, lineVars>>

\* next(): the wire is free, and takes a character.
TxIdle == Len(tx) < LineRoom
AfterByte == Tail(m_rxbuf)
NextByte ==
    /\ pc = "tick" /\ m_rxbuf # <<>> /\ TxIdle /\ line = "up"
    /\ tx' = Append(tx, Head(m_rxbuf)) /\ m_rxbuf' = AfterByte
    /\ UNCHANGED <<pc, m_cmdbuf, m_conbuf, sending, clientVars, fd, told, rx, line, seen, sent>>

\* kill(): what is kept is sent, the server's side ended, and what comes is read
\* and dropped until the program has ended the other; the console's first.
KillStart ==
    /\ pc = "tick" /\ line = "gone"
    /\ IF fd.con # 0 /\ m_conbuf # <<>> THEN pc' = "kill con" /\ sending' = m_conbuf
       ELSE pc' = "drain con" /\ UNCHANGED sending
    /\ m_conbuf' = <<>>
    /\ UNCHANGED <<m_cmdbuf, m_rxbuf, clientVars, fd, told, lineVars>>
Drain(c) ==
    /\ pc = IF c = "con" THEN "drain con" ELSE "drain cmd"
    /\ fd[c] # 0 => sock[c][fd[c]].peer # "open"
    /\ fd' = [fd EXCEPT ![c] = 0]
    /\ IF c = "con" /\ fd.cmd # 0 /\ m_cmdbuf # <<>>
       THEN pc' = "kill cmd" /\ sending' = m_cmdbuf /\ m_cmdbuf' = <<>>
       ELSE /\ pc' = IF c = "con" THEN "drain cmd" ELSE "killed"
            /\ UNCHANGED <<sending, m_cmdbuf>>
    /\ UNCHANGED <<m_conbuf, m_rxbuf, clientVars, told, lineVars>>

DblUartSim ==
    \/ Received \/ CmdLine \/ ConChar \/ PollRead \/ NextByte \/ KillStart
    \/ SendTo("cmd", "send cmd", "con") \/ SendTo("con", "send con", "tick")
    \/ SendTo("con", "kill con", "drain con") \/ SendTo("cmd", "kill cmd", "drain cmd")
    \/ \E c \in Ports : PollAccept(c) \/ Drain(c)

\* Between two characters the console's program has been given all since it was
\* accepted, and perhaps the character before; the command port's all whole
\* lines, from the one in which it was accepted.
GivenByDblUartSim ==
    pc = "tick" => \A c \in Ports : fd[c] # 0 /\ TakesBytes(c) =>
        \E a \in (IF c = "con" THEN {from.con, Some(from.con, from.con - 1)} ELSE 0 .. from.cmd) :
            Delivered(c) \o (IF c = "cmd" THEN Numbers(m_cmdbuf) ELSE <<>>) = UpTo(a, told[c])
=============================================================================
