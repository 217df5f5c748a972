------------------------------- MODULE NetUart ------------------------------
(* sw/host/netuart.cpp: the server on the host the board is plugged into.  One *)
(* thread polls the serial line and the two ports, and waits in every write.   *)
EXTENDS NetPorts
VARIABLES
    revents,            \* what poll() said of each file
    buf, pos            \* LINBUFS: what goes to each side, and how much has
netuartVars == <<revents, buf, pos>>

\* 512 bytes of a line are kept for the user to see, and shown when it ends;
\* neither is modelled: nothing else looks at them.
NetUartInit ==
    /\ revents = [tty |-> FALSE, cmd |-> FALSE, con |-> FALSE]
    /\ buf = [cmd |-> <<>>, con |-> <<>>, tty |-> <<>>] /\ pos = 0

\* The line is gone: the poll, the first read or the write that finds out exits;
\* an error of a later read only ends the reading.
Poll ==
    LET ready == [tty |-> rx # <<>>, cmd |-> Readable("cmd"), con |-> Readable("con")] IN
    /\ line = "up" /\ \E f \in DOMAIN ready : ready[f]
    /\ revents' = ready
    /\ Goto("poll", IF ready.tty THEN "tty" ELSE IF ready.cmd THEN "cmd" ELSE "con")
    /\ UNCHANGED <<buf, pos, clientVars, lineVars, fd, told>>
PollGone ==
    /\ line = "gone" /\ pc \in {"poll", "tty"} /\ (pc = "tty" => revents.tty) /\ pc' = "exit"
    /\ UNCHANGED <<netuartVars, clientVars, lineVars, fd, told>>

\* What is looked at next: only what poll() said there is something at.
AfterPort(c) == IF c = "cmd" /\ revents.con THEN "con" ELSE "poll"
AfterTty == IF revents.cmd THEN "cmd" ELSE AfterPort("cmd")

\* All that has come is read and split by bit 7, again until there is no more;
\* revents.tty is only of use until the first read.
\* (A recursive function in place of SelectSeq, which nothing can be proved of.)
OfPort(bytes, f) ==
    LET of[i \in 0 .. Len(bytes)] ==
            IF i = 0 THEN <<>>
            ELSE IF bytes[i].c = f THEN Append(of[i - 1], bytes[i]) ELSE of[i - 1]
    IN  of[Len(bytes)]
ReadTty ==
    /\ line = "up" /\ rx # <<>> /\ Goto("tty", "tty cmd")
    /\ buf' = [f \in DOMAIN buf |-> OfPort(rx, f)]
    /\ told' = [c \in Ports |-> told[c] + Len(buf'[c])]
    /\ rx' = <<>> /\ pos' = 0
    /\ revents' = [tty |-> FALSE, cmd |-> revents.cmd, con |-> revents.con]
    /\ UNCHANGED <<clientVars, fd, tx, line, seen, sent>>
TtyRead ==
    /\ ~revents.tty /\ (line = "up" => rx = <<>>) /\ Goto("tty", AfterTty)
    /\ UNCHANGED <<revents, buf, pos, clientVars, lineVars, fd, told>>

AfterClient(c) == IF c = "cmd" THEN "tty con" ELSE "tty"
TtyTo(c) == IF c = "cmd" THEN "tty cmd" ELSE "tty con"

\* If no program is there the bytes are dropped.
SkipClient(c) ==
    /\ Goto(TtyTo(c), AfterClient(c)) /\ (fd[c] = 0 \/ buf[c] = <<>>)
    /\ buf' = [buf EXCEPT ![c] = <<>>]
    /\ UNCHANGED <<revents, pos, clientVars, lineVars, fd, told>>

\* LINBUFS::write: each write() takes what there is room for, and waits while
\* there is none; it goes on until all is written.
WholeOnce(f, n) == TRUE             \* mutant: one write() is enough
Whole(f, n) == pos + n >= Len(buf[f])
WriteClient(c) ==
    LET n == IF TakesBytes(c) THEN Some(SockRoom - Len(sock[c][fd[c]].down), Len(buf[c]) - pos)
             ELSE Len(buf[c]) - pos
    IN  /\ pc = TtyTo(c) /\ fd[c] # 0 /\ ~Refuses(c) /\ n > 0
        /\ sock' = AfterSend(c, SubSeq(buf[c], pos + 1, pos + n))
        /\ IF Whole(c, n) THEN pc' = AfterClient(c) /\ pos' = 0 /\ buf' = [buf EXCEPT ![c] = <<>>]
           ELSE UNCHANGED <<pc, buf>> /\ pos' = pos + n
        /\ UNCHANGED <<revents, fd, accepted, from, told, lineVars>>
\* An error that is not EAGAIN ends netuart: close() is not reached.
WriteFails(c) ==
    /\ fd[c] # 0 /\ buf[c] # <<>> /\ Refuses(c) /\ Goto(TtyTo(c), "exit")
    /\ UNCHANGED <<netuartVars, clientVars, lineVars, fd, told>>

ToTty(c) == IF c = "cmd" THEN "cmd tty" ELSE "con tty"
AcceptPort(c) ==
    /\ fd[c] = 0 /\ Goto(c, AfterPort(c)) /\ Accept(c)
    /\ UNCHANGED <<netuartVars, sock, told, lineVars>>

\* The bytes of the command port get bit 7, those of the console stay.
MarkNone(c, bytes) == bytes         \* mutant
Mark(c, bytes) == IF c = "cmd" THEN [i \in DOMAIN bytes |-> [bytes[i] EXCEPT !.hi = TRUE]] ELSE bytes
ReadPort(c) ==
    /\ fd[c] # 0 /\ sock[c][fd[c]].up # <<>> /\ Goto(c, ToTty(c))
    /\ buf' = [buf EXCEPT !.tty = Mark(c, sock[c][fd[c]].up)]
    /\ sock' = [sock EXCEPT ![c][fd[c]].up = <<>>]
    /\ UNCHANGED <<revents, pos, fd, accepted, from, told, lineVars>>
\* The end of the file closes the connection; an error is read once, and ignored.
ReadNothing(c) ==
    /\ fd[c] # 0 /\ sock[c][fd[c]].up = <<>> /\ Goto(c, AfterPort(c))
    /\ IF sock[c][fd[c]].peer = "reset"
       THEN sock' = [sock EXCEPT ![c][fd[c]].peer = "dead"] /\ UNCHANGED fd
       ELSE UNCHANGED sock /\ fd' = [fd EXCEPT ![c] = 0]
    /\ UNCHANGED <<netuartVars, accepted, from, told, lineVars>>

\* To the line: as long as its driver has no room the write is tried again.
\* print_out() then asserts that no byte of it is zero.
Zero(b) == b.v = "nul" /\ ~b.hi
WriteTty(c) ==
    LET n == Some(LineRoom - Len(tx), Len(buf.tty) - pos) IN
    /\ line = "up" /\ pc = ToTty(c) /\ n > 0
    /\ tx' = tx \o SubSeq(buf.tty, pos + 1, pos + n)
    /\ IF ~Whole("tty", n) THEN UNCHANGED <<pc, buf>> /\ pos' = pos + n
       ELSE IF \E i \in DOMAIN buf.tty : Zero(buf.tty[i])
       THEN pc' = "exit" /\ UNCHANGED <<buf, pos>>
       ELSE pc' = AfterPort(c) /\ pos' = 0 /\ buf' = [buf EXCEPT !.tty = <<>>]
    /\ UNCHANGED <<revents, clientVars, fd, told, rx, line, seen, sent>>
WriteTtyGone ==
    /\ line = "gone" /\ pc \in {"cmd tty", "con tty"} /\ pc' = "exit"
    /\ UNCHANGED <<netuartVars, clientVars, lineVars, fd, told>>

NetUart ==
    \/ Poll \/ PollGone \/ ReadTty \/ TtyRead \/ WriteTtyGone
    \/ \E c \in Ports :
         \/ SkipClient(c) \/ WriteClient(c) \/ WriteFails(c)
         \/ AcceptPort(c) \/ ReadPort(c) \/ ReadNothing(c) \/ WriteTty(c)

\* When netuart waits, the program at a port has been given all that came from
\* the board for it since it connected, in order; and at no time anything else.
GivenByNetUart ==
    \A c \in Ports : server = "netuart" /\ fd[c] # 0 /\ TakesBytes(c) =>
        /\ pc = "poll" => Delivered(c) = UpTo(from[c], told[c])
        /\ IsPrefix(Delivered(c), UpTo(from[c], told[c]))
=============================================================================
