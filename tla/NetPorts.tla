------------------------------ MODULE NetPorts ------------------------------
(* The two network ports to the board, and what is at their ends: the board's  *)
(* serial line, one user's programs at the command port (sw/host/llcomms.cpp), *)
(* another's terminal at the console port.  NetUart and DblUartSim are the two *)
(* servers between them.                                                       *)
EXTENDS Integers, Sequences, SequencesExt, FiniteSets, FiniteSetsExt
CONSTANTS
    MaxSessions,        \* bound: connections, to both ports
    MaxBytes,           \* bound: bytes typed, and sent by the board
    SockRoom, LineRoom, \* bytes a socket to a program, the line to the board, has room for
    Typed               \* what may be typed at the console: "x", "nul", and "hi", a
                        \* byte with bit 7
ASSUME PortsAssumption ==
    /\ MaxSessions \in Nat /\ MaxBytes \in Nat
    /\ SockRoom \in Nat \ {0} /\ LineRoom \in Nat \ {0}
VARIABLES
    server, pc,         \* the server that runs, and where it is
    sock,               \* the connections to each port, in their order
    fd, accepted,       \* the server's connection, 0 for none; how many it took
    rx, tx, line,       \* bytes from and to the board; the line is "up" or "gone"
    seen,               \* history: how many bytes of each port the board took, and the last,
    sent, told,         \*   how many bytes it sent, and the server got, for each port,
    from                \*   and told when the server took its connection
clientVars == <<sock, accepted, from>>
lineVars == <<rx, tx, line, seen, sent>>

Ports == {"cmd", "con"}
Sessions == 1 .. MaxSessions
NoSocket == [peer |-> "none", up |-> <<>>, down |-> <<>>, got |-> <<>>, typed |-> 0]

PortsInit ==
    /\ sock = [c \in Ports |-> [k \in Sessions |-> NoSocket]]
    /\ fd = [c \in Ports |-> 0] /\ accepted = [c \in Ports |-> 0]
    /\ rx = <<>> /\ tx = <<>> /\ line = "up"
    /\ seen = [c \in Ports |-> [count |-> 0, k |-> 0, n |-> 0, v |-> "x", hi |-> FALSE]]
    /\ sent = [c \in Ports |-> 0] /\ told = sent /\ from = sent
    /\ server \in {"netuart", "dbluartsim"}
Goto(here, there) == pc = here /\ pc' = there

\* A program connects, or a second one while the first is still served.  (New
\* programs and new bytes come only before the line is gone.)
Connect(c) ==
    line = "up" /\ \E k \in Sessions :
        /\ \A d \in Ports \ {c} :
             k + Cardinality({j \in Sessions : sock[d][j].peer # "none"}) <= MaxSessions
        /\ sock[c][k].peer = "none" /\ \A j \in 1 .. k - 1 : sock[c][j].peer # "none"
        /\ sock' = [sock EXCEPT ![c][k].peer = "open"]
        /\ UNCHANGED <<fd, accepted, told, from, lineVars>>

\* The command port's programs send letters, digits and newlines.
UpBytes(c) == IF c = "cmd" THEN {"x"} ELSE Typed
Bytes == sent.cmd + sent.con + MapThenSumSet(LAMBDA s : sock[s[1]][s[2]].typed, Ports \X Sessions)
Type(c, k) ==
    /\ line = "up" /\ sock[c][k].peer = "open" /\ Bytes < MaxBytes
    /\ \E v \in UpBytes(c) :
         sock' = [sock EXCEPT
            ![c][k].up = Append(@, [c |-> c, k |-> k, n |-> sock[c][k].typed + 1, v |-> v, hi |-> v = "hi"]),
            ![c][k].typed = @ + 1]
    /\ UNCHANGED <<fd, accepted, told, from, lineVars>>

Take(c, k) ==
    /\ sock[c][k].peer \in {"open", "shut"} /\ sock[c][k].down # <<>>
    /\ sock' = [sock EXCEPT ![c][k].got = Append(@, Head(sock[c][k].down).n), ![c][k].down = Tail(@)]
    /\ UNCHANGED <<fd, accepted, told, from, lineVars>>

\* NETCOMMS::close ends its side and reads until the server ends the other; a
\* program may also be killed, with something left to read (which resets the
\* connection) or not.
Leave(c, k) ==
    LET peer == sock[c][k].peer
        ended == fd[c] # k /\ accepted[c] >= k
        orderly == peer = "open" \/ (ended /\ sock[c][k].down = <<>>)
        next == IF peer = "open" THEN "shut" ELSE "closed"
    IN  /\ peer \in {"open", "shut"}
        /\ \/ orderly /\ sock' = [sock EXCEPT ![c][k].peer = next]
           \/ sock' = [sock EXCEPT ![c][k].peer = IF sock[c][k].down = <<>> THEN "closed" ELSE "reset",
                                   ![c][k].down = <<>>, ![c][k].got = <<>>]
        /\ UNCHANGED <<fd, accepted, told, from, lineVars>>

DeviceSends(c) ==
    /\ line = "up" /\ Bytes < MaxBytes
    /\ \E nl \in {FALSE, c = "cmd"} : rx' = Append(rx, [c |-> c, n |-> sent[c] + 1, nl |-> nl])
    /\ sent' = [sent EXCEPT ![c] = @ + 1]
    /\ UNCHANGED <<clientVars, fd, told, tx, line, seen>>
DeviceTakes ==
    /\ line = "up" /\ tx # <<>>
    /\ LET b == Head(tx) IN
         seen' = [seen EXCEPT ![b.c] = [count |-> @.count + 1, k |-> b.k, n |-> b.n, v |-> b.v, hi |-> b.hi]]
    /\ tx' = Tail(tx)
    /\ UNCHANGED <<clientVars, fd, told, rx, line, sent>>
Unplug ==
    /\ line = "up" /\ line' = "gone"
    /\ UNCHANGED <<clientVars, fd, told, rx, tx, seen, sent>>

\* A server: what it can find out about its sockets without waiting.
Readable(c) ==
    IF fd[c] = 0
    THEN \E k \in Sessions : k = accepted[c] + 1 /\ sock[c][k].peer # "none"
    ELSE sock[c][fd[c]].up # <<>> \/ sock[c][fd[c]].peer # "open"
Accept(c) ==
    /\ accepted' = [accepted EXCEPT ![c] = @ + 1] /\ fd' = [fd EXCEPT ![c] = accepted[c] + 1]
    /\ from' = [from EXCEPT ![c] = told[c]]

\* A socket takes bytes while its program lives; the first after its end are
\* lost, and reset the connection.
TakesBytes(c) == sock[c][fd[c]].peer \in {"open", "shut"}
Refuses(c) == sock[c][fd[c]].peer \in {"reset", "dead"}
AfterSend(c, bytes) ==
    IF TakesBytes(c) THEN [sock EXCEPT ![c][fd[c]].down = @ \o bytes]
    ELSE [sock EXCEPT ![c][fd[c]].peer = "reset"]

Some(a, b) == IF a < b THEN a ELSE b

\* What a program is to have been given: all that came since it was accepted,
\* and what of it is still kept somewhere for it.
Numbers(bytes) == [i \in DOMAIN bytes |-> bytes[i].n]
Delivered(c) ==
    sock[c][fd[c]].got \o Numbers(sock[c][fd[c]].down)
UpTo(a, b) == [i \in 1 .. b - a |-> a + i]
Follows(b, a) == \/ b.k = a.k /\ b.n = a.n + 1
                 \/ b.k > a.k /\ b.n = 1
\* Only what a program at the command port sent, or a terminal with bit 7, is
\* taken for a command.
OnlyCommandsMarked ==
    \A c \in Ports : seen[c].k > 0 => (seen[c].hi <=> c = "cmd" \/ seen[c].v = "hi")

\* The board takes what is typed at each port in order, none twice and none left
\* out, and one program's after another's; and it gets all that a program has
\* typed, if programs read what they are sent, and it does not leave before.
Owed(c) ==
    /\ line = "up" /\ pc # "exit"
    /\ \E k \in 1 .. accepted[c] :
         sock[c][k].peer = "open" /\ sock[c][k].typed > IF seen[c].k = k THEN seen[c].n ELSE 0
TypedArrives ==
    /\ [][\A c \in Ports : seen'[c] = seen[c] \/ Follows(seen'[c], seen[c])]_seen
    /\ \A c \in Ports : []<>~Owed(c)
=============================================================================
