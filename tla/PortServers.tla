----------------------------- MODULE PortServers ----------------------------
(* Both servers of the two ports, netuart for the board and the simulator's:   *)
(* one of them runs.  To the simulator, line = "gone" is its end.              *)
EXTENDS NetUart, DblUartSim
vars == <<server, pc, clientVars, lineVars, fd, told, netuartVars, dbluartVars>>

Init ==
    /\ PortsInit /\ NetUartInit /\ DblUartSimInit
    /\ pc = IF server = "netuart" THEN "poll" ELSE "tick"

Server ==
    \/ server = "netuart" /\ NetUart /\ UNCHANGED <<server, dbluartVars>>
    \/ server = "dbluartsim" /\ DblUartSim /\ UNCHANGED <<server, netuartVars>>
Ended == pc \in {"exit", "killed"}
Outside(A) == ~Ended /\ A /\ UNCHANGED <<server, pc, netuartVars, dbluartVars>>
Clients ==
    \E c \in Ports :
        \/ Outside(Connect(c)) \/ Outside(DeviceSends(c))
        \/ \E k \in Sessions :
             Outside(Type(c, k)) \/ Outside(Take(c, k)) \/ Outside(Leave(c, k))
Next == Server \/ Clients \/ Outside(DeviceTakes) \/ Outside(Unplug)

\* The server and the line go on, and the programs read what they are sent.
Fairness ==
    /\ WF_vars(Server) /\ WF_vars(Outside(DeviceTakes))
    /\ \A c \in Ports, k \in Sessions : WF_vars(Outside(Take(c, k)))
Spec == Init /\ [][Next]_vars /\ Fairness

\* A program at a port is given all that came from the board for it, in order,
\* and nothing else, by either server (netuart.cpp:160-190, dbluartsim.cpp:300-330).
GivenAll == GivenByNetUart /\ GivenByDblUartSim
=============================================================================
