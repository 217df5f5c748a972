------------------------------ MODULE MCWbBus -------------------------------
(* WbBus on ten addresses: two words of block RAM, a register of each of the   *)
(* single and double classes, two words of flash and its configuration port,   *)
(* an address nothing answers, and the two registers of the debug port.        *)
EXTENDS WbBus

MCDecode ==
    [a \in 0 .. 9 |->
        CASE a = 0 -> <<"bkram", 0>>
          [] a = 1 -> <<"bkram", 1>>
          [] a = 2 -> <<"sio", 0>>
          [] a = 3 -> <<"dio", 1>>
          [] a = 4 -> <<"flash", 0>>
          [] a = 5 -> <<"flash", 1>>
          [] a = 6 -> <<"flashcfg", 0>>
          [] a = 7 -> <<"none", 0>>
          [] a = 8 -> <<"zipdbg", 0>>
          [] a = 9 -> <<"zipdbg", 1>>]

Read(a) == [addr |-> a, we |-> FALSE, data |-> NoWord]
Write(a, d) == [addr |-> a, we |-> TRUE, data |-> d]
MCCpuRequests == {Read(a) : a \in {0, 2, 4, 5, 7}} \cup {Write(6, "byte"), Write(6, ExitData)}

SetAddr(a, hold) == [Ex!NoCmd EXCEPT !.op = "addr", !.addr = a, !.hold = hold]
DoRead == [Ex!NoCmd EXCEPT !.op = "read"]
MCHostCommands == {SetAddr(a, TRUE) : a \in {1, 3, 7, 9}} \cup {DoRead}
=============================================================================
