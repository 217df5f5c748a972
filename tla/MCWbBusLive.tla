---------------------------- MODULE MCWbBusLive -----------------------------
(* WbBus with its clock: a clock in which no register changes is a step too,   *)
(* so that a bus on which everyone waits for everyone is a behaviour.          *)
EXTENDS MCWbBus
VARIABLE clk

ClockedInit == Init /\ clk = FALSE
ClockedNext == Next /\ clk' = ~clk

\* The clock goes on; the CPU, the host and what halts the CPU need not.
FairSpec == ClockedInit /\ [][ClockedNext]_<<vars, clk>> /\ WF_<<vars, clk>>(ClockedNext)

\* The arbiter of main.v does not starve the CPU: whatever the host does on hb,
\* the debug port included, a request of the CPU is taken in the end; and one that
\* waits for an answer of the wb bus gets one, or an error, or gives up.
CpuServed ==
    /\ zip_stb ~> ~(zip_cyc /\ zip_stb /\ ZipSees.stall)
    /\ zip_pend # <<>> ~> (~zip_cyc \/ ZipSees.ack \/ ZipSees.err)

\* A host command ends if the CPU keeps letting go of the bus between its
\* cycles: the CPU has the priority, and nothing in main.v makes it stop.  Only
\* the debug port's data register may keep the host: it waits for a halted CPU.
WaitsForHalt == DebugSelected /\ hb_addr % 2 = 1
HostServed == []<>~zip_cyc => (hb_cyc /\ ~WaitsForHalt ~> ~hb_cyc)

\* A smaller instance for liveness: the flash, which stalls, the block RAM,
\* which does not, an address nothing answers, and both debug registers.
LiveCpuRequests == {Read(a) : a \in {0, 4, 7}}
LiveHostCommands == {SetAddr(a, TRUE) : a \in {2, 8, 9}} \cup {DoRead}
=============================================================================
