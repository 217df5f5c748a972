------------------------------ MODULE ScopeRun ------------------------------
(* A scope at work: the signal and the trigger it watches, the operator who    *)
(* arms it, over and over, and the program that reads it.                      *)
(* The program is sw/host/scopecls.cpp, as sdramscope.cpp, spixscope.cpp and   *)
(* dbgscope.cpp run it: is the scope ready, if so read its buffer, and say at  *)
(* which time each word was recorded and which of them is the trigger's.  Its  *)
(* reads are requests one at a time, the vector read's too.                    *)
EXTENDS WbScopes, Integers, FiniteSets, SequencesExt
VARIABLES host_at, waiting, m_scoplen, m_holdoff, m_data
hostVars == <<host_at, waiting, m_scoplen, m_holdoff, m_data>>

HostInit == host_at = "idle" /\ waiting = FALSE /\ m_scoplen = 0 /\ m_holdoff = 0 /\ m_data = <<>>

\* The request of this clock; hbexec holds the address until the answer.
HostAddr == IF host_at = "data" THEN 1 ELSE 0
Asks == host_at \in {"ready", "data"} /\ ~waiting
HostRequest == [stb |-> Asks, we |-> FALSE, addr |-> HostAddr]

Start == host_at = "idle" /\ host_at' = "ready" /\ UNCHANGED <<waiting, m_scoplen, m_holdoff, m_data>>

\* ready(): stopped and triggered; a scope of four words or less is none.
ReadyTriggered(v) == v.triggered            \* mutant: need not have stopped
Ready(v) == v.stopped /\ v.triggered
TakesControl(v) ==
    /\ host_at = "ready"
    /\ m_scoplen' = 2 ^ v.lgmem /\ m_holdoff' = v.holdoff /\ m_data' = <<>>
    /\ host_at' = IF Ready(v) /\ 2 ^ v.lgmem > 4 THEN "data" ELSE "idle"
TakesData(v) ==
    /\ host_at = "data"
    /\ m_data' = Append(m_data, v)
    /\ host_at' = IF Len(m_data) + 1 = m_scoplen THEN "print" ELSE "data"
    /\ UNCHANGED <<m_scoplen, m_holdoff>>
HostTakes(ack, v) ==
    IF ack /\ waiting
    THEN waiting' = FALSE /\ (TakesControl(v) \/ TakesData(v))
    ELSE waiting' = (waiting \/ Asks) /\ UNCHANGED <<host_at, m_scoplen, m_holdoff, m_data>>

\* print() and writevcd() are done, and the program ends.
Printed == host_at = "print" /\ host_at' = "idle" /\ m_data' = <<>> /\ UNCHANGED <<waiting, m_scoplen, m_holdoff>>

-----------------------------------------------------------------------------
\* What they print.  The words of a compressed scope are samples, and runs that
\* say for how long there was no other.
Extra(i) == IF m_data[i].adr /\ i # 1 THEN m_data[i].val ELSE 0
SumTo(f(_), n) == FoldFunction(+, 0, [i \in 1 .. n |-> f(i)])
Extras == SumTo(Extra, m_scoplen)
getaddresslen(comp) == m_scoplen + (IF comp THEN Extras ELSE 0)
offset(comp) == getaddresslen(comp) - m_holdoff - 1

\* The time at which writevcd() and print() place the word, and the word that
\* each marks as the trigger's.
VcdStep(i) == IF ~m_data[i].adr THEN 1 ELSE IF i = 1 THEN 0 ELSE m_data[i].val + 1
VcdTime(comp, i) == IF comp THEN SumTo(VcdStep, i - 1) ELSE i - 1
VcdMarks(comp, i) ==
    IF comp THEN ~m_data[i].adr /\ VcdTime(comp, i) - getaddresslen(comp) = offset(comp)
    ELSE i - 1 = offset(comp)
PrintStep(i) == IF ~m_data[i].adr THEN 1 ELSE m_data[i].val + 1
PrintTime(comp, i) == IF comp THEN SumTo(PrintStep, i - 1) ELSE i - 1
PrintSkips(i) == i > 1 /\ m_data[i] = m_data[i - 1] /\ i < m_scoplen
PrintMarksNow(comp, i) ==                   \* mutant: before the time goes on
    IF comp THEN ~m_data[i].adr /\ PrintTime(comp, i) = offset(comp) ELSE i - 1 = offset(comp)
PrintMarks(comp, i) ==
    IF comp THEN ~m_data[i].adr /\ PrintTime(comp, i) + 1 = offset(comp)
    ELSE i - 1 = offset(comp) /\ ~PrintSkips(i)

-----------------------------------------------------------------------------
(* The run.                                                                  *)

CONSTANTS
    Window,                 \* how many samples are remembered
    MaxMoves                \* changes of the signal and writes of the operator
VARIABLES
    changes, arms,
    window,                 \* the newest samples since the reset, oldest first
    since                   \* how many of them after the trigger's; -1: none was
vars == <<compressed, triggerVars, bufferVars, readVars, wbscopeVars, wbscopcVars,
          hostVars, changes, arms, window, since>>

ASSUME ScopeRunAssumption == Window \in Nat \ {0} /\ MaxMoves \in Nat

Init ==
    /\ compressed \in BOOLEAN
    /\ ScopeBusInit /\ WbScopeInit /\ WbScopcInit /\ HostInit
    /\ data_pipe = 0 /\ qd_data = 0 /\ window = <<>> /\ since = -1 /\ changes = 0 /\ arms = 0
    /\ LET empty == IF compressed THEN NoWord ELSE 0 IN
       mem = [a \in Addresses |-> empty] /\ nxt_mem = empty /\ o_data = empty

Over == IF compressed THEN FinalStop ELSE dr_stopped
\* The signal starts at 0 and changes now and then.
Signal == changes % 2

Remember(s, trig) ==
    IF Reset THEN window' = <<>> /\ since' = -1
    ELSE IF Over THEN UNCHANGED <<window, since>>
    ELSE /\ window' = LET w == Append(window, s) IN IF Len(w) > Window THEN Tail(w) ELSE w
         /\ since' = IF dr_triggered THEN since + 1 ELSE IF Trigger(trig) THEN 0 ELSE -1

\* A clock with this request.
Clock(req) ==
    \E trig \in BOOLEAN :
        /\ IF compressed
           THEN WbScopcClock(req, trig, Signal) /\ UNCHANGED wbscopeVars
           ELSE WbScopeClock(req, trig, Signal) /\ UNCHANGED wbscopcVars
        /\ Remember(Signal, trig)
        /\ changes' \in changes .. (IF changes + arms < MaxMoves /\ ~Over THEN changes + 1 ELSE changes)

ProgramClock ==
    /\ host_at \in {"ready", "data"}
    /\ Clock(HostRequest) /\ HostTakes(acks[2], o_data) /\ UNCHANGED arms

\* What the operator may ask for: arm it anew, or trigger it by hand only.
Commands ==
    LET Write(resets, byHand, holdoffs) ==
            [stb : {TRUE}, we : {TRUE}, addr : {0}, reset : {resets},
             manual : {byHand}, disable : {byHand}, holdoff : holdoffs]
    IN  Write(TRUE, FALSE, Holdoffs) \cup Write(FALSE, TRUE, {br_holdoff})
\* The operator writes the control register, between the programs.
Arms ==
    /\ host_at = "idle" /\ changes + arms < MaxMoves /\ arms' = arms + 1
    /\ \E c \in Commands : Clock(c)
    /\ UNCHANGED hostVars
IdleClock == host_at = "idle" /\ Clock(NoRequest) /\ UNCHANGED <<hostVars, arms>>
\* A program that comes before the trigger would only say so.
Program ==
    /\ Printed \/ (dr_triggered /\ acks = <<FALSE, FALSE>> /\ Start)
    /\ UNCHANGED <<compressed, triggerVars, bufferVars, readVars, wbscopeVars, wbscopcVars,
                   changes, arms, window, since>>
Next == ProgramClock \/ Arms \/ IdleClock \/ Program
Spec == Init /\ [][Next]_vars

\* The sample t clocks after the trigger's.
At(t) == window[Len(window) - since + t]
Known(t) == Len(window) - since + t \in DOMAIN window

\* The clock of word i, of samples and of the ends of runs, counted from the
\* trigger: the last word was sampled when the holdoff had gone by, and in
\* wbscopc a clock later.
Step(i) == IF m_data[i].adr THEN m_data[i].val + 1 ELSE 1
AfterRuns(i) == SumTo(LAMBDA j : Step(i + j), m_scoplen - i)
Place(i) == IF compressed THEN m_holdoff + 1 - AfterRuns(i) ELSE m_holdoff - (m_scoplen - i)
IsSample(i) == ~compressed \/ ~m_data[i].adr
Shown(t) == LET i == Max({j \in 1 .. m_scoplen : IsSample(j) /\ Place(j) <= t})
            IN IF compressed THEN m_data[i].val ELSE m_data[i]

\* What the program has read is what the signal was, clock by clock, up to the
\* end: after any number of resets, triggers and read-outs the oldest word comes
\* first, and a run stands for one clock more than its number.
ShowsTheSignal ==
    host_at = "print" =>
        /\ ~compressed => Known(Place(1))
        /\ \A t \in Place(1) .. Place(m_scoplen) :
             Known(t) /\ (\E j \in 1 .. m_scoplen : IsSample(j) /\ Place(j) <= t) => Shown(t) = At(t)

\* Only the trigger's own sample is marked by print() and writevcd(), unless the
\* buffer starts with a run; without compression writevcd() does mark it.  (In a
\* compressed buffer it marks none.)
MarksTheTrigger ==
    host_at = "print" /\ IsSample(1) =>
        \A i \in 1 .. m_scoplen :
            /\ PrintMarks(compressed, i) \/ VcdMarks(compressed, i) => Place(i) = 0
            /\ ~compressed /\ Place(i) = 0 => VcdMarks(compressed, i)
=============================================================================
