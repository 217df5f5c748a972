----------------------------- MODULE ScopeProofs ----------------------------
(* Theorems about the scope without compression, at work (ScopeRun), for        *)
(* buffers and holdoffs of every size, and any number of resets, triggers and   *)
(* read-outs.                                                                   *)
EXTENDS ScopeRun, TLAPS

\* The counter of the holdoff goes past every holdoff chosen: at the largest
\* number it would be 0 again, and the scope record on (wbscope.v:268).
HoldoffsFit == \A h \in Holdoffs : h + 1 < 2 ^ HOLDOFFBITS
\* The history goes back as far as the buffer does.
WindowFits == Length < Window

\* The invariant.  How the parts are shaped.
Samples == {0, 1}
Shaped ==
    /\ compressed = FALSE /\ changes \in Nat /\ br_holdoff \in Holdoffs
    /\ waddr \in Addresses /\ mem \in [Addresses -> Samples] /\ data_pipe \in Samples
    /\ window \in Seq(Samples)
    /\ br_config \in [running : BOOLEAN, manual : BOOLEAN, disable : BOOLEAN]
    /\ dr_triggered \in BOOLEAN
    /\ dr_primed \in BOOLEAN /\ dr_stopped \in BOOLEAN
    /\ acks = <<acks[1], acks[2]>> /\ acks[1] \in BOOLEAN /\ acks[2] \in BOOLEAN
\* The buffer holds the last samples, but for the one still to be recorded.
Recorded ==
    /\ \A j \in 0 .. Length - 1 :
           Len(window) - (Length - j) >= 1 =>
               mem[Plus(waddr, j)] = window[Len(window) - (Length - j)]
    /\ Len(window) >= 1 /\ ~dr_stopped => data_pipe = window[Len(window)]
\* The trigger waits for a buffer that has been filled, and the end for the
\* holdoff.
Filled ==
    /\ ~dr_primed => Len(window) = waddr /\ ~dr_triggered
    /\ dr_primed => Len(window) >= Length
    /\ dr_triggered => Len(window) >= Length + 1
Counted ==
    /\ ~dr_triggered => since = -1 /\ counter = 0 /\ ~dr_stopped
    /\ dr_triggered /\ ~dr_stopped => since = counter /\ counter \in 0 .. br_holdoff
    /\ dr_triggered /\ dr_stopped => since = counter /\ counter = br_holdoff + 1
\* A reset is answered before a program starts to read.
ResetSeen == Reset /\ dr_triggered => acks[1]
RecordInv == Shaped /\ ResetSeen /\ (~Reset => Recorded /\ Filled /\ Counted)

\* Where the program's read of the buffer is.
Quiet == acks = <<FALSE, FALSE>>
OneAway == acks = <<TRUE, FALSE>>
Answered == acks = <<FALSE, TRUE>>
AtIdle == host_at = "idle" => raddr = 0 /\ ~waiting
AtReady ==
    host_at = "ready" =>
        /\ raddr = 0 /\ dr_triggered /\ ~Reset
        /\ \/ ~waiting /\ Quiet
           \/ waiting /\ OneAway /\ read_address = 0
           \/ /\ waiting /\ Answered
              /\ \E st \in BOOLEAN : o_data = ControlWord(st) /\ (st => dr_stopped)
HasRead(n) ==
    /\ m_data \in Seq(Samples) /\ Len(m_data) = n
    /\ \A j \in 1 .. n : m_data[j] = mem[Plus(waddr, j - 1)]
Still ==
    /\ dr_triggered /\ dr_stopped /\ ~Reset
    /\ m_scoplen = Length /\ m_holdoff = br_holdoff /\ HasRead(Len(m_data))
AtData ==
    host_at = "data" =>
        /\ Still /\ Len(m_data) < Length
        /\ \/ /\ ~waiting /\ Quiet
              /\ raddr = Len(m_data) /\ this_addr = Plus(waddr, Len(m_data))
           \/ /\ waiting /\ OneAway /\ raddr = Plus(Len(m_data), 1) /\ read_address = 1
              /\ nxt_mem = mem[Plus(waddr, Len(m_data))]
           \/ /\ waiting /\ Answered /\ raddr = Plus(Len(m_data), 1)
              /\ o_data = mem[Plus(waddr, Len(m_data))]
AtPrint ==
    host_at = "print" => Still /\ Len(m_data) = Length /\ raddr = 0 /\ ~waiting /\ Quiet
ReadInv ==
    /\ waiting \in BOOLEAN /\ host_at \in {"idle", "ready", "data", "print"}
    /\ AtIdle /\ AtReady /\ AtData /\ AtPrint
ScopeInv == ~compressed => RecordInv /\ ReadInv

\* A remainder that a sum of two addresses leaves.
LEMMA Around ==
    ASSUME NEW x \in Nat, NEW n \in Nat, n > 0
    PROVE  /\ x % n \in 0 .. n - 1
           /\ x < n => x % n = x
           /\ n <= x /\ x < n + n => x % n = x - n
  <1> DEFINE q == x \div n
  <1> DEFINE r == x % n
  <1>1. q \in Int /\ r \in 0 .. n - 1 /\ x = n * q + r
    OBVIOUS
  <1> HIDE DEF q, r
  <1>2. CASE x < n
    <2>1. ASSUME q >= 1 PROVE FALSE
      <3>1. n * q >= n
        BY <1>1, <2>1
      <3> QED
        BY <1>1, <1>2, <3>1
    <2>2. ASSUME q <= -1 PROVE FALSE
      <3>1. n * q <= -n
        BY <1>1, <2>2
      <3> QED
        BY <1>1, <1>2, <3>1
    <2>3. q = 0
      BY <1>1, <2>1, <2>2
    <2> QED
      BY <1>1, <1>2, <2>3 DEF r
  <1>3. CASE n <= x /\ x < n + n
    <2>1. ASSUME q >= 2 PROVE FALSE
      <3>1. n * q >= n + n
        BY <1>1, <2>1
      <3> QED
        BY <1>1, <1>3, <3>1
    <2>2. ASSUME q <= 0 PROVE FALSE
      <3>1. n * q <= 0
        BY <1>1, <2>2
      <3> QED
        BY <1>1, <1>3, <3>1
    <2>3. q = 1
      BY <1>1, <2>1, <2>2
    <2> QED
      BY <1>1, <1>3, <2>3 DEF r
  <1> QED
    BY <1>1, <1>2, <1>3 DEF r

\* The length of the buffer, and its addresses.
LEMMA LengthIs == Length \in Nat /\ Length >= 1 /\ Addresses = 0 .. Length - 1
  BY ScopeBusAssumption DEF Length, Addresses

\* An address that goes round the buffer.
LEMMA PlusIs ==
    ASSUME NEW d \in Addresses, NEW k \in 0 .. Length
    PROVE  /\ Plus(d, k) = IF d + k < Length THEN d + k ELSE d + k - Length
           /\ Plus(d, k) \in Addresses
  <1> DEFINE n == Length
  <1>1. n \in Nat /\ n >= 1 /\ d \in 0 .. n - 1 /\ k \in 0 .. n
    BY LengthIs
  <1>2. Plus(d, k) = (d + k) % n
    BY DEF Plus
  <1>3. Addresses = 0 .. n - 1
    BY LengthIs
  <1> HIDE DEF n
  <1>4. d + k \in Nat /\ n > 0 /\ d + k < n + n
    BY <1>1
  <1>5. (d + k) % n \in 0 .. n - 1
        /\ (d + k < n => (d + k) % n = d + k)
        /\ (n <= d + k => (d + k) % n = d + k - n)
    BY <1>1, <1>4, Around
  <1>6. Plus(d, k) = IF d + k < n THEN d + k ELSE d + k - n
    BY <1>1, <1>2, <1>5
  <1> QED
    BY <1>2, <1>3, <1>5, <1>6 DEF n

\* The address after the next word's, and that of the word written last.
LEMMA PlusNext ==
    ASSUME NEW d \in Addresses
    PROVE  /\ Plus(d, 0) = d /\ Plus(d, 1) \in Addresses
           /\ Plus(Plus(d, 1), Length - 1) = d
           /\ \A j \in 0 .. Length - 2 :
                  Plus(Plus(d, 1), j) = Plus(d, j + 1) /\ Plus(d, j + 1) # d
           /\ \A k \in 0 .. Length - 1 : Plus(d, k) \in Addresses /\ Plus(k, d) = Plus(d, k)
  <1> DEFINE n == Length
  <1>1. n \in Nat /\ n >= 1 /\ d \in 0 .. n - 1 /\ Addresses = 0 .. n - 1
    BY LengthIs
  <1>2. ASSUME NEW e \in Addresses, NEW k \in 0 .. n
        PROVE  /\ Plus(e, k) = IF e + k < n THEN e + k ELSE e + k - n
               /\ Plus(e, k) \in Addresses
    BY PlusIs
  <1> HIDE DEF n
  <1> DEFINE p == Plus(d, 1)
  <1>3. Plus(d, 0) = d
    <2>1. 0 \in 0 .. n /\ d + 0 < n /\ d + 0 = d
      BY <1>1
    <2> QED
      BY <1>2, <2>1
  <1>4. p = (IF d + 1 < n THEN d + 1 ELSE 0) /\ p \in Addresses
    <2>1. 1 \in 0 .. n /\ (~(d + 1 < n) => d + 1 - n = 0)
      BY <1>1
    <2> QED
      BY <1>2, <2>1
  <1> HIDE DEF p
  <1>5. Plus(p, n - 1) = d
    <2>1. n - 1 \in 0 .. n /\ p \in 0 .. n - 1
      BY <1>1, <1>4
    <2>2. Plus(p, n - 1) = IF p + (n - 1) < n THEN p + (n - 1) ELSE p + (n - 1) - n
      BY <1>2, <1>4, <2>1
    <2> QED
      BY <1>1, <1>4, <2>1, <2>2
  <1>6. ASSUME NEW j \in 0 .. n - 2 PROVE Plus(p, j) = Plus(d, j + 1) /\ Plus(d, j + 1) # d
    <2>1. j + 1 \in 0 .. n /\ j \in 0 .. n /\ p \in 0 .. n - 1
      BY <1>1, <1>4
    <2>2. Plus(d, j + 1) = IF d + (j + 1) < n THEN d + (j + 1) ELSE d + (j + 1) - n
      BY <1>2, <2>1
    <2>3. Plus(p, j) = IF p + j < n THEN p + j ELSE p + j - n
      BY <1>2, <1>4, <2>1
    <2> QED
      BY <1>1, <1>4, <2>1, <2>2, <2>3
  <1>7. ASSUME NEW k \in 0 .. n - 1 PROVE Plus(d, k) \in Addresses /\ Plus(k, d) = Plus(d, k)
    <2>1. k \in 0 .. n /\ k \in Addresses /\ d \in 0 .. n /\ d + k = k + d
      BY <1>1
    <2>2. Plus(d, k) \in Addresses /\ Plus(d, k) = IF d + k < n THEN d + k ELSE d + k - n
      BY <1>2, <2>1
    <2>3. Plus(k, d) = IF k + d < n THEN k + d ELSE k + d - n
      BY <1>2, <2>1
    <2>4. d + k - n = k + d - n
      BY <1>1, <2>1
    <2> QED
      BY <2>1, <2>2, <2>3, <2>4
  <1> QED
    BY <1>3, <1>4, <1>5, <1>6, <1>7 DEF n, p

\* The history after one more sample: seen from its end.
LEMMA Remembered ==
    ASSUME NEW w \in Seq(Samples), NEW s \in Samples, NEW v,
           v = LET u == Append(w, s) IN IF Len(u) > Window THEN Tail(u) ELSE u
    PROVE  /\ v \in Seq(Samples)
           /\ Len(v) = IF Len(w) + 1 > Window THEN Len(w) ELSE Len(w) + 1
           /\ Len(v) >= 1 /\ v[Len(v)] = s
           /\ \A d \in 1 .. Len(v) - 1 : v[Len(v) - d] = w[Len(w) - (d - 1)]
  <1> DEFINE u == Append(w, s)
  <1>1. u \in Seq(Samples) /\ Len(u) = Len(w) + 1 /\ Len(w) \in Nat
        /\ u[Len(w) + 1] = s /\ \A k \in 1 .. Len(w) : u[k] = w[k]
    OBVIOUS
  <1>2. v = IF Len(u) > Window THEN Tail(u) ELSE u
    OBVIOUS
  <1> HIDE DEF u
  <1>3. Window \in Nat /\ Window >= 1
    BY ScopeRunAssumption
  <1>4. CASE Len(u) > Window
    <2>1. v = Tail(u) /\ Len(u) >= 2
      BY <1>1, <1>2, <1>3, <1>4
    <2>2. v \in Seq(Samples) /\ Len(v) = Len(w) /\ \A k \in 1 .. Len(w) : v[k] = u[k + 1]
      BY <1>1, <2>1
    <2>3. Len(v) >= 1 /\ v[Len(v)] = s
      BY <1>1, <2>1, <2>2
    <2>4. ASSUME NEW d \in 1 .. Len(v) - 1 PROVE v[Len(v) - d] = w[Len(w) - (d - 1)]
      <3>1. Len(w) - d \in 1 .. Len(w) /\ (Len(w) - d) + 1 = Len(w) - (d - 1)
            /\ Len(w) - (d - 1) \in 1 .. Len(w)
        BY <1>1, <2>2
      <3> QED
        BY <1>1, <2>2, <3>1
    <2> QED
      BY <1>1, <1>3, <1>4, <2>1, <2>2, <2>3, <2>4
  <1>5. CASE ~(Len(u) > Window)
    BY <1>1, <1>2, <1>3, <1>5
  <1> QED
    BY <1>4, <1>5
\* What a clock does to the control register.
Good(req) ==
    /\ req.stb \in BOOLEAN
    /\ WritesControl(req) =>
           /\ req.holdoff \in Holdoffs /\ req.reset \in BOOLEAN
           /\ req.manual \in BOOLEAN /\ req.disable \in BOOLEAN

\* A write of the control register resets the scope, or goes on as it is.
LEMMA ConfigIs ==
    ASSUME Shaped, NEW req, Good(req), Config(req)
    PROVE  /\ br_config' \in [running : BOOLEAN, manual : BOOLEAN, disable : BOOLEAN]
           /\ br_holdoff' \in Holdoffs
           /\ ~Reset /\ ~Reset' => br_holdoff' = br_holdoff
           /\ ~Reset /\ Reset' => req.stb
           /\ ~WritesControl(req) => ~Reset' /\ br_holdoff' = br_holdoff
  <1>1. CASE WritesControl(req)
    <2>1. /\ br_config' = [running |-> Reset \/ ~req.reset, manual |-> req.manual,
                           disable |-> req.disable]
          /\ br_holdoff' = IF req.reset THEN req.holdoff ELSE br_holdoff
          /\ req.reset \in BOOLEAN /\ req.holdoff \in Holdoffs /\ req.stb
      BY <1>1 DEF Config, Shaped, Good, WritesControl
    <2>2. br_config'.running = (Reset \/ ~req.reset)
      BY <2>1
    <2>3. br_config' \in [running : BOOLEAN, manual : BOOLEAN, disable : BOOLEAN]
      BY <1>1, <2>1 DEF Reset, Shaped, Good
    <2> QED
      BY <1>1, <2>1, <2>2, <2>3 DEF Reset, Shaped
  <1>2. CASE ~WritesControl(req)
    <2>1. /\ br_config' = IF Reset THEN [br_config EXCEPT !.running = TRUE] ELSE br_config
          /\ br_holdoff' = br_holdoff
      BY <1>2 DEF Config, Shaped
    <2>2. CASE Reset
      <3>1. br_config' = [br_config EXCEPT !.running = TRUE]
        BY <2>1, <2>2
      <3>2. br_config'.running = TRUE
        BY <3>1 DEF Shaped
      <3> QED
        BY <1>2, <2>1, <2>2, <3>2 DEF Reset, Shaped
    <2>3. CASE ~Reset
      BY <1>2, <2>1, <2>3 DEF Reset, Shaped
    <2> QED
      BY <2>2, <2>3
  <1> QED
    BY <1>1, <1>2
\* A clock with a request keeps what is said of the buffer and the trigger.
LEMMA ClockRecords ==
    ASSUME HoldoffsFit, WindowFits, RecordInv, NEW req, Good(req), NEW trig \in BOOLEAN,
           NEW s \in Samples, WbScopeClock(req, trig, s), Remember(s, trig), changes' \in Nat
    PROVE  RecordInv'
  <1> DEFINE n == Length
  <1> DEFINE l == Len(window)
  <1>1. /\ Shaped /\ ResetSeen /\ compressed = FALSE /\ compressed' = FALSE
        /\ waddr \in Addresses /\ mem \in [Addresses -> Samples] /\ data_pipe \in Samples
        /\ window \in Seq(Samples) /\ br_holdoff \in Holdoffs
        /\ Reset \in BOOLEAN /\ dr_triggered \in BOOLEAN /\ dr_primed \in BOOLEAN
        /\ dr_stopped \in BOOLEAN
    BY DEF RecordInv, Shaped, WbScopeClock, Reset
  <1>2. /\ br_config' \in [running : BOOLEAN, manual : BOOLEAN, disable : BOOLEAN]
        /\ br_holdoff' \in Holdoffs
        /\ ~Reset /\ ~Reset' => br_holdoff' = br_holdoff
        /\ ~Reset /\ Reset' => req.stb
    BY <1>1, ConfigIs DEF WbScopeClock
  <1>3. /\ dr_triggered' = (~Reset /\ (dr_triggered \/ Trigger(trig)))
        /\ dr_triggered' \in BOOLEAN /\ (Trigger(trig) => dr_primed)
    BY <1>1 DEF WbScopeClock, Triggered, Trigger
  <1>4. /\ counter' = IF Reset THEN 0
                      ELSE IF dr_triggered /\ ~dr_stopped THEN (counter + 1) % 2 ^ HOLDOFFBITS
                      ELSE counter
        /\ dr_stopped' = (dr_triggered /\ ~Reset /\ counter >= br_holdoff)
        /\ dr_stopped' \in BOOLEAN /\ data_pipe' = s
    BY <1>1 DEF WbScopeClock, Stopped
  <1>5. /\ mem' = IF dr_stopped THEN mem ELSE [mem EXCEPT ![waddr] = data_pipe]
        /\ waddr' = IF Reset THEN 0 ELSE IF dr_stopped THEN waddr ELSE Plus(waddr, 1)
        /\ dr_primed' = (~Reset /\ (dr_primed \/ (~dr_stopped /\ waddr = n - 1)))
        /\ dr_primed' \in BOOLEAN
    BY <1>1 DEF WbScopeClock, RecordAt
  <1>6. /\ Reset => window' = <<>> /\ since' = -1
        /\ ~Reset /\ dr_stopped => window' = window /\ since' = since
        /\ ~Reset /\ ~dr_stopped =>
               /\ window' = LET u == Append(window, s) IN IF Len(u) > Window THEN Tail(u) ELSE u
               /\ since' = IF dr_triggered THEN since + 1 ELSE IF Trigger(trig) THEN 0 ELSE -1
    BY <1>1 DEF Remember, Over
  <1>7. n \in Nat /\ n >= 1 /\ Addresses = 0 .. n - 1 /\ Window \in Nat /\ Window >= 1 /\ n < Window
    BY LengthIs, ScopeRunAssumption DEF WindowFits
  <1>8. window' \in Seq(Samples)
    <2>1. <<>> \in Seq(Samples)
      OBVIOUS
    <2>2. CASE ~Reset /\ ~dr_stopped
      BY <1>1, <1>6, <2>2, Remembered
    <2> QED
      BY <1>1, <1>6, <2>1, <2>2
  <1>9. waddr' \in Addresses /\ mem' \in [Addresses -> Samples]
    <2>1. 0 \in Addresses
      BY <1>7
    <2> QED
      BY <1>1, <1>5, <2>1, PlusNext
  <1>10. acks' = <<req.stb, acks[1]>> /\ acks[1] \in BOOLEAN /\ req.stb \in BOOLEAN
    BY <1>1 DEF WbScopeClock, ReadOut, Shaped, Good
  <1>11. Shaped'
    <2>1. /\ acks' = <<acks'[1], acks'[2]>> /\ acks'[1] \in BOOLEAN /\ acks'[2] \in BOOLEAN
      BY <1>10
    <2> QED
      BY <1>1, <1>2, <1>3, <1>4, <1>5, <1>8, <1>9, <2>1 DEF Shaped
  <1>12. ResetSeen'
    <2> SUFFICES ASSUME Reset', dr_triggered' PROVE acks'[1]
      BY DEF ResetSeen
    <2>1. req.stb
      BY <1>2, <1>3
    <2> QED
      BY <1>10, <2>1
  <1> HIDE DEF n, l
  <1>13. CASE Reset
    <2>1. /\ window' = <<>> /\ since' = -1 /\ counter' = 0 /\ dr_triggered' = FALSE
          /\ dr_stopped' = FALSE /\ dr_primed' = FALSE /\ waddr' = 0 /\ Len(window') = 0
      BY <1>3, <1>4, <1>5, <1>6, <1>13
    <2>2. Recorded'
      <3>1. \A j \in 0 .. n - 1 : ~(Len(window') - (n - j) >= 1)
        BY <1>7, <2>1
      <3> QED
        BY <2>1, <3>1 DEF Recorded, n
    <2>3. Filled' /\ Counted'
      BY <2>1 DEF Filled, Counted
    <2> QED
      BY <1>11, <1>12, <2>2, <2>3 DEF RecordInv
  <1>14. CASE ~Reset /\ dr_stopped
    <2>1. /\ Recorded /\ Filled /\ Counted /\ mem' = mem /\ waddr' = waddr
          /\ window' = window /\ since' = since /\ counter' = counter
      BY <1>4, <1>5, <1>6, <1>14 DEF RecordInv
    <2>2. /\ dr_triggered = TRUE /\ dr_primed = TRUE /\ counter = br_holdoff + 1
          /\ since = counter /\ br_holdoff \in Nat
      <3>1. br_holdoff \in Nat
        BY <1>1, ScopeBusAssumption
      <3> QED
        BY <1>1, <1>14, <2>1, <3>1 DEF Filled, Counted
    <2>3. dr_triggered' = TRUE /\ dr_stopped' = TRUE /\ dr_primed' = TRUE
      <3>1. dr_triggered' = TRUE
        BY <1>3, <1>14, <2>2
      <3>2. counter >= br_holdoff
        BY <2>2
      <3>3. dr_stopped' = TRUE
        BY <1>4, <1>14, <2>2, <3>2
      <3>4. dr_primed' = TRUE
        BY <1>5, <1>14, <2>2
      <3> QED
        BY <3>1, <3>3, <3>4
    <2>4. Recorded' /\ Filled'
      BY <1>14, <2>1, <2>2, <2>3 DEF Recorded, Filled
    <2>5. ~Reset' => Counted'
      BY <1>2, <1>14, <2>1, <2>2, <2>3 DEF Counted
    <2> QED
      BY <1>11, <1>12, <2>4, <2>5 DEF RecordInv
  <1>15. CASE ~Reset /\ ~dr_stopped
    <2> DEFINE m_ == Len(window')
    <2>1. Recorded /\ Filled /\ Counted /\ l \in Nat
      BY <1>1, <1>15 DEF RecordInv, l
    <2>2. /\ m_ = IF l + 1 > Window THEN l ELSE l + 1
          /\ m_ >= 1 /\ window'[m_] = s
          /\ \A d \in 1 .. m_ - 1 : window'[m_ - d] = window[l - (d - 1)]
      <3> PICK v : v = window'
        OBVIOUS
      <3>1. v = LET u == Append(window, s) IN IF Len(u) > Window THEN Tail(u) ELSE u
        BY <1>6, <1>15
      <3>2. /\ Len(v) = IF Len(window) + 1 > Window THEN Len(window) ELSE Len(window) + 1
            /\ Len(v) >= 1 /\ v[Len(v)] = s
            /\ \A d \in 1 .. Len(v) - 1 : v[Len(v) - d] = window[Len(window) - (d - 1)]
        BY <1>1, <3>1, Remembered
      <3> QED
        BY <3>2 DEF l
    <2>3. m_ \in Nat
      BY <1>8
    <2>4. mem' = [mem EXCEPT ![waddr] = data_pipe] /\ waddr' = Plus(waddr, 1)
      BY <1>5, <1>15
    <2> HIDE DEF m_
    <2>5. Recorded'
      <3>1. ASSUME NEW j \in 0 .. n - 1, m_ - (n - j) >= 1
            PROVE  mem'[Plus(waddr', j)] = window'[m_ - (n - j)]
        <4>1. window'[m_ - (n - j)] = window[l - ((n - j) - 1)] /\ l - ((n - j) - 1) >= 1
          <5> DEFINE d == n - j
          <5>1. d \in 1 .. m_ - 1 /\ m_ <= l + 1
            BY <1>7, <2>1, <2>2, <2>3, <3>1
          <5> HIDE DEF d
          <5>2. window'[m_ - d] = window[l - (d - 1)]
            BY <2>2, <5>1
          <5>3. l - (d - 1) >= 1
            BY <2>1, <2>3, <5>1
          <5> QED
            BY <5>2, <5>3 DEF d
        <4>2. CASE j = n - 1
          <5>1. Plus(waddr', j) = waddr
            BY <1>1, <2>4, <4>2, PlusNext DEF n
          <5>2. mem'[waddr] = data_pipe
            BY <1>1, <2>4
          <5>3. l - ((n - j) - 1) = l
            BY <1>7, <2>1, <4>2
          <5>4. data_pipe = window[l]
            BY <1>15, <2>1, <4>1, <5>3 DEF Recorded, l
          <5> QED
            BY <4>1, <5>1, <5>2, <5>3, <5>4
        <4>3. CASE j # n - 1
          <5>1. j \in 0 .. n - 2 /\ j + 1 \in 0 .. n - 1
            BY <1>7, <4>3
          <5>2. Plus(waddr', j) = Plus(waddr, j + 1) /\ Plus(waddr, j + 1) # waddr
                /\ Plus(waddr, j + 1) \in Addresses
            BY <1>1, <2>4, <5>1, PlusNext DEF n
          <5>3. mem'[Plus(waddr, j + 1)] = mem[Plus(waddr, j + 1)]
            BY <1>1, <2>4, <5>2
          <5>4. l - (n - (j + 1)) = l - ((n - j) - 1)
            BY <1>7, <2>1, <5>1
          <5>5. mem[Plus(waddr, j + 1)] = window[l - (n - (j + 1))]
            BY <2>1, <4>1, <5>1, <5>4 DEF Recorded, l, n
          <5> QED
            BY <4>1, <5>2, <5>3, <5>4, <5>5
        <4> QED
          BY <4>2, <4>3
      <3>2. data_pipe' = window'[m_]
        BY <1>4, <2>2
      <3> QED
        BY <3>1, <3>2 DEF Recorded, n, m_
    <2>6. m_ >= l \/ m_ >= n + 1
      BY <1>7, <2>1, <2>2, <2>3
    <2>7. Filled'
      <3>1. ASSUME ~dr_primed' PROVE m_ = waddr' /\ ~dr_triggered'
        <4>1. ~dr_primed /\ waddr # n - 1 /\ l = waddr /\ ~dr_triggered
          BY <1>5, <1>15, <2>1, <3>1 DEF Filled, l
        <4>2. waddr \in 0 .. n - 1
          BY <1>1, <1>7
        <4>3. waddr + 1 < n /\ 1 \in 0 .. n
          BY <1>7, <4>1, <4>2
        <4>4. Plus(waddr, 1) = waddr + 1
          BY <1>1, <4>3, PlusIs DEF n
        <4>5. m_ = l + 1
          BY <1>7, <2>2, <4>1, <4>2, <4>3
        <4> QED
          BY <1>3, <2>4, <4>1, <4>4, <4>5
      <3>2. ASSUME dr_primed' PROVE m_ >= n
        <4>1. CASE dr_primed
          <5>1. l >= n
            BY <2>1, <4>1 DEF Filled, l, n
          <5> QED
            BY <1>7, <2>1, <2>3, <2>6, <5>1
        <4>2. CASE ~dr_primed
          <5>1. waddr = n - 1 /\ l = waddr
            BY <1>5, <2>1, <3>2, <4>2 DEF Filled, l
          <5> QED
            BY <1>7, <2>1, <2>2, <5>1
        <4> QED
          BY <1>1, <4>1, <4>2
      <3>3. ASSUME dr_triggered' PROVE m_ >= n + 1
        <4>1. dr_primed
          BY <1>1, <1>3, <2>1, <3>3 DEF Filled
        <4>2. l >= n
          BY <2>1, <4>1 DEF Filled, l, n
        <4> QED
          BY <1>7, <2>1, <2>2, <4>2
      <3> QED
        BY <3>1, <3>2, <3>3 DEF Filled, n, m_
    <2>8. ~Reset' => Counted'
      <3> SUFFICES ASSUME ~Reset' PROVE Counted'
        OBVIOUS
      <3>1. br_holdoff' = br_holdoff /\ br_holdoff \in Nat
            /\ br_holdoff + 1 < 2 ^ HOLDOFFBITS
        BY <1>1, <1>2, <1>15, ScopeBusAssumption DEF HoldoffsFit
      <3>2. CASE ~dr_triggered
        <4>1. /\ counter = 0 /\ counter' = 0 /\ dr_stopped' = FALSE
              /\ since' = IF Trigger(trig) THEN 0 ELSE -1
          <5>1. counter = 0
            BY <2>1, <3>2 DEF Counted
          <5>2. counter' = 0 /\ dr_stopped' = FALSE
            BY <1>4, <1>15, <3>2, <5>1
          <5>3. since' = IF Trigger(trig) THEN 0 ELSE -1
            BY <1>6, <1>15, <3>2
          <5> QED
            BY <5>1, <5>2, <5>3
        <4>2. dr_triggered' <=> Trigger(trig)
          BY <1>3, <1>15, <3>2
        <4> QED
          BY <1>3, <3>1, <4>1, <4>2 DEF Counted
      <3>3. CASE dr_triggered
        <4> DEFINE e == 2 ^ HOLDOFFBITS
        <4>1. since = counter /\ counter \in 0 .. br_holdoff
          BY <1>15, <2>1, <3>3 DEF Counted
        <4>2. /\ since' = since + 1 /\ dr_triggered' = TRUE
              /\ counter' = (counter + 1) % e
              /\ dr_stopped' = (counter >= br_holdoff)
          <5>1. since' = since + 1
            BY <1>6, <1>15, <3>3
          <5>2. dr_triggered' = TRUE
            BY <1>3, <1>15, <3>3
          <5>3. counter' = (counter + 1) % e
            BY <1>4, <1>15, <3>3
          <5>4. dr_stopped' = (counter >= br_holdoff)
            BY <1>4, <1>15, <3>3
          <5> QED
            BY <5>1, <5>2, <5>3, <5>4
        <4>3. e \in Nat /\ e > 0 /\ br_holdoff + 1 < e
          BY <3>1, ScopeBusAssumption
        <4> HIDE DEF e
        <4>4. counter + 1 \in Nat /\ counter + 1 < e
          BY <3>1, <4>1, <4>3
        <4>5. counter' = counter + 1
          BY <4>2, <4>3, <4>4, Around
        <4>6. CASE counter >= br_holdoff
          <5>1. dr_stopped' = TRUE /\ dr_triggered' = TRUE
            BY <4>2, <4>6
          <5>2. counter = br_holdoff /\ since' = counter' /\ counter' = br_holdoff' + 1
            BY <3>1, <4>1, <4>2, <4>5, <4>6
          <5> QED
            BY <5>1, <5>2 DEF Counted
        <4>7. CASE ~(counter >= br_holdoff)
          <5>1. ~dr_stopped' /\ dr_triggered' = TRUE
            BY <4>2, <4>7
          <5>2. since' = counter' /\ counter' \in 0 .. br_holdoff'
            BY <3>1, <4>1, <4>2, <4>5, <4>7
          <5> QED
            BY <5>1, <5>2 DEF Counted
        <4> QED
          BY <4>6, <4>7
      <3> QED
        BY <1>1, <3>2, <3>3
    <2> QED
      BY <1>11, <1>12, <2>5, <2>7, <2>8 DEF RecordInv
  <1> QED
    BY <1>1, <1>13, <1>14, <1>15
\* What a clock does to the read-out.
LEMMA ClockReads ==
    ASSUME Shaped, NEW req, NEW trig, NEW s, WbScopeClock(req, trig, s)
    PROVE  /\ compressed' = FALSE
           /\ raddr' = IF Reset \/ (req.stb /\ req.we /\ req.addr = 0) THEN 0
                       ELSE IF ReadsData(req) /\ dr_stopped THEN Plus(raddr, 1) ELSE raddr
           /\ this_addr' = Plus(raddr, waddr + (IF ReadsData(req) THEN 1 ELSE 0))
           /\ nxt_mem' = mem[this_addr] /\ read_address' = req.addr
           /\ acks' = <<req.stb, acks[1]>>
           /\ o_data' = IF read_address = 0 THEN ControlWord(dr_stopped)
                        ELSE IF dr_stopped THEN nxt_mem ELSE s
  <1>1. compressed = FALSE /\ compressed' = compressed /\ ReadOut(req, dr_stopped, s)
    BY DEF Shaped, WbScopeClock
  <1>2. Rewinds(req) <=> (req.stb /\ req.we /\ req.addr = 0)
    BY <1>1 DEF Rewinds
  <1>3. raddr' = IF Reset \/ Rewinds(req) THEN 0
                 ELSE IF ReadsData(req) /\ dr_stopped THEN Plus(raddr, 1) ELSE raddr
    BY <1>1 DEF ReadOut
  <1>4. this_addr' = Plus(raddr, waddr + (IF ReadsData(req) THEN 1 ELSE 0))
    BY <1>1 DEF ReadOut, NextAddress
  <1>5. nxt_mem' = mem[this_addr] /\ read_address' = req.addr /\ acks' = <<req.stb, acks[1]>>
    BY <1>1 DEF ReadOut
  <1>6. o_data' = IF read_address = 0 THEN ControlWord(dr_stopped)
                  ELSE IF dr_stopped THEN nxt_mem ELSE s
    BY <1>1 DEF ReadOut
  <1> QED
    BY <1>1, <1>2, <1>3, <1>4, <1>5, <1>6

\* A scope that has been triggered stays so while it is read, and one that has
\* stopped keeps its buffer.
LEMMA StaysStopped ==
    ASSUME RecordInv, ~Reset, dr_triggered, NEW req, Good(req), ~WritesControl(req),
           NEW trig, NEW s, WbScopeClock(req, trig, s)
    PROVE  /\ ~Reset' /\ br_holdoff' = br_holdoff /\ dr_triggered'
           /\ dr_stopped => dr_stopped' /\ mem' = mem /\ waddr' = waddr
  <1>1. Shaped /\ Counted
    BY DEF RecordInv
  <1>2. ~Reset' /\ br_holdoff' = br_holdoff
    BY <1>1, ConfigIs DEF WbScopeClock
  <1>3. dr_triggered'
    BY <1>1 DEF WbScopeClock, Triggered
  <1>4. ASSUME dr_stopped PROVE dr_stopped' /\ mem' = mem /\ waddr' = waddr
    <2>1. counter = br_holdoff + 1 /\ br_holdoff \in Nat
      <3>1. br_holdoff \in Nat
        BY <1>1, ScopeBusAssumption DEF Shaped
      <3> QED
        BY <1>1, <1>4, <3>1 DEF Counted
    <2>2. counter >= br_holdoff
      BY <2>1
    <2>3. dr_stopped'
      BY <2>2 DEF WbScopeClock, Stopped
    <2>4. mem' = mem /\ waddr' = waddr
      BY <1>1, <1>4 DEF WbScopeClock, RecordAt, Shaped
    <2> QED
      BY <2>3, <2>4
  <1> QED
    BY <1>2, <1>3, <1>4

\* No program reads: the read-out stays at the start of the buffer.
LEMMA IdleReads ==
    ASSUME Shaped, ReadInv, host_at = "idle", UNCHANGED hostVars, NEW req, req.stb => req.addr = 0,
           NEW trig, NEW s, WbScopeClock(req, trig, s)
    PROVE  ReadInv'
  <1>1. raddr = 0 /\ ~waiting /\ waiting \in BOOLEAN /\ waiting' = waiting /\ host_at' = "idle"
    BY DEF ReadInv, AtIdle, hostVars
  <1>2. raddr' = IF Reset \/ (req.stb /\ req.we /\ req.addr = 0) THEN 0
                 ELSE IF ReadsData(req) /\ dr_stopped THEN Plus(raddr, 1) ELSE raddr
    BY ClockReads
  <1>3. ~ReadsData(req)
    BY DEF ReadsData
  <1>4. raddr' = 0
    BY <1>1, <1>2, <1>3
  <1> QED
    BY <1>1, <1>4 DEF ReadInv, AtIdle, AtReady, AtData, AtPrint

\* A clock of a program that asks for the control register.
LEMMA ReadyReads ==
    ASSUME RecordInv, ReadInv, host_at = "ready", NEW req, req = HostRequest, Good(req),
           ~WritesControl(req), NEW trig, NEW s, WbScopeClock(req, trig, s),
           HostTakes(acks[2], o_data)
    PROVE  ReadInv'
  <1>1. Shaped /\ raddr = 0 /\ dr_triggered /\ ~Reset /\ waiting \in BOOLEAN
    BY DEF RecordInv, ReadInv, AtReady
  <1>2. /\ ~Reset' /\ br_holdoff' = br_holdoff /\ dr_triggered'
        /\ dr_stopped => dr_stopped' /\ mem' = mem /\ waddr' = waddr
    BY <1>1, StaysStopped
  <1>3. /\ req.stb = (~waiting) /\ req.addr = 0 /\ req.we = FALSE
    BY <1>1 DEF HostRequest, Asks, HostAddr
  <1>4. ~ReadsData(req)
    BY <1>3 DEF ReadsData
  <1>5. raddr' = 0 /\ read_address' = 0 /\ acks' = <<~waiting, acks[1]>>
        /\ this_addr' = Plus(0, waddr + 0)
        /\ (read_address = 0 => o_data' = ControlWord(dr_stopped))
    BY <1>1, <1>3, <1>4, ClockReads
  <1>6. CASE ~waiting /\ Quiet
    <2>1. acks[1] = FALSE /\ acks[2] = FALSE
      BY <1>6 DEF Quiet
    <2>2. waiting' = TRUE /\ host_at' = "ready" /\ acks' = <<TRUE, FALSE>>
      BY <1>3, <1>5, <1>6, <2>1 DEF HostTakes, Asks
    <2>3. OneAway'
      BY <2>2 DEF OneAway
    <2> QED
      BY <1>2, <1>5, <2>2, <2>3 DEF ReadInv, AtIdle, AtReady, AtData, AtPrint
  <1>7. CASE waiting /\ OneAway /\ read_address = 0
    <2>1. acks[1] = TRUE /\ acks[2] = FALSE
      BY <1>7 DEF OneAway
    <2>2. waiting' = TRUE /\ host_at' = "ready" /\ acks' = <<FALSE, TRUE>>
      BY <1>1, <1>5, <1>7, <2>1 DEF HostTakes, Asks
    <2>3. Answered'
      BY <2>2 DEF Answered
    <2>4. PICK st \in BOOLEAN : st = dr_stopped
      BY <1>1 DEF Shaped
    <2>5. o_data' = ControlWord(st)
      BY <1>5, <1>7, <2>4
    <2>6. ControlWord(st)' = ControlWord(st)
      BY <1>1, <1>2 DEF ControlWord, Shaped, Reset
    <2>7. \E t \in BOOLEAN : o_data' = ControlWord(t)' /\ (t => dr_stopped')
      BY <1>2, <2>4, <2>5, <2>6
    <2>8. AtReady'
      BY <1>2, <1>5, <2>2, <2>3, <2>7 DEF AtReady
    <2> QED
      BY <2>2, <2>8 DEF ReadInv, AtIdle, AtData, AtPrint
  <1>8. CASE waiting /\ Answered /\ \E st \in BOOLEAN : o_data = ControlWord(st) /\ (st => dr_stopped)
    <2>1. acks[1] = FALSE /\ acks[2] = TRUE
      BY <1>8 DEF Answered
    <2>2. PICK st \in BOOLEAN : o_data = ControlWord(st) /\ (st => dr_stopped)
      BY <1>8
    <2>3. waiting' = FALSE /\ TakesControl(o_data) /\ acks' = <<FALSE, FALSE>>
      BY <1>1, <1>5, <1>8, <2>1 DEF HostTakes, TakesData
    <2>4. /\ m_scoplen' = Length /\ m_holdoff' = br_holdoff /\ m_data' = <<>>
          /\ host_at' \in {"idle", "data"} /\ (host_at' = "data" => dr_stopped)
      BY <2>2, <2>3 DEF TakesControl, ControlWord, Length, Ready
    <2>5. Quiet'
      BY <2>3 DEF Quiet
    <2>6. CASE host_at' = "idle"
      BY <1>5, <2>3, <2>6 DEF ReadInv, AtIdle, AtReady, AtData, AtPrint
    <2>7. CASE host_at' = "data"
      <3>1. dr_stopped /\ dr_stopped' /\ waddr' = waddr /\ waddr \in Addresses
        BY <1>1, <1>2, <2>4, <2>7 DEF Shaped
      <3>2. Len(m_data') = 0 /\ m_data' \in Seq(Samples) /\ 0 < Length
        BY <2>4, LengthIs
      <3>3. HasRead(Len(m_data))'
        BY <3>2 DEF HasRead
      <3>4. Still'
        BY <1>2, <2>4, <3>1, <3>3 DEF Still
      <3>5. this_addr' = Plus(waddr', 0)
        <4>1. waddr \in 0 .. Length - 1 /\ 0 \in Addresses /\ 0 \in 0 .. Length - 1
          BY <3>1, LengthIs
        <4>2. waddr + 0 = waddr
          BY <4>1, LengthIs
        <4>3. Plus(0, waddr) = Plus(waddr, 0)
          BY <3>1, <4>1, PlusNext
        <4> QED
          BY <1>5, <3>1, <4>2, <4>3
      <3>6. AtData'
        BY <1>5, <2>3, <2>5, <3>2, <3>4, <3>5 DEF AtData
      <3> QED
        BY <2>3, <2>7, <3>6 DEF ReadInv, AtIdle, AtReady, AtPrint
    <2> QED
      BY <2>4, <2>6, <2>7
  <1> QED
    BY <1>6, <1>7, <1>8 DEF ReadInv, AtReady
\* A clock of a program that asks for the words of the buffer.
LEMMA DataReads ==
    ASSUME RecordInv, ReadInv, host_at = "data", NEW req, req = HostRequest, Good(req),
           ~WritesControl(req), NEW trig, NEW s, WbScopeClock(req, trig, s),
           HostTakes(acks[2], o_data)
    PROVE  ReadInv'
  <1> DEFINE c == Len(m_data)
  <1>1. /\ Shaped /\ Still /\ dr_triggered /\ dr_stopped /\ ~Reset /\ c < Length
        /\ m_scoplen = Length /\ m_holdoff = br_holdoff /\ HasRead(c)
        /\ m_data \in Seq(Samples) /\ waiting \in BOOLEAN
    BY DEF RecordInv, ReadInv, AtData, Still, HasRead
  <1>2. /\ ~Reset' /\ br_holdoff' = br_holdoff /\ dr_triggered' /\ dr_stopped'
        /\ mem' = mem /\ waddr' = waddr
    BY <1>1, StaysStopped
  <1>3. /\ req.stb = (~waiting) /\ req.addr = 1 /\ req.we = FALSE
    BY <1>1 DEF HostRequest, Asks, HostAddr
  <1>4. ReadsData(req) <=> ~waiting
    BY <1>3 DEF ReadsData
  <1>5. /\ raddr' = IF ~waiting THEN Plus(raddr, 1) ELSE raddr
        /\ read_address' = 1 /\ acks' = <<~waiting, acks[1]>> /\ nxt_mem' = mem[this_addr]
        /\ (waiting => this_addr' = Plus(raddr, waddr + 0))
        /\ (read_address = 1 => o_data' = nxt_mem)
    <2>1. /\ raddr' = IF Reset \/ (req.stb /\ req.we /\ req.addr = 0) THEN 0
                      ELSE IF ReadsData(req) /\ dr_stopped THEN Plus(raddr, 1) ELSE raddr
          /\ this_addr' = Plus(raddr, waddr + (IF ReadsData(req) THEN 1 ELSE 0))
          /\ nxt_mem' = mem[this_addr] /\ read_address' = req.addr
          /\ acks' = <<req.stb, acks[1]>>
          /\ o_data' = IF read_address = 0 THEN ControlWord(dr_stopped)
                       ELSE IF dr_stopped THEN nxt_mem ELSE s
      BY <1>1, ClockReads
    <2>2. raddr' = IF ~waiting THEN Plus(raddr, 1) ELSE raddr
      BY <1>1, <1>3, <1>4, <2>1
    <2>3. read_address' = 1 /\ acks' = <<~waiting, acks[1]>> /\ nxt_mem' = mem[this_addr]
      BY <1>3, <2>1
    <2>4. waiting => this_addr' = Plus(raddr, waddr + 0)
      BY <1>4, <2>1
    <2>5. read_address = 1 => o_data' = nxt_mem
      BY <1>1, <2>1
    <2> QED
      BY <2>2, <2>3, <2>4, <2>5
  <1>6. /\ Length \in Nat /\ Length >= 1 /\ Addresses = 0 .. Length - 1 /\ c \in Nat
        /\ c \in Addresses /\ waddr \in Addresses
    <2>1. c \in Nat
      BY <1>1
    <2> HIDE DEF c
    <2>2. c \in 0 .. Length - 1
      BY <1>1, <2>1, LengthIs
    <2> QED
      BY <1>1, <2>1, <2>2, LengthIs DEF Shaped
  <1> HIDE DEF c
  <1>7. CASE ~waiting /\ Quiet /\ raddr = c /\ this_addr = Plus(waddr, c)
    <2>1. acks[1] = FALSE /\ acks[2] = FALSE
      BY <1>7 DEF Quiet
    <2>2. /\ waiting' = TRUE /\ host_at' = "data" /\ acks' = <<TRUE, FALSE>>
          /\ UNCHANGED <<m_scoplen, m_holdoff, m_data>>
      BY <1>5, <1>7, <2>1 DEF HostTakes, Asks
    <2>3. OneAway' /\ raddr' = Plus(c, 1) /\ nxt_mem' = mem[Plus(waddr, c)]
      BY <1>5, <1>7, <2>2 DEF OneAway
    <2>4. Still'
      BY <1>1, <1>2, <2>2 DEF Still, HasRead, c
    <2>5. AtData'
      BY <1>1, <1>2, <1>5, <2>2, <2>3, <2>4 DEF AtData, c
    <2> QED
      BY <2>2, <2>5 DEF ReadInv, AtIdle, AtReady, AtPrint
  <1>8. CASE waiting /\ OneAway /\ raddr = Plus(c, 1) /\ read_address = 1
             /\ nxt_mem = mem[Plus(waddr, c)]
    <2>1. acks[1] = TRUE /\ acks[2] = FALSE
      BY <1>8 DEF OneAway
    <2>2. /\ waiting' = TRUE /\ host_at' = "data" /\ acks' = <<FALSE, TRUE>>
          /\ UNCHANGED <<m_scoplen, m_holdoff, m_data>>
      BY <1>5, <1>8, <2>1 DEF HostTakes, Asks
    <2>3. Answered' /\ raddr' = Plus(c, 1) /\ o_data' = mem[Plus(waddr, c)]
      BY <1>5, <1>8, <2>2 DEF Answered
    <2>4. Still'
      BY <1>1, <1>2, <2>2 DEF Still, HasRead, c
    <2>5. AtData'
      BY <1>1, <1>2, <1>5, <2>2, <2>3, <2>4 DEF AtData, c
    <2> QED
      BY <2>2, <2>5 DEF ReadInv, AtIdle, AtReady, AtPrint
  <1>9. CASE waiting /\ Answered /\ raddr = Plus(c, 1) /\ o_data = mem[Plus(waddr, c)]
    <2>1. acks[1] = FALSE /\ acks[2] = TRUE
      BY <1>9 DEF Answered
    <2>2. waiting' = FALSE /\ TakesData(o_data) /\ acks' = <<FALSE, FALSE>>
      BY <1>1, <1>5, <1>9, <2>1 DEF HostTakes, TakesControl
    <2>3. /\ m_data' = Append(m_data, o_data) /\ UNCHANGED <<m_scoplen, m_holdoff>>
          /\ host_at' = IF c + 1 = Length THEN "print" ELSE "data"
      BY <1>1, <2>2 DEF TakesData, c
    <2>4. o_data \in Samples
      <3>1. Plus(waddr, c) \in Addresses
        BY <1>6, PlusNext
      <3> QED
        BY <1>1, <1>9, <3>1 DEF Shaped
    <2>5. /\ m_data' \in Seq(Samples) /\ Len(m_data') = c + 1 /\ m_data'[c + 1] = o_data
          /\ \A j \in 1 .. c : m_data'[j] = m_data[j]
      BY <1>1, <2>3, <2>4 DEF c
    <2>6. \A j \in 1 .. c + 1 : m_data'[j] = mem[Plus(waddr, j - 1)]
      <3> SUFFICES ASSUME NEW j \in 1 .. c + 1 PROVE m_data'[j] = mem[Plus(waddr, j - 1)]
        OBVIOUS
      <3>1. CASE j = c + 1
        <4>1. j - 1 = c
          BY <1>6, <3>1
        <4> QED
          BY <1>9, <2>5, <3>1, <4>1
      <3>2. CASE j # c + 1
        <4>1. j \in 1 .. c
          BY <1>6, <3>2
        <4> QED
          BY <1>1, <2>5, <4>1 DEF HasRead
      <3> QED
        BY <3>1, <3>2
    <2>7. HasRead(Len(m_data))'
      BY <1>2, <2>5, <2>6 DEF HasRead
    <2>8. Still' /\ Quiet'
      BY <1>1, <1>2, <2>2, <2>3, <2>7 DEF Still, Quiet
    <2>9. raddr' = Plus(c, 1) /\ this_addr' = Plus(raddr, waddr + 0)
      BY <1>5, <1>9
    <2>10. CASE c + 1 = Length
      <3>1. Plus(c, 1) = 0
        <4>1. 1 \in 0 .. Length /\ ~(c + 1 < Length) /\ c + 1 - Length = 0
          BY <1>6, <2>10
        <4> QED
          BY <1>6, <4>1, PlusIs
      <3> QED
        BY <2>2, <2>3, <2>5, <2>8, <2>9, <2>10, <3>1
        DEF ReadInv, AtIdle, AtReady, AtData, AtPrint
    <2>11. CASE c + 1 # Length
      <3>1. c + 1 < Length /\ c + 1 \in Addresses /\ c + 1 \in 0 .. Length - 1 /\ waddr + 0 = waddr
            /\ waddr \in 0 .. Length - 1
        BY <1>1, <1>6, <2>11
      <3>2. Plus(c, 1) = c + 1
        <4>1. 1 \in 0 .. Length
          BY <1>6
        <4> QED
          BY <1>6, <3>1, <4>1, PlusIs
      <3>3. this_addr' = Plus(waddr, c + 1)
        <4>1. Plus(c + 1, waddr) = Plus(waddr, c + 1)
          BY <1>6, <3>1, PlusNext
        <4> QED
          BY <1>9, <2>9, <3>1, <3>2, <4>1
      <3>4. AtData'
        BY <1>2, <2>2, <2>3, <2>5, <2>8, <2>9, <3>1, <3>2, <3>3 DEF AtData
      <3> QED
        BY <2>2, <2>3, <2>11, <3>4 DEF ReadInv, AtIdle, AtReady, AtPrint
    <2> QED
      BY <2>10, <2>11
  <1> QED
    BY <1>7, <1>8, <1>9 DEF ReadInv, AtData, c

\* A program starts, or has printed, and the scope is as it was.
LEMMA ProgramReads ==
    ASSUME ScopeInv, ~compressed, Program
    PROVE  ScopeInv'
  <1>1. RecordInv /\ ReadInv
    BY DEF ScopeInv
  <1>2. /\ compressed' = compressed /\ changes' = changes /\ br_holdoff' = br_holdoff
        /\ br_config' = br_config /\ dr_triggered' = dr_triggered /\ dr_primed' = dr_primed
        /\ waddr' = waddr /\ mem' = mem /\ data_pipe' = data_pipe /\ dr_stopped' = dr_stopped
        /\ counter' = counter /\ window' = window /\ since' = since /\ acks' = acks
        /\ raddr' = raddr
    BY DEF Program, triggerVars, bufferVars, readVars, wbscopeVars
  <1>3. RecordInv'
    BY <1>1, <1>2 DEF RecordInv, Shaped, ResetSeen, Recorded, Filled, Counted, Reset
  <1>4. CASE Printed
    <2>1. host_at = "print" /\ host_at' = "idle" /\ waiting' = waiting
      BY <1>4 DEF Printed
    <2>2. raddr' = 0 /\ ~waiting'
      BY <1>1, <1>2, <2>1 DEF ReadInv, AtPrint
    <2> QED
      BY <1>1, <1>3, <2>1, <2>2 DEF ScopeInv, ReadInv, AtIdle, AtReady, AtData, AtPrint
  <1>5. CASE dr_triggered /\ acks = <<FALSE, FALSE>> /\ Start
    <2>1. host_at = "idle" /\ host_at' = "ready" /\ waiting' = waiting
      BY <1>5 DEF Start
    <2>2. raddr' = 0 /\ ~waiting'
      BY <1>1, <1>2, <2>1 DEF ReadInv, AtIdle
    <2>3. Quiet' /\ dr_triggered'
      BY <1>2, <1>5 DEF Quiet
    <2>4. acks[1] = FALSE
      BY <1>5
    <2>5. ~Reset'
      BY <1>1, <1>2, <1>5, <2>4 DEF RecordInv, ResetSeen, Reset
    <2> QED
      BY <1>1, <1>3, <2>1, <2>2, <2>3, <2>5
      DEF ScopeInv, ReadInv, AtIdle, AtReady, AtData, AtPrint
  <1> QED
    BY <1>4, <1>5 DEF Program

\* The signal, and what a clock with a request does.
LEMMA SignalIs ==
    ASSUME changes \in Nat
    PROVE  Signal \in Samples
  <1>1. changes % 2 \in 0 .. 1
    OBVIOUS
  <1> QED
    BY <1>1 DEF Signal, Samples

LEMMA ClockIs ==
    ASSUME RecordInv, NEW req, Clock(req)
    PROVE  \E trig \in BOOLEAN, s \in Samples :
               WbScopeClock(req, trig, s) /\ Remember(s, trig) /\ changes' \in Nat
  <1>1. compressed = FALSE /\ changes \in Nat
    BY DEF RecordInv, Shaped
  <1>2. PICK trig \in BOOLEAN :
            /\ WbScopeClock(req, trig, Signal) /\ Remember(Signal, trig)
            /\ changes' \in changes .. (IF changes + arms < MaxMoves /\ ~Over
                                        THEN changes + 1 ELSE changes)
    BY <1>1 DEF Clock
  <1>3. PICK top : top = (IF changes + arms < MaxMoves /\ ~Over THEN changes + 1 ELSE changes)
    OBVIOUS
  <1>4. top \in Nat /\ changes' \in changes .. top
    BY <1>1, <1>2, <1>3
  <1>5. changes' \in Nat
    BY <1>1, <1>4
  <1> QED
    BY <1>1, <1>2, <1>5, SignalIs

\* The requests are good ones.
LEMMA RequestsAreGood ==
    ASSUME br_holdoff \in Holdoffs, waiting \in BOOLEAN
    PROVE  /\ Good(NoRequest) /\ (NoRequest.stb => NoRequest.addr = 0)
           /\ \A c \in Commands : Good(c) /\ (c.stb => c.addr = 0)
           /\ Good(HostRequest) /\ ~WritesControl(HostRequest)
  <1>1. Good(NoRequest) /\ (NoRequest.stb => NoRequest.addr = 0)
    BY DEF Good, NoRequest, WritesControl
  <1>2. ASSUME NEW c \in Commands PROVE Good(c) /\ (c.stb => c.addr = 0)
    BY <1>2 DEF Commands, Good, WritesControl
  <1>3. HostRequest.stb \in BOOLEAN /\ HostRequest.we = FALSE
    BY DEF HostRequest, Asks
  <1>4. ~WritesControl(HostRequest)
    BY <1>3 DEF WritesControl
  <1> QED
    BY <1>1, <1>2, <1>3, <1>4 DEF Good

\* Every step keeps the invariant.
LEMMA StepKeeps ==
    ASSUME HoldoffsFit, WindowFits, ScopeInv, [Next]_vars
    PROVE  ScopeInv'
  <1>1. compressed' = compressed
    BY DEF Next, vars, ProgramClock, Arms, IdleClock, Program, Clock, WbScopeClock, WbScopcClock
  <1>2. CASE compressed
    BY <1>1, <1>2 DEF ScopeInv
  <1>3. CASE ~compressed
    <2>1. RecordInv /\ ReadInv /\ Shaped /\ br_holdoff \in Holdoffs /\ waiting \in BOOLEAN
      BY <1>3 DEF ScopeInv, RecordInv, ReadInv, Shaped
    <2>2. ASSUME NEW req, Good(req), Clock(req)
          PROVE  /\ RecordInv'
                 /\ \E trig \in BOOLEAN, s \in Samples : WbScopeClock(req, trig, s)
      <3>1. PICK trig \in BOOLEAN, s \in Samples :
                WbScopeClock(req, trig, s) /\ Remember(s, trig) /\ changes' \in Nat
        BY <2>1, <2>2, ClockIs
      <3>2. RecordInv'
        BY <2>1, <2>2, <3>1, ClockRecords
      <3> QED
        BY <3>1, <3>2
    <2>3. CASE ProgramClock
      <3>1. PICK req : req = HostRequest
        OBVIOUS
      <3>2. Good(req) /\ ~WritesControl(req) /\ Clock(req) /\ HostTakes(acks[2], o_data)
        BY <2>1, <2>3, <3>1, RequestsAreGood DEF ProgramClock
      <3>3. PICK trig \in BOOLEAN, s \in Samples : WbScopeClock(req, trig, s)
        BY <2>2, <3>2
      <3>4. CASE host_at = "ready"
        BY <2>1, <2>2, <3>1, <3>2, <3>3, <3>4, ReadyReads DEF ScopeInv
      <3>5. CASE host_at = "data"
        BY <2>1, <2>2, <3>1, <3>2, <3>3, <3>5, DataReads DEF ScopeInv
      <3> QED
        BY <2>3, <3>4, <3>5 DEF ProgramClock
    <2>4. ASSUME host_at = "idle", UNCHANGED hostVars, NEW req, Good(req), req.stb => req.addr = 0,
                 Clock(req)
          PROVE  ScopeInv'
      <3>1. PICK trig \in BOOLEAN, s \in Samples : WbScopeClock(req, trig, s)
        BY <2>2, <2>4
      <3>2. ReadInv'
        BY <2>1, <2>4, <3>1, IdleReads
      <3> QED
        BY <2>2, <2>4, <3>2 DEF ScopeInv
    <2>5. CASE Arms
      <3>1. PICK c \in Commands : Clock(c)
        BY <2>5 DEF Arms
      <3>2. Good(c) /\ (c.stb => c.addr = 0)
        BY <2>1, RequestsAreGood
      <3> QED
        BY <2>4, <2>5, <3>1, <3>2 DEF Arms
    <2>6. CASE IdleClock
      <3>1. UNCHANGED hostVars
        BY <2>6 DEF IdleClock, hostVars
      <3>2. Good(NoRequest) /\ (NoRequest.stb => NoRequest.addr = 0) /\ Clock(NoRequest)
        BY <2>1, <2>6, RequestsAreGood DEF IdleClock
      <3>3. PICK req : req = NoRequest
        OBVIOUS
      <3> QED
        BY <2>4, <2>6, <3>1, <3>2, <3>3 DEF IdleClock
    <2>7. CASE Program
      BY <1>3, <2>7, ProgramReads
    <2>8. CASE UNCHANGED vars
      <3>1. /\ compressed' = compressed /\ changes' = changes /\ br_holdoff' = br_holdoff
            /\ br_config' = br_config /\ dr_triggered' = dr_triggered /\ dr_primed' = dr_primed
            /\ waddr' = waddr /\ mem' = mem /\ data_pipe' = data_pipe
            /\ dr_stopped' = dr_stopped /\ counter' = counter /\ window' = window
            /\ since' = since /\ acks' = acks /\ raddr' = raddr
            /\ this_addr' = this_addr /\ nxt_mem' = nxt_mem /\ read_address' = read_address
            /\ o_data' = o_data /\ host_at' = host_at /\ waiting' = waiting
            /\ m_scoplen' = m_scoplen /\ m_holdoff' = m_holdoff /\ m_data' = m_data
        BY <2>8 DEF vars, triggerVars, bufferVars, readVars, wbscopeVars, hostVars
      <3>2. RecordInv'
        BY <2>1, <3>1 DEF RecordInv, Shaped, ResetSeen, Recorded, Filled, Counted, Reset
      <3>3. Still' = Still
        BY <3>1 DEF Still, HasRead, Reset
      <3>4. AtIdle' = AtIdle
        BY <3>1 DEF AtIdle
      <3>5. AtReady' = AtReady
        BY <3>1 DEF AtReady, Reset, Quiet, OneAway, Answered, ControlWord
      <3>6. AtData' = AtData
        BY <3>1, <3>3 DEF AtData, Quiet, OneAway, Answered
      <3>7. AtPrint' = AtPrint
        BY <3>1, <3>3 DEF AtPrint, Quiet
      <3> QED
        BY <2>1, <3>1, <3>2, <3>4, <3>5, <3>6, <3>7 DEF ScopeInv, ReadInv
    <2> QED
      BY <2>3, <2>5, <2>6, <2>7, <2>8 DEF Next
  <1> QED
    BY <1>2, <1>3

\* And it holds at the start.
LEMMA InitKeeps == Init => ScopeInv
  <1> SUFFICES ASSUME Init, ~compressed PROVE RecordInv /\ ReadInv
    BY DEF ScopeInv
  <1>1. /\ compressed = FALSE /\ changes = 0 /\ br_holdoff \in Holdoffs /\ waddr = 0
        /\ data_pipe = 0 /\ window = <<>> /\ mem = [a \in Addresses |-> 0]
        /\ br_config = [running |-> FALSE, manual |-> FALSE, disable |-> FALSE]
        /\ dr_triggered = FALSE /\ dr_primed = FALSE /\ dr_stopped = FALSE
        /\ acks = <<FALSE, FALSE>> /\ raddr = 0 /\ host_at = "idle" /\ waiting = FALSE
    BY DEF Init, ScopeBusInit, WbScopeInit, HostInit
  <1>2. Reset
    BY <1>1 DEF Reset
  <1>3. 0 \in Addresses
    BY LengthIs
  <1>4. Shaped
    <2>1. acks = <<acks[1], acks[2]>> /\ acks[1] \in BOOLEAN /\ acks[2] \in BOOLEAN
      BY <1>1
    <2> QED
      BY <1>1, <1>3, <2>1 DEF Shaped, Samples
  <1>5. ReadInv
    BY <1>1 DEF ReadInv, AtIdle, AtReady, AtData, AtPrint
  <1> QED
    BY <1>1, <1>2, <1>4, <1>5 DEF RecordInv, ResetSeen

\* What has been read of a scope without compression: where each word's sample
\* is in the history.
LEMMA PrintIs ==
    ASSUME ScopeInv, ~compressed, host_at = "print"
    PROVE  /\ compressed = FALSE /\ m_scoplen = Length /\ m_holdoff \in Nat
           /\ Len(window) \in Nat /\ Len(window) >= Length + 1 /\ DOMAIN window = 1 .. Len(window)
           /\ since = m_holdoff + 1
           /\ \A j \in 1 .. Length : m_data[j] = window[Len(window) - ((Length + 1) - j)]
  <1>1. /\ Still /\ Len(m_data) = Length /\ Shaped /\ Recorded /\ Filled /\ Counted
        /\ dr_triggered /\ dr_stopped
    BY DEF ScopeInv, RecordInv, ReadInv, AtPrint, Still
  <1>2. /\ compressed = FALSE /\ br_holdoff \in Nat /\ window \in Seq(Samples)
        /\ waddr \in Addresses
    BY <1>1, ScopeBusAssumption DEF Shaped
  <1>3. m_scoplen = Length /\ m_holdoff = br_holdoff /\ HasRead(Len(m_data))
    BY <1>1 DEF Still
  <1>4. since = m_holdoff + 1
    BY <1>1, <1>3 DEF Counted
  <1>5. Len(window) \in Nat /\ Len(window) >= Length + 1 /\ DOMAIN window = 1 .. Len(window)
    BY <1>1, <1>2 DEF Filled
  <1>6. ASSUME NEW j \in 1 .. Length
        PROVE  m_data[j] = window[Len(window) - ((Length + 1) - j)]
    <2> DEFINE n == Length
    <2> DEFINE l == Len(window)
    <2>1. n \in Nat /\ n >= 1 /\ l \in Nat /\ l >= n + 1 /\ j \in 1 .. n
      BY <1>5, <1>6, LengthIs
    <2>2. m_data[j] = mem[Plus(waddr, j - 1)]
      BY <1>1, <1>3, <1>6 DEF HasRead
    <2>3. ASSUME NEW k \in 0 .. n - 1, l - (n - k) >= 1
          PROVE  mem[Plus(waddr, k)] = window[l - (n - k)]
      BY <1>1, <2>3 DEF Recorded
    <2> HIDE DEF n, l
    <2>4. j - 1 \in 0 .. n - 1 /\ l - (n - (j - 1)) >= 1 /\ l - (n - (j - 1)) = l - ((n + 1) - j)
      BY <2>1
    <2>5. mem[Plus(waddr, j - 1)] = window[l - (n - (j - 1))]
      BY <2>3, <2>4
    <2> QED
      BY <2>2, <2>4, <2>5 DEF n, l
  <1> QED
    BY <1>2, <1>3, <1>4, <1>5, <1>6

\* Where the words are placed.
LEMMA Placed ==
    ASSUME ScopeInv, ~compressed, host_at = "print", NEW j \in 1 .. Length
    PROVE  /\ Place(j) = m_holdoff - (Length - j) /\ IsSample(j)
           /\ Known(Place(j)) /\ m_data[j] = At(Place(j))
  <1> DEFINE n == Length
  <1> DEFINE l == Len(window)
  <1>1. /\ compressed = FALSE /\ m_scoplen = n /\ m_holdoff \in Nat
        /\ l \in Nat /\ l >= n + 1 /\ DOMAIN window = 1 .. l /\ since = m_holdoff + 1
        /\ m_data[j] = window[l - ((n + 1) - j)]
    BY PrintIs
  <1>2. n \in Nat /\ n >= 1 /\ j \in 1 .. n
    BY LengthIs
  <1>3. Place(j) = m_holdoff - (n - j) /\ IsSample(j)
    BY <1>1 DEF Place, IsSample
  <1>4. /\ At(Place(j)) = window[(l - since) + Place(j)]
        /\ Known(Place(j)) <=> (l - since) + Place(j) \in DOMAIN window
    BY DEF At, Known
  <1> DEFINE p == Place(j)
  <1> HIDE DEF n, l, p
  <1>5. p = m_holdoff - (n - j)
    BY <1>3 DEF p
  <1>6. (l - since) + p = l - ((n + 1) - j) /\ (l - since) + p \in 1 .. l
    BY <1>1, <1>2, <1>5
  <1>7. Known(p) /\ m_data[j] = At(p)
    BY <1>1, <1>4, <1>6 DEF p
  <1> QED
    BY <1>3, <1>7 DEF n, p

LEMMA ShowsWhatWas == ScopeInv /\ ~compressed => ShowsTheSignal
  <1> SUFFICES ASSUME ScopeInv, ~compressed, host_at = "print"
               PROVE  /\ Known(Place(1))
                      /\ \A t \in Place(1) .. Place(m_scoplen) : Shown(t) = At(t)
    BY DEF ShowsTheSignal
  <1> DEFINE n == Length
  <1>1. n \in Nat /\ n >= 1 /\ m_scoplen = n /\ m_holdoff \in Nat
    BY LengthIs, PrintIs
  <1>2. ASSUME NEW j \in 1 .. n
        PROVE  /\ Place(j) = m_holdoff - (n - j) /\ IsSample(j)
               /\ Known(Place(j)) /\ m_data[j] = At(Place(j))
    BY Placed
  <1> HIDE DEF n
  <1>3. Known(Place(1))
    BY <1>1, <1>2
  <1>4. ASSUME NEW t \in Place(1) .. Place(m_scoplen) PROVE Shown(t) = At(t)
    <2>1. Place(1) = m_holdoff - (n - 1) /\ Place(n) = m_holdoff
      BY <1>1, <1>2
    <2>2. PICK k : k = t - (m_holdoff - n)
      OBVIOUS
    <2>3. t \in Int /\ k \in 1 .. n /\ t = m_holdoff - (n - k)
      BY <1>1, <1>4, <2>1, <2>2
    <2> DEFINE S == {j \in 1 .. n : IsSample(j) /\ Place(j) <= t}
    <2>4. k \in S /\ \A j \in S : j <= k
      BY <1>1, <1>2, <2>3
    <2>5. \A j \in S : j \in 1 .. n
      OBVIOUS
    <2>6. Max(S) = k
      <3> HIDE DEF S
      <3>1. \A j \in S : k >= j
        BY <1>1, <2>3, <2>4, <2>5
      <3>2. \A x \in S : (\A y \in S : x >= y) => x = k
        BY <1>1, <2>3, <2>4, <2>5
      <3> QED
        BY <2>4, <3>1, <3>2 DEF Max
    <2>7. Shown(t) = m_data[k]
      BY <1>1, <2>6 DEF Shown
    <2> QED
      BY <1>2, <2>3, <2>7
  <1> QED
    BY <1>3, <1>4

LEMMA MarksWhatDid == ScopeInv /\ ~compressed => MarksTheTrigger
  <1> SUFFICES ASSUME ScopeInv, ~compressed, host_at = "print", NEW i \in 1 .. m_scoplen
               PROVE  /\ PrintMarks(compressed, i) \/ VcdMarks(compressed, i) => Place(i) = 0
                      /\ Place(i) = 0 => VcdMarks(compressed, i)
    BY DEF MarksTheTrigger
  <1>1. Length \in Nat /\ m_scoplen = Length /\ m_holdoff \in Nat /\ compressed = FALSE
    BY LengthIs, PrintIs
  <1>2. Place(i) = m_holdoff - (Length - i) /\ i \in 1 .. Length
    BY <1>1, Placed
  <1>3. offset(compressed) = Length - m_holdoff - 1
    BY <1>1 DEF offset, getaddresslen
  <1>4. PrintMarks(compressed, i) => i - 1 = offset(compressed)
    BY <1>1 DEF PrintMarks
  <1>5. VcdMarks(compressed, i) <=> i - 1 = offset(compressed)
    BY <1>1 DEF VcdMarks
  <1> QED
    BY <1>1, <1>2, <1>3, <1>4, <1>5

\* However often the scope has been reset and triggered, what a program reads
\* of the one without compression, before it prints it, is what the signal was,
\* clock by clock, up to the end of the holdoff (wbscope.v; ScopeRun).
THEOREM ScopeShows ==
    ASSUME HoldoffsFit, WindowFits
    PROVE  Spec => [](~compressed => ShowsTheSignal)
  <1>1. Spec => []ScopeInv
    <2>1. ScopeInv /\ [Next]_vars => ScopeInv'
      BY StepKeeps
    <2> QED
      BY InitKeeps, <2>1, PTL DEF Spec
  <1>2. ScopeInv => (~compressed => ShowsTheSignal)
    BY ShowsWhatWas
  <1> QED
    BY <1>1, <1>2, PTL

\* And the word that writevcd() marks as the trigger's is the trigger's; print()
\* marks no other (scopecls.cpp).
THEOREM ScopeMarks ==
    ASSUME HoldoffsFit, WindowFits
    PROVE  Spec => [](~compressed => MarksTheTrigger)
  <1>1. Spec => []ScopeInv
    <2>1. ScopeInv /\ [Next]_vars => ScopeInv'
      BY StepKeeps
    <2> QED
      BY InitKeeps, <2>1, PTL DEF Spec
  <1>2. ScopeInv => (~compressed => MarksTheTrigger)
    BY MarksWhatDid
  <1> QED
    BY <1>1, <1>2, PTL
=============================================================================
