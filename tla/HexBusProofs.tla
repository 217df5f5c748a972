---------------------------- MODULE HexBusProofs ----------------------------
(* What is proved of HexBus: the accesses are those asked for, and no answer   *)
(* comes while there is no room for it.                                        *)
EXTENDS HexBus, TLAPS

\* A program that uses readio, readz, writeio and writez only, as wbregs.cpp,
\* flashid.cpp and scopecls.cpp do, while nobody types at the console.
HeldOnly == ConsoleInput = {} /\ \A c \in Calls : ~H!Increments(c)

-----------------------------------------------------------------------------
(* The way of a command: up, dh, r_word, pck, the bus.                        *)

Addresses == 0 .. AddrSpace - 1
BusOps == {"read", "write"}
IsBusOp(tok) == tok.t = "op" /\ tok.op \in BusOps
IsAddrOp(tok) == tok.t = "op" /\ tok.op = "addr"
IsAddrDigits(tok) == tok.t = "digits" /\ tok.hold /\ tok.addr \in Addresses

\* The command word that is being received, and the address that the device has
\* once what it has received is executed.
Ctx == IF dh.t = "op" THEN dh.op ELSE IF dh.t = "end" THEN "none" ELSE r_word.op
DevAddr ==
    IF r_word.op = "addr" THEN IF dh.t = "digits" THEN dh.addr ELSE r_word.addr
    ELSE IF pck.op = "addr" THEN pck.addr ELSE hb_addr
DevHold ==
    IF r_word.op = "addr" THEN IF dh.t = "digits" THEN dh.hold ELSE r_word.hold
    ELSE IF pck.op = "addr" THEN pck.hold ELSE ~inc

IsCmd(c) ==
    /\ c = [op |-> c.op, addr |-> c.addr, diff |-> FALSE, hold |-> c.hold, data |-> c.data]
    /\ c.op \in {"none", "addr"} \cup BusOps /\ c.hold \in BOOLEAN /\ c.addr \in Addresses
Typed ==
    /\ dh.t \in {"none", "op", "digits", "end"}
    /\ dh.t = "none" => dh = NoToken
    /\ dh.t = "op" => dh.op \in {"addr"} \cup BusOps
    /\ dh.t = "digits" => dh.hold \in BOOLEAN /\ dh.addr \in Addresses
    /\ IsCmd(r_word) /\ (r_word.op = "none" => r_word = NoCmd)
    /\ IsCmd(pck) /\ (pck.op = "none" => pck = NoCmd)
    /\ hb_addr \in Addresses
    /\ {w_reset, cmd_loaded, hb_cyc, hb_stb, hb_we, inc} \subseteq BOOLEAN

\* One command at a time is between the line and the bus.
OneCommand ==
    /\ cmd_loaded = (r_word.op # "none")
    /\ w_reset => dh.t = "none" /\ r_word.op = "none" /\ pck.op = "none" /\ ~hb_cyc
    /\ pck.op # "none" => dh.t = "none" /\ ~hb_cyc
    /\ pck.op = "addr" => r_word.op \in BusOps
    /\ hb_cyc => dh.t = "none" /\ pck.op = "none"
    /\ pck.op \in BusOps \/ hb_cyc => r_word.op = "none"
    /\ hb_stb => hb_cyc
    /\ (bus_pend # NoRequest) = (hb_cyc /\ ~hb_stb)
    /\ dh.t = "op" => r_word.op = "none" \/ (r_word.op = "addr" /\ dh.op \in BusOps)
    /\ dh.t = "end" => r_word.op \in BusOps
    /\ dh.t = "digits" => r_word.op # "none"

\* How the commands on the line are spelt, and how the line goes on with the
\* command that is being received.
SpeltAt(q, k) ==
    /\ q[k].t \in {"op", "digits", "end"}
    /\ q[k].t = "op" =>
          /\ q[k].op \in {"addr"} \cup BusOps /\ k + 1 <= Len(q)
          /\ q[k].op = "addr" => k + 2 <= Len(q) /\ IsAddrDigits(q[k + 1]) /\ IsBusOp(q[k + 2])
          /\ q[k].op = "read" => q[k + 1].t = "end"
          /\ q[k].op = "write" =>
                \/ q[k + 1].t = "end"
                \/ k + 2 <= Len(q) /\ q[k + 1].t = "digits" /\ q[k + 2].t = "end"
    /\ q[k].t = "digits" =>
          /\ k + 1 <= Len(q) /\ q[k].hold \in BOOLEAN /\ q[k].addr \in Addresses
          /\ q[k + 1].t = "op" => IsAddrDigits(q[k])
    /\ q[k].t = "end" =>
          /\ k + 1 <= Len(q) => q[k + 1].t = "op"
          /\ k - 1 >= 1 =>
                \/ IsBusOp(q[k - 1])
                \/ q[k - 1].t = "digits" /\ (k - 2 >= 1 => IsBusOp(q[k - 2]))
Spelt(q) == \A k \in 1 .. Len(q) : SpeltAt(q, k)
GoesOn ==
    /\ Ctx = "none" => (up # <<>> => up[1].t = "op")
    /\ Ctx = "addr" =>
          \/ 2 <= Len(up) /\ IsAddrDigits(up[1]) /\ IsBusOp(up[2])
          \/ 1 <= Len(up) /\ IsBusOp(up[1]) /\ DevHold /\ dh.t # "op"
    /\ Ctx = "read" => 1 <= Len(up) /\ up[1].t = "end"
    /\ Ctx = "write" =>
          \/ 1 <= Len(up) /\ up[1].t = "end"
          \/ 2 <= Len(up) /\ up[1].t = "digits" /\ up[2].t = "end"
    /\ DevHold \/ Ctx = "addr"
Spelling == Spelt(up) /\ GoesOn

IsSeq(q) == q \in Seq({q[i] : i \in DOMAIN q})

InDevice == r_word.op \in BusOps \/ pck.op \in BusOps \/ hb_cyc
DevWe ==
    IF hb_cyc THEN IF hb_stb THEN hb_we ELSE bus_pend.we ELSE "write" \in {r_word.op, pck.op}
Place(k) == IF k = 0 THEN dh ELSE up[k]

\* Where each access that was asked for is: at the place f[i] of the line, or in
\* the device.
AskedAt(f) ==
    /\ f \in [1 .. Len(asked) -> Int]
    /\ \A i \in 1 .. Len(asked) : -1 <= f[i] /\ f[i] <= Len(up)
    /\ \A i, j \in 1 .. Len(asked) : i < j => f[i] < f[j]
    /\ \A k \in 0 .. Len(up) : IsBusOp(Place(k)) => \E i \in 1 .. Len(asked) : f[i] = k
    /\ \A i \in 1 .. Len(asked) :
          /\ f[i] >= 0 => IsBusOp(Place(f[i])) /\ (Place(f[i]).op = "write") = asked[i].we
          /\ f[i] <= 1 => DevAddr = asked[i].addr
          /\ f[i] >= 2 =>
                \/ up[f[i] - 1].t = "digits" /\ up[f[i] - 1].addr = asked[i].addr
                \/ up[f[i] - 1].t = "end" /\ i > 1 /\ asked[i].addr = asked[i - 1].addr
    /\ InDevice <=> (Len(asked) > 0 /\ f[1] = -1)
    /\ InDevice => asked[1].we = DevWe
    /\ hb_cyc /\ ~hb_stb => bus_pend.addr = asked[1].addr

IsAccess(a) == a = [we |-> a.we, addr |-> a.addr] /\ a.we \in BOOLEAN
Asking ==
    /\ \A i \in 1 .. Len(asked) : IsAccess(asked[i])
    /\ call # H!NoCall =>
          /\ call \in Calls
          /\ Len(asked) = 0 => DevAddr = call.addr
          /\ Len(asked) > 0 => asked[Len(asked)].addr = call.addr
    /\ draining => H!IsWrite(call)
    /\ sent \in Nat
AsksInOrder == Asking /\ \E f : AskedAt(f)
InOrder ==
    /\ Typed /\ OneCommand /\ IsSeq(up) /\ Spelling
    /\ IsSeq(asked) /\ AsksInOrder

-----------------------------------------------------------------------------
(* Sequences.                                                                 *)

LEMMA SeqIs ==
    ASSUME NEW R, NEW q \in Seq(R)
    PROVE  IsSeq(q) /\ Len(q) \in Nat /\ DOMAIN q = 1 .. Len(q)
<1> DEFINE T == {q[i] : i \in DOMAIN q}
<1>1. DOMAIN q = 1 .. Len(q) /\ Len(q) \in Nat
    OBVIOUS
<1>2. \A i \in 1 .. Len(q) : q[i] \in T
    BY <1>1
<1>3. q \in Seq(T)
    <2> HIDE DEF T
    <2> QED BY <1>1, <1>2
<1> QED BY <1>1, <1>3 DEF IsSeq

LEMMA TailIs ==
    ASSUME NEW q, IsSeq(q), q # <<>>
    PROVE  /\ IsSeq(Tail(q)) /\ Len(q) \in Nat \ {0} /\ Len(Tail(q)) = Len(q) - 1
           /\ \A k \in 1 .. Len(q) - 1 : Tail(q)[k] = q[k + 1]
           /\ Head(q) = q[1]
<1>1. /\ Len(q) \in Nat \ {0} /\ Len(Tail(q)) = Len(q) - 1 /\ Head(q) = q[1]
      /\ Tail(q) \in Seq({q[i] : i \in DOMAIN q})
    BY DEF IsSeq
<1>2. \A k \in 1 .. Len(q) - 1 : Tail(q)[k] = q[k + 1]
    BY <1>1 DEF IsSeq
<1>3. IsSeq(Tail(q))
    BY <1>1, SeqIs
<1> QED BY <1>1, <1>2, <1>3

LEMMA ConcatIs ==
    ASSUME NEW q, NEW r, IsSeq(q), IsSeq(r)
    PROVE  /\ IsSeq(q \o r) /\ Len(q \o r) = Len(q) + Len(r)
           /\ Len(q) \in Nat /\ Len(r) \in Nat
           /\ \A k \in 1 .. Len(q) : (q \o r)[k] = q[k]
           /\ \A k \in 1 .. Len(r) : (q \o r)[Len(q) + k] = r[k]
<1> DEFINE Q == {q[i] : i \in DOMAIN q}  P == {r[i] : i \in DOMAIN r}  R == Q \cup P
<1>1. q \in Seq(R) /\ r \in Seq(R)
    <2>1. q \in Seq(Q) /\ r \in Seq(P)
        BY DEF IsSeq
    <2>2. Q \subseteq R /\ P \subseteq R
        OBVIOUS
    <2> HIDE DEF Q, P, R
    <2> QED BY <2>1, <2>2
<1> HIDE DEF R, Q, P
<1>2. /\ q \o r \in Seq(R) /\ Len(q \o r) = Len(q) + Len(r)
      /\ Len(q) \in Nat /\ Len(r) \in Nat
      /\ \A k \in 1 .. Len(q) : (q \o r)[k] = q[k]
      /\ \A k \in 1 .. Len(r) : (q \o r)[Len(q) + k] = r[k]
    BY <1>1
<1>3. IsSeq(q \o r)
    BY <1>2, SeqIs
<1> QED BY <1>2, <1>3

-----------------------------------------------------------------------------
(* A clock of the device.                                                     *)

\* A byte that may come in at this clock.
Takeable(byte) ==
    \/ byte = NoToken
    \/ /\ ByteTime /\ byte.t \in {"op", "digits", "end"}
       /\ byte.t = "op" => byte.op \in {"addr"} \cup BusOps
       /\ byte.t = "digits" => byte.hold \in BOOLEAN /\ byte.addr \in Addresses
       \* as Spelling has it for the first of up
       /\ Ctx = "none" => byte.t = "op"
       /\ Ctx \in {"addr"} => IsAddrDigits(byte) \/ IsBusOp(byte)
       /\ Ctx \in BusOps => byte.t \in {"digits", "end"}

LEMMA DigitsKept ==
    ASSUME NEW c, NEW o, NEW a0, NEW h0, NEW d0, NEW a, NEW h, NEW d,
           c = [op |-> o, addr |-> a0, diff |-> FALSE, hold |-> h0, data |-> d0]
    PROVE  [c EXCEPT !.addr = a, !.hold = h, !.data = d]
           = [op |-> o, addr |-> a, diff |-> FALSE, hold |-> h, data |-> d]
<1> DEFINE R == [op : {o}, addr : {a0, a}, diff : BOOLEAN, hold : {h0, h}, data : {d0, d}]
           e == [c EXCEPT !.addr = a, !.hold = h, !.data = d]
<1>1. c \in R /\ c.op = o /\ c.diff = FALSE
    OBVIOUS
<1>2. e \in R /\ e.op = o /\ e.addr = a /\ e.diff = FALSE /\ e.hold = h /\ e.data = d
    BY <1>1
<1> HIDE DEF e
<1>3. e = [op |-> o, addr |-> a, diff |-> FALSE, hold |-> h, data |-> d]
    BY <1>2
<1> QED BY <1>3 DEF e

LEMMA PackIs ==
    ASSUME Typed, OneCommand, NEW byte, Con!Receive(byte)
    PROVE  /\ dh' = byte /\ w_reset' = (byte.t = "reset")
           /\ dh.t = "none" => r_word' = r_word /\ pck' = NoCmd
           /\ dh.t = "op" => r_word' = [NoCmd EXCEPT !.op = dh.op] /\ pck' = r_word
           /\ dh.t = "digits" =>
                r_word' = [r_word EXCEPT !.addr = dh.addr, !.hold = dh.hold, !.data = dh.data]
                /\ pck' = NoCmd
           /\ dh.t = "end" => r_word' = NoCmd /\ pck' = r_word
           /\ cmd_loaded' = (r_word'.op # "none")
<1>0. NoCmd.op = "none" /\ cmd_loaded = (r_word.op # "none") /\ dh' = byte
    BY DEF NoCmd, Ex!NoCmd, Con!Receive, Con!Dechex, OneCommand
<1>1. w_reset' = (byte.t = "reset")
    BY DEF Con!Receive, Con!Dechex
<1>2. CASE dh.t = "none"
    <2>1. dh = NoToken /\ (w_reset => r_word.op = "none") /\ (r_word.op = "none" => r_word = NoCmd)
        BY <1>2 DEF Typed, OneCommand
    <2>2. r_word' = r_word /\ pck' = NoCmd /\ cmd_loaded' = (~w_reset /\ cmd_loaded)
        BY <1>2, <2>1 DEF Con!Receive, Con!Pack
    <2> QED BY <1>0, <1>1, <1>2, <2>1, <2>2
<1>3. CASE dh.t = "op"
    <2>1. ~w_reset /\ dh # NoToken /\ dh.op # "none" /\ (r_word.op = "none" => r_word = NoCmd)
        BY <1>3 DEF Typed, OneCommand, NoToken, BusOps
    <2>2. r_word' = [NoCmd EXCEPT !.op = dh.op] /\ cmd_loaded' = TRUE /\ pck' = r_word
        BY <1>0, <1>3, <2>1 DEF Con!Receive, Con!Pack
    <2>3. r_word'.op = dh.op
        BY <2>2 DEF NoCmd, Ex!NoCmd
    <2> QED BY <1>0, <1>1, <1>3, <2>1, <2>2, <2>3
<1>4. CASE dh.t = "digits"
    <2>1. ~w_reset /\ dh # NoToken /\ r_word.op # "none"
        BY <1>4 DEF OneCommand, NoToken
    <2>2. /\ r_word' = [r_word EXCEPT !.addr = dh.addr, !.hold = dh.hold, !.data = dh.data]
          /\ cmd_loaded' = cmd_loaded /\ pck' = NoCmd
        BY <1>0, <1>4, <2>1 DEF Con!Receive, Con!Pack
    <2>3. r_word'.op = r_word.op
        BY <2>2 DEF IsCmd, Typed
    <2> QED BY <1>0, <1>1, <1>4, <2>1, <2>2, <2>3
<1>5. CASE dh.t = "end"
    <2>1. ~w_reset /\ dh # NoToken /\ r_word.op # "none"
        BY <1>5 DEF OneCommand, NoToken, BusOps
    <2>2. r_word' = NoCmd /\ cmd_loaded' = FALSE /\ pck' = r_word
        BY <1>0, <1>5, <2>1 DEF Con!Receive, Con!Pack
    <2> QED BY <1>0, <1>1, <1>5, <2>1, <2>2
<1>6. dh.t \in {"none", "op", "digits", "end"}
    BY DEF Typed
<1> QED BY <1>2, <1>3, <1>4, <1>5, <1>6

\* What the bus master does, and the memory that answers it.
LEMMA BusIs ==
    ASSUME Typed, OneCommand, NEW stall \in BOOLEAN, NEW answer \in BOOLEAN,
           Ex!Exec(w_reset, pck, BusReturn(stall, answer)), BusMemory(stall, answer)
    PROVE  /\ ~hb_cyc => /\ hb_cyc' = (pck.op \in BusOps) /\ hb_stb' = (pck.op \in BusOps)
                         /\ hb_we' = (pck.op = "write") /\ hb_data' = pck.data
                         /\ hb_addr' = IF pck.op = "addr" THEN pck.addr ELSE hb_addr
                         /\ inc' = IF pck.op = "addr" THEN ~pck.hold ELSE inc
                         /\ bus_pend' = bus_pend
           /\ hb_stb => /\ hb_cyc' = TRUE /\ hb_stb' = stall /\ hb_we' = hb_we /\ inc' = inc
                        /\ (~inc => hb_addr' = hb_addr)
                        /\ hb_addr' \in Addresses
                        /\ bus_pend' = IF stall THEN bus_pend
                             ELSE [we |-> hb_we, addr |-> hb_addr, data |-> hb_data]
           /\ hb_cyc /\ ~hb_stb =>
                /\ hb_cyc' = ~answer /\ hb_stb' = FALSE /\ hb_we' = hb_we
                /\ hb_addr' = hb_addr /\ inc' = inc
                /\ bus_pend' = IF answer THEN NoRequest ELSE bus_pend
           /\ IF hb_cyc /\ ~hb_stb /\ answer /\ asked # <<>> THEN asked' = Tail(asked) ELSE asked' = asked
<1> DEFINE ret == BusReturn(stall, answer)
<1>1. /\ ret.stall = stall /\ ret.ack \in BOOLEAN /\ ret.err \in BOOLEAN
      /\ bus_pend = NoRequest => ret.ack = FALSE /\ ret.err = FALSE
      /\ bus_pend # NoRequest => (ret.ack \/ ret.err) = answer /\ ~(ret.ack /\ ret.err)
    BY DEF BusReturn, Answered
<1>2. (bus_pend # NoRequest) = (hb_cyc /\ ~hb_stb) /\ (hb_stb => hb_cyc) /\ (hb_cyc => ~w_reset /\ pck.op = "none")
    BY DEF OneCommand
<1>3. {w_reset, hb_cyc, hb_stb, hb_we, inc} \subseteq BOOLEAN /\ hb_addr \in Addresses /\ IsCmd(pck)
    BY DEF Typed
<1>4. /\ Ex!ExecCycle(w_reset, pck, ret) /\ Ex!ExecAddress(pck, ret) /\ Ex!ExecData(pck, ret)
    BY DEF Ex!Exec, Ex!ExecBus
<1>5. /\ asked' = IF Answered(answer) /\ asked # <<>> THEN Tail(asked) ELSE asked
      /\ bus_pend' = IF hb_stb /\ ~stall THEN [we |-> hb_we, addr |-> hb_addr, data |-> hb_data]
                     ELSE IF Answered(answer) THEN NoRequest ELSE bus_pend
    BY DEF BusMemory
<1>6. Answered(answer) = (answer /\ hb_cyc /\ ~hb_stb)
    BY <1>2 DEF Answered
<1> HIDE DEF ret
<1>7. ASSUME ~hb_cyc
      PROVE  /\ hb_cyc' = (pck.op \in BusOps) /\ hb_stb' = (pck.op \in BusOps)
             /\ hb_we' = (pck.op = "write") /\ hb_data' = pck.data
             /\ hb_addr' = IF pck.op = "addr" THEN pck.addr ELSE hb_addr
             /\ inc' = IF pck.op = "addr" THEN ~pck.hold ELSE inc
             /\ bus_pend' = bus_pend
    <2>1. bus_pend = NoRequest /\ hb_stb = FALSE
        BY <1>2, <1>3, <1>7
    <2>2. ret.ack = FALSE /\ ret.err = FALSE
        BY <1>1, <2>1
    <2>3. w_reset => pck.op = "none"
        BY DEF OneCommand
    <2>4. hb_cyc' = (pck.op \in BusOps) /\ hb_stb' = (pck.op \in BusOps)
        <3>1. hb_cyc = FALSE /\ w_reset \in BOOLEAN
            BY <1>3, <1>7
        <3>2. /\ hb_cyc' = (~w_reset /\ pck.op \in {"read", "write"})
              /\ hb_stb' = (~w_reset /\ pck.op \in {"read", "write"})
            BY <1>4, <2>1, <2>2, <3>1 DEF Ex!ExecCycle, Ex!IsBus
        <3> QED BY <2>3, <3>1, <3>2 DEF BusOps
    <2>5. hb_we' = (pck.op = "write") /\ hb_data' = pck.data
        BY <1>4, <1>7, <2>1 DEF Ex!ExecData
    <2>6. pck.diff = FALSE
        BY <1>3 DEF IsCmd
    <2>7. /\ hb_addr' = IF pck.op = "addr" THEN pck.addr ELSE hb_addr
          /\ inc' = IF pck.op = "addr" THEN ~pck.hold ELSE inc
        BY <1>4, <1>7, <2>1, <2>6 DEF Ex!ExecAddress, Ex!SetsAddress
    <2>8. bus_pend' = bus_pend
        BY <1>5, <1>6, <1>7, <2>1
    <2> QED BY <2>4, <2>5, <2>7, <2>8
<1>8. ASSUME hb_stb
      PROVE  /\ hb_cyc' = TRUE /\ hb_stb' = stall /\ hb_we' = hb_we /\ inc' = inc
             /\ (~inc => hb_addr' = hb_addr) /\ hb_addr' \in Addresses
             /\ bus_pend' = IF stall THEN bus_pend
                            ELSE [we |-> hb_we, addr |-> hb_addr, data |-> hb_data]
    <2>1. bus_pend = NoRequest /\ hb_cyc = TRUE /\ ~w_reset
        BY <1>2, <1>3, <1>8
    <2>2. ret.ack = FALSE /\ ret.err = FALSE /\ ret.stall = stall
        BY <1>1, <2>1
    <2>3. hb_cyc' = TRUE /\ hb_stb' = stall
        BY <1>4, <1>8, <2>1, <2>2 DEF Ex!ExecCycle
    <2>4. hb_we' = hb_we
        BY <1>4, <2>1 DEF Ex!ExecData
    <2>5. pck.op = "none"
        BY <1>2, <2>1
    <2>6. /\ hb_addr' = IF ~stall /\ inc THEN (hb_addr + 1) % AddrSpace ELSE hb_addr
          /\ inc' = inc
        BY <1>4, <1>8, <2>1, <2>2, <2>5 DEF Ex!ExecAddress, Ex!SetsAddress
    <2>7. hb_addr' \in Addresses
        <3>1. AddrSpace \in Nat \ {0} /\ hb_addr \in Int
            BY <1>3, HexBusAssumption DEF HexBusAssumption, Addresses
        <3>2. (hb_addr + 1) % AddrSpace \in 0 .. AddrSpace - 1
            BY <3>1
        <3> QED BY <1>3, <2>6, <3>2 DEF Addresses
    <2>8. bus_pend' = IF stall THEN bus_pend ELSE [we |-> hb_we, addr |-> hb_addr, data |-> hb_data]
        BY <1>5, <1>6, <1>8
    <2> QED BY <2>3, <2>4, <2>6, <2>7, <2>8
<1>9. ASSUME hb_cyc, ~hb_stb
      PROVE  /\ hb_cyc' = ~answer /\ hb_stb' = FALSE /\ hb_we' = hb_we
             /\ hb_addr' = hb_addr /\ inc' = inc
             /\ bus_pend' = IF answer THEN NoRequest ELSE bus_pend
    <2>1. bus_pend # NoRequest /\ ~w_reset /\ pck.op = "none" /\ hb_stb = FALSE /\ hb_cyc = TRUE
        BY <1>2, <1>3, <1>9
    <2>2. (ret.ack \/ ret.err) = answer
        BY <1>1, <2>1
    <2>3. hb_cyc' = ~answer /\ hb_stb' = FALSE
        BY <1>1, <1>4, <2>1, <2>2 DEF Ex!ExecCycle
    <2>4. hb_we' = hb_we
        BY <1>4, <2>1 DEF Ex!ExecData
    <2>5. hb_addr' = hb_addr /\ inc' = inc
        BY <1>4, <2>1 DEF Ex!ExecAddress, Ex!SetsAddress
    <2>6. bus_pend' = IF answer THEN NoRequest ELSE bus_pend
        BY <1>5, <1>6, <1>9
    <2> QED BY <2>3, <2>4, <2>5, <2>6
<1>10. IF hb_cyc /\ ~hb_stb /\ answer /\ asked # <<>> THEN asked' = Tail(asked) ELSE asked' = asked
    BY <1>5, <1>6
<1> QED BY <1>7, <1>8, <1>9, <1>10

DeviceStep(byte, stall, answer) ==
    /\ Con!Receive(byte) /\ Takeable(byte)
    /\ Ex!Exec(w_reset, pck, BusReturn(stall, answer)) /\ BusMemory(stall, answer)

LEMMA DeviceTyped ==
    ASSUME Typed, OneCommand, NEW byte, NEW stall \in BOOLEAN, NEW answer \in BOOLEAN,
           DeviceStep(byte, stall, answer)
    PROVE  Typed' /\ OneCommand'
<1>1. /\ dh' = byte /\ w_reset' = (byte.t = "reset")
      /\ dh.t = "none" => r_word' = r_word /\ pck' = NoCmd
      /\ dh.t = "op" => r_word' = [NoCmd EXCEPT !.op = dh.op] /\ pck' = r_word
      /\ dh.t = "digits" =>
           r_word' = [r_word EXCEPT !.addr = dh.addr, !.hold = dh.hold, !.data = dh.data]
           /\ pck' = NoCmd
      /\ dh.t = "end" => r_word' = NoCmd /\ pck' = r_word
      /\ cmd_loaded' = (r_word'.op # "none")
    BY PackIs DEF DeviceStep
<1>2. /\ ~hb_cyc => /\ hb_cyc' = (pck.op \in BusOps) /\ hb_stb' = (pck.op \in BusOps)
                    /\ hb_we' = (pck.op = "write")
                    /\ hb_addr' = IF pck.op = "addr" THEN pck.addr ELSE hb_addr
                    /\ inc' = IF pck.op = "addr" THEN ~pck.hold ELSE inc
                    /\ bus_pend' = bus_pend
      /\ hb_stb => /\ hb_cyc' = TRUE /\ hb_stb' = stall /\ hb_we' = hb_we /\ inc' = inc
                   /\ hb_addr' \in Addresses
                   /\ bus_pend' = IF stall THEN bus_pend
                        ELSE [we |-> hb_we, addr |-> hb_addr, data |-> hb_data]
      /\ hb_cyc /\ ~hb_stb =>
           /\ hb_cyc' = ~answer /\ hb_stb' = FALSE /\ hb_we' = hb_we
           /\ hb_addr' = hb_addr /\ inc' = inc
           /\ bus_pend' = IF answer THEN NoRequest ELSE bus_pend
    BY BusIs DEF DeviceStep
<1>3. /\ NoCmd = [op |-> "none", addr |-> 0, diff |-> FALSE, hold |-> FALSE, data |-> 0]
      /\ 0 \in Addresses /\ NoToken.t = "none" /\ byte.t # "reset"
    BY HexBusAssumption DEF NoCmd, Ex!NoCmd, HexBusAssumption, Addresses, NoToken, DeviceStep, Takeable
<1>4. /\ byte.t \in {"none", "op", "digits", "end"}
      /\ byte.t = "none" => byte = NoToken
      /\ byte.t = "op" => byte.op \in {"addr"} \cup BusOps
      /\ byte.t = "digits" => byte.hold \in BOOLEAN /\ byte.addr \in Addresses
      /\ byte.t # "none" => dh.t = "none" /\ pck.op = "none" /\ ~hb_cyc
    <2>1. CASE byte = NoToken
        BY <2>1, <1>3
    <2>2. CASE byte # NoToken
        <3>1. dh = NoToken /\ pck = NoCmd /\ ~hb_cyc /\ byte.t \in {"op", "digits", "end"}
            BY <2>2 DEF DeviceStep, Takeable, ByteTime
        <3> QED BY <3>1, <2>2, <1>3 DEF DeviceStep, Takeable
    <2> QED BY <2>1, <2>2
<1>5. /\ dh.t \in {"none", "op", "digits", "end"}
      /\ dh.t = "op" => dh.op \in {"addr"} \cup BusOps
      /\ dh.t = "digits" => dh.hold \in BOOLEAN /\ dh.addr \in Addresses
      /\ IsCmd(r_word) /\ (r_word.op = "none" => r_word = NoCmd)
      /\ IsCmd(pck) /\ (pck.op = "none" => pck = NoCmd)
      /\ hb_addr \in Addresses /\ hb_cyc \in BOOLEAN /\ hb_stb \in BOOLEAN /\ hb_we \in BOOLEAN
      /\ inc \in BOOLEAN
    BY DEF Typed
<1>6. IsCmd(NoCmd)
    BY <1>3 DEF IsCmd
<1>7. IsCmd(r_word') /\ (r_word'.op = "none" => r_word' = NoCmd)
    <2>1. CASE dh.t = "none"
        BY <2>1, <1>1, <1>5
    <2>2. CASE dh.t = "op"
        <3>1. r_word' = [op |-> dh.op, addr |-> 0, diff |-> FALSE, hold |-> FALSE, data |-> 0]
            BY <1>1, <1>3, <2>2
        <3> QED BY <3>1, <1>3, <1>5, <2>2 DEF IsCmd, BusOps
    <2>3. CASE dh.t = "digits"
        <3>1. r_word = [op |-> r_word.op, addr |-> r_word.addr, diff |-> FALSE,
                        hold |-> r_word.hold, data |-> r_word.data]
            BY <1>5 DEF IsCmd
        <3>2. r_word' = [op |-> r_word.op, addr |-> dh.addr, diff |-> FALSE,
                         hold |-> dh.hold, data |-> dh.data]
            <4>1. r_word' = [r_word EXCEPT !.addr = dh.addr, !.hold = dh.hold, !.data = dh.data]
                BY <1>1, <2>3
            <4>2. PICK o, a0, h0, d0 : r_word = [op |-> o, addr |-> a0, diff |-> FALSE,
                                                 hold |-> h0, data |-> d0]
                BY <3>1
            <4>3. r_word' = [op |-> o, addr |-> dh.addr, diff |-> FALSE,
                             hold |-> dh.hold, data |-> dh.data]
                BY <4>1, <4>2, DigitsKept
            <4>4. o = r_word.op
                BY <4>2
            <4> QED BY <4>3, <4>4
        <3>3. r_word.op # "none"
            BY <2>3 DEF OneCommand
        <3> QED BY <3>2, <3>3, <1>5, <2>3 DEF IsCmd
    <2>4. CASE dh.t = "end"
        BY <2>4, <1>1, <1>6
    <2> QED BY <1>5, <2>1, <2>2, <2>3, <2>4
<1>8. IsCmd(pck') /\ (pck'.op = "none" => pck' = NoCmd)
    BY <1>1, <1>5, <1>6
<1>9. hb_addr' \in Addresses /\ {hb_cyc', hb_stb', hb_we', inc'} \subseteq BOOLEAN
    <2>1. pck.addr \in Addresses /\ pck.hold \in BOOLEAN
        BY <1>5 DEF IsCmd
    <2>2. CASE ~hb_cyc
        <3>1. /\ hb_cyc' = (pck.op \in BusOps) /\ hb_stb' = (pck.op \in BusOps)
              /\ hb_we' = (pck.op = "write")
            BY <1>2, <2>2
        <3>2. /\ hb_addr' = IF pck.op = "addr" THEN pck.addr ELSE hb_addr
              /\ inc' = IF pck.op = "addr" THEN ~pck.hold ELSE inc
            BY <1>2, <2>2
        <3>3. hb_addr' \in Addresses
            BY <1>5, <2>1, <3>2
        <3>4. inc' \in BOOLEAN
            BY <1>5, <2>1, <3>2
        <3> QED BY <3>1, <3>3, <3>4
    <2>3. CASE hb_stb
        BY <1>2, <1>5, <2>3
    <2>4. CASE hb_cyc /\ ~hb_stb
        BY <1>2, <1>5, <2>4
    <2> QED BY <2>2, <2>3, <2>4
<1>10. Typed'
    <2>1. w_reset' \in BOOLEAN /\ cmd_loaded' \in BOOLEAN
        BY <1>1
    <2> QED BY <1>1, <1>4, <1>7, <1>8, <1>9, <2>1 DEF Typed
<1>11. /\ cmd_loaded' = (r_word'.op # "none") /\ w_reset' = FALSE
    BY <1>1, <1>3
<1>12. /\ pck'.op # "none" => dh'.t = "none" /\ ~hb_cyc'
       /\ pck'.op = "addr" => r_word'.op \in BusOps
       /\ pck'.op \in BusOps => r_word'.op = "none"
    <2>1. CASE dh.t \in {"none", "digits"}
        BY <1>1, <1>3, <2>1 DEF BusOps
    <2>2. CASE dh.t = "op"
        <3>1. pck' = r_word /\ r_word'.op = dh.op /\ byte.t = "none" /\ pck.op = "none" /\ ~hb_cyc
            BY <1>1, <1>3, <1>4, <2>2 DEF OneCommand
        <3>2. ~hb_cyc'
            BY <1>2, <3>1 DEF BusOps
        <3>3. r_word.op = "none" \/ (r_word.op = "addr" /\ dh.op \in BusOps)
            BY <2>2 DEF OneCommand
        <3> QED BY <1>1, <3>1, <3>2, <3>3 DEF BusOps
    <2>3. CASE dh.t = "end"
        <3>1. pck' = r_word /\ r_word' = NoCmd /\ byte.t = "none" /\ pck.op = "none" /\ ~hb_cyc
            BY <1>1, <1>4, <2>3 DEF OneCommand
        <3>2. ~hb_cyc'
            BY <1>2, <3>1 DEF BusOps
        <3>3. r_word.op \in BusOps
            BY <2>3 DEF OneCommand
        <3> QED BY <1>1, <1>3, <3>1, <3>2, <3>3 DEF BusOps
    <2> QED BY <1>5, <2>1, <2>2, <2>3
<1>13. ASSUME hb_cyc' PROVE dh'.t = "none" /\ pck'.op = "none" /\ r_word'.op = "none"
    <2>1. hb_cyc \/ pck.op \in BusOps
        BY <1>2, <1>13
    <2>2. dh.t = "none" /\ r_word.op = "none" /\ byte.t = "none"
        BY <1>4, <2>1 DEF OneCommand, BusOps
    <2> QED BY <1>1, <1>3, <2>2
<1>14. (hb_stb' => hb_cyc') /\ (bus_pend' # NoRequest) = (hb_cyc' /\ ~hb_stb')
    <2>0. AddrSpace \notin Addresses
        BY HexBusAssumption DEF HexBusAssumption, Addresses
    <2>1. (bus_pend # NoRequest) = (hb_cyc /\ ~hb_stb) /\ (hb_stb => hb_cyc)
        BY DEF OneCommand
    <2>2. CASE ~hb_cyc
        BY <1>2, <1>5, <2>1, <2>2
    <2>3. CASE hb_stb
        <3>1. [we |-> hb_we, addr |-> hb_addr, data |-> hb_data] # NoRequest
            BY <1>5, <2>0 DEF NoRequest
        <3> QED BY <1>2, <1>5, <2>1, <2>3, <3>1
    <2>4. CASE hb_cyc /\ ~hb_stb
        BY <1>2, <1>5, <2>1, <2>4
    <2> QED BY <2>2, <2>3, <2>4
<1>15. /\ dh'.t = "op" => r_word'.op = "none" \/ (r_word'.op = "addr" /\ dh'.op \in BusOps)
       /\ dh'.t = "end" => r_word'.op \in BusOps
       /\ dh'.t = "digits" => r_word'.op # "none"
    <2>1. ASSUME byte.t # "none"
          PROVE  /\ dh.t = "none" /\ r_word' = r_word /\ Ctx = r_word.op
                 /\ Ctx = "none" => byte.t = "op"
                 /\ Ctx = "addr" => IsAddrDigits(byte) \/ IsBusOp(byte)
                 /\ Ctx \in BusOps => byte.t \in {"digits", "end"}
        <3>1. dh.t = "none" /\ byte # NoToken
            BY <1>3, <1>4, <2>1
        <3>2. Ctx = r_word.op /\ r_word' = r_word
            BY <1>1, <3>1 DEF Ctx
        <3> QED BY <3>1, <3>2 DEF DeviceStep, Takeable
    <2>2. r_word.op \in {"none", "addr"} \cup BusOps
        BY <1>5 DEF IsCmd
    <2>3. CASE byte.t = "none"
        BY <1>1, <2>3
    <2>4. CASE byte.t = "op"
        <3>1. Ctx \in {"none", "addr"}
            BY <2>1, <2>2, <2>4
        <3>2. Ctx = "addr" => byte.op \in BusOps
            BY <2>1, <2>4 DEF IsAddrDigits, IsBusOp
        <3> QED BY <1>1, <2>1, <2>4, <3>1, <3>2
    <2>5. CASE byte.t \in {"end", "digits"}
        <3>1. Ctx \in {"addr"} \cup BusOps /\ (Ctx = "addr" => byte.t = "digits")
            BY <2>1, <2>2, <2>5 DEF IsAddrDigits, IsBusOp
        <3>2. "none" \notin {"addr"} \cup BusOps
            BY DEF BusOps
        <3>3. dh' = byte /\ r_word'.op = Ctx
            BY <1>1, <2>1, <2>5
        <3> QED BY <2>5, <3>1, <3>2, <3>3
    <2> QED BY <1>4, <2>3, <2>4, <2>5
<1>16. OneCommand'
    BY <1>11, <1>12, <1>13, <1>14, <1>15 DEF OneCommand
<1> QED BY <1>10, <1>16

\* What the device has, after a clock that no byte came in at.
LEMMA QuietMoves ==
    ASSUME Typed, OneCommand, GoesOn, NEW stall \in BOOLEAN, NEW answer \in BOOLEAN,
           DeviceStep(NoToken, stall, answer)
    PROVE  /\ dh' = NoToken /\ Ctx' = Ctx
           /\ ~IsAddrOp(dh) => DevAddr' = DevAddr /\ DevHold' = DevHold
           /\ IsAddrOp(dh) => Ctx = "addr"
<1>1. /\ dh' = NoToken
      /\ dh.t = "none" => r_word' = r_word /\ pck' = NoCmd
      /\ dh.t = "op" => r_word' = [NoCmd EXCEPT !.op = dh.op] /\ pck' = r_word
      /\ dh.t = "digits" =>
           r_word' = [r_word EXCEPT !.addr = dh.addr, !.hold = dh.hold, !.data = dh.data]
           /\ pck' = NoCmd
      /\ dh.t = "end" => r_word' = NoCmd /\ pck' = r_word
    BY PackIs DEF DeviceStep
<1>2. /\ ~hb_cyc => /\ hb_addr' = IF pck.op = "addr" THEN pck.addr ELSE hb_addr
                    /\ inc' = IF pck.op = "addr" THEN ~pck.hold ELSE inc
      /\ hb_stb => /\ inc' = inc /\ (~inc => hb_addr' = hb_addr)
      /\ hb_cyc /\ ~hb_stb => hb_addr' = hb_addr /\ inc' = inc
    BY BusIs DEF DeviceStep
<1>3. NoCmd.op = "none" /\ NoToken.t = "none"
    BY DEF NoCmd, Ex!NoCmd, NoToken
<1>4. IsCmd(r_word) /\ IsCmd(pck) /\ dh.t \in {"none", "op", "digits", "end"}
      /\ (dh.t = "op" => dh.op \in {"addr"} \cup BusOps)
      /\ inc \in BOOLEAN
    BY DEF Typed
<1>5. /\ hb_cyc => dh.t = "none" /\ pck.op = "none" /\ r_word.op = "none"
      /\ hb_stb => hb_cyc
      /\ pck.op = "addr" => r_word.op \in BusOps
      /\ dh.t # "none" => pck.op = "none" /\ ~hb_cyc
      /\ dh.t = "op" => r_word.op = "none" \/ (r_word.op = "addr" /\ dh.op \in BusOps)
      /\ dh.t = "end" => r_word.op \in BusOps
      /\ dh.t = "digits" => r_word.op # "none"
    BY DEF OneCommand
\* the bus has the address of the last command
<1>6. /\ hb_addr' = IF pck.op = "addr" THEN pck.addr ELSE hb_addr
      /\ inc' = IF pck.op = "addr" THEN ~pck.hold ELSE inc
    <2>1. CASE ~hb_cyc
        BY <1>2, <2>1
    <2>2. CASE hb_cyc
        <3>1. pck.op = "none" /\ Ctx = "none"
            BY <1>5, <2>2 DEF Ctx
        <3>2. ~inc
            BY <3>1, <1>5, <2>2 DEF GoesOn, DevHold
        <3> QED BY <1>2, <2>2, <3>1, <3>2
    <2> QED BY <2>1, <2>2
<1>7. CASE dh.t = "none"
    <2>1. r_word' = r_word /\ pck'.op = "none"
        BY <1>1, <1>3, <1>7
    <2>2. Ctx' = Ctx
        BY <1>1, <1>3, <1>7, <2>1 DEF Ctx
    <2>3. DevAddr' = DevAddr
        BY <1>1, <1>3, <1>6, <1>7, <2>1 DEF DevAddr
    <2>4. DevHold' = DevHold
        <3>1. CASE r_word.op = "addr"
            BY <1>1, <1>3, <1>7, <2>1, <3>1 DEF DevHold
        <3>2. CASE r_word.op # "addr" /\ pck.op = "addr"
            BY <1>4, <1>6, <2>1, <3>2 DEF DevHold, IsCmd
        <3>3. CASE r_word.op # "addr" /\ pck.op # "addr"
            BY <1>6, <2>1, <3>3 DEF DevHold
        <3> QED BY <3>1, <3>2, <3>3
    <2> QED BY <1>1, <1>7, <2>2, <2>3, <2>4 DEF IsAddrOp
<1>8. CASE dh.t = "op"
    <2>1. r_word'.op = dh.op /\ pck' = r_word
        BY <1>1, <1>8 DEF NoCmd, Ex!NoCmd
    <2>2. Ctx' = Ctx /\ Ctx = dh.op
        BY <1>1, <1>3, <1>8, <2>1 DEF Ctx
    <2>3. hb_addr' = hb_addr /\ inc' = inc /\ pck.op = "none" /\ dh.t # "digits"
        BY <1>5, <1>6, <1>8
    <2>4. ASSUME dh.op # "addr" PROVE DevAddr' = DevAddr /\ DevHold' = DevHold
        BY <2>1, <2>3, <2>4 DEF DevAddr, DevHold
    <2> QED BY <1>1, <1>8, <2>2, <2>4 DEF IsAddrOp
<1>9. CASE dh.t = "digits"
    <2>1. r_word'.op = r_word.op /\ r_word'.addr = dh.addr /\ r_word'.hold = dh.hold
          /\ pck'.op = "none"
        <3>1. r_word' = [r_word EXCEPT !.addr = dh.addr, !.hold = dh.hold, !.data = dh.data]
              /\ pck' = NoCmd
            BY <1>1, <1>9
        <3>2. r_word = [op |-> r_word.op, addr |-> r_word.addr, diff |-> FALSE,
                        hold |-> r_word.hold, data |-> r_word.data]
            BY <1>4 DEF IsCmd
        <3> QED BY <1>3, <3>1, <3>2
    <2>2. Ctx' = Ctx
        BY <1>1, <1>3, <1>9, <2>1 DEF Ctx
    <2>3. hb_addr' = hb_addr /\ inc' = inc /\ pck.op = "none"
        BY <1>5, <1>6, <1>9
    <2>4. DevAddr' = DevAddr /\ DevHold' = DevHold
        BY <1>1, <1>3, <1>9, <2>1, <2>3 DEF DevAddr, DevHold
    <2> QED BY <1>1, <1>9, <2>2, <2>4 DEF IsAddrOp
<1>10. CASE dh.t = "end"
    <2>1. r_word'.op = "none" /\ pck' = r_word /\ r_word.op \in BusOps
        BY <1>1, <1>3, <1>5, <1>10
    <2>2. Ctx' = Ctx
        BY <1>1, <1>3, <1>10, <2>1 DEF Ctx
    <2>3. hb_addr' = hb_addr /\ inc' = inc /\ pck.op = "none"
        BY <1>5, <1>6, <1>10
    <2>4. DevAddr' = DevAddr /\ DevHold' = DevHold
        BY <2>1, <2>3 DEF DevAddr, DevHold, BusOps
    <2> QED BY <1>1, <1>10, <2>2, <2>4 DEF IsAddrOp
<1> QED BY <1>4, <1>7, <1>8, <1>9, <1>10

\* The access in the device, after such a clock.
LEMMA QuietAccess ==
    ASSUME Typed, OneCommand, GoesOn, NEW stall \in BOOLEAN, NEW answer \in BOOLEAN,
           DeviceStep(NoToken, stall, answer)
    PROVE  /\ IsBusOp(dh) => ~InDevice
           /\ InDevice' <=> IsBusOp(dh) \/ (InDevice /\ ~(hb_cyc /\ ~hb_stb /\ answer))
           /\ InDevice /\ InDevice' => DevWe' = DevWe
           /\ IsBusOp(dh) => DevWe' = (dh.op = "write")
           /\ hb_cyc' /\ ~hb_stb' =>
                InDevice /\ bus_pend'.addr = IF hb_stb THEN DevAddr ELSE bus_pend.addr
           /\ hb_cyc' /\ ~hb_stb' /\ ~hb_stb => hb_cyc
<1>1. /\ dh.t = "none" => r_word' = r_word /\ pck' = NoCmd
      /\ dh.t = "op" => r_word' = [NoCmd EXCEPT !.op = dh.op] /\ pck' = r_word
      /\ dh.t = "digits" =>
           r_word' = [r_word EXCEPT !.addr = dh.addr, !.hold = dh.hold, !.data = dh.data]
           /\ pck' = NoCmd
      /\ dh.t = "end" => r_word' = NoCmd /\ pck' = r_word
    BY PackIs DEF DeviceStep
<1>2. /\ ~hb_cyc => /\ hb_cyc' = (pck.op \in BusOps) /\ hb_stb' = (pck.op \in BusOps)
                    /\ hb_we' = (pck.op = "write") /\ bus_pend' = bus_pend
      /\ hb_stb => /\ hb_cyc' = TRUE /\ hb_stb' = stall /\ hb_we' = hb_we
                   /\ bus_pend' = IF stall THEN bus_pend
                        ELSE [we |-> hb_we, addr |-> hb_addr, data |-> hb_data]
      /\ hb_cyc /\ ~hb_stb =>
           /\ hb_cyc' = ~answer /\ hb_stb' = FALSE /\ hb_we' = hb_we
           /\ bus_pend' = IF answer THEN NoRequest ELSE bus_pend
    BY BusIs DEF DeviceStep
<1>3. NoCmd.op = "none" /\ NoToken.t = "none"
    BY DEF NoCmd, Ex!NoCmd, NoToken
<1>4. IsCmd(r_word) /\ IsCmd(pck) /\ dh.t \in {"none", "op", "digits", "end"}
      /\ (dh.t = "op" => dh.op \in {"addr"} \cup BusOps)
      /\ hb_cyc \in BOOLEAN /\ hb_stb \in BOOLEAN
    BY DEF Typed
<1>5. /\ hb_cyc => dh.t = "none" /\ pck.op = "none" /\ r_word.op = "none"
      /\ hb_stb => hb_cyc
      /\ pck.op \in BusOps => r_word.op = "none"
      /\ dh.t # "none" => pck.op = "none" /\ ~hb_cyc
      /\ dh.t = "op" => r_word.op \in {"none", "addr"}
      /\ dh.t = "end" => r_word.op \in BusOps
    BY DEF OneCommand, BusOps
<1>6. "none" \notin BusOps /\ "addr" \notin BusOps /\ "write" \in BusOps
    BY DEF BusOps
<1>7. CASE hb_cyc
    <2>1. r_word'.op = "none" /\ pck'.op = "none" /\ ~IsBusOp(dh) /\ InDevice
        BY <1>1, <1>3, <1>5, <1>7 DEF IsBusOp, InDevice
    <2>2. CASE hb_stb
        <3>1. hb_cyc' = TRUE /\ InDevice' /\ hb_stb' = stall /\ hb_we' = hb_we
            BY <1>2, <2>2 DEF InDevice
        <3>2. DevWe = hb_we
            BY <1>7, <2>2 DEF DevWe
        <3>3. DevWe' = hb_we
            <4>1. CASE stall
                BY <3>1, <4>1 DEF DevWe
            <4>2. CASE ~stall
                <5>1. bus_pend' = [we |-> hb_we, addr |-> hb_addr, data |-> hb_data]
                    BY <1>2, <2>2, <4>2
                <5> QED BY <3>1, <4>2, <5>1 DEF DevWe
            <4> QED BY <4>1, <4>2
        <3>4. ASSUME ~hb_stb' PROVE bus_pend'.addr = DevAddr
            <4>1. bus_pend' = [we |-> hb_we, addr |-> hb_addr, data |-> hb_data]
                BY <1>2, <2>2, <3>1, <3>4
            <4>2. DevAddr = hb_addr
                BY <1>5, <1>7 DEF DevAddr
            <4> QED BY <4>1, <4>2
        <3> QED BY <2>1, <2>2, <3>1, <3>2, <3>3, <3>4
    <2>3. CASE ~hb_stb
        <3>1. hb_cyc' = ~answer /\ hb_stb' = FALSE
            BY <1>2, <1>7, <2>3
        <3>2. InDevice' = ~answer
            BY <2>1, <3>1, <1>6 DEF InDevice
        <3>3. ASSUME ~answer PROVE bus_pend' = bus_pend /\ DevWe' = DevWe
            <4>1. bus_pend' = bus_pend
                BY <1>2, <1>7, <2>3, <3>3
            <4> QED BY <1>7, <2>3, <3>1, <3>3, <4>1 DEF DevWe
        <3> QED BY <1>7, <2>1, <2>3, <3>1, <3>2, <3>3
    <2> QED BY <2>2, <2>3
<1>8. CASE ~hb_cyc
    <2>0. ~hb_stb
        BY <1>5, <1>8
    <2>1. hb_cyc' = (pck.op \in BusOps) /\ hb_stb' = (pck.op \in BusOps) /\ hb_we' = (pck.op = "write")
        BY <1>2, <1>8
    <2>2. InDevice = (r_word.op \in BusOps \/ pck.op \in BusOps)
        BY <1>8 DEF InDevice
    <2>3. DevWe = ("write" \in {r_word.op, pck.op})
        BY <1>8 DEF DevWe
    <2>4. ~(hb_cyc' /\ ~hb_stb')
        BY <2>1
    <2>5. CASE pck.op \in BusOps
        <3>1. InDevice /\ InDevice' /\ DevWe' = (pck.op = "write")
            BY <2>1, <2>2, <2>5 DEF InDevice, DevWe
        <3>2. DevWe = (pck.op = "write") /\ ~IsBusOp(dh)
            BY <1>5, <1>6, <2>3, <2>5 DEF IsBusOp
        <3> QED BY <1>8, <2>4, <3>1, <3>2
    <2>6. CASE pck.op \notin BusOps
        <3>1. ~hb_cyc'
            BY <2>1, <2>6
        <3>2. InDevice = (r_word.op \in BusOps)
            BY <2>2, <2>6
        <3>3. DevWe = ("write" = r_word.op)
            BY <2>3, <2>6 DEF BusOps
        <3>4. InDevice' = (r_word'.op \in BusOps \/ pck'.op \in BusOps)
            BY <3>1 DEF InDevice
        <3>5. DevWe' = ("write" \in {r_word'.op, pck'.op})
            BY <3>1 DEF DevWe
        <3>6. CASE dh.t = "op"
            <4>1. r_word'.op = dh.op
                BY <1>1, <3>6 DEF NoCmd, Ex!NoCmd
            <4>2. pck'.op \in {"none", "addr"}
                BY <1>1, <1>5, <3>6
            <4>3. ~InDevice
                BY <1>5, <1>6, <3>2, <3>6
            <4>4. IsBusOp(dh) <=> dh.op \in BusOps
                BY <3>6 DEF IsBusOp
            <4>5. InDevice' <=> IsBusOp(dh)
                BY <1>6, <3>4, <4>1, <4>2, <4>4
            <4>6. DevWe' = (dh.op = "write")
                BY <1>6, <3>5, <4>1, <4>2
            <4> QED BY <2>4, <4>3, <4>5, <4>6
        <3>7. CASE dh.t # "op"
            <4>1. ~IsBusOp(dh)
                BY <3>7 DEF IsBusOp
            <4>2. \/ r_word'.op = r_word.op /\ pck'.op = "none"
                  \/ r_word'.op = "none" /\ pck'.op = r_word.op
                <5>1. CASE dh.t = "none"
                    BY <1>1, <1>3, <5>1
                <5>2. CASE dh.t = "digits"
                    <6>1. r_word' = [r_word EXCEPT !.addr = dh.addr, !.hold = dh.hold, !.data = dh.data]
                          /\ pck' = NoCmd
                        BY <1>1, <5>2
                    <6> QED BY <1>3, <1>4, <6>1 DEF IsCmd
                <5>3. CASE dh.t = "end"
                    BY <1>1, <1>3, <5>3
                <5> QED BY <1>4, <3>7, <5>1, <5>2, <5>3
            <4>3. InDevice' <=> InDevice
                BY <1>6, <3>2, <3>4, <4>2
            <4>4. DevWe' = DevWe
                BY <1>6, <3>3, <3>5, <4>2
            <4> QED BY <1>8, <2>4, <4>1, <4>3, <4>4
        <3> QED BY <3>6, <3>7
    <2> QED BY <2>5, <2>6
<1> QED BY <1>7, <1>8

\* What the device has, after a clock that a byte came in at.
LEMMA TakeMoves ==
    ASSUME Typed, OneCommand, NEW byte, NEW stall \in BOOLEAN, NEW answer \in BOOLEAN,
           DeviceStep(byte, stall, answer), ByteTime,
           byte.t \in {"op", "digits", "end"}
    PROVE  /\ dh' = byte /\ dh.t = "none" /\ Ctx = r_word.op
           /\ Ctx' = IF byte.t = "op" THEN byte.op ELSE IF byte.t = "end" THEN "none" ELSE Ctx
           /\ DevAddr' = IF Ctx = "addr" /\ byte.t = "digits" THEN byte.addr ELSE DevAddr
           /\ DevHold' = IF Ctx = "addr" /\ byte.t = "digits" THEN byte.hold ELSE DevHold
           /\ InDevice' <=> InDevice
           /\ InDevice <=> Ctx \in BusOps
           /\ InDevice => DevWe' = DevWe
           /\ ~hb_cyc' /\ ~hb_cyc /\ asked' = asked
<1>1. dh = NoToken /\ pck = NoCmd /\ ~hb_cyc
    BY DEF ByteTime
<1>2. NoCmd.op = "none" /\ NoToken.t = "none" /\ "none" \notin BusOps /\ "write" \in BusOps
    BY DEF NoCmd, Ex!NoCmd, NoToken, BusOps
<1>3. dh' = byte /\ r_word' = r_word /\ pck' = NoCmd
    BY <1>1, <1>2, PackIs DEF DeviceStep
<1>4. /\ hb_cyc' = (pck.op \in BusOps) /\ hb_addr' = hb_addr /\ inc' = inc /\ asked' = asked
    BY <1>1, <1>2, BusIs DEF DeviceStep
<1>5. ~hb_cyc'
    BY <1>1, <1>2, <1>4
<1>6. dh.t = "none" /\ Ctx = r_word.op
    BY <1>1, <1>2 DEF Ctx
<1>7. Ctx' = IF byte.t = "op" THEN byte.op ELSE IF byte.t = "end" THEN "none" ELSE Ctx
    BY <1>3, <1>6 DEF Ctx
<1>8. /\ DevAddr' = IF Ctx = "addr" /\ byte.t = "digits" THEN byte.addr ELSE DevAddr
      /\ DevHold' = IF Ctx = "addr" /\ byte.t = "digits" THEN byte.hold ELSE DevHold
    BY <1>1, <1>2, <1>3, <1>4, <1>6 DEF DevAddr, DevHold
<1>9. InDevice' <=> InDevice
    BY <1>1, <1>2, <1>3, <1>5 DEF InDevice
<1>10. InDevice <=> Ctx \in BusOps
    BY <1>1, <1>2, <1>6 DEF InDevice
<1>11. DevWe' = DevWe
    BY <1>1, <1>3, <1>5 DEF DevWe
<1> QED BY <1>1, <1>3, <1>4, <1>5, <1>6, <1>7, <1>8, <1>9, <1>10, <1>11

\* A line loses its first byte.
LEMMA SpeltTail ==
    ASSUME NEW q, IsSeq(q), q # <<>>, Spelt(q)
    PROVE  Spelt(Tail(q))
<1> DEFINE r == Tail(q)  n == Len(q)
<1>1. /\ IsSeq(r) /\ n \in Nat \ {0} /\ Len(r) = n - 1
      /\ \A k \in 1 .. n - 1 : r[k] = q[k + 1]
    BY TailIs
<1> HIDE DEF r
<1> SUFFICES ASSUME NEW k \in 1 .. Len(r) PROVE SpeltAt(r, k)
    BY DEF Spelt, r
<1>2. PICK j \in 1 .. n : j = k + 1
    BY <1>1
<1>3. /\ q[j].t \in {"op", "digits", "end"}
      /\ q[j].t = "op" =>
          /\ q[j].op \in {"addr"} \cup BusOps /\ j + 1 <= n
          /\ q[j].op = "addr" => j + 2 <= n /\ IsAddrDigits(q[j + 1]) /\ IsBusOp(q[j + 2])
          /\ q[j].op = "read" => q[j + 1].t = "end"
          /\ q[j].op = "write" =>
                \/ q[j + 1].t = "end"
                \/ j + 2 <= n /\ q[j + 1].t = "digits" /\ q[j + 2].t = "end"
      /\ q[j].t = "digits" =>
          /\ j + 1 <= n /\ q[j].hold \in BOOLEAN /\ q[j].addr \in Addresses
          /\ q[j + 1].t = "op" => IsAddrDigits(q[j])
      /\ q[j].t = "end" =>
          /\ j + 1 <= n => q[j + 1].t = "op"
          /\ j - 1 >= 1 =>
                \/ IsBusOp(q[j - 1])
                \/ q[j - 1].t = "digits" /\ (j - 2 >= 1 => IsBusOp(q[j - 2]))
    BY <1>2 DEF Spelt, SpeltAt
<1> HIDE DEF n
<1>4. k \in Nat \ {0} /\ k <= n - 1 /\ j = k + 1 /\ n \in Nat
    BY <1>1, <1>2
<1>5. r[k] = q[j] /\ (j + 1 <= n => r[k + 1] = q[j + 1]) /\ (j + 2 <= n => r[k + 2] = q[j + 2])
    <2>1. r[k] = q[j]
        BY <1>1, <1>4
    <2>2. ASSUME j + 1 <= n PROVE r[k + 1] = q[j + 1]
        <3>1. k + 1 \in 1 .. n - 1 /\ (k + 1) + 1 = j + 1
            BY <1>4, <2>2
        <3> QED BY <1>1, <3>1
    <2>3. ASSUME j + 2 <= n PROVE r[k + 2] = q[j + 2]
        <3>1. k + 2 \in 1 .. n - 1 /\ (k + 2) + 1 = j + 2
            BY <1>4, <2>3
        <3> QED BY <1>1, <3>1
    <2> QED BY <2>1, <2>2, <2>3
<1>6. /\ k - 1 >= 1 => r[k - 1] = q[j - 1] /\ j - 1 >= 1
      /\ k - 2 >= 1 => r[k - 2] = q[j - 2] /\ j - 2 >= 1
    <2>1. ASSUME k - 1 >= 1 PROVE r[k - 1] = q[j - 1] /\ j - 1 >= 1
        <3>1. k - 1 \in 1 .. n - 1 /\ (k - 1) + 1 = j - 1
            BY <1>4, <2>1
        <3> QED BY <1>1, <1>4, <2>1, <3>1
    <2>2. ASSUME k - 2 >= 1 PROVE r[k - 2] = q[j - 2] /\ j - 2 >= 1
        <3>1. k - 2 \in 1 .. n - 1 /\ (k - 2) + 1 = j - 2
            BY <1>4, <2>2
        <3> QED BY <1>1, <1>4, <2>2, <3>1
    <2> QED BY <2>1, <2>2
<1>7. /\ (j + 1 <= n) = (k + 1 <= Len(r)) /\ (j + 2 <= n) = (k + 2 <= Len(r))
    BY <1>1, <1>4
<1>8. CASE q[j].t = "op"
    BY <1>3, <1>5, <1>7, <1>8 DEF SpeltAt
<1>9. CASE q[j].t = "digits"
    BY <1>3, <1>5, <1>7, <1>9 DEF SpeltAt
<1>10. CASE q[j].t = "end"
    BY <1>3, <1>5, <1>6, <1>7, <1>10 DEF SpeltAt
<1> QED BY <1>3, <1>8, <1>9, <1>10

\* The first byte of the line is one that may come in.
LEMMA FirstOfUp ==
    ASSUME IsSeq(up), up # <<>>, Spelling
    PROVE  /\ up[1].t \in {"op", "digits", "end"}
           /\ up[1].t = "op" => up[1].op \in {"addr"} \cup BusOps
           /\ up[1].t = "digits" => up[1].hold \in BOOLEAN /\ up[1].addr \in Addresses
           /\ Ctx = "none" => up[1].t = "op"
           /\ Ctx = "addr" => IsAddrDigits(up[1]) \/ IsBusOp(up[1])
           /\ Ctx \in BusOps => up[1].t \in {"digits", "end"}
           /\ Len(up) \in Nat \ {0} /\ Head(up) = up[1]
<1>1. 1 \in 1 .. Len(up) /\ Len(up) \in Nat \ {0} /\ Head(up) = up[1]
    BY TailIs
<1>2. /\ up[1].t \in {"op", "digits", "end"}
      /\ up[1].t = "op" => up[1].op \in {"addr"} \cup BusOps
      /\ up[1].t = "digits" => up[1].hold \in BOOLEAN /\ up[1].addr \in Addresses
    BY <1>1 DEF Spelling, Spelt, SpeltAt
<1>3. /\ Ctx = "none" => up[1].t = "op"
      /\ Ctx = "addr" => IsAddrDigits(up[1]) \/ IsBusOp(up[1])
      /\ Ctx \in BusOps => up[1].t \in {"digits", "end"}
    BY DEF Spelling, GoesOn, BusOps
<1> QED BY <1>1, <1>2, <1>3

LEMMA QuietSpelling ==
    ASSUME Typed, OneCommand, Spelling, NEW stall \in BOOLEAN, NEW answer \in BOOLEAN,
           DeviceStep(NoToken, stall, answer), up' = up
    PROVE  Spelling'
<1>1. /\ dh' = NoToken /\ Ctx' = Ctx
      /\ ~IsAddrOp(dh) => DevAddr' = DevAddr /\ DevHold' = DevHold
      /\ IsAddrOp(dh) => Ctx = "addr"
    BY QuietMoves DEF Spelling
<1>2. Spelt(up)'
    BY DEF Spelling, Spelt, SpeltAt
<1>3. dh'.t # "op"
    BY <1>1 DEF NoToken
<1>4. GoesOn'
    BY <1>1, <1>3 DEF Spelling, GoesOn, IsAddrOp
<1> QED BY <1>2, <1>4 DEF Spelling

LEMMA TakeSpelling ==
    ASSUME Typed, OneCommand, Spelling, IsSeq(up), up # <<>>,
           NEW stall \in BOOLEAN, NEW answer \in BOOLEAN,
           DeviceStep(up[1], stall, answer), ByteTime, up' = Tail(up)
    PROVE  Spelling'
<1>1. /\ up[1].t \in {"op", "digits", "end"}
      /\ up[1].t = "op" => up[1].op \in {"addr"} \cup BusOps
      /\ Ctx = "none" => up[1].t = "op"
      /\ Ctx = "addr" => IsAddrDigits(up[1]) \/ IsBusOp(up[1])
      /\ Ctx \in BusOps => up[1].t \in {"digits", "end"}
      /\ Len(up) \in Nat \ {0}
    BY FirstOfUp
<1>2. /\ dh' = up[1] /\ dh.t = "none" /\ Ctx = r_word.op
      /\ Ctx' = IF up[1].t = "op" THEN up[1].op ELSE IF up[1].t = "end" THEN "none" ELSE Ctx
      /\ DevHold' = IF Ctx = "addr" /\ up[1].t = "digits" THEN up[1].hold ELSE DevHold
    BY <1>1, TakeMoves
<1>3. Spelt(up')
    BY SpeltTail DEF Spelling
<1>4. /\ Len(up') = Len(up) - 1 /\ \A k \in 1 .. Len(up) - 1 : up'[k] = up[k + 1]
    BY TailIs
<1>5. /\ 2 <= Len(up) => up'[1] = up[2] /\ 1 <= Len(up')
      /\ 3 <= Len(up) => up'[2] = up[3] /\ 2 <= Len(up')
      /\ up' # <<>> => 2 <= Len(up)
    <2>1. ASSUME 2 <= Len(up) PROVE up'[1] = up[2] /\ 1 <= Len(up')
        <3>1. 1 \in 1 .. Len(up) - 1 /\ 1 + 1 = 2
            BY <1>1, <2>1
        <3>2. up'[1] = up[2]
            BY <1>4, <3>1
        <3>3. 1 <= Len(up')
            BY <1>1, <1>4, <2>1
        <3> QED BY <3>2, <3>3
    <2>2. ASSUME 3 <= Len(up) PROVE up'[2] = up[3] /\ 2 <= Len(up')
        <3>1. 2 \in 1 .. Len(up) - 1 /\ 2 + 1 = 3
            BY <1>1, <2>2
        <3>2. up'[2] = up[3]
            BY <1>4, <3>1
        <3>3. 2 <= Len(up')
            BY <1>1, <1>4, <2>2
        <3> QED BY <3>2, <3>3
    <2>3. ASSUME up' # <<>> PROVE 2 <= Len(up)
        <3>1. IsSeq(up')
            BY TailIs
        <3>2. Len(up') >= 1
            BY <2>3, <3>1, TailIs
        <3> QED BY <1>1, <1>4, <3>2
    <2> QED BY <2>1, <2>2, <2>3
<1>6. Ctx \in {"none", "addr"} \cup BusOps
    BY <1>2 DEF Typed, IsCmd
<1>7. /\ up[1].t = "op" =>
          /\ up[1].op = "addr" => 3 <= Len(up) /\ IsAddrDigits(up[2]) /\ IsBusOp(up[3])
          /\ up[1].op = "read" => up[2].t = "end"
          /\ up[1].op = "write" =>
                \/ up[2].t = "end"
                \/ 3 <= Len(up) /\ up[2].t = "digits" /\ up[3].t = "end"
          /\ 2 <= Len(up)
      /\ up[1].t = "end" => (2 <= Len(up) => up[2].t = "op")
    <2>1. 1 \in 1 .. Len(up) /\ 1 + 1 = 2 /\ 1 + 2 = 3
        BY <1>1
    <2> QED BY <2>1 DEF Spelling, Spelt, SpeltAt
<1>8. /\ Ctx = "addr" =>
          \/ 2 <= Len(up) /\ IsAddrDigits(up[1]) /\ IsBusOp(up[2])
          \/ 1 <= Len(up) /\ IsBusOp(up[1]) /\ DevHold /\ dh.t # "op"
      /\ Ctx = "read" => 1 <= Len(up) /\ up[1].t = "end"
      /\ Ctx = "write" =>
          \/ 1 <= Len(up) /\ up[1].t = "end"
          \/ 2 <= Len(up) /\ up[1].t = "digits" /\ up[2].t = "end"
      /\ DevHold \/ Ctx = "addr"
    BY DEF Spelling, GoesOn
<1>9. CASE up[1].t = "op"
    <2>1. Ctx' = up[1].op /\ DevHold' = DevHold /\ 2 <= Len(up)
        BY <1>2, <1>7, <1>9
    <2>2. Ctx \in {"none", "addr"} /\ (Ctx = "addr" => up[1].op \in BusOps /\ DevHold)
        BY <1>1, <1>6, <1>8, <1>9 DEF IsAddrDigits, IsBusOp, BusOps
    <2>3. DevHold
        BY <1>8, <2>2
    <2>4. CASE up[1].op = "addr"
        <3>1. 3 <= Len(up) /\ IsAddrDigits(up[2]) /\ IsBusOp(up[3])
            BY <1>7, <1>9, <2>4
        <3>2. 2 <= Len(up') /\ IsAddrDigits(up'[1]) /\ IsBusOp(up'[2])
            BY <1>5, <2>1, <3>1
        <3>3. Ctx' = "addr"
            BY <2>1, <2>4
        <3> QED BY <1>3, <3>2, <3>3 DEF Spelling, GoesOn
    <2>5. CASE up[1].op = "read"
        <3>1. up'[1].t = "end" /\ 1 <= Len(up') /\ Ctx' = "read" /\ DevHold'
            BY <1>5, <1>7, <1>9, <2>1, <2>3, <2>5
        <3> QED BY <1>3, <3>1 DEF Spelling, GoesOn
    <2>6. CASE up[1].op = "write"
        <3>1. Ctx' = "write" /\ DevHold'
            BY <2>1, <2>3, <2>6
        <3>2. \/ up[2].t = "end"
              \/ 3 <= Len(up) /\ up[2].t = "digits" /\ up[3].t = "end"
            BY <1>7, <1>9, <2>6
        <3>3. \/ 1 <= Len(up') /\ up'[1].t = "end"
              \/ 2 <= Len(up') /\ up'[1].t = "digits" /\ up'[2].t = "end"
            BY <1>5, <2>1, <3>2
        <3> QED BY <1>3, <3>1, <3>3 DEF Spelling, GoesOn
    <2> QED BY <1>1, <1>9, <2>4, <2>5, <2>6 DEF BusOps
<1>10. CASE up[1].t = "end"
    <2>1. Ctx' = "none" /\ DevHold' = DevHold
        BY <1>2, <1>10
    <2>2. Ctx # "addr"
        BY <1>1, <1>10 DEF IsAddrDigits, IsBusOp
    <2>3. up' # <<>> => up'[1].t = "op"
        BY <1>5, <1>7, <1>10
    <2>4. DevHold'
        BY <1>8, <2>1, <2>2
    <2> QED BY <1>3, <2>1, <2>3, <2>4 DEF Spelling, GoesOn
<1>11. CASE up[1].t = "digits"
    <2>1. Ctx' = Ctx /\ dh'.t = "digits"
        BY <1>2, <1>11
    <2>2. Ctx \in {"addr", "write"}
        BY <1>1, <1>6, <1>8, <1>11 DEF BusOps
    <2>3. CASE Ctx = "addr"
        <3>1. 2 <= Len(up) /\ IsAddrDigits(up[1]) /\ IsBusOp(up[2])
            BY <1>8, <1>11, <2>3 DEF IsBusOp
        <3>2. 1 <= Len(up') /\ IsBusOp(up'[1]) /\ DevHold' /\ dh'.t # "op" /\ Ctx' = "addr"
            BY <1>2, <1>5, <1>11, <2>1, <2>3, <3>1 DEF IsAddrDigits
        <3> QED BY <1>3, <3>2 DEF Spelling, GoesOn
    <2>4. CASE Ctx = "write"
        <3>1. 1 <= Len(up') /\ up'[1].t = "end"
            BY <1>5, <1>8, <1>11, <2>4
        <3>2. DevHold' /\ Ctx' = "write"
            BY <1>2, <1>8, <2>1, <2>4
        <3> QED BY <1>3, <3>1, <3>2 DEF Spelling, GoesOn
    <2> QED BY <2>2, <2>3, <2>4
<1> QED BY <1>1, <1>9, <1>10, <1>11

\* The accesses that were asked for, after a clock that no byte came in at.
LEMMA QuietAsked ==
    ASSUME Typed, OneCommand, Spelling, IsSeq(up), IsSeq(asked), NEW f, AskedAt(f),
           NEW stall \in BOOLEAN, NEW answer \in BOOLEAN,
           DeviceStep(NoToken, stall, answer), up' = up
    PROVE  IsSeq(asked') /\ \E g : AskedAt(g)'
<1> DEFINE n == Len(asked)  ans == hb_cyc /\ ~hb_stb /\ answer
<1>1. /\ dh' = NoToken /\ Ctx' = Ctx
      /\ ~IsAddrOp(dh) => DevAddr' = DevAddr /\ DevHold' = DevHold
      /\ IsAddrOp(dh) => Ctx = "addr"
    BY QuietMoves DEF Spelling
<1>2. /\ IsBusOp(dh) => ~InDevice
      /\ InDevice' <=> IsBusOp(dh) \/ (InDevice /\ ~(hb_cyc /\ ~hb_stb /\ answer))
      /\ InDevice /\ InDevice' => DevWe' = DevWe
      /\ IsBusOp(dh) => DevWe' = (dh.op = "write")
      /\ hb_cyc' /\ ~hb_stb' =>
           InDevice /\ bus_pend'.addr = IF hb_stb THEN DevAddr ELSE bus_pend.addr
      /\ hb_cyc' /\ ~hb_stb' /\ ~hb_stb => hb_cyc
    BY QuietAccess DEF Spelling
<1>3. IF ans /\ asked # <<>> THEN asked' = Tail(asked) ELSE asked' = asked
    BY BusIs DEF DeviceStep
<1>4. n \in Nat /\ Len(up) \in Nat
    BY SeqIs DEF IsSeq
<1>5. /\ \A j \in 1 .. n : f[j] \in Int /\ -1 <= f[j] /\ f[j] <= Len(up)
      /\ \A j, k \in 1 .. n : j < k => f[j] < f[k]
      /\ \A k \in 0 .. Len(up) : IsBusOp(Place(k)) => \E j \in 1 .. n : f[j] = k
      /\ \A j \in 1 .. n :
          /\ f[j] >= 0 => IsBusOp(Place(f[j])) /\ (Place(f[j]).op = "write") = asked[j].we
          /\ f[j] <= 1 => DevAddr = asked[j].addr
          /\ f[j] >= 2 =>
                \/ up[f[j] - 1].t = "digits" /\ up[f[j] - 1].addr = asked[j].addr
                \/ up[f[j] - 1].t = "end" /\ j > 1 /\ asked[j].addr = asked[j - 1].addr
    BY <1>4 DEF AskedAt
<1>6. /\ InDevice <=> (n > 0 /\ f[1] = -1)
      /\ InDevice => asked[1].we = DevWe
      /\ hb_cyc /\ ~hb_stb => bus_pend.addr = asked[1].addr
    BY DEF AskedAt
<1>7. \A k \in Nat : k # 0 => Place(k)' = Place(k)
    BY DEF Place
<1>8. ~IsBusOp(Place(0)') /\ Place(0) = dh
    BY <1>1 DEF Place, IsBusOp, NoToken
\* an address that comes in is for an access that is still on the line
<1>9. ASSUME NEW j \in 1 .. n, f[j] <= 1 PROVE ~IsAddrOp(dh)
    <2> SUFFICES ASSUME IsAddrOp(dh) PROVE FALSE
        OBVIOUS
    <2>1. ~InDevice
        BY DEF IsAddrOp, InDevice, OneCommand, BusOps
    <2>2. f[j] # -1
        <3> SUFFICES ASSUME f[j] = -1 PROVE FALSE
            OBVIOUS
        <3>1. n > 0 /\ 1 \in 1 .. n
            BY <1>4
        <3>2. j = 1
            <4> SUFFICES ASSUME j # 1 PROVE FALSE
                OBVIOUS
            <4>1. 1 < j
                BY <1>4
            <4>2. f[1] < f[j]
                BY <1>5, <3>1, <4>1
            <4> QED BY <1>5, <3>1, <4>2
        <3> QED BY <1>6, <2>1, <3>1, <3>2
    <2>3. f[j] # 0
        <3>1. ~IsBusOp(dh)
            BY DEF IsAddrOp, IsBusOp, BusOps
        <3> QED BY <1>5, <1>8, <3>1
    <2>4. f[j] = 1 /\ f[j] <= Len(up)
        BY <1>4, <1>5, <1>9, <2>2, <2>3
    <2>5. IsBusOp(up[1])
        BY <1>5, <2>4 DEF Place
    <2>6. Ctx = "addr" /\ dh.t = "op"
        BY <1>1 DEF IsAddrOp
    <2> QED BY <2>5, <2>6 DEF Spelling, GoesOn, IsAddrDigits, IsBusOp
<1>10. CASE ~ans
    <2>0. PICK g : g = [j \in 1 .. n |-> IF f[j] = 0 THEN -1 ELSE f[j]]
        OBVIOUS
    <2>1. asked' = asked
        BY <1>3, <1>10
    <2>2. InDevice' <=> IsBusOp(dh) \/ InDevice
        BY <1>2, <1>10
    <2>3. \A j \in 1 .. n : g[j] = (IF f[j] = 0 THEN -1 ELSE f[j]) /\ g[j] \in Int
        BY <1>5, <2>0
    <2>4. g \in [1 .. n -> Int]
        BY <1>5, <2>0
    <2>5. \A j \in 1 .. n : -1 <= g[j] /\ g[j] <= Len(up)
        BY <1>4, <1>5, <2>3
    <2>6. n > 0 => 1 \in 1 .. n
        BY <1>4
    <2>7. ASSUME NEW j \in 1 .. n, f[j] = 0 PROVE j = 1
        <3> SUFFICES ASSUME 1 < j PROVE FALSE
            BY <1>4
        <3>1. f[1] < f[j] /\ 1 \in 1 .. n /\ n > 0
            BY <1>4, <1>5
        <3>2. f[1] = -1
            BY <1>5, <2>7, <3>1
        <3>3. InDevice /\ IsBusOp(dh)
            BY <1>5, <1>6, <1>8, <2>7, <3>1, <3>2
        <3> QED BY <1>2, <3>3
    <2>8. ASSUME NEW j \in 1 .. n, NEW k \in 1 .. n, j < k PROVE g[j] < g[k]
        <3>1. f[j] < f[k] /\ f[j] \in Int /\ f[k] \in Int /\ -1 <= f[j]
            BY <1>5, <2>8
        <3>2. k # 1
            BY <1>4, <2>8
        <3>3. f[k] # 0
            BY <2>7, <3>2
        <3> QED BY <2>3, <3>1, <3>3
    <2>9. ASSUME NEW k \in 0 .. Len(up), IsBusOp(Place(k)') PROVE \E j \in 1 .. n : g[j] = k
        <3>1. k # 0 /\ k \in Nat
            BY <1>8, <2>9, <1>4
        <3>2. IsBusOp(Place(k))
            BY <1>7, <2>9, <3>1
        <3>3. PICK j \in 1 .. n : f[j] = k
            BY <1>5, <3>2
        <3> QED BY <2>3, <3>1, <3>3
    <2>10. ASSUME NEW j \in 1 .. n
           PROVE  /\ g[j] >= 0 => IsBusOp(Place(g[j])') /\ (Place(g[j])'.op = "write") = asked[j].we
                  /\ g[j] <= 1 => DevAddr' = asked[j].addr
                  /\ g[j] >= 2 =>
                       \/ up[g[j] - 1].t = "digits" /\ up[g[j] - 1].addr = asked[j].addr
                       \/ up[g[j] - 1].t = "end" /\ j > 1 /\ asked[j].addr = asked[j - 1].addr
        <3>1. ASSUME g[j] >= 0
              PROVE  IsBusOp(Place(g[j])') /\ (Place(g[j])'.op = "write") = asked[j].we
            <4>1. g[j] = f[j] /\ f[j] # 0 /\ f[j] \in Nat
                BY <1>5, <2>3, <3>1
            <4>2. Place(f[j])' = Place(f[j])
                BY <1>7, <4>1
            <4>3. IsBusOp(Place(f[j])) /\ (Place(f[j]).op = "write") = asked[j].we
                BY <1>5, <4>1
            <4> QED BY <4>1, <4>2, <4>3
        <3>2. ASSUME g[j] <= 1 PROVE DevAddr' = asked[j].addr
            <4>1. f[j] <= 1
                BY <1>5, <2>3, <3>2
            <4> QED BY <1>1, <1>5, <1>9, <4>1
        <3>3. ASSUME g[j] >= 2
              PROVE  \/ up[g[j] - 1].t = "digits" /\ up[g[j] - 1].addr = asked[j].addr
                     \/ up[g[j] - 1].t = "end" /\ j > 1 /\ asked[j].addr = asked[j - 1].addr
            <4>1. g[j] = f[j]
                BY <1>5, <2>3, <3>3
            <4> QED BY <1>5, <3>3, <4>1
        <3> QED BY <3>1, <3>2, <3>3
    <2>11. InDevice' <=> (n > 0 /\ g[1] = -1)
        <3>1. ASSUME IsBusOp(dh) PROVE n > 0 /\ g[1] = -1
            <4>1. 0 \in 0 .. Len(up)
                BY <1>4
            <4>2. PICK j \in 1 .. n : f[j] = 0
                BY <1>5, <1>8, <3>1, <4>1
            <4>3. j = 1
                BY <2>7, <4>2
            <4> QED BY <1>4, <2>3, <4>2, <4>3
        <3>2. ASSUME InDevice PROVE n > 0 /\ g[1] = -1
            BY <1>6, <2>3, <2>6, <3>2
        <3>3. ASSUME n > 0, g[1] = -1, f[1] = 0 PROVE IsBusOp(dh)
            BY <1>5, <1>8, <2>6, <3>3
        <3>4. ASSUME n > 0, g[1] = -1, f[1] # 0 PROVE InDevice
            BY <1>6, <2>3, <2>6, <3>4
        <3> QED BY <2>2, <3>1, <3>2, <3>3, <3>4
    <2>12. ASSUME InDevice' PROVE asked[1].we = DevWe'
        <3>1. CASE InDevice
            BY <1>2, <1>6, <2>12, <3>1
        <3>2. CASE IsBusOp(dh)
            <4>1. 0 \in 0 .. Len(up)
                BY <1>4
            <4>2. PICK j \in 1 .. n : f[j] = 0
                BY <1>5, <1>8, <3>2, <4>1
            <4>3. j = 1
                BY <2>7, <4>2
            <4>4. (dh.op = "write") = asked[1].we
                BY <1>5, <1>8, <4>2, <4>3
            <4> QED BY <1>2, <3>2, <4>4
        <3> QED BY <2>2, <2>12, <3>1, <3>2
    <2>13. ASSUME hb_cyc', ~hb_stb' PROVE bus_pend'.addr = asked[1].addr
        <3>1. InDevice /\ bus_pend'.addr = IF hb_stb THEN DevAddr ELSE bus_pend.addr
            BY <1>2, <2>13
        <3>2. CASE hb_stb
            <4>1. n > 0 /\ f[1] = -1
                BY <1>6, <3>1
            <4>2. DevAddr = asked[1].addr
                BY <1>5, <2>6, <4>1
            <4> QED BY <3>1, <3>2, <4>2
        <3>3. CASE ~hb_stb
            BY <1>2, <1>6, <2>13, <3>1, <3>3
        <3> QED BY <3>2, <3>3
    <2>14. AskedAt(g)'
        BY <2>1, <2>4, <2>5, <2>8, <2>9, <2>10, <2>11, <2>12, <2>13 DEF AskedAt
    <2> QED BY <2>1, <2>14
<1>11. CASE ans
    <2> DEFINE m == n - 1
    <2>0. PICK g : g = [j \in 1 .. m |-> f[j + 1]]
        OBVIOUS
    <2>1. InDevice /\ ~IsBusOp(dh) /\ ~InDevice'
        BY <1>2, <1>11 DEF InDevice
    <2>2. n > 0 /\ f[1] = -1 /\ 1 \in 1 .. n
        BY <1>4, <1>6, <2>1
    <2>3. asked # <<>>
        BY <2>2
    <2>4. /\ asked' = Tail(asked) /\ IsSeq(asked') /\ Len(asked') = m
          /\ \A j \in 1 .. m : asked'[j] = asked[j + 1]
        BY <1>3, <1>11, <2>3, TailIs
    <2>5. \A j \in 1 .. m : g[j] = f[j + 1] /\ j + 1 \in 1 .. n /\ j + 1 \in Nat /\ 1 < j + 1
        BY <1>4, <2>0
    <2>6. g \in [1 .. m -> Int]
        BY <1>5, <2>0, <2>5
    <2>7. \A j \in 1 .. m : -1 <= g[j] /\ g[j] <= Len(up)
        BY <1>5, <2>5
    <2>8. ASSUME NEW j \in 1 .. m, NEW k \in 1 .. m, j < k PROVE g[j] < g[k]
        <3>1. j + 1 < k + 1
            BY <1>4, <2>8
        <3> QED BY <1>5, <2>5, <3>1
    <2>9. ASSUME NEW k \in 0 .. Len(up), IsBusOp(Place(k)') PROVE \E j \in 1 .. m : g[j] = k
        <3>1. k # 0 /\ k \in Nat
            BY <1>8, <2>9, <1>4
        <3>2. IsBusOp(Place(k))
            BY <1>7, <2>9, <3>1
        <3>3. PICK j \in 1 .. n : f[j] = k
            BY <1>5, <3>2
        <3>4. j # 1
            BY <2>2, <3>1, <3>3
        <3>5. j - 1 \in 1 .. m /\ (j - 1) + 1 = j
            BY <1>4, <3>4
        <3> QED BY <2>5, <3>3, <3>5
    <2>10. ASSUME NEW j \in 1 .. m PROVE f[j + 1] > -1 /\ f[j + 1] # 0 /\ f[j + 1] \in Nat
        <3>1. f[1] < f[j + 1]
            BY <1>5, <2>2, <2>5
        <3>2. f[j + 1] \in Int /\ (f[j + 1] >= 0 => IsBusOp(Place(f[j + 1])))
            BY <1>5, <2>5
        <3>3. f[j + 1] # 0
            BY <1>8, <2>1, <3>2
        <3> QED BY <2>2, <3>1, <3>2, <3>3
    <2>11. DevAddr' = DevAddr
        <3>1. ~IsAddrOp(dh)
            BY <1>9, <2>2
        <3> QED BY <1>1, <3>1
    \* the next access is at the head of the line, with its address if it has one
    <2>12. ASSUME m > 0, f[2] >= 2 PROVE up[f[2] - 1].t # "end"
        <3> SUFFICES ASSUME up[f[2] - 1].t = "end" PROVE FALSE
            OBVIOUS
        <3>1. 2 \in 1 .. n /\ f[2] \in Int /\ f[2] <= Len(up)
            BY <1>4, <1>5, <2>12
        <3> DEFINE k == f[2] - 1
        <3>2. k \in 1 .. Len(up)
            BY <1>4, <2>12, <3>1
        <3>3. k - 1 >= 1 =>
                \/ IsBusOp(up[k - 1])
                \/ up[k - 1].t = "digits" /\ (k - 2 >= 1 => IsBusOp(up[k - 2]))
            BY <3>2 DEF Spelling, Spelt, SpeltAt
        \* there is no access before it
        <3>4. ASSUME NEW l \in Nat, l >= 1, l < f[2] PROVE ~IsBusOp(up[l])
            <4> SUFFICES ASSUME IsBusOp(up[l]) PROVE FALSE
                OBVIOUS
            <4>1. l \in 0 .. Len(up) /\ Place(l) = up[l]
                BY <1>4, <3>1, <3>4 DEF Place
            <4>2. PICK j \in 1 .. n : f[j] = l
                BY <1>5, <4>1
            <4>3. j # 1 /\ j # 2
                BY <2>2, <3>4, <4>2
            <4>4. 2 < j
                BY <1>4, <4>3
            <4>5. f[2] < f[j]
                BY <1>5, <3>1, <4>4
            <4> QED BY <1>5, <3>1, <3>4, <4>2, <4>5
        <3>5. Ctx = "none"
            BY <1>11 DEF Ctx, OneCommand
        <3>6. up # <<>> /\ up[1].t = "op"
            <4>1. up # <<>>
                BY <1>4, <3>2
            <4> QED BY <3>5, <4>1 DEF Spelling, GoesOn
        <3> HIDE DEF k
        <3>7. CASE k = 1
            BY <3>6, <3>7 DEF k
        <3>8. CASE k = 2
            <4>1. ~IsBusOp(up[1])
                BY <3>1, <3>4, <3>8 DEF k
            <4>2. k - 1 = 1
                BY <3>8
            <4> QED BY <3>3, <3>6, <4>1, <4>2
        <3>9. CASE k > 2
            <4>1. ~IsBusOp(up[k - 1]) /\ ~IsBusOp(up[k - 2])
                <5>1. k - 1 \in Nat /\ k - 2 \in Nat /\ k - 1 >= 1 /\ k - 2 >= 1
                      /\ k - 1 < f[2] /\ k - 2 < f[2]
                    BY <3>1, <3>2, <3>9 DEF k
                <5> QED BY <3>4, <5>1
            <4>2. k - 1 >= 1 /\ k - 2 >= 1
                BY <3>2, <3>9
            <4> QED BY <3>3, <4>1, <4>2
        <3> QED BY <3>2, <3>7, <3>8, <3>9
    <2>13. ASSUME NEW j \in 1 .. m
           PROVE  /\ g[j] >= 0 => IsBusOp(Place(g[j])') /\ (Place(g[j])'.op = "write") = asked'[j].we
                  /\ g[j] <= 1 => DevAddr' = asked'[j].addr
                  /\ g[j] >= 2 =>
                       \/ up[g[j] - 1].t = "digits" /\ up[g[j] - 1].addr = asked'[j].addr
                       \/ up[g[j] - 1].t = "end" /\ j > 1 /\ asked'[j].addr = asked'[j - 1].addr
        <3>1. g[j] = f[j + 1] /\ asked'[j] = asked[j + 1] /\ j + 1 \in 1 .. n /\ f[j + 1] \in Nat
              /\ f[j + 1] # 0
            BY <2>4, <2>5, <2>10
        <3>2. IsBusOp(Place(g[j])') /\ (Place(g[j])'.op = "write") = asked'[j].we
            <4>1. Place(f[j + 1])' = Place(f[j + 1])
                BY <1>7, <3>1
            <4>2. IsBusOp(Place(f[j + 1])) /\ (Place(f[j + 1]).op = "write") = asked[j + 1].we
                BY <1>5, <3>1
            <4> QED BY <3>1, <4>1, <4>2
        <3>3. ASSUME g[j] <= 1 PROVE DevAddr' = asked'[j].addr
            BY <1>5, <2>11, <3>1, <3>3
        <3>4. ASSUME g[j] >= 2
              PROVE  \/ up[g[j] - 1].t = "digits" /\ up[g[j] - 1].addr = asked'[j].addr
                     \/ up[g[j] - 1].t = "end" /\ j > 1 /\ asked'[j].addr = asked'[j - 1].addr
            <4>1. \/ up[f[j + 1] - 1].t = "digits" /\ up[f[j + 1] - 1].addr = asked[j + 1].addr
                  \/ up[f[j + 1] - 1].t = "end" /\ asked[j + 1].addr = asked[(j + 1) - 1].addr
                BY <1>5, <3>1, <3>4
            <4>2. CASE j = 1
                <5>1. up[f[2] - 1].t # "end" /\ j + 1 = 2
                    BY <1>4, <2>12, <3>1, <3>4, <4>2
                <5> QED BY <3>1, <4>1, <5>1
            <4>3. CASE j # 1
                <5>1. j > 1 /\ j - 1 \in 1 .. m /\ (j - 1) + 1 = j /\ (j + 1) - 1 = j
                    BY <1>4, <4>3
                <5>2. asked'[j - 1] = asked[j]
                    BY <2>4, <5>1
                <5> QED BY <3>1, <4>1, <5>1, <5>2
            <4> QED BY <4>2, <4>3
        <3> QED BY <3>2, <3>3, <3>4
    <2>14. ~(m > 0 /\ g[1] = -1)
        <3> SUFFICES ASSUME m > 0, g[1] = -1 PROVE FALSE
            OBVIOUS
        <3>1. 1 \in 1 .. m
            BY <1>4
        <3>2. g[1] = f[1 + 1]
            BY <2>5, <3>1
        <3>3. f[1 + 1] > -1
            BY <2>10, <3>1
        <3> QED BY <3>2, <3>3
    <2>15. ~(hb_cyc' /\ ~hb_stb')
        BY <2>1 DEF InDevice
    <2>16. m \in Int
        BY <1>4
    <2> HIDE DEF m
    <2>17. /\ g \in [1 .. Len(asked') -> Int]
           /\ \A j \in 1 .. Len(asked') : -1 <= g[j] /\ g[j] <= Len(up')
           /\ \A j, k \in 1 .. Len(asked') : j < k => g[j] < g[k]
           /\ \A k \in 0 .. Len(up') : IsBusOp(Place(k)') => \E j \in 1 .. Len(asked') : g[j] = k
        BY <2>4, <2>6, <2>7, <2>8, <2>9
    <2>18. \A j \in 1 .. Len(asked') :
             /\ g[j] >= 0 => IsBusOp(Place(g[j])') /\ (Place(g[j])'.op = "write") = asked'[j].we
             /\ g[j] <= 1 => DevAddr' = asked'[j].addr
             /\ g[j] >= 2 =>
                  \/ up'[g[j] - 1].t = "digits" /\ up'[g[j] - 1].addr = asked'[j].addr
                  \/ up'[g[j] - 1].t = "end" /\ j > 1 /\ asked'[j].addr = asked'[j - 1].addr
        BY <2>4, <2>13
    <2>19. /\ InDevice' <=> (Len(asked') > 0 /\ g[1] = -1)
           /\ InDevice' => asked'[1].we = DevWe'
           /\ hb_cyc' /\ ~hb_stb' => bus_pend'.addr = asked'[1].addr
        BY <2>1, <2>4, <2>14, <2>15
    <2>20. AskedAt(g)'
        BY <2>17, <2>18, <2>19 DEF AskedAt
    <2> QED BY <2>4, <2>20
<1> QED BY <1>10, <1>11

\* The same, after a clock that a byte came in at.
LEMMA TakeAsked ==
    ASSUME Typed, OneCommand, Spelling, IsSeq(up), up # <<>>, IsSeq(asked), NEW f, AskedAt(f),
           NEW stall \in BOOLEAN, NEW answer \in BOOLEAN,
           DeviceStep(up[1], stall, answer), ByteTime, up' = Tail(up)
    PROVE  asked' = asked /\ \E g : AskedAt(g)'
<1> DEFINE n == Len(asked)
<1>1. /\ up[1].t \in {"op", "digits", "end"}
      /\ Ctx = "none" => up[1].t = "op"
      /\ Ctx = "addr" => IsAddrDigits(up[1]) \/ IsBusOp(up[1])
      /\ Ctx \in BusOps => up[1].t \in {"digits", "end"}
      /\ Len(up) \in Nat \ {0}
    BY FirstOfUp
<1>2. /\ dh' = up[1] /\ dh.t = "none" /\ Ctx = r_word.op
      /\ DevAddr' = IF Ctx = "addr" /\ up[1].t = "digits" THEN up[1].addr ELSE DevAddr
      /\ InDevice' <=> InDevice
      /\ InDevice <=> Ctx \in BusOps
      /\ InDevice => DevWe' = DevWe
      /\ ~hb_cyc' /\ ~hb_cyc /\ asked' = asked
    BY <1>1, TakeMoves
<1>3. Ctx \in {"none", "addr"} \cup BusOps
    BY <1>2 DEF Typed, IsCmd
<1>4. n \in Nat
    BY SeqIs DEF IsSeq
<1>5. /\ Len(up') = Len(up) - 1 /\ \A k \in 1 .. Len(up) - 1 : up'[k] = up[k + 1]
    BY TailIs
<1>6. /\ \A j \in 1 .. n : f[j] \in Int /\ -1 <= f[j] /\ f[j] <= Len(up)
      /\ \A j, k \in 1 .. n : j < k => f[j] < f[k]
      /\ \A k \in 0 .. Len(up) : IsBusOp(Place(k)) => \E j \in 1 .. n : f[j] = k
      /\ \A j \in 1 .. n :
          /\ f[j] >= 0 => IsBusOp(Place(f[j])) /\ (Place(f[j]).op = "write") = asked[j].we
          /\ f[j] <= 1 => DevAddr = asked[j].addr
          /\ f[j] >= 2 =>
                \/ up[f[j] - 1].t = "digits" /\ up[f[j] - 1].addr = asked[j].addr
                \/ up[f[j] - 1].t = "end" /\ j > 1 /\ asked[j].addr = asked[j - 1].addr
    BY <1>4 DEF AskedAt
<1>7. /\ InDevice <=> (n > 0 /\ f[1] = -1)
      /\ InDevice => asked[1].we = DevWe
    BY DEF AskedAt
\* every place comes one nearer
<1>8. ASSUME NEW k \in Nat, k + 1 <= Len(up) PROVE Place(k)' = Place(k + 1)
    <2>1. k + 1 # 0 /\ k + 1 \in Nat
        OBVIOUS
    <2>2. Place(k + 1) = up[k + 1]
        BY <2>1 DEF Place
    <2>3. CASE k = 0
        BY <1>2, <2>2, <2>3 DEF Place
    <2>4. CASE k # 0
        <3>1. k \in 1 .. Len(up) - 1
            BY <1>1, <1>8, <2>4
        <3>2. up'[k] = up[k + 1]
            BY <1>5, <3>1
        <3> QED BY <2>2, <2>4, <3>2 DEF Place
    <2> QED BY <2>3, <2>4
<1>9. ASSUME NEW j \in 1 .. n PROVE f[j] # 0
    BY <1>2, <1>6 DEF Place, IsBusOp
<1>10. PICK g : g = [j \in 1 .. n |-> IF f[j] = -1 THEN -1 ELSE f[j] - 1]
    OBVIOUS
<1>11. \A j \in 1 .. n : g[j] \in Int /\ g[j] = IF f[j] = -1 THEN -1 ELSE f[j] - 1
    BY <1>6, <1>10
<1>12. g \in [1 .. n -> Int]
    BY <1>6, <1>10
<1>13. \A j \in 1 .. n : -1 <= g[j] /\ g[j] <= Len(up')
    BY <1>1, <1>5, <1>6, <1>11
<1>14. ASSUME NEW j \in 1 .. n, NEW k \in 1 .. n, j < k PROVE g[j] < g[k]
    <2>1. f[j] < f[k] /\ f[j] \in Int /\ f[k] \in Int /\ -1 <= f[j]
        BY <1>6, <1>14
    <2>2. f[k] # 0 /\ f[j] # 0
        BY <1>9
    <2> QED BY <1>11, <2>1, <2>2
<1>15. ASSUME NEW k \in 0 .. Len(up'), IsBusOp(Place(k)') PROVE \E j \in 1 .. n : g[j] = k
    <2>1. k \in Nat /\ k + 1 <= Len(up) /\ k + 1 \in 0 .. Len(up)
        BY <1>1, <1>5
    <2>2. IsBusOp(Place(k + 1))
        BY <1>8, <1>15, <2>1
    <2>3. PICK j \in 1 .. n : f[j] = k + 1
        BY <1>6, <2>1, <2>2
    <2>4. g[j] = k
        BY <1>11, <2>1, <2>3
    <2> QED BY <2>4
<1>16. ASSUME NEW j \in 1 .. n
       PROVE  /\ g[j] >= 0 => IsBusOp(Place(g[j])') /\ (Place(g[j])'.op = "write") = asked[j].we
              /\ g[j] <= 1 => DevAddr' = asked[j].addr
              /\ g[j] >= 2 =>
                   \/ up'[g[j] - 1].t = "digits" /\ up'[g[j] - 1].addr = asked[j].addr
                   \/ up'[g[j] - 1].t = "end" /\ j > 1 /\ asked[j].addr = asked[j - 1].addr
    <2>0. f[j] \in Int /\ -1 <= f[j] /\ f[j] <= Len(up) /\ f[j] # 0
          /\ g[j] = IF f[j] = -1 THEN -1 ELSE f[j] - 1
        BY <1>6, <1>9, <1>11
    <2>1. ASSUME g[j] >= 0
          PROVE  IsBusOp(Place(g[j])') /\ (Place(g[j])'.op = "write") = asked[j].we
        <3>1. g[j] \in Nat /\ g[j] + 1 = f[j] /\ g[j] + 1 <= Len(up) /\ f[j] >= 0
            BY <2>0, <2>1
        <3>2. Place(g[j])' = Place(f[j])
            BY <1>8, <3>1
        <3>3. IsBusOp(Place(f[j])) /\ (Place(f[j]).op = "write") = asked[j].we
            BY <1>6, <3>1
        <3> QED BY <3>2, <3>3
    <2>2. ASSUME f[j] <= 1 PROVE DevAddr' = asked[j].addr
        <3>1. DevAddr = asked[j].addr
            BY <1>6, <2>2
        <3>2. ~(Ctx = "addr" /\ up[1].t = "digits")
            <4> SUFFICES ASSUME Ctx = "addr", up[1].t = "digits" PROVE FALSE
                OBVIOUS
            <4>1. ~InDevice
                BY <1>2 DEF BusOps
            <4>2. f[j] # 1
                <5> SUFFICES ASSUME f[j] = 1 PROVE FALSE
                    OBVIOUS
                <5>1. IsBusOp(up[1])
                    BY <1>6 DEF Place
                <5> QED BY <5>1 DEF IsBusOp
            <4>3. f[j] = -1
                BY <2>0, <2>2, <4>2
            <4>4. n > 0 /\ 1 \in 1 .. n
                BY <1>4
            <4>5. j = 1
                <5> SUFFICES ASSUME 1 < j PROVE FALSE
                    BY <1>4
                <5>1. f[1] < f[j] /\ -1 <= f[1] /\ f[1] \in Int
                    BY <1>6, <4>4
                <5> QED BY <4>3, <5>1
            <4> QED BY <1>7, <4>1, <4>3, <4>4, <4>5
        <3> QED BY <1>2, <3>1, <3>2
    <2>3. ASSUME f[j] = 2 PROVE DevAddr' = asked[j].addr
        <3>0. IsBusOp(up[2])
            BY <1>6, <2>3 DEF Place
        <3>1. CASE up[1].t = "digits" /\ up[1].addr = asked[j].addr
            <4>1. Ctx = "addr"
                <5>1. Ctx # "none" /\ Ctx # "read"
                    BY <1>1, <3>1 DEF Spelling, GoesOn
                <5>2. Ctx # "write"
                    BY <3>0, <3>1 DEF Spelling, GoesOn, IsBusOp
                <5> QED BY <1>3, <5>1, <5>2 DEF BusOps
            <4> QED BY <1>2, <3>1, <4>1
        <3>2. CASE up[1].t = "end" /\ j > 1 /\ asked[j].addr = asked[j - 1].addr
            <4>1. j - 1 \in 1 .. n /\ j - 1 < j
                BY <1>4, <3>2
            <4>2. f[j - 1] < 2 /\ f[j - 1] \in Int
                BY <1>6, <2>3, <4>1
            <4>3. DevAddr = asked[j - 1].addr
                <5>1. f[j - 1] <= 1
                    BY <4>2
                <5> QED BY <1>6, <4>1, <5>1
            <4>4. DevAddr' = DevAddr
                BY <1>2, <3>2
            <4> QED BY <3>2, <4>3, <4>4
        <3>3. \/ up[2 - 1].t = "digits" /\ up[2 - 1].addr = asked[j].addr
              \/ up[2 - 1].t = "end" /\ j > 1 /\ asked[j].addr = asked[j - 1].addr
            BY <1>6, <2>3
        <3>4. 2 - 1 = 1
            OBVIOUS
        <3> QED BY <3>1, <3>2, <3>3, <3>4
    <2>4. g[j] <= 1 => DevAddr' = asked[j].addr
        <3>1. g[j] <= 1 => f[j] <= 1 \/ f[j] = 2
            BY <2>0
        <3> QED BY <2>2, <2>3, <3>1
    <2>5. ASSUME g[j] >= 2
          PROVE  \/ up'[g[j] - 1].t = "digits" /\ up'[g[j] - 1].addr = asked[j].addr
                 \/ up'[g[j] - 1].t = "end" /\ j > 1 /\ asked[j].addr = asked[j - 1].addr
        <3>1. f[j] >= 2 /\ g[j] - 1 \in 1 .. Len(up) - 1 /\ (g[j] - 1) + 1 = f[j] - 1
            BY <1>1, <2>0, <2>5
        <3>2. up'[g[j] - 1] = up[f[j] - 1]
            BY <1>5, <3>1
        <3> QED BY <1>6, <3>1, <3>2
    <2> QED BY <2>1, <2>4, <2>5
<1>17. /\ g \in [1 .. Len(asked') -> Int]
       /\ \A j \in 1 .. Len(asked') : -1 <= g[j] /\ g[j] <= Len(up')
       /\ \A j, k \in 1 .. Len(asked') : j < k => g[j] < g[k]
       /\ \A k \in 0 .. Len(up') : IsBusOp(Place(k)') => \E j \in 1 .. Len(asked') : g[j] = k
    BY <1>2, <1>12, <1>13, <1>14, <1>15
<1>18. \A j \in 1 .. Len(asked') :
         /\ g[j] >= 0 => IsBusOp(Place(g[j])') /\ (Place(g[j])'.op = "write") = asked'[j].we
         /\ g[j] <= 1 => DevAddr' = asked'[j].addr
         /\ g[j] >= 2 =>
              \/ up'[g[j] - 1].t = "digits" /\ up'[g[j] - 1].addr = asked'[j].addr
              \/ up'[g[j] - 1].t = "end" /\ j > 1 /\ asked'[j].addr = asked'[j - 1].addr
    BY <1>2, <1>16
<1>19. /\ InDevice' <=> (Len(asked') > 0 /\ g[1] = -1)
       /\ InDevice' => asked'[1].we = DevWe'
       /\ hb_cyc' /\ ~hb_stb' => bus_pend'.addr = asked'[1].addr
    <2>1. n > 0 => (g[1] = -1 <=> f[1] = -1)
        <3> SUFFICES ASSUME n > 0 PROVE g[1] = -1 <=> f[1] = -1
            OBVIOUS
        <3>1. 1 \in 1 .. n
            BY <1>4
        <3>2. f[1] # 0 /\ f[1] \in Int /\ g[1] = IF f[1] = -1 THEN -1 ELSE f[1] - 1
            BY <1>6, <1>9, <1>11, <3>1
        <3> QED BY <3>2
    <2> QED BY <1>2, <1>7, <2>1
<1>20. AskedAt(g)'
    BY <1>17, <1>18, <1>19 DEF AskedAt
<1> QED BY <1>2, <1>20

\* There is no access on the line that was not asked for.
LEMMA UpAsked ==
    ASSUME Typed, OneCommand, Spelling, IsSeq(up), IsSeq(asked), NEW f, AskedAt(f)
    PROVE  /\ up # <<>> => Len(asked) > 0 /\ up[Len(up)].t = "end"
           /\ IsAddrOp(dh) => Len(asked) > 0
           /\ ByteTime /\ Ctx = "addr" => Len(asked) > 0
<1>1. /\ Len(up) \in Nat /\ Len(asked) \in Nat
      /\ up # <<>> => Len(up) \in Nat \ {0}
    BY SeqIs, TailIs DEF IsSeq
<1>2. ASSUME NEW k \in 0 .. Len(up), IsBusOp(Place(k)) PROVE Len(asked) > 0
    <2>1. \E j \in 1 .. Len(asked) : f[j] = k
        BY <1>2 DEF AskedAt
    <2> QED BY <1>1, <2>1
<1>3. ASSUME Ctx = "addr" PROVE Len(asked) > 0
    <2>1. CASE 2 <= Len(up) /\ IsBusOp(up[2])
        <3>1. 2 \in 0 .. Len(up) /\ Place(2) = up[2]
            BY <1>1, <2>1 DEF Place
        <3> QED BY <1>2, <2>1, <3>1
    <2>2. CASE 1 <= Len(up) /\ IsBusOp(up[1])
        <3>1. 1 \in 0 .. Len(up) /\ Place(1) = up[1]
            BY <1>1, <2>2 DEF Place
        <3> QED BY <1>2, <2>2, <3>1
    <2> QED BY <1>3, <2>1, <2>2 DEF Spelling, GoesOn
<1>4. ASSUME up # <<>> PROVE Len(asked) > 0 /\ up[Len(up)].t = "end"
    <2> DEFINE e == Len(up)
    <2>1. e \in 1 .. Len(up) /\ e \in Nat
        BY <1>1, <1>4
    <2>2. /\ up[e].t \in {"op", "digits", "end"}
          /\ up[e].t = "op" => e + 1 <= e
          /\ up[e].t = "digits" => e + 1 <= e
          /\ up[e].t = "end" => (e - 1 >= 1 =>
                \/ IsBusOp(up[e - 1])
                \/ up[e - 1].t = "digits" /\ (e - 2 >= 1 => IsBusOp(up[e - 2])))
        BY <2>1 DEF Spelling, Spelt, SpeltAt
    <2> HIDE DEF e
    <2>3. up[e].t = "end"
        BY <2>1, <2>2
    <2>4. CASE e = 1
        <3>1. Ctx # "none" /\ Ctx # "addr"
            BY <1>4, <2>3, <2>4 DEF Spelling, GoesOn, IsAddrDigits, IsBusOp
        <3>2. Ctx \in BusOps
            BY <3>1 DEF Ctx, Typed, IsCmd, BusOps
        <3>3. CASE dh.t = "op"
            <4>1. IsBusOp(Place(0)) /\ 0 \in 0 .. Len(up)
                BY <1>1, <3>2, <3>3 DEF Ctx, Place, IsBusOp
            <4> QED BY <1>2, <2>3, <4>1 DEF e
        <3>4. CASE dh.t # "op"
            <4>1. InDevice
                BY <3>2, <3>4 DEF Ctx, InDevice, BusOps
            <4> QED BY <2>3, <4>1 DEF AskedAt, e
        <3> QED BY <3>3, <3>4
    <2>5. CASE e = 2 /\ up[1].t = "digits"
        <3>1. Ctx # "none" /\ Ctx # "read"
            BY <1>4, <2>5 DEF Spelling, GoesOn
        <3>2. CASE Ctx = "addr"
            BY <1>3, <2>3, <3>2 DEF e
        <3>3. CASE Ctx = "write"
            <4>1. CASE dh.t = "op"
                <5>1. IsBusOp(Place(0)) /\ 0 \in 0 .. Len(up)
                    BY <1>1, <3>3, <4>1 DEF Ctx, Place, IsBusOp, BusOps
                <5> QED BY <1>2, <2>3, <5>1 DEF e
            <4>2. CASE dh.t # "op"
                <5>1. InDevice
                    BY <3>3, <4>2 DEF Ctx, InDevice, BusOps
                <5> QED BY <2>3, <5>1 DEF AskedAt, e
            <4> QED BY <4>1, <4>2
        <3>4. Ctx \in {"none", "addr", "read", "write"}
            BY DEF Ctx, Typed, IsCmd, BusOps
        <3> QED BY <3>1, <3>2, <3>3, <3>4
    <2>6. CASE e >= 2 /\ IsBusOp(up[e - 1])
        <3>1. e - 1 \in 0 .. Len(up) /\ Place(e - 1) = up[e - 1]
            <4>1. e - 1 # 0 /\ e - 1 \in 0 .. e
                BY <2>1, <2>6
            <4>2. Place(e - 1) = up[e - 1]
                BY <4>1 DEF Place
            <4> QED BY <4>1, <4>2 DEF e
        <3> QED BY <1>2, <2>3, <2>6, <3>1 DEF e
    <2>7. CASE e > 2 /\ IsBusOp(up[e - 2])
        <3>1. e - 2 \in 0 .. Len(up) /\ Place(e - 2) = up[e - 2]
            <4>1. e - 2 # 0 /\ e - 2 \in 0 .. e
                BY <2>1, <2>7
            <4>2. Place(e - 2) = up[e - 2]
                BY <4>1 DEF Place
            <4> QED BY <4>1, <4>2 DEF e
        <3> QED BY <1>2, <2>3, <2>7, <3>1 DEF e
    <2>8. e = 1 \/ (e = 2 /\ up[1].t = "digits") \/ (e >= 2 /\ IsBusOp(up[e - 1]))
          \/ (e > 2 /\ IsBusOp(up[e - 2]))
        <3>1. CASE e = 1
            BY <3>1
        <3>2. CASE e = 2
            <4>1. e - 1 = 1 /\ e - 1 >= 1
                BY <3>2
            <4> QED BY <2>2, <2>3, <3>2, <4>1
        <3>3. CASE e > 2
            <4>1. e - 1 >= 1 /\ e - 2 >= 1 /\ e >= 2
                BY <2>1, <3>3
            <4> QED BY <2>2, <2>3, <3>3, <4>1
        <3> QED BY <2>1, <3>1, <3>2, <3>3
    <2> QED BY <2>4, <2>5, <2>6, <2>7, <2>8
<1>5. IsAddrOp(dh) => Ctx = "addr"
    BY DEF IsAddrOp, Ctx
<1> QED BY <1>3, <1>4, <1>5

-----------------------------------------------------------------------------
(* A step of the host.                                                        *)

\* A line goes on with what begins with a command.
LEMMA SpeltConcat ==
    ASSUME NEW q, NEW r, IsSeq(q), IsSeq(r), Spelt(q), Spelt(r), r # <<>> => r[1].t = "op"
    PROVE  Spelt(q \o r)
<1> DEFINE c == q \o r  n == Len(q)  m == Len(r)
<1>1. /\ IsSeq(c) /\ Len(c) = n + m /\ n \in Nat /\ m \in Nat
      /\ \A k \in 1 .. n : c[k] = q[k]
      /\ \A k \in 1 .. m : c[n + k] = r[k]
    BY ConcatIs
<1>2. \A k \in 1 .. n :
      /\ q[k].t \in {"op", "digits", "end"}
      /\ q[k].t = "op" =>
          /\ q[k].op \in {"addr"} \cup BusOps /\ k + 1 <= n
          /\ q[k].op = "addr" => k + 2 <= n /\ IsAddrDigits(q[k + 1]) /\ IsBusOp(q[k + 2])
          /\ q[k].op = "read" => q[k + 1].t = "end"
          /\ q[k].op = "write" =>
                \/ q[k + 1].t = "end"
                \/ k + 2 <= n /\ q[k + 1].t = "digits" /\ q[k + 2].t = "end"
      /\ q[k].t = "digits" =>
          /\ k + 1 <= n /\ q[k].hold \in BOOLEAN /\ q[k].addr \in Addresses
          /\ q[k + 1].t = "op" => IsAddrDigits(q[k])
      /\ q[k].t = "end" =>
          /\ k + 1 <= n => q[k + 1].t = "op"
          /\ k - 1 >= 1 =>
                \/ IsBusOp(q[k - 1])
                \/ q[k - 1].t = "digits" /\ (k - 2 >= 1 => IsBusOp(q[k - 2]))
    BY DEF Spelt, SpeltAt
<1>3. \A k \in 1 .. m :
      /\ r[k].t \in {"op", "digits", "end"}
      /\ r[k].t = "op" =>
          /\ r[k].op \in {"addr"} \cup BusOps /\ k + 1 <= m
          /\ r[k].op = "addr" => k + 2 <= m /\ IsAddrDigits(r[k + 1]) /\ IsBusOp(r[k + 2])
          /\ r[k].op = "read" => r[k + 1].t = "end"
          /\ r[k].op = "write" =>
                \/ r[k + 1].t = "end"
                \/ k + 2 <= m /\ r[k + 1].t = "digits" /\ r[k + 2].t = "end"
      /\ r[k].t = "digits" =>
          /\ k + 1 <= m /\ r[k].hold \in BOOLEAN /\ r[k].addr \in Addresses
          /\ r[k + 1].t = "op" => IsAddrDigits(r[k])
      /\ r[k].t = "end" =>
          /\ k + 1 <= m => r[k + 1].t = "op"
          /\ k - 1 >= 1 =>
                \/ IsBusOp(r[k - 1])
                \/ r[k - 1].t = "digits" /\ (k - 2 >= 1 => IsBusOp(r[k - 2]))
    BY DEF Spelt, SpeltAt
<1>4. m > 0 => r[1].t = "op"
    BY <1>1
<1>0. SUFFICES ASSUME NEW k \in 1 .. Len(c) PROVE SpeltAt(c, k)
    BY DEF Spelt
<1> SUFFICES
    /\ c[k].t \in {"op", "digits", "end"}
    /\ c[k].t = "op" =>
          /\ c[k].op \in {"addr"} \cup BusOps /\ k + 1 <= n + m
          /\ c[k].op = "addr" => k + 2 <= n + m /\ IsAddrDigits(c[k + 1]) /\ IsBusOp(c[k + 2])
          /\ c[k].op = "read" => c[k + 1].t = "end"
          /\ c[k].op = "write" =>
                \/ c[k + 1].t = "end"
                \/ k + 2 <= n + m /\ c[k + 1].t = "digits" /\ c[k + 2].t = "end"
    /\ c[k].t = "digits" =>
          /\ k + 1 <= n + m /\ c[k].hold \in BOOLEAN /\ c[k].addr \in Addresses
          /\ c[k + 1].t = "op" => IsAddrDigits(c[k])
    /\ c[k].t = "end" =>
          /\ k + 1 <= n + m => c[k + 1].t = "op"
          /\ k - 1 >= 1 =>
                \/ IsBusOp(c[k - 1])
                \/ c[k - 1].t = "digits" /\ (k - 2 >= 1 => IsBusOp(c[k - 2]))
    BY <1>1 DEF SpeltAt
<1>01. k \in 1 .. n + m
    BY <1>0, <1>1
<1> HIDE DEF c, n, m
<1>5. CASE k <= n
    <2>0. k \in 1 .. n /\ k \in Nat
        BY <1>01, <1>1, <1>5
    <2>1. c[k] = q[k]
        BY <1>1, <2>0
    <2>2. k + 1 <= n => c[k + 1] = q[k + 1] /\ k + 1 <= n + m
        BY <1>1, <2>0
    <2>3. k + 2 <= n => c[k + 2] = q[k + 2] /\ k + 2 <= n + m
        BY <1>1, <2>0
    <2>4. k - 1 >= 1 => c[k - 1] = q[k - 1]
        BY <1>1, <2>0
    <2>5. k - 2 >= 1 => c[k - 2] = q[k - 2]
        BY <1>1, <2>0
    <2>6. CASE q[k].t = "op"
        BY <1>2, <2>0, <2>1, <2>2, <2>3, <2>6
    <2>7. CASE q[k].t = "digits"
        BY <1>2, <2>0, <2>1, <2>2, <2>7
    <2>8. CASE q[k].t = "end"
        <3>1. ASSUME k + 1 <= n + m PROVE c[k + 1].t = "op"
            <4>1. CASE k + 1 <= n
                BY <1>2, <2>0, <2>2, <2>8, <4>1
            <4>2. CASE k = n
                <5>1. m > 0 /\ 1 \in 1 .. m
                    BY <1>1, <3>1, <4>2
                <5>2. c[n + 1] = r[1]
                    BY <1>1, <5>1
                <5> QED BY <1>4, <4>2, <5>1, <5>2
            <4> QED BY <1>1, <2>0, <4>1, <4>2
        <3> QED BY <1>2, <2>0, <2>1, <2>4, <2>5, <2>8, <3>1
    <2>9. q[k].t \in {"op", "digits", "end"}
        BY <1>2, <2>0
    <2> QED BY <2>6, <2>7, <2>8, <2>9
<1>6. CASE k > n
    <2>0. PICK j \in 1 .. m : k = n + j
        <3>1. k - n \in 1 .. m /\ k = n + (k - n)
            BY <1>01, <1>1, <1>6
        <3> QED BY <3>1
    <2>1. c[k] = r[j] /\ j \in Nat /\ j >= 1 /\ k \in Nat
        BY <1>1, <2>0
    <2>2. /\ j + 1 <= m => c[k + 1] = r[j + 1]
          /\ (j + 1 <= m) <=> (k + 1 <= n + m)
        <3>1. ASSUME j + 1 <= m PROVE c[k + 1] = r[j + 1]
            <4>1. j + 1 \in 1 .. m /\ k + 1 = n + (j + 1)
                BY <1>1, <2>0, <2>1, <3>1
            <4> QED BY <1>1, <4>1
        <3>2. (j + 1 <= m) <=> (k + 1 <= n + m)
            BY <1>1, <2>0, <2>1
        <3> QED BY <3>1, <3>2
    <2>3. /\ j + 2 <= m => c[k + 2] = r[j + 2]
          /\ (j + 2 <= m) <=> (k + 2 <= n + m)
        <3>1. ASSUME j + 2 <= m PROVE c[k + 2] = r[j + 2]
            <4>1. j + 2 \in 1 .. m /\ k + 2 = n + (j + 2)
                BY <1>1, <2>0, <2>1, <3>1
            <4> QED BY <1>1, <4>1
        <3>2. (j + 2 <= m) <=> (k + 2 <= n + m)
            BY <1>1, <2>0, <2>1
        <3> QED BY <3>1, <3>2
    <2>4. j - 1 >= 1 => c[k - 1] = r[j - 1]
        <3> SUFFICES ASSUME j - 1 >= 1 PROVE c[k - 1] = r[j - 1]
            OBVIOUS
        <3>1. j - 1 \in 1 .. m /\ k - 1 = n + (j - 1)
            BY <1>1, <2>0, <2>1
        <3> QED BY <1>1, <3>1
    <2>5. j - 2 >= 1 => c[k - 2] = r[j - 2]
        <3> SUFFICES ASSUME j - 2 >= 1 PROVE c[k - 2] = r[j - 2]
            OBVIOUS
        <3>1. j - 2 \in 1 .. m /\ k - 2 = n + (j - 2)
            BY <1>1, <2>0, <2>1
        <3> QED BY <1>1, <3>1
    <2>6. CASE r[j].t = "op"
        BY <1>3, <2>0, <2>1, <2>2, <2>3, <2>6
    <2>7. CASE r[j].t = "digits"
        BY <1>3, <2>0, <2>1, <2>2, <2>7
    <2>8. CASE r[j].t = "end"
        <3>0. j # 1
            BY <1>1, <1>4, <2>0, <2>8
        <3>1. j - 1 >= 1
            BY <2>1, <3>0
        <3>2. CASE IsBusOp(r[j - 1])
            BY <1>3, <2>0, <2>1, <2>2, <2>4, <2>8, <3>1, <3>2
        <3>3. CASE r[j - 1].t = "digits"
            <4>1. j # 2
                <5> SUFFICES ASSUME j = 2 PROVE FALSE
                    OBVIOUS
                <5>1. j - 1 = 1
                    OBVIOUS
                <5>2. m > 0
                    BY <1>1, <2>0
                <5> QED BY <1>4, <3>3, <5>1, <5>2
            <4>2. j - 2 >= 1
                BY <2>1, <3>0, <4>1
            <4>3. IsBusOp(r[j - 1]) \/ IsBusOp(r[j - 2])
                BY <1>3, <2>8, <3>1, <4>2
            <4>4. IsBusOp(c[k - 1]) \/ (c[k - 1].t = "digits" /\ IsBusOp(c[k - 2]))
                BY <2>4, <2>5, <3>1, <3>3, <4>2, <4>3
            <4> QED BY <1>3, <2>1, <2>2, <2>8, <4>4
        <3>4. IsBusOp(r[j - 1]) \/ r[j - 1].t = "digits"
            BY <1>3, <2>8, <3>1
        <3> QED BY <3>2, <3>3, <3>4
    <2>9. r[j].t \in {"op", "digits", "end"}
        BY <1>3, <2>0
    <2> QED BY <2>6, <2>7, <2>8, <2>9
<1> QED BY <1>01, <1>1, <1>5, <1>6

\* A command, with the one access that it asks for at place p.
Carries(cmd, p, we) ==
    /\ IsSeq(cmd) /\ cmd # <<>> /\ cmd[1].t = "op" /\ Spelt(cmd)
    /\ p \in 1 .. Len(cmd) /\ IsBusOp(cmd[p]) /\ (cmd[p].op = "write") = we
    /\ \A k \in 1 .. Len(cmd) : IsBusOp(cmd[k]) => k = p

LEMMA CommandIs ==
    ASSUME NEW v
    PROVE  Carries(H!ReadCommand, 1, FALSE) /\ Carries(H!WriteCommand(v), 1, TRUE)
<1>0. 0 \in Addresses
    BY HexBusAssumption DEF HexBusAssumption, Addresses
<1>1. Carries(H!ReadCommand, 1, FALSE)
    <2> DEFINE c == <<[t |-> "op", op |-> "read"], [t |-> "end"]>>
    <2>1. H!ReadCommand = c
        BY DEF H!ReadCommand, H!Op, H!End
    <2>2. IsSeq(c) /\ Len(c) = 2 /\ c # <<>> /\ 1 \in 1 .. 2
        <3>1. c \in Seq({c[1], c[2]})
            OBVIOUS
        <3>2. Len(c) = 2 /\ c # <<>>
            OBVIOUS
        <3> HIDE DEF c
        <3> QED BY <3>1, <3>2, SeqIs
    <2>3. c[1].t = "op" /\ c[1].op = "read" /\ c[2].t = "end" /\ IsBusOp(c[1]) /\ ~IsBusOp(c[2])
        BY DEF IsBusOp, BusOps
    <2> HIDE DEF c
    <2>4. Spelt(c)
        <3>0. SUFFICES ASSUME NEW k \in 1 .. 2 PROVE SpeltAt(c, k)
            BY <2>2 DEF Spelt
        <3>1. CASE k = 1
            BY <2>2, <2>3, <3>1 DEF BusOps, SpeltAt
        <3>2. CASE k = 2
            BY <2>2, <2>3, <3>2 DEF SpeltAt
        <3> QED BY <3>0, <3>1, <3>2
    <2>5. \A k \in 1 .. 2 : IsBusOp(c[k]) => k = 1
        BY <2>3
    <2>6. (c[1].op = "write") = FALSE
        BY <2>3
    <2> QED BY <2>1, <2>2, <2>3, <2>4, <2>5, <2>6 DEF Carries
<1>2. ASSUME v = 0 PROVE Carries(H!WriteCommand(v), 1, TRUE)
    <2> DEFINE c == <<[t |-> "op", op |-> "write"], [t |-> "end"]>>
    <2>1. H!WriteCommand(v) = c
        BY <1>2 DEF H!WriteCommand, H!Op, H!End
    <2>2. IsSeq(c) /\ Len(c) = 2 /\ c # <<>> /\ 1 \in 1 .. 2
        <3>1. c \in Seq({c[1], c[2]})
            OBVIOUS
        <3>2. Len(c) = 2 /\ c # <<>>
            OBVIOUS
        <3> HIDE DEF c
        <3> QED BY <3>1, <3>2, SeqIs
    <2>3. c[1].t = "op" /\ c[1].op = "write" /\ c[2].t = "end" /\ IsBusOp(c[1]) /\ ~IsBusOp(c[2])
        BY DEF IsBusOp, BusOps
    <2> HIDE DEF c
    <2>4. Spelt(c)
        <3>0. SUFFICES ASSUME NEW k \in 1 .. 2 PROVE SpeltAt(c, k)
            BY <2>2 DEF Spelt
        <3>1. CASE k = 1
            BY <2>2, <2>3, <3>1 DEF BusOps, SpeltAt
        <3>2. CASE k = 2
            BY <2>2, <2>3, <3>2 DEF SpeltAt
        <3> QED BY <3>0, <3>1, <3>2
    <2>5. \A k \in 1 .. 2 : IsBusOp(c[k]) => k = 1
        BY <2>3
    <2>6. (c[1].op = "write") = TRUE
        BY <2>3
    <2> QED BY <2>1, <2>2, <2>3, <2>4, <2>5, <2>6 DEF Carries
<1>3. ASSUME v # 0 PROVE Carries(H!WriteCommand(v), 1, TRUE)
    <2> DEFINE c == <<[t |-> "op", op |-> "write"],
                      [t |-> "digits", addr |-> 0, hold |-> FALSE, data |-> v], [t |-> "end"]>>
    <2>1. H!WriteCommand(v) = c
        BY <1>3 DEF H!WriteCommand, H!Op, H!End, H!Digits
    <2>2. IsSeq(c) /\ Len(c) = 3 /\ c # <<>> /\ 1 \in 1 .. 3
        <3>1. c \in Seq({c[1], c[2], c[3]})
            OBVIOUS
        <3>2. Len(c) = 3 /\ c # <<>>
            OBVIOUS
        <3> HIDE DEF c
        <3> QED BY <3>1, <3>2, SeqIs
    <2>3. /\ c[1].t = "op" /\ c[1].op = "write" /\ IsBusOp(c[1])
          /\ c[2].t = "digits" /\ c[2].hold = FALSE /\ c[2].addr = 0 /\ ~IsBusOp(c[2])
          /\ c[3].t = "end" /\ ~IsBusOp(c[3])
        BY DEF IsBusOp, BusOps
    <2> HIDE DEF c
    <2>4. Spelt(c)
        <3>0. SUFFICES ASSUME NEW k \in 1 .. 3 PROVE SpeltAt(c, k)
            BY <2>2 DEF Spelt
        <3>1. CASE k = 1
            BY <2>2, <2>3, <3>1 DEF BusOps, SpeltAt
        <3>2. CASE k = 2
            <4>1. k + 1 = 3 /\ k + 1 <= Len(c)
                BY <2>2, <3>2
            <4>2. c[k].t = "digits" /\ c[k].hold \in BOOLEAN /\ c[k].addr \in Addresses
                  /\ c[k + 1].t = "end"
                BY <1>0, <2>3, <3>2, <4>1
            <4> QED BY <4>1, <4>2 DEF SpeltAt
        <3>3. CASE k = 3
            <4>1. k - 1 = 2 /\ k - 2 = 1
                BY <3>3
            <4> QED BY <2>2, <2>3, <3>3, <4>1 DEF SpeltAt
        <3> QED BY <3>0, <3>1, <3>2, <3>3
    <2>5. \A k \in 1 .. 3 : IsBusOp(c[k]) => k = 1
        <3> SUFFICES ASSUME NEW k \in 1 .. 3, IsBusOp(c[k]) PROVE k = 1
            OBVIOUS
        <3>1. k = 1 \/ k = 2 \/ k = 3
            OBVIOUS
        <3> QED BY <2>3, <3>1
    <2>6. (c[1].op = "write") = TRUE
        BY <2>3
    <2> QED BY <2>1, <2>2, <2>3, <2>4, <2>5, <2>6 DEF Carries
<1> QED BY <1>1, <1>2, <1>3

\* The same, after its address.
LEMMA AddressedIs ==
    ASSUME NEW a \in Addresses, NEW cmd, NEW we \in BOOLEAN, Carries(cmd, 1, we)
    PROVE  LET r == <<H!Op("addr"), H!Digits(a, TRUE, 0)>> \o cmd
           IN  Carries(r, 3, we) /\ r[2].t = "digits" /\ r[2].addr = a
<1> DEFINE d == <<[t |-> "op", op |-> "addr"],
                  [t |-> "digits", addr |-> a, hold |-> TRUE, data |-> 0]>>
           r == d \o cmd
<1>1. <<H!Op("addr"), H!Digits(a, TRUE, 0)>> = d
    BY DEF H!Op, H!Digits
<1>2. IsSeq(d) /\ Len(d) = 2
    <2>1. d \in Seq({d[1], d[2]})
        OBVIOUS
    <2>2. Len(d) = 2
        OBVIOUS
    <2> HIDE DEF d
    <2> QED BY <2>1, <2>2, SeqIs
<1>3. /\ d[1].t = "op" /\ d[1].op = "addr" /\ ~IsBusOp(d[1])
      /\ d[2].t = "digits" /\ d[2].addr = a /\ IsAddrDigits(d[2]) /\ ~IsBusOp(d[2])
      /\ d[2].hold \in BOOLEAN
    BY DEF IsBusOp, IsAddrDigits, BusOps
<1> HIDE DEF d
<1>4. /\ IsSeq(cmd) /\ cmd # <<>> /\ cmd[1].t = "op" /\ Spelt(cmd) /\ IsBusOp(cmd[1])
      /\ (cmd[1].op = "write") = we
      /\ \A k \in 1 .. Len(cmd) : IsBusOp(cmd[k]) => k = 1
    BY DEF Carries
<1>5. /\ IsSeq(r) /\ Len(r) = 2 + Len(cmd) /\ Len(cmd) \in Nat \ {0}
      /\ \A k \in 1 .. 2 : r[k] = d[k]
      /\ \A k \in 1 .. Len(cmd) : r[2 + k] = cmd[k]
    <2>1. /\ IsSeq(r) /\ Len(r) = Len(d) + Len(cmd)
          /\ \A k \in 1 .. Len(d) : r[k] = d[k]
          /\ \A k \in 1 .. Len(cmd) : r[Len(d) + k] = cmd[k]
        <3> SUFFICES ASSUME NEW x, NEW y, x = d, y = cmd
                     PROVE  /\ IsSeq(x \o y) /\ Len(x \o y) = Len(x) + Len(y)
                            /\ \A k \in 1 .. Len(x) : (x \o y)[k] = x[k]
                            /\ \A k \in 1 .. Len(y) : (x \o y)[Len(x) + k] = y[k]
            OBVIOUS
        <3>1. IsSeq(x) /\ IsSeq(y)
            BY <1>2, <1>4
        <3> QED BY <3>1, ConcatIs
    <2>2. Len(cmd) \in Nat \ {0}
        BY <1>4, TailIs
    <2> HIDE DEF r
    <2> QED BY <1>2, <2>1, <2>2
<1>6. r[1] = d[1] /\ r[2] = d[2]
    BY <1>5
<1>7. r[3] = cmd[1]
    <2>1. 1 \in 1 .. Len(cmd) /\ 2 + 1 = 3
        BY <1>5
    <2> QED BY <1>5, <2>1
<1> HIDE DEF r
<1>8. Spelt(r)
    <2> SUFFICES ASSUME NEW k \in 1 .. Len(r) PROVE SpeltAt(r, k)
        BY DEF Spelt
    <2>1. CASE k = 1
        <3>1. k + 1 = 2 /\ k + 2 = 3 /\ k + 1 <= Len(r) /\ k + 2 <= Len(r)
            BY <1>5, <2>1
        <3>2. r[k].t = "op" /\ r[k].op = "addr" /\ IsAddrDigits(r[k + 1]) /\ IsBusOp(r[k + 2])
            BY <1>3, <1>4, <1>6, <1>7, <2>1, <3>1
        <3> QED BY <3>1, <3>2 DEF SpeltAt
    <2>2. CASE k = 2
        <3>1. k + 1 = 3 /\ k + 1 <= Len(r)
            BY <1>5, <2>2
        <3>2. r[k].t = "digits" /\ r[k].hold \in BOOLEAN /\ r[k].addr \in Addresses
              /\ IsAddrDigits(r[k])
            BY <1>3, <1>6, <2>2
        <3> QED BY <3>1, <3>2 DEF SpeltAt
    <2>3. CASE k > 2
        <3>0. k - 2 \in 1 .. Len(cmd)
            BY <1>5, <2>3
        <3>1. PICK j \in 1 .. Len(cmd) : j = k - 2
            BY <3>0
        <3>2. j \in Nat /\ j >= 1 /\ k = 2 + j /\ Len(cmd) \in Nat
            BY <1>5, <3>1
        <3>3. r[k] = cmd[j]
            BY <1>5, <3>2
        <3>4. SpeltAt(cmd, j)
            BY <1>4 DEF Spelt
        <3>5. /\ j + 1 <= Len(cmd) => r[k + 1] = cmd[j + 1]
              /\ j + 2 <= Len(cmd) => r[k + 2] = cmd[j + 2]
              /\ (j + 1 <= Len(cmd)) <=> (k + 1 <= Len(r))
              /\ (j + 2 <= Len(cmd)) <=> (k + 2 <= Len(r))
            <4>1. ASSUME j + 1 <= Len(cmd) PROVE r[k + 1] = cmd[j + 1]
                <5>1. j + 1 \in 1 .. Len(cmd) /\ k + 1 = 2 + (j + 1)
                    BY <3>2, <4>1
                <5> QED BY <1>5, <5>1
            <4>2. ASSUME j + 2 <= Len(cmd) PROVE r[k + 2] = cmd[j + 2]
                <5>1. j + 2 \in 1 .. Len(cmd) /\ k + 2 = 2 + (j + 2)
                    BY <3>2, <4>2
                <5> QED BY <1>5, <5>1
            <4>3. /\ (j + 1 <= Len(cmd)) <=> (k + 1 <= Len(r))
                  /\ (j + 2 <= Len(cmd)) <=> (k + 2 <= Len(r))
                BY <1>5, <3>2
            <4> QED BY <4>1, <4>2, <4>3
        <3>6. CASE cmd[j].t = "op"
            BY <3>3, <3>4, <3>5, <3>6 DEF SpeltAt
        <3>7. CASE cmd[j].t = "digits"
            BY <3>3, <3>4, <3>5, <3>7 DEF SpeltAt
        <3>8. CASE cmd[j].t = "end"
            <4>1. j # 1
                BY <1>4, <3>8
            <4>2. j - 1 >= 1 /\ j - 1 \in 1 .. Len(cmd) /\ 2 + (j - 1) = k - 1
                BY <3>2, <4>1
            <4>3. r[k - 1] = cmd[j - 1]
                BY <1>5, <4>2
            <4>4. CASE IsBusOp(cmd[j - 1])
                BY <3>3, <3>4, <3>5, <3>8, <4>3, <4>4 DEF SpeltAt
            <4>5. CASE cmd[j - 1].t = "digits"
                <5>1. j # 2
                    <6> SUFFICES ASSUME j = 2 PROVE FALSE
                        OBVIOUS
                    <6>1. j - 1 = 1
                        OBVIOUS
                    <6> QED BY <1>4, <4>5, <6>1
                <5>2. j - 2 >= 1 /\ j - 2 \in 1 .. Len(cmd) /\ 2 + (j - 2) = k - 2
                    BY <3>2, <4>1, <5>1
                <5>3. r[k - 2] = cmd[j - 2]
                    BY <1>5, <5>2
                <5>4. IsBusOp(cmd[j - 1]) \/ IsBusOp(cmd[j - 2])
                    BY <3>4, <3>8, <4>2, <5>2 DEF SpeltAt
                <5> QED BY <3>3, <3>4, <3>5, <3>8, <4>3, <4>5, <5>3, <5>4 DEF SpeltAt
            <4>6. IsBusOp(cmd[j - 1]) \/ cmd[j - 1].t = "digits"
                BY <3>4, <3>8, <4>2 DEF SpeltAt
            <4> QED BY <4>4, <4>5, <4>6
        <3>9. cmd[j].t \in {"op", "digits", "end"}
            BY <3>4 DEF SpeltAt
        <3> QED BY <3>6, <3>7, <3>8, <3>9
    <2> QED BY <1>5, <2>1, <2>2, <2>3
<1>9. ASSUME NEW k \in 1 .. Len(r), IsBusOp(r[k]) PROVE k = 3
    <2>1. k # 1 /\ k # 2
        BY <1>3, <1>6, <1>9
    <2>2. k - 2 \in 1 .. Len(cmd) /\ k = 2 + (k - 2)
        BY <1>5, <2>1
    <2>3. IsBusOp(cmd[k - 2])
        BY <1>5, <1>9, <2>2
    <2>4. k - 2 = 1
        BY <1>4, <2>2, <2>3
    <2> QED BY <2>2, <2>4
<1>10. r # <<>> /\ 3 \in 1 .. Len(r)
    BY <1>5
<1>11. Carries(r, 3, we)
    BY <1>3, <1>4, <1>5, <1>6, <1>7, <1>8, <1>9, <1>10 DEF Carries
<1> QED BY <1>1, <1>3, <1>6, <1>11 DEF r

deviceIn == <<dh, r_word, pck, hb_cyc, hb_stb, hb_we, hb_addr, inc, bus_pend>>

\* One more command on the line, and one more access asked for.
LEMMA MoreAsked ==
    ASSUME NEW f, NEW cmd, NEW p, NEW a,
           Typed, OneCommand, Spelling, IsSeq(up), IsSeq(asked), AskedAt(f),
           p \in {1, 3}, Carries(cmd, p, a.we),
           p = 1 => /\ Len(asked) = 0 => DevAddr = a.addr
                    /\ Len(asked) > 0 => asked[Len(asked)].addr = a.addr,
           p = 3 => cmd[2].t = "digits" /\ cmd[2].addr = a.addr,
           up' = up \o cmd, asked' = asked \o <<a>>, UNCHANGED deviceIn
    PROVE  /\ IsSeq(up') /\ IsSeq(asked') /\ Spelling' /\ \E g : AskedAt(g)'
           /\ Len(asked') = Len(asked) + 1 /\ asked'[Len(asked')] = a
           /\ \A j \in 1 .. Len(asked) : asked'[j] = asked[j]
<1> DEFINE n == Len(asked)  e == Len(up)
<1>1. /\ IsSeq(cmd) /\ cmd # <<>> /\ cmd[1].t = "op" /\ Spelt(cmd)
      /\ p \in 1 .. Len(cmd) /\ IsBusOp(cmd[p]) /\ (cmd[p].op = "write") = a.we
      /\ \A k \in 1 .. Len(cmd) : IsBusOp(cmd[k]) => k = p
    BY DEF Carries
<1>2. /\ IsSeq(up') /\ Len(up') = e + Len(cmd) /\ e \in Nat /\ Len(cmd) \in Nat \ {0}
      /\ \A k \in 1 .. e : up'[k] = up[k]
      /\ \A k \in 1 .. Len(cmd) : up'[e + k] = cmd[k]
    BY <1>1, ConcatIs, TailIs
<1>3. IsSeq(<<a>>) /\ Len(<<a>>) = 1 /\ <<a>>[1] = a
    <2>1. <<a>> \in Seq({a}) /\ Len(<<a>>) = 1 /\ <<a>>[1] = a
        OBVIOUS
    <2> QED BY <2>1, SeqIs
<1>4. /\ IsSeq(asked') /\ Len(asked') = n + 1 /\ n \in Nat
      /\ \A j \in 1 .. n : asked'[j] = asked[j]
      /\ asked'[n + 1] = a
    <2> DEFINE o == <<a>>
    <2>1. asked' = asked \o o /\ IsSeq(o) /\ Len(o) = 1 /\ o[1] = a
        BY <1>3
    <2> HIDE DEF o
    <2>2. /\ IsSeq(asked') /\ Len(asked') = n + 1 /\ n \in Nat
          /\ \A j \in 1 .. n : asked'[j] = asked[j]
          /\ \A j \in 1 .. Len(o) : asked'[n + j] = o[j]
        <3>1. /\ IsSeq(asked \o o) /\ Len(asked \o o) = Len(asked) + Len(o) /\ Len(asked) \in Nat
              /\ \A j \in 1 .. Len(asked) : (asked \o o)[j] = asked[j]
              /\ \A j \in 1 .. Len(o) : (asked \o o)[Len(asked) + j] = o[j]
            BY <2>1, ConcatIs
        <3> QED BY <2>1, <3>1
    <2>3. 1 \in 1 .. Len(o)
        BY <2>1
    <2> QED BY <2>1, <2>2, <2>3
<1>5. /\ dh' = dh /\ Ctx' = Ctx /\ DevAddr' = DevAddr /\ DevHold' = DevHold
      /\ (InDevice' <=> InDevice) /\ DevWe' = DevWe
      /\ hb_cyc' = hb_cyc /\ hb_stb' = hb_stb /\ bus_pend' = bus_pend
    BY DEF deviceIn, Ctx, DevAddr, DevHold, InDevice, DevWe
<1>6. Spelt(up')
    BY <1>1, SpeltConcat DEF Spelling
<1>7. GoesOn'
    <2>1. e >= 1 => up'[1] = up[1] /\ 1 <= Len(up')
        BY <1>2
    <2>2. e >= 2 => up'[2] = up[2] /\ 2 <= Len(up')
        BY <1>2
    <2>3. up # <<>> => e >= 1
        BY TailIs
    <2>4. CASE Ctx = "none"
        <3>1. CASE up # <<>>
            BY <1>5, <2>1, <2>3, <2>4, <3>1 DEF Spelling, GoesOn
        <3>2. CASE up = <<>>
            <4>1. e = 0
                BY <3>2
            <4>2. 1 \in 1 .. Len(cmd) /\ e + 1 = 1
                BY <1>2, <4>1
            <4>3. up'[1] = cmd[1]
                BY <1>2, <4>2
            <4> QED BY <1>1, <1>5, <2>4, <4>3 DEF Spelling, GoesOn
        <3> QED BY <3>1, <3>2
    <2>5. CASE Ctx = "addr"
        BY <1>5, <2>1, <2>2, <2>5, <1>2 DEF Spelling, GoesOn
    <2>6. CASE Ctx = "read"
        BY <1>5, <2>1, <2>6, <1>2 DEF Spelling, GoesOn
    <2>7. CASE Ctx = "write"
        BY <1>5, <2>1, <2>2, <2>7, <1>2 DEF Spelling, GoesOn
    <2>8. Ctx \in {"none", "addr", "read", "write"}
        BY DEF Ctx, Typed, IsCmd, BusOps
    <2> QED BY <2>4, <2>5, <2>6, <2>7, <2>8
<1>8. /\ \A j \in 1 .. n : f[j] \in Int /\ -1 <= f[j] /\ f[j] <= e
      /\ \A j, k \in 1 .. n : j < k => f[j] < f[k]
      /\ \A k \in 0 .. e : IsBusOp(Place(k)) => \E j \in 1 .. n : f[j] = k
      /\ \A j \in 1 .. n :
          /\ f[j] >= 0 => IsBusOp(Place(f[j])) /\ (Place(f[j]).op = "write") = asked[j].we
          /\ f[j] <= 1 => DevAddr = asked[j].addr
          /\ f[j] >= 2 =>
                \/ up[f[j] - 1].t = "digits" /\ up[f[j] - 1].addr = asked[j].addr
                \/ up[f[j] - 1].t = "end" /\ j > 1 /\ asked[j].addr = asked[j - 1].addr
    BY <1>2, <1>4 DEF AskedAt
<1>9. /\ InDevice <=> (n > 0 /\ f[1] = -1)
      /\ InDevice => asked[1].we = DevWe
      /\ hb_cyc /\ ~hb_stb => bus_pend.addr = asked[1].addr
    BY DEF AskedAt
<1> HIDE DEF e, n
<1>10. ASSUME NEW k \in 0 .. e PROVE Place(k)' = Place(k)
    BY <1>2, <1>5 DEF Place
<1>11. ASSUME NEW k \in 1 .. Len(cmd), NEW l, l = e + k PROVE Place(l)' = cmd[k]
    <2>1. l # 0
        BY <1>2, <1>11
    <2>2. up'[l] = cmd[k]
        BY <1>2, <1>11
    <2> QED BY <2>1, <2>2 DEF Place
<1>12. PICK q : q = e + p
    OBVIOUS
<1>13. q \in Nat \ {0} /\ q > e /\ q <= Len(up') /\ p \in Nat
    BY <1>1, <1>2, <1>12
<1>14. PICK g : g = [j \in 1 .. n + 1 |-> IF j = n + 1 THEN q ELSE f[j]]
    OBVIOUS
<1>15. /\ g[n + 1] = q
       /\ \A j \in 1 .. n : g[j] = f[j] /\ j # n + 1 /\ j \in 1 .. n + 1
       /\ n + 1 \in 1 .. n + 1
       /\ \A j \in 1 .. n + 1 : j \in 1 .. n \/ j = n + 1
    BY <1>4, <1>14
<1>16. g \in [1 .. n + 1 -> Int]
    <2>1. \A j \in 1 .. n + 1 : (IF j = n + 1 THEN q ELSE f[j]) \in Int
        BY <1>8, <1>13, <1>15
    <2> QED BY <1>14, <2>1
<1>17. \A j \in 1 .. n + 1 : -1 <= g[j] /\ g[j] <= Len(up')
    <2>1. ASSUME NEW j \in 1 .. n PROVE -1 <= g[j] /\ g[j] <= Len(up')
        <3>1. g[j] = f[j] /\ f[j] \in Int /\ -1 <= f[j] /\ f[j] <= e
            BY <1>8, <1>15
        <3>2. e <= Len(up') /\ e \in Int /\ Len(up') \in Int
            BY <1>2
        <3> QED BY <3>1, <3>2
    <2>2. -1 <= g[n + 1] /\ g[n + 1] <= Len(up')
        BY <1>13, <1>15
    <2> QED BY <1>15, <2>1, <2>2
<1>18. ASSUME NEW j \in 1 .. n + 1, NEW k \in 1 .. n + 1, j < k PROVE g[j] < g[k]
    <2>1. j \in 1 .. n
        BY <1>4, <1>18
    <2>2. CASE k = n + 1
        <3>1. g[j] = f[j] /\ f[j] \in Int /\ f[j] <= e /\ g[k] = q
            BY <1>8, <1>15, <2>1, <2>2
        <3> QED BY <1>2, <1>13, <3>1
    <2>3. CASE k \in 1 .. n
        BY <1>8, <1>15, <1>18, <2>1, <2>3
    <2> QED BY <1>15, <2>2, <2>3
<1>19. ASSUME NEW k \in 0 .. Len(up'), IsBusOp(Place(k)') PROVE \E j \in 1 .. n + 1 : g[j] = k
    <2>1. CASE k <= e
        <3>1. k \in 0 .. e
            BY <1>2, <2>1
        <3>2. IsBusOp(Place(k))
            BY <1>10, <1>19, <3>1
        <3>3. PICK j \in 1 .. n : f[j] = k
            BY <1>8, <3>1, <3>2
        <3> QED BY <1>15, <3>3
    <2>2. CASE k > e
        <3>1. k - e \in 1 .. Len(cmd) /\ e + (k - e) = k
            BY <1>2, <2>2
        <3>2. IsBusOp(cmd[k - e])
            BY <1>11, <1>19, <3>1
        <3>3. k - e = p
            BY <1>1, <3>1, <3>2
        <3>4. k = q
            BY <1>12, <3>1, <3>3
        <3> QED BY <1>15, <3>4
    <2> QED BY <1>2, <2>1, <2>2
<1>20. ASSUME NEW j \in 1 .. n
       PROVE  /\ g[j] >= 0 => IsBusOp(Place(g[j])') /\ (Place(g[j])'.op = "write") = asked'[j].we
              /\ g[j] <= 1 => DevAddr' = asked'[j].addr
              /\ g[j] >= 2 =>
                   \/ up'[g[j] - 1].t = "digits" /\ up'[g[j] - 1].addr = asked'[j].addr
                   \/ up'[g[j] - 1].t = "end" /\ j > 1 /\ asked'[j].addr = asked'[j - 1].addr
    <2>0. g[j] = f[j] /\ asked'[j] = asked[j] /\ f[j] \in Int /\ f[j] <= e
        BY <1>4, <1>8, <1>15
    <2>1. ASSUME g[j] >= 0
          PROVE  IsBusOp(Place(g[j])') /\ (Place(g[j])'.op = "write") = asked'[j].we
        <3>1. f[j] \in 0 .. e /\ f[j] >= 0
            BY <1>2, <2>0, <2>1
        <3>2. Place(g[j])' = Place(f[j])
            BY <1>10, <2>0, <3>1
        <3>3. IsBusOp(Place(f[j])) /\ (Place(f[j]).op = "write") = asked[j].we
            BY <1>8, <3>1
        <3> QED BY <2>0, <3>2, <3>3
    <2>2. g[j] <= 1 => DevAddr' = asked'[j].addr
        BY <1>5, <1>8, <2>0
    <2>3. ASSUME g[j] >= 2
          PROVE  \/ up'[g[j] - 1].t = "digits" /\ up'[g[j] - 1].addr = asked'[j].addr
                 \/ up'[g[j] - 1].t = "end" /\ j > 1 /\ asked'[j].addr = asked'[j - 1].addr
        <3>1. f[j] - 1 \in 1 .. e
            BY <1>2, <2>0, <2>3
        <3>2. up'[f[j] - 1] = up[f[j] - 1]
            BY <1>2, <3>1
        <3>3. j > 1 => asked'[j - 1] = asked[j - 1]
            <4> SUFFICES ASSUME j > 1 PROVE asked'[j - 1] = asked[j - 1]
                OBVIOUS
            <4>1. j - 1 \in 1 .. n
                BY <1>4
            <4> QED BY <1>4, <4>1
        <3>4. \/ up[f[j] - 1].t = "digits" /\ up[f[j] - 1].addr = asked[j].addr
              \/ up[f[j] - 1].t = "end" /\ j > 1 /\ asked[j].addr = asked[j - 1].addr
            BY <1>8, <2>0, <2>3
        <3> QED BY <2>0, <3>2, <3>3, <3>4
    <2> QED BY <2>1, <2>2, <2>3
<1>21. /\ IsBusOp(Place(q)') /\ (Place(q)'.op = "write") = a.we
       /\ q <= 1 => DevAddr' = a.addr
       /\ q >= 2 =>
             \/ up'[q - 1].t = "digits" /\ up'[q - 1].addr = a.addr
             \/ up'[q - 1].t = "end" /\ n + 1 > 1 /\ a.addr = asked'[n].addr
    <2>0. Place(q)' = cmd[p]
        BY <1>1, <1>11, <1>12
    <2>1. IsBusOp(Place(q)') /\ (Place(q)'.op = "write") = a.we
        BY <1>1, <2>0
    <2>2. CASE p = 3
        <3>1. 2 \in 1 .. Len(cmd) /\ q - 1 = e + 2 /\ q > 1
            BY <1>1, <1>2, <1>12, <2>2
        <3>2. up'[q - 1] = cmd[2]
            BY <1>2, <3>1
        <3>3. cmd[2].t = "digits" /\ cmd[2].addr = a.addr
            BY <2>2
        <3>4. up'[q - 1].t = "digits" /\ up'[q - 1].addr = a.addr /\ ~(q <= 1)
            BY <1>13, <3>1, <3>2, <3>3
        <3> QED BY <2>1, <3>4
    <2>3. CASE p = 1
        <3>1. q = e + 1
            BY <1>12, <2>3
        <3>2. up # <<>> => n > 0 /\ up[e].t = "end"
            BY UpAsked DEF n, e
        <3>3. CASE e = 0
            <4>1. q = 1
                BY <3>1, <3>3
            <4>2. DevAddr = a.addr
                <5>1. CASE n = 0
                    BY <2>3, <5>1 DEF n
                <5>2. CASE n > 0
                    <6>1. n \in 1 .. n
                        BY <1>4, <5>2
                    <6>2. f[n] <= 1
                        BY <1>8, <3>3, <6>1
                    <6>3. asked[n].addr = a.addr
                        BY <2>3, <5>2 DEF n
                    <6> QED BY <1>8, <6>1, <6>2, <6>3
                <5> QED BY <1>4, <5>1, <5>2
            <4>3. DevAddr' = a.addr /\ ~(q >= 2)
                BY <1>5, <4>1, <4>2
            <4> QED BY <2>1, <4>3
        <3>4. CASE e > 0
            <4>1. up # <<>>
                BY <3>4 DEF e
            <4>2. n > 0 /\ n \in 1 .. n /\ up[e].t = "end"
                BY <1>4, <3>2, <4>1
            <4>3. q - 1 = e /\ e \in 1 .. e /\ q > 1
                BY <1>2, <3>1, <3>4
            <4>4. up'[q - 1] = up[e]
                BY <1>2, <4>3
            <4>5. a.addr = asked'[n].addr
                <5>1. asked[n].addr = a.addr
                    BY <2>3, <4>2 DEF n
                <5> QED BY <1>4, <4>2, <5>1
            <4>6. n + 1 > 1
                BY <1>4, <4>2
            <4>7. up'[q - 1].t = "end" /\ ~(q <= 1)
                BY <1>13, <4>2, <4>3, <4>4
            <4> QED BY <2>1, <4>5, <4>6, <4>7, Zenon
        <3>5. e = 0 \/ e > 0
            BY <1>2
        <3> QED BY <3>3, <3>4, <3>5, Zenon
    <2>4. p = 1 \/ p = 3
        OBVIOUS
    <2> QED BY <2>2, <2>3, <2>4, Zenon
<1>22. ASSUME NEW j \in 1 .. n + 1
       PROVE  /\ g[j] >= 0 => IsBusOp(Place(g[j])') /\ (Place(g[j])'.op = "write") = asked'[j].we
              /\ g[j] <= 1 => DevAddr' = asked'[j].addr
              /\ g[j] >= 2 =>
                   \/ up'[g[j] - 1].t = "digits" /\ up'[g[j] - 1].addr = asked'[j].addr
                   \/ up'[g[j] - 1].t = "end" /\ j > 1 /\ asked'[j].addr = asked'[j - 1].addr
    <2>1. CASE j \in 1 .. n
        BY <1>20, <2>1
    <2>2. CASE j = n + 1
        <3>1. g[j] = q /\ asked'[j] = a /\ j - 1 = n
            BY <1>4, <1>15, <2>2
        <3> QED BY <1>21, <2>2, <3>1
    <2> QED BY <1>15, <2>1, <2>2
<1>23. /\ InDevice' <=> (n + 1 > 0 /\ g[1] = -1)
       /\ InDevice' => asked'[1].we = DevWe'
       /\ hb_cyc' /\ ~hb_stb' => bus_pend'.addr = asked'[1].addr
    <2>1. CASE n = 0
        <3>1. ~InDevice /\ g[1] = q /\ n + 1 = 1
            BY <1>9, <1>15, <2>1
        <3>2. ~hb_cyc
            BY <3>1 DEF InDevice
        <3> QED BY <1>5, <1>13, <3>1, <3>2
    <2>2. CASE n > 0
        <3>1. 1 \in 1 .. n
            BY <1>4, <2>2
        <3>2. g[1] = f[1] /\ asked'[1] = asked[1] /\ n + 1 > 0
            BY <1>4, <1>15, <3>1
        <3> QED BY <1>5, <1>9, <2>2, <3>2
    <2> QED BY <1>4, <2>1, <2>2
<1>24. /\ g \in [1 .. Len(asked') -> Int]
       /\ \A j \in 1 .. Len(asked') : -1 <= g[j] /\ g[j] <= Len(up')
       /\ \A j, k \in 1 .. Len(asked') : j < k => g[j] < g[k]
       /\ \A k \in 0 .. Len(up') : IsBusOp(Place(k)') => \E j \in 1 .. Len(asked') : g[j] = k
    BY <1>4, <1>16, <1>17, <1>18, <1>19
<1>25. \A j \in 1 .. Len(asked') :
         /\ g[j] >= 0 => IsBusOp(Place(g[j])') /\ (Place(g[j])'.op = "write") = asked'[j].we
         /\ g[j] <= 1 => DevAddr' = asked'[j].addr
         /\ g[j] >= 2 =>
              \/ up'[g[j] - 1].t = "digits" /\ up'[g[j] - 1].addr = asked'[j].addr
              \/ up'[g[j] - 1].t = "end" /\ j > 1 /\ asked'[j].addr = asked'[j - 1].addr
    BY <1>4, <1>22
<1>26. /\ InDevice' <=> (Len(asked') > 0 /\ g[1] = -1)
       /\ InDevice' => asked'[1].we = DevWe'
       /\ hb_cyc' /\ ~hb_stb' => bus_pend'.addr = asked'[1].addr
    BY <1>4, <1>23
<1>27. AskedAt(g)'
    BY <1>24, <1>25, <1>26 DEF AskedAt
<1>28. Spelling'
    BY <1>6, <1>7 DEF Spelling
<1> QED BY <1>2, <1>4, <1>27, <1>28 DEF n

LEMMA HostInOrder ==
    ASSUME InOrder, HeldOnly, HostStep
    PROVE  InOrder'
<1>1. H!Host /\ UNCHANGED deviceVars /\ asked' = asked \o HostAsks
    BY DEF HostStep
<1>2. UNCHANGED deviceIn /\ Typed' /\ OneCommand'
    <2>1. UNCHANGED deviceIn /\ UNCHANGED <<w_reset, cmd_loaded>>
        BY <1>1 DEF deviceVars, deviceIn
    <2>2. Typed /\ OneCommand
        BY DEF InOrder
    <2>3. Typed'
        BY <2>1, <2>2 DEF Typed, deviceIn
    <2>4. OneCommand'
        BY <2>1, <2>2 DEF OneCommand, deviceIn
    <2> QED BY <2>1, <2>3, <2>4
<1>3. /\ Typed /\ OneCommand /\ IsSeq(up) /\ Spelling /\ IsSeq(asked)
      /\ Asking
    BY DEF InOrder, AsksInOrder
<1>4. PICK f : AskedAt(f)
    BY DEF InOrder, AsksInOrder
<1>5. DevAddr' = DevAddr
    BY <1>2 DEF deviceIn, DevAddr
<1>6. /\ \A i \in 1 .. Len(asked) : IsAccess(asked[i])
      /\ call # H!NoCall => call \in Calls
      /\ call # H!NoCall /\ Len(asked) = 0 => DevAddr = call.addr
      /\ call # H!NoCall /\ Len(asked) > 0 => asked[Len(asked)].addr = call.addr
      /\ draining => H!IsWrite(call)
      /\ sent \in Nat /\ Len(asked) \in Nat
    BY <1>3, SeqIs DEF Asking, IsSeq
<1>7. \A c \in Calls :
        /\ c.fn \in {"readio", "readi", "readz", "writeio", "writei", "writez"}
        /\ c.n \in Nat \ {0} /\ c.addr \in Addresses
        /\ ~H!Increments(c)
    BY HexBusAssumption DEF HexBusAssumption, HeldOnly, Addresses
<1>8. H!NoCall \notin Calls /\ ~H!IsWrite(H!NoCall) /\ ~H!IsRead(H!NoCall)
    BY <1>7 DEF H!NoCall, H!IsWrite, H!IsRead
\* a step that asks for one more access
<1>9. ASSUME NEW c, NEW cmd, NEW p, NEW a, c \in Calls, p \in {1, 3}, Carries(cmd, p, a.we),
             a = [we |-> H!IsWrite(c), addr |-> c.addr],
             p = 1 => call = c,
             p = 3 => cmd[2].t = "digits" /\ cmd[2].addr = c.addr,
             up' = up \o cmd, asked' = asked \o <<a>>,
             call' = c, draining' => H!IsWrite(c), sent' \in Nat
      PROVE  InOrder'
    <2>1. a.addr = c.addr /\ IsAccess(a)
        BY <1>9 DEF IsAccess, H!IsWrite
    <2>2. p = 1 => /\ Len(asked) = 0 => DevAddr = a.addr
                   /\ Len(asked) > 0 => asked[Len(asked)].addr = a.addr
        BY <1>6, <1>8, <1>9, <2>1
    <2>3. p = 3 => cmd[2].t = "digits" /\ cmd[2].addr = a.addr
        BY <1>9, <2>1
    <2>4. /\ IsSeq(up') /\ IsSeq(asked') /\ Spelling' /\ \E g : AskedAt(g)'
          /\ Len(asked') = Len(asked) + 1 /\ asked'[Len(asked')] = a
          /\ \A j \in 1 .. Len(asked) : asked'[j] = asked[j]
        <3>1. /\ p \in {1, 3} /\ Carries(cmd, p, a.we) /\ up' = up \o cmd
              /\ asked' = asked \o <<a>>
            BY <1>9
        <3> QED BY <1>2, <1>3, <1>4, <2>2, <2>3, <3>1, MoreAsked
    <2>5. \A i \in 1 .. Len(asked') : IsAccess(asked'[i])
        <3> SUFFICES ASSUME NEW i \in 1 .. Len(asked') PROVE IsAccess(asked'[i])
            OBVIOUS
        <3>1. CASE i \in 1 .. Len(asked)
            BY <1>6, <2>4, <3>1
        <3>2. CASE i = Len(asked')
            BY <2>1, <2>4, <3>2
        <3> QED BY <1>6, <2>4, <3>1, <3>2
    <2>6. Len(asked') # 0 /\ asked'[Len(asked')].addr = call'.addr
        BY <1>6, <1>9, <2>1, <2>4
    <2>7. Asking'
        BY <1>9, <2>5, <2>6 DEF Asking
    <2>8. AsksInOrder'
        BY <2>4, <2>7 DEF AsksInOrder
    <2> QED BY <1>2, <2>4, <2>8 DEF InOrder
\* a step that asks for none
<1>10. ASSUME up' = up, sent' = sent, call # H!NoCall,
              call' = call \/ call' = H!NoCall, draining' => H!IsWrite(call'),
              ~(sent' > sent)
       PROVE  InOrder'
    <2>1. asked' = asked
        <3>1. HostAsks = <<>>
            BY <1>10 DEF HostAsks
        <3> QED BY <1>1, <1>3, <3>1 DEF IsSeq
    <2>2. Ctx' = Ctx /\ DevHold' = DevHold /\ dh' = dh
        BY <1>2 DEF deviceIn, Ctx, DevHold
    <2>3. Spelling'
        <3>1. Spelt(up') /\ GoesOn'
            BY <1>3, <1>10, <2>2 DEF Spelling, GoesOn
        <3> QED BY <3>1 DEF Spelling
    <2>4. AskedAt(f)'
        <3>1. /\ (InDevice' <=> InDevice) /\ DevWe' = DevWe
              /\ hb_cyc' = hb_cyc /\ hb_stb' = hb_stb /\ bus_pend' = bus_pend
            BY <1>2 DEF deviceIn, InDevice, DevWe
        <3>2. \A k : Place(k)' = Place(k)
            BY <1>10, <2>2 DEF Place
        <3> QED BY <1>4, <1>5, <1>10, <2>1, <3>1, <3>2 DEF AskedAt
    <2>5. Asking'
        <3>1. call' # H!NoCall => call' = call
            BY <1>10
        <3> QED BY <1>5, <1>6, <1>10, <2>1, <3>1 DEF Asking
    <2> QED BY <1>2, <1>3, <1>10, <2>1, <2>3, <2>4, <2>5 DEF InOrder, AsksInOrder
<1>11. CASE H!HostCall
    <2>1. PICK c \in Calls :
            /\ call' = c
            /\ up' = up \o (H!EncodeAddress(c)
                            \o IF H!IsRead(c) THEN H!ReadCommand ELSE H!WriteCommand(c.data[1]))
        BY <1>11 DEF H!HostCall
    <2>2. call = H!NoCall /\ sent' = 1 /\ draining' = draining
        BY <1>11 DEF H!HostCall
    <2>3. H!EncodeAddress(c) = <<H!Op("addr"), H!Digits(c.addr, TRUE, 0)>>
        BY <1>7 DEF H!EncodeAddress, H!AddressKnown
    <2>4. H!IsRead(c) <=> ~H!IsWrite(c)
        BY <1>7 DEF H!IsRead, H!IsWrite
    <2>5. PICK cmd : cmd = IF H!IsRead(c) THEN H!ReadCommand ELSE H!WriteCommand(c.data[1])
        OBVIOUS
    <2>6. Carries(cmd, 1, H!IsWrite(c))
        <3>1. CASE H!IsWrite(c)
            <4>1. cmd = H!WriteCommand(c.data[1]) /\ H!IsWrite(c) = TRUE
                BY <2>4, <2>5, <3>1 DEF H!IsWrite
            <4> QED BY <4>1, CommandIs
        <3>2. CASE ~H!IsWrite(c)
            <4>1. cmd = H!ReadCommand /\ H!IsWrite(c) = FALSE
                BY <2>4, <2>5, <3>2 DEF H!IsWrite
            <4> QED BY <4>1, CommandIs
        <3> QED BY <3>1, <3>2
    <2>7. PICK r : r = <<H!Op("addr"), H!Digits(c.addr, TRUE, 0)>> \o cmd
        OBVIOUS
    <2>8. Carries(r, 3, H!IsWrite(c)) /\ r[2].t = "digits" /\ r[2].addr = c.addr
        <3>1. c.addr \in Addresses /\ H!IsWrite(c) \in BOOLEAN
            BY <1>7 DEF H!IsWrite
        <3> QED BY <2>6, <2>7, <3>1, AddressedIs
    <2>9. PICK a : a = [we |-> H!IsWrite(c), addr |-> c.addr]
        OBVIOUS
    <2>10. asked' = asked \o <<a>>
        <3>1. HostAsks = <<a>>
            BY <2>1, <2>2, <2>9 DEF HostAsks
        <3> QED BY <1>1, <3>1
    <2>11. up' = up \o r
        BY <2>1, <2>3, <2>5, <2>7
    <2>12. ~draining'
        BY <1>6, <1>8, <2>2
    <2>13. a.we = H!IsWrite(c) /\ Carries(r, 3, a.we)
        BY <2>8, <2>9
    <2>14. PICK p : p = 3
        OBVIOUS
    <2>15. /\ p \in {1, 3} /\ (p = 1 => call = c) /\ Carries(r, p, a.we)
           /\ p = 3 => r[2].t = "digits" /\ r[2].addr = c.addr
        BY <2>8, <2>13, <2>14
    <2>16. call' = c /\ (draining' => H!IsWrite(c)) /\ sent' \in Nat
        BY <2>1, <2>2, <2>12
    <2> QED BY <1>9, <2>9, <2>10, <2>11, <2>15, <2>16
\* the next word of a call
<1>12. ASSUME NEW cmd, call # H!NoCall, Carries(cmd, 1, H!IsWrite(call)), up' = up \o cmd,
              sent' = sent + 1, call' = call, draining' = draining
       PROVE  InOrder'
    <2>1. PICK a : a = [we |-> H!IsWrite(call), addr |-> call.addr]
        OBVIOUS
    <2>2. asked' = asked \o <<a>>
        <3>1. sent' > sent
            BY <1>6, <1>12
        <3>2. H!AddressOf(call, sent') = call.addr
            BY <1>6, <1>7, <1>12 DEF H!AddressOf
        <3>3. HostAsks = <<a>>
            BY <1>12, <2>1, <3>1, <3>2 DEF HostAsks
        <3> QED BY <1>1, <3>3
    <2>3. Carries(cmd, 1, a.we) /\ call \in Calls
        BY <1>6, <1>12, <2>1
    <2>4. PICK c : c = call
        OBVIOUS
    <2>5. sent' \in Nat /\ call' = c /\ c \in Calls /\ (draining' => H!IsWrite(c))
          /\ a = [we |-> H!IsWrite(c), addr |-> c.addr]
        BY <1>6, <1>12, <2>1, <2>3, <2>4
    <2>6. PICK p : p = 1
        OBVIOUS
    <2>7. /\ p \in {1, 3} /\ (p = 1 => call = c) /\ Carries(cmd, p, a.we)
          /\ p = 3 => cmd[2].t = "digits" /\ cmd[2].addr = c.addr
        BY <2>3, <2>4, <2>6
    <2> QED BY <1>9, <1>12, <2>2, <2>5, <2>7
<1>13. CASE H!HostWriteNext
    <2>1. /\ H!IsWrite(call) /\ up' = up \o H!WriteCommand(call.data[sent + 1])
          /\ sent' = sent + 1 /\ call' = call /\ draining' = draining
        BY <1>13 DEF H!HostWriteNext
    <2>2. call # H!NoCall /\ H!IsWrite(call) = TRUE
        BY <1>8, <2>1 DEF H!IsWrite
    <2>3. Carries(H!WriteCommand(call.data[sent + 1]), 1, H!IsWrite(call))
        BY <2>2, CommandIs
    <2> QED BY <1>12, <2>1, <2>2, <2>3
<1>14. ASSUME H!Takes PROVE call # H!NoCall
    BY <1>6, <1>8, <1>14 DEF H!Takes
<1>15. ~(sent > sent)
    BY <1>6
<1>16. CASE H!HostData
    <2>1. H!Takes /\ draining' = draining
        BY <1>16 DEF H!HostData, H!Ends
    <2>2. CASE H!IsWrite(call)
        <3>1. up' = up /\ sent' = sent /\ call' = call
            BY <1>16, <2>2 DEF H!HostData, H!progress
        <3> QED BY <1>6, <1>10, <1>14, <1>15, <2>1, <3>1
    <2>3. CASE ~H!IsWrite(call)
        <3>1. ~draining /\ ~draining'
            BY <1>6, <2>1, <2>3
        <3>2. CASE sent < call.n
            <4>1. up' = up \o H!ReadCommand /\ sent' = sent + 1 /\ call' = call
                BY <1>16, <2>3, <3>2 DEF H!HostData
            <4>2. H!IsWrite(call) = FALSE
                BY <2>3 DEF H!IsWrite
            <4>3. Carries(H!ReadCommand, 1, H!IsWrite(call))
                BY <4>2, CommandIs
            <4> QED BY <1>12, <1>14, <2>1, <4>1, <4>3
        <3>3. CASE ~(sent < call.n)
            <4>1. up' = up /\ sent' = sent /\ call' = H!NoCall
                BY <1>16, <2>3, <3>3 DEF H!HostData
            <4> QED BY <1>10, <1>14, <1>15, <2>1, <3>1, <4>1
        <3> QED BY <3>2, <3>3
    <2> QED BY <2>2, <2>3
<1>17. CASE H!HostWriteDone
    <2>1. /\ H!IsWrite(call) /\ ~draining /\ draining' = draining
          /\ up' = up /\ sent' = sent /\ call' = H!NoCall
        BY <1>17 DEF H!HostWriteDone
    <2> QED BY <1>8, <1>10, <1>15, <2>1
<1>18. CASE H!HostReadIdle
    <2>1. H!IsWrite(call) /\ up' = up /\ sent' = sent /\ call' = call
        BY <1>18 DEF H!HostReadIdle, H!progress
    <2> QED BY <1>8, <1>10, <1>15, <2>1
<1>19. CASE H!HostReadIdleReturns
    <2>1. draining /\ ~draining' /\ up' = up /\ sent' = sent /\ call' = call
        BY <1>19 DEF H!HostReadIdleReturns, H!progress
    <2> QED BY <1>6, <1>8, <1>10, <1>15, <2>1
<1>20. CASE H!HostDigits \/ H!HostAddrEcho \/ H!HostAck \/ H!HostOther
    <2>1. H!Takes /\ draining' = draining /\ up' = up /\ sent' = sent /\ call' = call
        BY <1>20 DEF H!HostDigits, H!HostAddrEcho, H!HostAck, H!HostOther, H!Ends, H!progress
    <2> QED BY <1>6, <1>10, <1>14, <1>15, <2>1
<1>21. CASE H!HostError
    <2>1. H!Takes /\ ~draining' /\ up' = up /\ sent' = sent /\ call' = H!NoCall
        BY <1>21 DEF H!HostError, H!HostThrow, H!Ends
    <2> QED BY <1>10, <1>14, <1>15, <2>1
<1>22. CASE H!HostIdleWord
    <2>1. H!Takes
        BY <1>22 DEF H!HostIdleWord, H!Ends
    <2>2. CASE H!IsRead(call) /\ abort_countdown = 1
        <3>1. ~draining' /\ up' = up /\ sent' = sent /\ call' = H!NoCall
            BY <1>22, <2>2 DEF H!HostIdleWord, H!HostThrow
        <3> QED BY <1>10, <1>14, <1>15, <2>1, <3>1
    <2>3. CASE ~(H!IsRead(call) /\ abort_countdown = 1)
        <3>1. draining' = draining /\ up' = up /\ sent' = sent /\ call' = call
            BY <1>22, <2>3 DEF H!HostIdleWord, H!progress
        <3> QED BY <1>6, <1>10, <1>14, <1>15, <2>1, <3>1
    <2> QED BY <2>2, <2>3
<1> QED
    BY <1>1, <1>11, <1>13, <1>16, <1>17, <1>18, <1>19, <1>20, <1>21, <1>22 DEF H!Host

-----------------------------------------------------------------------------
(* The invariant.                                                             *)

LEMMA ClockAsking ==
    ASSUME NEW byte, NEW stall, NEW answer,
           stall \in BOOLEAN, answer \in BOOLEAN,
           InOrder, DeviceStep(byte, stall, answer), UNCHANGED hostVars,
           \/ byte = NoToken
           \/ up # <<>> /\ ByteTime /\ byte = up[1]
    PROVE  Asking'
<1>1. /\ Typed /\ OneCommand /\ IsSeq(up) /\ Spelling /\ IsSeq(asked) /\ Asking
    BY DEF InOrder, AsksInOrder
<1>2. PICK f : AskedAt(f)
    BY DEF InOrder, AsksInOrder
<1>3. call' = call /\ draining' = draining /\ sent' = sent
    BY DEF hostVars
<1>4. IF hb_cyc /\ ~hb_stb /\ answer /\ asked # <<>> THEN asked' = Tail(asked) ELSE asked' = asked
    BY <1>1, BusIs DEF DeviceStep
<1>5. /\ \A i \in 1 .. Len(asked) : IsAccess(asked[i])
      /\ call # H!NoCall => call \in Calls
      /\ call # H!NoCall /\ Len(asked) = 0 => DevAddr = call.addr
      /\ call # H!NoCall /\ Len(asked) > 0 => asked[Len(asked)].addr = call.addr
      /\ Len(asked) \in Nat
    BY <1>1, SeqIs DEF Asking, IsSeq
\* the address stays, while the last access that was asked for is in the device
<1>6. ASSUME \A i \in 1 .. Len(asked) : f[i] = -1 PROVE DevAddr' = DevAddr
    <2>1. /\ up # <<>> => Len(asked) > 0
          /\ IsAddrOp(dh) => Len(asked) > 0
          /\ ByteTime /\ Ctx = "addr" => Len(asked) > 0
        BY <1>1, <1>2, UpAsked
    <2>2. Len(asked) > 0 => InDevice
        <3>1. Len(asked) > 0 => 1 \in 1 .. Len(asked)
            BY <1>5
        <3> QED BY <1>2, <1>6, <3>1 DEF AskedAt
    <2>3. CASE byte = NoToken
        <3>1. ~IsAddrOp(dh)
            BY <1>1, <2>1, <2>2 DEF IsAddrOp, InDevice, OneCommand, BusOps
        <3>2. GoesOn /\ DeviceStep(NoToken, stall, answer)
            BY <1>1, <2>3 DEF Spelling
        <3> QED BY <1>1, <3>1, <3>2, QuietMoves
    <2>4. CASE up # <<>> /\ ByteTime /\ byte = up[1]
        <3>1. byte.t \in {"op", "digits", "end"}
            BY <1>1, <2>4, FirstOfUp
        <3>2. /\ DevAddr' = IF Ctx = "addr" /\ byte.t = "digits" THEN byte.addr ELSE DevAddr
              /\ InDevice <=> Ctx \in BusOps
            BY <1>1, <2>4, <3>1, TakeMoves
        <3>3. Ctx # "addr"
            BY <2>1, <2>2, <2>4, <3>2 DEF BusOps
        <3> QED BY <3>2, <3>3
    <2> QED BY <2>3, <2>4
<1>7. CASE asked' = asked
    <2>1. Len(asked) = 0 => DevAddr' = DevAddr
        BY <1>5, <1>6
    <2> QED BY <1>1, <1>3, <1>5, <1>7, <2>1 DEF Asking
<1>8. CASE asked' # asked
    <2>1. hb_cyc /\ asked # <<>> /\ asked' = Tail(asked)
        BY <1>4, <1>8
    <2>2. /\ Len(asked) \in Nat \ {0} /\ Len(asked') = Len(asked) - 1
          /\ \A k \in 1 .. Len(asked) - 1 : asked'[k] = asked[k + 1]
        BY <1>1, <2>1, TailIs
    <2>3. \A i \in 1 .. Len(asked') : IsAccess(asked'[i])
        <3> SUFFICES ASSUME NEW i \in 1 .. Len(asked') PROVE IsAccess(asked'[i])
            OBVIOUS
        <3>1. asked'[i] = asked[i + 1] /\ i + 1 \in 1 .. Len(asked)
            BY <2>2
        <3> QED BY <1>5, <3>1
    <2>4. ASSUME call # H!NoCall, Len(asked') = 0 PROVE DevAddr' = call.addr
        <3>1. Len(asked) = 1 /\ 1 \in 1 .. Len(asked)
            BY <2>2, <2>4
        <3>2. f[1] = -1
            BY <1>2, <2>1 DEF AskedAt, InDevice
        <3>3. DevAddr = asked[1].addr
            BY <1>2, <3>1, <3>2 DEF AskedAt
        <3>4. \A i \in 1 .. Len(asked) : f[i] = -1
            BY <3>1, <3>2
        <3> QED BY <1>5, <1>6, <2>4, <3>1, <3>3, <3>4
    <2>5. ASSUME call # H!NoCall, Len(asked') > 0 PROVE asked'[Len(asked')].addr = call.addr
        <3>1. Len(asked') \in 1 .. Len(asked) - 1 /\ Len(asked') + 1 = Len(asked) /\ Len(asked) > 0
            BY <2>2, <2>5
        <3>2. asked'[Len(asked')] = asked[Len(asked)]
            BY <2>2, <3>1
        <3> QED BY <1>5, <2>5, <3>1, <3>2
    <2> QED BY <1>1, <1>3, <1>5, <2>3, <2>4, <2>5 DEF Asking
<1> QED BY <1>7, <1>8

LEMMA ClockInOrder ==
    ASSUME NEW byte, NEW stall, NEW answer, NEW quiet, NEW console, NEW txBusy,
           stall \in BOOLEAN, answer \in BOOLEAN,
           InOrder, Clock(byte, stall, answer, quiet, console, txBusy),
           \/ byte = NoToken /\ up' = up
           \/ up # <<>> /\ ByteTime /\ byte = up[1] /\ up' = Tail(up)
    PROVE  InOrder'
<1>1. /\ Typed /\ OneCommand /\ IsSeq(up) /\ Spelling /\ IsSeq(asked) /\ GoesOn
    BY DEF InOrder, Spelling
<1>2. PICK f : AskedAt(f)
    BY DEF InOrder, AsksInOrder
<1>3. /\ Con!Receive(byte) /\ Ex!Exec(w_reset, pck, BusReturn(stall, answer))
      /\ BusMemory(stall, answer) /\ UNCHANGED hostVars
    BY DEF Clock
<1>4. DeviceStep(byte, stall, answer)
    <2>1. CASE byte = NoToken
        BY <1>3, <2>1 DEF DeviceStep, Takeable
    <2>2. CASE up # <<>> /\ ByteTime /\ byte = up[1]
        <3>1. /\ byte.t \in {"op", "digits", "end"}
              /\ byte.t = "op" => byte.op \in {"addr"} \cup BusOps
              /\ byte.t = "digits" => byte.hold \in BOOLEAN /\ byte.addr \in Addresses
              /\ Ctx = "none" => byte.t = "op"
              /\ Ctx = "addr" => IsAddrDigits(byte) \/ IsBusOp(byte)
              /\ Ctx \in BusOps => byte.t \in {"digits", "end"}
            BY <1>1, <2>2, FirstOfUp
        <3>2. Takeable(byte)
            BY <2>2, <3>1 DEF Takeable
        <3> QED BY <1>3, <3>2 DEF DeviceStep
    <2> QED BY <2>1, <2>2
<1>5. Typed' /\ OneCommand'
    BY <1>1, <1>4, DeviceTyped
<1>6. Asking'
    <2>1. byte = NoToken \/ (up # <<>> /\ ByteTime /\ byte = up[1])
        OBVIOUS
    <2> QED BY <1>3, <1>4, <2>1, ClockAsking
<1>7. CASE byte = NoToken /\ up' = up
    <2>1. DeviceStep(NoToken, stall, answer) /\ IsSeq(up')
        BY <1>1, <1>4, <1>7
    <2>2. Spelling'
        BY <1>1, <1>7, <2>1, QuietSpelling
    <2>3. IsSeq(asked') /\ \E g : AskedAt(g)'
        BY <1>1, <1>2, <1>7, <2>1, QuietAsked
    <2> QED BY <1>5, <1>6, <2>1, <2>2, <2>3 DEF InOrder, AsksInOrder
<1>8. CASE up # <<>> /\ ByteTime /\ byte = up[1] /\ up' = Tail(up)
    <2>1. DeviceStep(up[1], stall, answer) /\ IsSeq(up')
        BY <1>1, <1>4, <1>8, TailIs
    <2>2. Spelling'
        BY <1>1, <1>8, <2>1, TakeSpelling
    <2>3. asked' = asked /\ \E g : AskedAt(g)'
        BY <1>1, <1>2, <1>8, <2>1, TakeAsked
    <2> QED BY <1>1, <1>5, <1>6, <2>1, <2>2, <2>3 DEF InOrder, AsksInOrder
<1> QED BY <1>7, <1>8

\* In the first state nothing is on the line, and nothing was asked for.
LEMMA InOrderInit == Init => InOrder
<1> SUFFICES ASSUME Init PROVE InOrder
    OBVIOUS
<1>1. /\ NoToken.t = "none" /\ NoCmd.op = "none" /\ IsCmd(NoCmd) /\ 0 \in Addresses
    <2>1. 0 \in Addresses
        BY HexBusAssumption DEF HexBusAssumption, Addresses
    <2>2. NoCmd = [op |-> "none", addr |-> 0, diff |-> FALSE, hold |-> FALSE, data |-> 0]
        BY DEF NoCmd, Ex!NoCmd
    <2> QED BY <2>1, <2>2 DEF IsCmd, NoToken
<1>2. /\ call = H!NoCall /\ sent = 0 /\ draining = FALSE /\ up = <<>> /\ asked = <<>>
      /\ w_reset = TRUE /\ dh = NoToken /\ cmd_loaded = FALSE /\ r_word = NoCmd /\ pck = NoCmd
      /\ hb_cyc = FALSE /\ hb_stb = FALSE /\ hb_we = FALSE /\ hb_addr = 0 /\ inc = FALSE
      /\ bus_pend = NoRequest
    BY DEF Init, H!HostInit, Con!ReceiveInit, Ex!BusInit
<1>3. Typed
    BY <1>1, <1>2 DEF Typed
<1>4. OneCommand
    BY <1>1, <1>2 DEF OneCommand, BusOps
<1>5. IsSeq(up) /\ IsSeq(asked) /\ Len(up) = 0 /\ Len(asked) = 0
    <2>1. <<>> \in Seq({}) /\ Len(<<>>) = 0
        OBVIOUS
    <2> QED BY <1>2, <2>1, SeqIs
<1>6. Ctx = "none" /\ DevHold
    BY <1>1, <1>2 DEF Ctx, DevHold
<1>7. Spelling
    BY <1>2, <1>5, <1>6 DEF Spelling, Spelt, GoesOn
<1>8. Asking
    BY <1>2, <1>5 DEF Asking
<1>9. ~InDevice /\ ~IsBusOp(Place(0))
    BY <1>1, <1>2 DEF InDevice, BusOps, IsBusOp, Place
<1>10. PICK f : f = [j \in 1 .. 0 |-> 0]
    OBVIOUS
<1>11. AskedAt(f)
    <2>1. f \in [1 .. Len(asked) -> Int] /\ \A j \in 1 .. Len(asked) : FALSE
        BY <1>5, <1>10
    <2>2. \A k \in 0 .. Len(up) : ~IsBusOp(Place(k))
        <3>1. \A k \in 0 .. Len(up) : k = 0
            BY <1>5
        <3> QED BY <1>9, <3>1
    <2>3. ~hb_cyc /\ ~(Len(asked) > 0)
        BY <1>2, <1>5
    <2> QED BY <1>9, <2>1, <2>2, <2>3 DEF AskedAt
<1> QED BY <1>3, <1>4, <1>5, <1>7, <1>8, <1>11 DEF InOrder, AsksInOrder

LEMMA InOrderStep ==
    ASSUME HeldOnly
    PROVE  InOrder /\ [Next]_vars => InOrder'
<1> SUFFICES ASSUME InOrder, [Next]_vars PROVE InOrder'
    OBVIOUS
<1>1. ASSUME NEW byte, AnyClock(byte),
             \/ byte = NoToken /\ up' = up
             \/ up # <<>> /\ ByteTime /\ byte = up[1] /\ up' = Tail(up)
      PROVE  InOrder'
    <2>1. PICK stall \in Choice(hb_stb), answer \in Choice(bus_pend # NoRequest),
               txBusy \in Choice(ps_full) :
               Clock(byte, stall, answer, FALSE, FALSE, txBusy)
        BY <1>1 DEF AnyClock
    <2>2. stall \in BOOLEAN /\ answer \in BOOLEAN
        BY DEF Choice
    <2>3. PICK quiet, console : quiet = FALSE /\ console = FALSE
        OBVIOUS
    <2>4. Clock(byte, stall, answer, quiet, console, txBusy)
        BY <2>1, <2>3
    <2>5. \/ byte = NoToken /\ up' = up
          \/ up # <<>> /\ ByteTime /\ byte = up[1] /\ up' = Tail(up)
        BY <1>1
    <2> HIDE <1>1, <2>1, <2>3
    <2> QED BY <2>2, <2>4, <2>5, ClockInOrder
<1>2. CASE HostStep
    BY <1>2, HostInOrder
<1>3. CASE DeviceClock
    BY <1>1, <1>3 DEF DeviceClock
<1>4. CASE DeviceTakes
    <2>1. ByteTime /\ up # <<>> /\ AnyClock(Head(up)) /\ up' = Tail(up)
        BY <1>4 DEF DeviceTakes
    <2>2. Head(up) = up[1]
        BY <2>1, TailIs DEF InOrder
    <2> QED BY <1>1, <2>1, <2>2
<1>5. CASE DeviceQuiet
    <2>1. Clock(NoToken, FALSE, FALSE, TRUE, FALSE, FALSE) /\ up' = up
        BY <1>5 DEF DeviceQuiet
    <2> QED BY <2>1, ClockInOrder
<1>6. CASE ConsoleTypes
    BY <1>6 DEF ConsoleTypes, HeldOnly
<1>7. CASE ConsolePrints
    <2>1. Clock(NoToken, FALSE, FALSE, FALSE, TRUE, FALSE) /\ up' = up
        BY <1>7 DEF ConsolePrints
    <2> QED BY <2>1, ClockInOrder
<1>8. ASSUME UNCHANGED <<hostVars, up, deviceVars, asked>> PROVE InOrder'
    <2>1. /\ UNCHANGED deviceIn /\ UNCHANGED <<w_reset, cmd_loaded, up, asked, call, draining, sent>>
        BY <1>8 DEF hostVars, deviceVars, deviceIn
    <2>2. /\ Ctx' = Ctx /\ DevHold' = DevHold /\ DevAddr' = DevAddr
          /\ (InDevice' <=> InDevice) /\ DevWe' = DevWe
        BY <2>1 DEF deviceIn, Ctx, DevHold, DevAddr, InDevice, DevWe
    <2>3. Typed' /\ OneCommand'
        <3>1. Typed'
            BY <2>1 DEF InOrder, Typed, deviceIn
        <3>2. OneCommand'
            BY <2>1 DEF InOrder, OneCommand, deviceIn
        <3> QED BY <3>1, <3>2
    <2>4. Spelling'
        <3>1. Spelt(up')
            BY <2>1 DEF InOrder, Spelling
        <3>2. GoesOn'
            BY <2>1, <2>2 DEF InOrder, Spelling, GoesOn, deviceIn
        <3> QED BY <3>1, <3>2 DEF Spelling
    <2>5. Asking'
        BY <2>1, <2>2 DEF InOrder, AsksInOrder, Asking
    <2>6. PICK f : AskedAt(f)
        BY DEF InOrder, AsksInOrder
    <2>7. AskedAt(f)'
        <3>1. \A k : Place(k)' = Place(k)
            BY <2>1 DEF Place, deviceIn
        <3>2. hb_cyc' = hb_cyc /\ hb_stb' = hb_stb /\ bus_pend' = bus_pend
            BY <2>1 DEF deviceIn
        <3> QED BY <2>1, <2>2, <2>6, <3>1, <3>2 DEF AskedAt
    <2> QED BY <2>1, <2>3, <2>4, <2>5, <2>7 DEF InOrder, AsksInOrder
<1>9. CASE Interrupt
    BY <1>8, <1>9 DEF Interrupt
<1>10. CASE UNCHANGED vars
    BY <1>8, <1>10 DEF vars
<1> QED BY <1>2, <1>3, <1>4, <1>5, <1>6, <1>7, <1>9, <1>10 DEF Next

LEMMA InOrderAsAsked == InOrder => AccessesAsAsked
<1> SUFFICES ASSUME InOrder, bus_pend # NoRequest
             PROVE  asked # <<>> /\ Head(asked) = [we |-> bus_pend.we, addr |-> bus_pend.addr]
    BY DEF AccessesAsAsked
<1>1. PICK f : AskedAt(f)
    BY DEF InOrder, AsksInOrder
<1>2. hb_cyc /\ ~hb_stb
    BY DEF InOrder, OneCommand
<1>3. /\ InDevice <=> (Len(asked) > 0 /\ f[1] = -1)
      /\ InDevice => asked[1].we = DevWe
      /\ hb_cyc /\ ~hb_stb => bus_pend.addr = asked[1].addr
    BY <1>1 DEF AskedAt
<1>4. Len(asked) > 0 /\ asked[1].we = DevWe /\ DevWe = bus_pend.we
      /\ bus_pend.addr = asked[1].addr
    BY <1>2, <1>3 DEF InDevice, DevWe
<1>5. asked # <<>>
    BY <1>4
<1>6. Head(asked) = asked[1] /\ 1 \in 1 .. Len(asked)
    BY <1>5, TailIs DEF InOrder
<1>7. asked[1] = [we |-> asked[1].we, addr |-> asked[1].addr]
    BY <1>6 DEF InOrder, AsksInOrder, Asking, IsAccess
<1> QED BY <1>4, <1>5, <1>6, <1>7

\* Every access of the device's bus is the next one that a call asked for, if
\* the program only uses the calls that hold the address: whatever the bus
\* answers, errors too, and however often the device says that it is idle, is
\* interrupted or prints.
THEOREM HeldAccessesAsAsked ==
    ASSUME HeldOnly
    PROVE  Spec => []AccessesAsAsked
<1>1. Spec => []InOrder
    BY InOrderInit, InOrderStep, PTL DEF Spec
<1> QED BY <1>1, InOrderAsAsked, PTL

-----------------------------------------------------------------------------
(* The way of an answer: the device's words, the line down, the driver.      *)

\* A program that besides writes one word at a time, where the bus has no error.
SingleWrites == \A c \in Calls : H!IsWrite(c) => c.n = 1 /\ c.addr \notin Bad
\* A read gives up after three signs of life.
GivesUp == H!HostIdleWord /\ call' = H!NoCall

(* The way of an answer.  Places that it passes, in this order: 1 up, 2 dh,    *)
(* 3 r_word, 4 pck, 5 hbexec, 6 rsp, 7 int_word, 8 idl_word, 9 dw_tok,         *)
(* 10 gx_tok, 11 nl_tok, 12 ps_tok, 13 down, 14 the driver, until it sees the  *)
(* word end.  Up to place 5 it is the command that will be answered; from 9 on *)
(* it is where its letter is.  There are answers of three sorts.               *)
Final == {"data", "ack", "err"}
Sign == {"reset", "idle"}
Sorts == {"addr", "final", "err", "sign"}
KindsOf(s) ==
    IF s = "addr" THEN {"addr"} ELSE IF s = "final" THEN Final
    ELSE IF s = "err" THEN {"err"} ELSE Sign
OpsOf(s) == IF s = "addr" THEN {"addr"} ELSE IF s = "final" THEN BusOps ELSE {}
IsOp(tok, s) == tok.t = "op" /\ tok.op \in OpsOf(s)
IsLetter(tok, s) == tok.t = "letter" /\ tok.word.kind \in KindsOf(s)
IsChar(tok) == tok.t \in {"letter", "hi", "lo"}
At(s, p) ==
    \/ p = 1 /\ \E k \in 1 .. Len(up) : IsOp(up[k], s)
    \/ p = 2 /\ IsOp(dh, s)
    \/ p = 3 /\ r_word.op \in OpsOf(s)
    \/ p = 4 /\ pck.op \in OpsOf(s)
    \/ p = 5 /\ ((s = "addr" /\ newaddr) \/ (s = "final" /\ hb_cyc))
    \/ p = 6 /\ rsp_stb /\ rsp.kind \in KindsOf(s)
    \/ p = 7 /\ int_stb /\ int_word.kind \in KindsOf(s)
    \/ p = 8 /\ idl_stb /\ idl_word.kind \in KindsOf(s)
    \/ p = 9 /\ dw_stb /\ IsLetter(dw_tok, s)
    \/ p = 10 /\ gx_stb /\ IsLetter(gx_tok, s)
    \/ p = 11 /\ nl_stb /\ IsLetter(nl_tok, s)
    \/ p = 12 /\ ps_full /\ IsLetter(ps_tok, s)
    \/ p = 13 /\ \E k \in 1 .. Len(down) : IsLetter(down[k], s)
    \/ p = 14 /\ m_cmd \in KindsOf(s) /\ ~m_isspace
Places(s) == {p \in 1 .. 14 : At(s, p)}
Answers(s) == Places(s) \cap 1 .. IF s = "sign" THEN 11 ELSE IF s = "addr" THEN 13 ELSE 14

\* At most one of each sort, an echo before the answer to the access.
OneEach == \A s \in {"addr", "final", "sign"} : \A p, q \in Answers(s) : p = q
OnceOn(q) ==
    /\ \A s \in {"addr", "final"} : \A i, j \in 1 .. Len(q) :
          IsLetter(q[i], s) /\ IsLetter(q[j], s) => i = j
    /\ \A i, j \in 1 .. Len(q) : IsLetter(q[i], "addr") /\ IsLetter(q[j], "final") => i < j
AsksOnce(q) ==
    /\ \A s \in {"addr", "final"} : \A i, j \in 1 .. Len(q) :
          IsOp(q[i], s) /\ IsOp(q[j], s) => i = j
    /\ \A i, j \in 1 .. Len(q) : IsOp(q[i], "addr") /\ IsOp(q[j], "final") => i < j
EchoFirst == \A p \in Answers("addr"), q \in Answers("final") : p >= q
Ordered == OneEach /\ OnceOn(down) /\ AsksOnce(up) /\ EchoFirst

\* What is in the registers on the way.
AnyKind == {"addr"} \cup Final \cup Sign
Outgoing ==
    /\ ~pending_interrupt /\ ~int_state /\ ~bus_interrupt
    /\ rsp_stb => rsp.kind \in AnyKind \ {"idle"}
    /\ int_stb => loaded /\ int_word.kind \in AnyKind \ {"idle"}
    /\ idl_stb => idl_word.kind \in AnyKind
    /\ dw_stb => /\ dw_tok.word.kind \in AnyKind
                 /\ \/ dw_tok.t = "letter" /\ r_len \in {0, 2}
                    \/ dw_tok.t = "hi" /\ r_len = 1 /\ gx_stb /\ gx_tok.t = "letter"
                       /\ gx_tok.word.kind = dw_tok.word.kind
                    \/ dw_tok.t = "lo" /\ r_len = 0 /\ gx_stb /\ gx_tok.t = "hi"
                       /\ nl_stb /\ nl_tok.t = "letter"
                       /\ nl_tok.word.kind = dw_tok.word.kind
                       /\ gx_tok.word.kind = dw_tok.word.kind
    /\ gx_stb => IsChar(gx_tok)
    /\ gx_stb /\ H!IsDigits(gx_tok) => nl_stb /\ IsChar(nl_tok)
    /\ gx_stb /\ gx_tok.t = "hi" => nl_tok.t = "letter" /\ nl_tok.word.kind = gx_tok.word.kind
    /\ nl_stb => (IsChar(nl_tok) /\ ~cr_state /\ nl_loaded) \/ nl_tok.t \in {"cr", "lf"}
    /\ nl_stb /\ H!IsDigits(nl_tok) => ps_full /\ IsChar(ps_tok)
    /\ ps_full => IsChar(ps_tok) \/ ps_tok.t \in {"cr", "lf", "console"}
    /\ \A k \in 1 .. Len(down) : IsChar(down[k]) \/ H!IsSpace(down[k])
\* A digit follows a letter or a digit.
SpaceBefore(k) == IF k = 1 THEN m_isspace ELSE H!IsSpace(down[k - 1])
Digits ==
    /\ \A k \in 1 .. Len(down) : H!IsDigits(down[k]) => ~SpaceBefore(k)
    /\ ps_full /\ H!IsDigits(ps_tok) => ~SpaceBefore(Len(down) + 1)
\* When hbexec has spoken it has nothing else to say.
SpeaksOnce ==
    /\ newaddr => ~hb_cyc /\ pck.op = "none" /\ dh.t = "none"
    /\ rsp_stb => ~newaddr /\ ~hb_cyc
    /\ w_reset => /\ rsp_stb /\ rsp.kind = "reset" /\ ~int_stb /\ ~idl_stb /\ ~dw_stb /\ ~gx_stb /\ ~nl_stb
\* What is on its way of a call.
Owed ==
    /\ call = H!NoCall \/ (H!IsWrite(call) /\ m_nacks >= 1) =>
          Answers("addr") = {} /\ Answers("final") = {}
    /\ H!IsWrite(call) =>
          /\ sent = 1 /\ Answers("err") = {}
          /\ \A i \in 1 .. Len(asked) : asked[i].addr = call.addr
Answering == Outgoing /\ Digits /\ SpeaksOnce /\ Ordered /\ Owed /\ ResponseTaken

\* What is at place p moves on in a clock.
Moves(s, p, byte, txBusy) ==
    \/ p = 1 /\ IsOp(byte, s)
    \/ p \in {2, 4, 6}
    \/ p = 3 /\ dh.t \in {"op", "end"}
    \/ p = 5 /\ ~hb_cyc'
    \/ p = 7 /\ ~Con!IdlBusy
    \/ p = 8 /\ ~dw_stb
    \/ p = 9 /\ ~Con!GxBusy(txBusy)
    \/ p = 10 /\ ~Con!NlBusy(txBusy)
    \/ p = 11 /\ ~Con!NewlineBusy(txBusy)
    \/ p = 12 /\ ~txBusy

\* What was in one place is in one place after it has moved or not, and what was
\* not overtaken is not.
LEMMA OneMoves ==
    ASSUME NEW h, NEW g, NEW m, h \subseteq Int, g \subseteq Int,
           \A p, q \in h : p = q,
           \A p \in g : (p - 1 \in h /\ p - 1 \in m) \/ (p \in h /\ p \notin m)
    PROVE  \A p, q \in g : p = q
OBVIOUS

LEMMA OrderMoves ==
    ASSUME NEW h, NEW g, NEW m, NEW hh, NEW gg, NEW mm,
           h \subseteq Int, g \subseteq Int, hh \subseteq Int, gg \subseteq Int,
           \A p \in h, q \in hh : p >= q,
           \A p \in h \cap hh : p \in mm => p \in m,
           \A p \in g : (p - 1 \in h /\ p - 1 \in m) \/ (p \in h /\ p \notin m),
           \A p \in gg : (p - 1 \in hh /\ p - 1 \in mm) \/ (p \in hh /\ p \notin mm)
    PROVE  \A p \in g, q \in gg : p >= q
OBVIOUS

\* What hbexec says, and when.
LEMMA SpeaksIs ==
    ASSUME Typed, OneCommand, NEW stall \in BOOLEAN, NEW answer \in BOOLEAN,
           Ex!Exec(w_reset, pck, BusReturn(stall, answer)), BusMemory(stall, answer)
    PROVE  /\ newaddr' <=> (~w_reset /\ pck.op = "addr" /\ ~hb_cyc)
           /\ w_reset => rsp_stb' /\ rsp'.kind = "reset"
           /\ ~w_reset => (rsp_stb' <=> IF hb_cyc THEN ~hb_stb /\ answer ELSE newaddr)
           /\ ~w_reset /\ rsp_stb' /\ ~hb_cyc => rsp'.kind = "addr"
           /\ ~w_reset /\ rsp_stb' /\ hb_cyc =>
                rsp'.kind \in Final /\ (rsp'.kind = "err" => bus_pend.addr \in Bad)
<1> DEFINE ret == BusReturn(stall, answer)
<1>1. /\ ret.ack \in BOOLEAN /\ ret.err \in BOOLEAN
      /\ bus_pend = NoRequest => ret.ack = FALSE /\ ret.err = FALSE
      /\ bus_pend # NoRequest => (ret.ack \/ ret.err <=> answer) /\ ~(ret.ack /\ ret.err)
      /\ ret.err => bus_pend.addr \in Bad
    BY DEF BusReturn, Answered
<1>2. /\ (bus_pend # NoRequest) = (hb_cyc /\ ~hb_stb) /\ (hb_stb => hb_cyc)
      /\ hb_cyc => ~w_reset /\ pck.op = "none"
    BY DEF OneCommand
<1>3. {w_reset, hb_cyc, hb_stb, hb_we, inc} \subseteq BOOLEAN
    BY DEF Typed
<1>4. Ex!ExecResponse(w_reset, pck, ret)
    BY DEF Ex!Exec
<1>5. /\ newaddr' = (~w_reset /\ pck.op = "addr" /\ ~hb_cyc)
      /\ rsp_stb' = (w_reset \/ ret.err \/ IF hb_cyc THEN ret.ack ELSE newaddr)
      /\ rsp' = IF w_reset THEN Ex!Rsp("reset")
                ELSE IF ret.err THEN Ex!Rsp("err")
                ELSE IF hb_cyc THEN IF hb_we THEN Ex!Rsp("ack") ELSE Ex!DataRsp(ret.data)
                ELSE Ex!AddrRsp(hb_addr, ~inc)
    BY <1>4 DEF Ex!ExecResponse, Ex!SetsAddress, Ex!Response
<1>6. /\ \A kind : Ex!Rsp(kind).kind = kind
      /\ \A w : Ex!DataRsp(w).kind = "data"
      /\ \A a, h : Ex!AddrRsp(a, h).kind = "addr"
    BY DEF Ex!Rsp, Ex!DataRsp, Ex!AddrRsp
<1> HIDE DEF ret
<1>7. CASE w_reset
    BY <1>2, <1>5, <1>6, <1>7
<1>8. CASE ~w_reset /\ ~hb_cyc
    <2>1. ret.err = FALSE
        BY <1>1, <1>2, <1>8
    <2> QED BY <1>5, <1>6, <1>8, <2>1
<1>9. CASE ~w_reset /\ hb_cyc
    <2>1. rsp_stb' <=> ~hb_stb /\ answer
        BY <1>1, <1>2, <1>5, <1>9
    <2>2. rsp'.kind \in Final /\ (rsp'.kind = "err" => ret.err)
        BY <1>5, <1>6, <1>9 DEF Final
    <2> QED BY <1>1, <1>5, <1>9, <2>1, <2>2
<1> QED BY <1>7, <1>8, <1>9

Kept(s, p, byte, txBusy) == At(s, p) /\ ~Moves(s, p, byte, txBusy)
Comes(s, p, byte, txBusy) == At(s, p - 1) /\ Moves(s, p - 1, byte, txBusy)

LEMMA CommandMoves ==
    ASSUME NEW s \in {"addr", "final"}, NEW byte, NEW txBusy,
           NEW stall \in BOOLEAN, NEW answer \in BOOLEAN,
           Typed, OneCommand, SpeaksOnce, AsksOnce(up), IsSeq(up),
           DeviceStep(byte, stall, answer),
           \/ byte = NoToken /\ up' = up
           \/ up # <<>> /\ ByteTime /\ byte = up[1] /\ up' = Tail(up)
    PROVE  /\ At(s, 1)' => Kept(s, 1, byte, txBusy)
           /\ At(s, 2)' => Comes(s, 2, byte, txBusy)
           /\ At(s, 3)' => Comes(s, 3, byte, txBusy) \/ Kept(s, 3, byte, txBusy)
           /\ At(s, 4)' => Comes(s, 4, byte, txBusy)
           /\ At(s, 5)' => Comes(s, 5, byte, txBusy) \/ Kept(s, 5, byte, txBusy)
           /\ At(s, 6)' => Comes(s, 6, byte, txBusy)
<1>1. /\ dh' = byte
      /\ dh.t = "none" => r_word' = r_word /\ pck' = NoCmd
      /\ dh.t = "op" => r_word' = [NoCmd EXCEPT !.op = dh.op] /\ pck' = r_word
      /\ dh.t = "digits" =>
           r_word' = [r_word EXCEPT !.addr = dh.addr, !.hold = dh.hold, !.data = dh.data]
           /\ pck' = NoCmd
      /\ dh.t = "end" => r_word' = NoCmd /\ pck' = r_word
    BY PackIs DEF DeviceStep
<1>2. /\ ~hb_cyc => (hb_cyc' <=> pck.op \in BusOps)
      /\ hb_stb => hb_cyc'
      /\ hb_cyc /\ ~hb_stb => (hb_cyc' <=> ~answer)
    BY BusIs DEF DeviceStep
<1>3. /\ newaddr' <=> (~w_reset /\ pck.op = "addr" /\ ~hb_cyc)
      /\ w_reset => rsp_stb' /\ rsp'.kind = "reset"
      /\ ~w_reset => (rsp_stb' <=> IF hb_cyc THEN ~hb_stb /\ answer ELSE newaddr)
      /\ ~w_reset /\ rsp_stb' /\ ~hb_cyc => rsp'.kind = "addr"
      /\ ~w_reset /\ rsp_stb' /\ hb_cyc => rsp'.kind \in Final
    BY SpeaksIs DEF DeviceStep
<1>4. /\ NoCmd = [op |-> "none", addr |-> 0, diff |-> FALSE, hold |-> FALSE, data |-> 0]
      /\ NoToken.t = "none" /\ "none" \notin OpsOf(s)
      /\ OpsOf(s) \subseteq {"addr"} \cup BusOps
    BY DEF NoCmd, Ex!NoCmd, NoToken, OpsOf, BusOps
<1>5. dh.t \in {"none", "op", "digits", "end"} /\ IsCmd(r_word) /\ IsCmd(pck)
    BY DEF Typed
<1>6. At(s, 1)' => Kept(s, 1, byte, txBusy)
    <2> SUFFICES ASSUME At(s, 1)' PROVE Kept(s, 1, byte, txBusy)
        OBVIOUS
    <2>1. PICK k \in 1 .. Len(up') : IsOp(up'[k], s)
        BY DEF At, IsOp
    <2>2. CASE byte = NoToken /\ up' = up
        <3>1. ~IsOp(byte, s) /\ IsOp(up[k], s) /\ k \in 1 .. Len(up)
            BY <1>4, <2>1, <2>2 DEF IsOp
        <3> QED BY <3>1 DEF Kept, At, Moves
    <2>3. CASE up # <<>> /\ ByteTime /\ byte = up[1] /\ up' = Tail(up)
        <3>1. /\ Len(up) \in Nat \ {0} /\ Len(up') = Len(up) - 1
              /\ \A j \in 1 .. Len(up) - 1 : up'[j] = up[j + 1]
            BY <2>3, TailIs
        <3>2. k + 1 \in 1 .. Len(up) /\ 1 \in 1 .. Len(up) /\ k + 1 # 1 /\ IsOp(up[k + 1], s)
            BY <2>1, <3>1
        <3>3. ~IsOp(byte, s)
            BY <2>3, <3>2 DEF AsksOnce
        <3> QED BY <3>2, <3>3 DEF Kept, At, Moves
    <2> QED BY <2>2, <2>3
<1>7. At(s, 2)' => Comes(s, 2, byte, txBusy)
    <2> SUFFICES ASSUME At(s, 2)' PROVE Comes(s, 2, byte, txBusy)
        OBVIOUS
    <2>1. IsOp(byte, s)
        BY <1>1 DEF At, IsOp
    <2>2. up # <<>> /\ byte = up[1]
        BY <1>4, <2>1 DEF IsOp
    <2>3. 1 \in 1 .. Len(up)
        BY <2>2, TailIs
    <2> QED BY <2>1, <2>2, <2>3 DEF Comes, At, Moves
<1>8. At(s, 3)' => Comes(s, 3, byte, txBusy) \/ Kept(s, 3, byte, txBusy)
    <2> SUFFICES ASSUME At(s, 3)' PROVE Comes(s, 3, byte, txBusy) \/ Kept(s, 3, byte, txBusy)
        OBVIOUS
    <2>1. r_word'.op \in OpsOf(s)
        BY DEF At
    <2>2. CASE dh.t = "op"
        <3>1. r_word'.op = dh.op
            BY <1>1, <1>4, <2>2
        <3>2. IsOp(dh, s)
            BY <2>1, <2>2, <3>1 DEF IsOp
        <3> QED BY <3>2 DEF Comes, At, Moves
    <2>3. CASE dh.t \in {"none", "digits"}
        <3>1. r_word'.op = r_word.op
            BY <1>1, <1>5, <2>3 DEF IsCmd
        <3> QED BY <2>1, <2>3, <3>1 DEF Kept, At, Moves
    <2>4. CASE dh.t = "end"
        BY <1>1, <1>4, <2>1, <2>4
    <2> QED BY <1>5, <2>2, <2>3, <2>4
<1>9. At(s, 4)' => Comes(s, 4, byte, txBusy)
    <2> SUFFICES ASSUME At(s, 4)' PROVE Comes(s, 4, byte, txBusy)
        OBVIOUS
    <2>1. pck'.op \in OpsOf(s)
        BY DEF At
    <2>2. dh.t \in {"op", "end"} /\ pck' = r_word
        BY <1>1, <1>4, <1>5, <2>1
    <2> QED BY <2>1, <2>2 DEF Comes, At, Moves
<1>10. At(s, 5)' => Comes(s, 5, byte, txBusy) \/ Kept(s, 5, byte, txBusy)
    <2>1. CASE s = "addr"
        <3>1. At(s, 5)' => newaddr'
            BY <2>1 DEF At
        <3>2. newaddr' => At(s, 4)
            BY <1>3, <2>1 DEF At, OpsOf
        <3> QED BY <3>1, <3>2 DEF Comes, Moves
    <2>2. CASE s = "final"
        <3>1. At(s, 5)' => hb_cyc'
            BY <2>2 DEF At
        <3>2. hb_cyc' => (~hb_cyc /\ At(s, 4)) \/ (hb_cyc /\ At(s, 5))
            BY <1>2, <2>2 DEF At, OpsOf
        <3> QED BY <3>1, <3>2 DEF Comes, Kept, Moves
    <2> QED BY <2>1, <2>2
<1>11. At(s, 6)' => Comes(s, 6, byte, txBusy)
    <2> SUFFICES ASSUME At(s, 6)' PROVE Comes(s, 6, byte, txBusy)
        OBVIOUS
    <2>1. rsp_stb' /\ rsp'.kind \in KindsOf(s)
        BY DEF At
    <2>2. ~w_reset
        BY <1>3, <2>1 DEF KindsOf, Final
    <2>3. CASE hb_cyc
        <3>1. s = "final" /\ ~hb_stb /\ answer
            BY <1>3, <2>1, <2>2, <2>3 DEF KindsOf, Final
        <3> QED BY <1>2, <2>3, <3>1 DEF Comes, At, Moves
    <2>4. CASE ~hb_cyc
        <3>1. s = "addr" /\ newaddr
            BY <1>3, <2>1, <2>2, <2>4 DEF KindsOf, Final
        <3>2. ~hb_cyc'
            BY <1>2, <2>4, <3>1 DEF SpeaksOnce, BusOps
        <3> QED BY <3>1, <3>2 DEF Comes, At, Moves
    <2> QED BY <2>3, <2>4
<1> QED BY <1>6, <1>7, <1>8, <1>9, <1>10, <1>11

\* What goes up the line, and the sequence it is then.
LEMMA SentIs ==
    ASSUME NEW txBusy, IsSeq(down), down' = down \o Con!Sent(txBusy)
    PROVE  /\ IsSeq(down') /\ Len(down) \in Nat
           /\ \A k \in 1 .. Len(down) : down'[k] = down[k]
           /\ \/ Len(down') = Len(down)
              \/ /\ Len(down') = Len(down) + 1 /\ down'[Len(down) + 1] = ps_tok
                 /\ ps_full /\ ~txBusy /\ ps_tok.t # "console"
           /\ ps_full /\ ~txBusy /\ ps_tok.t # "console" => Len(down') = Len(down) + 1
<1>1. CASE ps_full /\ ~txBusy /\ ps_tok.t # "console"
    <2>1. Con!Sent(txBusy) = <<ps_tok>>
        BY <1>1 DEF Con!Sent
    <2>2. <<ps_tok>> \in Seq({ps_tok}) /\ Len(<<ps_tok>>) = 1 /\ <<ps_tok>>[1] = ps_tok
        OBVIOUS
    <2>3. IsSeq(<<ps_tok>>)
        BY <2>2, SeqIs
    <2>4. /\ IsSeq(down') /\ Len(down') = Len(down) + 1 /\ Len(down) \in Nat
          /\ \A k \in 1 .. Len(down) : down'[k] = down[k]
          /\ down'[Len(down) + 1] = ps_tok
        BY <2>1, <2>2, <2>3, ConcatIs
    <2> QED BY <1>1, <2>4
<1>2. CASE ~(ps_full /\ ~txBusy /\ ps_tok.t # "console")
    <2>1. Con!Sent(txBusy) = <<>>
        BY <1>2 DEF Con!Sent
    <2>2. <<>> \in Seq({}) /\ Len(<<>>) = 0
        OBVIOUS
    <2>3. IsSeq(<<>>)
        BY <2>2, SeqIs
    <2>4. /\ IsSeq(down') /\ Len(down') = Len(down) /\ Len(down) \in Nat
          /\ \A k \in 1 .. Len(down) : down'[k] = down[k]
        BY <2>1, <2>2, <2>3, ConcatIs
    <2> QED BY <1>2, <2>4
<1> QED BY <1>1, <1>2

LEMMA AnswerMoves ==
    ASSUME NEW s \in Sorts, NEW byte, NEW txBusy, NEW quiet, NEW console,
           Outgoing, IsSeq(down), down' = down \o Con!Sent(txBusy), UNCHANGED hostVars,
           Con!Transmit(w_reset, bus_interrupt, rsp_stb, rsp, quiet, console, txBusy),
           quiet => Silent
    PROVE  /\ At(s, 7)' => Comes(s, 7, byte, txBusy) \/ Kept(s, 7, byte, txBusy)
           /\ At(s, 8)' => \/ Comes(s, 8, byte, txBusy) \/ Kept(s, 8, byte, txBusy)
                           \/ s = "sign" /\ quiet
           /\ At(s, 9)' => Comes(s, 9, byte, txBusy) \/ Kept(s, 9, byte, txBusy)
           /\ At(s, 10)' => Comes(s, 10, byte, txBusy) \/ Kept(s, 10, byte, txBusy)
           /\ At(s, 11)' => Comes(s, 11, byte, txBusy) \/ Kept(s, 11, byte, txBusy)
           /\ At(s, 12)' => Comes(s, 12, byte, txBusy) \/ Kept(s, 12, byte, txBusy)
           /\ At(s, 13)' => Comes(s, 13, byte, txBusy) \/ Kept(s, 13, byte, txBusy)
           /\ At(s, 14)' => Kept(s, 14, byte, txBusy)
<1>1. /\ Con!PassWord(w_reset, rsp_stb, rsp) /\ Con!Idles(w_reset, quiet)
      /\ Con!Deword(w_reset, txBusy) /\ Con!Genhex(w_reset, txBusy)
      /\ Con!Newline(w_reset, txBusy) /\ Con!PortShare(txBusy, console)
    BY DEF Con!Transmit
<1>2. /\ s # "sign" => "idle" \notin KindsOf(s)
      /\ Rsp("idle").kind = "idle" /\ NoToken.t = "none"
    <2>1. Rsp("idle").kind = "idle"
        BY DEF Rsp, Ex!Rsp
    <2>2. s # "sign" => "idle" \notin KindsOf(s)
        BY DEF Sorts, KindsOf, Final
    <2> QED BY <2>1, <2>2 DEF NoToken
<1>3. At(s, 7)' => Comes(s, 7, byte, txBusy) \/ Kept(s, 7, byte, txBusy)
    <2> SUFFICES ASSUME At(s, 7)' PROVE Comes(s, 7, byte, txBusy) \/ Kept(s, 7, byte, txBusy)
        OBVIOUS
    <2>1. int_stb' /\ int_word'.kind \in KindsOf(s)
        BY DEF At
    <2>2. \/ rsp_stb /\ int_word' = rsp
          \/ int_stb /\ Con!IdlBusy /\ int_word' = int_word
        BY <1>1, <2>1 DEF Con!PassWord, Con!IntStrobe, Outgoing
    <2>3. CASE rsp_stb /\ int_word' = rsp
        BY <2>1, <2>3 DEF Comes, At, Moves
    <2>4. CASE int_stb /\ Con!IdlBusy /\ int_word' = int_word
        BY <2>1, <2>4 DEF Kept, At, Moves
    <2> QED BY <2>2, <2>3, <2>4
<1>4. At(s, 8)' => \/ Comes(s, 8, byte, txBusy) \/ Kept(s, 8, byte, txBusy)
                   \/ s = "sign" /\ quiet
    <2> SUFFICES ASSUME At(s, 8)', ~(s = "sign" /\ quiet)
                 PROVE  Comes(s, 8, byte, txBusy) \/ Kept(s, 8, byte, txBusy)
        OBVIOUS
    <2>1. idl_stb' /\ idl_word'.kind \in KindsOf(s)
        BY DEF At
    <2>2. \/ int_stb /\ ~Con!IdlBusy /\ idl_word' = int_word
          \/ idl_stb /\ dw_stb /\ idl_word' = idl_word
          \/ quiet /\ ~dw_stb /\ idl_word' = Rsp("idle")
        BY <1>1, <2>1 DEF Con!Idles, Con!IdlBusy, Silent
    <2>3. CASE int_stb /\ ~Con!IdlBusy /\ idl_word' = int_word
        BY <2>1, <2>3 DEF Comes, At, Moves
    <2>4. CASE idl_stb /\ dw_stb /\ idl_word' = idl_word
        BY <2>1, <2>4 DEF Kept, At, Moves
    <2>5. CASE quiet /\ ~dw_stb /\ idl_word' = Rsp("idle")
        BY <1>2, <2>1, <2>5
    <2> QED BY <2>2, <2>3, <2>4, <2>5
<1>5. At(s, 9)' => Comes(s, 9, byte, txBusy) \/ Kept(s, 9, byte, txBusy)
    <2> SUFFICES ASSUME At(s, 9)' PROVE Comes(s, 9, byte, txBusy) \/ Kept(s, 9, byte, txBusy)
        OBVIOUS
    <2>1. dw_stb' /\ dw_tok'.t = "letter" /\ dw_tok'.word.kind \in KindsOf(s)
        BY DEF At, IsLetter
    <2>2. \A n : Con!DewordDigits(n).t \in {"hi", "lo"}
        BY DEF Con!DewordDigits
    <2>3. \/ idl_stb /\ ~dw_stb /\ dw_tok' = [t |-> "letter", word |-> idl_word]
          \/ dw_stb /\ Con!GxBusy(txBusy) /\ dw_tok' = dw_tok
        BY <1>1, <2>1, <2>2 DEF Con!Deword
    <2>4. CASE idl_stb /\ ~dw_stb /\ dw_tok' = [t |-> "letter", word |-> idl_word]
        <3>1. idl_word.kind \in KindsOf(s)
            BY <2>1, <2>4
        <3> QED BY <2>4, <3>1 DEF Comes, At, Moves
    <2>5. CASE dw_stb /\ Con!GxBusy(txBusy) /\ dw_tok' = dw_tok
        BY <2>1, <2>5 DEF Kept, At, Moves, IsLetter
    <2> QED BY <2>3, <2>4, <2>5
<1>6. At(s, 10)' => Comes(s, 10, byte, txBusy) \/ Kept(s, 10, byte, txBusy)
    <2> SUFFICES ASSUME At(s, 10)' PROVE Comes(s, 10, byte, txBusy) \/ Kept(s, 10, byte, txBusy)
        OBVIOUS
    <2>1. gx_stb' /\ IsLetter(gx_tok', s)
        BY DEF At, IsLetter
    <2>2. \/ gx_stb /\ Con!NlBusy(txBusy) /\ gx_tok' = gx_tok
          \/ dw_stb /\ ~Con!GxBusy(txBusy) /\ gx_tok' = dw_tok
        BY <1>1, <2>1 DEF Con!Genhex, Con!GxBusy
    <2>3. CASE gx_stb /\ Con!NlBusy(txBusy) /\ gx_tok' = gx_tok
        BY <2>1, <2>3 DEF Kept, At, Moves
    <2>4. CASE dw_stb /\ ~Con!GxBusy(txBusy) /\ gx_tok' = dw_tok
        BY <2>1, <2>4 DEF Comes, At, Moves
    <2> QED BY <2>2, <2>3, <2>4
<1>7. At(s, 11)' => Comes(s, 11, byte, txBusy) \/ Kept(s, 11, byte, txBusy)
    <2> SUFFICES ASSUME At(s, 11)' PROVE Comes(s, 11, byte, txBusy) \/ Kept(s, 11, byte, txBusy)
        OBVIOUS
    <2>1. nl_stb' /\ IsLetter(nl_tok', s)
        BY DEF At, IsLetter
    <2>2. \A t : nl_tok' = [t |-> t, word |-> Rsp("idle")] => t = "letter"
        BY <2>1 DEF IsLetter
    <2>3. \/ nl_stb /\ Con!NewlineBusy(txBusy) /\ nl_tok' = nl_tok
          \/ gx_stb /\ ~Con!NlBusy(txBusy) /\ nl_tok' = gx_tok
        BY <1>1, <2>1, <2>2 DEF Con!Newline
    <2>4. CASE nl_stb /\ Con!NewlineBusy(txBusy) /\ nl_tok' = nl_tok
        BY <2>1, <2>4 DEF Kept, At, Moves
    <2>5. CASE gx_stb /\ ~Con!NlBusy(txBusy) /\ nl_tok' = gx_tok
        BY <2>1, <2>5 DEF Comes, At, Moves
    <2> QED BY <2>3, <2>4, <2>5
<1>8. At(s, 12)' => Comes(s, 12, byte, txBusy) \/ Kept(s, 12, byte, txBusy)
    <2> SUFFICES ASSUME At(s, 12)' PROVE Comes(s, 12, byte, txBusy) \/ Kept(s, 12, byte, txBusy)
        OBVIOUS
    <2>1. ps_full' /\ IsLetter(ps_tok', s)
        BY DEF At, IsLetter
    <2>2. ~IsLetter(NoToken, s) /\ ~IsLetter(Con!ConsoleToken, s)
        BY DEF IsLetter, NoToken, Con!ConsoleToken
    <2>3. \/ ps_full /\ txBusy /\ ps_tok' = ps_tok
          \/ nl_stb /\ ~(txBusy /\ ps_full) /\ ps_tok' = nl_tok
        BY <1>1, <2>1, <2>2 DEF Con!PortShare
    <2>4. CASE ps_full /\ txBusy /\ ps_tok' = ps_tok
        BY <2>1, <2>4 DEF Kept, At, Moves
    <2>5. CASE nl_stb /\ ~(txBusy /\ ps_full) /\ ps_tok' = nl_tok
        BY <2>1, <2>5 DEF Comes, At, Moves, Con!NewlineBusy
    <2> QED BY <2>3, <2>4, <2>5
<1>9. At(s, 13)' => Comes(s, 13, byte, txBusy) \/ Kept(s, 13, byte, txBusy)
    <2> SUFFICES ASSUME At(s, 13)' PROVE Comes(s, 13, byte, txBusy) \/ Kept(s, 13, byte, txBusy)
        OBVIOUS
    <2>1. PICK k \in 1 .. Len(down') : IsLetter(down'[k], s)
        BY DEF At, IsLetter
    <2>2. /\ Len(down) \in Nat
          /\ \A j \in 1 .. Len(down) : down'[j] = down[j]
          /\ \/ Len(down') = Len(down)
             \/ /\ Len(down') = Len(down) + 1 /\ down'[Len(down) + 1] = ps_tok
                /\ ps_full /\ ~txBusy
        BY SentIs
    <2>3. \/ k \in 1 .. Len(down) /\ IsLetter(down[k], s)
          \/ ps_full /\ ~txBusy /\ IsLetter(ps_tok, s)
        BY <2>1, <2>2
    <2>4. CASE k \in 1 .. Len(down) /\ IsLetter(down[k], s)
        BY <2>4 DEF Kept, At, Moves
    <2>5. CASE ps_full /\ ~txBusy /\ IsLetter(ps_tok, s)
        BY <2>5 DEF Comes, At, Moves
    <2> QED BY <2>3, <2>4, <2>5
<1>10. At(s, 14)' => Kept(s, 14, byte, txBusy)
    BY DEF At, Kept, Moves, hostVars
<1> QED BY <1>3, <1>4, <1>5, <1>6, <1>7, <1>8, <1>9, <1>10

\* What a clock leaves in each of the registers.
LEMMA TransmitIs ==
    ASSUME NEW txBusy, NEW quiet, NEW console, Outgoing, quiet => Silent,
           Con!Transmit(w_reset, bus_interrupt, rsp_stb, rsp, quiet, console, txBusy)
    PROVE  /\ ~pending_interrupt' /\ ~int_state'
           /\ int_stb' => /\ loaded' /\ ~w_reset
                          /\ \/ rsp_stb /\ ~Con!IntBusy /\ int_word' = rsp
                             \/ int_stb /\ Con!IdlBusy /\ int_word' = int_word
           /\ idl_stb' => /\ ~w_reset
                          /\ \/ int_stb /\ idl_word' = int_word
                             \/ idl_stb /\ idl_word' = idl_word
                             \/ quiet /\ idl_word' = Rsp("idle")
           /\ dw_stb' =>
                /\ ~w_reset
                /\ \/ /\ idl_stb /\ ~dw_stb /\ r_len' = Con!DewordLength(idl_word)
                      /\ dw_tok' = [t |-> "letter", word |-> idl_word]
                   \/ /\ dw_stb /\ ~Con!GxBusy(txBusy) /\ r_len # 0
                      /\ dw_tok' = Con!DewordDigits(r_len) /\ r_len' = r_len - 1
                   \/ dw_stb /\ Con!GxBusy(txBusy) /\ dw_tok' = dw_tok /\ r_len' = r_len
           /\ gx_stb' => ~w_reset
           /\ ~w_reset /\ Con!GxBusy(txBusy) => gx_stb' /\ gx_tok' = gx_tok
           /\ ~w_reset /\ ~Con!GxBusy(txBusy) => (gx_stb' <=> dw_stb) /\ gx_tok' = dw_tok
           /\ nl_stb' => ~w_reset
           /\ ~w_reset /\ gx_stb /\ ~Con!NlBusy(txBusy) =>
                nl_stb' /\ nl_tok' = gx_tok /\ ~cr_state' /\ nl_loaded'
           /\ ~w_reset /\ ~(gx_stb /\ ~Con!NlBusy(txBusy)) /\ Con!NewlineBusy(txBusy) =>
                UNCHANGED <<nl_stb, nl_tok, cr_state, nl_loaded>>
           /\ ~(gx_stb /\ ~Con!NlBusy(txBusy)) /\ ~Con!NewlineBusy(txBusy) =>
                (nl_stb' => nl_tok'.t \in {"cr", "lf"})
           /\ ps_full /\ txBusy => UNCHANGED <<ps_full, ps_tok>>
           /\ ~(ps_full /\ txBusy) =>
                /\ nl_stb => ps_full' /\ ps_tok' = nl_tok
                /\ ~nl_stb => (ps_full' => ps_tok'.t = "console")
<1>1. /\ Con!PendInterrupt(w_reset, bus_interrupt) /\ Con!PassWord(w_reset, rsp_stb, rsp)
      /\ Con!Idles(w_reset, quiet) /\ Con!Deword(w_reset, txBusy) /\ Con!Genhex(w_reset, txBusy)
      /\ Con!Newline(w_reset, txBusy) /\ Con!PortShare(txBusy, console)
    BY DEF Con!Transmit
<1>2. ~pending_interrupt /\ ~int_state /\ ~bus_interrupt
    BY DEF Outgoing
<1>3. ~pending_interrupt' /\ ~int_state'
    BY <1>1, <1>2 DEF Con!PendInterrupt
<1>4. int_stb' => /\ loaded' /\ ~w_reset
                  /\ \/ rsp_stb /\ ~Con!IntBusy /\ int_word' = rsp
                     \/ int_stb /\ Con!IdlBusy /\ int_word' = int_word
    <2>1. /\ int_stb' => ~w_reset /\ ((rsp_stb /\ ~Con!IntBusy) \/ (int_stb /\ loaded /\ Con!IdlBusy))
          /\ loaded' <=> ~w_reset /\ ((rsp_stb /\ ~Con!IntBusy) \/ (loaded /\ ~(int_stb /\ ~Con!IdlBusy)))
          /\ int_word' = IF rsp_stb /\ ~Con!IntBusy THEN rsp
                         ELSE IF ~Con!IdlBusy \/ ~int_stb THEN Rsp("int") ELSE int_word
        BY <1>1, <1>2 DEF Con!PassWord, Con!IntStrobe
    <2> QED BY <2>1
<1>5. idl_stb' => /\ ~w_reset
                  /\ \/ int_stb /\ idl_word' = int_word
                     \/ idl_stb /\ idl_word' = idl_word
                     \/ quiet /\ idl_word' = Rsp("idle")
    BY <1>1 DEF Con!Idles, Con!IdlBusy, Silent
<1>6. dw_stb' =>
        /\ ~w_reset
        /\ \/ /\ idl_stb /\ ~dw_stb /\ r_len' = Con!DewordLength(idl_word)
              /\ dw_tok' = [t |-> "letter", word |-> idl_word]
           \/ /\ dw_stb /\ ~Con!GxBusy(txBusy) /\ r_len # 0
              /\ dw_tok' = Con!DewordDigits(r_len) /\ r_len' = r_len - 1
           \/ dw_stb /\ Con!GxBusy(txBusy) /\ dw_tok' = dw_tok /\ r_len' = r_len
    BY <1>1 DEF Con!Deword
<1>7. /\ gx_stb' => ~w_reset
      /\ ~w_reset /\ Con!GxBusy(txBusy) => gx_stb' /\ gx_tok' = gx_tok
      /\ ~w_reset /\ ~Con!GxBusy(txBusy) => (gx_stb' <=> dw_stb) /\ gx_tok' = dw_tok
    BY <1>1 DEF Con!Genhex, Con!GxBusy
<1>8. /\ nl_stb' => ~w_reset
      /\ ~w_reset /\ gx_stb /\ ~Con!NlBusy(txBusy) =>
           nl_stb' /\ nl_tok' = gx_tok /\ ~cr_state' /\ nl_loaded'
      /\ ~w_reset /\ ~(gx_stb /\ ~Con!NlBusy(txBusy)) /\ Con!NewlineBusy(txBusy) =>
           UNCHANGED <<nl_stb, nl_tok, cr_state, nl_loaded>>
      /\ ~(gx_stb /\ ~Con!NlBusy(txBusy)) /\ ~Con!NewlineBusy(txBusy) =>
           (nl_stb' => nl_tok'.t \in {"cr", "lf"})
    <2>1. CASE w_reset
        BY <1>1, <2>1 DEF Con!Newline
    <2>2. CASE ~w_reset /\ gx_stb /\ ~Con!NlBusy(txBusy)
        BY <1>1, <2>2 DEF Con!Newline
    <2>3. CASE ~w_reset /\ ~(gx_stb /\ ~Con!NlBusy(txBusy)) /\ Con!NewlineBusy(txBusy)
        BY <1>1, <2>3 DEF Con!Newline
    <2>4. CASE ~w_reset /\ ~(gx_stb /\ ~Con!NlBusy(txBusy)) /\ ~Con!NewlineBusy(txBusy)
        BY <1>1, <2>4 DEF Con!Newline
    <2> QED BY <2>1, <2>2, <2>3, <2>4
<1>9. /\ ps_full /\ txBusy => UNCHANGED <<ps_full, ps_tok>>
      /\ ~(ps_full /\ txBusy) =>
           /\ nl_stb => ps_full' /\ ps_tok' = nl_tok
           /\ ~nl_stb => (ps_full' => ps_tok'.t = "console")
    <2>1. CASE ps_full /\ txBusy
        BY <1>1, <2>1 DEF Con!PortShare
    <2>2. CASE ~(ps_full /\ txBusy)
        <3>1. /\ ps_full' <=> nl_stb \/ (~ps_full /\ ~nl_stb /\ console)
              /\ ps_tok' = IF nl_stb THEN nl_tok
                           ELSE IF ~ps_full /\ ~nl_stb /\ console THEN Con!ConsoleToken ELSE NoToken
            BY <1>1, <2>2 DEF Con!PortShare
        <3>2. Con!ConsoleToken.t = "console"
            BY DEF Con!ConsoleToken
        <3> QED BY <2>2, <3>1, <3>2
    <2> QED BY <2>1, <2>2
<1> QED BY <1>3, <1>4, <1>5, <1>6, <1>7, <1>8, <1>9

LEMMA ClockOutgoing ==
    ASSUME NEW txBusy, NEW quiet, NEW console, NEW stall \in BOOLEAN, NEW answer \in BOOLEAN,
           Typed, OneCommand, Outgoing, quiet => Silent, IsSeq(down), down' = down \o Con!Sent(txBusy),
           Ex!Exec(w_reset, pck, BusReturn(stall, answer)), BusMemory(stall, answer),
           Con!Transmit(w_reset, bus_interrupt, rsp_stb, rsp, quiet, console, txBusy),
           bus_interrupt' = bus_interrupt
    PROVE  Outgoing'
<1>1. /\ w_reset => rsp_stb' /\ rsp'.kind = "reset"
      /\ ~w_reset => (rsp_stb' <=> IF hb_cyc THEN ~hb_stb /\ answer ELSE newaddr)
      /\ ~w_reset /\ rsp_stb' /\ ~hb_cyc => rsp'.kind = "addr"
      /\ ~w_reset /\ rsp_stb' /\ hb_cyc => rsp'.kind \in Final
    BY SpeaksIs
<1>2. /\ ~pending_interrupt' /\ ~int_state'
      /\ int_stb' => /\ loaded' /\ ~w_reset
                     /\ \/ rsp_stb /\ ~Con!IntBusy /\ int_word' = rsp
                        \/ int_stb /\ Con!IdlBusy /\ int_word' = int_word
      /\ idl_stb' => /\ ~w_reset
                     /\ \/ int_stb /\ idl_word' = int_word
                        \/ idl_stb /\ idl_word' = idl_word
                        \/ quiet /\ idl_word' = Rsp("idle")
    BY TransmitIs
<1>3. dw_stb' =>
        /\ ~w_reset
        /\ \/ /\ idl_stb /\ ~dw_stb /\ r_len' = Con!DewordLength(idl_word)
              /\ dw_tok' = [t |-> "letter", word |-> idl_word]
           \/ /\ dw_stb /\ ~Con!GxBusy(txBusy) /\ r_len # 0
              /\ dw_tok' = Con!DewordDigits(r_len) /\ r_len' = r_len - 1
           \/ dw_stb /\ Con!GxBusy(txBusy) /\ dw_tok' = dw_tok /\ r_len' = r_len
    BY TransmitIs
<1>4. /\ gx_stb' => ~w_reset
      /\ ~w_reset /\ Con!GxBusy(txBusy) => gx_stb' /\ gx_tok' = gx_tok
      /\ ~w_reset /\ ~Con!GxBusy(txBusy) => (gx_stb' <=> dw_stb) /\ gx_tok' = dw_tok
    BY TransmitIs
<1>5. /\ nl_stb' => ~w_reset
      /\ ~w_reset /\ gx_stb /\ ~Con!NlBusy(txBusy) =>
           nl_stb' /\ nl_tok' = gx_tok /\ ~cr_state' /\ nl_loaded'
      /\ ~w_reset /\ ~(gx_stb /\ ~Con!NlBusy(txBusy)) /\ Con!NewlineBusy(txBusy) =>
           UNCHANGED <<nl_stb, nl_tok, cr_state, nl_loaded>>
      /\ ~(gx_stb /\ ~Con!NlBusy(txBusy)) /\ ~Con!NewlineBusy(txBusy) =>
           (nl_stb' => nl_tok'.t \in {"cr", "lf"})
    BY TransmitIs
<1>6. /\ ps_full /\ txBusy => UNCHANGED <<ps_full, ps_tok>>
      /\ ~(ps_full /\ txBusy) =>
           /\ nl_stb => ps_full' /\ ps_tok' = nl_tok
           /\ ~nl_stb => (ps_full' => ps_tok'.t = "console")
    BY TransmitIs
<1>7. /\ Con!GxBusy(txBusy) <=> gx_stb /\ Con!NlBusy(txBusy)
      /\ Con!NewlineBusy(txBusy) <=> txBusy /\ ps_full
      /\ Con!NlBusy(txBusy) <=> \/ Con!NewlineBusy(txBusy) /\ nl_stb /\ nl_loaded
                                \/ cr_state /\ ~Con!NewlineBusy(txBusy)
    BY DEF Con!GxBusy, Con!NewlineBusy, Con!NlBusy
\* The next stage moves with a character that another one follows.
<1>8. nl_stb /\ IsChar(nl_tok) => /\ ~cr_state /\ nl_loaded
                                  /\ Con!NlBusy(txBusy) <=> Con!NewlineBusy(txBusy)
    <2>1. IsChar(nl_tok) => nl_tok.t \notin {"cr", "lf"}
        BY DEF IsChar
    <2> QED BY <1>7, <2>1 DEF Outgoing
<1>9. ~bus_interrupt' /\ (rsp_stb' => rsp'.kind \in AnyKind \ {"idle"})
    <2>1. rsp_stb' => rsp'.kind \in AnyKind \ {"idle"}
        BY <1>1 DEF AnyKind, Final, Sign
    <2> QED BY <2>1 DEF Outgoing
<1>10. int_stb' => loaded' /\ int_word'.kind \in AnyKind \ {"idle"}
    BY <1>2 DEF Outgoing
<1>11. idl_stb' => idl_word'.kind \in AnyKind
    <2>1. Rsp("idle").kind \in AnyKind
        BY DEF Rsp, Ex!Rsp, AnyKind, Sign
    <2> QED BY <1>2, <2>1 DEF Outgoing
<1>12. gx_stb' => IsChar(gx_tok')
    <2>1. dw_stb => IsChar(dw_tok)
        BY DEF Outgoing, IsChar
    <2>2. gx_stb => IsChar(gx_tok)
        BY DEF Outgoing
    <2> QED BY <1>4, <1>7, <2>1, <2>2
\* What is in gx goes to nl as the next one follows.
<1>13. ~w_reset /\ gx_stb /\ ~Con!GxBusy(txBusy) => nl_stb' /\ nl_tok' = gx_tok
    BY <1>5, <1>7
<1>14. ~w_reset /\ gx_stb /\ Con!GxBusy(txBusy) /\ nl_stb /\ IsChar(nl_tok) =>
          nl_stb' /\ nl_tok' = nl_tok
    BY <1>5, <1>7, <1>8
<1>15. dw_stb' =>
         /\ dw_tok'.word.kind \in AnyKind
         /\ \/ dw_tok'.t = "letter" /\ r_len' \in {0, 2}
            \/ dw_tok'.t = "hi" /\ r_len' = 1 /\ gx_stb' /\ gx_tok'.t = "letter"
               /\ gx_tok'.word.kind = dw_tok'.word.kind
            \/ dw_tok'.t = "lo" /\ r_len' = 0 /\ gx_stb' /\ gx_tok'.t = "hi"
               /\ nl_stb' /\ nl_tok'.t = "letter"
               /\ nl_tok'.word.kind = dw_tok'.word.kind
               /\ gx_tok'.word.kind = dw_tok'.word.kind
    <2> SUFFICES ASSUME dw_stb'
                 PROVE  /\ dw_tok'.word.kind \in AnyKind
                        /\ \/ dw_tok'.t = "letter" /\ r_len' \in {0, 2}
                           \/ dw_tok'.t = "hi" /\ r_len' = 1 /\ gx_stb' /\ gx_tok'.t = "letter"
                              /\ gx_tok'.word.kind = dw_tok'.word.kind
                           \/ dw_tok'.t = "lo" /\ r_len' = 0 /\ gx_stb' /\ gx_tok'.t = "hi"
                              /\ nl_stb' /\ nl_tok'.t = "letter"
                              /\ nl_tok'.word.kind = dw_tok'.word.kind
                              /\ gx_tok'.word.kind = dw_tok'.word.kind
        OBVIOUS
    <2>0. ~w_reset
        BY <1>3
    <2>1. dw_stb => /\ dw_tok.word.kind \in AnyKind
                    /\ \/ dw_tok.t = "letter" /\ r_len \in {0, 2}
                       \/ dw_tok.t = "hi" /\ r_len = 1 /\ gx_stb /\ gx_tok.t = "letter"
                          /\ gx_tok.word.kind = dw_tok.word.kind
                       \/ dw_tok.t = "lo" /\ r_len = 0 /\ gx_stb /\ gx_tok.t = "hi"
                          /\ nl_stb /\ nl_tok.t = "letter"
                          /\ nl_tok.word.kind = dw_tok.word.kind
                          /\ gx_tok.word.kind = dw_tok.word.kind
        BY DEF Outgoing
    <2>2. CASE /\ idl_stb /\ r_len' = Con!DewordLength(idl_word)
               /\ dw_tok' = [t |-> "letter", word |-> idl_word]
        <3>1. r_len' \in {0, 2}
            BY <2>2 DEF Con!DewordLength, DigitGroups
        <3>2. idl_word.kind \in AnyKind
            BY <2>2 DEF Outgoing
        <3> QED BY <2>2, <3>1, <3>2
    <2>3. CASE /\ dw_stb /\ ~Con!GxBusy(txBusy) /\ r_len # 0
               /\ dw_tok' = Con!DewordDigits(r_len) /\ r_len' = r_len - 1
        <3>1. /\ dw_tok'.word = dw_tok.word /\ (r_len = 2 => dw_tok'.t = "hi" /\ r_len' = 1)
              /\ r_len = 1 => dw_tok'.t = "lo" /\ r_len' = 0
            BY <2>3 DEF Con!DewordDigits, DigitGroups
        <3>2. gx_stb' /\ gx_tok' = dw_tok
            BY <1>4, <2>0, <2>3
        <3>3. CASE dw_tok.t = "letter" /\ r_len = 2
            BY <2>1, <2>3, <3>1, <3>2, <3>3
        <3>4. CASE dw_tok.t = "hi" /\ r_len = 1 /\ gx_stb /\ gx_tok.t = "letter"
                   /\ gx_tok.word.kind = dw_tok.word.kind
            <4>1. nl_stb' /\ nl_tok' = gx_tok
                BY <1>13, <2>0, <2>3, <3>4
            <4> QED BY <2>1, <2>3, <3>1, <3>2, <3>4, <4>1
        <3> QED BY <2>1, <2>3, <3>3, <3>4
    <2>4. CASE dw_stb /\ Con!GxBusy(txBusy) /\ dw_tok' = dw_tok /\ r_len' = r_len
        <3>1. gx_stb' /\ gx_tok' = gx_tok
            BY <1>4, <2>0, <2>4
        <3>2. gx_stb
            BY <1>7, <2>4
        <3>3. nl_stb /\ nl_tok.t = "letter" => nl_stb' /\ nl_tok' = nl_tok
            BY <1>14, <2>0, <2>4, <3>2 DEF IsChar
        <3> QED BY <2>1, <2>4, <3>1, <3>3
    <2> QED BY <1>3, <2>2, <2>3, <2>4
<1>16. gx_stb' /\ H!IsDigits(gx_tok') => nl_stb' /\ IsChar(nl_tok')
    <2> SUFFICES ASSUME gx_stb', H!IsDigits(gx_tok') PROVE nl_stb' /\ IsChar(nl_tok')
        OBVIOUS
    <2>1. CASE Con!GxBusy(txBusy)
        <3>1. gx_tok' = gx_tok /\ gx_stb /\ ~w_reset
            BY <1>4, <1>7, <2>1
        <3>2. nl_stb /\ IsChar(nl_tok)
            BY <3>1 DEF Outgoing, H!IsDigits
        <3> QED BY <1>14, <2>1, <3>1, <3>2
    <2>2. CASE ~Con!GxBusy(txBusy)
        <3>1. gx_tok' = dw_tok /\ dw_stb /\ ~w_reset
            BY <1>4, <2>2
        <3>2. gx_stb /\ gx_tok.t \in {"letter", "hi"}
            BY <3>1 DEF Outgoing, H!IsDigits
        <3> QED BY <1>13, <2>2, <3>1, <3>2 DEF IsChar
    <2> QED BY <2>1, <2>2
<1>17. gx_stb' /\ gx_tok'.t = "hi" => nl_tok'.t = "letter" /\ nl_tok'.word.kind = gx_tok'.word.kind
    <2> SUFFICES ASSUME gx_stb', gx_tok'.t = "hi"
                 PROVE  nl_tok'.t = "letter" /\ nl_tok'.word.kind = gx_tok'.word.kind
        OBVIOUS
    <2>1. CASE Con!GxBusy(txBusy)
        <3>1. gx_tok' = gx_tok /\ gx_stb /\ ~w_reset
            BY <1>4, <1>7, <2>1
        <3>2. nl_stb /\ IsChar(nl_tok) /\ nl_tok.t = "letter" /\ nl_tok.word.kind = gx_tok.word.kind
            BY <3>1 DEF Outgoing, H!IsDigits
        <3> QED BY <1>14, <2>1, <3>1, <3>2
    <2>2. CASE ~Con!GxBusy(txBusy)
        <3>1. gx_tok' = dw_tok /\ dw_stb /\ ~w_reset
            BY <1>4, <2>2
        <3>2. gx_stb /\ gx_tok.t = "letter" /\ gx_tok.word.kind = dw_tok.word.kind
            BY <3>1 DEF Outgoing
        <3> QED BY <1>13, <2>2, <3>1, <3>2
    <2> QED BY <2>1, <2>2
<1>18. nl_stb' => (IsChar(nl_tok') /\ ~cr_state' /\ nl_loaded') \/ nl_tok'.t \in {"cr", "lf"}
    <2> SUFFICES ASSUME nl_stb'
                 PROVE  (IsChar(nl_tok') /\ ~cr_state' /\ nl_loaded') \/ nl_tok'.t \in {"cr", "lf"}
        OBVIOUS
    <2>1. CASE gx_stb /\ ~Con!NlBusy(txBusy)
        <3>1. IsChar(gx_tok)
            BY <2>1 DEF Outgoing
        <3> QED BY <1>5, <2>1, <3>1
    <2>2. CASE ~(gx_stb /\ ~Con!NlBusy(txBusy)) /\ Con!NewlineBusy(txBusy)
        <3>1. nl_stb /\ UNCHANGED <<nl_tok, cr_state, nl_loaded>>
            BY <1>5, <2>2
        <3> QED BY <3>1 DEF Outgoing, IsChar
    <2>3. CASE ~(gx_stb /\ ~Con!NlBusy(txBusy)) /\ ~Con!NewlineBusy(txBusy)
        BY <1>5, <2>3
    <2> QED BY <2>1, <2>2, <2>3
<1>19. nl_stb' /\ H!IsDigits(nl_tok') => ps_full' /\ IsChar(ps_tok')
    <2> SUFFICES ASSUME nl_stb', H!IsDigits(nl_tok') PROVE ps_full' /\ IsChar(ps_tok')
        OBVIOUS
    <2>1. CASE gx_stb /\ ~Con!NlBusy(txBusy)
        <3>1. nl_tok' = gx_tok
            BY <1>5, <2>1
        <3>2. nl_stb /\ IsChar(nl_tok)
            BY <2>1, <3>1 DEF Outgoing, H!IsDigits
        <3>3. ~(ps_full /\ txBusy)
            BY <1>7, <1>8, <2>1, <3>2
        <3> QED BY <1>6, <3>2, <3>3
    <2>2. CASE ~(gx_stb /\ ~Con!NlBusy(txBusy)) /\ Con!NewlineBusy(txBusy)
        <3>1. nl_stb /\ nl_tok' = nl_tok
            BY <1>5, <2>2
        <3>2. ps_full /\ IsChar(ps_tok)
            BY <3>1 DEF Outgoing, H!IsDigits
        <3> QED BY <1>6, <1>7, <2>2, <3>2 DEF IsChar
    <2>3. CASE ~(gx_stb /\ ~Con!NlBusy(txBusy)) /\ ~Con!NewlineBusy(txBusy)
        <3>1. nl_tok'.t \in {"cr", "lf"}
            BY <1>5, <2>3
        <3> QED BY <3>1 DEF H!IsDigits
    <2> QED BY <2>1, <2>2, <2>3
<1>20. ps_full' => IsChar(ps_tok') \/ ps_tok'.t \in {"cr", "lf", "console"}
    <2>1. nl_stb => IsChar(nl_tok) \/ nl_tok.t \in {"cr", "lf"}
        BY DEF Outgoing
    <2>2. ps_full => IsChar(ps_tok) \/ ps_tok.t \in {"cr", "lf", "console"}
        BY DEF Outgoing
    <2>3. CASE ps_full /\ txBusy
        BY <1>6, <2>2, <2>3 DEF IsChar
    <2>4. CASE ~(ps_full /\ txBusy) /\ nl_stb
        BY <1>6, <2>1, <2>4 DEF IsChar
    <2>5. CASE ~(ps_full /\ txBusy) /\ ~nl_stb
        BY <1>6, <2>5
    <2> QED BY <2>3, <2>4, <2>5
<1>21. \A k \in 1 .. Len(down') : IsChar(down'[k]) \/ H!IsSpace(down'[k])
    <2>1. /\ IsSeq(down') /\ Len(down) \in Nat
          /\ \A k \in 1 .. Len(down) : down'[k] = down[k]
          /\ \/ Len(down') = Len(down)
             \/ /\ Len(down') = Len(down) + 1 /\ down'[Len(down) + 1] = ps_tok
                /\ ps_full /\ ps_tok.t # "console"
        BY SentIs
    <2>2. ps_full /\ ps_tok.t # "console" => IsChar(ps_tok) \/ H!IsSpace(ps_tok)
        BY DEF Outgoing, H!IsSpace
    <2>3. \A k \in 1 .. Len(down) : IsChar(down[k]) \/ H!IsSpace(down[k])
        BY DEF Outgoing
    <2> SUFFICES ASSUME NEW k \in 1 .. Len(down') PROVE IsChar(down'[k]) \/ H!IsSpace(down'[k])
        OBVIOUS
    <2>4. \/ k \in 1 .. Len(down) /\ down'[k] = down[k]
          \/ down'[k] = ps_tok /\ ps_full /\ ps_tok.t # "console"
        BY <2>1
    <2> QED BY <2>2, <2>3, <2>4
<1> HIDE DEF Outgoing
<1>22. Outgoing'
    BY <1>2, <1>9, <1>10, <1>11, <1>12, <1>15, <1>16, <1>17, <1>18, <1>19, <1>20, <1>21 DEF Outgoing
<1> QED BY <1>22

LEMMA ClockDigits ==
    ASSUME NEW txBusy, NEW quiet, NEW console, Outgoing, Digits, quiet => Silent,
           IsSeq(down), down' = down \o Con!Sent(txBusy), UNCHANGED hostVars,
           Con!Transmit(w_reset, bus_interrupt, rsp_stb, rsp, quiet, console, txBusy)
    PROVE  Digits'
<1>1. /\ ps_full /\ txBusy => UNCHANGED <<ps_full, ps_tok>>
      /\ ~(ps_full /\ txBusy) =>
           /\ nl_stb => ps_full' /\ ps_tok' = nl_tok
           /\ ~nl_stb => (ps_full' => ps_tok'.t = "console")
    BY TransmitIs
<1>2. /\ Len(down) \in Nat
      /\ \A k \in 1 .. Len(down) : down'[k] = down[k]
      /\ \/ Len(down') = Len(down)
         \/ Len(down') = Len(down) + 1 /\ down'[Len(down) + 1] = ps_tok /\ ps_full /\ ~txBusy
      /\ ps_full /\ ~txBusy /\ ps_tok.t # "console" => Len(down') = Len(down) + 1
    BY SentIs
<1>3. m_isspace' = m_isspace
    BY DEF hostVars
<1>4. \A k \in 1 .. Len(down) + 1 : SpaceBefore(k)' <=> SpaceBefore(k)
    BY <1>2, <1>3 DEF SpaceBefore, H!IsSpace
<1>5. /\ \A k \in 1 .. Len(down) : H!IsDigits(down[k]) => ~SpaceBefore(k)
      /\ ps_full /\ H!IsDigits(ps_tok) => ~SpaceBefore(Len(down) + 1)
    BY DEF Digits
<1>6. ASSUME NEW k \in 1 .. Len(down'), H!IsDigits(down'[k]) PROVE ~SpaceBefore(k)'
    <2>1. CASE k \in 1 .. Len(down)
        <3>1. H!IsDigits(down[k])
            BY <1>2, <1>6, <2>1 DEF H!IsDigits
        <3> QED BY <1>2, <1>4, <1>5, <2>1, <3>1
    <2>2. CASE k = Len(down) + 1 /\ down'[Len(down) + 1] = ps_tok /\ ps_full
        <3>1. ~SpaceBefore(Len(down) + 1)
            BY <1>5, <1>6, <2>2 DEF H!IsDigits
        <3> QED BY <1>2, <1>4, <2>2, <3>1
    <2> QED BY <1>2, <2>1, <2>2
<1>7. PICK m, n : m = Len(down) /\ n = Len(down')
    OBVIOUS
<1>8. m \in Nat /\ n \in {m, m + 1}
    BY <1>2, <1>7
<1>9. SpaceBefore(m + 1)' <=> SpaceBefore(m + 1)
    BY <1>4, <1>7, <1>8
\* A digit in the register that is shared follows the character before it.
<1>10. ASSUME n = m + 1, ps_full, IsChar(ps_tok) PROVE ~SpaceBefore(n + 1)'
    <2>1. Len(down') # Len(down)
        BY <1>7, <1>8, <1>10
    <2>2. down'[Len(down) + 1] = ps_tok
        BY <1>2, <2>1
    <2>3. down'[m + 1] = ps_tok
        BY <1>7, <2>2
    <2>4. ~H!IsSpace(ps_tok)
        BY <1>10 DEF IsChar, H!IsSpace
    <2>5. n + 1 # 1 /\ (n + 1) - 1 = m + 1
        BY <1>8, <1>10
    <2>6. SpaceBefore(n + 1)' <=> H!IsSpace(down'[m + 1])
        BY <2>5 DEF SpaceBefore, H!IsSpace
    <2> QED BY <2>3, <2>4, <2>6
<1>11. ASSUME ps_full', H!IsDigits(ps_tok') PROVE ~SpaceBefore(n + 1)'
    <2>1. CASE ps_full /\ txBusy
        <3>1. ~SpaceBefore(m + 1)
            BY <1>1, <1>5, <1>7, <1>11, <2>1 DEF H!IsDigits
        <3>2. n = m
            BY <1>2, <1>7, <1>8, <2>1
        <3> QED BY <1>9, <3>1, <3>2
    <2>2. CASE ~(ps_full /\ txBusy)
        <3>1. nl_stb /\ ps_tok' = nl_tok
            BY <1>1, <1>11, <2>2 DEF H!IsDigits
        <3>2. ps_full /\ IsChar(ps_tok)
            BY <1>11, <3>1 DEF Outgoing, H!IsDigits
        <3>3. ps_tok.t # "console"
            BY <3>2 DEF IsChar
        <3>4. n = m + 1
            BY <1>2, <1>7, <2>2, <3>2, <3>3
        <3> QED BY <1>10, <3>2, <3>4
    <2> QED BY <2>1, <2>2
<1> QED BY <1>6, <1>7, <1>11 DEF Digits

\* A clock, and what it takes from the line.
Clocks(byte, stall, answer, quiet, console, txBusy) ==
    /\ DeviceStep(byte, stall, answer)
    /\ Con!Transmit(w_reset, bus_interrupt, rsp_stb, rsp, quiet, console, txBusy)
    /\ down' = down \o Con!Sent(txBusy) /\ UNCHANGED <<hostVars, bus_interrupt>>
    /\ quiet => Silent
    /\ \/ byte = NoToken /\ up' = up
       \/ up # <<>> /\ ByteTime /\ byte = up[1] /\ up' = Tail(up)

LEMMA ClockSpeaks ==
    ASSUME NEW byte, NEW stall, NEW answer, stall \in BOOLEAN, answer \in BOOLEAN,
           Typed, OneCommand, SpeaksOnce, DeviceStep(byte, stall, answer)
    PROVE  SpeaksOnce'
<1>1. /\ dh' = byte /\ w_reset' = (byte.t = "reset")
      /\ dh.t = "none" => pck' = NoCmd
    BY PackIs DEF DeviceStep
<1>2. /\ ~hb_cyc => (hb_cyc' <=> pck.op \in BusOps)
      /\ hb_cyc /\ ~hb_stb => (hb_cyc' <=> ~answer)
    BY BusIs DEF DeviceStep
<1>3. /\ newaddr' <=> (~w_reset /\ pck.op = "addr" /\ ~hb_cyc)
      /\ ~w_reset => (rsp_stb' <=> IF hb_cyc THEN ~hb_stb /\ answer ELSE newaddr)
    BY SpeaksIs DEF DeviceStep
<1>4. /\ pck.op # "none" => dh.t = "none" /\ ~hb_cyc
      /\ w_reset => pck.op = "none" /\ ~hb_cyc
    BY DEF OneCommand
<1>5. NoCmd.op = "none" /\ NoToken.t = "none"
    BY DEF NoCmd, Ex!NoCmd, NoToken
<1>6. byte # NoToken => pck = NoCmd /\ byte.t \in {"op", "digits", "end"}
    BY DEF DeviceStep, Takeable, ByteTime
<1>7. newaddr' => ~hb_cyc' /\ pck'.op = "none" /\ dh'.t = "none"
    <2> SUFFICES ASSUME newaddr' PROVE ~hb_cyc' /\ pck'.op = "none" /\ dh'.t = "none"
        OBVIOUS
    <2>1. pck.op = "addr" /\ ~hb_cyc
        BY <1>3
    <2>2. byte = NoToken
        BY <1>5, <1>6, <2>1
    <2> QED BY <1>1, <1>2, <1>4, <1>5, <2>1, <2>2 DEF BusOps
<1>8. rsp_stb' => ~newaddr' /\ ~hb_cyc'
    <2>1. CASE w_reset
        BY <1>2, <1>3, <1>4, <2>1 DEF BusOps
    <2>2. CASE ~w_reset /\ hb_cyc
        BY <1>2, <1>3, <2>2
    <2>3. CASE ~w_reset /\ ~hb_cyc
        BY <1>2, <1>3, <2>3 DEF SpeaksOnce, BusOps
    <2> QED BY <2>1, <2>2, <2>3
<1>9. ~w_reset'
    BY <1>1, <1>5, <1>6
<1> QED BY <1>7, <1>8, <1>9 DEF SpeaksOnce

\* What answers a command moves from place to place.
LEMMA ClockMoves ==
    ASSUME NEW byte, NEW stall, NEW answer, NEW quiet, NEW console, NEW txBusy,
           stall \in BOOLEAN, answer \in BOOLEAN,
           Typed, OneCommand, SpeaksOnce, Outgoing, AsksOnce(up), IsSeq(up), IsSeq(down),
           Clocks(byte, stall, answer, quiet, console, txBusy),
           NEW s, s \in {"addr", "final"}, NEW p, p \in 1 .. 14, At(s, p)'
    PROVE  Comes(s, p, byte, txBusy) \/ Kept(s, p, byte, txBusy)
<1>1. /\ At(s, 1)' => Kept(s, 1, byte, txBusy)
      /\ At(s, 2)' => Comes(s, 2, byte, txBusy)
      /\ At(s, 3)' => Comes(s, 3, byte, txBusy) \/ Kept(s, 3, byte, txBusy)
      /\ At(s, 4)' => Comes(s, 4, byte, txBusy)
      /\ At(s, 5)' => Comes(s, 5, byte, txBusy) \/ Kept(s, 5, byte, txBusy)
      /\ At(s, 6)' => Comes(s, 6, byte, txBusy)
    BY CommandMoves DEF Clocks
<1>2. s \in Sorts /\ s # "sign"
    BY DEF Sorts
<1>3. /\ At(s, 7)' => Comes(s, 7, byte, txBusy) \/ Kept(s, 7, byte, txBusy)
      /\ At(s, 8)' => Comes(s, 8, byte, txBusy) \/ Kept(s, 8, byte, txBusy)
      /\ At(s, 9)' => Comes(s, 9, byte, txBusy) \/ Kept(s, 9, byte, txBusy)
      /\ At(s, 10)' => Comes(s, 10, byte, txBusy) \/ Kept(s, 10, byte, txBusy)
      /\ At(s, 11)' => Comes(s, 11, byte, txBusy) \/ Kept(s, 11, byte, txBusy)
      /\ At(s, 12)' => Comes(s, 12, byte, txBusy) \/ Kept(s, 12, byte, txBusy)
      /\ At(s, 13)' => Comes(s, 13, byte, txBusy) \/ Kept(s, 13, byte, txBusy)
      /\ At(s, 14)' => Kept(s, 14, byte, txBusy)
    BY <1>2, AnswerMoves DEF Clocks
<1>4. p \in {1, 2, 3, 4, 5, 6, 7} \/ p \in {8, 9, 10, 11, 12, 13, 14}
    OBVIOUS
<1>5. CASE p \in {1, 2, 3, 4, 5, 6, 7}
    BY <1>1, <1>3, <1>5
<1>6. CASE p \in {8, 9, 10, 11, 12, 13, 14}
    BY <1>3, <1>6
<1> QED BY <1>4, <1>5, <1>6

LEMMA OtherMoves ==
    ASSUME NEW byte, NEW stall, NEW answer, NEW quiet, NEW console, NEW txBusy,
           stall \in BOOLEAN, answer \in BOOLEAN,
           Typed, OneCommand, SpeaksOnce, Outgoing, IsSeq(down),
           Clocks(byte, stall, answer, quiet, console, txBusy),
           NEW s, s \in {"sign", "err"}, NEW p, p \in 1 .. 14, At(s, p)'
    PROVE  \/ p - 1 \in 1 .. 14 /\ Comes(s, p, byte, txBusy)
           \/ Kept(s, p, byte, txBusy)
           \/ s = "sign" /\ quiet /\ p = 8
           \/ s = "sign" /\ w_reset /\ p = 6
           \/ s = "err" /\ p = 6 /\ hb_cyc /\ ~hb_stb /\ bus_pend.addr \in Bad
<1>1. s \in Sorts /\ OpsOf(s) = {}
    BY DEF Sorts, OpsOf
<1>2. /\ At(s, 7)' => Comes(s, 7, byte, txBusy) \/ Kept(s, 7, byte, txBusy)
      /\ At(s, 8)' => \/ Comes(s, 8, byte, txBusy) \/ Kept(s, 8, byte, txBusy)
                      \/ s = "sign" /\ quiet
      /\ At(s, 9)' => Comes(s, 9, byte, txBusy) \/ Kept(s, 9, byte, txBusy)
      /\ At(s, 10)' => Comes(s, 10, byte, txBusy) \/ Kept(s, 10, byte, txBusy)
      /\ At(s, 11)' => Comes(s, 11, byte, txBusy) \/ Kept(s, 11, byte, txBusy)
      /\ At(s, 12)' => Comes(s, 12, byte, txBusy) \/ Kept(s, 12, byte, txBusy)
      /\ At(s, 13)' => Comes(s, 13, byte, txBusy) \/ Kept(s, 13, byte, txBusy)
      /\ At(s, 14)' => Kept(s, 14, byte, txBusy)
    BY <1>1, AnswerMoves DEF Clocks
<1>3. p \notin 1 .. 5
    BY <1>1 DEF At, IsOp
<1>4. CASE p = 6
    <2>1. rsp_stb' /\ rsp'.kind \in KindsOf(s)
        BY <1>4 DEF At
    <2>2. /\ w_reset => rsp_stb' /\ rsp'.kind = "reset"
          /\ ~w_reset => (rsp_stb' <=> IF hb_cyc THEN ~hb_stb /\ answer ELSE newaddr)
          /\ ~w_reset /\ rsp_stb' /\ ~hb_cyc => rsp'.kind = "addr"
          /\ ~w_reset /\ rsp_stb' /\ hb_cyc =>
               rsp'.kind \in Final /\ (rsp'.kind = "err" => bus_pend.addr \in Bad)
        BY SpeaksIs DEF Clocks, DeviceStep
    <2>3. CASE s = "sign"
        BY <1>4, <2>1, <2>2, <2>3 DEF KindsOf, Sign, Final
    <2>4. CASE s = "err"
        BY <1>4, <2>1, <2>2, <2>4 DEF KindsOf, Sign, Final
    <2> QED BY <2>3, <2>4
<1>5. CASE p \in {7, 8, 9, 10, 11, 12, 13, 14}
    BY <1>2, <1>5
<1> QED BY <1>3, <1>4, <1>5

\* Two answers are not in one place, except on the lines.
LEMMA OnePlace ==
    ASSUME SpeaksOnce, NEW p, p \in 2 .. 12, At("addr", p) PROVE ~At("final", p)
<1>1. OpsOf("addr") = {"addr"} /\ OpsOf("final") = {"read", "write"}
      /\ KindsOf("addr") = {"addr"} /\ KindsOf("final") = {"data", "ack", "err"}
    BY DEF OpsOf, KindsOf, BusOps, Final
<1>2. CASE p \in {2, 3, 4}
    BY <1>1, <1>2 DEF At, IsOp
<1>3. CASE p = 5
    BY <1>3 DEF At, SpeaksOnce
<1>4. CASE p \in {6, 7, 8}
    BY <1>1, <1>4 DEF At
<1>5. CASE p \in {9, 10, 11, 12}
    BY <1>1, <1>5 DEF At, IsLetter
<1> QED BY <1>2, <1>3, <1>4, <1>5

LEMMA ClockEach ==
    ASSUME NEW byte, NEW stall, NEW answer, NEW quiet, NEW console, NEW txBusy,
           stall \in BOOLEAN, answer \in BOOLEAN,
           Typed, OneCommand, SpeaksOnce, Outgoing, Ordered, IsSeq(up), IsSeq(down),
           Clocks(byte, stall, answer, quiet, console, txBusy)
    PROVE  OneEach' /\ EchoFirst'
<1>1. /\ \A p, q \in Answers("addr") : p = q
      /\ \A p, q \in Answers("final") : p = q
      /\ \A p, q \in Answers("sign") : p = q
      /\ \A p \in Answers("addr"), q \in Answers("final") : p >= q
      /\ AsksOnce(up)
    BY DEF Ordered, OneEach, EchoFirst
<1> DEFINE last(s) == IF s = "sign" THEN 11 ELSE IF s = "addr" THEN 13 ELSE 14
<1>2. \A s, p : p \in Answers(s) <=> p \in 1 .. last(s) /\ At(s, p)
    BY DEF Answers, Places
<1>3. \A s, p : p \in Answers(s)' <=> p \in 1 .. last(s) /\ At(s, p)'
    BY DEF Answers, Places
<1>4. PICK h, g, m, hh, gg, mm :
        /\ h = Answers("addr") /\ g = Answers("addr")'
        /\ m = {p \in 1 .. 14 : Moves("addr", p, byte, txBusy)}
        /\ hh = Answers("final") /\ gg = Answers("final")'
        /\ mm = {p \in 1 .. 14 : Moves("final", p, byte, txBusy)}
    OBVIOUS
<1>5. h \subseteq Int /\ g \subseteq Int /\ hh \subseteq Int /\ gg \subseteq Int
    BY <1>2, <1>3, <1>4
<1>6. \A s, p : p - 1 \notin 1 .. 14 => ~At(s, p - 1)
    BY DEF At
<1>7. \A p \in g : (p - 1 \in h /\ p - 1 \in m) \/ (p \in h /\ p \notin m)
    <2> SUFFICES ASSUME NEW p \in g
                 PROVE  (p - 1 \in h /\ p - 1 \in m) \/ (p \in h /\ p \notin m)
        OBVIOUS
    <2>1. p \in 1 .. 13 /\ p \in 1 .. 14 /\ At("addr", p)'
        BY <1>3, <1>4
    <2>2. Comes("addr", p, byte, txBusy) \/ Kept("addr", p, byte, txBusy)
        BY <1>1, <2>1, ClockMoves
    <2>3. CASE Comes("addr", p, byte, txBusy)
        <3>1. At("addr", p - 1) /\ Moves("addr", p - 1, byte, txBusy)
            BY <2>3 DEF Comes
        <3>2. p - 1 \in 1 .. 13 /\ p - 1 \in 1 .. 14
            BY <1>6, <2>1, <3>1
        <3> QED BY <1>2, <1>4, <3>1, <3>2
    <2>4. CASE Kept("addr", p, byte, txBusy)
        <3>1. At("addr", p) /\ ~Moves("addr", p, byte, txBusy)
            BY <2>4 DEF Kept
        <3> QED BY <1>2, <1>4, <2>1, <3>1
    <2> QED BY <2>2, <2>3, <2>4
<1>8. \A p \in gg : (p - 1 \in hh /\ p - 1 \in mm) \/ (p \in hh /\ p \notin mm)
    <2> SUFFICES ASSUME NEW p \in gg
                 PROVE  (p - 1 \in hh /\ p - 1 \in mm) \/ (p \in hh /\ p \notin mm)
        OBVIOUS
    <2>1. p \in 1 .. 14 /\ At("final", p)'
        BY <1>3, <1>4
    <2>2. Comes("final", p, byte, txBusy) \/ Kept("final", p, byte, txBusy)
        BY <1>1, <2>1, ClockMoves
    <2>3. CASE Comes("final", p, byte, txBusy)
        <3>1. At("final", p - 1) /\ Moves("final", p - 1, byte, txBusy)
            BY <2>3 DEF Comes
        <3>2. p - 1 \in 1 .. 14
            BY <1>6, <2>1, <3>1
        <3> QED BY <1>2, <1>4, <3>1, <3>2
    <2>4. CASE Kept("final", p, byte, txBusy)
        <3>1. At("final", p) /\ ~Moves("final", p, byte, txBusy)
            BY <2>4 DEF Kept
        <3> QED BY <1>2, <1>4, <2>1, <3>1
    <2> QED BY <2>2, <2>3, <2>4
<1>9. (\A p, q \in h : p = q) /\ (\A p, q \in hh : p = q) /\ (\A p \in h, q \in hh : p >= q)
    BY <1>1, <1>4
\* Only on the line up are both in one place, the address first.
<1>10. \A p \in h \cap hh : p \in mm => p \in m
    <2> SUFFICES ASSUME NEW p \in h \cap hh, p \in mm PROVE p \in m
        OBVIOUS
    <2>1. p \in 1 .. 13 /\ At("addr", p) /\ At("final", p) /\ Moves("final", p, byte, txBusy)
        BY <1>2, <1>4
    <2>2. p = 1 \/ p = 13
        <3>1. p \in 2 .. 12 \/ p = 1 \/ p = 13
            BY <2>1
        <3> QED BY <2>1, <3>1, OnePlace
    <2>3. p = 1 /\ IsOp(byte, "final")
        BY <2>1, <2>2 DEF Moves
    <2>4. byte # NoToken
        BY <2>3 DEF IsOp, NoToken
    <2>5. up # <<>> /\ byte = up[1]
        BY <2>4 DEF Clocks
    <2>6. PICK k \in 1 .. Len(up) : IsOp(up[k], "addr")
        BY <2>1, <2>3 DEF At
    <2>7. Len(up) \in Nat \ {0} /\ 1 \in 1 .. Len(up)
        BY <2>5, TailIs
    <2>8. k < 1
        BY <1>1, <2>3, <2>5, <2>6, <2>7 DEF AsksOnce
    <2> QED BY <2>6, <2>7, <2>8
<1>11. (\A p, q \in g : p = q) /\ (\A p, q \in gg : p = q)
    BY <1>5, <1>7, <1>8, <1>9, OneMoves
<1>12. \A p \in g, q \in gg : p >= q
    BY <1>5, <1>7, <1>8, <1>9, <1>10, OrderMoves
<1>13. \A p, q \in Answers("sign")' : p = q
    <2>0. /\ w_reset => /\ \A p \in Answers("sign")' : p = 6
          /\ quiet => \A p \in Answers("sign") : p \notin 6 .. 11
        <3>1. w_reset => ~int_stb' /\ ~idl_stb' /\ ~dw_stb' /\ ~gx_stb' /\ ~nl_stb'
            BY TransmitIs DEF Clocks
        <3>2. w_reset => \A p \in 7 .. 11 : ~At("sign", p)'
            BY <3>1 DEF At
        <3>3. OpsOf("sign") = {}
            BY DEF OpsOf
        <3>4. \A p \in 1 .. 5 : ~At("sign", p)'
            BY <3>3 DEF At, IsOp
        <3>5. quiet => \A p \in 6 .. 11 : ~At("sign", p)
            BY DEF At, Clocks, Silent
        <3> QED BY <1>2, <1>3, <3>2, <3>4, <3>5
    <2>1. PICK j, i, n : /\ j = Answers("sign") /\ i = Answers("sign")'
                         /\ n = {p \in 1 .. 14 : Moves("sign", p, byte, txBusy)}
        OBVIOUS
    <2>2. j \subseteq Int /\ i \subseteq Int /\ (\A p, q \in j : p = q)
        BY <1>1, <1>2, <1>3, <2>1
    <2>3. \A p \in i : \/ (p - 1 \in j /\ p - 1 \in n) \/ (p \in j /\ p \notin n)
                       \/ quiet /\ p = 8
                       \/ w_reset
        <3> SUFFICES ASSUME NEW p \in i
                     PROVE  \/ (p - 1 \in j /\ p - 1 \in n) \/ (p \in j /\ p \notin n)
                            \/ quiet /\ p = 8
                            \/ w_reset
            OBVIOUS
        <3>1. p \in 1 .. 11 /\ p \in 1 .. 14 /\ At("sign", p)'
            BY <1>3, <2>1
        <3>2. \/ p - 1 \in 1 .. 14 /\ Comes("sign", p, byte, txBusy)
              \/ Kept("sign", p, byte, txBusy)
              \/ quiet /\ p = 8
              \/ w_reset
            BY <3>1, OtherMoves
        <3>3. CASE p - 1 \in 1 .. 14 /\ Comes("sign", p, byte, txBusy)
            <4>1. At("sign", p - 1) /\ Moves("sign", p - 1, byte, txBusy)
                BY <3>3 DEF Comes
            <4>2. p - 1 \in 1 .. 11
                BY <3>1, <3>3
            <4> QED BY <1>2, <2>1, <3>3, <4>1, <4>2
        <3>4. CASE Kept("sign", p, byte, txBusy)
            <4>1. At("sign", p) /\ ~Moves("sign", p, byte, txBusy)
                BY <3>4 DEF Kept
            <4> QED BY <1>2, <2>1, <3>1, <4>1
        <3> QED BY <3>2, <3>3, <3>4
    <2>4. CASE w_reset
        BY <2>0, <2>4
    <2>5. CASE ~w_reset /\ quiet
        <3>1. \A p \in j : p \in 1 .. 11 /\ p \notin 6 .. 11
            BY <1>2, <2>0, <2>1, <2>5
        <3>2. \A p \in i : p \in 6 .. 11
            <4>1. OpsOf("sign") = {}
                BY DEF OpsOf
            <4>2. \A p \in 1 .. 5 : ~At("sign", p)'
                BY <4>1 DEF At, IsOp
            <4> QED BY <1>3, <2>1, <4>2
        <3>3. \A p \in j : ~(p \in 1 .. 5)
            <4>1. OpsOf("sign") = {}
                BY DEF OpsOf
            <4>2. \A p \in 1 .. 5 : ~At("sign", p)
                BY <4>1 DEF At, IsOp
            <4> QED BY <1>2, <2>1, <4>2
        <3>4. j = {}
            BY <3>1, <3>3
        <3> QED BY <2>1, <2>3, <2>5, <3>4
    <2>6. CASE ~w_reset /\ ~quiet
        <3>1. \A p \in i : (p - 1 \in j /\ p - 1 \in n) \/ (p \in j /\ p \notin n)
            BY <2>3, <2>6
        <3>2. \A p, q \in i : p = q
            BY <2>2, <3>1, OneMoves
        <3> QED BY <2>1, <3>2
    <2> QED BY <2>4, <2>5, <2>6
<1>14. OneEach'
    <2>1. (\A p, q \in Answers("addr")' : p = q) /\ (\A p, q \in Answers("final")' : p = q)
        BY <1>4, <1>11
    <2> QED BY <1>13, <2>1 DEF OneEach
<1>15. EchoFirst'
    BY <1>4, <1>12 DEF EchoFirst
<1> QED BY <1>14, <1>15

LEMMA ClockLines ==
    ASSUME NEW byte, NEW stall, NEW answer, NEW quiet, NEW console, NEW txBusy,
           stall \in BOOLEAN, answer \in BOOLEAN,
           SpeaksOnce, Ordered, IsSeq(up), IsSeq(down),
           Clocks(byte, stall, answer, quiet, console, txBusy)
    PROVE  OnceOn(down') /\ AsksOnce(up')
<1>1. OnceOn(down')
    <2>1. /\ Len(down) \in Nat
          /\ \A k \in 1 .. Len(down) : down'[k] = down[k]
          /\ \/ Len(down') = Len(down)
             \/ /\ Len(down') = Len(down) + 1 /\ down'[Len(down) + 1] = ps_tok
                /\ ps_full
        BY SentIs DEF Clocks
    <2>2. PICK m, n : m = Len(down) /\ n = Len(down')
        OBVIOUS
    <2>3. \A k \in 1 .. n : \/ k \in 1 .. m /\ down'[k] = down[k]
                            \/ k = m + 1 /\ down'[k] = ps_tok /\ ps_full
        BY <2>1, <2>2
    <2>4. m \in Nat /\ n \in Nat
        BY <2>1, <2>2
    <2>5. /\ \A s \in {"addr", "final"} : \A i, j \in 1 .. m :
                IsLetter(down[i], s) /\ IsLetter(down[j], s) => i = j
          /\ \A i, j \in 1 .. m : IsLetter(down[i], "addr") /\ IsLetter(down[j], "final") => i < j
        BY <2>2 DEF Ordered, OnceOn
    <2>6. /\ \A s \in {"addr", "final"} : ps_full /\ IsLetter(ps_tok, s) => 12 \in Answers(s)
          /\ \A s \in {"addr", "final"}, k \in 1 .. m : IsLetter(down[k], s) => 13 \in Answers(s)
        <3>1. \A s : ps_full /\ IsLetter(ps_tok, s) => At(s, 12)
            BY DEF At
        <3>2. \A s, k : k \in 1 .. m /\ IsLetter(down[k], s) => At(s, 13)
            BY <2>2 DEF At
        <3> QED BY <3>1, <3>2 DEF Answers, Places
    <2>7. /\ \A s \in {"addr", "final"} : \A p, q \in Answers(s) : p = q
          /\ \A p \in Answers("addr"), q \in Answers("final") : p >= q
        BY DEF Ordered, OneEach, EchoFirst
    <2>8. ASSUME NEW s \in {"addr", "final"}, NEW i \in 1 .. n, NEW j \in 1 .. n,
                 IsLetter(down'[i], s), IsLetter(down'[j], s)
          PROVE  i = j
        <3>1. \/ i \in 1 .. m /\ IsLetter(down[i], s)
              \/ i = m + 1 /\ ps_full /\ IsLetter(ps_tok, s)
            BY <2>3, <2>8
        <3>2. \/ j \in 1 .. m /\ IsLetter(down[j], s)
              \/ j = m + 1 /\ ps_full /\ IsLetter(ps_tok, s)
            BY <2>3, <2>8
        <3>3. ~(12 \in Answers(s) /\ 13 \in Answers(s))
            BY <2>7
        <3> QED BY <2>5, <2>6, <3>1, <3>2, <3>3
    <2>9. ASSUME NEW i \in 1 .. n, NEW j \in 1 .. n,
                 IsLetter(down'[i], "addr"), IsLetter(down'[j], "final")
          PROVE  i < j
        <3>1. \/ i \in 1 .. m /\ IsLetter(down[i], "addr")
              \/ i = m + 1 /\ ps_full /\ IsLetter(ps_tok, "addr")
            BY <2>3, <2>9
        <3>2. \/ j \in 1 .. m /\ IsLetter(down[j], "final")
              \/ j = m + 1 /\ ps_full /\ IsLetter(ps_tok, "final")
            BY <2>3, <2>9
        <3>3. CASE i \in 1 .. m /\ IsLetter(down[i], "addr")
            BY <2>4, <2>5, <3>2, <3>3
        <3>4. CASE i = m + 1 /\ ps_full /\ IsLetter(ps_tok, "addr")
            <4>1. 12 \in Answers("addr")
                BY <2>6, <3>4
            <4>2. ~IsLetter(ps_tok, "final")
                BY <3>4 DEF IsLetter, KindsOf, Final
            <4>3. 13 \in Answers("final")
                BY <2>6, <3>2, <4>2
            <4> QED BY <2>7, <4>1, <4>3
        <3> QED BY <3>1, <3>3, <3>4
    <2> QED BY <2>2, <2>8, <2>9 DEF OnceOn
<1>2. AsksOnce(up')
    <2>0. AsksOnce(up)
        BY DEF Ordered
    <2>1. CASE up' = up
        BY <2>0, <2>1
    <2>2. CASE up # <<>> /\ up' = Tail(up)
        <3>1. /\ Len(up) \in Nat \ {0} /\ Len(up') = Len(up) - 1
              /\ \A k \in 1 .. Len(up) - 1 : up'[k] = up[k + 1]
            BY <2>2, TailIs
        <3>2. PICK m, n : m = Len(up) /\ n = Len(up')
            OBVIOUS
        <3>3. \A k \in 1 .. n : k + 1 \in 1 .. m /\ up'[k] = up[k + 1]
            BY <3>1, <3>2
        <3>4. m \in Nat /\ n \in Nat
            BY <3>1, <3>2
        <3>5. \A s \in {"addr", "final"} : \A i, j \in 1 .. n :
                  IsOp(up'[i], s) /\ IsOp(up'[j], s) => i = j
            <4> SUFFICES ASSUME NEW s \in {"addr", "final"}, NEW i \in 1 .. n, NEW j \in 1 .. n,
                                IsOp(up'[i], s), IsOp(up'[j], s)
                         PROVE  i = j
                OBVIOUS
            <4>1. i + 1 = j + 1
                BY <2>0, <3>2, <3>3 DEF AsksOnce
            <4> QED BY <3>4, <4>1
        <3>6. \A i, j \in 1 .. n : IsOp(up'[i], "addr") /\ IsOp(up'[j], "final") => i < j
            <4> SUFFICES ASSUME NEW i \in 1 .. n, NEW j \in 1 .. n,
                                IsOp(up'[i], "addr"), IsOp(up'[j], "final")
                         PROVE  i < j
                OBVIOUS
            <4>1. i + 1 < j + 1
                BY <2>0, <3>2, <3>3 DEF AsksOnce
            <4> QED BY <3>4, <4>1
        <3> QED BY <3>2, <3>5, <3>6 DEF AsksOnce
    <2> QED BY <2>1, <2>2 DEF Clocks
<1> QED BY <1>1, <1>2

\* Were hbexec to speak while hbints holds a word that does not move on, there
\* would be four answers on their way, of three sorts.
LEMMA ClockTaken ==
    ASSUME NEW byte, NEW stall, NEW answer, NEW quiet, NEW console, NEW txBusy,
           stall \in BOOLEAN, answer \in BOOLEAN,
           Typed, OneCommand, SpeaksOnce, Outgoing, Ordered,
           Clocks(byte, stall, answer, quiet, console, txBusy)
    PROVE  ResponseTaken'
<1> SUFFICES ASSUME int_stb', rsp_stb' PROVE FALSE
    BY DEF ResponseTaken, Con!IntBusy
<1>1. /\ ~w_reset
      /\ (rsp_stb /\ ~Con!IntBusy) \/ (int_stb /\ Con!IdlBusy)
    BY TransmitIs DEF Clocks
<1>2. IF hb_cyc THEN ~hb_stb /\ answer ELSE newaddr
    BY <1>1, SpeaksIs DEF Clocks, DeviceStep
<1>3. hb_cyc \/ newaddr
    BY <1>2
<1>4. ~rsp_stb
    BY <1>3 DEF SpeaksOnce
<1>5. int_stb /\ idl_stb /\ dw_stb
    BY <1>1, <1>4 DEF Con!IdlBusy
<1> DEFINE S == {"addr", "final", "sign"}
<1>6. \A kind \in AnyKind : \E s \in S : kind \in KindsOf(s)
    BY DEF AnyKind, Final, Sign, KindsOf
<1>7. \A s \in S, p \in 1 .. 11 : At(s, p) => p \in Answers(s)
    BY DEF Answers, Places
<1>8. \E s \in S : 5 \in Answers(s)
    <2>1. At("addr", 5) \/ At("final", 5)
        BY <1>3 DEF At
    <2> QED BY <1>7, <2>1
<1>9. \E s \in S : 7 \in Answers(s)
    <2>1. int_word.kind \in AnyKind
        BY <1>5 DEF Outgoing
    <2>2. PICK s \in S : int_word.kind \in KindsOf(s)
        BY <1>6, <2>1
    <2>3. At(s, 7)
        BY <1>5, <2>2 DEF At
    <2> QED BY <1>7, <2>3
<1>10. \E s \in S : 8 \in Answers(s)
    <2>1. idl_word.kind \in AnyKind
        BY <1>5 DEF Outgoing
    <2>2. PICK s \in S : idl_word.kind \in KindsOf(s)
        BY <1>6, <2>1
    <2>3. At(s, 8)
        BY <1>5, <2>2 DEF At
    <2> QED BY <1>7, <2>3
<1>11. \E s \in S, p \in 9 .. 11 : p \in Answers(s)
    <2>1. PICK s \in S : dw_tok.word.kind \in KindsOf(s)
        BY <1>5, <1>6 DEF Outgoing
    <2>2. At(s, 9) \/ At(s, 10) \/ At(s, 11)
        BY <1>5, <2>1 DEF Outgoing, At, IsLetter
    <2> QED BY <1>7, <2>2
<1>12. \A s \in S : \A p, q \in Answers(s) : p = q
    BY DEF Ordered, OneEach
<1> QED BY <1>8, <1>9, <1>10, <1>11, <1>12

LEMMA ClockOwed ==
    ASSUME NEW byte, NEW stall, NEW answer, NEW quiet, NEW console, NEW txBusy,
           stall \in BOOLEAN, answer \in BOOLEAN,
           SingleWrites, InOrder, Owed,
           SpeaksOnce, Outgoing, Ordered, IsSeq(down),
           Clocks(byte, stall, answer, quiet, console, txBusy)
    PROVE  Owed'
<1>1. Typed /\ OneCommand /\ IsSeq(up) /\ IsSeq(asked) /\ Asking
    BY DEF InOrder, AsksInOrder
<1>2. PICK f : AskedAt(f)
    BY DEF InOrder, AsksInOrder
<1>3. call' = call /\ m_nacks' = m_nacks /\ sent' = sent
    BY DEF Clocks, hostVars
<1>4. \A s, p : p - 1 \notin 1 .. 14 => ~At(s, p - 1)
    BY DEF At
<1>5. ASSUME NEW s \in {"addr", "final"}, Answers(s) = {} PROVE Answers(s)' = {}
    <2> DEFINE last == IF s = "addr" THEN 13 ELSE 14
    <2>1. \A p : p \in Answers(s) <=> p \in 1 .. last /\ At(s, p)
        BY DEF Answers, Places
    <2>2. \A p : p \in Answers(s)' <=> p \in 1 .. last /\ At(s, p)'
        BY DEF Answers, Places
    <2>3. ASSUME NEW p \in 1 .. last, At(s, p)' PROVE FALSE
        <3>1. p \in 1 .. 14 /\ AsksOnce(up)
            BY DEF Ordered
        <3>2. Comes(s, p, byte, txBusy) \/ Kept(s, p, byte, txBusy)
            BY <1>1, <2>3, <3>1, ClockMoves
        <3>3. At(s, p - 1) \/ At(s, p)
            BY <3>2 DEF Comes, Kept
        <3>4. p - 1 \in 1 .. last \/ ~At(s, p - 1)
            BY <1>4
        <3> QED BY <1>5, <2>1, <3>3, <3>4
    <2> QED BY <2>2, <2>3
<1>6. ASSUME H!IsWrite(call) PROVE Answers("err")' = {}
    <2>0. \A p \in 1 .. 14 : ~At("err", p)
        BY <1>6 DEF Owed, Answers, Places
    <2>1. \A p : p \in Answers("err")' <=> p \in 1 .. 14 /\ At("err", p)'
        BY DEF Answers, Places
    <2>2. ASSUME NEW p \in 1 .. 14, At("err", p)' PROVE FALSE
        <3>1. \/ p - 1 \in 1 .. 14 /\ Comes("err", p, byte, txBusy)
              \/ Kept("err", p, byte, txBusy)
              \/ hb_cyc /\ ~hb_stb /\ bus_pend.addr \in Bad
            BY <1>1, <2>2, OtherMoves
        <3>2. hb_cyc /\ ~hb_stb /\ bus_pend.addr \in Bad
            BY <2>0, <3>1 DEF Comes, Kept
        <3>3. /\ bus_pend.addr = asked[1].addr /\ InDevice
              /\ InDevice => Len(asked) > 0
            BY <1>2, <3>2 DEF AskedAt, InDevice
        <3>4. 1 \in 1 .. Len(asked)
            <4>1. Len(asked) \in Nat
                BY <1>1 DEF IsSeq
            <4> QED BY <3>3, <4>1
        <3>5. asked[1].addr = call.addr
            BY <1>6, <3>4 DEF Owed
        <3>6. call # H!NoCall
            BY <1>6 DEF H!IsWrite, H!NoCall
        <3>7. call \in Calls
            BY <1>1, <3>6 DEF Asking
        <3> QED BY <1>6, <3>2, <3>3, <3>5, <3>7 DEF SingleWrites
    <2> QED BY <2>1, <2>2
<1>7. ASSUME H!IsWrite(call) PROVE \A i \in 1 .. Len(asked') : asked'[i].addr = call.addr
    <2>1. IF hb_cyc /\ ~hb_stb /\ answer /\ asked # <<>> THEN asked' = Tail(asked) ELSE asked' = asked
        BY <1>1, BusIs DEF Clocks, DeviceStep
    <2>2. \A i \in 1 .. Len(asked) : asked[i].addr = call.addr
        BY <1>7 DEF Owed
    <2>3. CASE asked' = asked
        BY <2>2, <2>3
    <2>4. CASE asked # <<>> /\ asked' = Tail(asked)
        <3>1. /\ Len(asked) \in Nat \ {0} /\ Len(asked') = Len(asked) - 1
              /\ \A k \in 1 .. Len(asked) - 1 : asked'[k] = asked[k + 1]
            BY <1>1, <2>4, TailIs
        <3> SUFFICES ASSUME NEW i \in 1 .. Len(asked') PROVE asked'[i].addr = call.addr
            OBVIOUS
        <3>2. asked'[i] = asked[i + 1] /\ i + 1 \in 1 .. Len(asked)
            BY <3>1
        <3> QED BY <2>2, <3>2
    <2> QED BY <2>1, <2>3, <2>4
<1>8. call = H!NoCall \/ (H!IsWrite(call) /\ m_nacks >= 1) =>
         Answers("addr")' = {} /\ Answers("final")' = {}
    <2>1. call = H!NoCall \/ (H!IsWrite(call) /\ m_nacks >= 1) =>
             Answers("addr") = {} /\ Answers("final") = {}
        BY DEF Owed
    <2> QED BY <1>5, <2>1
<1>9. H!IsWrite(call) => sent = 1
    BY DEF Owed
<1>10. H!IsWrite(call)' <=> H!IsWrite(call)
    BY <1>3 DEF H!IsWrite
<1> QED BY <1>3, <1>6, <1>7, <1>8, <1>9, <1>10 DEF Owed

-----------------------------------------------------------------------------
(* The driver: what a step of it does to the answers on their way.            *)

\* One character is taken; that it ends the answer to an access.
CharTaken ==
    /\ down # <<>> /\ down' = Tail(down) /\ m_isspace' = H!IsSpace(down[1])
    /\ m_cmd' = IF down[1].t = "letter" THEN down[1].word.kind ELSE m_cmd
FinalSeen == ~m_isspace /\ m_cmd \in Final /\ ~H!IsDigits(down[1])

LEMMA HostIs ==
    ASSUME HeldOnly, SingleWrites, InOrder, IsSeq(down), Outgoing, Digits, Owed, H!Host, ~GivesUp
    PROVE  \/ H!HostCall
           \/ /\ call # H!NoCall /\ UNCHANGED <<up, down, sent, m_nacks, m_cmd, m_isspace>>
              /\ call' = call \/ (call' = H!NoCall /\ H!IsWrite(call) /\ m_nacks >= 1)
           \/ /\ call # H!NoCall /\ CharTaken /\ UNCHANGED <<up, sent>>
              /\ \/ call' = call /\ m_nacks' = m_nacks
                 \/ FinalSeen /\ call' \in {call, H!NoCall}
           \/ CharTaken /\ FinalSeen /\ H!IsRead(call) /\ call' = call /\ up' = up \o H!ReadCommand
              /\ sent' = sent + 1
<1>1. /\ call # H!NoCall => call \in Calls
      /\ draining => H!IsWrite(call)
    BY DEF InOrder, AsksInOrder, Asking
<1>2. /\ \A c : H!IsRead(c) => ~H!IsWrite(c) /\ c # H!NoCall
      /\ \A c : H!IsWrite(c) => c # H!NoCall
    BY DEF H!IsRead, H!IsWrite, H!NoCall
<1>3. H!IsWrite(call) => call.n = 1 /\ sent = 1 /\ ~At("err", 14)
    <2>1. H!IsWrite(call) => call \in Calls
        BY <1>1, <1>2
    <2> QED BY <2>1 DEF SingleWrites, Owed, Answers, Places
<1>4. ASSUME H!Takes
      PROVE  /\ call # H!NoCall /\ down # <<>> /\ down' = Tail(down) /\ Head(down) = down[1]
             /\ down[1].t \in {"letter", "hi", "lo", "cr", "lf"}
             /\ H!IsDigits(down[1]) => ~m_isspace
    <2>1. down # <<>> /\ down' = Tail(down) /\ (H!IsRead(call) \/ draining)
        BY <1>4 DEF H!Takes
    <2>2. Head(down) = down[1] /\ 1 \in 1 .. Len(down)
        BY <2>1, TailIs
    <2>3. IsChar(down[1]) \/ H!IsSpace(down[1])
        BY <2>2 DEF Outgoing
    <2>4. H!IsDigits(down[1]) => ~m_isspace
        BY <2>2 DEF Digits, SpaceBefore
    <2> QED BY <1>1, <1>2, <2>1, <2>2, <2>3, <2>4 DEF IsChar, H!IsSpace
<1>5. ASSUME H!Takes, H!NextCmd, H!NextSpace, ~H!IsDigits(Head(down)) PROVE CharTaken
    <2>1. /\ Head(down) = down[1] /\ down[1].t \in {"letter", "hi", "lo", "cr", "lf"}
          /\ down # <<>> /\ down' = Tail(down)
        BY <1>4, <1>5
    <2>2. /\ m_cmd' = IF H!IsSpace(down[1]) THEN m_cmd ELSE down[1].word.kind
          /\ m_isspace' = H!IsSpace(down[1]) /\ ~H!IsDigits(down[1])
        BY <1>5, <2>1 DEF H!NextCmd, H!NextSpace
    <2>3. H!IsSpace(down[1]) <=> down[1].t # "letter"
        BY <2>1, <2>2 DEF H!IsSpace, H!IsDigits
    <2> QED BY <2>1, <2>2, <2>3 DEF CharTaken
<1>6. ASSUME NEW kind \in Final, H!Ends(kind) PROVE FinalSeen /\ H!Takes /\ ~H!IsDigits(Head(down))
    <2>1. H!Takes /\ ~H!IsDigits(Head(down)) /\ ~m_isspace /\ m_cmd = kind
        BY <1>6 DEF H!Ends
    <2>2. Head(down) = down[1]
        BY <1>4, <2>1
    <2> QED BY <2>1, <2>2 DEF FinalSeen
<1>7. CASE H!HostWriteNext
    BY <1>3, <1>7 DEF H!HostWriteNext
<1>8. CASE H!HostWriteDone
    BY <1>2, <1>3, <1>8 DEF H!HostWriteDone
<1>9. CASE H!HostReadIdle
    BY <1>2, <1>9 DEF H!HostReadIdle, H!progress
<1>10. CASE H!HostReadIdleReturns
    BY <1>1, <1>2, <1>10 DEF H!HostReadIdleReturns, H!progress
<1>11. CASE H!HostDigits
    <2>1. /\ H!Takes /\ H!IsDigits(Head(down)) /\ m_isspace' = (draining /\ m_isspace)
          /\ UNCHANGED <<call, sent, m_nacks, m_cmd, up>>
        BY <1>11 DEF H!HostDigits, H!progress
    <2>2. CharTaken
        <3>1. H!IsDigits(down[1]) /\ ~m_isspace
            BY <1>4, <2>1
        <3>2. ~H!IsSpace(down[1]) /\ down[1].t # "letter"
            BY <3>1 DEF H!IsDigits, H!IsSpace
        <3>3. (draining /\ m_isspace) = FALSE
            BY <3>1
        <3>4. (down[1].t \in {"cr", "lf"}) = FALSE
            BY <3>2 DEF H!IsSpace
        <3>5. m_isspace' = H!IsSpace(down[1])
            BY <2>1, <3>3, <3>4 DEF H!IsSpace
        <3> QED BY <1>4, <2>1, <3>2, <3>5 DEF CharTaken
    <2> QED BY <1>4, <2>1, <2>2
<1>12. CASE H!HostAddrEcho
    <2>1. /\ H!Takes /\ ~H!IsDigits(Head(down)) /\ H!NextCmd /\ H!NextSpace
          /\ UNCHANGED <<call, sent, m_nacks, up>>
        BY <1>12 DEF H!HostAddrEcho, H!Ends, H!NextWord, H!progress
    <2> QED BY <1>4, <1>5, <2>1
<1>13. CASE H!HostData
    <2>1. H!Ends("data") /\ H!NextCmd /\ H!NextSpace /\ m_nacks' = m_nacks
        BY <1>13 DEF H!HostData, H!NextWord
    <2>2. CharTaken /\ FinalSeen /\ call # H!NoCall /\ H!Takes
        BY <1>4, <1>5, <1>6, <2>1 DEF Final
    <2>3. CASE H!IsWrite(call)
        <3>1. UNCHANGED <<call, sent, up>>
            BY <1>13, <2>3 DEF H!HostData, H!progress
        <3> QED BY <2>1, <2>2, <3>1
    <2>4. CASE ~H!IsWrite(call) /\ sent < call.n
        <3>1. /\ up' = up \o H!ReadCommand /\ call' = call /\ H!IsRead(call)
              /\ sent' = sent + 1
            BY <1>1, <1>13, <2>2, <2>4 DEF H!HostData, H!Takes
        <3> QED BY <2>2, <3>1
    <2>5. CASE ~H!IsWrite(call) /\ ~(sent < call.n)
        <3>1. up' = up /\ sent' = sent /\ call' = H!NoCall
            BY <1>13, <2>5 DEF H!HostData
        <3> QED BY <2>2, <3>1
    <2> QED BY <2>3, <2>4, <2>5
<1>14. CASE H!HostAck
    <2>1. H!Ends("ack") /\ H!NextCmd /\ H!NextSpace /\ UNCHANGED <<call, sent, up>>
        BY <1>14 DEF H!HostAck, H!NextWord, H!progress
    <2>2. CharTaken /\ FinalSeen /\ call # H!NoCall
        BY <1>4, <1>5, <1>6, <2>1 DEF Final
    <2> QED BY <2>1, <2>2
<1>15. CASE H!HostError
    <2>1. /\ H!Ends("err") /\ call' = H!NoCall /\ UNCHANGED <<sent, up>>
          /\ ~draining => H!NextCmd /\ H!NextSpace
        BY <1>15 DEF H!HostError, H!HostThrow
    <2>2. At("err", 14)
        BY <2>1 DEF H!Ends, At, KindsOf
    <2>3. ~draining
        BY <1>1, <1>3, <2>2
    <2>4. CharTaken /\ FinalSeen /\ call # H!NoCall
        BY <1>4, <1>5, <1>6, <2>1, <2>3 DEF Final
    <2> QED BY <2>1, <2>4
<1>16. CASE H!HostIdleWord
    <2>1. H!Takes /\ ~H!IsDigits(Head(down))
        BY <1>16 DEF H!HostIdleWord, H!Ends
    <2>2. ~(H!IsRead(call) /\ abort_countdown = 1)
        <3>1. call' # H!NoCall
            BY <1>16 DEF GivesUp
        <3> QED BY <1>16, <3>1 DEF H!HostIdleWord, H!HostThrow
    <2>3. H!NextCmd /\ H!NextSpace /\ UNCHANGED <<call, sent, m_nacks, up>>
        BY <1>16, <2>2 DEF H!HostIdleWord, H!NextWord, H!progress
    <2> QED BY <1>4, <1>5, <2>1, <2>3
<1>17. CASE H!HostOther
    <2>1. /\ H!Takes /\ ~H!IsDigits(Head(down)) /\ H!NextCmd /\ H!NextSpace
          /\ UNCHANGED <<call, sent, m_nacks, up>>
        BY <1>17 DEF H!HostOther, H!NextWord, H!progress
    <2> QED BY <1>4, <1>5, <2>1
<1> QED
    BY <1>7, <1>8, <1>9, <1>10, <1>11, <1>12, <1>13, <1>14, <1>15, <1>16, <1>17 DEF H!Host

\* What a step of the host leaves where it is.
LEMMA HostStays ==
    ASSUME UNCHANGED deviceVars
    PROVE  /\ \A s, p : p \in 2 .. 12 => (At(s, p)' <=> At(s, p))
           /\ Answers("sign")' = Answers("sign")
<1>1. /\ UNCHANGED <<dh, r_word, pck, newaddr, hb_cyc, rsp_stb, rsp>>
      /\ UNCHANGED <<int_stb, int_word, idl_stb, idl_word, dw_stb, dw_tok>>
      /\ UNCHANGED <<gx_stb, gx_tok, nl_stb, nl_tok, ps_full, ps_tok>>
    BY DEF deviceVars
<1>2. ASSUME NEW s, NEW p \in 2 .. 12 PROVE At(s, p)' <=> At(s, p)
    <2>1. p \in {2, 3, 4, 5, 6, 7} \/ p \in {8, 9, 10, 11, 12}
        OBVIOUS
    <2>2. CASE p \in {2, 3, 4, 5, 6, 7}
        BY <1>1, <2>2 DEF At, IsOp
    <2>3. CASE p \in {8, 9, 10, 11, 12}
        BY <1>1, <2>3 DEF At, IsLetter
    <2> QED BY <2>1, <2>2, <2>3
<1>3. ~At("sign", 1) /\ ~At("sign", 1)'
    <2>1. OpsOf("sign") = {}
        BY DEF OpsOf
    <2> QED BY <2>1 DEF At, IsOp
<1>4. \A p \in 1 .. 11 : At("sign", p)' <=> At("sign", p)
    <2>1. \A p \in 1 .. 11 : p = 1 \/ p \in 2 .. 12
        OBVIOUS
    <2> QED BY <1>2, <1>3, <2>1
<1>5. /\ \A p : p \in Answers("sign") <=> p \in 1 .. 11 /\ At("sign", p)
      /\ \A p : p \in Answers("sign")' <=> p \in 1 .. 11 /\ At("sign", p)'
    BY DEF Answers, Places
<1>6. Answers("sign")' = Answers("sign")
    BY <1>4, <1>5
<1> QED BY <1>2, <1>6

\* The character that is taken is seen once, in the order in which it came.
LEMMA TakenDown ==
    ASSUME IsSeq(down), Outgoing, Digits, OnceOn(down), CharTaken,
           UNCHANGED <<deviceVars, bus_interrupt>>
    PROVE  IsSeq(down') /\ Digits' /\ OnceOn(down') /\ Outgoing'
<1>1. /\ IsSeq(down') /\ Len(down) \in Nat \ {0} /\ Len(down') = Len(down) - 1
      /\ \A k \in 1 .. Len(down) - 1 : down'[k] = down[k + 1]
    BY TailIs DEF CharTaken
<1>2. PICK m, n : m = Len(down) /\ n = Len(down')
    OBVIOUS
<1>3. /\ m \in Nat \ {0} /\ n = m - 1
      /\ \A k \in 1 .. n : k + 1 \in 1 .. m /\ down'[k] = down[k + 1]
    BY <1>1, <1>2
<1>4. m_isspace' <=> H!IsSpace(down[1])
    BY DEF CharTaken
<1>5. \A k \in 1 .. n + 1 : SpaceBefore(k)' <=> SpaceBefore(k + 1)
    <2> SUFFICES ASSUME NEW k \in 1 .. n + 1 PROVE SpaceBefore(k)' <=> SpaceBefore(k + 1)
        OBVIOUS
    <2>1. CASE k = 1
        BY <1>3, <1>4, <2>1 DEF SpaceBefore
    <2>2. CASE k # 1
        <3>1. PICK j \in 1 .. n : k = j + 1
            BY <1>3, <2>2
        <3>2. k - 1 = j /\ (k + 1) - 1 = j + 1 /\ k # 1 /\ k + 1 # 1
            BY <1>3, <3>1
        <3>3. down'[j] = down[j + 1]
            BY <1>3, <3>1
        <3> QED BY <3>2, <3>3 DEF SpaceBefore, H!IsSpace
    <2> QED BY <2>1, <2>2
<1>6. ps_full' = ps_full /\ ps_tok' = ps_tok
    BY DEF deviceVars
<1>7. Digits'
    <2>1. /\ \A k \in 1 .. m : H!IsDigits(down[k]) => ~SpaceBefore(k)
          /\ ps_full /\ H!IsDigits(ps_tok) => ~SpaceBefore(m + 1)
        BY <1>2 DEF Digits
    <2>2. ASSUME NEW k \in 1 .. n, H!IsDigits(down'[k]) PROVE ~SpaceBefore(k)'
        <3>1. H!IsDigits(down[k + 1]) /\ k + 1 \in 1 .. m /\ k \in 1 .. n + 1
            BY <1>3, <2>2 DEF H!IsDigits
        <3> QED BY <1>5, <2>1, <3>1
    <2>3. ps_full' /\ H!IsDigits(ps_tok') => ~SpaceBefore(n + 1)'
        <3>1. n + 1 \in 1 .. n + 1 /\ (n + 1) + 1 = m + 1
            BY <1>3
        <3>2. SpaceBefore(n + 1)' <=> SpaceBefore(m + 1)
            BY <1>5, <3>1
        <3> QED BY <1>6, <2>1, <3>2 DEF H!IsDigits
    <2> QED BY <1>2, <2>2, <2>3 DEF Digits
<1>8. OnceOn(down')
    <2>1. /\ \A s \in {"addr", "final"} : \A i, j \in 1 .. m :
                IsLetter(down[i], s) /\ IsLetter(down[j], s) => i = j
          /\ \A i, j \in 1 .. m : IsLetter(down[i], "addr") /\ IsLetter(down[j], "final") => i < j
        BY <1>2 DEF OnceOn
    <2>2. \A s \in {"addr", "final"} : \A i, j \in 1 .. n :
              IsLetter(down'[i], s) /\ IsLetter(down'[j], s) => i = j
        <3> SUFFICES ASSUME NEW s \in {"addr", "final"}, NEW i \in 1 .. n, NEW j \in 1 .. n,
                            IsLetter(down'[i], s), IsLetter(down'[j], s)
                     PROVE  i = j
            OBVIOUS
        <3>1. i + 1 = j + 1
            BY <1>3, <2>1
        <3> QED BY <1>3, <3>1
    <2>3. \A i, j \in 1 .. n : IsLetter(down'[i], "addr") /\ IsLetter(down'[j], "final") => i < j
        <3> SUFFICES ASSUME NEW i \in 1 .. n, NEW j \in 1 .. n,
                            IsLetter(down'[i], "addr"), IsLetter(down'[j], "final")
                     PROVE  i < j
            OBVIOUS
        <3>1. i + 1 < j + 1
            BY <1>3, <2>1
        <3> QED BY <1>3, <3>1
    <2> QED BY <1>2, <2>2, <2>3 DEF OnceOn
<1>9. Outgoing'
    <2>1. \A k \in 1 .. n : IsChar(down'[k]) \/ H!IsSpace(down'[k])
        <3> SUFFICES ASSUME NEW k \in 1 .. n PROVE IsChar(down'[k]) \/ H!IsSpace(down'[k])
            OBVIOUS
        <3>1. down'[k] = down[k + 1] /\ (IsChar(down[k + 1]) \/ H!IsSpace(down[k + 1]))
            BY <1>2, <1>3 DEF Outgoing
        <3> QED BY <3>1
    <2>2. /\ UNCHANGED <<pending_interrupt, int_state, bus_interrupt, rsp_stb, rsp>>
          /\ UNCHANGED <<int_stb, loaded, int_word, idl_stb, idl_word, dw_stb, dw_tok, r_len>>
          /\ UNCHANGED <<gx_stb, gx_tok, nl_stb, nl_tok, cr_state, nl_loaded, ps_full, ps_tok>>
        BY DEF deviceVars
    <2> QED BY <1>2, <2>1, <2>2 DEF Outgoing, H!IsDigits
<1> QED BY <1>1, <1>7, <1>8, <1>9

TakenFrom(s, p) ==
    \/ p = 13 /\ IsLetter(down[1], s)
    \/ p = 14 /\ ~H!IsDigits(down[1])

LEMMA TakenMoves ==
    ASSUME IsSeq(down), Outgoing, Digits, OnceOn(down), CharTaken, UNCHANGED deviceVars,
           NEW s, s \in {"addr", "final"}, NEW p, p \in 2 .. 14, At(s, p)'
    PROVE  \/ p = 14 /\ At(s, 13) /\ TakenFrom(s, 13)
           \/ At(s, p) /\ ~TakenFrom(s, p)
<1>1. /\ Len(down) \in Nat \ {0} /\ Len(down') = Len(down) - 1
      /\ \A k \in 1 .. Len(down) - 1 : down'[k] = down[k + 1]
    BY TailIs DEF CharTaken
<1>2. CASE p \in 2 .. 12
    <2>1. At(s, p)
        BY <1>2, HostStays
    <2>2. p # 13 /\ p # 14
        BY <1>2
    <2> QED BY <2>1, <2>2 DEF TakenFrom
<1>3. CASE p = 13
    <2>1. PICK k \in 1 .. Len(down') : IsLetter(down'[k], s)
        BY <1>3 DEF At, IsLetter
    <2>2. k + 1 \in 1 .. Len(down) /\ IsLetter(down[k + 1], s) /\ k + 1 # 1 /\ 1 \in 1 .. Len(down)
        BY <1>1, <2>1
    <2>3. ~IsLetter(down[1], s)
        BY <2>2 DEF OnceOn
    <2> QED BY <1>3, <2>2, <2>3 DEF At, TakenFrom
<1>4. CASE p = 14
    <2>1. m_cmd' \in KindsOf(s) /\ ~m_isspace'
        BY <1>4 DEF At
    <2>2. ~H!IsSpace(down[1]) /\ 1 \in 1 .. Len(down)
        BY <1>1, <2>1 DEF CharTaken
    <2>3. CASE down[1].t = "letter"
        <3>1. IsLetter(down[1], s)
            BY <2>1, <2>3 DEF CharTaken, IsLetter
        <3> QED BY <1>4, <2>2, <3>1 DEF At, TakenFrom
    <2>4. CASE down[1].t # "letter"
        <3>1. H!IsDigits(down[1])
            BY <2>2, <2>4 DEF Outgoing, IsChar, H!IsDigits
        <3>2. m_cmd \in KindsOf(s)
            BY <2>1, <2>4 DEF CharTaken
        <3>3. ~m_isspace
            BY <2>2, <3>1 DEF Digits, SpaceBefore
        <3> QED BY <1>4, <3>1, <3>2, <3>3 DEF At, TakenFrom
    <2> QED BY <2>3, <2>4
<1> QED BY <1>2, <1>3, <1>4

\* Nothing that was asked for is on its way.
Idle ==
    /\ \A p \in 1 .. 13 : ~At("addr", p)
    /\ \A p \in 1 .. 14 : ~At("final", p)
LEMMA IdleIs == Idle <=> Answers("addr") = {} /\ Answers("final") = {}
<1>1. /\ \A p : p \in Answers("addr") <=> p \in 1 .. 13 /\ At("addr", p)
      /\ \A p : p \in Answers("final") <=> p \in 1 .. 14 /\ At("final", p)
    BY DEF Answers, Places
<1> QED BY <1>1 DEF Idle

LEMMA IdleOrdered ==
    ASSUME Ordered, OnceOn(down'), AsksOnce(up'),
           UNCHANGED deviceVars,
           \A p \in 2 .. 13 : ~At("addr", p)',
           \A p \in 2 .. 14 : ~At("final", p)'
    PROVE  Ordered'
<1>1. Answers("sign")' = Answers("sign")
    BY HostStays
<1>2. /\ \A p : p \in Answers("addr")' <=> p \in 1 .. 13 /\ At("addr", p)'
      /\ \A p : p \in Answers("final")' <=> p \in 1 .. 14 /\ At("final", p)'
    BY DEF Answers, Places
<1>3. /\ \A p \in Answers("addr")' : p = 1
      /\ \A p \in Answers("final")' : p = 1
    <2>1. \A p \in 1 .. 14 : p = 1 \/ p \in 2 .. 14
        OBVIOUS
    <2>2. \A p \in 1 .. 13 : p = 1 \/ p \in 2 .. 13
        OBVIOUS
    <2> QED BY <1>2, <2>1, <2>2
<1>4. \A p, q1 \in Answers("sign")' : p = q1
    BY <1>1 DEF Ordered, OneEach
<1>5. OneEach'
    BY <1>3, <1>4 DEF OneEach
<1>6. EchoFirst'
    <2>1. \A p \in Answers("addr")', q1 \in Answers("final")' : p >= q1
        BY <1>3
    <2> QED BY <2>1 DEF EchoFirst
<1> QED BY <1>5, <1>6 DEF Ordered

\* After the end of the answer to an access nothing else is on its way.
LEMMA FinalTaken ==
    ASSUME IsSeq(down), Outgoing, Digits, Ordered, CharTaken, FinalSeen, UNCHANGED deviceVars
    PROVE  /\ \A p \in 2 .. 13 : ~At("addr", p)'
           /\ \A p \in 2 .. 14 : ~At("final", p)'
           /\ ~At("addr", 1) /\ ~At("final", 1)
<1>1. /\ \A p : p \in Answers("addr") <=> p \in 1 .. 13 /\ At("addr", p)
      /\ \A p : p \in Answers("final") <=> p \in 1 .. 14 /\ At("final", p)
    BY DEF Answers, Places
<1>2. /\ \A p, q \in Answers("final") : p = q
      /\ \A p \in Answers("addr"), q \in Answers("final") : p >= q
      /\ OnceOn(down)
    BY DEF Ordered, OneEach, EchoFirst
<1>3. 14 \in Answers("final")
    <2>1. At("final", 14)
        BY DEF At, FinalSeen, KindsOf
    <2> QED BY <1>1, <2>1
<1>4. \A p \in 1 .. 13 : ~At("addr", p)
    <2> SUFFICES ASSUME NEW p \in 1 .. 13, At("addr", p) PROVE FALSE
        OBVIOUS
    <2>1. p >= 14
        BY <1>1, <1>2, <1>3
    <2> QED BY <2>1
<1>5. \A p \in 1 .. 13 : ~At("final", p)
    <2> SUFFICES ASSUME NEW p \in 1 .. 13, At("final", p) PROVE FALSE
        OBVIOUS
    <2>1. p \in 1 .. 14
        OBVIOUS
    <2>2. p = 14
        BY <1>1, <1>2, <1>3, <2>1
    <2> QED BY <2>2
<1>6. ASSUME NEW p \in 2 .. 13, At("addr", p)' PROVE FALSE
    <2>1. p \in 2 .. 14 /\ p # 14 /\ p \in 1 .. 13
        OBVIOUS
    <2>2. At("addr", p)
        BY <1>2, <1>6, <2>1, TakenMoves
    <2> QED BY <1>4, <2>1, <2>2
<1>7. ASSUME NEW p \in 2 .. 14, At("final", p)' PROVE FALSE
    <2>1. \/ At("final", 13)
          \/ At("final", p) /\ ~TakenFrom("final", p)
        BY <1>2, <1>7, TakenMoves
    <2>2. At("final", p) /\ ~TakenFrom("final", p)
        BY <1>5, <2>1
    <2>3. p \in 1 .. 13 \/ p = 14
        OBVIOUS
    <2>4. p = 14
        BY <1>5, <2>2, <2>3
    <2> QED BY <2>2, <2>4 DEF TakenFrom, FinalSeen
<1> QED BY <1>4, <1>5, <1>6, <1>7

LEMMA TakenOrdered ==
    ASSUME IsSeq(down), Outgoing, Digits, Ordered, CharTaken, up' = up,
           UNCHANGED <<deviceVars, bus_interrupt>>
    PROVE  Ordered'
<1>1. /\ \A p, q \in Answers("addr") : p = q
      /\ \A p, q \in Answers("final") : p = q
      /\ \A p, q \in Answers("sign") : p = q
      /\ \A p \in Answers("addr"), q \in Answers("final") : p >= q
      /\ AsksOnce(up) /\ OnceOn(down)
    BY DEF Ordered, OneEach, EchoFirst
<1>2. /\ \A p : p \in Answers("addr") <=> p \in 1 .. 13 /\ At("addr", p)
      /\ \A p : p \in Answers("final") <=> p \in 1 .. 14 /\ At("final", p)
    BY DEF Answers, Places
<1>3. /\ \A p : p \in Answers("addr")' <=> p \in 1 .. 13 /\ At("addr", p)'
      /\ \A p : p \in Answers("final")' <=> p \in 1 .. 14 /\ At("final", p)'
    BY DEF Answers, Places
<1>4. PICK h, g, m, hh, gg, mm :
        /\ h = Answers("addr") /\ g = Answers("addr")' /\ m = {p \in 1 .. 14 : TakenFrom("addr", p)}
        /\ hh = Answers("final") /\ gg = Answers("final")'
        /\ mm = {p \in 1 .. 14 : TakenFrom("final", p)}
    OBVIOUS
<1>5. h \subseteq Int /\ g \subseteq Int /\ hh \subseteq Int /\ gg \subseteq Int
    BY <1>2, <1>3, <1>4
<1>6. \A s : At(s, 1)' => At(s, 1) /\ ~TakenFrom(s, 1)
    BY DEF At, IsOp, TakenFrom
<1>7. \A p \in g : (p - 1 \in h /\ p - 1 \in m) \/ (p \in h /\ p \notin m)
    <2> SUFFICES ASSUME NEW p \in g
                 PROVE  (p - 1 \in h /\ p - 1 \in m) \/ (p \in h /\ p \notin m)
        OBVIOUS
    <2>1. p \in 1 .. 13 /\ p \in 1 .. 14 /\ p # 14 /\ At("addr", p)'
        BY <1>3, <1>4
    <2>2. At("addr", p) /\ ~TakenFrom("addr", p)
        <3>1. CASE p = 1
            BY <1>6, <2>1, <3>1
        <3>2. CASE p # 1
            <4>1. p \in 2 .. 14
                BY <2>1, <3>2
            <4> QED BY <1>1, <2>1, <4>1, TakenMoves
        <3> QED BY <3>1, <3>2
    <2> QED BY <1>2, <1>4, <2>1, <2>2
<1>8. \A p \in gg : (p - 1 \in hh /\ p - 1 \in mm) \/ (p \in hh /\ p \notin mm)
    <2> SUFFICES ASSUME NEW p \in gg
                 PROVE  (p - 1 \in hh /\ p - 1 \in mm) \/ (p \in hh /\ p \notin mm)
        OBVIOUS
    <2>1. p \in 1 .. 14 /\ At("final", p)'
        BY <1>3, <1>4
    <2>2. \/ p = 14 /\ At("final", 13) /\ TakenFrom("final", 13)
          \/ At("final", p) /\ ~TakenFrom("final", p)
        <3>1. CASE p = 1
            BY <1>6, <2>1, <3>1
        <3>2. CASE p # 1
            <4>1. p \in 2 .. 14
                BY <2>1, <3>2
            <4> QED BY <1>1, <2>1, <4>1, TakenMoves
        <3> QED BY <3>1, <3>2
    <2>3. CASE p = 14 /\ At("final", 13) /\ TakenFrom("final", 13)
        <3>1. p - 1 = 13 /\ 13 \in 1 .. 14
            BY <2>3
        <3> QED BY <1>2, <1>4, <2>3, <3>1
    <2>4. CASE At("final", p) /\ ~TakenFrom("final", p)
        BY <1>2, <1>4, <2>1, <2>4
    <2> QED BY <2>2, <2>3, <2>4
<1>9. (\A p, q \in h : p = q) /\ (\A p, q \in hh : p = q) /\ (\A p \in h, q \in hh : p >= q)
    BY <1>1, <1>4
\* A letter that goes from the line is the first of those that are on it.
<1>10. \A p \in h \cap hh : p \in mm => p \in m
    <2> SUFFICES ASSUME NEW p \in h \cap hh, p \in mm PROVE p \in m
        OBVIOUS
    <2>1. p \in 1 .. 13 /\ At("addr", p) /\ TakenFrom("final", p)
        BY <1>2, <1>4
    <2>2. p = 13 /\ IsLetter(down[1], "final")
        BY <2>1 DEF TakenFrom
    <2>3. PICK k \in 1 .. Len(down) : IsLetter(down[k], "addr")
        BY <2>1, <2>2 DEF At
    <2>4. Len(down) \in Nat \ {0} /\ 1 \in 1 .. Len(down)
        BY TailIs DEF CharTaken
    <2>5. k < 1
        BY <1>1, <2>2, <2>3, <2>4 DEF OnceOn
    <2> QED BY <2>3, <2>4, <2>5
<1>11. (\A p, q \in g : p = q) /\ (\A p, q \in gg : p = q)
    BY <1>5, <1>7, <1>8, <1>9, OneMoves
<1>12. \A p \in g, q \in gg : p >= q
    BY <1>5, <1>7, <1>8, <1>9, <1>10, OrderMoves
<1>13. Answers("sign")' = Answers("sign")
    BY HostStays
<1>14. OneEach'
    <2>1. (\A p, q \in Answers("addr")' : p = q) /\ (\A p, q \in Answers("final")' : p = q)
        BY <1>4, <1>11
    <2>2. \A p, q \in Answers("sign")' : p = q
        BY <1>1, <1>13
    <2> QED BY <2>1, <2>2 DEF OneEach
<1>15. EchoFirst'
    BY <1>4, <1>12 DEF EchoFirst
<1>16. OnceOn(down') /\ AsksOnce(up')
    BY <1>1, TakenDown
<1> QED BY <1>14, <1>15, <1>16 DEF Ordered

\* A command asks for one access, after at most one address.
LEMMA CarriesOnce ==
    ASSUME NEW cmd, NEW p, NEW we, Carries(cmd, p, we), IsSeq(up), up' = up \o cmd,
           ~At("addr", 1), ~At("final", 1)
    PROVE  AsksOnce(up')
<1>1. /\ Len(up) \in Nat /\ Len(cmd) \in Nat /\ Len(up') = Len(up) + Len(cmd)
      /\ \A k \in 1 .. Len(up) : up'[k] = up[k]
      /\ \A k \in 1 .. Len(cmd) : up'[Len(up) + k] = cmd[k]
    BY ConcatIs DEF Carries
<1>2. PICK m, n : m = Len(up) /\ n = Len(up')
    OBVIOUS
<1>3. \A k \in 1 .. m : ~IsOp(up[k], "addr") /\ ~IsOp(up[k], "final")
    BY <1>2 DEF At
<1>4. \A tok : /\ IsOp(tok, "final") <=> IsBusOp(tok)
               /\ IsOp(tok, "addr") <=> IsAddrOp(tok)
    BY DEF IsOp, OpsOf, IsBusOp, IsAddrOp
<1>5. p \in 1 .. Len(cmd) /\ p \in Nat
    BY <1>1 DEF Carries
<1>6. ASSUME NEW j \in 1 .. Len(cmd) PROVE /\ IsBusOp(cmd[j]) => j = p
                                           /\ IsAddrOp(cmd[j]) => j = p - 2
    <2>1. IsBusOp(cmd[j]) => j = p
        BY DEF Carries
    <2>2. ASSUME IsAddrOp(cmd[j]) PROVE j = p - 2
        <3>1. SpeltAt(cmd, j)
            BY DEF Carries, Spelt
        <3>2. j + 2 <= Len(cmd) /\ IsBusOp(cmd[j + 2])
            BY <2>2, <3>1 DEF SpeltAt, IsAddrOp
        <3>3. j + 2 \in 1 .. Len(cmd)
            BY <1>1, <3>2
        <3>4. j + 2 = p
            BY <3>2, <3>3 DEF Carries
        <3> QED BY <1>5, <3>4
    <2> QED BY <2>1, <2>2
<1>7. ASSUME NEW k \in 1 .. n PROVE /\ IsOp(up'[k], "final") => k = m + p
                                    /\ IsOp(up'[k], "addr") => k = m + p - 2
    <2>1. CASE k \in 1 .. m
        BY <1>1, <1>2, <1>3, <2>1
    <2>2. CASE k \notin 1 .. m
        <3>1. PICK j \in 1 .. Len(cmd) : k = m + j
            <4>1. k - m \in 1 .. Len(cmd) /\ k = m + (k - m)
                BY <1>1, <1>2, <2>2
            <4> QED BY <4>1
        <3>2. up'[k] = cmd[j]
            BY <1>1, <1>2, <3>1
        <3>3. /\ IsOp(up'[k], "final") => j = p
              /\ IsOp(up'[k], "addr") => j = p - 2
            BY <1>4, <1>6, <3>2
        <3> QED BY <1>1, <1>2, <1>5, <3>1, <3>3
    <2> QED BY <2>1, <2>2
<1>8. m \in Nat /\ n \in Nat
    BY <1>1, <1>2
<1>9. \A s \in {"addr", "final"} : \A i, j \in 1 .. n :
          IsOp(up'[i], s) /\ IsOp(up'[j], s) => i = j
    BY <1>7
<1>10. \A i, j \in 1 .. n : IsOp(up'[i], "addr") /\ IsOp(up'[j], "final") => i < j
    <2> SUFFICES ASSUME NEW i \in 1 .. n, NEW j \in 1 .. n,
                        IsOp(up'[i], "addr"), IsOp(up'[j], "final")
                 PROVE  i < j
        OBVIOUS
    <2>1. i = m + p - 2 /\ j = m + p
        BY <1>7
    <2> QED BY <1>5, <1>8, <2>1
<1> QED BY <1>2, <1>9, <1>10 DEF AsksOnce

\* What is seen after a character is taken was there before it.
LEMMA TakenSome ==
    ASSUME IsSeq(down), Outgoing, Digits, CharTaken, up' = up, UNCHANGED deviceVars,
           NEW s \in Sorts, Answers(s) = {}, s # "sign"
    PROVE  Answers(s)' = {}
<1> DEFINE last == IF s = "addr" THEN 13 ELSE 14
<1>1. \A p : p \in Answers(s) <=> p \in 1 .. last /\ At(s, p)
    BY DEF Answers, Places
<1>2. \A p : p \in Answers(s)' <=> p \in 1 .. last /\ At(s, p)'
    BY DEF Answers, Places
<1>3. /\ Len(down) \in Nat \ {0} /\ Len(down') = Len(down) - 1
      /\ \A k \in 1 .. Len(down) - 1 : down'[k] = down[k + 1]
    BY TailIs DEF CharTaken
<1>4. ASSUME At(s, 1)' PROVE At(s, 1)
    BY <1>4 DEF At, IsOp
<1>5. ASSUME At(s, 13)' PROVE At(s, 13)
    <2>1. PICK k \in 1 .. Len(down') : IsLetter(down'[k], s)
        BY <1>5 DEF At, IsLetter
    <2>2. k + 1 \in 1 .. Len(down) /\ IsLetter(down[k + 1], s)
        BY <1>3, <2>1
    <2> QED BY <2>2 DEF At
<1>6. ASSUME At(s, 14)' PROVE At(s, 13) \/ At(s, 14)
    <2>1. m_cmd' \in KindsOf(s) /\ ~m_isspace'
        BY <1>6 DEF At
    <2>2. ~H!IsSpace(down[1]) /\ 1 \in 1 .. Len(down)
        BY <1>3, <2>1 DEF CharTaken
    <2>3. CASE down[1].t = "letter"
        <3>1. IsLetter(down[1], s)
            BY <2>1, <2>3 DEF CharTaken, IsLetter
        <3> QED BY <2>2, <3>1 DEF At
    <2>4. CASE down[1].t # "letter"
        <3>1. H!IsDigits(down[1])
            BY <2>2, <2>4 DEF Outgoing, IsChar, H!IsDigits
        <3>2. m_cmd \in KindsOf(s) /\ ~m_isspace
            BY <2>1, <2>2, <2>4, <3>1 DEF CharTaken, Digits, SpaceBefore
        <3> QED BY <3>2 DEF At
    <2> QED BY <2>3, <2>4
<1>7. ASSUME NEW p \in 1 .. last, At(s, p)' PROVE FALSE
    <2>1. p = 1 \/ p \in 2 .. 12 \/ p = 13 \/ (p = 14 /\ last = 14)
        OBVIOUS
    <2>2. p \in 2 .. 12 => At(s, p)
        BY <1>7, HostStays
    <2>3. ~At(s, 13) /\ ~At(s, p)
        BY <1>1
    <2>4. p = 14
        BY <1>4, <1>5, <1>7, <2>1, <2>2, <2>3
    <2>5. At(s, 14)' /\ ~At(s, 14)
        BY <1>7, <2>3, <2>4
    <2> QED BY <1>6, <2>3, <2>5
<1> QED BY <1>2, <1>7

\* Nothing was asked for that is not on its way.
LEMMA IdleAsked ==
    ASSUME InOrder, Idle PROVE asked = <<>>
<1>1. PICK f : AskedAt(f)
    BY DEF InOrder, AsksInOrder
<1>2. IsSeq(asked) /\ Len(asked) \in Nat
    BY DEF InOrder, IsSeq
<1>3. /\ ~At("final", 1) /\ ~At("final", 2) /\ ~At("final", 3)
      /\ ~At("final", 4) /\ ~At("final", 5)
    BY DEF Idle
<1>4. OpsOf("final") = BusOps
    BY DEF OpsOf
<1>5. /\ \A k \in 1 .. Len(up) : ~IsBusOp(up[k])
      /\ ~IsBusOp(dh) /\ r_word.op \notin BusOps /\ pck.op \notin BusOps /\ ~hb_cyc
    BY <1>3, <1>4 DEF At, IsOp, IsBusOp
<1>6. ASSUME Len(asked) > 0 PROVE FALSE
    <2>1. 1 \in 1 .. Len(asked)
        BY <1>2, <1>6
    <2>2. /\ f[1] \in Int /\ -1 <= f[1] /\ f[1] <= Len(up)
          /\ f[1] >= 0 => IsBusOp(Place(f[1]))
          /\ f[1] = -1 => InDevice
        BY <1>1, <1>6, <2>1 DEF AskedAt
    <2>3. f[1] = -1 \/ f[1] = 0 \/ f[1] \in 1 .. Len(up)
        <3>1. Len(up) \in Nat
            BY DEF InOrder, IsSeq
        <3> QED BY <2>2, <3>1
    <2> QED BY <1>5, <2>2, <2>3 DEF Place, InDevice
<1> QED BY <1>2, <1>6 DEF IsSeq

\* A call sends its address, and its first command.
LEMMA CallIs ==
    ASSUME HeldOnly, H!HostCall
    PROVE  \E c \in Calls : \E r :
              /\ call' = c /\ up' = up \o r /\ sent' = 1 /\ call = H!NoCall /\ draining' = draining
              /\ Carries(r, 3, H!IsWrite(c)) /\ r[2].t = "digits" /\ r[2].addr = c.addr
              /\ H!IsWrite(c) => m_nacks' = 0
              /\ UNCHANGED <<m_cmd, m_isspace, down>>
<1>1. \A c \in Calls :
        /\ c.fn \in {"readio", "readi", "readz", "writeio", "writei", "writez"}
        /\ c.n \in Nat \ {0} /\ c.addr \in Addresses
        /\ ~H!Increments(c)
    BY HexBusAssumption DEF HexBusAssumption, HeldOnly, Addresses
<1>2. PICK c \in Calls :
        /\ call' = c
        /\ up' = up \o (H!EncodeAddress(c)
                        \o IF H!IsRead(c) THEN H!ReadCommand ELSE H!WriteCommand(c.data[1]))
        /\ m_nacks' = IF H!IsRead(c) THEN m_nacks ELSE 0
    BY DEF H!HostCall
<1>3. call = H!NoCall /\ sent' = 1 /\ draining' = draining /\ UNCHANGED <<m_cmd, m_isspace, down>>
    BY DEF H!HostCall
<1>4. H!EncodeAddress(c) = <<H!Op("addr"), H!Digits(c.addr, TRUE, 0)>>
    BY <1>1 DEF H!EncodeAddress, H!AddressKnown
<1>5. H!IsRead(c) <=> ~H!IsWrite(c)
    BY <1>1 DEF H!IsRead, H!IsWrite
<1>6. PICK cmd : cmd = IF H!IsRead(c) THEN H!ReadCommand ELSE H!WriteCommand(c.data[1])
    OBVIOUS
<1>7. Carries(cmd, 1, H!IsWrite(c))
    <2>1. CASE H!IsWrite(c)
        <3>1. cmd = H!WriteCommand(c.data[1]) /\ H!IsWrite(c) = TRUE
            BY <1>5, <1>6, <2>1 DEF H!IsWrite
        <3> QED BY <3>1, CommandIs
    <2>2. CASE ~H!IsWrite(c)
        <3>1. cmd = H!ReadCommand /\ H!IsWrite(c) = FALSE
            BY <1>5, <1>6, <2>2 DEF H!IsWrite
        <3> QED BY <3>1, CommandIs
    <2> QED BY <2>1, <2>2
<1>8. PICK r : r = <<H!Op("addr"), H!Digits(c.addr, TRUE, 0)>> \o cmd
    OBVIOUS
<1>9. Carries(r, 3, H!IsWrite(c)) /\ r[2].t = "digits" /\ r[2].addr = c.addr
    <2>1. c.addr \in Addresses /\ H!IsWrite(c) \in BOOLEAN
        BY <1>1 DEF H!IsWrite
    <2> QED BY <1>7, <1>8, <2>1, AddressedIs
<1>10. up' = up \o r
    BY <1>2, <1>4, <1>6, <1>8
<1>11. H!IsWrite(c) => m_nacks' = 0
    BY <1>2, <1>5
<1> QED BY <1>2, <1>3, <1>9, <1>10, <1>11

\* Where an error may be, the answer to an access may be.
LEMMA ErrIsFinal ==
    ASSUME Idle PROVE Answers("err") = {}
<1>1. \A p : p \in Answers("err") <=> p \in 1 .. 14 /\ At("err", p)
    BY DEF Answers, Places
<1>2. OpsOf("err") = {} /\ KindsOf("err") \subseteq KindsOf("final")
    BY DEF OpsOf, KindsOf, Final
<1>3. ASSUME NEW p \in 1 .. 14, At("err", p) PROVE At("final", p)
    <2>1. p \in {1, 2, 3, 4, 5} \/ p \in {6, 7, 8} \/ p \in {9, 10, 11, 12, 13, 14}
        OBVIOUS
    <2>2. CASE p \in {1, 2, 3, 4, 5}
        BY <1>2, <1>3, <2>2 DEF At, IsOp
    <2>3. CASE p \in {6, 7, 8}
        BY <1>2, <1>3, <2>3 DEF At
    <2>4. CASE p \in {9, 10, 11, 12, 13, 14}
        BY <1>2, <1>3, <2>4 DEF At, IsLetter
    <2> QED BY <2>1, <2>2, <2>3, <2>4
<1> QED BY <1>1, <1>3 DEF Idle

\* The first command of a call finds nothing on its way.
LEMMA CallAnswers ==
    ASSUME HeldOnly, InOrder, IsSeq(down), Outgoing, Digits, Ordered, Owed,
           H!HostCall, asked' = asked \o HostAsks, UNCHANGED <<deviceVars, bus_interrupt>>
    PROVE  IsSeq(down') /\ Outgoing' /\ Digits' /\ Ordered' /\ Owed'
<1>1. PICK c \in Calls : \E r :
         /\ call' = c /\ up' = up \o r /\ sent' = 1 /\ call = H!NoCall /\ draining' = draining
         /\ Carries(r, 3, H!IsWrite(c)) /\ r[2].t = "digits" /\ r[2].addr = c.addr
         /\ H!IsWrite(c) => m_nacks' = 0
         /\ UNCHANGED <<m_cmd, m_isspace, down>>
    BY CallIs
<1>2. PICK r : /\ up' = up \o r /\ Carries(r, 3, H!IsWrite(c))
    BY <1>1
<1>3. /\ call' = c /\ sent' = 1 /\ call = H!NoCall
      /\ H!IsWrite(c) => m_nacks' = 0
      /\ UNCHANGED <<m_cmd, m_isspace, down>>
    BY <1>1
<1>4. Idle
    BY <1>3, IdleIs DEF Owed
<1>5. /\ UNCHANGED <<pending_interrupt, int_state, bus_interrupt, rsp_stb, rsp>>
      /\ UNCHANGED <<int_stb, loaded, int_word, idl_stb, idl_word, dw_stb, dw_tok, r_len>>
      /\ UNCHANGED <<gx_stb, gx_tok, nl_stb, nl_tok, cr_state, nl_loaded, ps_full, ps_tok>>
    BY DEF deviceVars
<1>6. Outgoing'
    BY <1>3, <1>5 DEF Outgoing, H!IsDigits
<1>7. Digits'
    <2>1. \A k : SpaceBefore(k)' <=> SpaceBefore(k)
        BY <1>3 DEF SpaceBefore
    <2> QED BY <1>3, <1>5, <2>1 DEF Digits
<1>8. ASSUME NEW s, NEW p, p \in 2 .. 14 PROVE At(s, p)' <=> At(s, p)
    <2>1. p \in 2 .. 12 \/ p = 13 \/ p = 14
        BY <1>8
    <2>2. CASE p = 13
        BY <1>3, <2>2 DEF At, IsLetter
    <2>3. CASE p = 14
        BY <1>3, <2>3 DEF At
    <2> QED BY <2>1, <2>2, <2>3, HostStays
<1>9. Ordered'
    <2>1. ~At("addr", 1) /\ ~At("final", 1)
        BY <1>4 DEF Idle
    <2>2. AsksOnce(up')
        BY <1>2, <2>1, CarriesOnce DEF InOrder
    <2>3. OnceOn(down')
        BY <1>3 DEF Ordered
    <2>4. /\ \A p \in 2 .. 13 : ~At("addr", p)'
          /\ \A p \in 2 .. 14 : ~At("final", p)'
        <3>1. \A p \in 2 .. 13 : p \in 2 .. 14 /\ p \in 1 .. 13
            OBVIOUS
        <3>2. \A p \in 2 .. 14 : p \in 1 .. 14
            OBVIOUS
        <3> QED BY <1>4, <1>8, <3>1, <3>2 DEF Idle
    <2> QED BY <2>2, <2>3, <2>4, IdleOrdered
<1>10. Answers("err")' = {}
    <2>1. Answers("err") = {}
        BY <1>4, ErrIsFinal
    <2>2. ~At("err", 1) /\ ~At("err", 1)'
        <3>1. OpsOf("err") = {}
            BY DEF OpsOf
        <3> QED BY <3>1 DEF At, IsOp
    <2>3. \A p : p \in Answers("err") <=> p \in 1 .. 14 /\ At("err", p)
        BY DEF Answers, Places
    <2>4. \A p : p \in Answers("err")' <=> p \in 1 .. 14 /\ At("err", p)'
        BY DEF Answers, Places
    <2>5. \A p \in 1 .. 14 : p = 1 \/ p \in 2 .. 14
        OBVIOUS
    <2> QED BY <1>8, <2>1, <2>2, <2>3, <2>4, <2>5
<1>11. c # H!NoCall
    <2>1. c.fn \in {"readio", "readi", "readz", "writeio", "writei", "writez"}
        BY HexBusAssumption DEF HexBusAssumption
    <2> QED BY <2>1 DEF H!NoCall
<1>12. \A i \in 1 .. Len(asked') : asked'[i].addr = c.addr
    <2>1. PICK a : a = [we |-> H!IsWrite(c), addr |-> c.addr]
        OBVIOUS
    <2>2. HostAsks = <<a>>
        BY <1>3, <2>1 DEF HostAsks
    <2>3. asked = <<>>
        BY <1>4, IdleAsked
    <2>4. asked' = <<>> \o <<a>>
        BY <2>2, <2>3
    <2>5. Len(asked') = 1 /\ asked'[1] = a
        <3>1. <<a>> \in Seq({a}) /\ <<>> \in Seq({a}) /\ Len(<<a>>) = 1 /\ <<a>>[1] = a /\ Len(<<>>) = 0
            OBVIOUS
        <3> QED BY <2>4, <3>1
    <2>6. a.addr = c.addr
        BY <2>1
    <2> QED BY <2>5, <2>6
<1>13. Owed'
    <2>1. H!IsWrite(c) => ~(m_nacks' >= 1)
        BY <1>3
    <2>2. H!IsWrite(call)' <=> H!IsWrite(c)
        BY <1>3 DEF H!IsWrite
    <2> QED BY <1>3, <1>10, <1>11, <1>12, <2>1, <2>2 DEF Owed
<1>14. IsSeq(down')
    BY <1>3
<1> QED BY <1>6, <1>7, <1>9, <1>13, <1>14

LEMMA AnswersSame ==
    ASSUME UNCHANGED <<up, down, m_cmd, m_isspace, deviceVars>>, NEW s
    PROVE  Answers(s)' = Answers(s)
<1>1. ASSUME NEW p \in 1 .. 14 PROVE At(s, p)' <=> At(s, p)
    <2>1. p = 1 \/ p \in 2 .. 12 \/ p = 13 \/ p = 14
        OBVIOUS
    <2>2. CASE p = 1
        BY <2>2 DEF At, IsOp
    <2>3. CASE p = 13
        BY <2>3 DEF At, IsLetter
    <2>4. CASE p = 14
        BY <2>4 DEF At
    <2> QED BY <2>1, <2>2, <2>3, <2>4, HostStays
<1> DEFINE last == IF s = "sign" THEN 11 ELSE IF s = "addr" THEN 13 ELSE 14
<1>2. \A p : p \in Answers(s) <=> p \in 1 .. 14 /\ p \in 1 .. last /\ At(s, p)
    BY DEF Answers, Places
<1>3. \A p : p \in Answers(s)' <=> p \in 1 .. 14 /\ p \in 1 .. last /\ At(s, p)'
    BY DEF Answers, Places
<1> QED BY <1>1, <1>2, <1>3

\* A step that does not ask for anything and takes nothing.
LEMMA WaitAnswers ==
    ASSUME IsSeq(down), Outgoing, Digits, Ordered, Owed, asked' = asked \o HostAsks, IsSeq(asked),
           sent \in Nat,
           call # H!NoCall, UNCHANGED <<up, down, sent, m_nacks, m_cmd, m_isspace>>,
           call' = call \/ (call' = H!NoCall /\ H!IsWrite(call) /\ m_nacks >= 1),
           UNCHANGED <<deviceVars, bus_interrupt>>
    PROVE  IsSeq(down') /\ Outgoing' /\ Digits' /\ Ordered' /\ Owed'
<1>1. /\ UNCHANGED <<pending_interrupt, int_state, bus_interrupt, rsp_stb, rsp>>
      /\ UNCHANGED <<int_stb, loaded, int_word, idl_stb, idl_word, dw_stb, dw_tok, r_len>>
      /\ UNCHANGED <<gx_stb, gx_tok, nl_stb, nl_tok, cr_state, nl_loaded, ps_full, ps_tok>>
      /\ UNCHANGED <<up, down, m_cmd, m_isspace>>
    BY DEF deviceVars
<1>2. Outgoing'
    BY <1>1 DEF Outgoing, H!IsDigits
<1>3. Digits'
    <2>1. \A k : SpaceBefore(k)' <=> SpaceBefore(k)
        BY <1>1 DEF SpaceBefore
    <2> QED BY <1>1, <2>1 DEF Digits
<1>4. \A s : Answers(s)' = Answers(s)
    BY AnswersSame
<1>5. Ordered'
    BY <1>1, <1>4 DEF Ordered, OneEach, EchoFirst
<1>6. asked' = asked
    <2>1. HostAsks = <<>>
        BY DEF HostAsks
    <2> QED BY <2>1 DEF IsSeq
<1>7. Owed'
    <2>1. /\ call = H!NoCall \/ (H!IsWrite(call) /\ m_nacks >= 1) =>
               Answers("addr") = {} /\ Answers("final") = {}
          /\ H!IsWrite(call) => /\ sent = 1 /\ Answers("err") = {}
                                /\ \A i \in 1 .. Len(asked) : asked[i].addr = call.addr
        BY DEF Owed
    <2>2. ~H!IsWrite(H!NoCall)
        BY DEF H!IsWrite, H!NoCall
    <2>3. CASE call' = call
        BY <1>4, <1>6, <2>1, <2>3 DEF Owed
    <2>4. CASE call' = H!NoCall /\ H!IsWrite(call) /\ m_nacks >= 1
        <3>1. ~H!IsWrite(call)'
            BY <2>2, <2>4 DEF H!IsWrite
        <3> QED BY <1>4, <2>1, <2>4, <3>1 DEF Owed
    <2> QED BY <2>3, <2>4
<1> QED BY <1>1, <1>2, <1>3, <1>5, <1>7

\* A step that takes a character and asks for nothing.
LEMMA TakesAnswers ==
    ASSUME IsSeq(down), Outgoing, Digits, Ordered, Owed, asked' = asked \o HostAsks, IsSeq(asked),
           sent \in Nat,
           call # H!NoCall, CharTaken, UNCHANGED <<up, sent>>,
           \/ call' = call /\ m_nacks' = m_nacks
           \/ FinalSeen /\ call' \in {call, H!NoCall},
           UNCHANGED <<deviceVars, bus_interrupt>>
    PROVE  IsSeq(down') /\ Outgoing' /\ Digits' /\ Ordered' /\ Owed'
<1>1. IsSeq(down') /\ Digits' /\ Outgoing'
    <2>1. OnceOn(down)
        BY DEF Ordered
    <2> QED BY <2>1, TakenDown
<1>2. Ordered'
    BY TakenOrdered
<1>3. asked' = asked
    <2>1. HostAsks = <<>>
        BY DEF HostAsks
    <2> QED BY <2>1 DEF IsSeq
<1>4. /\ call = H!NoCall \/ (H!IsWrite(call) /\ m_nacks >= 1) =>
           Answers("addr") = {} /\ Answers("final") = {}
      /\ H!IsWrite(call) => /\ sent = 1 /\ Answers("err") = {}
                            /\ \A i \in 1 .. Len(asked) : asked[i].addr = call.addr
    BY DEF Owed
<1>5. ASSUME NEW s \in {"addr", "final", "err"}, Answers(s) = {} PROVE Answers(s)' = {}
    <2>1. s \in Sorts /\ s # "sign"
        BY DEF Sorts
    <2> QED BY <1>5, <2>1, TakenSome
<1>6. H!IsWrite(call)' => H!IsWrite(call) /\ call' = call
    BY DEF H!IsWrite, H!NoCall
<1>7. CASE call' = call /\ m_nacks' = m_nacks
    <2>1. H!IsWrite(call) /\ m_nacks >= 1 => Answers("addr")' = {} /\ Answers("final")' = {}
        BY <1>4, <1>5
    <2>2. H!IsWrite(call) => Answers("err")' = {}
        BY <1>4, <1>5
    <2>3. H!IsWrite(call)' <=> H!IsWrite(call)
        BY <1>7 DEF H!IsWrite
    <2>4. ~(call' = H!NoCall)
        BY <1>7
    <2>5. H!IsWrite(call)' /\ m_nacks' >= 1 => Answers("addr")' = {} /\ Answers("final")' = {}
        BY <1>7, <2>1, <2>3
    <2>6. H!IsWrite(call)' => /\ sent' = 1 /\ Answers("err")' = {}
                              /\ \A i \in 1 .. Len(asked') : asked'[i].addr = call'.addr
        BY <1>3, <1>4, <1>7, <2>2, <2>3
    <2>7. Owed'
        BY <2>4, <2>5, <2>6 DEF Owed
    <2> QED BY <1>1, <1>2, <2>7
<1>8. CASE FinalSeen
    <2>1. /\ \A p \in 2 .. 13 : ~At("addr", p)'
          /\ \A p \in 2 .. 14 : ~At("final", p)'
          /\ ~At("addr", 1) /\ ~At("final", 1)
        BY <1>8, FinalTaken
    <2>2. ~At("addr", 1)' /\ ~At("final", 1)'
        BY <2>1 DEF At, IsOp
    <2>3. /\ \A p : p \in Answers("addr")' <=> p \in 1 .. 13 /\ At("addr", p)'
          /\ \A p : p \in Answers("final")' <=> p \in 1 .. 14 /\ At("final", p)'
        BY DEF Answers, Places
    <2>4. Answers("addr")' = {} /\ Answers("final")' = {}
        <3>1. \A p \in 1 .. 14 : p = 1 \/ p \in 2 .. 14
            OBVIOUS
        <3>2. \A p \in 1 .. 13 : p = 1 \/ p \in 2 .. 13
            OBVIOUS
        <3> QED BY <2>1, <2>2, <2>3, <3>1, <3>2
    <2>5. H!IsWrite(call) => Answers("err")' = {}
        BY <1>4, <1>5
    <2>6. H!IsWrite(call)' => /\ sent' = 1 /\ Answers("err")' = {}
                              /\ \A i \in 1 .. Len(asked') : asked'[i].addr = call'.addr
        BY <1>3, <1>4, <1>6, <2>5
    <2>7. Owed'
        BY <2>4, <2>6 DEF Owed
    <2> QED BY <1>1, <1>2, <2>7
<1> QED BY <1>1, <1>2, <1>7, <1>8

\* A step that takes the end of a word that was read, and asks for the next.
LEMMA AsksAnswers ==
    ASSUME IsSeq(up), IsSeq(down), Outgoing, Digits, Ordered,
           CharTaken, FinalSeen, H!IsRead(call), call' = call, up' = up \o H!ReadCommand,
           UNCHANGED <<deviceVars, bus_interrupt>>
    PROVE  IsSeq(down') /\ Outgoing' /\ Digits' /\ Ordered' /\ Owed'
<1>1. IsSeq(down') /\ Digits' /\ Outgoing' /\ OnceOn(down')
    <2>1. OnceOn(down)
        BY DEF Ordered
    <2> QED BY <2>1, TakenDown
<1>2. /\ \A p \in 2 .. 13 : ~At("addr", p)'
      /\ \A p \in 2 .. 14 : ~At("final", p)'
      /\ ~At("addr", 1) /\ ~At("final", 1)
    BY FinalTaken
<1>3. AsksOnce(up')
    <2>1. Carries(H!ReadCommand, 1, FALSE)
        BY CommandIs
    <2> QED BY <1>2, <2>1, CarriesOnce
<1>4. Ordered'
    BY <1>1, <1>2, <1>3, IdleOrdered
<1>5. Owed'
    <2>1. call' # H!NoCall /\ ~H!IsWrite(call)'
        BY DEF H!IsRead, H!IsWrite, H!NoCall
    <2> QED BY <2>1 DEF Owed
<1> QED BY <1>1, <1>4, <1>5

LEMMA HostAnswers ==
    ASSUME HeldOnly, SingleWrites, InOrder, IsSeq(down), Answering, HostStep, ~GivesUp
    PROVE  IsSeq(down') /\ Answering'
<1>1. /\ H!Host /\ UNCHANGED <<deviceVars, bus_interrupt>> /\ asked' = asked \o HostAsks
    BY DEF HostStep
<1>2. Outgoing /\ Digits /\ SpeaksOnce /\ Ordered /\ Owed /\ ResponseTaken
    BY DEF Answering
<1>3. IsSeq(up) /\ IsSeq(asked) /\ sent \in Nat
    BY DEF InOrder, AsksInOrder, Asking
<1>4. SpeaksOnce' /\ ResponseTaken'
    <2>1. /\ UNCHANGED <<newaddr, hb_cyc, pck, dh, rsp_stb, w_reset, rsp>>
          /\ UNCHANGED <<int_stb, idl_stb, dw_stb, gx_stb, nl_stb, loaded>>
        BY <1>1 DEF deviceVars
    <2>2. SpeaksOnce'
        BY <1>2, <2>1 DEF SpeaksOnce
    <2>3. ResponseTaken'
        BY <1>2, <2>1 DEF ResponseTaken, Con!IntBusy
    <2> QED BY <2>2, <2>3
<1>5. \/ H!HostCall
      \/ /\ call # H!NoCall /\ UNCHANGED <<up, down, sent, m_nacks, m_cmd, m_isspace>>
         /\ call' = call \/ (call' = H!NoCall /\ H!IsWrite(call) /\ m_nacks >= 1)
      \/ /\ call # H!NoCall /\ CharTaken /\ UNCHANGED <<up, sent>>
         /\ \/ call' = call /\ m_nacks' = m_nacks
            \/ FinalSeen /\ call' \in {call, H!NoCall}
      \/ CharTaken /\ FinalSeen /\ H!IsRead(call) /\ call' = call /\ up' = up \o H!ReadCommand
         /\ sent' = sent + 1
    BY <1>1, <1>2, HostIs
<1>6. IsSeq(down') /\ Outgoing' /\ Digits' /\ Ordered' /\ Owed'
    <2>1. CASE H!HostCall
        BY <1>1, <1>2, <2>1, CallAnswers
    <2>2. CASE /\ call # H!NoCall /\ UNCHANGED <<up, down, sent, m_nacks, m_cmd, m_isspace>>
               /\ call' = call \/ (call' = H!NoCall /\ H!IsWrite(call) /\ m_nacks >= 1)
        BY <1>1, <1>2, <1>3, <2>2, WaitAnswers
    <2>3. CASE /\ call # H!NoCall /\ CharTaken /\ UNCHANGED <<up, sent>>
               /\ \/ call' = call /\ m_nacks' = m_nacks
                  \/ FinalSeen /\ call' \in {call, H!NoCall}
        BY <1>1, <1>2, <1>3, <2>3, TakesAnswers
    <2>4. CASE CharTaken /\ FinalSeen /\ H!IsRead(call) /\ call' = call
               /\ up' = up \o H!ReadCommand
        BY <1>1, <1>2, <1>3, <2>4, AsksAnswers
    <2> QED BY <1>5, <2>1, <2>2, <2>3, <2>4
<1> QED BY <1>4, <1>6 DEF Answering

-----------------------------------------------------------------------------
(* The invariant.                                                             *)

\* What a clock takes from the line is a byte that the device expects.
LEMMA ClockTakes ==
    ASSUME NEW byte, NEW stall, NEW answer, NEW quiet, NEW console, NEW txBusy,
           InOrder, Clock(byte, stall, answer, quiet, console, txBusy),
           byte = NoToken \/ (up # <<>> /\ ByteTime /\ byte = up[1])
    PROVE  DeviceStep(byte, stall, answer)
<1>1. Typed /\ OneCommand /\ IsSeq(up) /\ Spelling
    BY DEF InOrder
<1>2. /\ Con!Receive(byte) /\ Ex!Exec(w_reset, pck, BusReturn(stall, answer))
      /\ BusMemory(stall, answer)
    BY DEF Clock
<1>3. CASE byte = NoToken
    BY <1>2, <1>3 DEF DeviceStep, Takeable
<1>4. CASE up # <<>> /\ ByteTime /\ byte = up[1]
    <2>1. /\ byte.t \in {"op", "digits", "end"}
          /\ byte.t = "op" => byte.op \in {"addr"} \cup BusOps
          /\ byte.t = "digits" => byte.hold \in BOOLEAN /\ byte.addr \in Addresses
          /\ Ctx = "none" => byte.t = "op"
          /\ Ctx = "addr" => IsAddrDigits(byte) \/ IsBusOp(byte)
          /\ Ctx \in BusOps => byte.t \in {"digits", "end"}
        BY <1>1, <1>4, FirstOfUp
    <2>2. Takeable(byte)
        BY <1>4, <2>1 DEF Takeable
    <2> QED BY <1>2, <2>2 DEF DeviceStep
<1> QED BY <1>3, <1>4

LEMMA ClockAnswers ==
    ASSUME NEW byte, NEW stall, NEW answer, NEW quiet, NEW console, NEW txBusy,
           stall \in BOOLEAN, answer \in BOOLEAN,
           SingleWrites, InOrder, IsSeq(down), Answering,
           Clock(byte, stall, answer, quiet, console, txBusy), quiet => Silent,
           \/ byte = NoToken /\ up' = up
           \/ up # <<>> /\ ByteTime /\ byte = up[1] /\ up' = Tail(up)
    PROVE  IsSeq(down') /\ Answering'
<1>1. Outgoing /\ Digits /\ SpeaksOnce /\ Ordered /\ Owed /\ ResponseTaken
    BY DEF Answering
<1>2. Typed /\ OneCommand /\ IsSeq(up)
    BY DEF InOrder
<1>3. DeviceStep(byte, stall, answer)
    <2>1. byte = NoToken \/ (up # <<>> /\ ByteTime /\ byte = up[1])
        OBVIOUS
    <2> QED BY <2>1, ClockTakes
<1>4. /\ Con!Transmit(w_reset, bus_interrupt, rsp_stb, rsp, quiet, console, txBusy)
      /\ down' = down \o Con!Sent(txBusy) /\ UNCHANGED <<hostVars, bus_interrupt>>
      /\ Ex!Exec(w_reset, pck, BusReturn(stall, answer)) /\ BusMemory(stall, answer)
    BY DEF Clock
<1>5. Clocks(byte, stall, answer, quiet, console, txBusy)
    BY <1>3, <1>4 DEF Clocks
<1>6. IsSeq(down')
    BY <1>4, SentIs
<1>7. Outgoing'
    BY <1>1, <1>2, <1>4, ClockOutgoing
<1>8. Digits'
    BY <1>1, <1>4, ClockDigits
<1>9. SpeaksOnce'
    BY <1>1, <1>2, <1>3, ClockSpeaks
<1>10. Ordered'
    <2>1. OneEach' /\ EchoFirst'
        BY <1>1, <1>2, <1>5, ClockEach
    <2>2. OnceOn(down') /\ AsksOnce(up')
        BY <1>1, <1>2, <1>5, ClockLines
    <2> QED BY <2>1, <2>2 DEF Ordered
<1>11. ResponseTaken'
    BY <1>1, <1>2, <1>5, ClockTaken
<1>12. Owed'
    BY <1>1, <1>5, ClockOwed
<1> QED BY <1>6, <1>7, <1>8, <1>9, <1>10, <1>11, <1>12 DEF Answering

\* In the first state the device says that it was reset.
LEMMA AnswersInit == Init => IsSeq(down) /\ Answering
<1> SUFFICES ASSUME Init PROVE IsSeq(down) /\ Answering
    OBVIOUS
<1>1. /\ NoToken.t = "none" /\ NoCmd.op = "none"
      /\ \A kind : Rsp(kind).kind = kind /\ Ex!Rsp(kind).kind = kind
    BY DEF NoToken, NoCmd, Ex!NoCmd, Rsp, Ex!Rsp
<1>2. /\ call = H!NoCall /\ up = <<>> /\ down = <<>> /\ m_cmd = "none" /\ bus_interrupt = FALSE
      /\ w_reset = TRUE /\ dh = NoToken /\ r_word = NoCmd /\ pck = NoCmd
      /\ hb_cyc = FALSE /\ newaddr = FALSE /\ rsp_stb = TRUE /\ rsp.kind = "reset"
    BY <1>1 DEF Init, H!HostInit, Con!ReceiveInit, Ex!BusInit, Ex!ResponseInit
<1>3. /\ int_state = FALSE /\ pending_interrupt = FALSE /\ loaded = FALSE
      /\ int_stb = FALSE /\ idl_stb = FALSE /\ dw_stb = FALSE /\ gx_stb = FALSE
      /\ nl_stb = FALSE /\ ps_full = FALSE
    BY DEF Init, Con!TransmitInit
<1>4. IsSeq(down) /\ Len(down) = 0 /\ Len(up) = 0
    <2>1. <<>> \in Seq({}) /\ Len(<<>>) = 0
        OBVIOUS
    <2> QED BY <1>2, <2>1, SeqIs
<1>5. Outgoing
    BY <1>2, <1>3, <1>4 DEF Outgoing, AnyKind, Sign
<1>6. Digits
    BY <1>3, <1>4 DEF Digits
<1>7. SpeaksOnce
    BY <1>2, <1>3 DEF SpeaksOnce
<1>8. Idle
    <2>1. OpsOf("addr") = {"addr"} /\ OpsOf("final") = {"read", "write"}
          /\ KindsOf("addr") = {"addr"} /\ KindsOf("final") = {"data", "ack", "err"}
        BY DEF OpsOf, KindsOf, BusOps, Final
    <2>2. \A p, s : s \in {"addr", "final"} => ~At(s, p)
        BY <1>1, <1>2, <1>3, <1>4, <2>1 DEF At, IsOp
    <2> QED BY <2>2 DEF Idle
<1>9. Answers("addr") = {} /\ Answers("final") = {}
    BY <1>8, IdleIs
<1>10. \A p, q \in Answers("sign") : p = q
    <2>1. OpsOf("sign") = {}
        BY DEF OpsOf
    <2>2. \A p : At("sign", p) => p = 6 \/ p = 14
        BY <1>2, <1>3, <1>4, <2>1 DEF At, IsOp
    <2>3. \A p : p \in Answers("sign") <=> p \in 1 .. 11 /\ p \in 1 .. 14 /\ At("sign", p)
        BY DEF Answers, Places
    <2>4. \A p : p \in Answers("sign") => p = 6
        BY <2>2, <2>3
    <2> QED BY <2>4
<1>11. Ordered
    BY <1>4, <1>9, <1>10 DEF Ordered, OneEach, EchoFirst, OnceOn, AsksOnce
<1>12. Owed
    <2>1. ~H!IsWrite(call)
        BY <1>2 DEF H!IsWrite, H!NoCall
    <2> QED BY <1>9, <2>1 DEF Owed
<1>13. ResponseTaken
    BY <1>3 DEF ResponseTaken, Con!IntBusy
<1> QED BY <1>4, <1>5, <1>6, <1>7, <1>11, <1>12, <1>13 DEF Answering

LEMMA AnswersStep ==
    ASSUME HeldOnly, SingleWrites
    PROVE  /\ InOrder /\ IsSeq(down) /\ Answering /\ ~bus_interrupt /\ ~bus_interrupt'
           /\ [Next]_vars /\ [~GivesUp]_vars
           => IsSeq(down') /\ Answering'
<1> SUFFICES ASSUME InOrder, IsSeq(down), Answering, ~bus_interrupt, ~bus_interrupt',
                    [Next]_vars, [~GivesUp]_vars
             PROVE  IsSeq(down') /\ Answering'
    OBVIOUS
<1>1. ASSUME NEW byte, AnyClock(byte),
             \/ byte = NoToken /\ up' = up
             \/ up # <<>> /\ ByteTime /\ byte = up[1] /\ up' = Tail(up)
      PROVE  IsSeq(down') /\ Answering'
    <2>1. PICK stall \in Choice(hb_stb), answer \in Choice(bus_pend # NoRequest),
               txBusy \in Choice(ps_full) :
               Clock(byte, stall, answer, FALSE, FALSE, txBusy)
        BY <1>1 DEF AnyClock
    <2>2. stall \in BOOLEAN /\ answer \in BOOLEAN
        BY DEF Choice
    <2>3. PICK quiet, console : quiet = FALSE /\ console = FALSE
        OBVIOUS
    <2>4. Clock(byte, stall, answer, quiet, console, txBusy) /\ (quiet => Silent)
        BY <2>1, <2>3
    <2>5. \/ byte = NoToken /\ up' = up
          \/ up # <<>> /\ ByteTime /\ byte = up[1] /\ up' = Tail(up)
        BY <1>1
    <2> HIDE <1>1, <2>1, <2>3
    <2> QED BY <2>2, <2>4, <2>5, ClockAnswers
<1>2. CASE UNCHANGED vars
    <2>1. /\ UNCHANGED <<hostVars, up, down, deviceVars, bus_interrupt, asked>>
        BY <1>2 DEF vars
    <2>2. UNCHANGED <<call, sent, m_nacks, m_cmd, m_isspace>>
        BY <2>1 DEF hostVars
    <2>3. /\ UNCHANGED <<dh, pck, hb_cyc, newaddr, w_reset>>
          /\ UNCHANGED <<pending_interrupt, int_state, bus_interrupt, rsp_stb, rsp>>
          /\ UNCHANGED <<int_stb, loaded, int_word, idl_stb, idl_word, dw_stb, dw_tok, r_len>>
          /\ UNCHANGED <<gx_stb, gx_tok, nl_stb, nl_tok, cr_state, nl_loaded, ps_full, ps_tok>>
        BY <2>1 DEF deviceVars
    <2>4. Outgoing /\ Digits /\ SpeaksOnce /\ Ordered /\ Owed /\ ResponseTaken
        BY DEF Answering
    <2>5. \A s : Answers(s)' = Answers(s)
        BY <2>1, <2>2, AnswersSame
    <2>6. Outgoing'
        BY <2>1, <2>3, <2>4 DEF Outgoing, H!IsDigits
    <2>7. Digits'
        <3>1. \A k : SpaceBefore(k)' <=> SpaceBefore(k)
            BY <2>1, <2>2 DEF SpaceBefore
        <3> QED BY <2>1, <2>3, <2>4, <3>1 DEF Digits
    <2>8. SpeaksOnce' /\ ResponseTaken'
        BY <2>3, <2>4 DEF SpeaksOnce, ResponseTaken, Con!IntBusy
    <2>9. Ordered'
        BY <2>1, <2>4, <2>5 DEF Ordered, OneEach, EchoFirst
    <2>10. Owed'
        <3>1. H!IsWrite(call)' <=> H!IsWrite(call)
            BY <2>2 DEF H!IsWrite
        <3> QED BY <2>1, <2>2, <2>4, <2>5, <3>1 DEF Owed
    <2> QED BY <2>1, <2>6, <2>7, <2>8, <2>9, <2>10 DEF Answering
<1>3. CASE HostStep /\ ~UNCHANGED vars
    <2>1. ~GivesUp
        BY <1>3
    <2> QED BY <1>3, <2>1, HostAnswers
<1>4. CASE DeviceClock
    BY <1>1, <1>4 DEF DeviceClock
<1>5. CASE DeviceTakes
    <2>1. ByteTime /\ up # <<>> /\ AnyClock(Head(up)) /\ up' = Tail(up)
        BY <1>5 DEF DeviceTakes
    <2>2. Head(up) = up[1]
        BY <2>1, TailIs DEF InOrder
    <2> QED BY <1>1, <2>1, <2>2
<1>6. CASE DeviceQuiet
    <2>1. Clock(NoToken, FALSE, FALSE, TRUE, FALSE, FALSE) /\ up' = up /\ Silent
        BY <1>6 DEF DeviceQuiet
    <2>2. PICK byte, stall, answer, quiet, console, txBusy :
            /\ byte = NoToken /\ stall = FALSE /\ answer = FALSE
            /\ quiet = TRUE /\ console = FALSE /\ txBusy = FALSE
        OBVIOUS
    <2>3. /\ Clock(byte, stall, answer, quiet, console, txBusy) /\ (quiet => Silent)
          /\ byte = NoToken /\ up' = up /\ stall \in BOOLEAN /\ answer \in BOOLEAN
        BY <2>1, <2>2
    <2> HIDE <2>1, <2>2
    <2> QED BY <2>3, ClockAnswers
<1>7. CASE ConsoleTypes
    BY <1>7 DEF ConsoleTypes, HeldOnly
<1>8. CASE ConsolePrints
    <2>1. Clock(NoToken, FALSE, FALSE, FALSE, TRUE, FALSE) /\ up' = up
        BY <1>8 DEF ConsolePrints
    <2>2. PICK byte, stall, answer, quiet, console, txBusy :
            /\ byte = NoToken /\ stall = FALSE /\ answer = FALSE
            /\ quiet = FALSE /\ console = TRUE /\ txBusy = FALSE
        OBVIOUS
    <2>3. /\ Clock(byte, stall, answer, quiet, console, txBusy) /\ (quiet => Silent)
          /\ byte = NoToken /\ up' = up /\ stall \in BOOLEAN /\ answer \in BOOLEAN
        BY <2>1, <2>2
    <2> HIDE <2>1, <2>2
    <2> QED BY <2>3, ClockAnswers
<1>9. ~Interrupt
    BY DEF Interrupt
<1> QED BY <1>2, <1>3, <1>4, <1>5, <1>6, <1>7, <1>8, <1>9 DEF Next

\* hbexec never speaks while hbints still holds a word, so that no answer is
\* lost: for any calls that write one word at a time where the bus answers, and
\* while the interrupt line stays down and no read gives up waiting.  At most an
\* echo, the answer to an access and a sign of life are then on their way at a
\* time, and there is room for three.
THEOREM HeldResponsesTaken ==
    ASSUME HeldOnly, SingleWrites
    PROVE  Spec /\ []~bus_interrupt /\ [][~GivesUp]_vars => []ResponseTaken
<1>1. InOrder /\ [Next]_vars => InOrder'
    BY InOrderStep
<1>2. /\ InOrder /\ IsSeq(down) /\ Answering /\ ~bus_interrupt /\ ~bus_interrupt'
      /\ [Next]_vars /\ [~GivesUp]_vars
      => IsSeq(down)' /\ Answering'
    BY AnswersStep
<1>3. Spec /\ []~bus_interrupt /\ [][~GivesUp]_vars => [](InOrder /\ IsSeq(down) /\ Answering)
    BY <1>1, <1>2, InOrderInit, AnswersInit, PTL DEF Spec
<1>4. Answering => ResponseTaken
    BY DEF Answering
<1> QED BY <1>3, <1>4, PTL
=============================================================================
