------------------------------ MODULE PortProofs ----------------------------
(* Theorems about the two ports, for any number of connections and of bytes:   *)
(* what is a command to the board, and what a program at a port is given.      *)
EXTENDS PortServers, SequenceTheorems, WellFoundedInduction, TLAPS

----------------------------------------------------------------------------
(* What OfPort picks out of the bytes from the board, by induction on how many *)
(* have been looked at.                                                        *)

LEMMA Least ==
    ASSUME NEW T \in SUBSET Nat, T # {}
    PROVE  \E m \in T : \A y \in T : m <= y
  <1> DEFINE R == OpToRel(<, Nat)
  <1>1. R = {ss \in Nat \X Nat : ss[1] < ss[2]}
    BY DEF OpToRel
  <1>2. IsWellFoundedOn(R, Nat)
    BY NatLessThanWellFounded
  <1> HIDE DEF R
  <1>3. PICK m \in T : \A y \in T : <<y, m>> \notin R
    BY <1>2, WFMin
  <1>4. ASSUME NEW y \in T, y < m PROVE FALSE
    <2>1. <<y, m>> \in Nat \X Nat /\ <<y, m>>[1] < <<y, m>>[2]
      BY <1>4
    <2> QED
      BY <2>1, <1>1, <1>3
  <1>5. \A y \in T : ~(y < m)
    BY <1>4
  <1> QED
    BY <1>5

\* Induction, over a set of numbers.
LEMMA Inductive ==
    ASSUME NEW n \in Nat, NEW T, 0 \in T, \A i \in 0 .. n - 1 : i \in T => i + 1 \in T
    PROVE  \A i \in 0 .. n : i \in T
  <1> DEFINE Out == {i \in 0 .. n : i \notin T}
  <1>1. SUFFICES ASSUME Out # {} PROVE FALSE
    OBVIOUS
  <1>2. Out \in SUBSET Nat
    OBVIOUS
  <1>3. PICK m \in Out : \A y \in Out : m <= y
    BY <1>1, <1>2, Least
  <1>4. m # 0 /\ m \in 0 .. n
    OBVIOUS
  <1>5. m - 1 \in 0 .. n - 1 /\ m - 1 \notin Out
    BY <1>3, <1>4
  <1>6. m - 1 \in T
    BY <1>5
  <1>7. m \in T
    BY <1>5, <1>6, <1>4
  <1> QED
    BY <1>7

Rec(F, s, f, m) ==
    F = [i \in 0 .. m |-> IF i = 0 THEN <<>>
                          ELSE IF s[i].c = f THEN Append(F[i - 1], s[i]) ELSE F[i - 1]]
Of(s, f) == CHOOSE F : Rec(F, s, f, Len(s))

LEMMA OfIs == ASSUME NEW s, NEW f PROVE OfPort(s, f) = Of(s, f)[Len(s)]
  BY DEF OfPort, Of, Rec

LEMMA RecExists ==
    ASSUME NEW s, NEW f, NEW n \in Nat
    PROVE  \E F : Rec(F, s, f, n)
  <1> DEFINE T == {i \in 0 .. n : \E F : Rec(F, s, f, i)}
  <1>1. 0 \in T
    <2> DEFINE F == [i \in 0 .. 0 |-> <<>>]
    <2>1. Rec(F, s, f, 0)
      BY DEF Rec
    <2> QED
      BY <2>1
  <1>2. ASSUME NEW i \in 0 .. n - 1, i \in T PROVE i + 1 \in T
    <2>1. PICK F : Rec(F, s, f, i)
      BY <1>2
    <2> DEFINE v == IF s[i + 1].c = f THEN Append(F[i], s[i + 1]) ELSE F[i]
               G == [j \in 0 .. i + 1 |-> IF j = i + 1 THEN v ELSE F[j]]
    <2> HIDE DEF v
    <2>2. ASSUME NEW j \in 0 .. i + 1
          PROVE  G[j] = IF j = 0 THEN <<>> ELSE IF s[j].c = f THEN Append(G[j - 1], s[j]) ELSE G[j - 1]
      <3>1. CASE j = i + 1
        BY <3>1 DEF v
      <3>2. CASE j \in 0 .. i
        <4>1. F[j] = IF j = 0 THEN <<>> ELSE IF s[j].c = f THEN Append(F[j - 1], s[j]) ELSE F[j - 1]
          BY <3>2, <2>1 DEF Rec
        <4>2. G[j] = F[j] /\ (j # 0 => G[j - 1] = F[j - 1])
          BY <3>2
        <4> QED
          BY <4>1, <4>2
      <3> QED
        BY <3>1, <3>2
    <2>3. G = [j \in 0 .. i + 1 |-> IF j = 0 THEN <<>>
                                     ELSE IF s[j].c = f THEN Append(G[j - 1], s[j]) ELSE G[j - 1]]
      <3> DEFINE H == [j \in 0 .. i + 1 |-> IF j = 0 THEN <<>>
                                     ELSE IF s[j].c = f THEN Append(G[j - 1], s[j]) ELSE G[j - 1]]
      <3>1. \A j \in 0 .. i + 1 : G[j] = H[j]
        BY <2>2
      <3>2. G = [j \in 0 .. i + 1 |-> G[j]] /\ H = [j \in 0 .. i + 1 |-> H[j]]
        OBVIOUS
      <3> HIDE DEF G, H
      <3>3. [j \in 0 .. i + 1 |-> G[j]] = [j \in 0 .. i + 1 |-> H[j]]
        BY <3>1
      <3>4. G = H
        BY <3>2, <3>3
      <3> QED
        BY <3>4 DEF H
    <2>4. Rec(G, s, f, i + 1)
      BY <2>3 DEF Rec
    <2> QED
      BY <2>4
  <1> HIDE DEF T
  <1>3. \A i \in 0 .. n : i \in T
    BY <1>1, <1>2, Inductive
  <1>4. n \in T
    BY <1>3
  <1> QED
    BY <1>4 DEF T

LEMMA OfUnfold ==
    ASSUME NEW S, NEW s \in Seq(S), NEW f
    PROVE  /\ Of(s, f)[0] = <<>>
           /\ \A i \in 1 .. Len(s) : Of(s, f)[i] =
                IF s[i].c = f THEN Append(Of(s, f)[i - 1], s[i]) ELSE Of(s, f)[i - 1]
  <1>1. Len(s) \in Nat
    OBVIOUS
  <1>2. \E F : Rec(F, s, f, Len(s))
    BY <1>1, RecExists
  <1>3. Rec(Of(s, f), s, f, Len(s))
    BY <1>2 DEF Of
  <1> DEFINE F == Of(s, f)
  <1> HIDE DEF F
  <1>4. F = [i \in 0 .. Len(s) |-> IF i = 0 THEN <<>>
                          ELSE IF s[i].c = f THEN Append(F[i - 1], s[i]) ELSE F[i - 1]]
    BY <1>3 DEF Rec, F
  <1>5. /\ F[0] = <<>>
        /\ \A i \in 1 .. Len(s) : F[i] = IF s[i].c = f THEN Append(F[i - 1], s[i]) ELSE F[i - 1]
    <2>1. \A i \in 0 .. Len(s) : F[i] = IF i = 0 THEN <<>>
                          ELSE IF s[i].c = f THEN Append(F[i - 1], s[i]) ELSE F[i - 1]
      BY <1>4, Zenon
    <2>2. 0 \in 0 .. Len(s) /\ \A i \in 1 .. Len(s) : i \in 0 .. Len(s) /\ i # 0
      BY <1>1
    <2> QED
      BY <2>1, <2>2, Zenon
  <1> QED
    BY <1>5 DEF F

LEMMA OfSeq ==
    ASSUME NEW S, NEW s \in Seq(S), NEW f
    PROVE  \A i \in 0 .. Len(s) : Of(s, f)[i] \in Seq(S)
  <1> DEFINE F == Of(s, f)
             T == {i \in 0 .. Len(s) : F[i] \in Seq(S)}
  <1>1. /\ F[0] = <<>>
        /\ \A i \in 1 .. Len(s) : F[i] = IF s[i].c = f THEN Append(F[i - 1], s[i]) ELSE F[i - 1]
    BY OfUnfold
  <1> HIDE DEF F
  <1>2. Len(s) \in Nat /\ \A i \in 1 .. Len(s) : s[i] \in S
    OBVIOUS
  <1>3. 0 \in T
    <2>1. F[0] \in Seq(S) /\ 0 \in 0 .. Len(s)
      BY <1>1, <1>2
    <2> QED
      BY <2>1, Zenon
  <1>4. ASSUME NEW i \in 0 .. Len(s) - 1, i \in T PROVE i + 1 \in T
    <2>1. F[i] \in Seq(S) /\ i + 1 \in 1 .. Len(s) /\ s[i + 1] \in S /\ i + 1 - 1 = i
      BY <1>2, <1>4
    <2>2. Append(F[i], s[i + 1]) \in Seq(S)
      BY <2>1, AppendProperties
    <2>3. F[i + 1] = IF s[i + 1].c = f THEN Append(F[i], s[i + 1]) ELSE F[i]
      BY <1>1, <2>1
    <2>4. F[i + 1] \in Seq(S) /\ i + 1 \in 0 .. Len(s)
      BY <1>2, <2>1, <2>2, <2>3
    <2> QED
      BY <2>4, Zenon
  <1> HIDE DEF T
  <1>5. \A i \in 0 .. Len(s) : i \in T
    BY <1>2, <1>3, <1>4, Inductive
  <1> QED
    BY <1>5 DEF T, F

\* The bytes of a port are bytes; and how they grow and shrink with all bytes.
LEMMA OfPortSeq ==
    ASSUME NEW S, NEW s \in Seq(S), NEW f
    PROVE  OfPort(s, f) \in Seq(S)
  <1>1. Len(s) \in 0 .. Len(s)
    OBVIOUS
  <1> QED
    BY <1>1, OfIs, OfSeq

LEMMA OfPortEmpty ==
    ASSUME NEW f
    PROVE  OfPort(<<>>, f) = <<>>
  <1>1. <<>> \in Seq({}) /\ Len(<<>>) = 0
    OBVIOUS
  <1>2. \A s \in Seq({}) : Of(s, f)[0] = <<>>
    BY OfUnfold
  <1> QED
    BY <1>1, <1>2, OfIs

LEMMA OfPortAppend ==
    ASSUME NEW S, NEW s \in Seq(S), NEW b \in S, NEW f
    PROVE  OfPort(Append(s, b), f) =
             IF b.c = f THEN Append(OfPort(s, f), b) ELSE OfPort(s, f)
  <1> DEFINE t == Append(s, b)
             F == Of(s, f)
             G == Of(t, f)
             T == {i \in 0 .. Len(s) : F[i] = G[i]}
  <1>1. /\ t \in Seq(S) /\ Len(t) = Len(s) + 1 /\ t[Len(s) + 1] = b
        /\ \A i \in 1 .. Len(s) : t[i] = s[i]
    BY AppendProperties
  <1>2. Len(s) \in Nat
    OBVIOUS
  <1> HIDE DEF t
  <1>3. /\ F[0] = <<>>
        /\ \A i \in 1 .. Len(s) : F[i] = IF s[i].c = f THEN Append(F[i - 1], s[i]) ELSE F[i - 1]
    BY OfUnfold
  <1>4. /\ G[0] = <<>>
        /\ \A i \in 1 .. Len(t) : G[i] = IF t[i].c = f THEN Append(G[i - 1], t[i]) ELSE G[i - 1]
    BY <1>1, OfUnfold
  <1>5. OfPort(s, f) = F[Len(s)] /\ OfPort(t, f) = G[Len(s) + 1]
    BY <1>1, OfIs
  <1> HIDE DEF F, G
  <1>6. 0 \in T
    BY <1>2, <1>3, <1>4
  <1>7. ASSUME NEW i \in 0 .. Len(s) - 1, i \in T PROVE i + 1 \in T
    <2>1. /\ i + 1 \in 1 .. Len(s) /\ i + 1 \in 1 .. Len(t) /\ i + 1 - 1 = i
          /\ t[i + 1] = s[i + 1] /\ F[i] = G[i]
      BY <1>1, <1>2, <1>7
    <2>2. F[i + 1] = IF s[i + 1].c = f THEN Append(F[i], s[i + 1]) ELSE F[i]
      BY <1>3, <2>1
    <2>3. G[i + 1] = IF t[i + 1].c = f THEN Append(G[i], t[i + 1]) ELSE G[i]
      BY <1>4, <2>1
    <2> QED
      BY <1>2, <2>1, <2>2, <2>3
  <1> HIDE DEF T
  <1>8. \A i \in 0 .. Len(s) : i \in T
    BY <1>2, <1>6, <1>7, Inductive
  <1>9. F[Len(s)] = G[Len(s)]
    BY <1>2, <1>8 DEF T
  <1>10. G[Len(s) + 1] = IF b.c = f THEN Append(G[Len(s)], b) ELSE G[Len(s)]
    BY <1>1, <1>2, <1>4
  <1> QED
    BY <1>5, <1>9, <1>10 DEF t

Associate(a, b, e) == Append(a \o b, e) = a \o Append(b, e)
LEMMA AppendConcat ==
    ASSUME NEW S, NEW a \in Seq(S), NEW b \in Seq(S), NEW e \in S
    PROVE  Associate(a, b, e)
  <1>1. a \o b \in Seq(S) /\ <<e>> \in Seq(S)
    BY ConcatProperties
  <1>2. Append(a \o b, e) = (a \o b) \o <<e>>
    BY <1>1, AppendIsConcat
  <1>3. Append(b, e) = b \o <<e>>
    BY AppendIsConcat
  <1>4. (a \o b) \o <<e>> = a \o (b \o <<e>>)
    BY <1>1, ConcatAssociative
  <1> QED
    BY <1>2, <1>3, <1>4 DEF Associate

LEMMA OfPortTail ==
    ASSUME NEW S, NEW s \in Seq(S), s # <<>>, NEW f
    PROVE  OfPort(s, f) =
             IF Head(s).c = f THEN <<Head(s)>> \o OfPort(Tail(s), f) ELSE OfPort(Tail(s), f)
  <1> DEFINE t == Tail(s)
             h == IF Head(s).c = f THEN <<Head(s)>> ELSE <<>>
             F == Of(t, f)
             G == Of(s, f)
             T == {i \in 0 .. Len(t) : G[i + 1] = h \o F[i]}
  <1>1. /\ t \in Seq(S) /\ Len(s) = Len(t) + 1 /\ Len(t) \in Nat
        /\ \A i \in 1 .. Len(t) : t[i] = s[i + 1]
    BY HeadTailProperties
  <1>2. Head(s) = s[1] /\ Head(s) \in S /\ h \in Seq(S)
    OBVIOUS
  <1> HIDE DEF t
  <1>3. /\ F[0] = <<>>
        /\ \A i \in 1 .. Len(t) : F[i] = IF t[i].c = f THEN Append(F[i - 1], t[i]) ELSE F[i - 1]
    BY <1>1, OfUnfold
  <1>4. /\ G[0] = <<>>
        /\ \A i \in 1 .. Len(s) : G[i] = IF s[i].c = f THEN Append(G[i - 1], s[i]) ELSE G[i - 1]
    BY OfUnfold
  <1>5. OfPort(t, f) = F[Len(t)] /\ OfPort(s, f) = G[Len(t) + 1]
    BY <1>1, OfIs
  <1>6. \A i \in 0 .. Len(t) : F[i] \in Seq(S)
    BY <1>1, OfSeq
  <1> HIDE DEF F, G
  <1>7. 0 \in T
    <2>1. G[1] = IF Head(s).c = f THEN Append(<<>>, Head(s)) ELSE <<>>
      <3>1. 1 \in 1 .. Len(s) /\ 1 - 1 = 0
        BY <1>1
      <3> QED
        BY <1>2, <1>4, <3>1
    <2>2. G[1] = h
      BY <2>1
    <2>3. h \o <<>> = h
      BY <1>2, ConcatEmptySeq
    <2>4. 0 \in 0 .. Len(t) /\ 0 + 1 = 1
      BY <1>1
    <2>5. G[0 + 1] = h \o F[0]
      BY <1>3, <2>2, <2>3, <2>4
    <2> QED
      BY <2>4, <2>5, Zenon
  <1> HIDE DEF h
  <1>8. ASSUME NEW i \in 0 .. Len(t) - 1, i \in T PROVE i + 1 \in T
    <2>1. /\ i + 1 \in 1 .. Len(t) /\ i + 2 \in 1 .. Len(s) /\ i + 2 - 1 = i + 1
          /\ t[i + 1] = s[i + 2] /\ G[i + 1] = h \o F[i] /\ F[i] \in Seq(S) /\ t[i + 1] \in S
      BY <1>1, <1>6, <1>8
    <2>2. F[i + 1] = IF t[i + 1].c = f THEN Append(F[i], t[i + 1]) ELSE F[i]
      BY <1>3, <2>1
    <2>3. G[i + 2] = IF t[i + 1].c = f THEN Append(G[i + 1], t[i + 1]) ELSE G[i + 1]
      <3>1. ASSUME NEW j \in 1 .. Len(s)
            PROVE  G[j] = IF s[j].c = f THEN Append(G[j - 1], s[j]) ELSE G[j - 1]
        BY <1>4
      <3>2. G[i + 2] = IF s[i + 2].c = f THEN Append(G[i + 2 - 1], s[i + 2]) ELSE G[i + 2 - 1]
        BY <2>1, <3>1
      <3> QED
        BY <2>1, <3>2, Zenon
    <2>4. Append(h \o F[i], t[i + 1]) = h \o Append(F[i], t[i + 1])
      <3>1. h \in Seq(S) /\ F[i] \in Seq(S) /\ t[i + 1] \in S
        BY <1>2, <2>1
      <3>2. Associate(h, F[i], t[i + 1])
        BY <3>1, AppendConcat
      <3> QED
        BY <3>2 DEF Associate
    <2>5. G[i + 2] = h \o F[i + 1]
      BY <2>1, <2>2, <2>3, <2>4
    <2> QED
      BY <1>1, <2>5
  <1> HIDE DEF T
  <1>9. \A i \in 0 .. Len(t) : i \in T
    BY <1>1, <1>7, <1>8, Inductive
  <1>10. G[Len(t) + 1] = h \o F[Len(t)]
    BY <1>1, <1>9 DEF T
  <1>11. OfPort(t, f) \in Seq(S)
    BY <1>1, OfPortSeq
  <1>12. OfPort(s, f) = h \o OfPort(t, f)
    BY <1>5, <1>10
  <1>13. <<>> \o OfPort(t, f) = OfPort(t, f)
    BY <1>11, ConcatEmptySeq
  <1> QED
    BY <1>12, <1>13 DEF h, t

----------------------------------------------------------------------------
(* What is where.                                                             *)

\* A byte, as typed and as the board is to get it; and one from the board.
Byte == [c : Ports, k : Sessions, n : Nat, v : Typed \cup {"x"}, hi : BOOLEAN]
AsTyped(c) == {b \in Byte : b.c = c /\ (b.hi <=> b.v = "hi")}
AsMarked == {b \in Byte : b.hi <=> b.c = "cmd" \/ b.v = "hi"}
DownByte == [c : Ports, n : Nat, nl : BOOLEAN]

\* The sockets: what is typed waits as it was typed.
Socket(s, c) ==
    s \in [peer : {s.peer}, up : Seq(AsTyped(c)), down : Seq(DownByte), got : Seq(Nat), typed : Nat]
SocketsHold ==
    /\ sock = [c \in Ports |-> sock[c]]
    /\ \A c \in Ports : sock[c] = [k \in Sessions |-> sock[c][k]]
    /\ \A c \in Ports, k \in Sessions : Socket(sock[c][k], c)

\* A connection that is served exists, and so does the one that is to be taken,
\* until its port is looked at.
Ahead(c) ==
    pc \in {"tty", "tty cmd", "tty con", "cmd"} \cup IF c = "con" THEN {"cmd tty", "con"} ELSE {}
There(c, k) == k \in Sessions /\ sock[c][k].peer # "none"
ServedExists ==
    /\ fd \in [Ports -> Nat] /\ accepted \in [Ports -> Nat]
    /\ \A c \in Ports : fd[c] <= accepted[c] /\ \A k \in 1 .. accepted[c] : There(c, k)
    /\ server = "netuart" => \A c \in Ports :
         /\ pc = c => revents[c]
         /\ Ahead(c) /\ revents[c] /\ fd[c] = 0 => There(c, accepted[c] + 1)

\* What netuart keeps, what the simulator's server keeps, and the line.
BufsHold ==
    /\ DOMAIN buf = {"cmd", "con", "tty"} /\ pos \in Nat
    /\ buf.cmd \in Seq(DownByte) /\ buf.con \in Seq(DownByte)
    /\ pc \in {"cmd tty", "con tty"} => buf.tty \in Seq(AsMarked)
DblHolds ==
    /\ m_cmdbuf \in Seq(DownByte) /\ m_conbuf \in Seq(DownByte) /\ sending \in Seq(DownByte)
    /\ m_rxbuf \in Seq(AsMarked)
\* The simulator's server sends to a program that is there.
SendsToSome ==
    server = "dbluartsim" =>
        /\ pc \in {"send cmd", "kill cmd"} => fd["cmd"] # 0
        /\ pc \in {"send con", "kill con"} => fd["con"] # 0
LineHolds ==
    /\ rx \in Seq(DownByte) /\ tx \in Seq(AsMarked) /\ seen = [c \in Ports |-> seen[c]]
    /\ sent \in [Ports -> Nat] /\ told \in [Ports -> Nat] /\ from \in [Ports -> Nat]

MarkedInv ==
    /\ server \in {"netuart", "dbluartsim"}
    /\ SocketsHold /\ ServedExists /\ BufsHold /\ DblHolds /\ LineHolds /\ OnlyCommandsMarked
    /\ SendsToSome

LEMMA FirstState == Init => MarkedInv
  <1> SUFFICES ASSUME Init PROVE MarkedInv
    OBVIOUS
  <1> USE DEF Init, PortsInit, NetUartInit, DblUartSimInit
  <1>1. /\ <<>> \in Seq(AsMarked) /\ <<>> \in Seq(DownByte) /\ <<>> \in Seq(Nat)
        /\ \A c \in Ports : <<>> \in Seq(AsTyped(c))
    OBVIOUS
  <1>2. SocketsHold
    BY <1>1 DEF SocketsHold, Socket, NoSocket
  <1>3. ServedExists
    BY DEF ServedExists, Ports, Ahead
  <1>4. BufsHold /\ DblHolds /\ SendsToSome
    BY <1>1 DEF BufsHold, DblHolds, SendsToSome
  <1>5. LineHolds
    BY <1>1 DEF LineHolds
  <1>6. OnlyCommandsMarked
    BY DEF OnlyCommandsMarked, Ports
  <1> QED
    BY <1>2, <1>3, <1>4, <1>5, <1>6 DEF MarkedInv, SendsToSome

\* One connection changes.
LEMMA OneSocket ==
    ASSUME SocketsHold, NEW c \in Ports, NEW k \in Sessions,
           NEW r, Socket(r, c), sock' = [sock EXCEPT ![c] = [@ EXCEPT ![k] = r]]
    PROVE  SocketsHold'
  BY DEF SocketsHold, Ports

LEMMA NewPeer ==
    ASSUME NEW s, NEW c, NEW p, Socket(s, c)
    PROVE  Socket([s EXCEPT !.peer = p], c)
  BY DEF Socket

LEMMA NewUp ==
    ASSUME NEW s, NEW c, NEW n \in Nat, NEW u \in Seq(AsTyped(c)), Socket(s, c)
    PROVE  /\ Socket([s EXCEPT !.up = u, !.typed = n], c)
           /\ Socket([s EXCEPT !.up = u], c)
  BY DEF Socket

LEMMA NewDown ==
    ASSUME NEW s, NEW c, NEW d \in Seq(DownByte), NEW g \in Seq(Nat), NEW p, Socket(s, c)
    PROVE  /\ Socket([s EXCEPT !.got = g, !.down = d], c)
           /\ Socket([s EXCEPT !.peer = p, !.down = d, !.got = g], c)
  BY DEF Socket

LEMMA MoreDown ==
    ASSUME NEW s, NEW c, NEW d \in Seq(DownByte), Socket(s, c)
    PROVE  Socket([s EXCEPT !.down = d], c)
  BY DEF Socket

\* No connection that was there goes.
LEMMA StillThere ==
    ASSUME SocketsHold, ServedExists, NEW c \in Ports, NEW k \in Sessions,
           NEW r, sock' = [sock EXCEPT ![c] = [@ EXCEPT ![k] = r]],
           r.peer # "none" \/ r.peer = sock[c][k].peer
    PROVE  \A d \in Ports, j \in Nat : There(d, j) => There(d, j)'
  BY DEF SocketsHold, There, Sessions

----------------------------------------------------------------------------
(* What is at the ends.                                                       *)

\* What no program, no terminal and no board changes.
Around == UNCHANGED <<server, pc, fd, netuartVars, dbluartVars>>

\* A program does something to its connection.
LEMMA ProgramKeeps ==
    ASSUME MarkedInv, Around, NEW c \in Ports, NEW k \in Sessions,
           NEW r, Socket(r, c), sock' = [sock EXCEPT ![c] = [@ EXCEPT ![k] = r]],
           r.peer # "none" \/ r.peer = sock[c][k].peer,
           UNCHANGED <<fd, accepted, told, from, lineVars>>
    PROVE  MarkedInv'
  <1>1. SocketsHold'
    BY OneSocket DEF MarkedInv
  <1>2. \A d \in Ports, j \in Nat : There(d, j) => There(d, j)'
    BY StillThere DEF MarkedInv
  <1>3. ServedExists'
    <2>1. UNCHANGED <<server, pc, fd, accepted, revents>>
      BY DEF Around, netuartVars
    <2>2. ASSUME NEW d \in Ports, NEW j \in 1 .. accepted[d] PROVE There(d, j)'
      BY <1>2 DEF MarkedInv, ServedExists
    <2>3. ASSUME NEW d \in Ports, There(d, accepted[d] + 1) PROVE There(d, accepted[d] + 1)'
      <3>1. accepted[d] + 1 \in Nat
        BY DEF MarkedInv, ServedExists
      <3> QED
        BY <1>2, <2>1, <2>3, <3>1
    <2> QED
      BY <2>1, <2>2, <2>3 DEF MarkedInv, SendsToSome, ServedExists, Ahead
  <1>4. BufsHold' /\ DblHolds'
    BY DEF MarkedInv, BufsHold, DblHolds, Around, netuartVars, dbluartVars
  <1>5. LineHolds' /\ OnlyCommandsMarked'
    BY DEF MarkedInv, LineHolds, OnlyCommandsMarked, lineVars
  <1> QED
    BY <1>1, <1>3, <1>4, <1>5 DEF MarkedInv, SendsToSome, Around

LEMMA ConnectKeeps ==
    ASSUME MarkedInv, Around, NEW c \in Ports, Connect(c)
    PROVE  MarkedInv'
  <1>1. PICK k \in Sessions : sock' = [sock EXCEPT ![c][k].peer = "open"]
    BY DEF Connect
  <1>2. Socket([sock[c][k] EXCEPT !.peer = "open"], c)
    BY NewPeer DEF MarkedInv, SocketsHold
  <1>3. [sock[c][k] EXCEPT !.peer = "open"].peer = "open"
    BY DEF MarkedInv, SocketsHold, Socket
  <1>4. UNCHANGED <<fd, accepted, told, from, lineVars>>
    BY DEF Connect
  <1>5. sock' = [sock EXCEPT ![c] = [@ EXCEPT ![k] = [sock[c][k] EXCEPT !.peer = "open"]]]
    BY <1>1
  <1> HIDE DEF Connect
  <1> QED
    BY <1>2, <1>3, <1>4, <1>5, ProgramKeeps

LEMMA TypeKeeps ==
    ASSUME MarkedInv, Around, NEW c \in Ports, NEW k \in Sessions, Type(c, k)
    PROVE  MarkedInv'
  <1>1. PICK v \in UpBytes(c) :
          sock' = [sock EXCEPT
            ![c][k].up = Append(@, [c |-> c, k |-> k, n |-> sock[c][k].typed + 1, v |-> v, hi |-> v = "hi"]),
            ![c][k].typed = @ + 1]
    BY DEF Type
  <1> DEFINE b == [c |-> c, k |-> k, n |-> sock[c][k].typed + 1, v |-> v, hi |-> v = "hi"]
             r == [sock[c][k] EXCEPT !.up = Append(sock[c][k].up, b), !.typed = sock[c][k].typed + 1]
  <1>2. Socket(sock[c][k], c)
    BY DEF MarkedInv, SocketsHold
  <1>3. b \in AsTyped(c)
    <2>1. v \in Typed \cup {"x"}
      BY DEF UpBytes
    <2>2. sock[c][k].typed + 1 \in Nat
      BY <1>2 DEF Socket
    <2>3. (v = "hi") \in BOOLEAN
      OBVIOUS
    <2>4. b \in Byte
      BY <2>1, <2>2, <2>3 DEF Byte
    <2> QED
      BY <2>4 DEF AsTyped
  <1>4. Append(sock[c][k].up, b) \in Seq(AsTyped(c))
    BY <1>2, <1>3, AppendProperties DEF Socket
  <1>5. Socket(r, c) /\ r.peer = sock[c][k].peer
    <2>1. sock[c][k].typed + 1 \in Nat
      BY <1>2 DEF Socket
    <2>2. Socket(r, c)
      BY <1>2, <1>4, <2>1, NewUp
    <2>3. r.peer = sock[c][k].peer
      BY <1>2 DEF Socket
    <2> QED
      BY <2>2, <2>3
  <1>6. sock' = [sock EXCEPT ![c] = [@ EXCEPT ![k] = r]]
    BY <1>1, <1>2 DEF MarkedInv, SocketsHold, Socket
  <1>7. UNCHANGED <<fd, accepted, told, from, lineVars>>
    BY DEF Type
  <1> HIDE DEF r
  <1> QED
    BY <1>5, <1>6, <1>7, ProgramKeeps

\* What a program reads, and how it leaves, is not what it typed.
LEMMA TakeKeeps ==
    ASSUME MarkedInv, Around, NEW c \in Ports, NEW k \in Sessions, Take(c, k)
    PROVE  MarkedInv'
  <1> DEFINE s == sock[c][k]
             r == [s EXCEPT !.got = Append(s.got, Head(s.down).n), !.down = Tail(s.down)]
  <1>1. Socket(s, c)
    BY DEF MarkedInv, SocketsHold
  <1>2. s.down \in Seq(DownByte) /\ s.got \in Seq(Nat) /\ s.down # <<>>
    BY <1>1 DEF Socket, Take
  <1>3. Head(s.down) \in DownByte /\ Tail(s.down) \in Seq(DownByte)
    BY <1>2, HeadTailProperties
  <1>4. Append(s.got, Head(s.down).n) \in Seq(Nat)
    BY <1>2, <1>3, AppendProperties DEF DownByte
  <1>5. Socket(r, c)
    BY <1>1, <1>3, <1>4, NewDown
  <1>6. r.peer = s.peer
    BY <1>1 DEF Socket
  <1>7. sock' = [sock EXCEPT ![c] = [@ EXCEPT ![k] = r]]
    BY DEF Take, MarkedInv, SocketsHold
  <1>8. UNCHANGED <<fd, accepted, told, from, lineVars>>
    BY DEF Take
  <1> HIDE DEF r
  <1> QED
    BY <1>5, <1>6, <1>7, <1>8, ProgramKeeps

LEMMA LeaveKeeps ==
    ASSUME MarkedInv, Around, NEW c \in Ports, NEW k \in Sessions, Leave(c, k)
    PROVE  MarkedInv'
  <1> DEFINE s == sock[c][k]
  <1>1. Socket(s, c)
    BY DEF MarkedInv, SocketsHold
  <1>2. PICK p \in {"shut", "closed", "reset"} :
           \/ sock' = [sock EXCEPT ![c][k].peer = p]
           \/ sock' = [sock EXCEPT ![c][k].peer = p, ![c][k].down = <<>>, ![c][k].got = <<>>]
    BY DEF Leave
  <1>3. PICK r : /\ Socket(r, c) /\ r.peer = p
                 /\ sock' = [sock EXCEPT ![c] = [@ EXCEPT ![k] = r]]
    <2>1. CASE sock' = [sock EXCEPT ![c][k].peer = p]
      <3>1. Socket([s EXCEPT !.peer = p], c) /\ [s EXCEPT !.peer = p].peer = p
        BY <1>1, NewPeer DEF Socket
      <3> QED
        BY <2>1, <3>1
    <2>2. CASE sock' = [sock EXCEPT ![c][k].peer = p, ![c][k].down = <<>>, ![c][k].got = <<>>]
      <3> DEFINE r == [s EXCEPT !.peer = p, !.down = <<>>, !.got = <<>>]
      <3>1. <<>> \in Seq(DownByte) /\ <<>> \in Seq(Nat)
        OBVIOUS
      <3>2. Socket(r, c)
        BY <1>1, <3>1, NewDown
      <3>3. r.peer = p
        BY <1>1 DEF Socket
      <3>4. sock' = [sock EXCEPT ![c] = [@ EXCEPT ![k] = r]]
        BY <2>2 DEF MarkedInv, SocketsHold
      <3> QED
        BY <3>2, <3>3, <3>4
    <2> QED
      BY <1>2, <2>1, <2>2
  <1>4. UNCHANGED <<fd, accepted, told, from, lineVars>>
    BY DEF Leave
  <1> QED
    BY <1>3, <1>4, ProgramKeeps

LEMMA BoardKeeps ==
    ASSUME MarkedInv, Around, (\E c \in Ports : DeviceSends(c)) \/ DeviceTakes \/ Unplug
    PROVE  MarkedInv'
  <1>1. UNCHANGED <<sock, accepted, fd, told, from>>
    BY DEF DeviceSends, DeviceTakes, Unplug, clientVars
  <1>2. SocketsHold' /\ ServedExists' /\ BufsHold' /\ DblHolds'
    BY <1>1 DEF MarkedInv, Around, netuartVars, dbluartVars,
                SocketsHold, ServedExists, Ahead, There, BufsHold, DblHolds
  <1>3. LineHolds' /\ OnlyCommandsMarked'
    <2>1. CASE DeviceTakes
      <3> DEFINE b == Head(tx)
      <3>1. b \in AsMarked /\ Tail(tx) \in Seq(AsMarked)
        BY <2>1, HeadTailProperties DEF DeviceTakes, MarkedInv, LineHolds
      <3>2. seen' = [seen EXCEPT ![b.c] = [count |-> @.count + 1, k |-> b.k, n |-> b.n, v |-> b.v, hi |-> b.hi]]
        BY <2>1 DEF DeviceTakes
      <3>3. LineHolds'
        BY <1>1, <2>1, <3>1, <3>2 DEF DeviceTakes, MarkedInv, LineHolds
      <3>4. ASSUME NEW c \in Ports
            PROVE  seen'[c].k > 0 => (seen'[c].hi <=> c = "cmd" \/ seen'[c].v = "hi")
        <4>1. CASE c = b.c
          BY <4>1, <3>1, <3>2 DEF MarkedInv, LineHolds, AsMarked
        <4>2. CASE c # b.c
          BY <4>2, <3>2 DEF MarkedInv, LineHolds, OnlyCommandsMarked
        <4> QED
          BY <4>1, <4>2
      <3> QED
        BY <3>3, <3>4 DEF OnlyCommandsMarked
    <2>2. ASSUME NEW c \in Ports, DeviceSends(c) PROVE LineHolds' /\ OnlyCommandsMarked'
      <3>1. PICK nl \in BOOLEAN : rx' = Append(rx, [c |-> c, n |-> sent[c] + 1, nl |-> nl])
        <4>1. {FALSE, c = "cmd"} \subseteq BOOLEAN
          BY Zenon
        <4> QED
          BY <2>2, <4>1, Zenon DEF DeviceSends
      <3>2. [c |-> c, n |-> sent[c] + 1, nl |-> nl] \in DownByte
        <4>1. sent[c] + 1 \in Nat
          BY DEF MarkedInv, LineHolds
        <4> QED
          BY <4>1 DEF DownByte
      <3>3. rx' \in Seq(DownByte)
        BY <3>1, <3>2, AppendProperties DEF MarkedInv, LineHolds
      <3> QED
        BY <1>1, <2>2, <3>3 DEF DeviceSends, MarkedInv, LineHolds, OnlyCommandsMarked
    <2>3. CASE Unplug
      BY <1>1, <2>3 DEF Unplug, MarkedInv, LineHolds, OnlyCommandsMarked
    <2> QED
      BY <2>1, <2>2, <2>3
  <1> QED
    BY <1>2, <1>3 DEF MarkedInv, SendsToSome, Around

----------------------------------------------------------------------------
(* netuart: a byte is marked as it goes to the buffer of the line.            *)
Netuart == server = "netuart" /\ UNCHANGED <<server, dbluartVars>>

LEMMA PollKeeps ==
    ASSUME MarkedInv, Netuart, Poll \/ PollGone \/ TtyRead \/ WriteTtyGone
    PROVE  MarkedInv'
  <1>1. UNCHANGED <<server, dbluartVars, lineVars, clientVars, fd, told, buf, pos>>
    BY DEF Poll, PollGone, TtyRead, WriteTtyGone, Netuart, netuartVars
  <1>2. SocketsHold' /\ LineHolds' /\ DblHolds' /\ OnlyCommandsMarked'
    BY <1>1 DEF MarkedInv, SocketsHold, LineHolds, DblHolds, OnlyCommandsMarked,
                clientVars, lineVars, dbluartVars
  <1>3. pc' \in {"cmd tty", "con tty"} => pc \in {"cmd tty", "con tty"}
    BY DEF Poll, PollGone, TtyRead, WriteTtyGone, Goto, AfterTty, AfterPort
  <1>4. BufsHold'
    BY <1>1, <1>3 DEF MarkedInv, BufsHold
  <1>5. ServedExists'
    <2>1. \A c \in Ports, k \in Nat : There(c, k) <=> There(c, k)'
      BY <1>1 DEF There, clientVars
    <2>2. ASSUME NEW c \in Ports
          PROVE  /\ pc' = c => revents'[c]
                 /\ Ahead(c)' /\ revents'[c] /\ fd[c] = 0 => There(c, accepted[c] + 1)
      <3>1. CASE Poll
        <4>1. revents' = [tty |-> rx # <<>>, cmd |-> Readable("cmd"), con |-> Readable("con")]
          BY <3>1 DEF Poll
        <4>2. revents'[c] <=> Readable(c)
          BY <4>1 DEF Ports
        <4>3. fd[c] = 0 /\ Readable(c) => There(c, accepted[c] + 1)
          BY DEF Readable, There
        <4>4. \/ rx # <<>> /\ pc' = "tty"
              \/ Readable("cmd") /\ pc' = "cmd"
              \/ Readable("con") /\ pc' = "con"
          <5>1. pc' = IF rx # <<>> THEN "tty" ELSE IF Readable("cmd") THEN "cmd" ELSE "con"
            BY <3>1 DEF Poll, Goto
          <5>2. rx # <<>> \/ Readable("cmd") \/ Readable("con")
            <6> DEFINE ready == [tty |-> rx # <<>>, cmd |-> Readable("cmd"), con |-> Readable("con")]
            <6>1. \E f \in DOMAIN ready : ready[f]
              BY <3>1 DEF Poll
            <6>2. DOMAIN ready = {"tty", "cmd", "con"}
              OBVIOUS
            <6>3. /\ ready["tty"] <=> rx # <<>>
                  /\ ready["cmd"] <=> Readable("cmd")
                  /\ ready["con"] <=> Readable("con")
              BY Zenon
            <6> HIDE DEF ready
            <6> QED
              BY <6>1, <6>2, <6>3, Zenon
          <5> QED
            BY <5>1, <5>2
        <4>5. pc' = c => Readable(c)
          BY <4>4 DEF Ports
        <4> QED
          BY <4>2, <4>3, <4>5
      <3>2. CASE PollGone \/ TtyRead \/ WriteTtyGone
        BY <1>1, <3>2 DEF PollGone, TtyRead, WriteTtyGone, Goto, AfterTty, AfterPort, netuartVars,
                          Netuart, MarkedInv, ServedExists, Ahead, Ports
      <3> QED
        BY <3>1, <3>2
    <2>3. UNCHANGED <<fd, accepted>>
      BY <1>1 DEF clientVars
    <2> QED
      BY <2>1, <2>2, <2>3 DEF MarkedInv, SendsToSome, Netuart, ServedExists
  <1> QED
    BY <1>1, <1>2, <1>4, <1>5 DEF MarkedInv, SendsToSome, Netuart

LEMMA ReadTtyKeeps ==
    ASSUME MarkedInv, Netuart, ReadTty
    PROVE  MarkedInv'
  <1>a. pos' = 0 /\ rx' = <<>> /\ pc = "tty" /\ pc' = "tty cmd"
    BY DEF ReadTty, Goto
  <1>1. /\ buf' = [f \in DOMAIN buf |-> OfPort(rx, f)]
        /\ told' = [c \in Ports |-> told[c] + Len(buf'[c])]
    BY DEF ReadTty, Goto
  <1>2. /\ UNCHANGED <<server, dbluartVars, clientVars, fd, tx, seen, sent>>
        /\ \A c \in Ports : revents'[c] = revents[c]
    <2>1. UNCHANGED <<server, dbluartVars, clientVars, fd, tx, seen, sent>>
      BY DEF ReadTty, Netuart
    <2>2. revents' = [tty |-> FALSE, cmd |-> revents.cmd, con |-> revents.con]
      BY DEF ReadTty
    <2>3. revents'["cmd"] = revents["cmd"] /\ revents'["con"] = revents["con"]
      BY <2>2
    <2> QED
      BY <2>1, <2>3 DEF Ports
  <1>3. OfPort(rx, "cmd") \in Seq(DownByte) /\ OfPort(rx, "con") \in Seq(DownByte)
    BY OfPortSeq DEF MarkedInv, LineHolds
  <1>4. BufsHold'
    BY <1>1, <1>a, <1>3 DEF MarkedInv, BufsHold
  <1>5. told' \in [Ports -> Nat]
    <2>1. \A c \in Ports : Len(buf'[c]) \in Nat
      <3>1. \A c \in Ports : buf'[c] \in Seq(DownByte)
        BY <1>1, <1>3 DEF MarkedInv, BufsHold, Ports
      <3> QED
        BY <3>1
    <2>2. \A c \in Ports : told[c] + Len(buf'[c]) \in Nat
      BY <2>1 DEF MarkedInv, LineHolds
    <2> QED
      BY <1>1, <2>2
  <1>6. LineHolds'
    <2>1. rx' \in Seq(DownByte)
      <3>1. <<>> \in Seq(DownByte)
        OBVIOUS
      <3> QED
        BY <1>a, <3>1, Zenon
    <2> QED
      BY <1>2, <1>5, <2>1 DEF MarkedInv, SendsToSome, Netuart, LineHolds, clientVars
  <1>7. SocketsHold' /\ DblHolds' /\ OnlyCommandsMarked'
    BY <1>2 DEF MarkedInv, SocketsHold, DblHolds, OnlyCommandsMarked, clientVars, dbluartVars
  <1>8. ServedExists'
    BY <1>a, <1>2 DEF MarkedInv, ServedExists, Ahead, There, clientVars, Ports
  <1> QED
    BY <1>2, <1>4, <1>6, <1>7, <1>8 DEF MarkedInv, SendsToSome, Netuart

\* What is written to a program is of what came from the board.
LEMMA AfterSendSocket ==
    ASSUME MarkedInv, NEW c \in Ports, fd[c] # 0, NEW bytes \in Seq(DownByte), sock' = AfterSend(c, bytes)
    PROVE  SocketsHold' /\ \A d \in Ports, j \in Nat : There(d, j) => There(d, j)'
  <1> DEFINE s == sock[c][fd[c]]
             r == IF TakesBytes(c) THEN [s EXCEPT !.down = @ \o bytes] ELSE [s EXCEPT !.peer = "reset"]
  <1>1. fd[c] \in Sessions
    BY DEF MarkedInv, ServedExists, There
  <1>2. Socket(s, c)
    BY <1>1 DEF MarkedInv, SocketsHold
  <1>3. s.down \o bytes \in Seq(DownByte)
    BY <1>2, ConcatProperties DEF Socket
  <1>4. Socket(r, c)
    <2>1. Socket([s EXCEPT !.down = s.down \o bytes], c)
      BY <1>2, <1>3, MoreDown
    <2>2. [s EXCEPT !.down = @ \o bytes] = [s EXCEPT !.down = s.down \o bytes]
      OBVIOUS
    <2>3. Socket([s EXCEPT !.peer = "reset"], c)
      BY <1>2, NewPeer
    <2> QED
      BY <2>1, <2>2, <2>3
  <1>5. r.peer # "none" \/ r.peer = s.peer
    BY <1>2 DEF Socket
  <1>6. sock' = [sock EXCEPT ![c] = [@ EXCEPT ![fd[c]] = r]]
    BY DEF AfterSend
  <1> HIDE DEF r
  <1> QED
    BY <1>1, <1>4, <1>5, <1>6, OneSocket, StillThere DEF MarkedInv, SendsToSome, Netuart

\* As many bytes as there is room for, out of those that are left.
LEMMA SomeIs ==
    ASSUME NEW a \in Int, NEW b \in Int
    PROVE  Some(a, b) \in Int /\ Some(a, b) <= a /\ Some(a, b) <= b /\ Some(a, b) \in {a, b}
  BY DEF Some

LEMMA WriteClientFacts ==
    ASSUME MarkedInv, NEW c \in Ports, WriteClient(c)
    PROVE  \E n \in Int :
             /\ n > 0 /\ (pos <= Len(buf[c]) => pos + n <= Len(buf[c]))
             /\ ~TakesBytes(c) => n = Len(buf[c]) - pos
             /\ sock' = AfterSend(c, SubSeq(buf[c], pos + 1, pos + n))
             /\ \/ pos + n >= Len(buf[c]) /\ pc' = AfterClient(c) /\ pos' = 0 /\ buf' = [buf EXCEPT ![c] = <<>>]
                \/ pos + n < Len(buf[c]) /\ UNCHANGED <<pc, buf>> /\ pos' = pos + n
             /\ SubSeq(buf[c], pos + 1, pos + n) \in Seq(DownByte)
  <1> DEFINE left == Len(buf[c]) - pos
             room == SockRoom - Len(sock[c][fd[c]].down)
             n == IF TakesBytes(c) THEN Some(room, left) ELSE left
  <1>1. fd[c] \in Sessions
    BY DEF MarkedInv, ServedExists, There, WriteClient
  <1>2. sock[c][fd[c]].down \in Seq(DownByte)
    BY <1>1 DEF MarkedInv, SocketsHold, Socket
  <1>3. buf[c] \in Seq(DownByte) /\ pos \in Nat
    BY DEF MarkedInv, BufsHold, Ports
  <1>4. left \in Int /\ room \in Int
    BY <1>2, <1>3, PortsAssumption
  <1>5. n \in Int /\ n <= left /\ (~TakesBytes(c) => n = left)
    BY <1>4, SomeIs
  <1>6. /\ n > 0
        /\ sock' = AfterSend(c, SubSeq(buf[c], pos + 1, pos + n))
        /\ IF Whole(c, n) THEN pc' = AfterClient(c) /\ pos' = 0 /\ buf' = [buf EXCEPT ![c] = <<>>]
           ELSE UNCHANGED <<pc, buf>> /\ pos' = pos + n
    BY DEF WriteClient
  <1> HIDE DEF n
  <1>7. pos + n <= Len(buf[c])
    BY <1>3, <1>5
  <1>8. SubSeq(buf[c], pos + 1, pos + n) \in Seq(DownByte)
    <2>1. \A i \in pos + 1 .. pos + n : buf[c][i] \in DownByte
      BY <1>3, <1>5, <1>7
    <2> QED
      BY <1>3, <1>5, <2>1, SubSeqProperties
  <1>9. Whole(c, n) <=> pos + n >= Len(buf[c])
    BY DEF Whole
  <1>10. \/ pos + n >= Len(buf[c]) /\ pc' = AfterClient(c) /\ pos' = 0 /\ buf' = [buf EXCEPT ![c] = <<>>]
         \/ pos + n < Len(buf[c]) /\ UNCHANGED <<pc, buf>> /\ pos' = pos + n
    BY <1>3, <1>5, <1>6, <1>9
  <1> QED
    BY <1>5, <1>6, <1>7, <1>8, <1>10

LEMMA ClientKeeps ==
    ASSUME MarkedInv, Netuart, NEW c \in Ports, SkipClient(c) \/ WriteClient(c) \/ WriteFails(c)
    PROVE  MarkedInv'
  <1>1. UNCHANGED <<server, dbluartVars, accepted, fd, revents, told, from, lineVars>>
    BY DEF SkipClient, WriteClient, WriteFails, Netuart, clientVars, netuartVars
  <1>2. LineHolds' /\ DblHolds' /\ OnlyCommandsMarked'
    BY <1>1 DEF MarkedInv, LineHolds, DblHolds, OnlyCommandsMarked, lineVars, dbluartVars
  <1>3. SocketsHold' /\ (\A d \in Ports, j \in Nat : There(d, j) => There(d, j)') /\ BufsHold'
    <2>1. CASE SkipClient(c) \/ WriteFails(c)
      <3>1. UNCHANGED <<clientVars, pos>> /\ buf' \in {buf, [buf EXCEPT ![c] = <<>>]}
            /\ pc' \in {"tty", "tty con", "exit"}
        BY <2>1 DEF SkipClient, WriteFails, netuartVars, Goto, AfterClient, TtyTo, Ports
      <3>2. <<>> \in Seq(DownByte)
        OBVIOUS
      <3>3. BufsHold'
        BY <3>1, <3>2 DEF MarkedInv, BufsHold, Ports
      <3> QED
        BY <3>1, <3>3 DEF clientVars, MarkedInv, SocketsHold, There
    <2>2. CASE WriteClient(c)
      <3>1. PICK n \in Int :
             /\ n > 0
             /\ sock' = AfterSend(c, SubSeq(buf[c], pos + 1, pos + n))
             /\ \/ pc' = AfterClient(c) /\ pos' = 0 /\ buf' = [buf EXCEPT ![c] = <<>>]
                \/ UNCHANGED <<pc, buf>> /\ pos' = pos + n
             /\ SubSeq(buf[c], pos + 1, pos + n) \in Seq(DownByte)
        BY <2>2, WriteClientFacts
      <3>2. fd[c] # 0 /\ pc = TtyTo(c)
        BY <2>2 DEF WriteClient
      <3>3. SocketsHold' /\ \A d \in Ports, j \in Nat : There(d, j) => There(d, j)'
        BY <3>1, <3>2, AfterSendSocket
      <3>4. <<>> \in Seq(DownByte)
        OBVIOUS
      <3>5. BufsHold'
        <4>1. pos' \in Nat
          <5>1. (pos' = 0 \/ pos' = pos + n) /\ n > 0
            BY <3>1, Zenon
          <5>2. pos \in Nat
            BY DEF MarkedInv, BufsHold
          <5> QED
            BY <5>1, <5>2
        <4>2. buf' \in {buf, [buf EXCEPT ![c] = <<>>]}
          BY <3>1
        <4>3. pc' \notin {"cmd tty", "con tty"}
          BY <3>1, <3>2 DEF AfterClient, TtyTo, Ports
        <4>4. /\ DOMAIN buf' = {"cmd", "con", "tty"}
              /\ buf'.cmd \in Seq(DownByte) /\ buf'.con \in Seq(DownByte)
          BY <3>4, <4>2 DEF MarkedInv, BufsHold, Ports
        <4> QED
          BY <4>1, <4>3, <4>4 DEF BufsHold
      <3> QED
        BY <3>3, <3>5
    <2> QED
      BY <2>1, <2>2
  <1>4. pc \in {"tty cmd", "tty con"} /\ pc' \in {"tty cmd", "tty con", "tty", "exit"}
    BY DEF SkipClient, WriteClient, WriteFails, Goto, TtyTo, AfterClient, Ports
  <1>5. ServedExists'
    <2>1. ASSUME NEW d \in Ports, NEW j \in 1 .. accepted[d] PROVE There(d, j)'
      BY <1>3 DEF MarkedInv, ServedExists
    <2>2. ASSUME NEW d \in Ports, There(d, accepted[d] + 1) PROVE There(d, accepted[d] + 1)'
      <3>1. accepted[d] + 1 \in Nat
        BY DEF MarkedInv, ServedExists
      <3> QED
        BY <1>1, <1>3, <2>2, <3>1
    <2> QED
      BY <1>1, <1>4, <2>1, <2>2 DEF MarkedInv, SendsToSome, Netuart, ServedExists, Ahead, Ports
  <1> QED
    BY <1>1, <1>2, <1>3, <1>5 DEF MarkedInv, SendsToSome, Netuart

\* Bytes are marked as they leave a port for the line.
LEMMA Marks ==
    ASSUME NEW c \in Ports, NEW bytes \in Seq(AsTyped(c))
    PROVE  Mark(c, bytes) \in Seq(AsMarked)
  <1>1. CASE c = "cmd"
    <2>1. ASSUME NEW b \in AsTyped(c) PROVE [b EXCEPT !.hi = TRUE] \in AsMarked
      BY <1>1 DEF AsTyped, AsMarked, Byte
    <2>2. \A i \in 1 .. Len(bytes) : bytes[i] \in AsTyped(c)
      OBVIOUS
    <2>3. DOMAIN bytes = 1 .. Len(bytes) /\ Len(bytes) \in Nat
      OBVIOUS
    <2>4. Mark(c, bytes) = [i \in 1 .. Len(bytes) |-> [bytes[i] EXCEPT !.hi = TRUE]]
      BY <1>1, <2>3 DEF Mark
    <2> QED
      BY <2>1, <2>2, <2>3, <2>4
  <1>2. CASE c = "con"
    <2>1. AsTyped(c) \subseteq AsMarked
      BY <1>2 DEF AsTyped, AsMarked
    <2>2. bytes \in Seq(AsMarked)
      BY <2>1
    <2> QED
      BY <1>2, <2>2 DEF Mark
  <1> QED
    BY <1>1, <1>2 DEF Ports

LEMMA PortKeeps ==
    ASSUME MarkedInv, Netuart, NEW c \in Ports, AcceptPort(c) \/ ReadPort(c) \/ ReadNothing(c)
    PROVE  MarkedInv'
  <1>1. UNCHANGED <<server, dbluartVars, revents, told, lineVars, pos>> /\ pc = c
    BY DEF AcceptPort, ReadPort, ReadNothing, Goto, Netuart, netuartVars
  <1>2. DblHolds' /\ OnlyCommandsMarked'
    BY <1>1 DEF MarkedInv, LineHolds, DblHolds, OnlyCommandsMarked, lineVars, dbluartVars
  <1>3. fd[c] # 0 => fd[c] \in Sessions /\ Socket(sock[c][fd[c]], c)
    BY DEF MarkedInv, ServedExists, There, SocketsHold
  <1>4. CASE AcceptPort(c)
    <2>1. /\ accepted' = [accepted EXCEPT ![c] = @ + 1] /\ fd' = [fd EXCEPT ![c] = accepted[c] + 1]
          /\ from' = [from EXCEPT ![c] = told[c]] /\ sock' = sock /\ fd[c] = 0 /\ pc' = AfterPort(c)
          /\ buf' = buf
      BY <1>4 DEF AcceptPort, Accept, Goto, netuartVars
    <2>2. There(c, accepted[c] + 1)
      BY <1>1, <2>1 DEF MarkedInv, ServedExists, Ahead, Netuart, Ports
    <2>3. \A d \in Ports, j \in Nat : There(d, j) <=> There(d, j)'
      BY <2>1 DEF There
    <2>4. /\ fd' \in [Ports -> Nat] /\ accepted' \in [Ports -> Nat]
          /\ \A d \in Ports : fd'[d] <= accepted'[d]
      BY <2>1 DEF MarkedInv, ServedExists
    <2>5. ASSUME NEW d \in Ports, NEW j \in 1 .. accepted'[d] PROVE There(d, j)'
      <3>1. j \in Nat
        BY <2>4
      <3>2. j \in 1 .. accepted[d] \/ (d = c /\ j = accepted[c] + 1)
        BY <2>1 DEF MarkedInv, ServedExists
      <3> QED
        BY <2>2, <2>3, <3>1, <3>2 DEF MarkedInv, SendsToSome, Netuart, ServedExists
    <2>6. ASSUME NEW d \in Ports
          PROVE  /\ pc' = d => revents'[d]
                 /\ Ahead(d)' /\ revents'[d] /\ fd'[d] = 0 => There(d, accepted'[d] + 1)
      <3>1. pc' = d => revents'[d]
        BY <1>1, <2>1 DEF AfterPort, Ports
      <3>2. ASSUME Ahead(d)', revents'[d], fd'[d] = 0 PROVE There(d, accepted'[d] + 1)
        <4>1. d # c /\ fd[d] = 0 /\ accepted'[d] = accepted[d]
          BY <2>1, <3>2 DEF MarkedInv, ServedExists
        <4>2. Ahead(d)
          BY <1>1, <2>1, <3>2, <4>1 DEF Ahead, AfterPort, Ports
        <4> QED
          BY <1>1, <3>2, <4>1, <4>2 DEF MarkedInv, SendsToSome, Netuart, ServedExists, Netuart
      <3> QED
        BY <3>1, <3>2
    <2>7. ServedExists'
      BY <2>1, <2>3, <2>4, <2>5, <2>6 DEF ServedExists
    <2>8. from' \in [Ports -> Nat]
      BY <2>1 DEF MarkedInv, LineHolds
    <2>9. LineHolds' /\ SocketsHold'
      BY <1>1, <2>1, <2>8 DEF MarkedInv, LineHolds, SocketsHold, lineVars
    <2>10. BufsHold'
      BY <1>1, <2>1 DEF MarkedInv, BufsHold, AfterPort, Ports
    <2> QED
      BY <1>1, <1>2, <2>7, <2>9, <2>10 DEF MarkedInv, SendsToSome, Netuart
  <1>5. CASE ReadPort(c)
    <2> DEFINE s == sock[c][fd[c]]
               r == [s EXCEPT !.up = <<>>]
    <2>1. /\ buf' = [buf EXCEPT !.tty = Mark(c, s.up)] /\ fd[c] # 0 /\ pc' = ToTty(c)
          /\ UNCHANGED <<fd, accepted, from>>
          /\ sock' = [sock EXCEPT ![c] = [@ EXCEPT ![fd[c]] = r]]
      BY <1>5 DEF ReadPort, Goto
    <2>2. <<>> \in Seq(AsTyped(c))
      OBVIOUS
    <2>3. Socket(r, c) /\ r.peer = s.peer
      <3>1. r = [s EXCEPT !.up = <<>>, !.typed = s.typed]
        BY <1>3, <2>1 DEF Socket
      <3>2. s.typed \in Nat
        BY <1>3, <2>1 DEF Socket
      <3> QED
        BY <1>3, <2>1, <2>2, <3>1, <3>2, NewUp DEF Socket
    <2> HIDE DEF r
    <2>4. SocketsHold' /\ \A d \in Ports, j \in Nat : There(d, j) => There(d, j)'
      BY <1>3, <2>1, <2>3, OneSocket, StillThere DEF MarkedInv
    <2>5. s.up \in Seq(AsTyped(c))
      BY <1>3, <2>1 DEF Socket
    <2>6. Mark(c, s.up) \in Seq(AsMarked)
      BY <2>5, Marks
    <2>7. BufsHold'
      BY <1>1, <2>1, <2>6 DEF MarkedInv, BufsHold
    <2>8. ServedExists'
      <3>1. ASSUME NEW d \in Ports, NEW j \in 1 .. accepted[d] PROVE There(d, j)'
        BY <2>4 DEF MarkedInv, ServedExists
      <3>2. ASSUME NEW d \in Ports, There(d, accepted[d] + 1) PROVE There(d, accepted[d] + 1)'
        <4>1. accepted[d] + 1 \in Nat
          BY DEF MarkedInv, ServedExists
        <4> QED
          BY <2>1, <2>4, <3>2, <4>1
      <3> QED
        BY <1>1, <2>1, <3>1, <3>2 DEF MarkedInv, SendsToSome, Netuart, ServedExists, Ahead, ToTty, Ports
    <2>9. LineHolds'
      BY <1>1, <2>1 DEF MarkedInv, LineHolds, lineVars
    <2> QED
      BY <1>1, <1>2, <2>4, <2>7, <2>8, <2>9 DEF MarkedInv, SendsToSome, Netuart
  <1>6. CASE ReadNothing(c)
    <2>1. /\ fd[c] # 0 /\ pc' = AfterPort(c) /\ UNCHANGED <<accepted, from, buf>>
          /\ \/ sock' = [sock EXCEPT ![c][fd[c]].peer = "dead"] /\ fd' = fd
             \/ sock' = sock /\ fd' = [fd EXCEPT ![c] = 0]
      BY <1>6 DEF ReadNothing, Goto, netuartVars
    <2>2. SocketsHold' /\ \A d \in Ports, j \in Nat : There(d, j) => There(d, j)'
      <3>1. CASE sock' = [sock EXCEPT ![c][fd[c]].peer = "dead"]
        <4> DEFINE r == [sock[c][fd[c]] EXCEPT !.peer = "dead"]
        <4>1. Socket(r, c) /\ r.peer = "dead"
          BY <1>3, <2>1, NewPeer DEF Socket
        <4>2. sock' = [sock EXCEPT ![c] = [@ EXCEPT ![fd[c]] = r]]
          BY <3>1
        <4> HIDE DEF r
        <4> QED
          BY <1>3, <2>1, <4>1, <4>2, OneSocket, StillThere DEF MarkedInv, SendsToSome, Netuart
      <3>2. CASE sock' = sock
        BY <3>2 DEF MarkedInv, SocketsHold, There
      <3> QED
        BY <2>1, <3>1, <3>2
    <2>3. BufsHold' /\ LineHolds'
      BY <1>1, <2>1 DEF MarkedInv, BufsHold, LineHolds, lineVars, AfterPort, Ports
    <2>4. ServedExists'
      <3>1. ASSUME NEW d \in Ports, NEW j \in 1 .. accepted[d] PROVE There(d, j)'
        BY <2>2 DEF MarkedInv, ServedExists
      <3>2. fd' \in [Ports -> Nat] /\ \A d \in Ports : fd'[d] <= accepted[d]
        BY <2>1 DEF MarkedInv, ServedExists
      <3>3. ASSUME NEW d \in Ports
            PROVE  /\ pc' = d => revents'[d]
                   /\ Ahead(d)' /\ revents'[d] /\ fd'[d] = 0 => There(d, accepted[d] + 1)'
        <4>1. pc' = d => revents'[d]
          BY <1>1, <2>1 DEF AfterPort, Ports
        <4>2. ASSUME Ahead(d)', revents'[d], fd'[d] = 0 PROVE There(d, accepted[d] + 1)'
          <5>1. Ahead(d) /\ d # c
            BY <1>1, <2>1, <4>2 DEF Ahead, AfterPort, Ports
          <5>2. fd[d] = 0 /\ revents[d]
            BY <1>1, <2>1, <4>2, <5>1 DEF MarkedInv, ServedExists
          <5>3. There(d, accepted[d] + 1) /\ accepted[d] + 1 \in Nat
            BY <5>1, <5>2 DEF MarkedInv, ServedExists, Netuart
          <5> QED
            BY <2>1, <2>2, <5>3
        <4> QED
          BY <4>1, <4>2
      <3> QED
        BY <2>1, <3>1, <3>2, <3>3 DEF MarkedInv, SendsToSome, Netuart, ServedExists
    <2> QED
      BY <1>1, <1>2, <2>2, <2>3, <2>4 DEF MarkedInv, SendsToSome, Netuart
  <1> QED
    BY <1>4, <1>5, <1>6

LEMMA WriteTtyKeeps ==
    ASSUME MarkedInv, Netuart, NEW c \in Ports, WriteTty(c)
    PROVE  MarkedInv'
  <1> DEFINE left == Len(buf.tty) - pos
             n == Some(LineRoom - Len(tx), left)
  <1>1. /\ UNCHANGED <<server, dbluartVars, revents, clientVars, fd, told, rx, seen, sent>>
        /\ pc = ToTty(c) /\ n > 0
        /\ tx' = tx \o SubSeq(buf.tty, pos + 1, pos + n)
    BY DEF WriteTty, Netuart
  <1>2. /\ buf' \in {buf, [buf EXCEPT !.tty = <<>>]} /\ pos' \in {0, pos, pos + n}
        /\ pc' \in {pc, "exit", AfterPort(c)}
    BY DEF WriteTty
  <1>3. pc \in {"cmd tty", "con tty"}
    BY <1>1 DEF ToTty
  <1>4. buf.tty \in Seq(AsMarked) /\ pos \in Nat /\ tx \in Seq(AsMarked)
    BY <1>3 DEF MarkedInv, BufsHold, LineHolds
  <1>5. n \in Int /\ n <= left
    <2>1. LineRoom - Len(tx) \in Int /\ left \in Int
      BY <1>4, PortsAssumption
    <2> QED
      BY <2>1, SomeIs
  <1> HIDE DEF n
  <1>6. SubSeq(buf.tty, pos + 1, pos + n) \in Seq(AsMarked)
    <2>1. \A i \in pos + 1 .. pos + n : buf.tty[i] \in AsMarked
      BY <1>4, <1>5
    <2> QED
      BY <1>4, <1>5, <2>1, SubSeqProperties
  <1>7. tx' \in Seq(AsMarked)
    BY <1>1, <1>4, <1>6, ConcatProperties
  <1>8. pos' \in Nat
    <2>1. n > 0 /\ pos \in Nat /\ n \in Int /\ pos' \in {0, pos, pos + n}
      BY <1>1, <1>2, <1>4, <1>5, Zenon
    <2> QED
      BY <2>1
  <1>9. <<>> \in Seq(AsMarked)
    OBVIOUS
  <1>10. BufsHold'
    BY <1>2, <1>4, <1>8, <1>9 DEF MarkedInv, BufsHold
  <1>11. LineHolds' /\ SocketsHold' /\ DblHolds' /\ OnlyCommandsMarked'
    BY <1>1, <1>7 DEF MarkedInv, LineHolds, SocketsHold, DblHolds, OnlyCommandsMarked, clientVars, dbluartVars
  <1>12. ServedExists'
    <2>1. \A d \in Ports : /\ pc' = d => revents[d]
                           /\ Ahead(d)' => Ahead(d)
      BY <1>1, <1>2 DEF ToTty, AfterPort, Ahead, Ports
    <2>2. \A d \in Ports, j \in Nat : There(d, j) <=> There(d, j)'
      BY <1>1 DEF There, clientVars
    <2>3. ASSUME NEW d \in Ports, NEW j \in 1 .. accepted[d] PROVE There(d, j)'
      BY <2>2 DEF MarkedInv, ServedExists
    <2>4. ASSUME NEW d \in Ports, There(d, accepted[d] + 1) PROVE There(d, accepted[d] + 1)'
      <3>1. accepted[d] + 1 \in Nat /\ accepted' = accepted
        BY <1>1 DEF MarkedInv, ServedExists, clientVars
      <3> QED
        BY <2>2, <2>4, <3>1
    <2> QED
      BY <1>1, <2>1, <2>3, <2>4 DEF MarkedInv, SendsToSome, Netuart, ServedExists, clientVars, Netuart
  <1> QED
    BY <1>1, <1>10, <1>11, <1>12 DEF MarkedInv, SendsToSome, Netuart

LEMMA NetUartKeeps ==
    ASSUME MarkedInv, Netuart, NetUart
    PROVE  MarkedInv'
  <1>1. CASE Poll \/ PollGone \/ TtyRead \/ WriteTtyGone
    BY <1>1, PollKeeps
  <1>2. CASE ReadTty
    BY <1>2, ReadTtyKeeps
  <1>3. ASSUME NEW c \in Ports, SkipClient(c) \/ WriteClient(c) \/ WriteFails(c) PROVE MarkedInv'
    BY <1>3, ClientKeeps
  <1>4. ASSUME NEW c \in Ports, AcceptPort(c) \/ ReadPort(c) \/ ReadNothing(c) PROVE MarkedInv'
    BY <1>4, PortKeeps
  <1>5. ASSUME NEW c \in Ports, WriteTty(c) PROVE MarkedInv'
    BY <1>5, WriteTtyKeeps
  <1> QED
    BY <1>1, <1>2, <1>3, <1>4, <1>5 DEF NetUart

----------------------------------------------------------------------------
(* The simulator's server: a byte is marked as it is read.                    *)
Dbluartsim == server = "dbluartsim" /\ UNCHANGED <<server, netuartVars>>

\* What is left to show of a step of this server that neither types nor reads:
\* it serves no program that it did not serve, and keeps to its own states.
FdEnds == \A c \in Ports : fd'[c] = 0 \/ fd'[c] = fd[c]
Elsewhere == pc' \notin {"cmd tty", "con tty"}
LEMMA DblKeepsRest ==
    ASSUME MarkedInv, Dbluartsim, UNCHANGED <<clientVars, seen>>, LineHolds', DblHolds',
           fd' \in [Ports -> Nat], FdEnds, Elsewhere, SendsToSome'
    PROVE  MarkedInv'
  <1>1. SocketsHold' /\ OnlyCommandsMarked'
    BY DEF MarkedInv, SocketsHold, OnlyCommandsMarked, clientVars
  <1>2. BufsHold'
    BY DEF MarkedInv, BufsHold, Dbluartsim, netuartVars, Elsewhere
  <1>3. ServedExists'
    <2>1. \A d \in Ports, j \in Nat : There(d, j) => There(d, j)'
      BY DEF There, clientVars
    <2>2. ASSUME NEW d \in Ports, NEW j \in 1 .. accepted[d] PROVE There(d, j)'
      <3>1. accepted[d] \in Nat /\ There(d, j)
        BY DEF MarkedInv, ServedExists
      <3>2. j \in Nat
        BY <3>1
      <3> QED
        BY <2>1, <3>1, <3>2
    <2>0. fd' \in [Ports -> Nat] /\ fd \in [Ports -> Nat] /\ accepted \in [Ports -> Nat]
      BY DEF MarkedInv, ServedExists
    <2>3. ASSUME NEW c \in Ports PROVE fd'[c] <= accepted[c]
      <3>1. accepted[c] \in Nat /\ fd[c] \in Nat /\ fd'[c] \in Nat /\ fd[c] <= accepted[c]
        BY <2>0 DEF MarkedInv, ServedExists
      <3>2. fd'[c] = 0 \/ fd'[c] = fd[c]
        BY DEF FdEnds
      <3> QED
        BY <3>1, <3>2
    <2> QED
      BY <2>0, <2>2, <2>3 DEF MarkedInv, ServedExists, clientVars, Dbluartsim
  <1> QED
    BY <1>1, <1>2, <1>3 DEF MarkedInv, Dbluartsim

LEMMA KeepingKeeps ==
    ASSUME MarkedInv, Dbluartsim, Received \/ CmdLine \/ ConChar \/ NextByte \/ KillStart \/ \E c \in Ports : Drain(c)
    PROVE  MarkedInv'
  <1>1. <<>> \in Seq(DownByte)
    OBVIOUS
  <1>2. CASE Received
    <2> DEFINE b == Head(rx)
    <2>1. b \in DownByte /\ Tail(rx) \in Seq(DownByte)
      BY <1>2, HeadTailProperties DEF Received, MarkedInv, LineHolds
    <2>2. /\ rx' = Tail(rx) /\ told' = [told EXCEPT ![b.c] = @ + 1] /\ pc' = "cmd"
          /\ m_cmdbuf' \in {m_cmdbuf, Append(m_cmdbuf, b)} /\ m_conbuf' \in {m_conbuf, Append(m_conbuf, b)}
          /\ UNCHANGED <<m_rxbuf, sending, clientVars, fd, tx, seen, sent>>
      BY <1>2 DEF Received, Goto
    <2>3. Append(m_cmdbuf, b) \in Seq(DownByte) /\ Append(m_conbuf, b) \in Seq(DownByte)
      BY <2>1, AppendProperties DEF MarkedInv, DblHolds
    <2>4. DblHolds'
      BY <2>2, <2>3 DEF MarkedInv, DblHolds
    <2>5. LineHolds'
      <3>1. told' \in [Ports -> Nat]
        <4>1. b.c \in Ports
          BY <2>1 DEF DownByte
        <4>2. told \in [Ports -> Nat]
          BY DEF MarkedInv, LineHolds
        <4> QED
          BY <2>2, <4>1, <4>2
      <3> QED
        BY <2>1, <2>2, <3>1 DEF MarkedInv, LineHolds, clientVars
    <2>6. SendsToSome'
      BY <2>2 DEF SendsToSome
    <2> QED
      BY <2>2, <2>4, <2>5, <2>6, DblKeepsRest DEF FdEnds, Elsewhere, MarkedInv, ServedExists
  <1>3. CASE CmdLine \/ ConChar
    <2>1. /\ pc' \in {"send cmd", "con", "send con", "tick"}
          /\ UNCHANGED <<m_rxbuf, clientVars, fd, told, lineVars>>
      BY <1>3 DEF CmdLine, ConChar
    <2>2. DblHolds'
      <3>1. m_conbuf # <<>> => ConsoleSends \in Seq(DownByte)
        BY DEF ConsoleSends, Last, MarkedInv, DblHolds
      <3>2. /\ m_cmdbuf' \in {m_cmdbuf, <<>>} /\ m_conbuf' \in {m_conbuf, <<>>}
            /\ \/ sending' \in {sending, m_cmdbuf}
               \/ m_conbuf # <<>> /\ sending' = ConsoleSends
        BY <1>3 DEF CmdLine, ConChar, AfterLine
      <3> QED
        BY <1>1, <2>1, <3>1, <3>2 DEF MarkedInv, DblHolds
    <2>3. LineHolds'
      BY <2>1 DEF MarkedInv, LineHolds, lineVars, clientVars
    <2>4. fd' \in [Ports -> Nat] /\ \A c \in Ports : fd'[c] = 0 \/ fd'[c] = fd[c]
      BY <2>1 DEF MarkedInv, ServedExists
    <2>5. pc' \notin {"cmd tty", "con tty"} /\ UNCHANGED <<clientVars, seen>>
      BY <2>1 DEF lineVars
    <2>6. SendsToSome'
      BY <1>3, <2>1 DEF CmdLine, ConChar, SendsToSome
    <2> QED
      BY <2>2, <2>3, <2>4, <2>5, <2>6, DblKeepsRest DEF FdEnds, Elsewhere
  <1>4. CASE NextByte
    <2>1. /\ tx' = Append(tx, Head(m_rxbuf)) /\ m_rxbuf' = Tail(m_rxbuf) /\ pc' = "tick"
          /\ UNCHANGED <<m_cmdbuf, m_conbuf, sending, clientVars, fd, told, rx, seen, sent>>
      BY <1>4 DEF NextByte, AfterByte
    <2>2. Head(m_rxbuf) \in AsMarked /\ Tail(m_rxbuf) \in Seq(AsMarked)
      BY <1>4, HeadTailProperties DEF NextByte, MarkedInv, DblHolds
    <2>3. tx' \in Seq(AsMarked)
      BY <2>1, <2>2, AppendProperties DEF MarkedInv, LineHolds
    <2>4. LineHolds' /\ DblHolds'
      BY <2>1, <2>2, <2>3 DEF MarkedInv, LineHolds, DblHolds, clientVars
    <2>5. SendsToSome'
      BY <2>1 DEF SendsToSome
    <2> QED
      BY <2>1, <2>4, <2>5, DblKeepsRest DEF FdEnds, Elsewhere, MarkedInv, ServedExists
  <1>5. CASE KillStart \/ \E c \in Ports : Drain(c)
    <2>1. /\ UNCHANGED <<m_rxbuf, clientVars, told, lineVars>> /\ pc' \notin {"cmd tty", "con tty"}
          /\ m_cmdbuf' \in {m_cmdbuf, <<>>} /\ m_conbuf' \in {m_conbuf, <<>>}
          /\ sending' \in {sending, m_cmdbuf, m_conbuf}
      BY <1>5 DEF KillStart, Drain
    <2>2. fd' = fd \/ \E c \in Ports : fd' = [fd EXCEPT ![c] = 0]
      BY <1>5 DEF KillStart, Drain
    <2>3. fd' \in [Ports -> Nat] /\ \A c \in Ports : fd'[c] = 0 \/ fd'[c] = fd[c]
      BY <2>2 DEF MarkedInv, ServedExists
    <2>4. LineHolds' /\ DblHolds'
      BY <1>1, <2>1 DEF MarkedInv, LineHolds, DblHolds, lineVars, clientVars
    <2>5. SendsToSome'
      <3>1. pc' \in {"kill con", "kill cmd", "drain con", "drain cmd", "killed"}
            /\ (pc' = "kill con" => fd' = fd /\ fd.con # 0)
            /\ (pc' = "kill cmd" => fd' = [fd EXCEPT !["con"] = 0] /\ fd.cmd # 0)
        BY <1>5 DEF KillStart, Drain, Ports
      <3> QED
        BY <3>1 DEF SendsToSome, MarkedInv, ServedExists, Ports
    <2> QED
      BY <2>1, <2>3, <2>4, <2>5, DblKeepsRest DEF FdEnds, Elsewhere, lineVars
  <1> QED
    BY <1>2, <1>3, <1>4, <1>5

LEMMA PollAcceptKeeps ==
    ASSUME MarkedInv, Dbluartsim, NEW c \in Ports, PollAccept(c)
    PROVE  MarkedInv'
  <1>1. /\ accepted' = [accepted EXCEPT ![c] = @ + 1] /\ fd' = [fd EXCEPT ![c] = accepted[c] + 1]
        /\ from' = [from EXCEPT ![c] = told[c]] /\ fd[c] = 0 /\ pc' = "tick"
        /\ UNCHANGED <<dbluartVars, sock, told, lineVars>>
    BY DEF PollAccept, Accept
  <1>2. There(c, accepted[c] + 1)
    BY DEF PollAccept, Readable, There
  <1>3. \A d \in Ports, j \in Nat : There(d, j) => There(d, j)'
    BY <1>1 DEF There
  <1>4. /\ fd' \in [Ports -> Nat] /\ accepted' \in [Ports -> Nat]
        /\ \A d \in Ports : fd'[d] <= accepted'[d]
    BY <1>1 DEF MarkedInv, ServedExists
  <1>5. ASSUME NEW d \in Ports, NEW j \in 1 .. accepted'[d] PROVE There(d, j)'
    <2>1. j \in Nat
      BY <1>4
    <2>2. j \in 1 .. accepted[d] \/ (d = c /\ j = accepted[c] + 1)
      BY <1>1 DEF MarkedInv, ServedExists
    <2> QED
      BY <1>2, <1>3, <2>1, <2>2 DEF MarkedInv, ServedExists
  <1>6. ServedExists' /\ SendsToSome'
    BY <1>1, <1>4, <1>5 DEF ServedExists, SendsToSome, Dbluartsim
  <1>7. LineHolds' /\ SocketsHold' /\ DblHolds' /\ BufsHold' /\ OnlyCommandsMarked'
    BY <1>1 DEF MarkedInv, LineHolds, SocketsHold, DblHolds, BufsHold, OnlyCommandsMarked,
                lineVars, dbluartVars, netuartVars, Dbluartsim
  <1> QED
    BY <1>6, <1>7 DEF MarkedInv, Dbluartsim

LEMMA Received7Marks ==
    ASSUME NEW c \in Ports, NEW n \in Nat, sock[c][fd[c]].up \in Seq(AsTyped(c)),
           n <= Len(sock[c][fd[c]].up)
    PROVE  Received7(c, n) \in Seq(AsMarked)
  <1> DEFINE up == sock[c][fd[c]].up
  <1>1. ASSUME NEW b \in AsTyped(c) PROVE [b EXCEPT !.hi = @ \/ c = "cmd"] \in AsMarked
    BY <1>1, Zenon DEF AsTyped, AsMarked, Byte
  <1>2. \A i \in 1 .. n : up[i] \in AsTyped(c)
    OBVIOUS
  <1>3. \A i \in 1 .. n : [up[i] EXCEPT !.hi = @ \/ c = "cmd"] \in AsMarked
    BY <1>1, <1>2
  <1>4. Received7(c, n) = [i \in 1 .. n |-> [up[i] EXCEPT !.hi = @ \/ c = "cmd"]]
    BY DEF Received7
  <1> QED
    BY <1>3, <1>4

\* A send to a program: to nowhere, or of the first n bytes.
LEMMA SendFacts ==
    ASSUME MarkedInv, NEW c \in Ports, NEW here, NEW there, SendTo(c, here, there),
           fd[c] # 0
    PROVE  \/ fd' = [fd EXCEPT ![c] = 0] /\ sending' = <<>> /\ sock' = sock /\ Refuses(c)
           \/ \E n \in Nat :
                /\ n > 0 /\ n <= Len(sending) /\ fd' = fd
                /\ ~TakesBytes(c) => n = Len(sending)
                /\ SubSeq(sending, 1, n) \in Seq(DownByte)
                /\ sock' = AfterSend(c, SubSeq(sending, 1, n))
                /\ sending' = SubSeq(sending, n + 1, Len(sending))
                /\ sending' \in Seq(DownByte)
  <1>1. CASE Refuses(c)
    BY <1>1 DEF SendTo
  <1>2. CASE ~Refuses(c)
    <2> DEFINE room == SockRoom - Len(sock[c][fd[c]].down)
               n == IF TakesBytes(c) THEN Some(room, Len(sending)) ELSE Len(sending)
    <2>1. /\ n > 0 /\ fd' = fd
          /\ sock' = AfterSend(c, SubSeq(sending, 1, n))
          /\ sending' = SubSeq(sending, n + 1, Len(sending))
      BY <1>2 DEF SendTo
    <2>2. sending \in Seq(DownByte) /\ Len(sending) \in Nat
      BY DEF MarkedInv, DblHolds
    <2>3. sock[c][fd[c]].down \in Seq(DownByte)
      BY DEF MarkedInv, ServedExists, There, SocketsHold, Socket
    <2>4. room \in Int
      BY <2>3, PortsAssumption
    <2>5. n \in Int /\ n <= Len(sending) /\ (~TakesBytes(c) => n = Len(sending))
      <3> HIDE DEF room
      <3>1. Some(room, Len(sending)) \in Int /\ Some(room, Len(sending)) <= Len(sending)
        BY <2>2, <2>4 DEF Some
      <3>2. CASE TakesBytes(c)
        BY <3>1, <3>2
      <3>3. CASE ~TakesBytes(c)
        BY <2>2, <3>3
      <3> QED
        BY <3>2, <3>3
    <2> HIDE DEF n
    <2>6. n \in Nat
      BY <2>1, <2>5
    <2>7. SubSeq(sending, 1, n) \in Seq(DownByte)
      <3>1. \A i \in 1 .. n : sending[i] \in DownByte
        BY <2>2, <2>5, <2>6
      <3> QED
        BY <2>6, <3>1, SubSeqProperties
    <2>8. SubSeq(sending, n + 1, Len(sending)) \in Seq(DownByte)
      <3>1. \A i \in n + 1 .. Len(sending) : sending[i] \in DownByte
        BY <2>2, <2>6
      <3> QED
        BY <2>2, <2>6, <3>1, SubSeqProperties
    <2> QED
      BY <2>1, <2>5, <2>6, <2>7, <2>8
  <1> QED
    BY <1>1, <1>2

LEMMA SendKeeps ==
    ASSUME MarkedInv, Dbluartsim, NEW c \in Ports, NEW here, NEW there, SendTo(c, here, there), fd[c] # 0,
           Elsewhere, SendsToSome'
    PROVE  MarkedInv'
  <1>1. UNCHANGED <<m_cmdbuf, m_conbuf, m_rxbuf, accepted, from, told, lineVars, server, netuartVars>>
    BY DEF SendTo, Dbluartsim
  <1>2. /\ sending' \in Seq(DownByte) /\ SocketsHold' /\ fd' \in [Ports -> Nat] /\ FdEnds
        /\ \A d \in Ports, j \in Nat : There(d, j) => There(d, j)'
    <2>1. CASE fd' = [fd EXCEPT ![c] = 0] /\ sending' = <<>> /\ sock' = sock
      <3>1. <<>> \in Seq(DownByte)
        OBVIOUS
      <3>2. SocketsHold' /\ \A d \in Ports, j \in Nat : There(d, j) => There(d, j)'
        BY <2>1 DEF MarkedInv, SocketsHold, There
      <3>3. fd' \in [Ports -> Nat] /\ FdEnds
        BY <2>1 DEF MarkedInv, ServedExists, FdEnds
      <3> QED
        BY <2>1, <3>1, <3>2, <3>3
    <2>2. ASSUME NEW n \in Nat, fd' = fd, SubSeq(sending, 1, n) \in Seq(DownByte),
                 sock' = AfterSend(c, SubSeq(sending, 1, n)), sending' \in Seq(DownByte)
          PROVE  /\ sending' \in Seq(DownByte) /\ SocketsHold' /\ fd' \in [Ports -> Nat] /\ FdEnds
                 /\ \A d \in Ports, j \in Nat : There(d, j) => There(d, j)'
      <3>1. SocketsHold' /\ \A d \in Ports, j \in Nat : There(d, j) => There(d, j)'
        BY <2>2, AfterSendSocket
      <3>2. fd' \in [Ports -> Nat] /\ FdEnds
        BY <2>2 DEF MarkedInv, ServedExists, FdEnds
      <3> QED
        BY <2>2, <3>1, <3>2
    <2> QED
      BY <2>1, <2>2, SendFacts
  <1>3. DblHolds' /\ BufsHold' /\ LineHolds' /\ OnlyCommandsMarked'
    BY <1>1, <1>2 DEF MarkedInv, DblHolds, BufsHold, LineHolds, OnlyCommandsMarked, lineVars, netuartVars,
                      Elsewhere
  <1>4. ServedExists'
    <2>1. ASSUME NEW d \in Ports, NEW j \in 1 .. accepted[d] PROVE There(d, j)'
      <3>1. accepted[d] \in Nat /\ There(d, j)
        BY DEF MarkedInv, ServedExists
      <3>2. j \in Nat
        BY <3>1
      <3> QED
        BY <1>2, <3>1, <3>2
    <2>2. ASSUME NEW d \in Ports PROVE fd'[d] <= accepted[d]
      <3>1. accepted[d] \in Nat /\ fd[d] \in Nat /\ fd[d] <= accepted[d]
        BY DEF MarkedInv, ServedExists
      <3>2. fd'[d] = 0 \/ fd'[d] = fd[d]
        BY <1>2 DEF FdEnds
      <3> QED
        BY <3>1, <3>2
    <2> QED
      BY <1>1, <1>2, <2>1, <2>2 DEF MarkedInv, ServedExists, Dbluartsim
  <1> QED
    BY <1>1, <1>2, <1>3, <1>4 DEF MarkedInv, Dbluartsim

LEMMA SendToKeeps ==
    ASSUME MarkedInv, Dbluartsim,
           \/ SendTo("cmd", "send cmd", "con") \/ SendTo("con", "send con", "tick")
           \/ SendTo("con", "kill con", "drain con") \/ SendTo("cmd", "kill cmd", "drain cmd")
    PROVE  MarkedInv'
  <1>1. ASSUME NEW c \in Ports, NEW here, NEW there, SendTo(c, here, there), fd[c] # 0,
               here \in {"send cmd", "send con", "kill con", "kill cmd"},
               there \in {"con", "tick", "drain con", "drain cmd"},
               here \in {"send cmd", "kill cmd"} <=> c = "cmd"
        PROVE  MarkedInv'
    <2>1. pc = here /\ pc' \in {here, there} /\ (pc' = here => sending' # <<>>)
      BY <1>1 DEF SendTo
    <2>2. Elsewhere
      BY <1>1, <2>1 DEF Elsewhere
    <2>3. pc' = here => fd' = fd
      BY <1>1, <2>1, SendFacts
    <2>4. SendsToSome'
      BY <1>1, <2>1, <2>3 DEF SendsToSome, Ports
    <2> QED
      BY <1>1, <2>2, <2>4, SendKeeps
  <1>2. CASE SendTo("cmd", "send cmd", "con") \/ SendTo("cmd", "kill cmd", "drain cmd")
    <2>1. fd["cmd"] # 0
      <3>1. pc \in {"send cmd", "kill cmd"}
        BY <1>2 DEF SendTo
      <3>2. server = "dbluartsim" /\ SendsToSome
        BY DEF MarkedInv, Dbluartsim
      <3> QED
        BY <3>1, <3>2, Zenon DEF SendsToSome
    <2>2. "cmd" \in Ports
      BY DEF Ports
    <2> QED
      BY <1>1, <1>2, <2>1, <2>2
  <1>3. CASE SendTo("con", "send con", "tick") \/ SendTo("con", "kill con", "drain con")
    <2>1. fd["con"] # 0
      <3>1. pc \in {"send con", "kill con"}
        BY <1>3 DEF SendTo
      <3>2. server = "dbluartsim" /\ SendsToSome
        BY DEF MarkedInv, Dbluartsim
      <3> QED
        BY <3>1, <3>2, Zenon DEF SendsToSome
    <2>2. "con" \in Ports
      BY DEF Ports
    <2> QED
      BY <1>1, <1>3, <2>1, <2>2
  <1> QED
    BY <1>2, <1>3

\* What is read of one port: no more than there is.
LEMMA PollReadFacts ==
    ASSUME MarkedInv, PollRead
    PROVE  \E takes \in [Ports -> Nat] :
             /\ \A c \in Ports : takes[c] # 0 => fd[c] # 0 /\ takes[c] <= Len(sock[c][fd[c]].up)
             /\ m_rxbuf' = Received7("cmd", takes["cmd"]) \o Received7("con", takes["con"])
             /\ sock' = [c \in Ports |-> IF takes[c] = 0 THEN sock[c]
                     ELSE [sock[c] EXCEPT ![fd[c]].up = SubSeq(@, takes[c] + 1, Len(@))]]
  <1> DEFINE Few(c, room) == Some(Len(sock[c][fd[c]].up), room)
             n == [c \in Ports |-> IF Polled(c) THEN RecvLen(c, DblPipeBufLen) ELSE 0]
             full == n["cmd"] = DblPipeBufLen
             m == IF Polled("con") THEN RecvLen("con", DblPipeBufLen - n["cmd"]) ELSE 0
             takes == [cmd |-> n["cmd"], con |-> IF full THEN 0 ELSE m]
  <1>1. ASSUME NEW c \in Ports, Polled(c) PROVE fd[c] # 0 /\ Len(sock[c][fd[c]].up) \in Nat
    <2>1. fd[c] # 0
      BY <1>1 DEF Polled
    <2>2. Socket(sock[c][fd[c]], c)
      BY <2>1 DEF MarkedInv, ServedExists, There, SocketsHold
    <2> QED
      BY <2>1, <2>2 DEF Socket
  <1>2. "cmd" \in Ports /\ "con" \in Ports
    BY DEF Ports
  <1>3. /\ n["cmd"] \in Nat /\ n["cmd"] <= DblPipeBufLen
        /\ n["cmd"] # 0 => fd["cmd"] # 0 /\ n["cmd"] <= Len(sock["cmd"][fd["cmd"]].up)
    <2>1. n["cmd"] = IF Polled("cmd") THEN Some(Len(sock["cmd"][fd["cmd"]].up), DblPipeBufLen) ELSE 0
      BY <1>2 DEF RecvLen
    <2> QED
      BY <1>1, <1>2, <2>1, BufAssumption DEF Some
  <1> HIDE DEF n
  <1>4. /\ m \in Nat
        /\ m # 0 => fd["con"] # 0 /\ m <= Len(sock["con"][fd["con"]].up)
    <2>1. DblPipeBufLen - n["cmd"] \in Nat
      BY <1>3, BufAssumption
    <2>2. m = IF Polled("con") THEN Some(Len(sock["con"][fd["con"]].up), DblPipeBufLen - n["cmd"]) ELSE 0
      BY DEF RecvLen
    <2> HIDE DEF m
    <2> QED
      BY <1>1, <1>2, <2>1, <2>2 DEF Some
  <1> HIDE DEF m
  <1>5. /\ takes["cmd"] = n["cmd"]
        /\ takes["con"] = 0 \/ takes["con"] = m
        /\ takes \in [Ports -> Nat]
    BY <1>3, <1>4 DEF Ports
  <1>6. \A c \in Ports : takes[c] # 0 => fd[c] # 0 /\ takes[c] <= Len(sock[c][fd[c]].up)
    BY <1>3, <1>4, <1>5 DEF Ports
  <1>7. /\ m_rxbuf' = Received7("cmd", takes.cmd) \o Received7("con", takes.con)
        /\ sock' = [c \in Ports |-> IF takes[c] = 0 THEN sock[c]
                     ELSE [sock[c] EXCEPT ![fd[c]].up = SubSeq(@, takes[c] + 1, Len(@))]]
    BY DEF PollRead, n, m
  <1> HIDE DEF takes
  <1> QED
    BY <1>5, <1>6, <1>7

LEMMA PollReadKeeps ==
    ASSUME MarkedInv, Dbluartsim, PollRead
    PROVE  MarkedInv'
  <1>1. PICK takes \in [Ports -> Nat] :
             /\ \A c \in Ports : takes[c] # 0 => fd[c] # 0 /\ takes[c] <= Len(sock[c][fd[c]].up)
             /\ m_rxbuf' = Received7("cmd", takes["cmd"]) \o Received7("con", takes["con"])
             /\ sock' = [c \in Ports |-> IF takes[c] = 0 THEN sock[c]
                     ELSE [sock[c] EXCEPT ![fd[c]].up = SubSeq(@, takes[c] + 1, Len(@))]]
    BY PollReadFacts
  <1>2. /\ UNCHANGED <<pc, m_cmdbuf, m_conbuf, sending, accepted, from, told, lineVars, server, netuartVars>>
        /\ pc = "tick"
    BY DEF PollRead, Dbluartsim
  <1>3. fd' \in [Ports -> Nat] /\ FdEnds
    <2>1. PICK ends : fd' = [c \in Ports |-> IF c \in ends THEN 0 ELSE fd[c]]
      BY DEF PollRead
    <2> QED
      BY <2>1 DEF MarkedInv, ServedExists, FdEnds
  <1>4. ASSUME NEW c \in Ports, takes[c] # 0
        PROVE  /\ fd[c] \in Sessions /\ Socket(sock[c][fd[c]], c)
               /\ sock[c][fd[c]].up \in Seq(AsTyped(c))
    BY <1>1, <1>4 DEF MarkedInv, ServedExists, There, SocketsHold, Socket
  <1>5. ASSUME NEW c \in Ports PROVE Received7(c, takes[c]) \in Seq(AsMarked)
    <2>1. CASE takes[c] = 0
      <3>1. Received7(c, 0) = <<>>
        BY DEF Received7
      <3>2. <<>> \in Seq(AsMarked)
        OBVIOUS
      <3> QED
        BY <2>1, <3>1, <3>2
    <2>2. CASE takes[c] # 0
      BY <1>1, <1>4, <2>2, Received7Marks
    <2> QED
      BY <2>1, <2>2
  <1>6. m_rxbuf' \in Seq(AsMarked)
    <2>1. "cmd" \in Ports /\ "con" \in Ports
      BY DEF Ports
    <2>2. Received7("cmd", takes["cmd"]) \in Seq(AsMarked) /\ Received7("con", takes["con"]) \in Seq(AsMarked)
      BY <1>5, <2>1
    <2> QED
      BY <1>1, <2>2, ConcatProperties
  <1>7. ASSUME NEW c \in Ports, NEW k \in Sessions
        PROVE  Socket(sock'[c][k], c) /\ sock'[c][k].peer = sock[c][k].peer
    <2>0. Socket(sock[c][k], c)
      BY DEF MarkedInv, SocketsHold
    <2>1. CASE takes[c] = 0
      BY <1>1, <2>0, <2>1
    <2>2. CASE takes[c] # 0
      <3> DEFINE s == sock[c][fd[c]]
                 u == SubSeq(s.up, takes[c] + 1, Len(s.up))
                 r == [s EXCEPT !.up = u]
      <3>1. sock'[c] = [sock[c] EXCEPT ![fd[c]] = r]
        BY <1>1, <2>2
      <3>2. u \in Seq(AsTyped(c))
        <4>1. s.up \in Seq(AsTyped(c)) /\ takes[c] \in Nat /\ Len(s.up) \in Nat
          BY <1>4, <2>2
        <4>2. \A i \in takes[c] + 1 .. Len(s.up) : s.up[i] \in AsTyped(c)
          BY <4>1
        <4> QED
          BY <4>1, <4>2, SubSeqProperties
      <3>3. Socket(r, c) /\ r.peer = s.peer
        BY <1>4, <2>2, <3>2 DEF Socket
      <3> HIDE DEF r
      <3>4. sock[c] = [j \in Sessions |-> sock[c][j]]
        BY DEF MarkedInv, SocketsHold
      <3>5. sock'[c][k] = IF k = fd[c] THEN r ELSE sock[c][k]
        BY <1>4, <2>2, <3>1, <3>4
      <3> QED
        BY <2>0, <3>3, <3>5
    <2> QED
      BY <2>1, <2>2
  <1>8. SocketsHold'
    <2>1. ASSUME NEW c \in Ports PROVE sock'[c] = [k \in Sessions |-> sock'[c][k]]
      <3>1. sock[c] = [k \in Sessions |-> sock[c][k]]
        BY DEF MarkedInv, SocketsHold
      <3>2. CASE takes[c] = 0
        BY <1>1, <3>1, <3>2
      <3>3. CASE takes[c] # 0
        <4>1. sock'[c] = [sock[c] EXCEPT ![fd[c]].up = SubSeq(@, takes[c] + 1, Len(@))]
          BY <1>1, <3>3
        <4> QED
          BY <3>1, <4>1
      <3> QED
        BY <3>2, <3>3
    <2>2. sock' = [c \in Ports |-> sock'[c]]
      BY <1>1
    <2> QED
      BY <1>7, <2>1, <2>2 DEF SocketsHold
  <1>9. ServedExists'
    <2>1. ASSUME NEW d \in Ports, NEW j \in 1 .. accepted[d] PROVE There(d, j)'
      BY <1>7 DEF MarkedInv, ServedExists, There
    <2>2. ASSUME NEW d \in Ports PROVE fd'[d] <= accepted[d]
      <3>1. accepted[d] \in Nat /\ fd[d] \in Nat /\ fd[d] <= accepted[d]
        BY DEF MarkedInv, ServedExists
      <3>2. fd'[d] = 0 \/ fd'[d] = fd[d]
        BY <1>3 DEF FdEnds
      <3> QED
        BY <3>1, <3>2
    <2> QED
      BY <1>2, <1>3, <2>1, <2>2 DEF MarkedInv, ServedExists, Dbluartsim
  <1>10. DblHolds' /\ BufsHold' /\ LineHolds' /\ OnlyCommandsMarked' /\ SendsToSome'
    BY <1>2, <1>6 DEF MarkedInv, DblHolds, BufsHold, LineHolds, OnlyCommandsMarked, SendsToSome,
                      lineVars, netuartVars
  <1> QED
    BY <1>2, <1>8, <1>9, <1>10 DEF MarkedInv, Dbluartsim

LEMMA DblUartSimKeeps ==
    ASSUME MarkedInv, Dbluartsim, DblUartSim
    PROVE  MarkedInv'
  <1>1. CASE Received \/ CmdLine \/ ConChar \/ NextByte \/ KillStart \/ \E c \in Ports : Drain(c)
    BY <1>1, KeepingKeeps
  <1>2. CASE \/ SendTo("cmd", "send cmd", "con") \/ SendTo("con", "send con", "tick")
             \/ SendTo("con", "kill con", "drain con") \/ SendTo("cmd", "kill cmd", "drain cmd")
    BY <1>2, SendToKeeps
  <1>3. CASE PollRead
    BY <1>3, PollReadKeeps
  <1>4. ASSUME NEW c \in Ports, PollAccept(c) PROVE MarkedInv'
    BY <1>4, PollAcceptKeeps
  <1> QED
    BY <1>1, <1>2, <1>3, <1>4 DEF DblUartSim

LEMMA MarkedStep ==
    MarkedInv /\ [Next]_vars => MarkedInv'
  <1> SUFFICES ASSUME MarkedInv, [Next]_vars PROVE MarkedInv'
    OBVIOUS
  <1>1. CASE Server
    <2>1. CASE server = "netuart" /\ NetUart /\ UNCHANGED <<server, dbluartVars>>
      BY <2>1, NetUartKeeps DEF Netuart
    <2>2. CASE server = "dbluartsim" /\ DblUartSim /\ UNCHANGED <<server, netuartVars>>
      BY <2>2, DblUartSimKeeps DEF Dbluartsim
    <2> QED
      BY <1>1, <2>1, <2>2 DEF Server
  <1>2. CASE Clients
    <2>1. PICK c \in Ports :
             \/ Outside(Connect(c)) \/ Outside(DeviceSends(c))
             \/ \E k \in Sessions : Outside(Type(c, k)) \/ Outside(Take(c, k)) \/ Outside(Leave(c, k))
      BY <1>2 DEF Clients
    <2>2. CASE Outside(Connect(c))
      <3>1. Connect(c) /\ Around
        BY <2>2 DEF Outside, Around, Connect
      <3> QED
        BY <3>1, ConnectKeeps
    <2>3. CASE Outside(DeviceSends(c))
      <3>1. DeviceSends(c) /\ Around
        BY <2>3 DEF Outside, Around, DeviceSends
      <3> QED
        BY <3>1, BoardKeeps
    <2>4. ASSUME NEW k \in Sessions, Outside(Type(c, k)) \/ Outside(Take(c, k)) \/ Outside(Leave(c, k))
          PROVE  MarkedInv'
      <3>1. Around
        BY <2>4 DEF Outside, Around, Type, Take, Leave
      <3>2. Type(c, k) \/ Take(c, k) \/ Leave(c, k)
        BY <2>4 DEF Outside
      <3> QED
        BY <3>1, <3>2, TypeKeeps, TakeKeeps, LeaveKeeps
    <2> QED
      BY <2>1, <2>2, <2>3, <2>4
  <1>3. CASE Outside(DeviceTakes) \/ Outside(Unplug)
    <2>1. (DeviceTakes \/ Unplug) /\ Around
      BY <1>3 DEF Outside, Around, DeviceTakes, Unplug
    <2> QED
      BY <2>1, BoardKeeps
  <1>4. CASE UNCHANGED vars
    <2>1. UNCHANGED <<server, pc, clientVars, lineVars, fd, told, netuartVars, dbluartVars>>
      BY <1>4 DEF vars
    <2> QED
      BY <2>1 DEF MarkedInv, SocketsHold, ServedExists, Ahead, There, BufsHold, DblHolds, LineHolds,
                  OnlyCommandsMarked, SendsToSome, clientVars, lineVars, netuartVars, dbluartVars
  <1> QED
    BY <1>1, <1>2, <1>3, <1>4 DEF Next

\* Whatever is typed, read or left in whatever order, and whichever server runs:
\* bit 7 of what the board takes is set exactly for a command, and for what a
\* terminal sent with it (netuart.cpp:171-174, dbluartsim.cpp:183-200).
THEOREM CommandsAreMarked == Spec => []OnlyCommandsMarked
  <1>1. Spec => []MarkedInv
    BY FirstState, MarkedStep, PTL DEF Spec
  <1>2. MarkedInv => OnlyCommandsMarked
    BY DEF MarkedInv
  <1> QED
    BY <1>1, <1>2, PTL

----------------------------------------------------------------------------
(* What a program at a port is given: numbers that follow each other.         *)

\* Bytes that follow number a; and numbers.
Numbered(bytes, a) == \A i \in 1 .. Len(bytes) : bytes[i].n = a + i
Goes(s, a) == \A i \in 1 .. Len(s) : s[i] = a + i

LEMMA NumbersFacts ==
    ASSUME NEW b \in Seq(DownByte)
    PROVE  /\ Numbers(b) \in Seq(Nat) /\ Len(Numbers(b)) = Len(b)
           /\ \A i \in 1 .. Len(b) : Numbers(b)[i] = b[i].n
  <1>1. Len(b) \in Nat /\ DOMAIN b = 1 .. Len(b) /\ \A i \in 1 .. Len(b) : b[i].n \in Nat
    <2>1. \A i \in 1 .. Len(b) : b[i] \in DownByte
      OBVIOUS
    <2> QED
      BY <2>1 DEF DownByte
  <1>2. Numbers(b) = [i \in 1 .. Len(b) |-> b[i].n]
    BY <1>1 DEF Numbers
  <1> QED
    BY <1>1, <1>2

LEMMA NumbersConcat ==
    ASSUME NEW a \in Seq(DownByte), NEW b \in Seq(DownByte)
    PROVE  Numbers(a \o b) = Numbers(a) \o Numbers(b)
  <1>1. /\ a \o b \in Seq(DownByte) /\ Len(a \o b) = Len(a) + Len(b)
        /\ \A i \in 1 .. Len(a) + Len(b) : (a \o b)[i] = IF i <= Len(a) THEN a[i] ELSE b[i - Len(a)]
    BY ConcatProperties
  <1>2. /\ Numbers(a) \in Seq(Nat) /\ Numbers(b) \in Seq(Nat) /\ Numbers(a \o b) \in Seq(Nat)
        /\ Len(Numbers(a)) = Len(a) /\ Len(Numbers(b)) = Len(b) /\ Len(Numbers(a \o b)) = Len(a) + Len(b)
        /\ Len(a) \in Nat /\ Len(b) \in Nat
    <2> DEFINE t == a \o b
    <2>1. t \in Seq(DownByte) /\ Len(t) = Len(a) + Len(b)
      BY <1>1
    <2> HIDE DEF t
    <2>2. Numbers(t) \in Seq(Nat) /\ Len(Numbers(t)) = Len(t)
      BY <2>1, NumbersFacts
    <2>3. /\ Numbers(a) \in Seq(Nat) /\ Numbers(b) \in Seq(Nat)
          /\ Len(Numbers(a)) = Len(a) /\ Len(Numbers(b)) = Len(b)
          /\ Len(a) \in Nat /\ Len(b) \in Nat
      BY NumbersFacts
    <2> QED
      BY <2>1, <2>2, <2>3 DEF t
  <1>3. /\ Numbers(a) \o Numbers(b) \in Seq(Nat) /\ Len(Numbers(a) \o Numbers(b)) = Len(a) + Len(b)
        /\ \A i \in 1 .. Len(a) + Len(b) : (Numbers(a) \o Numbers(b))[i] =
             IF i <= Len(a) THEN Numbers(a)[i] ELSE Numbers(b)[i - Len(a)]
    <2> DEFINE p == Numbers(a)
               q == Numbers(b)
    <2>1. p \in Seq(Nat) /\ q \in Seq(Nat) /\ Len(p) = Len(a) /\ Len(q) = Len(b)
      BY <1>2
    <2> HIDE DEF p, q
    <2>2. /\ p \o q \in Seq(Nat) /\ Len(p \o q) = Len(p) + Len(q)
          /\ \A i \in 1 .. Len(p) + Len(q) : (p \o q)[i] = IF i <= Len(p) THEN p[i] ELSE q[i - Len(p)]
      BY <2>1, ConcatProperties
    <2> QED
      BY <2>1, <2>2 DEF p, q
  <1>4. ASSUME NEW i \in 1 .. Len(a) + Len(b)
        PROVE  Numbers(a \o b)[i] = (Numbers(a) \o Numbers(b))[i]
    <2>1. Numbers(a \o b)[i] = (a \o b)[i].n
      BY <1>1, NumbersFacts
    <2>2. CASE i <= Len(a)
      <3>1. i \in 1 .. Len(a)
        BY <1>2, <2>2
      <3>2. Numbers(a)[i] = a[i].n
        BY <3>1, NumbersFacts
      <3> QED
        BY <1>1, <1>3, <2>1, <2>2, <3>2
    <2>3. CASE ~(i <= Len(a))
      <3>1. i - Len(a) \in 1 .. Len(b)
        BY <1>2, <2>3
      <3>2. Numbers(b)[i - Len(a)] = b[i - Len(a)].n
        BY <3>1, NumbersFacts
      <3> QED
        BY <1>1, <1>3, <2>1, <2>3, <3>2
    <2> QED
      BY <2>2, <2>3
  <1> QED
    BY <1>2, <1>3, <1>4, SeqEqual

\* More of what follows.
LEMMA GoesOn ==
    ASSUME NEW s \in Seq(Nat), NEW b \in Seq(DownByte), NEW a \in Int,
           Goes(s, a), Numbered(b, a + Len(s))
    PROVE  /\ s \o Numbers(b) \in Seq(Nat) /\ Goes(s \o Numbers(b), a)
           /\ Len(s \o Numbers(b)) = Len(s) + Len(b)
  <1>1. /\ Numbers(b) \in Seq(Nat) /\ Len(Numbers(b)) = Len(b)
        /\ \A i \in 1 .. Len(b) : Numbers(b)[i] = a + Len(s) + i
    BY NumbersFacts DEF Numbered
  <1>2. /\ s \o Numbers(b) \in Seq(Nat) /\ Len(s \o Numbers(b)) = Len(s) + Len(b)
        /\ \A i \in 1 .. Len(s) + Len(b) : (s \o Numbers(b))[i] =
             IF i <= Len(s) THEN s[i] ELSE Numbers(b)[i - Len(s)]
    <2> DEFINE q == Numbers(b)
    <2>1. q \in Seq(Nat) /\ Len(q) = Len(b)
      BY <1>1
    <2> HIDE DEF q
    <2>2. /\ s \o q \in Seq(Nat) /\ Len(s \o q) = Len(s) + Len(q)
          /\ \A i \in 1 .. Len(s) + Len(q) : (s \o q)[i] = IF i <= Len(s) THEN s[i] ELSE q[i - Len(s)]
      BY <2>1, ConcatProperties
    <2> QED
      BY <2>1, <2>2 DEF q
  <1>3. Len(s) \in Nat /\ Len(b) \in Nat
    OBVIOUS
  <1>4. ASSUME NEW i \in 1 .. Len(s) + Len(b) PROVE (s \o Numbers(b))[i] = a + i
    <2>1. CASE i <= Len(s)
      <3>1. i \in 1 .. Len(s)
        BY <1>3, <2>1
      <3> QED
        BY <1>2, <2>1, <3>1 DEF Goes
    <2>2. CASE ~(i <= Len(s))
      <3>1. i - Len(s) \in 1 .. Len(b) /\ a + Len(s) + (i - Len(s)) = a + i
        BY <1>3, <2>2
      <3>2. Numbers(b)[i - Len(s)] = a + Len(s) + (i - Len(s))
        BY <1>1, <3>1
      <3> QED
        BY <1>2, <2>2, <3>1, <3>2
    <2> QED
      BY <2>1, <2>2
  <1> QED
    BY <1>2, <1>4 DEF Goes

\* A part of bytes that follow each other.
LEMMA PartOf ==
    ASSUME NEW b \in Seq(DownByte), NEW a \in Int, Numbered(b, a),
           NEW m \in Nat, NEW n \in Nat, m <= n, n <= Len(b)
    PROVE  /\ SubSeq(b, m + 1, n) \in Seq(DownByte) /\ Len(SubSeq(b, m + 1, n)) = n - m
           /\ Numbered(SubSeq(b, m + 1, n), a + m)
  <1>1. Len(b) \in Nat /\ \A i \in m + 1 .. n : b[i] \in DownByte
    OBVIOUS
  <1>2. /\ SubSeq(b, m + 1, n) \in Seq(DownByte)
        /\ Len(SubSeq(b, m + 1, n)) = IF m + 1 <= n THEN n - (m + 1) + 1 ELSE 0
        /\ \A i \in 1 .. n - (m + 1) + 1 : SubSeq(b, m + 1, n)[i] = b[m + 1 + i - 1]
    BY <1>1, SubSeqProperties
  <1>3. Len(SubSeq(b, m + 1, n)) = n - m
    BY <1>2
  <1>4. ASSUME NEW i \in 1 .. n - m PROVE SubSeq(b, m + 1, n)[i].n = a + m + i
    <2>1. m + 1 + i - 1 \in 1 .. Len(b) /\ i \in 1 .. n - (m + 1) + 1 /\ a + (m + 1 + i - 1) = a + m + i
      BY <1>1
    <2>2. b[m + 1 + i - 1].n = a + (m + 1 + i - 1)
      BY <2>1 DEF Numbered
    <2> QED
      BY <1>2, <2>1, <2>2
  <1> QED
    BY <1>2, <1>3, <1>4 DEF Numbered

\* The next byte.
LEMMA OneMore ==
    ASSUME NEW b \in Seq(DownByte), NEW a \in Int, Numbered(b, a), NEW e \in DownByte,
           e.n = a + Len(b) + 1
    PROVE  Append(b, e) \in Seq(DownByte) /\ Numbered(Append(b, e), a) /\ Len(Append(b, e)) = Len(b) + 1
  <1>1. /\ Append(b, e) \in Seq(DownByte) /\ Len(Append(b, e)) = Len(b) + 1
        /\ \A i \in 1 .. Len(b) : Append(b, e)[i] = b[i]
        /\ Append(b, e)[Len(b) + 1] = e
    BY AppendProperties
  <1>2. ASSUME NEW i \in 1 .. Len(b) + 1 PROVE Append(b, e)[i].n = a + i
    <2>1. CASE i = Len(b) + 1
      BY <1>1, <2>1
    <2>2. CASE i # Len(b) + 1
      <3>1. i \in 1 .. Len(b)
        BY <2>2
      <3> QED
        BY <1>1, <3>1 DEF Numbered
    <2> QED
      BY <2>1, <2>2
  <1> QED
    BY <1>1, <1>2 DEF Numbered

\* To take a byte is not to get one.
LEMMA TakenIsGiven ==
    ASSUME NEW g \in Seq(Nat), NEW d \in Seq(DownByte), d # <<>>
    PROVE  Append(g, Head(d).n) \o Numbers(Tail(d)) = g \o Numbers(d)
  <1> DEFINE h == Head(d)
  <1>1. /\ h \in DownByte /\ Tail(d) \in Seq(DownByte) /\ d[1] = h
        /\ Len(Tail(d)) = Len(d) - 1 /\ \A i \in 1 .. Len(Tail(d)) : Tail(d)[i] = d[i + 1]
    BY HeadTailProperties
  <1>2. h.n \in Nat
    BY <1>1 DEF DownByte
  <1>3. /\ Numbers(d) \in Seq(Nat) /\ Len(Numbers(d)) = Len(d)
        /\ \A i \in 1 .. Len(d) : Numbers(d)[i] = d[i].n
    BY NumbersFacts
  <1>4. /\ Numbers(Tail(d)) \in Seq(Nat) /\ Len(Numbers(Tail(d))) = Len(d) - 1
        /\ \A i \in 1 .. Len(d) - 1 : Numbers(Tail(d))[i] = d[i + 1].n
    BY <1>1, NumbersFacts
  <1>5. Len(d) \in Nat /\ Len(d) >= 1
    OBVIOUS
  <1>6. /\ <<h.n>> \in Seq(Nat) /\ Len(<<h.n>>) = 1 /\ <<h.n>>[1] = h.n
    BY <1>2
  <1> HIDE DEF h
  <1>7. /\ <<h.n>> \o Numbers(Tail(d)) \in Seq(Nat) /\ Len(<<h.n>> \o Numbers(Tail(d))) = Len(d)
        /\ \A i \in 1 .. Len(d) : (<<h.n>> \o Numbers(Tail(d)))[i] =
             IF i <= 1 THEN <<h.n>>[i] ELSE Numbers(Tail(d))[i - 1]
    BY <1>4, <1>5, <1>6, ConcatProperties
  <1>8. ASSUME NEW i \in 1 .. Len(d) PROVE (<<h.n>> \o Numbers(Tail(d)))[i] = Numbers(d)[i]
    <2>1. CASE i = 1
      BY <1>1, <1>3, <1>5, <1>6, <1>7, <2>1
    <2>2. CASE i # 1
      <3>1. i - 1 \in 1 .. Len(d) - 1 /\ i - 1 + 1 = i /\ ~(i <= 1)
        BY <1>5, <2>2
      <3>2. Numbers(Tail(d))[i - 1] = d[i].n
        BY <1>4, <3>1
      <3> QED
        BY <1>3, <1>7, <3>1, <3>2
    <2> QED
      BY <2>1, <2>2
  <1>9. <<h.n>> \o Numbers(Tail(d)) = Numbers(d)
    BY <1>3, <1>7, <1>8, SeqEqual
  <1>10. Append(g, h.n) = g \o <<h.n>>
    BY <1>2, AppendIsConcat
  <1>11. (g \o <<h.n>>) \o Numbers(Tail(d)) = g \o (<<h.n>> \o Numbers(Tail(d)))
    BY <1>4, <1>6, ConcatAssociative
  <1> QED
    BY <1>9, <1>10, <1>11 DEF h

----------------------------------------------------------------------------
(* What a program is given.                                                   *)

\* A program that still reads is served; what none has been served by is empty;
\* and the board's bytes come in the order they were sent.
Served(c) == fd[c] # 0 /\ TakesBytes(c)
Fresh ==
    \A c \in Ports, k \in Sessions :
        k > accepted[c] => sock[c][k].got = <<>> /\ sock[c][k].down = <<>>
Ordered ==
    \A c \in Ports :
        Numbered(OfPort(rx, c), told[c]) /\ told[c] + Len(OfPort(rx, c)) = sent[c]

\* netuart: what of its buffer is still to be written to a program.
Keeps(c) == pc = "tty cmd" \/ (pc = "tty con" /\ c = "con")
Kept(c) == IF Keeps(c) THEN Len(buf[c]) - (IF pc = TtyTo(c) THEN pos ELSE 0) ELSE 0
NetKeeps(c) ==
    /\ Keeps(c) => Numbered(buf[c], told[c] - Len(buf[c]))
    /\ pc = TtyTo(c) => pos <= Len(buf[c]) /\ (pos = 0 \/ fd[c] # 0)
NetGives(c) ==
    Served(c) =>
        /\ Goes(Delivered(c), from[c])
        /\ from[c] + Len(Delivered(c)) + Kept(c) <= told[c]
        /\ pc = "exit" \/ from[c] + Len(Delivered(c)) + Kept(c) = told[c]
NetInv == server = "netuart" => \A c \in Ports : NetKeeps(c) /\ NetGives(c)

\* The simulator's server, until it ends: what it keeps is the newest, and with
\* what it is sending it is what a program has not been given yet.
Runs == server = "dbluartsim" /\ pc \in {"tick", "cmd", "send cmd", "con", "send con"}
DblKeeps ==
    /\ Numbered(m_cmdbuf, told["cmd"] - Len(m_cmdbuf)) /\ Len(m_cmdbuf) <= told["cmd"]
    /\ m_conbuf # <<>> => m_conbuf[Len(m_conbuf)].n = told["con"]
    /\ pc = "send cmd" => m_cmdbuf = <<>> /\ Numbered(sending, told["cmd"] - Len(sending))
    /\ pc = "send con" => m_conbuf = <<>> /\ Numbered(sending, told["con"] - Len(sending))
    /\ pc \notin {"send cmd", "send con"} => sending = <<>>
Newest == IF m_conbuf = <<>> THEN 0 ELSE 1
CmdLeft == Len(m_cmdbuf) + (IF pc = "send cmd" THEN Len(sending) ELSE 0)
ConLeft == Newest + (IF pc = "send con" THEN Len(sending) ELSE 0)
CmdGives ==
    Served("cmd") => \E a \in 0 .. from["cmd"] :
        Goes(Delivered("cmd"), a) /\ a + Len(Delivered("cmd")) + CmdLeft = told["cmd"]
ConGives ==
    Served("con") =>
        /\ \E a \in {from["con"], from["con"] - 1} :
             Goes(Delivered("con"), a) /\ a + Len(Delivered("con")) + ConLeft = told["con"]
        /\ pc = "tick" /\ m_conbuf # <<>> => told["con"] = from["con"] /\ Delivered("con") = <<>>
DblInv == Runs => DblKeeps /\ CmdGives /\ ConGives

Gives == Fresh /\ Ordered /\ NetInv /\ DblInv

LEMMA ServedFacts ==
    ASSUME MarkedInv, NEW c \in Ports, fd[c] # 0
    PROVE  /\ fd[c] \in Sessions /\ Socket(sock[c][fd[c]], c)
           /\ sock[c][fd[c]].got \in Seq(Nat) /\ sock[c][fd[c]].down \in Seq(DownByte)
           /\ Delivered(c) \in Seq(Nat)
           /\ fd[c] <= accepted[c] /\ sock[c][fd[c]].peer # "none"
  <1>1. fd[c] \in Sessions /\ Socket(sock[c][fd[c]], c)
    BY DEF MarkedInv, ServedExists, There, SocketsHold
  <1>2. sock[c][fd[c]].got \in Seq(Nat) /\ sock[c][fd[c]].down \in Seq(DownByte)
    BY <1>1 DEF Socket
  <1>3. Delivered(c) \in Seq(Nat)
    BY <1>2, NumbersFacts, ConcatProperties DEF Delivered
  <1>4. fd[c] <= accepted[c] /\ sock[c][fd[c]].peer # "none"
    <2>1. fd[c] \in Nat /\ accepted[c] \in Nat /\ fd[c] <= accepted[c]
      BY DEF MarkedInv, ServedExists
    <2>2. fd[c] \in 1 .. accepted[c]
      BY <2>1
    <2>3. There(c, fd[c])
      BY <2>2 DEF MarkedInv, ServedExists
    <2> QED
      BY <2>1, <2>3 DEF There
  <1> QED
    BY <1>1, <1>2, <1>3, <1>4

\* A program that is served stays served and given the same; or it is new.
Same(c) == Served(c) /\ Delivered(c)' = Delivered(c) /\ from'[c] = from[c]
Begins(c) == Delivered(c)' = <<>> /\ from'[c] = told[c]

\* One connection changes.
Reads(s) == s.peer \in {"open", "shut"}
LEMMA OneProgram ==
    ASSUME MarkedInv, Fresh, UNCHANGED <<fd, from, accepted>>,
           NEW c \in Ports, NEW k \in Sessions, NEW r,
           sock' = [sock EXCEPT ![c] = [@ EXCEPT ![k] = r]],
           k > accepted[c] => r.got = <<>> /\ r.down = <<>>,
           fd[c] = k /\ Reads(r) =>
               /\ Reads(sock[c][k])
               /\ r.got \o Numbers(r.down) = sock[c][k].got \o Numbers(sock[c][k].down)
    PROVE  Fresh' /\ \A d \in Ports : Served(d)' => Same(d)
  <1>1. \A d \in Ports, j \in Sessions : sock'[d][j] = IF d = c /\ j = k THEN r ELSE sock[d][j]
    BY DEF MarkedInv, SocketsHold
  <1>2. Fresh'
    BY <1>1 DEF Fresh
  <1>3. ASSUME NEW d \in Ports, Served(d)' PROVE Same(d)
    <2>1. fd[d] # 0 /\ fd'[d] = fd[d] /\ from'[d] = from[d]
      BY <1>3 DEF Served
    <2>2. fd[d] \in Sessions
      BY <2>1, ServedFacts
    <2>3. CASE d = c /\ fd[d] = k
      <3>1. sock'[d][fd[d]] = r
        BY <1>1, <2>2, <2>3
      <3>2. Reads(r)
        BY <1>3, <2>1, <3>1 DEF Served, TakesBytes, Reads
      <3> QED
        BY <2>1, <2>3, <3>1, <3>2 DEF Same, Served, TakesBytes, Reads, Delivered
    <2>4. CASE ~(d = c /\ fd[d] = k)
      <3>1. sock'[d][fd[d]] = sock[d][fd[d]]
        BY <1>1, <2>2, <2>4
      <3> QED
        BY <1>3, <2>1, <3>1 DEF Same, Served, TakesBytes, Delivered
    <2> QED
      BY <2>3, <2>4
  <1> QED
    BY <1>2, <1>3

\* Nothing is given, and nothing kept changes.
LEMMA NetSame ==
    ASSUME NetInv, \A d \in Ports : Served(d)' => Same(d),
           UNCHANGED <<server, pc, fd, told, buf, pos>>
    PROVE  NetInv'
  <1> SUFFICES ASSUME server = "netuart", NEW c \in Ports PROVE (NetKeeps(c) /\ NetGives(c))'
    BY DEF NetInv
  <1>1. NetKeeps(c) /\ NetGives(c)
    BY DEF NetInv
  <1>2. NetKeeps(c)'
    BY <1>1 DEF NetKeeps, Keeps, TtyTo
  <1>3. NetGives(c)'
    BY <1>1 DEF NetGives, Same, Kept, Keeps, TtyTo
  <1> QED
    BY <1>2, <1>3

LEMMA DblSame ==
    ASSUME DblInv, \A d \in Ports : Served(d)' => Same(d),
           UNCHANGED <<server, pc, told, m_cmdbuf, m_conbuf, sending>>
    PROVE  DblInv'
  <1> SUFFICES ASSUME Runs PROVE (DblKeeps /\ CmdGives /\ ConGives)'
    BY DEF DblInv, Runs
  <1>1. DblKeeps /\ CmdGives /\ ConGives
    BY DEF DblInv
  <1>2. DblKeeps'
    BY <1>1 DEF DblKeeps
  <1>3. CmdGives' /\ ConGives'
    BY <1>1 DEF CmdGives, ConGives, CmdLeft, ConLeft, Newest, Same, Ports
  <1> QED
    BY <1>2, <1>3

LEMMA ProgramGiven ==
    ASSUME MarkedInv, Fresh, UNCHANGED fd, NEW c \in Ports,
           Connect(c) \/ \E k \in Sessions : Type(c, k) \/ Take(c, k) \/ Leave(c, k)
    PROVE  Fresh' /\ \A d \in Ports : Served(d)' => Same(d)
  <1>1. UNCHANGED <<fd, from, accepted>>
    BY DEF Connect, Type, Take, Leave
  <1>2. ASSUME NEW k \in Sessions
        PROVE  /\ Socket(sock[c][k], c) /\ sock[c][k].got \in Seq(Nat)
               /\ sock[c][k].down \in Seq(DownByte) /\ accepted[c] \in Nat
    BY DEF MarkedInv, SocketsHold, Socket, ServedExists
  <1>3. CASE Connect(c)
    <2>1. PICK k \in Sessions : sock[c][k].peer = "none" /\ sock' = [sock EXCEPT ![c][k].peer = "open"]
      BY <1>3 DEF Connect
    <2> DEFINE r == [sock[c][k] EXCEPT !.peer = "open"]
    <2>2. r.got = sock[c][k].got /\ r.down = sock[c][k].down
      BY <1>2 DEF Socket
    <2>3. sock' = [sock EXCEPT ![c] = [@ EXCEPT ![k] = r]]
      BY <2>1
    <2>4. fd[c] # k
      <3>1. k # 0 /\ (fd[c] # 0 => sock[c][fd[c]].peer # "none")
        BY ServedFacts DEF Sessions
      <3> QED
        BY <2>1, <3>1
    <2>5. k > accepted[c] => r.got = <<>> /\ r.down = <<>>
      BY <2>2 DEF Fresh
    <2> HIDE DEF r
    <2> QED
      BY <1>1, <2>3, <2>4, <2>5, OneProgram
  <1>4. ASSUME NEW k \in Sessions, Type(c, k) PROVE Fresh' /\ \A d \in Ports : Served(d)' => Same(d)
    <2>1. PICK u, n : sock' = [sock EXCEPT ![c][k].up = u, ![c][k].typed = n]
      BY <1>4 DEF Type
    <2> DEFINE r == [sock[c][k] EXCEPT !.up = u, !.typed = n]
    <2>2. r.got = sock[c][k].got /\ r.down = sock[c][k].down /\ r.peer = sock[c][k].peer
      BY <1>2 DEF Socket
    <2>3. sock' = [sock EXCEPT ![c] = [@ EXCEPT ![k] = r]]
      BY <2>1 DEF MarkedInv, SocketsHold
    <2>4. k > accepted[c] => r.got = <<>> /\ r.down = <<>>
      BY <2>2 DEF Fresh
    <2> HIDE DEF r
    <2> QED
      BY <1>1, <2>2, <2>3, <2>4, OneProgram DEF Reads
  <1>5. ASSUME NEW k \in Sessions, Take(c, k) PROVE Fresh' /\ \A d \in Ports : Served(d)' => Same(d)
    <2> DEFINE s == sock[c][k]
               r == [s EXCEPT !.got = Append(s.got, Head(s.down).n), !.down = Tail(s.down)]
    <2>1. sock' = [sock EXCEPT ![c] = [@ EXCEPT ![k] = r]]
      BY <1>5 DEF Take, MarkedInv, SocketsHold
    <2>2. /\ r.got = Append(s.got, Head(s.down).n) /\ r.down = Tail(s.down) /\ r.peer = s.peer
          /\ s.down # <<>>
      BY <1>2, <1>5 DEF Socket, Take
    <2>3. ~(k > accepted[c])
      BY <2>2 DEF Fresh
    <2>4. r.got \o Numbers(r.down) = s.got \o Numbers(s.down)
      <3>1. s.got \in Seq(Nat) /\ s.down \in Seq(DownByte)
        BY <1>2
      <3> QED
        BY <2>2, <3>1, TakenIsGiven
    <2> HIDE DEF r
    <2> QED
      BY <1>1, <2>1, <2>2, <2>3, <2>4, OneProgram DEF Reads
  <1>6. ASSUME NEW k \in Sessions, Leave(c, k) PROVE Fresh' /\ \A d \in Ports : Served(d)' => Same(d)
    <2> DEFINE s == sock[c][k]
    <2>1. PICK p \in {"shut", "closed", "reset"} :
            \/ sock' = [sock EXCEPT ![c][k].peer = p]
            \/ /\ p \notin {"open", "shut"}
               /\ sock' = [sock EXCEPT ![c][k].peer = p, ![c][k].down = <<>>, ![c][k].got = <<>>]
      BY <1>6 DEF Leave
    <2>2. s.peer \in {"open", "shut"}
      BY <1>6 DEF Leave
    <2>3. PICK r : /\ sock' = [sock EXCEPT ![c] = [@ EXCEPT ![k] = r]]
                   /\ \/ r.got = s.got /\ r.down = s.down
                      \/ r.got = <<>> /\ r.down = <<>> /\ ~Reads(r)
      <3>1. CASE sock' = [sock EXCEPT ![c][k].peer = p]
        <4> DEFINE r == [s EXCEPT !.peer = p]
        <4>1. r.got = s.got /\ r.down = s.down
          BY <1>2 DEF Socket
        <4>2. sock' = [sock EXCEPT ![c] = [@ EXCEPT ![k] = r]]
          BY <3>1
        <4> QED
          BY <4>1, <4>2
      <3>2. CASE /\ p \notin {"open", "shut"}
                 /\ sock' = [sock EXCEPT ![c][k].peer = p, ![c][k].down = <<>>, ![c][k].got = <<>>]
        <4> DEFINE r == [s EXCEPT !.peer = p, !.down = <<>>, !.got = <<>>]
        <4>1. r.got = <<>> /\ r.down = <<>> /\ r.peer = p
          BY <1>2 DEF Socket
        <4>2. sock' = [sock EXCEPT ![c] = [@ EXCEPT ![k] = r]]
          BY <3>2 DEF MarkedInv, SocketsHold
        <4> QED
          BY <3>2, <4>1, <4>2 DEF Reads
      <3> QED
        BY <2>1, <3>1, <3>2
    <2>4. k > accepted[c] => r.got = <<>> /\ r.down = <<>>
      BY <2>3 DEF Fresh
    <2> QED
      BY <1>1, <2>2, <2>3, <2>4, OneProgram DEF Reads
  <1> QED
    BY <1>3, <1>4, <1>5, <1>6

LEMMA ClientsGive ==
    ASSUME MarkedInv, Gives, Around, NEW c \in Ports,
           Connect(c) \/ \E k \in Sessions : Type(c, k) \/ Take(c, k) \/ Leave(c, k)
    PROVE  Gives'
  <1>1. UNCHANGED <<fd, told, rx, sent, server, pc, buf, pos, m_cmdbuf, m_conbuf, sending>>
    BY DEF Connect, Type, Take, Leave, lineVars, Around, netuartVars, dbluartVars
  <1>2. Fresh' /\ \A d \in Ports : Served(d)' => Same(d)
    BY <1>1, ProgramGiven DEF Gives
  <1>3. Ordered'
    BY <1>1 DEF Gives, Ordered
  <1>4. NetInv' /\ DblInv'
    BY <1>1, <1>2, NetSame, DblSame DEF Gives
  <1> QED
    BY <1>2, <1>3, <1>4 DEF Gives

LEMMA BoardGives ==
    ASSUME MarkedInv, Gives, Around, (\E c \in Ports : DeviceSends(c)) \/ DeviceTakes \/ Unplug
    PROVE  Gives'
  <1>1. UNCHANGED <<fd, told, sock, accepted, from, server, pc, buf, pos, m_cmdbuf, m_conbuf, sending>>
    BY DEF DeviceSends, DeviceTakes, Unplug, clientVars, Around, netuartVars, dbluartVars
  <1>2. Fresh' /\ \A d \in Ports : Served(d)' => Same(d)
    BY <1>1 DEF Gives, Fresh, Served, TakesBytes, Same, Delivered
  <1>3. Ordered'
    <2>1. CASE DeviceTakes \/ Unplug
      <3>1. UNCHANGED <<rx, sent>>
        BY <2>1 DEF DeviceTakes, Unplug
      <3> QED
        BY <1>1, <3>1 DEF Gives, Ordered
    <2>2. ASSUME NEW c \in Ports, DeviceSends(c) PROVE Ordered'
      <3>1. PICK nl \in BOOLEAN : rx' = Append(rx, [c |-> c, n |-> sent[c] + 1, nl |-> nl])
        <4>1. {FALSE, c = "cmd"} \subseteq BOOLEAN
          BY Zenon
        <4> QED
          BY <2>2, <4>1, Zenon DEF DeviceSends
      <3> DEFINE b == [c |-> c, n |-> sent[c] + 1, nl |-> nl]
      <3>2. sent' = [sent EXCEPT ![c] = @ + 1]
        BY <2>2 DEF DeviceSends
      <3>3. sent \in [Ports -> Nat] /\ told \in [Ports -> Nat] /\ rx \in Seq(DownByte)
        BY DEF MarkedInv, LineHolds
      <3>4. b \in DownByte /\ b.c = c /\ b.n = sent[c] + 1 /\ rx' = Append(rx, b)
        <4>1. sent[c] + 1 \in Nat
          BY <3>3
        <4> QED
          BY <3>1, <4>1 DEF DownByte
      <3> HIDE DEF b
      <3>5. ASSUME NEW d \in Ports
            PROVE  (Numbered(OfPort(rx, d), told[d]) /\ told[d] + Len(OfPort(rx, d)) = sent[d])'
        <4>1. /\ Numbered(OfPort(rx, d), told[d]) /\ told[d] + Len(OfPort(rx, d)) = sent[d]
              /\ OfPort(rx, d) \in Seq(DownByte) /\ told[d] \in Nat /\ told'[d] = told[d]
          BY <1>1, <3>3, OfPortSeq DEF Gives, Ordered
        <4>2. OfPort(rx', d) = IF b.c = d THEN Append(OfPort(rx, d), b) ELSE OfPort(rx, d)
          BY <3>3, <3>4, OfPortAppend
        <4>3. CASE d # c
          BY <3>2, <3>3, <3>4, <4>1, <4>2, <4>3
        <4>4. CASE d = c
          <5> DEFINE o == OfPort(rx, d)
                     t == told[d]
          <5>1. o \in Seq(DownByte) /\ t \in Nat /\ Numbered(o, t) /\ t + Len(o) = sent[d]
            BY <4>1
          <5> HIDE DEF o, t
          <5>2. b.n = t + Len(o) + 1 /\ t \in Int
            BY <3>4, <4>4, <5>1
          <5>3. Numbered(Append(o, b), t) /\ Len(Append(o, b)) = Len(o) + 1
            BY <3>4, <5>1, <5>2, OneMore
          <5>4. OfPort(rx', d) = Append(o, b) /\ told'[d] = t /\ sent'[d] = sent[d] + 1
            BY <3>2, <3>3, <3>4, <4>1, <4>2, <4>4 DEF o, t
          <5>5. t + Len(Append(o, b)) = sent[d] + 1
            BY <5>1, <5>3
          <5> QED
            BY <5>3, <5>4, <5>5
        <4> QED
          BY <4>3, <4>4
      <3> QED
        BY <3>5 DEF Ordered
    <2> QED
      BY <2>1, <2>2
  <1>4. NetInv' /\ DblInv'
    BY <1>1, <1>2, NetSame, DblSame DEF Gives
  <1> QED
    BY <1>2, <1>3, <1>4 DEF Gives

----------------------------------------------------------------------------
(* netuart gives what it has read, and drops it only if there is no program.  *)

\* A step that gives nothing, or begins with a program.
LEMMA NetIdle ==
    ASSUME MarkedInv, NetInv, UNCHANGED <<server, told>>,
           \A d \in Ports : ~Keeps(d) /\ ~Keeps(d)' /\ pc # TtyTo(d) /\ pc' # TtyTo(d),
           pc # "exit",
           \A d \in Ports : Served(d)' => Same(d) \/ Begins(d)
    PROVE  NetInv'
  <1> SUFFICES ASSUME server = "netuart", NEW c \in Ports PROVE (NetKeeps(c) /\ NetGives(c))'
    BY DEF NetInv
  <1>1. NetKeeps(c) /\ NetGives(c) /\ Kept(c) = 0 /\ Kept(c)' = 0
    BY DEF NetInv, Kept
  <1>2. NetKeeps(c)'
    BY DEF NetKeeps, TtyTo
  <1>3. NetGives(c)'
    <2> SUFFICES ASSUME Served(c)'
                 PROVE  Goes(Delivered(c)', from'[c]) /\ from'[c] + Len(Delivered(c)') + 0 = told[c]
      <3>1. told[c] <= told[c]
        BY DEF MarkedInv, LineHolds
      <3> QED
        BY <1>1, <3>1 DEF NetGives
    <2>1. CASE Same(c)
      BY <1>1, <2>1 DEF Same, NetGives
    <2>2. CASE Begins(c)
      BY <2>2 DEF Begins, Goes, MarkedInv, LineHolds
    <2> QED
      BY <2>1, <2>2
  <1> QED
    BY <1>2, <1>3

\* A program that is accepted has been given nothing.
LEMMA Accepts ==
    ASSUME MarkedInv, Fresh, NEW c \in Ports, Accept(c), sock' = sock, fd[c] = 0, There(c, accepted[c] + 1)
    PROVE  Fresh' /\ Begins(c) /\ \A d \in Ports : d # c /\ Served(d)' => Same(d)
  <1>1. /\ accepted' = [accepted EXCEPT ![c] = @ + 1] /\ fd' = [fd EXCEPT ![c] = accepted[c] + 1]
        /\ from' = [from EXCEPT ![c] = told[c]]
    BY DEF Accept
  <1>2. accepted \in [Ports -> Nat] /\ fd \in [Ports -> Nat] /\ from \in [Ports -> Nat]
    BY DEF MarkedInv, ServedExists, LineHolds
  <1>3. ASSUME NEW d \in Ports, NEW k \in Sessions, k > accepted'[d]
        PROVE  sock[d][k].got = <<>> /\ sock[d][k].down = <<>>
    <2>1. accepted[d] \in Nat /\ accepted'[d] \in {accepted[d], accepted[d] + 1} /\ k \in Nat
      BY <1>1, <1>2 DEF Sessions
    <2>2. k > accepted[d]
      BY <1>3, <2>1
    <2> QED
      BY <2>2 DEF Fresh
  <1>4. Fresh'
    BY <1>3 DEF Fresh
  <1>5. Begins(c)
    <2>1. sock[c][accepted[c] + 1].got = <<>> /\ sock[c][accepted[c] + 1].down = <<>>
      BY <1>2 DEF Fresh, There
    <2>2. fd'[c] = accepted[c] + 1 /\ from'[c] = told[c]
      BY <1>1, <1>2
    <2>3. Numbers(<<>>) = <<>> /\ <<>> \o <<>> = <<>>
      BY DEF Numbers
    <2> QED
      BY <2>1, <2>2, <2>3 DEF Begins, Delivered
  <1>6. \A d \in Ports : d # c /\ Served(d)' => Same(d)
    BY <1>1, <1>2 DEF Served, TakesBytes, Same, Delivered
  <1> QED
    BY <1>4, <1>5, <1>6

LEMMA NetLooks ==
    ASSUME MarkedInv, Gives, Netuart,
           \/ Poll \/ PollGone \/ TtyRead \/ WriteTtyGone
           \/ \E c \in Ports : AcceptPort(c) \/ ReadPort(c) \/ ReadNothing(c) \/ WriteTty(c)
    PROVE  Gives'
  <1>1. /\ UNCHANGED <<server, told, rx, sent>> /\ server = "netuart"
        /\ pc \in {"poll", "tty", "cmd", "con", "cmd tty", "con tty"}
        /\ pc' \in {"poll", "tty", "cmd", "con", "cmd tty", "con tty", "exit"}
    <2>1. UNCHANGED <<server, told, rx, sent>> /\ server = "netuart"
      BY DEF Poll, PollGone, TtyRead, WriteTtyGone, AcceptPort, ReadPort, ReadNothing, WriteTty,
             Netuart, lineVars
    <2>2. CASE Poll \/ PollGone \/ TtyRead \/ WriteTtyGone
      BY <2>1, <2>2 DEF Poll, PollGone, TtyRead, WriteTtyGone, Goto, AfterTty, AfterPort
    <2>3. ASSUME NEW c \in Ports, AcceptPort(c) \/ ReadPort(c) \/ ReadNothing(c)
          PROVE  /\ pc \in {"poll", "tty", "cmd", "con", "cmd tty", "con tty"}
                 /\ pc' \in {"poll", "tty", "cmd", "con", "cmd tty", "con tty", "exit"}
      BY <2>3 DEF AcceptPort, ReadPort, ReadNothing, Goto, AfterPort, ToTty, Ports
    <2>4. ASSUME NEW c \in Ports, WriteTty(c)
          PROVE  /\ pc \in {"poll", "tty", "cmd", "con", "cmd tty", "con tty"}
                 /\ pc' \in {"poll", "tty", "cmd", "con", "cmd tty", "con tty", "exit"}
      BY <2>4 DEF WriteTty, AfterPort, ToTty, Ports
    <2> QED
      BY <2>1, <2>2, <2>3, <2>4
  <1>2. \A d \in Ports : ~Keeps(d) /\ ~Keeps(d)' /\ pc # TtyTo(d) /\ pc' # TtyTo(d)
    BY <1>1 DEF Keeps, TtyTo
  <1>3. Fresh' /\ \A d \in Ports : Served(d)' => Same(d) \/ Begins(d)
    <2>1. CASE Poll \/ PollGone \/ TtyRead \/ WriteTtyGone \/ \E c \in Ports : WriteTty(c)
      <3>1. UNCHANGED <<sock, fd, from, accepted>>
        BY <2>1 DEF Poll, PollGone, TtyRead, WriteTtyGone, WriteTty, clientVars
      <3> QED
        BY <3>1 DEF Gives, Fresh, Served, TakesBytes, Same, Delivered
    <2>2. ASSUME NEW c \in Ports, AcceptPort(c)
          PROVE  Fresh' /\ \A d \in Ports : Served(d)' => Same(d) \/ Begins(d)
      <3>1. Accept(c) /\ sock' = sock /\ fd[c] = 0 /\ pc = c /\ revents[c]
        <4>1. Accept(c) /\ sock' = sock /\ fd[c] = 0 /\ pc = c
          BY <2>2 DEF AcceptPort, Goto
        <4> QED
          BY <1>1, <2>2, <4>1 DEF AcceptPort, MarkedInv, ServedExists
      <3>2. There(c, accepted[c] + 1)
        BY <1>1, <3>1 DEF MarkedInv, ServedExists, Ahead, Ports
      <3>3. Fresh' /\ Begins(c) /\ \A d \in Ports : d # c /\ Served(d)' => Same(d)
        BY <3>1, <3>2, Accepts DEF Gives
      <3> QED
        BY <3>3
    <2>3. ASSUME NEW c \in Ports, ReadPort(c)
          PROVE  Fresh' /\ \A d \in Ports : Served(d)' => Same(d) \/ Begins(d)
      <3> DEFINE s == sock[c][fd[c]]
                 r == [s EXCEPT !.up = <<>>]
      <3>1. /\ UNCHANGED <<fd, accepted, from>> /\ fd[c] # 0
            /\ sock' = [sock EXCEPT ![c] = [@ EXCEPT ![fd[c]] = r]]
        BY <2>3 DEF ReadPort
      <3>2. fd[c] \in Sessions /\ Socket(s, c) /\ fd[c] <= accepted[c]
        BY <3>1, ServedFacts
      <3>3. r.got = s.got /\ r.down = s.down /\ r.peer = s.peer
        BY <3>2 DEF Socket
      <3>4. ~(fd[c] > accepted[c])
        BY <3>2 DEF MarkedInv, ServedExists
      <3> HIDE DEF r
      <3> QED
        BY <3>1, <3>2, <3>3, <3>4, OneProgram DEF Gives, Reads
    <2>4. ASSUME NEW c \in Ports, ReadNothing(c)
          PROVE  Fresh' /\ \A d \in Ports : Served(d)' => Same(d) \/ Begins(d)
      <3>1. /\ fd[c] # 0 /\ UNCHANGED <<accepted, from>>
            /\ \/ sock' = [sock EXCEPT ![c][fd[c]].peer = "dead"] /\ fd' = fd
               \/ sock' = sock /\ fd' = [fd EXCEPT ![c] = 0]
        BY <2>4 DEF ReadNothing
      <3>2. CASE sock' = [sock EXCEPT ![c][fd[c]].peer = "dead"] /\ fd' = fd
        <4> DEFINE s == sock[c][fd[c]]
                   r == [s EXCEPT !.peer = "dead"]
        <4>1. sock' = [sock EXCEPT ![c] = [@ EXCEPT ![fd[c]] = r]]
          BY <3>2
        <4>2. fd[c] \in Sessions /\ Socket(s, c) /\ fd[c] <= accepted[c]
          BY <3>1, ServedFacts
        <4>3. r.got = s.got /\ r.down = s.down /\ r.peer = "dead"
          BY <4>2 DEF Socket
        <4>4. ~(fd[c] > accepted[c])
          BY <4>2 DEF MarkedInv, ServedExists
        <4> HIDE DEF r
        <4>5. ~Reads(r) /\ UNCHANGED <<fd, from, accepted>> /\ Fresh
          BY <3>1, <3>2, <4>3 DEF Reads, Gives
        <4>6. Fresh' /\ \A d \in Ports : Served(d)' => Same(d)
          BY <4>1, <4>2, <4>4, <4>5, OneProgram
        <4> QED
          BY <4>6
      <3>3. CASE sock' = sock /\ fd' = [fd EXCEPT ![c] = 0]
        <4>1. Fresh'
          BY <3>1, <3>3 DEF Gives, Fresh
        <4>2. ASSUME NEW d \in Ports, Served(d)' PROVE Same(d)
          <5>1. fd'[d] # 0 /\ fd \in [Ports -> Nat]
            BY <4>2 DEF Served, MarkedInv, ServedExists
          <5>2. fd'[d] = fd[d]
            BY <3>3, <5>1
          <5> QED
            BY <3>1, <3>3, <4>2, <5>2 DEF Served, TakesBytes, Same, Delivered
        <4> QED
          BY <4>1, <4>2
      <3> QED
        BY <3>1, <3>2, <3>3
    <2> QED
      BY <2>1, <2>2, <2>3, <2>4
  <1>4. Ordered'
    BY <1>1 DEF Gives, Ordered
  <1>5. NetInv'
    <2>1. pc # "exit"
      BY <1>1
    <2> QED
      BY <1>1, <1>2, <1>3, <2>1, NetIdle DEF Gives
  <1>6. DblInv'
    BY <1>1 DEF DblInv, Runs
  <1> QED
    BY <1>3, <1>4, <1>5, <1>6 DEF Gives

LEMMA ReadTtyGives ==
    ASSUME MarkedInv, Gives, Netuart, ReadTty
    PROVE  Gives'
  <1>1. /\ pos' = 0 /\ rx' = <<>> /\ pc = "tty" /\ pc' = "tty cmd"
        /\ buf' = [f \in DOMAIN buf |-> OfPort(rx, f)]
        /\ told' = [c \in Ports |-> told[c] + Len(buf'[c])]
        /\ UNCHANGED <<server, sock, accepted, from, fd, sent>> /\ server = "netuart"
    BY DEF ReadTty, Goto, Netuart, clientVars
  <1>2. ASSUME NEW c \in Ports
        PROVE  /\ buf'[c] = OfPort(rx, c) /\ buf'[c] \in Seq(DownByte) /\ Len(buf'[c]) \in Nat
               /\ told[c] \in Nat /\ told'[c] = told[c] + Len(buf'[c])
               /\ Numbered(buf'[c], told[c]) /\ told'[c] = sent[c]
    <2>1. buf'[c] = OfPort(rx, c) /\ told'[c] = told[c] + Len(buf'[c])
      BY <1>1 DEF MarkedInv, BufsHold, Ports
    <2>2. OfPort(rx, c) \in Seq(DownByte)
      BY OfPortSeq DEF MarkedInv, LineHolds
    <2>3. Len(OfPort(rx, c)) \in Nat
      BY <2>2
    <2>4. told[c] \in Nat
      BY DEF MarkedInv, LineHolds
    <2> QED
      BY <2>1, <2>2, <2>3, <2>4 DEF Gives, Ordered
  <1>3. Fresh'
    BY <1>1 DEF Gives, Fresh
  <1>4. Ordered'
    <2> SUFFICES ASSUME NEW c \in Ports
                 PROVE  Numbered(OfPort(rx', c), told'[c]) /\ told'[c] + Len(OfPort(rx', c)) = sent'[c]
      BY DEF Ordered
    <2>1. OfPort(rx', c) = <<>>
      BY <1>1, OfPortEmpty
    <2>2. Len(<<>>) = 0 /\ told'[c] + 0 = sent'[c]
      <3>1. told'[c] = sent[c] /\ sent[c] \in Nat
        BY <1>2 DEF MarkedInv, LineHolds
      <3>2. told'[c] + 0 = sent[c]
        BY <3>1
      <3> QED
        BY <1>1, <3>2
    <2>3. Numbered(<<>>, told'[c])
      BY DEF Numbered
    <2> QED
      BY <2>1, <2>2, <2>3
  <1>5. NetInv'
    <2> SUFFICES ASSUME NEW c \in Ports PROVE (NetKeeps(c) /\ NetGives(c))'
      BY DEF NetInv
    <2>1. Kept(c) = 0 /\ NetGives(c)
      BY <1>1 DEF Gives, NetInv, Kept, Keeps
    <2>2. Kept(c)' = Len(buf'[c])
      <3>1. Keeps(c)' /\ (pc' = TtyTo(c) => pos' = 0)
        BY <1>1 DEF Keeps
      <3>2. Kept(c)' = Len(buf'[c]) - 0
        BY <1>1, <3>1 DEF Kept, TtyTo
      <3> QED
        BY <1>2, <3>2
    <2>3. NetKeeps(c)'
      <3> DEFINE n == Len(buf'[c])
                 t == told[c]
      <3>1. n \in Nat /\ t \in Nat /\ told'[c] = t + n /\ Numbered(buf'[c], t) /\ pos' = 0
        BY <1>1, <1>2
      <3> HIDE DEF n, t
      <3>2. told'[c] - n = t /\ pos' <= n
        BY <3>1
      <3> QED
        BY <3>1, <3>2 DEF NetKeeps, n
    <2>4. NetGives(c)'
      <3> SUFFICES ASSUME Served(c)'
                   PROVE  /\ Goes(Delivered(c)', from[c])
                          /\ from[c] + Len(Delivered(c)') + Kept(c)' = told'[c]
        <4>1. told'[c] \in Nat /\ from'[c] = from[c]
          <5>1. told'[c] = sent[c] /\ sent[c] \in Nat
            BY <1>2 DEF MarkedInv, LineHolds
          <5>2. from' = from
            BY <1>1
          <5> QED
            BY <5>1, <5>2
        <4>2. told'[c] <= told'[c]
          BY <4>1
        <4> QED
          BY <4>1, <4>2 DEF NetGives
      <3>1. Served(c) /\ Delivered(c)' = Delivered(c)
        BY <1>1 DEF Served, TakesBytes, Delivered
      <3>2. Goes(Delivered(c), from[c]) /\ from[c] + Len(Delivered(c)) + 0 = told[c]
        BY <1>1, <2>1, <3>1 DEF NetGives
      <3>3. Delivered(c) \in Seq(Nat) /\ from[c] \in Nat
        BY <3>1, ServedFacts DEF Served, MarkedInv, LineHolds
      <3>4. Len(Delivered(c)) \in Nat
        BY <3>3
      <3> DEFINE l == Len(Delivered(c))
                 n == Len(buf'[c])
                 f == from[c]
                 t == told[c]
      <3>5. l \in Nat /\ n \in Nat /\ f \in Nat /\ t \in Nat /\ f + l + 0 = t /\ told'[c] = t + n
        BY <1>2, <3>2, <3>3, <3>4
      <3> HIDE DEF l, n, f, t
      <3>6. f + l + n = told'[c]
        BY <3>5
      <3> QED
        BY <2>2, <3>1, <3>2, <3>6 DEF l, n, f
    <2> QED
      BY <2>3, <2>4
  <1>6. DblInv'
    BY <1>1 DEF DblInv, Runs
  <1> QED
    BY <1>3, <1>4, <1>5, <1>6 DEF Gives

LEMMA Associates ==
    ASSUME NEW g \in Seq(Nat), NEW p \in Seq(Nat), NEW q \in Seq(Nat)
    PROVE  (g \o p) \o q = g \o (p \o q)
  <1> DEFINE S == Nat
  <1>1. g \in Seq(S) /\ p \in Seq(S) /\ q \in Seq(S)
    OBVIOUS
  <1> HIDE DEF S
  <1> QED
    BY <1>1, ConcatAssociative

\* What a program that is served gets of a write.
LEMMA SentTo ==
    ASSUME MarkedInv, Fresh, UNCHANGED <<fd, from, accepted>>, NEW c \in Ports, fd[c] # 0,
           NEW bytes \in Seq(DownByte), sock' = AfterSend(c, bytes)
    PROVE  /\ Fresh' /\ \A d \in Ports : d # c /\ Served(d)' => Same(d)
           /\ Served(c)' => Served(c) /\ Delivered(c)' = Delivered(c) \o Numbers(bytes)
  <1> DEFINE s == sock[c][fd[c]]
             r == IF TakesBytes(c) THEN [s EXCEPT !.down = s.down \o bytes] ELSE [s EXCEPT !.peer = "reset"]
  <1>1. /\ fd[c] \in Sessions /\ Socket(s, c) /\ fd[c] <= accepted[c]
        /\ s.got \in Seq(Nat) /\ s.down \in Seq(DownByte)
    BY ServedFacts
  <1>2. sock' = [sock EXCEPT ![c] = [@ EXCEPT ![fd[c]] = r]]
    BY DEF AfterSend
  <1>3. \A d \in Ports, j \in Sessions : sock'[d][j] = IF d = c /\ j = fd[c] THEN r ELSE sock[d][j]
    BY <1>1, <1>2 DEF MarkedInv, SocketsHold
  <1>4. Fresh'
    <2>1. ~(fd[c] > accepted[c])
      BY <1>1 DEF MarkedInv, ServedExists
    <2> HIDE DEF r
    <2> QED
      BY <1>3, <2>1 DEF Fresh
  <1>5. ASSUME NEW d \in Ports, d # c, Served(d)' PROVE Same(d)
    <2>1. fd[d] # 0
      BY <1>5 DEF Served
    <2>2. fd[d] \in Sessions
      BY <2>1, ServedFacts
    <2>3. sock'[d][fd[d]] = sock[d][fd[d]]
      BY <1>3, <1>5, <2>2
    <2> QED
      BY <1>5, <2>1, <2>3 DEF Same, Served, TakesBytes, Delivered
  <1>6. ASSUME Served(c)' PROVE Served(c) /\ Delivered(c)' = Delivered(c) \o Numbers(bytes)
    <2>1. sock'[c][fd[c]] = r /\ fd' = fd
      BY <1>1, <1>3
    <2>2. r.peer \in {"open", "shut"}
      BY <1>6, <2>1 DEF Served, TakesBytes
    <2>3. TakesBytes(c)
      BY <1>1, <2>2 DEF Socket
    <2>4. r.got = s.got /\ r.down = s.down \o bytes
      BY <1>1, <2>3 DEF Socket
    <2>5. Delivered(c)' = s.got \o Numbers(s.down \o bytes)
      BY <2>1, <2>4 DEF Delivered
    <2>6. Numbers(s.down \o bytes) = Numbers(s.down) \o Numbers(bytes)
      BY <1>1, NumbersConcat
    <2>7. Numbers(s.down) \in Seq(Nat) /\ Numbers(bytes) \in Seq(Nat)
      BY <1>1, NumbersFacts
    <2>8. s.got \o (Numbers(s.down) \o Numbers(bytes)) = (s.got \o Numbers(s.down)) \o Numbers(bytes)
      <3> DEFINE g == s.got
                 p == Numbers(s.down)
                 q == Numbers(bytes)
      <3>1. g \in Seq(Nat) /\ p \in Seq(Nat) /\ q \in Seq(Nat)
        BY <1>1, <2>7
      <3> HIDE DEF g, p, q
      <3>2. (g \o p) \o q = g \o (p \o q)
        BY <3>1, Associates
      <3> QED
        BY <3>2 DEF g, p, q
    <2> QED
      BY <2>3, <2>5, <2>6, <2>8 DEF Served, Delivered
  <1> QED
    BY <1>4, <1>5, <1>6

\* The other port, while one is written to.
LEMMA TwoWays == \A c \in Ports, d \in Ports : d # c => TtyTo(d) # TtyTo(c)
  <1>1. TtyTo("cmd") = "tty cmd" /\ TtyTo("con") = "tty con"
    BY DEF TtyTo
  <1>2. TtyTo("cmd") # TtyTo("con")
    BY <1>1
  <1>3. \A c \in Ports : c = "cmd" \/ c = "con"
    BY DEF Ports
  <1> QED
    BY <1>2, <1>3

LEMMA OtherKept ==
    ASSUME NEW c \in Ports, NEW d \in Ports, d # c, pc = TtyTo(c),
           pc' = pc \/ (pc' = AfterClient(c) /\ pos' = 0),
           buf'[d] = buf[d], told' = told, fd' = fd, buf[d] \in Seq(DownByte), NetKeeps(d)
    PROVE  NetKeeps(d)' /\ Kept(d)' = Kept(d)
  <1>1. Len(buf[d]) \in Nat
    OBVIOUS
  <1>2. CASE c = "cmd" /\ d = "con"
    <2>1. pc = "tty cmd" /\ (pc' = "tty cmd" \/ (pc' = "tty con" /\ pos' = 0))
      BY <1>2 DEF TtyTo, AfterClient
    <2>2. Kept(d) = Len(buf[d]) - 0
      BY <1>2, <2>1 DEF Kept, Keeps, TtyTo
    <2>3. Kept(d)' = Len(buf[d]) - 0
      BY <1>2, <2>1 DEF Kept, Keeps, TtyTo
    <2>4. NetKeeps(d)'
      <3>1. Numbered(buf[d], told[d] - Len(buf[d]))
        BY <1>2, <2>1 DEF NetKeeps, Keeps
      <3>2. Numbered(buf[d], told[d] - Len(buf[d]))'
        <4>1. buf'[d] = buf[d] /\ told'[d] = told[d]
          OBVIOUS
        <4> QED
          BY <3>1, <4>1
      <3>3. (pc = TtyTo(d) => pos <= Len(buf[d]) /\ (pos = 0 \/ fd[d] # 0))'
        <4>1. pc' = TtyTo(d) => pos' = 0
          BY <1>2, <2>1 DEF TtyTo
        <4>2. Len(buf'[d]) \in Nat
          BY <1>1
        <4>3. pc' = TtyTo(d) => pos' <= Len(buf'[d]) /\ (pos' = 0 \/ fd'[d] # 0)
          BY <4>1, <4>2
        <4>4. TtyTo(d)' = TtyTo(d)
          BY DEF TtyTo
        <4> QED
          BY <4>3, <4>4
      <3> QED
        BY <3>2, <3>3 DEF NetKeeps
    <2> QED
      BY <2>2, <2>3, <2>4
  <1>3. CASE c = "con" /\ d = "cmd"
    <2>1. pc = "tty con" /\ pc' \in {"tty con", "tty"}
      BY <1>3 DEF TtyTo, AfterClient
    <2> QED
      BY <1>3, <2>1 DEF NetKeeps, Kept, Keeps, TtyTo
  <1> QED
    BY <1>2, <1>3 DEF Ports

LEMMA SkipClientGives ==
    ASSUME MarkedInv, Gives, Netuart, NEW c \in Ports, SkipClient(c)
    PROVE  Gives'
  <1>1. /\ pc = TtyTo(c) /\ pc' = AfterClient(c) /\ (fd[c] = 0 \/ buf[c] = <<>>)
        /\ buf' = [buf EXCEPT ![c] = <<>>] /\ pos' = pos
        /\ UNCHANGED <<server, sock, fd, accepted, from, told, rx, sent>> /\ server = "netuart"
    BY DEF SkipClient, Goto, Netuart, clientVars, lineVars
  <1>2. Fresh' /\ Ordered' /\ DblInv'
    BY <1>1 DEF Gives, Fresh, Ordered, DblInv, Runs
  <1>3. \A d \in Ports : NetKeeps(d) /\ NetGives(d) /\ buf[d] \in Seq(DownByte)
    BY <1>1 DEF Gives, NetInv, MarkedInv, BufsHold, Ports
  <1>4. pos = 0
    <2>1. pos <= Len(buf[c]) /\ (pos = 0 \/ fd[c] # 0) /\ pos \in Nat
      BY <1>1, <1>3 DEF NetKeeps, MarkedInv, BufsHold
    <2>2. fd[c] # 0 => Len(buf[c]) = 0
      BY <1>1
    <2> QED
      BY <2>1, <2>2
  <1>5. pc # "exit" /\ pc' # "exit"
    BY <1>1 DEF TtyTo, AfterClient
  <1>6. ASSUME NEW d \in Ports PROVE (NetKeeps(d) /\ NetGives(d))'
    <2>1. NetKeeps(d)' /\ (Served(d) => Kept(d)' = Kept(d))
      <3>1. CASE d = c
        <4>1. ~Keeps(c)' /\ pc' # TtyTo(c)
          BY <1>1 DEF Keeps, TtyTo, AfterClient, Ports
        <4>2. NetKeeps(c)' /\ Kept(c)' = 0
          BY <4>1 DEF NetKeeps, Kept, TtyTo, Keeps
        <4>3. Served(c) => Kept(c) = 0
          <5>1. Served(c) => Len(buf[c]) = 0
            BY <1>1 DEF Served
          <5> QED
            BY <1>4, <5>1 DEF Kept
        <4> QED
          BY <3>1, <4>2, <4>3
      <3>2. CASE d # c
        <4>1. buf'[d] = buf[d]
          BY <1>1, <3>2
        <4>2. NetKeeps(d)' /\ Kept(d)' = Kept(d)
          BY <1>1, <1>3, <1>4, <3>2, <4>1, OtherKept
        <4> QED
          BY <4>2
      <3> QED
        BY <3>1, <3>2
    <2>2. NetGives(d)'
      <3>1. Served(d)' <=> Served(d)
        BY <1>1 DEF Served, TakesBytes
      <3>2. Delivered(d)' = Delivered(d)
        BY <1>1 DEF Delivered
      <3> QED
        BY <1>1, <1>3, <1>5, <2>1, <3>1, <3>2 DEF NetGives
    <2> QED
      BY <2>1, <2>2
  <1> QED
    BY <1>2, <1>6 DEF Gives, NetInv

LEMMA WriteFailsGives ==
    ASSUME MarkedInv, Gives, Netuart, NEW c \in Ports, WriteFails(c)
    PROVE  Gives'
  <1>1. /\ pc = TtyTo(c) /\ pc' = "exit" /\ Refuses(c)
        /\ UNCHANGED <<server, sock, fd, accepted, from, told, rx, sent, buf, pos>> /\ server = "netuart"
    BY DEF WriteFails, Goto, Netuart, clientVars, lineVars, netuartVars
  <1>2. Fresh' /\ Ordered' /\ DblInv'
    BY <1>1 DEF Gives, Fresh, Ordered, DblInv, Runs
  <1>3. ASSUME NEW d \in Ports PROVE (NetKeeps(d) /\ NetGives(d))'
    <2>1. NetGives(d) /\ NetKeeps(d)
      BY <1>1 DEF Gives, NetInv
    <2>2. NetKeeps(d)' /\ Kept(d)' = 0
      BY <1>1 DEF NetKeeps, Kept, Keeps, TtyTo
    <2>3. NetGives(d)'
      <3> SUFFICES ASSUME Served(d)' PROVE NetGives(d)'
        BY DEF NetGives
      <3>1. Served(d) /\ Delivered(d)' = Delivered(d) /\ from' = from /\ told' = told /\ fd[d] # 0
        BY <1>1 DEF Served, TakesBytes, Delivered
      <3>2. d # c
        BY <1>1, <3>1 DEF Served, TakesBytes, Refuses
      <3>3. Kept(d) \in Nat
        <4>1. buf[d] \in Seq(DownByte)
          BY DEF MarkedInv, BufsHold, Ports
        <4>2. Kept(d) \in {0, Len(buf[d]) - 0} /\ Len(buf[d]) \in Nat
          <5>1. Len(buf[d]) \in Nat
            BY <4>1
          <5>2. pc # TtyTo(d)
            BY <1>1, <3>2, TwoWays, Zenon
          <5>3. CASE Keeps(d)
            BY <5>1, <5>2, <5>3 DEF Kept
          <5>4. CASE ~Keeps(d)
            BY <5>1, <5>4 DEF Kept
          <5> QED
            BY <5>3, <5>4
        <4> QED
          BY <4>2
      <3>4. /\ Goes(Delivered(d), from[d]) /\ from[d] + Len(Delivered(d)) + Kept(d) <= told[d]
        BY <2>1, <3>1 DEF NetGives
      <3>5. Len(Delivered(d)) \in Nat /\ from[d] \in Nat /\ told[d] \in Nat
        <4>1. Delivered(d) \in Seq(Nat)
          BY <3>1, ServedFacts
        <4> QED
          BY <4>1 DEF MarkedInv, LineHolds
      <3>6. from[d] + Len(Delivered(d)) + 0 <= told[d]
        <4> DEFINE l == Len(Delivered(d))
                   k == Kept(d)
        <4>1. l \in Nat /\ k \in Nat /\ from[d] + l + k <= told[d]
          BY <3>3, <3>4, <3>5
        <4> HIDE DEF l, k
        <4>2. from[d] + l + 0 <= told[d]
          BY <3>5, <4>1
        <4> QED
          BY <4>2 DEF l
      <3> QED
        BY <1>1, <2>2, <3>1, <3>4, <3>6 DEF NetGives
    <2> QED
      BY <2>2, <2>3
  <1> QED
    BY <1>2, <1>3 DEF Gives, NetInv

LEMMA WriteClientGives ==
    ASSUME MarkedInv, Gives, Netuart, NEW c \in Ports, WriteClient(c)
    PROVE  Gives'
  <1>1. /\ pc = TtyTo(c) /\ fd[c] # 0 /\ server = "netuart"
        /\ UNCHANGED <<server, fd, accepted, from, told, rx, sent>>
    BY DEF WriteClient, Netuart, lineVars
  <1>2. \A d \in Ports : NetKeeps(d) /\ NetGives(d) /\ buf[d] \in Seq(DownByte)
    BY <1>1 DEF Gives, NetInv, MarkedInv, BufsHold, Ports
  <1> DEFINE b == buf[c]
             l == Len(buf[c])
             p == pos
             t == told[c]
  <1>3. b \in Seq(DownByte) /\ l \in Nat /\ l = Len(b) /\ p \in Nat /\ p <= l /\ t \in Nat
    <2>1. pos <= Len(buf[c]) /\ buf[c] \in Seq(DownByte)
      BY <1>1, <1>2 DEF NetKeeps
    <2>2. Len(buf[c]) \in Nat
      BY <2>1
    <2> QED
      BY <2>1, <2>2 DEF MarkedInv, BufsHold, LineHolds
  <1>4. Keeps(c) /\ Numbered(b, t - l) /\ Kept(c) = l - p
    <2>1. Keeps(c)
      BY <1>1 DEF Keeps, TtyTo, Ports
    <2> QED
      BY <1>1, <1>2, <2>1 DEF NetKeeps, Kept
  <1>5. PICK n \in Int :
             /\ n > 0 /\ p + n <= l
             /\ sock' = AfterSend(c, SubSeq(buf[c], pos + 1, pos + n))
             /\ \/ pos + n >= Len(buf[c]) /\ pc' = AfterClient(c) /\ pos' = 0 /\ buf' = [buf EXCEPT ![c] = <<>>]
                \/ pos + n < Len(buf[c]) /\ UNCHANGED <<pc, buf>> /\ pos' = pos + n
             /\ SubSeq(buf[c], pos + 1, pos + n) \in Seq(DownByte)
    BY <1>3, WriteClientFacts
  <1> DEFINE bytes == SubSeq(b, p + 1, p + n)
  <1>6. bytes \in Seq(DownByte) /\ Len(bytes) = n /\ Numbered(bytes, t - l + p)
    <2> HIDE DEF b, l, p, t
    <2>1. t - l \in Int /\ p + n \in Nat /\ p <= p + n /\ p + n - p = n
      BY <1>3, <1>5
    <2>2. p + n <= Len(b)
      BY <1>3, <1>5
    <2>3. /\ SubSeq(b, p + 1, p + n) \in Seq(DownByte) /\ Len(SubSeq(b, p + 1, p + n)) = p + n - p
          /\ Numbered(SubSeq(b, p + 1, p + n), t - l + p)
      BY <1>3, <1>4, <2>1, <2>2, PartOf
    <2> QED
      BY <2>1, <2>3
  <1>7. /\ Fresh' /\ \A d \in Ports : d # c /\ Served(d)' => Same(d)
        /\ Served(c)' => Served(c) /\ Delivered(c)' = Delivered(c) \o Numbers(bytes)
    BY <1>1, <1>5, SentTo DEF Gives
  <1>8. /\ Ordered' /\ DblInv'
    BY <1>1 DEF Gives, Ordered, DblInv, Runs
  <1>9. /\ pc' = pc \/ (pc' = AfterClient(c) /\ pos' = 0)
        /\ \A d \in Ports : d # c => buf'[d] = buf[d]
    <2>1. pc' = pc \/ (pc' = AfterClient(c) /\ pos' = 0)
      BY <1>5
    <2>2. buf' = buf \/ buf' = [buf EXCEPT ![c] = <<>>]
      BY <1>5
    <2>3. \A d \in Ports : d # c => buf'[d] = buf[d]
      BY <2>2 DEF MarkedInv, BufsHold, Ports
    <2> QED
      BY <2>1, <2>3
  <1>10. pc # "exit" /\ pc' # "exit"
    BY <1>1, <1>9 DEF TtyTo, AfterClient
  <1>11. Kept(c)' = l - p - n /\ NetKeeps(c)'
    <2>1. CASE pos + n >= Len(buf[c]) /\ pc' = AfterClient(c) /\ pos' = 0 /\ buf' = [buf EXCEPT ![c] = <<>>]
      <3>1. ~Keeps(c)' /\ pc' # TtyTo(c)
        BY <2>1 DEF Keeps, TtyTo, AfterClient, Ports
      <3>2. NetKeeps(c)' /\ Kept(c)' = 0
        BY <3>1 DEF NetKeeps, Kept, TtyTo, Keeps
      <3>3. l - p - n = 0
        <4>1. p + n >= l
          BY <2>1
        <4> HIDE DEF b, l, p
        <4> QED
          BY <1>3, <1>5, <4>1
      <3> QED
        BY <3>2, <3>3
    <2>2. CASE pos + n < Len(buf[c]) /\ UNCHANGED <<pc, buf>> /\ pos' = pos + n
      <3>1. Keeps(c)' /\ pc' = TtyTo(c) /\ buf'[c] = b /\ told'[c] = t /\ pos' = p + n
        BY <1>1, <1>4, <2>2 DEF Keeps
      <3>2. TtyTo(c)' = TtyTo(c)
        BY DEF TtyTo
      <3>3. Kept(c)' = l - (p + n)
        BY <3>1, <3>2 DEF Kept
      <3>4. pos' <= Len(buf'[c]) /\ fd'[c] # 0
        BY <1>1, <2>2, <3>1, <1>3, <1>5
      <3>5. Numbered(buf[c], told[c] - Len(buf[c]))'
        BY <1>4, <3>1
      <3>6. NetKeeps(c)'
        BY <3>4, <3>5 DEF NetKeeps
      <3>7. l - (p + n) = l - p - n
        <4> HIDE DEF l, p
        <4> QED
          BY <1>3
      <3> QED
        BY <3>3, <3>6, <3>7
    <2> QED
      BY <1>5, <2>1, <2>2
  <1>12. NetGives(c)'
    <2> SUFFICES ASSUME Served(c)' PROVE NetGives(c)'
      BY DEF NetGives
    <2>1. Served(c) /\ Delivered(c)' = Delivered(c) \o Numbers(bytes)
      BY <1>7
    <2> DEFINE g == Delivered(c)
               f == from[c]
               m == Len(Delivered(c))
    <2>2. g \in Seq(Nat) /\ m \in Nat /\ m = Len(g) /\ f \in Nat
      <3>1. g \in Seq(Nat)
        BY <1>1, ServedFacts
      <3>2. Len(g) \in Nat
        BY <3>1
      <3> QED
        BY <3>1, <3>2 DEF MarkedInv, LineHolds
    <2>3. Goes(g, f) /\ f + m + (l - p) = t
      BY <1>2, <1>4, <1>10, <2>1 DEF NetGives
    <2>4. /\ from'[c] = f /\ told'[c] = t
      BY <1>1
    <2> HIDE DEF g, f, m, b, l, p, t, bytes
    <2>5. t - l + p = f + Len(g) /\ f \in Int
      BY <1>3, <2>2, <2>3
    <2>6. Goes(g \o Numbers(bytes), f) /\ Len(g \o Numbers(bytes)) = m + n
      BY <1>6, <2>2, <2>3, <2>5, GoesOn
    <2>7. f + (m + n) + (l - p - n) = t /\ t <= t
      BY <1>3, <1>5, <2>2, <2>3
    <2>8. Delivered(c)' = g \o Numbers(bytes)
      BY <2>1 DEF g
    <2>9. /\ Goes(Delivered(c)', from'[c])
          /\ from'[c] + Len(Delivered(c)') + Kept(c)' = told'[c]
          /\ told'[c] <= told'[c]
      BY <1>11, <2>4, <2>6, <2>7, <2>8
    <2> QED
      BY <2>9 DEF NetGives
  <1>13. ASSUME NEW d \in Ports, d # c PROVE (NetKeeps(d) /\ NetGives(d))'
    <2>1. NetKeeps(d)' /\ Kept(d)' = Kept(d)
      BY <1>1, <1>2, <1>9, <1>13, OtherKept
    <2>2. NetGives(d)'
      BY <1>1, <1>2, <1>7, <1>10, <1>13, <2>1 DEF NetGives, Same
    <2> QED
      BY <2>1, <2>2
  <1> QED
    BY <1>7, <1>8, <1>11, <1>12, <1>13 DEF Gives, NetInv

LEMMA NetUartGives ==
    ASSUME MarkedInv, Gives, Netuart, NetUart
    PROVE  Gives'
  <1>1. ASSUME NEW c \in Ports, SkipClient(c) \/ WriteClient(c) \/ WriteFails(c) PROVE Gives'
    BY <1>1, SkipClientGives, WriteClientGives, WriteFailsGives
  <1>2. CASE ReadTty
    BY <1>2, ReadTtyGives
  <1>3. CASE \/ Poll \/ PollGone \/ TtyRead \/ WriteTtyGone
             \/ \E c \in Ports : AcceptPort(c) \/ ReadPort(c) \/ ReadNothing(c) \/ WriteTty(c)
    BY <1>3, NetLooks
  <1> QED
    BY <1>1, <1>2, <1>3 DEF NetUart

----------------------------------------------------------------------------
(* The simulator's server: what it has not given it keeps, until a line or a   *)
(* connection ends.                                                            *)

LEMMA DblReadGives ==
    ASSUME MarkedInv, Gives, Dbluartsim, PollRead \/ NextByte
    PROVE  Gives'
  <1>1. UNCHANGED <<server, pc, told, rx, sent, accepted, from, m_cmdbuf, m_conbuf, sending>>
    BY DEF PollRead, NextByte, Dbluartsim, clientVars, lineVars
  <1>2. /\ \A c \in Ports, k \in Sessions :
             /\ sock'[c][k].got = sock[c][k].got /\ sock'[c][k].down = sock[c][k].down
             /\ sock'[c][k].peer = sock[c][k].peer
        /\ \A c \in Ports : fd'[c] = fd[c] \/ fd'[c] = 0
    <2>1. CASE NextByte
      BY <2>1 DEF NextByte, clientVars
    <2>2. CASE PollRead
      <3>1. PICK takes \in [Ports -> Nat] :
             /\ \A c \in Ports : takes[c] # 0 => fd[c] # 0 /\ takes[c] <= Len(sock[c][fd[c]].up)
             /\ m_rxbuf' = Received7("cmd", takes["cmd"]) \o Received7("con", takes["con"])
             /\ sock' = [c \in Ports |-> IF takes[c] = 0 THEN sock[c]
                     ELSE [sock[c] EXCEPT ![fd[c]].up = SubSeq(@, takes[c] + 1, Len(@))]]
        BY <2>2, PollReadFacts
      <3>2. ASSUME NEW c \in Ports, NEW k \in Sessions
            PROVE  /\ sock'[c][k].got = sock[c][k].got /\ sock'[c][k].down = sock[c][k].down
                   /\ sock'[c][k].peer = sock[c][k].peer
        <4>1. Socket(sock[c][k], c) /\ sock[c] = [j \in Sessions |-> sock[c][j]]
          BY DEF MarkedInv, SocketsHold
        <4>2. CASE takes[c] = 0
          BY <3>1, <4>2
        <4>3. CASE takes[c] # 0
          <5> DEFINE u == SubSeq(sock[c][fd[c]].up, takes[c] + 1, Len(sock[c][fd[c]].up))
          <5>1. sock'[c] = [sock[c] EXCEPT ![fd[c]].up = u]
            BY <3>1, <4>3
          <5> HIDE DEF u
          <5>2. sock'[c][k] = IF k = fd[c] THEN [sock[c][k] EXCEPT !.up = u] ELSE sock[c][k]
            BY <4>1, <5>1
          <5> QED
            BY <4>1, <5>2 DEF Socket
        <4> QED
          BY <4>2, <4>3
      <3>3. PICK ends : fd' = [c \in Ports |-> IF c \in ends THEN 0 ELSE fd[c]]
        BY <2>2 DEF PollRead
      <3> QED
        BY <3>2, <3>3
    <2> QED
      BY <2>1, <2>2
  <1>3. Fresh'
    BY <1>1, <1>2 DEF Gives, Fresh
  <1>4. ASSUME NEW d \in Ports, Served(d)' PROVE Same(d)
    <2>1. fd'[d] = fd[d] /\ fd[d] # 0
      BY <1>2, <1>4 DEF Served
    <2>2. fd[d] \in Sessions
      BY <2>1, ServedFacts
    <2> QED
      BY <1>1, <1>2, <1>4, <2>1, <2>2 DEF Same, Served, TakesBytes, Delivered
  <1>5. Ordered'
    BY <1>1 DEF Gives, Ordered
  <1>6. NetInv'
    BY DEF NetInv, Dbluartsim
  <1>7. DblInv'
    BY <1>1, <1>4, DblSame DEF Gives
  <1> QED
    BY <1>3, <1>5, <1>6, <1>7 DEF Gives

\* What of a port does not change.
LEMMA CmdSame ==
    ASSUME CmdGives, Served("cmd")' => Same("cmd"), told'["cmd"] = told["cmd"], CmdLeft' = CmdLeft
    PROVE  CmdGives'
  BY DEF CmdGives, Same

LEMMA ConSame ==
    ASSUME ConGives, Served("con")' => Same("con"), told'["con"] = told["con"], ConLeft' = ConLeft,
           Served("con")' /\ pc' = "tick" /\ m_conbuf' # <<>> => pc = "tick" /\ m_conbuf # <<>>
    PROVE  ConGives'
  BY DEF ConGives, Same

LEMMA LeftFacts ==
    ASSUME MarkedInv
    PROVE  /\ Len(m_cmdbuf) \in Nat /\ Len(m_conbuf) \in Nat /\ Len(sending) \in Nat
           /\ m_cmdbuf \in Seq(DownByte) /\ m_conbuf \in Seq(DownByte) /\ sending \in Seq(DownByte)
           /\ told["cmd"] \in Nat /\ told["con"] \in Nat /\ from["cmd"] \in Nat /\ from["con"] \in Nat
           /\ Newest \in {0, 1} /\ "cmd" \in Ports /\ "con" \in Ports
  <1>1. m_cmdbuf \in Seq(DownByte) /\ m_conbuf \in Seq(DownByte) /\ sending \in Seq(DownByte)
    BY DEF MarkedInv, DblHolds
  <1>2. Len(m_cmdbuf) \in Nat /\ Len(m_conbuf) \in Nat /\ Len(sending) \in Nat
    BY <1>1
  <1>3. "cmd" \in Ports /\ "con" \in Ports
    BY DEF Ports
  <1> QED
    BY <1>1, <1>2, <1>3 DEF MarkedInv, LineHolds, Newest

LEMMA PollAcceptGives ==
    ASSUME MarkedInv, Gives, Dbluartsim, NEW c \in Ports, PollAccept(c)
    PROVE  Gives'
  <1>1. /\ pc = "tick" /\ fd[c] = 0 /\ Readable(c) /\ Accept(c) /\ sock' = sock
        /\ UNCHANGED <<pc, server, told, rx, sent, m_cmdbuf, m_conbuf, sending>> /\ server = "dbluartsim"
    BY DEF PollAccept, Dbluartsim, dbluartVars, lineVars
  <1>2. There(c, accepted[c] + 1)
    BY <1>1 DEF Readable, There
  <1>3. Fresh' /\ Begins(c) /\ \A d \in Ports : d # c /\ Served(d)' => Same(d)
    BY <1>1, <1>2, Accepts DEF Gives
  <1>4. Ordered' /\ NetInv'
    BY <1>1 DEF Gives, Ordered, NetInv
  <1>5. DblKeeps /\ CmdGives /\ ConGives
    BY <1>1 DEF Gives, DblInv, Runs
  <1>6. DblKeeps'
    BY <1>1, <1>5 DEF DblKeeps
  <1>7. CmdLeft' = CmdLeft /\ ConLeft' = ConLeft /\ CmdLeft = Len(m_cmdbuf) + 0 /\ ConLeft = Newest + 0
    BY <1>1 DEF CmdLeft, ConLeft, Newest
  <1>8. \A a \in Int : Goes(<<>>, a)
    BY DEF Goes
  <1>9. CmdGives'
    <2>1. CASE c = "cmd"
      <3> DEFINE l == Len(m_cmdbuf)
                 t == told["cmd"]
                 a == t - l
      <3>1. l \in Nat /\ t \in Nat /\ l <= t
        BY <1>5, LeftFacts DEF DblKeeps
      <3>2. Delivered("cmd")' = <<>> /\ from'["cmd"] = t /\ CmdLeft' = l + 0 /\ told'["cmd"] = t
        BY <1>1, <1>3, <1>7, <2>1 DEF Begins
      <3> HIDE DEF l, t
      <3>3. a \in 0 .. t /\ Goes(<<>>, a) /\ a + Len(<<>>) + (l + 0) = t
        BY <1>8, <3>1
      <3> HIDE DEF a
      <3> QED
        BY <3>2, <3>3 DEF CmdGives
    <2>2. CASE c # "cmd"
      BY <1>1, <1>3, <1>5, <1>7, <2>2, CmdSame, LeftFacts
    <2> QED
      BY <2>1, <2>2
  <1>10. ConGives'
    <2>1. CASE c = "con"
      <3> DEFINE l == Newest
                 t == told["con"]
                 a == t - l
      <3>1. l \in {0, 1} /\ t \in Nat
        BY LeftFacts
      <3>2. Delivered("con")' = <<>> /\ from'["con"] = t /\ ConLeft' = l + 0 /\ told'["con"] = t
        BY <1>1, <1>3, <1>7, <2>1 DEF Begins
      <3> HIDE DEF l, t
      <3>3. a \in {t, t - 1} /\ Goes(<<>>, a) /\ a + Len(<<>>) + (l + 0) = t
        BY <1>8, <3>1
      <3> HIDE DEF a
      <3> QED
        BY <3>2, <3>3 DEF ConGives
    <2>2. CASE c # "con"
      BY <1>1, <1>3, <1>5, <1>7, <2>2, ConSame, LeftFacts
    <2> QED
      BY <2>1, <2>2
  <1> QED
    BY <1>3, <1>4, <1>6, <1>9, <1>10 DEF Gives, DblInv

\* What a program gets of a send, and what is left of it.
LEMMA SendGives ==
    ASSUME MarkedInv, Gives, NEW c \in Ports, NEW here, NEW there, SendTo(c, here, there), fd[c] # 0,
           Numbered(sending, told[c] - Len(sending))
    PROVE  /\ Fresh' /\ \A d \in Ports : d # c /\ Served(d)' => Same(d)
           /\ Numbered(sending', told[c] - Len(sending'))
           /\ \A a \in Int :
                Served(c)' /\ (Served(c) => Goes(Delivered(c), a) /\ a + Len(Delivered(c)) + Len(sending) = told[c])
                => Goes(Delivered(c)', a) /\ a + Len(Delivered(c)') + Len(sending') = told[c]
           /\ Served(c)' => Served(c) /\ from'[c] = from[c]
  <1>1. UNCHANGED <<accepted, from, told>>
    BY DEF SendTo
  <1>2. CASE fd' = [fd EXCEPT ![c] = 0] /\ sending' = <<>> /\ sock' = sock /\ Refuses(c)
    <2>1. Fresh'
      BY <1>1, <1>2 DEF Gives, Fresh
    <2>2. ~Served(c)'
      BY <1>2 DEF Served, MarkedInv, ServedExists
    <2>3. ASSUME NEW d \in Ports, d # c, Served(d)' PROVE Same(d)
      <3>1. fd'[d] = fd[d]
        BY <1>2, <2>3 DEF MarkedInv, ServedExists
      <3> QED
        BY <1>1, <1>2, <2>3, <3>1 DEF Served, TakesBytes, Same, Delivered
    <2>4. Numbered(<<>>, told[c] - Len(<<>>))
      BY DEF Numbered
    <2> QED
      BY <1>2, <2>1, <2>2, <2>3, <2>4
  <1>3. CASE \E n \in Nat :
                /\ n > 0 /\ n <= Len(sending) /\ fd' = fd
                /\ SubSeq(sending, 1, n) \in Seq(DownByte)
                /\ sock' = AfterSend(c, SubSeq(sending, 1, n))
                /\ sending' = SubSeq(sending, n + 1, Len(sending))
                /\ sending' \in Seq(DownByte)
    <2>1. PICK n \in Nat :
                /\ n > 0 /\ n <= Len(sending) /\ fd' = fd
                /\ SubSeq(sending, 1, n) \in Seq(DownByte)
                /\ sock' = AfterSend(c, SubSeq(sending, 1, n))
                /\ sending' = SubSeq(sending, n + 1, Len(sending))
                /\ sending' \in Seq(DownByte)
      BY <1>3
    <2> DEFINE b == sending
               l == Len(sending)
               t == told[c]
               bytes == SubSeq(b, 1, n)
    <2>2. b \in Seq(DownByte) /\ l \in Nat /\ l = Len(b) /\ t \in Nat /\ Numbered(b, t - l) /\ n <= l
      BY <2>1, LeftFacts DEF MarkedInv, LineHolds
    <2> HIDE DEF b, l, t
    <2>3. bytes \in Seq(DownByte) /\ Len(bytes) = n /\ Numbered(bytes, t - l)
      <3>1. t - l \in Int /\ 0 <= n /\ 0 + 1 = 1 /\ n - 0 = n /\ t - l + 0 = t - l
        BY <2>2
      <3>2. /\ SubSeq(b, 0 + 1, n) \in Seq(DownByte) /\ Len(SubSeq(b, 0 + 1, n)) = n - 0
            /\ Numbered(SubSeq(b, 0 + 1, n), t - l + 0)
        BY <2>2, <3>1, PartOf
      <3> QED
        BY <3>1, <3>2
    <2>4. Len(SubSeq(b, n + 1, l)) = l - n /\ Numbered(SubSeq(b, n + 1, l), t - l + n)
      BY <2>2, PartOf
    <2> HIDE DEF bytes
    <2>5. /\ Fresh' /\ \A d \in Ports : d # c /\ Served(d)' => Same(d)
          /\ Served(c)' => Served(c) /\ Delivered(c)' = Delivered(c) \o Numbers(bytes)
      <3>1. sock' = AfterSend(c, bytes) /\ UNCHANGED <<fd, from, accepted>> /\ Fresh
        BY <1>1, <2>1 DEF bytes, b, Gives
      <3> QED
        BY <2>3, <3>1, SentTo
    <2>6. sending' = SubSeq(b, n + 1, l) /\ Len(sending') = l - n
      BY <2>1, <2>4 DEF b, l
    <2>7. Numbered(sending', told[c] - Len(sending'))
      <3>1. t - l + n = t - (l - n)
        BY <2>2
      <3> QED
        BY <2>4, <2>6, <3>1 DEF t
    <2>8. ASSUME NEW a \in Int, Served(c)',
                 Served(c) => Goes(Delivered(c), a) /\ a + Len(Delivered(c)) + Len(sending) = told[c]
          PROVE  Goes(Delivered(c)', a) /\ a + Len(Delivered(c)') + Len(sending') = told[c]
      <3> DEFINE g == Delivered(c)
                 m == Len(g)
      <3>1. /\ Delivered(c)' = g \o Numbers(bytes) /\ Goes(g, a) /\ a + m + l = t
        BY <2>5, <2>8 DEF l, t
      <3>2. g \in Seq(Nat) /\ m \in Nat
        <4>1. g \in Seq(Nat)
          BY ServedFacts
        <4> QED
          BY <4>1
      <3> HIDE DEF g
      <3>3. t - l = a + Len(g)
        BY <2>2, <3>1, <3>2
      <3>4. Goes(g \o Numbers(bytes), a) /\ Len(g \o Numbers(bytes)) = Len(g) + n
        BY <2>3, <3>1, <3>2, <3>3, GoesOn
      <3>5. a + (m + n) + (l - n) = t
        <4> HIDE DEF m
        <4> QED
          BY <2>2, <3>1, <3>2
      <3> QED
        BY <2>6, <3>1, <3>4, <3>5 DEF t
    <2> QED
      BY <1>1, <2>5, <2>7, <2>8
  <1> QED
    BY <1>2, <1>3, SendFacts

\* received(): one byte more of a port is kept.
LEMMA FirstOf ==
    ASSUME NEW o \in Seq(DownByte), NEW a \in Int, NEW e \in DownByte, Numbered(<<e>> \o o, a)
    PROVE  e.n = a + 1 /\ Numbered(o, a + 1) /\ Len(<<e>> \o o) = Len(o) + 1
  <1>1. /\ Len(<<e>> \o o) = 1 + Len(o) /\ Len(o) \in Nat
        /\ \A i \in 1 .. 1 + Len(o) : (<<e>> \o o)[i] = IF i <= 1 THEN <<e>>[i] ELSE o[i - 1]
    <2>1. <<e>> \in Seq(DownByte) /\ Len(<<e>>) = 1
      OBVIOUS
    <2> QED
      BY <2>1, ConcatProperties
  <1>2. e.n = a + 1
    <2>1. 1 \in 1 .. 1 + Len(o) /\ (<<e>> \o o)[1] = e
      BY <1>1
    <2> QED
      BY <1>1, <2>1 DEF Numbered
  <1>3. ASSUME NEW i \in 1 .. Len(o) PROVE o[i].n = a + 1 + i
    <2>1. i + 1 \in 1 .. 1 + Len(o) /\ ~(i + 1 <= 1) /\ i + 1 - 1 = i
      BY <1>1
    <2>2. (<<e>> \o o)[i + 1] = o[i]
      BY <1>1, <2>1
    <2>3. (<<e>> \o o)[i + 1].n = a + (i + 1)
      BY <1>1, <2>1 DEF Numbered
    <2>4. a + (i + 1) = a + 1 + i
      BY <1>1
    <2> QED
      BY <2>2, <2>3, <2>4
  <1>4. Numbered(o, a + 1)
    BY <1>3 DEF Numbered
  <1> QED
    BY <1>1, <1>2, <1>4

LEMMA ReceivedFacts ==
    ASSUME MarkedInv, Gives, Received
    PROVE  LET b == Head(rx) IN
           /\ b \in DownByte /\ b.c \in Ports /\ b.n = told[b.c] + 1
           /\ told'[b.c] = told[b.c] + 1 /\ \A d \in Ports : d # b.c => told'[d] = told[d]
           /\ Ordered'
  <1> DEFINE b == Head(rx)
  <1>1. /\ rx \in Seq(DownByte) /\ rx # <<>> /\ rx' = Tail(rx) /\ told \in [Ports -> Nat] /\ sent' = sent
        /\ told' = [told EXCEPT ![b.c] = @ + 1]
    BY DEF Received, MarkedInv, LineHolds
  <1>2. b \in DownByte /\ Tail(rx) \in Seq(DownByte)
    BY <1>1, HeadTailProperties
  <1>3. b.c \in Ports
    BY <1>2 DEF DownByte
  <1> HIDE DEF b
  <1>4. told'[b.c] = told[b.c] + 1 /\ \A d \in Ports : d # b.c => told'[d] = told[d]
    BY <1>1, <1>3
  <1>5. ASSUME NEW d \in Ports
        PROVE  /\ Numbered(OfPort(rx', d), told'[d]) /\ told'[d] + Len(OfPort(rx', d)) = sent'[d]
               /\ d = b.c => b.n = told[d] + 1
    <2> DEFINE o == OfPort(Tail(rx), d)
               t == told[d]
    <2>1. /\ o \in Seq(DownByte) /\ t \in Nat
          /\ OfPort(rx, d) = IF b.c = d THEN <<b>> \o o ELSE o
          /\ Numbered(OfPort(rx, d), t) /\ t + Len(OfPort(rx, d)) = sent[d]
      BY <1>1, <1>2, OfPortSeq, OfPortTail DEF Gives, Ordered, b
    <2>2. rx' = Tail(rx)
      BY <1>1
    <2> HIDE DEF t
    <2>3. CASE d # b.c
      BY <1>1, <1>4, <2>1, <2>2, <2>3 DEF t
    <2>4. CASE d = b.c
      <3> HIDE DEF o
      <3>1. Numbered(<<b>> \o o, t) /\ t + Len(<<b>> \o o) = sent[d] /\ t \in Int
        BY <2>1, <2>4
      <3>2. b.n = t + 1 /\ Numbered(o, t + 1) /\ Len(<<b>> \o o) = Len(o) + 1
        BY <1>2, <2>1, <3>1, FirstOf
      <3>3. (t + 1) + Len(o) = sent[d]
        <4>1. Len(o) \in Nat
          BY <2>1
        <4> QED
          BY <2>1, <3>1, <3>2, <4>1
      <3>4. told'[d] = t + 1
        BY <1>4, <2>4 DEF t
      <3> QED
        BY <1>1, <2>2, <2>4, <3>2, <3>3, <3>4 DEF o, t
    <2> QED
      BY <2>3, <2>4
  <1>6. Ordered'
    BY <1>5 DEF Ordered
  <1>7. b.n = told[b.c] + 1
    BY <1>3, <1>5
  <1> QED
    BY <1>2, <1>3, <1>4, <1>6, <1>7 DEF b

\* Nothing happens at a connection.
LEMMA Untouched ==
    ASSUME UNCHANGED <<sock, from, accepted>>, \A d \in Ports : fd'[d] = fd[d] \/ fd'[d] = 0, Fresh
    PROVE  Fresh' /\ \A d \in Ports : Served(d)' => Same(d)
  BY DEF Fresh, Served, TakesBytes, Same, Delivered

LEMMA ReceivedGives ==
    ASSUME MarkedInv, Gives, Dbluartsim, Received
    PROVE  Gives'
  <1> DEFINE b == Head(rx)
  <1>1. /\ pc = "tick" /\ pc' = "cmd" /\ server = "dbluartsim"
        /\ UNCHANGED <<server, sock, fd, accepted, from, sending>>
        /\ IF b.c = "cmd" THEN m_cmdbuf' = Append(m_cmdbuf, b) /\ UNCHANGED m_conbuf
           ELSE m_conbuf' = Append(m_conbuf, b) /\ UNCHANGED m_cmdbuf
    BY DEF Received, Goto, Dbluartsim, clientVars
  <1>2. /\ b \in DownByte /\ b.c \in Ports /\ b.n = told[b.c] + 1
        /\ told'[b.c] = told[b.c] + 1 /\ \A d \in Ports : d # b.c => told'[d] = told[d]
        /\ Ordered'
    BY ReceivedFacts
  <1> HIDE DEF b
  <1>3. Fresh' /\ \A d \in Ports : Served(d)' => Same(d)
    BY <1>1, Untouched DEF Gives
  <1>4. NetInv'
    BY <1>1 DEF NetInv
  <1>5. DblKeeps /\ CmdGives /\ ConGives
    BY <1>1 DEF Gives, DblInv, Runs
  <1>6. /\ CmdLeft = Len(m_cmdbuf) + 0 /\ CmdLeft' = Len(m_cmdbuf') + 0
        /\ ConLeft = Newest + 0 /\ ConLeft' = Newest' + 0
    BY <1>1 DEF CmdLeft, ConLeft
  <1>7. CASE b.c = "cmd"
    <2> DEFINE m == m_cmdbuf
               l == Len(m)
               t == told["cmd"]
    <2>1. m \in Seq(DownByte) /\ l \in Nat /\ l = Len(m) /\ t \in Nat /\ Numbered(m, t - l) /\ l <= t
      BY <1>5, LeftFacts DEF DblKeeps
    <2>2. m_cmdbuf' = Append(m, b) /\ m_conbuf' = m_conbuf /\ b.n = t + 1 /\ told'["cmd"] = t + 1
      BY <1>1, <1>2, <1>7
    <2>3. told'["con"] = told["con"]
      BY <1>2, <1>7, LeftFacts
    <2> HIDE DEF m, l, t
    <2>4. Numbered(Append(m, b), t - l) /\ Len(Append(m, b)) = l + 1
      <3>1. t - l \in Int /\ b.n = t - l + l + 1
        BY <2>1, <2>2
      <3> QED
        BY <1>2, <2>1, <3>1, OneMore
    <2>5. DblKeeps'
      <3>1. told'["cmd"] - Len(m_cmdbuf') = t - l /\ Len(m_cmdbuf') <= told'["cmd"]
        BY <2>1, <2>2, <2>4
      <3>2. Numbered(m_cmdbuf', told'["cmd"] - Len(m_cmdbuf'))
        BY <2>2, <2>4, <3>1
      <3>3. (m_conbuf # <<>> => m_conbuf[Len(m_conbuf)].n = told["con"])'
        BY <1>5, <2>2, <2>3 DEF DblKeeps
      <3>4. sending' = <<>> /\ pc' \notin {"send cmd", "send con"}
        BY <1>1, <1>5 DEF DblKeeps
      <3> QED
        BY <3>1, <3>2, <3>3, <3>4 DEF DblKeeps
    <2>6. CmdGives'
      <3> SUFFICES ASSUME Served("cmd")' PROVE CmdGives'
        BY DEF CmdGives
      <3>1. Same("cmd")
        BY <1>3, LeftFacts
      <3>2. PICK a \in 0 .. from["cmd"] :
              Goes(Delivered("cmd"), a) /\ a + Len(Delivered("cmd")) + (l + 0) = t
        BY <1>5, <1>6, <3>1 DEF CmdGives, Same, l, m, t
      <3> DEFINE g == Len(Delivered("cmd"))
      <3>3. g \in Nat /\ a \in Nat
        <4>1. Delivered("cmd") \in Seq(Nat)
          BY <3>1, ServedFacts, LeftFacts DEF Same, Served
        <4> QED
          BY <4>1, LeftFacts
      <3>4. a + g + (l + 1 + 0) = t + 1
        <4> HIDE DEF g
        <4>1. a + g + (l + 0) = t
          BY <3>2 DEF g
        <4> QED
          BY <2>1, <3>3, <4>1
      <3>5. CmdLeft' = l + 1 + 0
        BY <1>6, <2>2, <2>4
      <3> QED
        BY <2>2, <3>1, <3>2, <3>4, <3>5 DEF CmdGives, Same
    <2>7. ConGives'
      <3>1. ConLeft' = ConLeft
        BY <1>6, <2>2 DEF Newest
      <3> QED
        BY <1>1, <1>3, <1>5, <2>3, <3>1, ConSame, LeftFacts
    <2> QED
      BY <1>2, <1>3, <1>4, <2>5, <2>6, <2>7 DEF Gives, DblInv
  <1>8. CASE b.c = "con"
    <2> DEFINE t == told["con"]
    <2>1. m_conbuf' = Append(m_conbuf, b) /\ m_cmdbuf' = m_cmdbuf /\ b.n = t + 1 /\ told'["con"] = t + 1
      BY <1>1, <1>2, <1>8
    <2>2. told'["cmd"] = told["cmd"] /\ t \in Nat
      BY <1>2, <1>8, LeftFacts
    <2>3. /\ m_conbuf' # <<>> /\ m_conbuf'[Len(m_conbuf')] = b
      BY <1>2, <2>1, LeftFacts, AppendProperties
    <2> HIDE DEF t
    <2>4. DblKeeps'
      BY <1>1, <1>5, <2>1, <2>2, <2>3 DEF DblKeeps
    <2>5. CmdGives'
      <3>1. CmdLeft' = CmdLeft
        BY <1>6, <2>1
      <3> QED
        BY <1>3, <1>5, <2>2, <3>1, CmdSame, LeftFacts
    <2>6. ConLeft' = 1 + 0
      BY <1>6, <2>3 DEF Newest
    <2>7. ConGives'
      <3> SUFFICES ASSUME Served("con")' PROVE ConGives'
        BY DEF ConGives
      <3>1. Same("con")
        BY <1>3, LeftFacts
      <3>2. CASE m_conbuf = <<>>
        <4>1. PICK a \in {from["con"], from["con"] - 1} :
                Goes(Delivered("con"), a) /\ a + Len(Delivered("con")) + (0 + 0) = t
          BY <1>5, <1>6, <3>1, <3>2 DEF ConGives, Same, Newest, t
        <4> DEFINE g == Len(Delivered("con"))
        <4>2. g \in Nat /\ a \in Int
          <5>1. Delivered("con") \in Seq(Nat)
            BY <3>1, ServedFacts, LeftFacts DEF Same, Served
          <5> QED
            BY <5>1, LeftFacts
        <4>3. a + g + (1 + 0) = t + 1
          <5> HIDE DEF g
          <5>1. a + g + (0 + 0) = t
            BY <4>1 DEF g
          <5> QED
            BY <2>2, <4>2, <5>1
        <4> QED
          BY <1>1, <2>1, <2>6, <3>1, <4>1, <4>3 DEF ConGives, Same
      <3>3. CASE m_conbuf # <<>>
        <4>1. t = from["con"] /\ Delivered("con") = <<>>
          BY <1>1, <1>5, <3>1, <3>3 DEF ConGives, Same, t
        <4>2. Goes(<<>>, t) /\ t + Len(<<>>) + (1 + 0) = t + 1
          <5>1. Goes(<<>>, t)
            BY DEF Goes
          <5> QED
            BY <2>2, <5>1
        <4> QED
          BY <1>1, <2>1, <2>6, <3>1, <4>1, <4>2 DEF ConGives, Same
      <3> QED
        BY <3>2, <3>3
    <2> QED
      BY <1>2, <1>3, <1>4, <2>4, <2>5, <2>7 DEF Gives, DblInv
  <1> QED
    BY <1>2, <1>7, <1>8 DEF Ports

LEMMA CmdLineGives ==
    ASSUME MarkedInv, Gives, Dbluartsim, CmdLine
    PROVE  Gives'
  <1>1. /\ pc = "cmd" /\ sending = <<>> /\ server = "dbluartsim"
        /\ UNCHANGED <<server, sock, fd, accepted, from, told, rx, sent, m_conbuf>>
        /\ \/ m_cmdbuf' = <<>> /\ sending' = m_cmdbuf /\ pc' = "send cmd"
           \/ m_cmdbuf' = <<>> /\ sending' = sending /\ pc' = "con" /\ fd["cmd"] = 0
           \/ m_cmdbuf' = m_cmdbuf /\ sending' = sending /\ pc' = "con"
    BY DEF CmdLine, Dbluartsim, clientVars, lineVars, AfterLine
  <1>2. Fresh' /\ \A d \in Ports : Served(d)' => Same(d)
    BY <1>1, Untouched DEF Gives
  <1>3. Ordered' /\ NetInv'
    BY <1>1 DEF Gives, Ordered, NetInv
  <1>4. DblKeeps /\ CmdGives /\ ConGives
    BY <1>1 DEF Gives, DblInv, Runs
  <1>5. ConGives'
    <2>1. ConLeft' = ConLeft /\ pc' # "tick"
      BY <1>1 DEF ConLeft, Newest
    <2> QED
      BY <1>1, <1>2, <1>4, <2>1, ConSame, LeftFacts
  <1>6. /\ Len(<<>>) = 0 /\ 0 <= told["cmd"] /\ Numbered(<<>>, told["cmd"] - Len(<<>>))
    <2>1. \A a : Numbered(<<>>, a)
      BY DEF Numbered
    <2> QED
      BY <2>1, LeftFacts
  <1>7. CASE m_cmdbuf' = <<>> /\ sending' = m_cmdbuf /\ pc' = "send cmd"
    <2>1. DblKeeps'
      BY <1>1, <1>4, <1>6, <1>7 DEF DblKeeps
    <2>2. CmdLeft' = CmdLeft
      <3>1. CmdLeft' = 0 + Len(m_cmdbuf)
        BY <1>7, <1>6 DEF CmdLeft
      <3>2. CmdLeft = Len(m_cmdbuf) + 0
        BY <1>1 DEF CmdLeft
      <3> QED
        BY <3>1, <3>2, LeftFacts
    <2>3. CmdGives'
      BY <1>1, <1>2, <1>4, <2>2, CmdSame, LeftFacts
    <2> QED
      BY <1>2, <1>3, <1>5, <2>1, <2>3 DEF Gives, DblInv
  <1>8. CASE m_cmdbuf' = <<>> /\ sending' = sending /\ pc' = "con" /\ fd["cmd"] = 0
    <2>1. DblKeeps'
      BY <1>1, <1>4, <1>6, <1>8 DEF DblKeeps
    <2>2. CmdGives'
      BY <1>1, <1>8 DEF CmdGives, Served
    <2> QED
      BY <1>2, <1>3, <1>5, <2>1, <2>2 DEF Gives, DblInv
  <1>9. CASE m_cmdbuf' = m_cmdbuf /\ sending' = sending /\ pc' = "con"
    <2>1. DblKeeps'
      BY <1>1, <1>4, <1>9 DEF DblKeeps
    <2>2. CmdLeft' = CmdLeft
      BY <1>1, <1>9 DEF CmdLeft
    <2>3. CmdGives'
      BY <1>1, <1>2, <1>4, <2>2, CmdSame, LeftFacts
    <2> QED
      BY <1>2, <1>3, <1>5, <2>1, <2>3 DEF Gives, DblInv
  <1> QED
    BY <1>1, <1>7, <1>8, <1>9

LEMMA ConCharGives ==
    ASSUME MarkedInv, Gives, Dbluartsim, ConChar
    PROVE  Gives'
  <1>1. /\ pc = "con" /\ sending = <<>> /\ server = "dbluartsim"
        /\ UNCHANGED <<server, sock, fd, accepted, from, told, rx, sent, m_cmdbuf>>
        /\ \/ m_conbuf # <<>> /\ sending' = <<Last(m_conbuf)>> /\ pc' = "send con" /\ m_conbuf' = <<>>
           \/ m_conbuf # <<>> /\ fd["con"] = 0 /\ sending' = <<>> /\ pc' = "tick" /\ m_conbuf' \in {<<>>, m_conbuf}
           \/ m_conbuf = <<>> /\ sending' = <<>> /\ pc' = "tick" /\ m_conbuf' = <<>>
    BY DEF ConChar, ConsoleSends, Dbluartsim, clientVars, lineVars
  <1>2. Fresh' /\ \A d \in Ports : Served(d)' => Same(d)
    BY <1>1, Untouched DEF Gives
  <1>3. Ordered' /\ NetInv'
    BY <1>1 DEF Gives, Ordered, NetInv
  <1>4. DblKeeps /\ CmdGives /\ ConGives
    BY <1>1 DEF Gives, DblInv, Runs
  <1>5. CmdGives'
    <2>1. CmdLeft' = CmdLeft
      BY <1>1 DEF CmdLeft
    <2> QED
      BY <1>1, <1>2, <1>4, <2>1, CmdSame, LeftFacts
  <1>6. ConLeft = Newest + 0
    BY <1>1 DEF ConLeft
  <1>7. CASE m_conbuf # <<>> /\ sending' = <<Last(m_conbuf)>> /\ pc' = "send con" /\ m_conbuf' = <<>>
    <2> DEFINE e == Last(m_conbuf)
               t == told["con"]
    <2>1. e.n = t /\ t \in Nat
      BY <1>4, <1>7, LeftFacts DEF DblKeeps, Last
    <2> HIDE DEF e, t
    <2>2. Len(<<e>>) = 1 /\ Numbered(<<e>>, t - 1)
      <3>1. Len(<<e>>) = 1 /\ <<e>>[1] = e /\ t - 1 + 1 = t
        BY <2>1
      <3>2. \A i \in 1 .. 1 : <<e>>[i].n = t - 1 + i
        BY <2>1, <3>1
      <3> QED
        BY <3>1, <3>2 DEF Numbered
    <2>3. DblKeeps'
      BY <1>1, <1>4, <1>7, <2>2 DEF DblKeeps, e, t
    <2>4. ConLeft' = ConLeft
      <3>1. ConLeft' = 0 + 1
        BY <1>7, <2>2 DEF ConLeft, Newest, e
      <3>2. ConLeft = 1 + 0
        BY <1>6, <1>7 DEF Newest
      <3> QED
        BY <3>1, <3>2
    <2>5. ConGives'
      BY <1>1, <1>2, <1>4, <1>7, <2>4, ConSame, LeftFacts
    <2> QED
      BY <1>2, <1>3, <1>5, <2>3, <2>5 DEF Gives, DblInv
  <1>8. CASE m_conbuf # <<>> /\ fd["con"] = 0 /\ sending' = <<>> /\ pc' = "tick" /\ m_conbuf' \in {<<>>, m_conbuf}
    <2>1. DblKeeps'
      BY <1>1, <1>4, <1>8 DEF DblKeeps
    <2>2. ConGives'
      BY <1>1, <1>8 DEF ConGives, Served
    <2> QED
      BY <1>2, <1>3, <1>5, <2>1, <2>2 DEF Gives, DblInv
  <1>9. CASE m_conbuf = <<>> /\ sending' = <<>> /\ pc' = "tick" /\ m_conbuf' = <<>>
    <2>1. DblKeeps'
      BY <1>1, <1>4, <1>9 DEF DblKeeps
    <2>2. ConLeft' = ConLeft
      BY <1>1, <1>9 DEF ConLeft, Newest
    <2>3. ConGives'
      BY <1>1, <1>2, <1>4, <1>9, <2>2, ConSame, LeftFacts
    <2> QED
      BY <1>2, <1>3, <1>5, <2>1, <2>3 DEF Gives, DblInv
  <1> QED
    BY <1>1, <1>7, <1>8, <1>9

SendsCmd == SendTo("cmd", "send cmd", "con")
SendsCon == SendTo("con", "send con", "tick")
SendsLast == SendTo("con", "kill con", "drain con") \/ SendTo("cmd", "kill cmd", "drain cmd")

LEMMA SendCmdGives ==
    ASSUME MarkedInv, Gives, Dbluartsim, SendsCmd
    PROVE  Gives'
  <1>1. /\ pc = "send cmd" /\ (pc' = IF sending' = <<>> THEN "con" ELSE "send cmd")
        /\ server = "dbluartsim"
        /\ UNCHANGED <<server, accepted, from, told, rx, sent, m_cmdbuf, m_conbuf>>
    BY DEF SendsCmd, SendTo, Dbluartsim, lineVars
  <1>2. DblKeeps /\ CmdGives /\ ConGives /\ fd["cmd"] # 0
    BY <1>1 DEF Gives, DblInv, Runs, MarkedInv, SendsToSome
  <1>3. m_cmdbuf = <<>> /\ Numbered(sending, told["cmd"] - Len(sending))
    BY <1>1, <1>2 DEF DblKeeps
  <1>4. /\ Fresh' /\ \A d \in Ports : d # "cmd" /\ Served(d)' => Same(d)
        /\ Numbered(sending', told["cmd"] - Len(sending'))
        /\ \A a \in Int :
             Served("cmd")' /\ (Served("cmd") => Goes(Delivered("cmd"), a) /\ a + Len(Delivered("cmd")) + Len(sending) = told["cmd"])
             => Goes(Delivered("cmd")', a) /\ a + Len(Delivered("cmd")') + Len(sending') = told["cmd"]
        /\ Served("cmd")' => Served("cmd") /\ from'["cmd"] = from["cmd"]
    BY <1>2, <1>3, SendGives, LeftFacts DEF SendsCmd
  <1>5. Ordered' /\ NetInv'
    BY <1>1 DEF Gives, Ordered, NetInv
  <1>6. DblKeeps'
    BY <1>1, <1>2, <1>3, <1>4 DEF DblKeeps
  <1>7. /\ Len(sending) \in Nat /\ Len(sending') \in Nat /\ Len(<<>>) = 0
    <2>1. sending' \in Seq(DownByte)
      <3>1. <<>> \in Seq(DownByte)
        OBVIOUS
      <3> QED
        BY <1>2, <3>1, SendFacts, LeftFacts DEF SendsCmd
    <2> QED
      BY <2>1, LeftFacts
  <1>8. CmdLeft = Len(sending) /\ CmdLeft' = Len(sending')
    <2>1. CmdLeft = 0 + Len(sending)
      BY <1>1, <1>3, <1>7 DEF CmdLeft
    <2>2. CmdLeft' = 0 + Len(sending')
      BY <1>1, <1>3, <1>7 DEF CmdLeft
    <2> QED
      BY <1>7, <2>1, <2>2
  <1>9. CmdGives'
    <2> SUFFICES ASSUME Served("cmd")' PROVE CmdGives'
      BY DEF CmdGives
    <2>1. PICK a \in 0 .. from["cmd"] :
            Goes(Delivered("cmd"), a) /\ a + Len(Delivered("cmd")) + Len(sending) = told["cmd"]
      BY <1>2, <1>4, <1>8 DEF CmdGives
    <2>2. a \in Int
      BY LeftFacts
    <2>3. Goes(Delivered("cmd")', a) /\ a + Len(Delivered("cmd")') + Len(sending') = told["cmd"]
      BY <1>4, <2>1, <2>2
    <2> QED
      BY <1>1, <1>4, <1>8, <2>1, <2>3 DEF CmdGives
  <1>10. ConGives'
    <2>1. ConLeft' = ConLeft /\ pc' # "tick"
      BY <1>1 DEF ConLeft, Newest
    <2> QED
      BY <1>1, <1>2, <1>4, <2>1, ConSame, LeftFacts
  <1> QED
    BY <1>4, <1>5, <1>6, <1>9, <1>10 DEF Gives, DblInv

LEMMA SendConGives ==
    ASSUME MarkedInv, Gives, Dbluartsim, SendsCon
    PROVE  Gives'
  <1>1. /\ pc = "send con" /\ (pc' = IF sending' = <<>> THEN "tick" ELSE "send con")
        /\ server = "dbluartsim"
        /\ UNCHANGED <<server, accepted, from, told, rx, sent, m_cmdbuf, m_conbuf>>
    BY DEF SendsCon, SendTo, Dbluartsim, lineVars
  <1>2. DblKeeps /\ CmdGives /\ ConGives /\ fd["con"] # 0
    BY <1>1 DEF Gives, DblInv, Runs, MarkedInv, SendsToSome
  <1>3. m_conbuf = <<>> /\ Numbered(sending, told["con"] - Len(sending))
    BY <1>1, <1>2 DEF DblKeeps
  <1>4. /\ Fresh' /\ \A d \in Ports : d # "con" /\ Served(d)' => Same(d)
        /\ Numbered(sending', told["con"] - Len(sending'))
        /\ \A a \in Int :
             Served("con")' /\ (Served("con") => Goes(Delivered("con"), a) /\ a + Len(Delivered("con")) + Len(sending) = told["con"])
             => Goes(Delivered("con")', a) /\ a + Len(Delivered("con")') + Len(sending') = told["con"]
        /\ Served("con")' => Served("con") /\ from'["con"] = from["con"]
    BY <1>2, <1>3, SendGives, LeftFacts DEF SendsCon
  <1>5. Ordered' /\ NetInv'
    BY <1>1 DEF Gives, Ordered, NetInv
  <1>6. DblKeeps'
    BY <1>1, <1>2, <1>3, <1>4 DEF DblKeeps
  <1>7. /\ Len(sending) \in Nat /\ Len(sending') \in Nat /\ Len(<<>>) = 0
    <2>1. sending' \in Seq(DownByte)
      <3>1. <<>> \in Seq(DownByte)
        OBVIOUS
      <3> QED
        BY <1>2, <3>1, SendFacts, LeftFacts DEF SendsCon
    <2> QED
      BY <2>1, LeftFacts
  <1>8. ConLeft = Len(sending) /\ ConLeft' = Len(sending')
    <2>1. ConLeft = 0 + Len(sending)
      BY <1>1, <1>3 DEF ConLeft, Newest
    <2>2. ConLeft' = 0 + Len(sending')
      BY <1>1, <1>3, <1>7 DEF ConLeft, Newest
    <2> QED
      BY <1>7, <2>1, <2>2
  <1>9. ConGives'
    <2> SUFFICES ASSUME Served("con")' PROVE ConGives'
      BY DEF ConGives
    <2>1. PICK a \in {from["con"], from["con"] - 1} :
            Goes(Delivered("con"), a) /\ a + Len(Delivered("con")) + Len(sending) = told["con"]
      BY <1>2, <1>4, <1>8 DEF ConGives
    <2>2. a \in Int
      BY LeftFacts
    <2>3. Goes(Delivered("con")', a) /\ a + Len(Delivered("con")') + Len(sending') = told["con"]
      BY <1>4, <2>1, <2>2
    <2> QED
      BY <1>1, <1>3, <1>4, <1>8, <2>1, <2>3 DEF ConGives
  <1>10. CmdGives'
    <2>1. CmdLeft' = CmdLeft
      BY <1>1 DEF CmdLeft
    <2> QED
      BY <1>1, <1>2, <1>4, <2>1, CmdSame, LeftFacts
  <1> QED
    BY <1>4, <1>5, <1>6, <1>9, <1>10 DEF Gives, DblInv

\* When the server ends it only sends what it keeps, and closes.
LEMMA EndGives ==
    ASSUME MarkedInv, Gives, Dbluartsim,
           KillStart \/ SendsLast \/ \E c \in Ports : Drain(c)
    PROVE  Gives'
  <1>1. /\ server = "dbluartsim" /\ UNCHANGED <<server, told, rx, sent, from, accepted>>
        /\ pc' \in {"kill con", "drain con", "kill cmd", "drain cmd", "killed"}
    <2>1. server = "dbluartsim" /\ UNCHANGED <<server, told, rx, sent, from, accepted>>
      <3>1. server = "dbluartsim" /\ server' = server
        BY DEF Dbluartsim
      <3>2. KillStart => UNCHANGED <<told, rx, sent, from, accepted>>
        BY DEF KillStart, clientVars, lineVars
      <3>3. \A c \in Ports : Drain(c) => UNCHANGED <<told, rx, sent, from, accepted>>
        BY DEF Drain, clientVars, lineVars
      <3>4. SendsLast => UNCHANGED <<told, rx, sent, from, accepted>>
        BY DEF SendsLast, SendTo, lineVars
      <3> QED
        BY <3>1, <3>2, <3>3, <3>4
    <2>2. KillStart => pc' \in {"kill con", "drain con", "kill cmd", "drain cmd", "killed"}
      BY DEF KillStart
    <2>3. \A c \in Ports : Drain(c) => pc' \in {"kill con", "drain con", "kill cmd", "drain cmd", "killed"}
      BY DEF Drain
    <2>4. SendsLast => pc' \in {"kill con", "drain con", "kill cmd", "drain cmd", "killed"}
      BY DEF SendsLast, SendTo
    <2>5. pc' \in {"kill con", "drain con", "kill cmd", "drain cmd", "killed"}
      BY <2>2, <2>3, <2>4
    <2> QED
      BY <2>1, <2>5
  <1>2. Ordered' /\ NetInv' /\ DblInv'
    BY <1>1 DEF Gives, Ordered, NetInv, DblInv, Runs
  <1>3. Fresh'
    <2>1. CASE KillStart \/ \E c \in Ports : Drain(c)
      <3>1. sock' = sock /\ accepted' = accepted
        BY <2>1 DEF KillStart, Drain, clientVars
      <3> QED
        BY <3>1 DEF Gives, Fresh
    <2>2. ASSUME NEW c \in Ports, NEW here, NEW there, SendTo(c, here, there), fd[c] # 0
          PROVE  Fresh'
      <3>1. CASE sock' = sock
        BY <1>1, <3>1, <2>2 DEF Gives, Fresh
      <3>2. ASSUME NEW n \in Nat, fd' = fd, SubSeq(sending, 1, n) \in Seq(DownByte),
                   sock' = AfterSend(c, SubSeq(sending, 1, n))
            PROVE  Fresh'
        BY <1>1, <2>2, <3>2, SentTo DEF Gives
      <3> QED
        BY <2>2, <3>1, <3>2, SendFacts
    <2>3. CASE SendTo("con", "kill con", "drain con")
      <3>1. fd["con"] # 0
        BY <1>1, <2>3 DEF SendTo, MarkedInv, SendsToSome
      <3> QED
        BY <2>2, <2>3, <3>1, LeftFacts
    <2>4. CASE SendTo("cmd", "kill cmd", "drain cmd")
      <3>1. fd["cmd"] # 0
        BY <1>1, <2>4 DEF SendTo, MarkedInv, SendsToSome
      <3> QED
        BY <2>2, <2>4, <3>1, LeftFacts
    <2> QED
      BY <2>1, <2>3, <2>4 DEF SendsLast
  <1> QED
    BY <1>2, <1>3 DEF Gives

LEMMA DblUartSimGives ==
    ASSUME MarkedInv, Gives, Dbluartsim, DblUartSim
    PROVE  Gives'
  <1>1. ASSUME NEW c \in Ports, PollAccept(c) PROVE Gives'
    BY <1>1, PollAcceptGives
  <1>2. CASE Received \/ CmdLine \/ ConChar
    BY <1>2, ReceivedGives, CmdLineGives, ConCharGives
  <1>3. CASE PollRead \/ NextByte
    BY <1>3, DblReadGives
  <1>4. CASE SendsCmd \/ SendsCon
    BY <1>4, SendCmdGives, SendConGives
  <1>5. CASE KillStart \/ SendsLast \/ \E c \in Ports : Drain(c)
    BY <1>5, EndGives
  <1> QED
    BY <1>1, <1>2, <1>3, <1>4, <1>5 DEF DblUartSim, SendsCmd, SendsCon, SendsLast

LEMMA GivesFirst == Init => Gives
  <1> SUFFICES ASSUME Init PROVE Gives
    OBVIOUS
  <1> USE DEF Init, PortsInit, NetUartInit, DblUartSimInit
  <1>1. Fresh
    BY DEF Fresh, NoSocket
  <1>2. Ordered
    <2> SUFFICES ASSUME NEW c \in Ports
                 PROVE  Numbered(OfPort(rx, c), told[c]) /\ told[c] + Len(OfPort(rx, c)) = sent[c]
      BY DEF Ordered
    <2>1. OfPort(rx, c) = <<>> /\ told[c] = 0 /\ sent[c] = 0
      BY OfPortEmpty
    <2> QED
      BY <2>1 DEF Numbered
  <1>3. \A c \in Ports : ~Served(c)
    BY DEF Served
  <1>4. NetInv
    BY <1>3 DEF NetInv, NetKeeps, NetGives, Keeps, TtyTo
  <1>5. DblInv
    BY <1>3 DEF DblInv, DblKeeps, CmdGives, ConGives, Ports, Runs, Numbered
  <1> QED
    BY <1>1, <1>2, <1>4, <1>5 DEF Gives

LEMMA GivesStep ==
    MarkedInv /\ Gives /\ [Next]_vars => Gives'
  <1> SUFFICES ASSUME MarkedInv, Gives, [Next]_vars PROVE Gives'
    OBVIOUS
  <1>1. CASE Server
    <2>1. CASE server = "netuart" /\ NetUart /\ UNCHANGED <<server, dbluartVars>>
      BY <2>1, NetUartGives DEF Netuart
    <2>2. CASE server = "dbluartsim" /\ DblUartSim /\ UNCHANGED <<server, netuartVars>>
      BY <2>2, DblUartSimGives DEF Dbluartsim
    <2> QED
      BY <1>1, <2>1, <2>2 DEF Server
  <1>2. CASE Clients
    <2>1. PICK c \in Ports :
             \/ Outside(Connect(c)) \/ Outside(DeviceSends(c))
             \/ \E k \in Sessions : Outside(Type(c, k)) \/ Outside(Take(c, k)) \/ Outside(Leave(c, k))
      BY <1>2 DEF Clients
    <2>2. CASE Outside(Connect(c))
      <3>1. Connect(c) /\ Around
        BY <2>2 DEF Outside, Around, Connect
      <3> QED
        BY <3>1, ClientsGive
    <2>3. CASE Outside(DeviceSends(c))
      <3>1. DeviceSends(c) /\ Around
        BY <2>3 DEF Outside, Around, DeviceSends
      <3> QED
        BY <3>1, BoardGives
    <2>4. ASSUME NEW k \in Sessions, Outside(Type(c, k)) \/ Outside(Take(c, k)) \/ Outside(Leave(c, k))
          PROVE  Gives'
      <3>1. Around
        BY <2>4 DEF Outside, Around, Type, Take, Leave
      <3>2. Type(c, k) \/ Take(c, k) \/ Leave(c, k)
        BY <2>4 DEF Outside
      <3> QED
        BY <3>1, <3>2, ClientsGive
    <2> QED
      BY <2>1, <2>2, <2>3, <2>4
  <1>3. CASE Outside(DeviceTakes) \/ Outside(Unplug)
    <2>1. (DeviceTakes \/ Unplug) /\ Around
      BY <1>3 DEF Outside, Around, DeviceTakes, Unplug
    <2> QED
      BY <2>1, BoardGives
  <1>4. CASE UNCHANGED vars
    <2>1. UNCHANGED <<server, pc, sock, accepted, from, rx, tx, line, seen, sent, fd, told, revents, buf, pos,
                      m_cmdbuf, m_conbuf, m_rxbuf, sending>>
      BY <1>4 DEF vars, clientVars, lineVars, netuartVars, dbluartVars
    <2>2. Fresh' /\ Ordered' /\ \A d \in Ports : Served(d)' => Same(d)
      BY <2>1 DEF Gives, Fresh, Ordered, Served, TakesBytes, Same, Delivered
    <2> QED
      BY <2>1, <2>2, NetSame, DblSame DEF Gives
  <1> QED
    BY <1>1, <1>2, <1>3, <1>4 DEF Next

\* Numbers that follow a number, and all up to another.
LEMMA GoesUpTo ==
    ASSUME NEW s \in Seq(Nat), NEW a \in Int, NEW b \in Int, Goes(s, a), a + Len(s) = b
    PROVE  s = UpTo(a, b)
  <1>1. Len(s) \in Nat /\ s = [i \in 1 .. Len(s) |-> s[i]]
    OBVIOUS
  <1>2. b - a = Len(s)
    BY <1>1
  <1>3. \A i \in 1 .. Len(s) : s[i] = a + i
    BY DEF Goes
  <1>4. s = [i \in 1 .. Len(s) |-> a + i]
    BY <1>1, <1>3
  <1> QED
    BY <1>2, <1>4 DEF UpTo

LEMMA Firsts ==
    ASSUME NEW s \in Seq(Int), NEW n \in Nat, n <= Len(s)
    PROVE  SubSeq(s, 1, n) = [i \in 1 .. n |-> s[i]]
  <1>1. \A i \in 1 .. n : s[i] \in Int
    OBVIOUS
  <1>2. /\ SubSeq(s, 1, n) \in Seq(Int)
        /\ Len(SubSeq(s, 1, n)) = IF 1 <= n THEN n - 1 + 1 ELSE 0
        /\ \A i \in 1 .. n - 1 + 1 : SubSeq(s, 1, n)[i] = s[1 + i - 1]
    BY <1>1, SubSeqProperties
  <1>3. (IF 1 <= n THEN n - 1 + 1 ELSE 0) = n /\ n - 1 + 1 = n /\ \A i \in 1 .. n : 1 + i - 1 = i
    OBVIOUS
  <1>4. Len(SubSeq(s, 1, n)) = n /\ \A i \in 1 .. n : SubSeq(s, 1, n)[i] = s[i]
    BY <1>2, <1>3
  <1> QED
    BY <1>2, <1>4

LEMMA GoesPrefix ==
    ASSUME NEW s \in Seq(Nat), NEW a \in Nat, NEW b \in Nat, Goes(s, a), a + Len(s) <= b
    PROVE  IsPrefix(s, UpTo(a, b))
  <1> DEFINE n == Len(s)
             u == UpTo(a, b)
  <1>1. n \in Nat /\ b - a \in Nat /\ n <= b - a
    <2>1. n \in Nat
      OBVIOUS
    <2> HIDE DEF n
    <2>2. a + n <= b
      BY DEF n
    <2> QED
      BY <2>1, <2>2
  <1>2. u \in Seq(Int) /\ Len(u) = b - a /\ \A i \in 1 .. b - a : u[i] = a + i
    <2>1. u = [i \in 1 .. b - a |-> a + i]
      BY DEF UpTo
    <2>2. \A i \in 1 .. b - a : a + i \in Int
      OBVIOUS
    <2> QED
      BY <1>1, <2>1, <2>2
  <1>3. s = UpTo(a, a + n)
    <2>1. a + n \in Int
      BY <1>1
    <2> QED
      BY <2>1, GoesUpTo
  <1> HIDE DEF u
  <1>4. SubSeq(u, 1, n) = SubSeq(s, 1, n)
    <2>1. SubSeq(u, 1, n) = [i \in 1 .. n |-> u[i]]
      BY <1>1, <1>2, Firsts
    <2>2. SubSeq(s, 1, n) = [i \in 1 .. n |-> s[i]]
      <3>1. s \in Seq(Int) /\ n <= Len(s)
        OBVIOUS
      <3> QED
        BY <1>1, <3>1, Firsts
    <2>3. \A i \in 1 .. n : u[i] = s[i]
      BY <1>1, <1>2 DEF Goes
    <2> QED
      BY <2>1, <2>2, <2>3
  <1>5. n <= Len(u)
    BY <1>1, <1>2
  <1> QED
    BY <1>4, <1>5 DEF IsPrefix, u

\* netuart is never where the other server is between two characters.
Apart == server = "netuart" => pc # "tick"
LEMMA ApartStep == Apart /\ [Next]_vars => Apart'
  <1> SUFFICES ASSUME Apart, [Next]_vars PROVE Apart'
    OBVIOUS
  <1>1. CASE Server
    <2>1. CASE server = "netuart" /\ NetUart /\ UNCHANGED <<server, dbluartVars>>
      <3>1. CASE Poll \/ PollGone \/ ReadTty \/ TtyRead \/ WriteTtyGone
        BY <2>1, <3>1 DEF Apart, Poll, PollGone, ReadTty, TtyRead, WriteTtyGone, Goto, AfterTty, AfterPort
      <3>2. ASSUME NEW c \in Ports, SkipClient(c) \/ WriteClient(c) \/ WriteFails(c) PROVE Apart'
        BY <2>1, <3>2 DEF Apart, SkipClient, WriteClient, WriteFails, Goto, AfterClient
      <3>3. ASSUME NEW c \in Ports, AcceptPort(c) \/ ReadPort(c) \/ ReadNothing(c) \/ WriteTty(c) PROVE Apart'
        BY <2>1, <3>3 DEF Apart, AcceptPort, ReadPort, ReadNothing, WriteTty, Goto, AfterPort, ToTty
      <3> QED
        BY <2>1, <3>1, <3>2, <3>3 DEF NetUart
    <2>2. CASE server = "dbluartsim" /\ UNCHANGED server
      BY <2>2 DEF Apart
    <2> QED
      BY <1>1, <2>1, <2>2 DEF Server
  <1>2. CASE UNCHANGED <<server, pc>>
    BY <1>2 DEF Apart
  <1>3. Clients \/ Outside(DeviceTakes) \/ Outside(Unplug) \/ UNCHANGED vars => UNCHANGED <<server, pc>>
    BY DEF Clients, Outside, vars
  <1> QED
    BY <1>1, <1>2, <1>3 DEF Next

LEMMA GivesAll == MarkedInv /\ Gives /\ Apart => GivenAll
  <1> SUFFICES ASSUME MarkedInv, Gives, Apart PROVE GivenAll
    OBVIOUS
  <1>1. GivenByNetUart
    <2> SUFFICES ASSUME NEW c \in Ports, server = "netuart", Served(c)
                 PROVE  /\ pc = "poll" => Delivered(c) = UpTo(from[c], told[c])
                        /\ IsPrefix(Delivered(c), UpTo(from[c], told[c]))
      BY DEF GivenByNetUart, Served
    <2> DEFINE g == Delivered(c)
               f == from[c]
               t == told[c]
               k == Kept(c)
    <2>1. g \in Seq(Nat) /\ Len(g) \in Nat /\ f \in Nat /\ t \in Nat
      <3>1. g \in Seq(Nat)
        BY ServedFacts DEF Served
      <3> QED
        BY <3>1 DEF MarkedInv, LineHolds
    <2>2. NetKeeps(c) /\ Goes(g, f) /\ f + Len(g) + k <= t /\ (pc = "exit" \/ f + Len(g) + k = t)
      BY DEF Gives, NetInv, NetGives
    <2>3. k \in Nat
      <3>1. buf[c] \in Seq(DownByte) /\ pos \in Nat
        BY DEF MarkedInv, BufsHold, Ports
      <3>2. Len(buf[c]) \in Nat
        BY <3>1
      <3>3. CASE ~Keeps(c)
        BY <3>3 DEF Kept
      <3>4. CASE Keeps(c) /\ pc # TtyTo(c)
        BY <3>2, <3>4 DEF Kept
      <3>5. CASE Keeps(c) /\ pc = TtyTo(c)
        <4>1. pos <= Len(buf[c])
          BY <2>2, <3>5 DEF NetKeeps
        <4>2. k = Len(buf[c]) - pos
          BY <3>5 DEF Kept
        <4> QED
          BY <3>1, <3>2, <4>1, <4>2
      <3> QED
        BY <3>3, <3>4, <3>5
    <2>4. pc = "poll" => k = 0
      BY DEF Kept, Keeps
    <2> HIDE DEF g, f, t, k
    <2>5. f + Len(g) <= t
      <3> DEFINE n == Len(g)
      <3>1. n \in Nat /\ f + n + k <= t
        BY <2>1, <2>2
      <3> HIDE DEF n
      <3>2. f + n <= t
        BY <2>1, <2>3, <3>1
      <3> QED
        BY <3>2 DEF n
    <2>6. IsPrefix(g, UpTo(f, t))
      BY <2>1, <2>2, <2>5, GoesPrefix
    <2>7. pc = "poll" => g = UpTo(f, t)
      <3> SUFFICES ASSUME pc = "poll" PROVE g = UpTo(f, t)
        OBVIOUS
      <3>1. f + Len(g) = t
        <4>1. f + Len(g) + 0 = t
          BY <2>2, <2>4
        <4> QED
          BY <2>1, <4>1
      <3>2. f \in Int /\ t \in Int
        BY <2>1
      <3> QED
        BY <2>1, <2>2, <3>1, <3>2, GoesUpTo
    <2> QED
      BY <2>6, <2>7 DEF g, f, t
  <1>2. GivenByDblUartSim
    <2> SUFFICES ASSUME pc = "tick", NEW c \in Ports, Served(c)
                 PROVE  \E a \in (IF c = "con" THEN {from.con, Some(from.con, from.con - 1)} ELSE 0 .. from.cmd) :
                          Delivered(c) \o (IF c = "cmd" THEN Numbers(m_cmdbuf) ELSE <<>>) = UpTo(a, told[c])
      BY DEF GivenByDblUartSim, Served
    <2>0. server = "dbluartsim"
      BY DEF MarkedInv, Apart
    <2>1. DblKeeps /\ CmdGives /\ ConGives
      BY <2>0 DEF Gives, DblInv, Runs
    <2>2. Delivered(c) \in Seq(Nat)
      BY ServedFacts DEF Served
    <2>3. CASE c = "cmd"
      <3> DEFINE g == Delivered("cmd")
                 m == m_cmdbuf
                 t == told["cmd"]
      <3>1. PICK a \in 0 .. from["cmd"] : Goes(g, a) /\ a + Len(g) + (Len(m) + 0) = t
        BY <2>1, <2>3 DEF CmdGives, CmdLeft
      <3>2. /\ g \in Seq(Nat) /\ m \in Seq(DownByte) /\ t \in Nat /\ a \in Int
            /\ Numbered(m, t - Len(m))
        BY <2>1, <2>2, <2>3, LeftFacts DEF DblKeeps
      <3> HIDE DEF g, m, t
      <3>3. Len(g) \in Nat /\ Len(m) \in Nat
        BY <3>2
      <3>4. t - Len(m) = a + Len(g) /\ a + (Len(g) + Len(m)) = t
        BY <3>1, <3>2, <3>3
      <3>5. /\ g \o Numbers(m) \in Seq(Nat) /\ Goes(g \o Numbers(m), a)
            /\ Len(g \o Numbers(m)) = Len(g) + Len(m)
        BY <3>1, <3>2, <3>4, GoesOn
      <3>6. g \o Numbers(m) = UpTo(a, t)
        <4>1. a + Len(g \o Numbers(m)) = t /\ t \in Int
          BY <3>2, <3>4, <3>5
        <4> QED
          BY <3>2, <3>5, <4>1, GoesUpTo
      <3> QED
        BY <2>3, <3>1, <3>6 DEF g, m, t
    <2>4. CASE c = "con"
      <3> DEFINE g == Delivered("con")
                 t == told["con"]
                 f == from["con"]
      <3>1. g \in Seq(Nat) /\ t \in Nat /\ f \in Nat /\ Len(g) \in Nat
        <4>1. g \in Seq(Nat)
          BY <2>2, <2>4
        <4> QED
          BY <4>1, LeftFacts
      <3>2. g \o <<>> = g
        BY <3>1
      <3>3. Some(f, f - 1) = f - 1
        BY <3>1 DEF Some
      <3>4. \E a \in {f, f - 1} : g = UpTo(a, t)
        <4>1. CASE m_conbuf = <<>>
          <5>1. PICK a \in {f, f - 1} : Goes(g, a) /\ a + Len(g) + (0 + 0) = t
            BY <2>1, <2>4, <4>1 DEF ConGives, ConLeft, Newest
          <5> HIDE DEF g, t, f
          <5>2. a \in Int /\ a + Len(g) = t /\ t \in Int
            BY <3>1, <5>1
          <5> QED
            BY <3>1, <5>1, <5>2, GoesUpTo
        <4>2. CASE m_conbuf # <<>>
          <5>1. t = f /\ g = <<>>
            BY <2>1, <2>4, <4>2 DEF ConGives
          <5> HIDE DEF g, t, f
          <5>2. Goes(<<>>, f) /\ f + Len(<<>>) = t /\ f \in Int /\ t \in Int /\ <<>> \in Seq(Nat)
            BY <3>1, <5>1 DEF Goes
          <5> QED
            BY <5>1, <5>2, GoesUpTo
        <4> QED
          BY <4>1, <4>2
      <3> QED
        BY <2>4, <3>2, <3>3, <3>4
    <2> QED
      BY <2>3, <2>4 DEF Ports
  <1> QED
    BY <1>1, <1>2 DEF GivenAll

\* Whatever comes from the board, and whenever programs connect, read and leave:
\* a program that is served is given what came since it was accepted, in order,
\* none twice and none left out, by netuart at every moment a part of it and all
\* when it waits; by the simulator's server all but an unfinished command line
\* (netuart.cpp:160-190, dbluartsim.cpp:300-330).
THEOREM ProgramsAreGiven == Spec => []GivenAll
  <1>1. Init => MarkedInv /\ Gives /\ Apart
    BY FirstState, GivesFirst DEF Init, Apart
  <1>2. (MarkedInv /\ Gives /\ Apart) /\ [Next]_vars => (MarkedInv /\ Gives /\ Apart)'
    BY MarkedStep, GivesStep, ApartStep
  <1>3. Spec => [](MarkedInv /\ Gives /\ Apart)
    BY <1>1, <1>2, PTL DEF Spec
  <1> QED
    BY <1>3, GivesAll, PTL

=============================================================================
