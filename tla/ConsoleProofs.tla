--------------------------- MODULE ConsoleProofs ----------------------------
(* For FIFOs of every length, and whatever programs and links do: the flags    *)
(* and the word that ufifo.v keeps in registers agree with its memory, and the *)
(* characters go through the console in order.                                 *)
EXTENDS ConsoleIo, TLAPS

\* A FIFO that was built, and what its inputs are.
Shape(f) ==
    /\ f.len \in Nat /\ f.len >= 4
    /\ f.first \in 0 .. f.len - 1
    /\ f.last \in 0 .. f.len - 1
    /\ f.next \in 0 .. f.len - 1
    /\ f.over \in BOOLEAN /\ f.under \in BOOLEAN /\ f.some \in BOOLEAN
    /\ f.mem = [i \in 0 .. f.len - 1 |-> f.mem[i]]

LEMMA AfterFacts ==
    ASSUME NEW f, Shape(f)
    PROVE  \A i \in 0 .. f.len - 1 :
             /\ After(f, i) \in 0 .. f.len - 1
             /\ After(f, i) # i
             /\ After(f, After(f, i)) # i
             /\ \A j \in 0 .. f.len - 1 : After(f, i) = After(f, j) => i = j
  BY DEF Shape, After

----------------------------------------------------------------------------
(* A clock of one FIFO.                                                       *)

\* g is f after a clock, field by field.
Clocked(f, reset, wr, data, rd, g) ==
    /\ g.len = f.len
    /\ g.first = IF reset THEN 0
                 ELSE IF Accepts(f, wr, rd) THEN After(f, f.first) ELSE f.first
    /\ g.last = IF reset THEN 0
                ELSE IF Advances(f, wr, rd) THEN f.next ELSE f.last
    /\ g.next = IF reset THEN 1
                ELSE IF Advances(f, wr, rd) THEN After(f, After(f, f.last))
                ELSE f.next
    /\ g.over = (~reset /\ WillOverflow(f, wr, rd))
    /\ g.under = (reset \/ WillUnderflow(f, wr, rd))
    /\ g.some = (~reset /\ NotEmpty(f, wr, rd))
    /\ g.mem = IF wr THEN [f.mem EXCEPT ![f.first] = data] ELSE f.mem
    /\ g.out = Show(f, data, rd)

LEMMA FifoClocked ==
    ASSUME NEW f, NEW reset, NEW wr, NEW data, NEW rd
    PROVE  Clocked(f, reset, wr, data, rd, Fifo(f, reset, wr, data, rd))
  BY DEF Fifo, Clocked

LEMMA FifoShape ==
    ASSUME NEW f, Shape(f),
           NEW reset \in BOOLEAN, NEW wr \in BOOLEAN, NEW data,
           NEW rd \in BOOLEAN, NEW g, Clocked(f, reset, wr, data, rd, g)
    PROVE  Shape(g)
  <1>1. g.len = f.len /\ g.len \in Nat /\ g.len >= 4
    BY DEF Clocked, Shape
  <1>a. /\ f.first \in 0 .. f.len - 1 /\ f.last \in 0 .. f.len - 1
        /\ f.next \in 0 .. f.len - 1
        /\ 0 \in 0 .. f.len - 1 /\ 1 \in 0 .. f.len - 1
    BY DEF Shape
  <1>b. /\ After(f, f.first) \in 0 .. f.len - 1
        /\ After(f, After(f, f.last)) \in 0 .. f.len - 1
    BY <1>a, AfterFacts
  <1>2. g.first \in 0 .. f.len - 1
    BY <1>a, <1>b DEF Clocked
  <1>3. g.last \in 0 .. f.len - 1 /\ g.next \in 0 .. f.len - 1
    BY <1>a, <1>b DEF Clocked
  <1>4. g.over \in BOOLEAN /\ g.under \in BOOLEAN /\ g.some \in BOOLEAN
    BY DEF Clocked
  <1>5. g.mem = [i \in 0 .. f.len - 1 |-> g.mem[i]]
    BY DEF Clocked, Shape
  <1>. QED
    BY <1>1, <1>2, <1>3, <1>4, <1>5 DEF Shape

\* A reset empties the FIFO, whatever it was.
LEMMA ResetSound ==
    ASSUME NEW f, Shape(f),
           NEW wr \in BOOLEAN, NEW data, NEW rd \in BOOLEAN,
           NEW g, Clocked(f, TRUE, wr, data, rd, g)
    PROVE  Sound(g)
  <1>1. /\ g.len \in Nat /\ g.len >= 4
        /\ g.first = 0 /\ g.last = 0 /\ g.next = 1
        /\ g.over = FALSE /\ g.under = TRUE /\ g.some = FALSE
    BY DEF Clocked, Shape
  <1>2. After(g, 0) = 1
    BY <1>1 DEF After
  <1>. QED
    BY <1>1, <1>2 DEF Sound, IndicesAgree, ShowsOldest

\* Where the indices go, without a reset.
LEMMA StepIndices ==
    ASSUME NEW f, Shape(f), IndicesAgree(f),
           NEW wr \in BOOLEAN, NEW data, NEW rd \in BOOLEAN,
           NEW g, Clocked(f, FALSE, wr, data, rd, g)
    PROVE  IndicesAgree(g)
  <1>a. \A i : After(g, i) = After(f, i)
    BY DEF Clocked, After
  <1>1. g.next = After(g, g.last)
    BY <1>a DEF Clocked, IndicesAgree
  <1>b. /\ f.first \in 0 .. f.len - 1 /\ f.last \in 0 .. f.len - 1
        /\ f.next = After(f, f.last) /\ f.next \in 0 .. f.len - 1
        /\ f.under <=> (f.first = f.last)
        /\ f.some <=> (f.first # f.last)
        /\ f.over <=> (After(f, f.first) = f.last)
    BY DEF Shape, IndicesAgree
  <1>c. /\ After(f, f.first) \in 0 .. f.len - 1
        /\ After(f, f.first) # f.first /\ f.next # f.last
        /\ After(f, After(f, f.first)) # f.first
        /\ After(f, After(f, f.first)) # After(f, f.first)
        /\ After(f, f.first) = f.next <=> f.first = f.last
        /\ After(f, After(f, f.first)) = f.next <=> After(f, f.first) = f.last
    BY <1>b, AfterFacts
  <1>d. f.over \in BOOLEAN /\ f.under \in BOOLEAN /\ f.some \in BOOLEAN
    BY DEF Shape
  <1>2. g.under <=> (g.first = g.last)
    BY <1>b, <1>c, <1>d DEF Clocked, WillUnderflow, Accepts, Advances
  <1>3. g.some <=> (g.first # g.last)
    BY <1>b, <1>c, <1>d DEF Clocked, NotEmpty, Accepts, Advances
  <1>4. g.over <=> (After(g, g.first) = g.last)
    BY <1>a, <1>b, <1>c, <1>d DEF Clocked, WillOverflow, Accepts, Advances
  <1>. QED
    BY <1>1, <1>2, <1>3, <1>4 DEF IndicesAgree

LEMMA StepShows ==
    ASSUME NEW f, Shape(f), IndicesAgree(f),
           NEW wr \in BOOLEAN, NEW data, NEW rd \in BOOLEAN,
           NEW g, Clocked(f, FALSE, wr, data, rd, g)
    PROVE  ShowsOldest(g)
  <1>. SUFFICES ASSUME g.some PROVE g.out = g.mem[g.last]
    BY DEF ShowsOldest
  <1>1. CASE f.under
    BY <1>1, AfterFacts
       DEF Clocked, Shape, IndicesAgree, NotEmpty, Advances, Show
  <1>2. CASE ~f.under /\ ~rd
    BY <1>2, AfterFacts
       DEF Clocked, Shape, IndicesAgree, NotEmpty, Advances, Show
  <1>3. CASE ~f.under /\ rd
    BY <1>3, AfterFacts
       DEF Clocked, Shape, IndicesAgree, NotEmpty, Advances, Show
  <1>. QED
    BY <1>1, <1>2, <1>3 DEF Shape

LEMMA FifoSound ==
    ASSUME NEW f, Shape(f),
           NEW reset \in BOOLEAN, NEW wr \in BOOLEAN, NEW data,
           NEW rd \in BOOLEAN, reset \/ Sound(f),
           NEW g, Clocked(f, reset, wr, data, rd, g)
    PROVE  Sound(g)
  <1>1. CASE reset
    BY <1>1, ResetSound
  <1>2. CASE ~reset
    BY <1>2, StepIndices, StepShows DEF Sound
  <1>. QED
    BY <1>1, <1>2

----------------------------------------------------------------------------
(* What a FIFO holds, and how a clock moves it.                               *)

\* How far from the oldest word an index is, and how many words there are.
Place(f, i) == Distance(f, f.last, i)
Size(f) == Place(f, f.first)
Held(f, i) == i \in 0 .. f.len - 1 /\ Place(f, i) < Size(f)

Added(f, wr, rd) == IF Accepts(f, wr, rd) THEN 1 ELSE 0
Taken(f, wr, rd) == IF Advances(f, wr, rd) THEN 1 ELSE 0
\* In a clock from f to g: a word is added if the FIFO accepts one, and taken if
\* it advances.
Resized(f, wr, rd, g) == Size(g) = Size(f) + Added(f, wr, rd) - Taken(f, wr, rd)
\* What g holds is the word just written, in the last place, or a word that f
\* held, one place nearer if the oldest was taken.
Moved(f, wr, data, rd, g) ==
    \A i : Held(g, i) =>
        \/ wr /\ g.mem[i] = data /\ Place(g, i) = Size(g) - 1
        \/ /\ Held(f, i) /\ g.mem[i] = f.mem[i]
           /\ Place(f, i) = Place(g, i) + Taken(f, wr, rd)

LEMMA PlaceFacts ==
    ASSUME NEW f, Shape(f)
    PROVE  /\ Size(f) \in 0 .. f.len - 1
           /\ Size(f) = 0 <=> f.first = f.last
           /\ \A i \in 0 .. f.len - 1 : Place(f, i) \in 0 .. f.len - 1
           /\ Place(f, f.last) = 0
           /\ \A i \in 0 .. f.len - 1 : Place(f, i) = Size(f) => i = f.first
  <1>1. /\ f.len \in Nat /\ f.len >= 4
        /\ f.first \in 0 .. f.len - 1 /\ f.last \in 0 .. f.len - 1
    BY DEF Shape
  <1>2. \A i \in 0 .. f.len - 1 : Place(f, i) \in 0 .. f.len - 1
    BY <1>1 DEF Place, Distance
  <1>3. Size(f) = 0 <=> f.first = f.last
    BY <1>1 DEF Size, Place, Distance
  <1>4. \A i \in 0 .. f.len - 1 : Place(f, i) = Size(f) => i = f.first
    BY <1>1 DEF Size, Place, Distance
  <1>. QED
    BY <1>1, <1>2, <1>3, <1>4 DEF Size, Place, Distance

LEMMA StepSize ==
    ASSUME NEW f, Shape(f), IndicesAgree(f),
           NEW wr \in BOOLEAN, NEW data, NEW rd \in BOOLEAN,
           NEW g, Clocked(f, FALSE, wr, data, rd, g)
    PROVE  Resized(f, wr, rd, g)
  <1>1. /\ g.len = f.len
        /\ g.first = IF Accepts(f, wr, rd) THEN After(f, f.first) ELSE f.first
        /\ g.last = IF Advances(f, wr, rd) THEN After(f, f.last) ELSE f.last
    BY DEF Clocked, IndicesAgree
  <1>2. /\ f.len \in Nat /\ f.len >= 4
        /\ f.first \in 0 .. f.len - 1 /\ f.last \in 0 .. f.len - 1
    BY DEF Shape
  <1>3. Accepts(f, wr, rd) /\ After(f, f.first) = f.last => Advances(f, wr, rd)
    BY DEF Accepts, Advances, IndicesAgree
  <1>4. Advances(f, wr, rd) /\ f.first = f.last => Accepts(f, wr, rd)
    BY DEF Accepts, Advances, IndicesAgree
  <1>5. CASE Accepts(f, wr, rd) /\ Advances(f, wr, rd)
    BY <1>1, <1>2, <1>5 DEF Resized, Size, Place, Distance, Added, Taken, After
  <1>6. CASE Accepts(f, wr, rd) /\ ~Advances(f, wr, rd)
    BY <1>1, <1>2, <1>3, <1>6 DEF Resized, Size, Place, Distance, Added, Taken, After
  <1>7. CASE ~Accepts(f, wr, rd) /\ Advances(f, wr, rd)
    BY <1>1, <1>2, <1>4, <1>7 DEF Resized, Size, Place, Distance, Added, Taken, After
  <1>8. CASE ~Accepts(f, wr, rd) /\ ~Advances(f, wr, rd)
    BY <1>1, <1>8, PlaceFacts DEF Resized, Size, Place, Distance, Added, Taken
  <1>. QED
    BY <1>5, <1>6, <1>7, <1>8

LEMMA StepHeld ==
    ASSUME NEW f, Shape(f), IndicesAgree(f),
           NEW wr \in BOOLEAN, NEW data, NEW rd \in BOOLEAN,
           NEW g, Clocked(f, FALSE, wr, data, rd, g)
    PROVE  Moved(f, wr, data, rd, g)
  <1>. SUFFICES ASSUME NEW i, Held(g, i)
                PROVE  \/ wr /\ g.mem[i] = data /\ Place(g, i) = Size(g) - 1
                       \/ /\ Held(f, i) /\ g.mem[i] = f.mem[i]
                          /\ Place(f, i) = Place(g, i) + Taken(f, wr, rd)
    BY DEF Moved
  <1>1. /\ g.len = f.len
        /\ g.first = IF Accepts(f, wr, rd) THEN After(f, f.first) ELSE f.first
        /\ g.last = IF Advances(f, wr, rd) THEN After(f, f.last) ELSE f.last
        /\ g.mem = IF wr THEN [f.mem EXCEPT ![f.first] = data] ELSE f.mem
    BY DEF Clocked, IndicesAgree
  <1>2. /\ f.len \in Nat /\ f.len >= 4
        /\ f.first \in 0 .. f.len - 1 /\ f.last \in 0 .. f.len - 1
        /\ i \in 0 .. f.len - 1
    BY <1>1 DEF Shape, Held
  <1>3. Accepts(f, wr, rd) /\ After(f, f.first) = f.last => Advances(f, wr, rd)
    BY DEF Accepts, Advances, IndicesAgree
  <1>4. Advances(f, wr, rd) /\ f.first = f.last => Accepts(f, wr, rd)
    BY DEF Accepts, Advances, IndicesAgree
  <1>a. Resized(f, wr, rd, g)
    BY StepSize
  <1>5. Size(g) = Size(f) + Added(f, wr, rd) - Taken(f, wr, rd)
    BY <1>a DEF Resized
  <1>6. Accepts(f, wr, rd) => wr
    BY DEF Accepts
  <1>7. i # f.first => g.mem[i] = f.mem[i]
    BY <1>1, <1>2 DEF Shape
  <1>8. wr => g.mem[f.first] = data
    BY <1>1, <1>2 DEF Shape
  <1>9. CASE i = f.first
    <2>1. Accepts(f, wr, rd)
      BY <1>1, <1>2, <1>4, <1>5, <1>9 DEF Held, Size, Place, Distance, Added, Taken, After
    <2>2. Place(g, i) = Size(g) - 1
      BY <1>1, <1>2, <1>3, <1>9, <2>1 DEF Held, Size, Place, Distance, Added, Taken, After
    <2>. QED
      BY <1>6, <1>8, <1>9, <2>1, <2>2
  <1>10. CASE i # f.first
    <2>1. Place(f, i) = Place(g, i) + Taken(f, wr, rd)
      BY <1>1, <1>2, <1>3, <1>4, <1>10 DEF Held, Size, Place, Distance, Added, Taken, After
    <2>2. Place(f, i) # Size(f)
      BY <1>2, <1>10, PlaceFacts
    <2>3. Place(f, i) \in Int /\ Size(f) \in Int /\ Place(f, i) < Size(f)
      <3>1. Place(f, i) \in Int /\ Size(f) \in Int
        BY <1>2, PlaceFacts
      <3>2. Place(g, i) < Size(g) /\ Place(g, i) \in Int /\ Size(g) \in Int
        BY <1>1, <1>2 DEF Held, Size, Place, Distance, After
      <3>. QED
        BY <1>5, <2>1, <2>2, <3>1, <3>2 DEF Added, Taken
    <2>4. Held(f, i)
      BY <1>2, <2>3 DEF Held
    <2>. QED
      BY <1>7, <1>10, <2>1, <2>4
  <1>. QED
    BY <1>9, <1>10

----------------------------------------------------------------------------
(* The console.                                                               *)

\* The invariant: both FIFOs have the length the console was built with, and
\* until its first reset nothing is known of the one that has been made.
ConsoleInv ==
    /\ rxfifo.len \in FifoLengthsBuilt /\ txfifo.len = rxfifo.len
    /\ rx_console_reset \in BOOLEAN /\ tx_console_reset \in BOOLEAN
    /\ rxf_wb_read \in BOOLEAN /\ txf_wb_write \in BOOLEAN
    /\ WithFifo => /\ Shape(rxfifo) /\ (rx_console_reset \/ Sound(rxfifo))
                   /\ Shape(txfifo) /\ (tx_console_reset \/ Sound(txfifo))

LEMMA InitFifo ==
    ASSUME NEW len \in FifoLengthsBuilt, NEW receive, NEW f \in FifoInit(len, receive)
    PROVE  f.len = len /\ (len > 0 => Shape(f))
  <1>1. PICK n \in FifoLengths(len) :
          f = [len |-> len, receive |-> receive,
               first |-> 0, last |-> 0, next |-> n, over |-> FALSE, under |-> TRUE,
               ovfl |-> FALSE, some |-> FALSE, fill |-> 0,
               mem |-> [i \in FifoLengths(len) |-> 0], out |-> 0]
    BY DEF FifoInit
  <1>2. /\ f.len = len /\ f.first = 0 /\ f.last = 0 /\ f.next = n
        /\ f.over = FALSE /\ f.under = TRUE /\ f.some = FALSE
        /\ f.mem = [i \in FifoLengths(len) |-> 0]
        /\ n \in FifoLengths(len)
    BY <1>1
  <1>3. SUFFICES ASSUME len > 0 PROVE Shape(f)
    BY <1>2
  <1>4. len \in Nat /\ len >= 4 /\ FifoLengths(len) = 0 .. len - 1
    BY <1>3, ConsoleAssumption DEF FifoLengths
  <1>5. f.mem = [i \in 0 .. f.len - 1 |-> f.mem[i]]
    BY <1>2, <1>4
  <1>6. f.len \in Nat /\ f.len >= 4 /\ n \in 0 .. f.len - 1 /\ 0 \in 0 .. f.len - 1
    BY <1>2, <1>4
  <1>7. /\ f.first \in 0 .. f.len - 1 /\ f.last \in 0 .. f.len - 1
        /\ f.next \in 0 .. f.len - 1
    BY <1>2, <1>6
  <1>8. f.over \in BOOLEAN /\ f.under \in BOOLEAN /\ f.some \in BOOLEAN
    BY <1>2
  <1>. QED
    BY <1>5, <1>6, <1>7, <1>8 DEF Shape

LEMMA InitInv == Init => ConsoleInv
  <1>. SUFFICES ASSUME Init PROVE ConsoleInv
    OBVIOUS
  <1>1. PICK len \in FifoLengthsBuilt : ConsoleInit(len)
    BY DEF Init
  <1>2. /\ rxfifo.len = len /\ (len > 0 => Shape(rxfifo))
        /\ txfifo.len = len /\ (len > 0 => Shape(txfifo))
    BY <1>1, InitFifo DEF ConsoleInit
  <1>3. /\ rx_console_reset = (len > 0) /\ tx_console_reset = (len > 0)
        /\ rxf_wb_read = FALSE /\ txf_wb_write = FALSE
    BY <1>1 DEF ConsoleInit
  <1>4. (len > 0) \in BOOLEAN
    OBVIOUS
  <1>5. WithFifo => len > 0
    BY <1>2 DEF WithFifo
  <1>. QED
    BY <1>2, <1>3, <1>4, <1>5 DEF ConsoleInv

\* Every clock has the hardware in it, and nothing else touches the console.
LEMMA NextIsHardware ==
    ASSUME Next
    PROVE  \E req, w, busy : \E stb \in BOOLEAN : Hardware(req, w, busy, stb)
  <1>1. PICK busy \in BOOLEAN, stb \in BOOLEAN : Clock(busy, stb)
    BY DEF Next
  <1>. SUFFICES \E req, w : Hardware(req, w, busy, stb)
    OBVIOUS
  <1>2. CASE Elsewhere(busy, stb)
    BY <1>2 DEF Elsewhere, Request
  <1>3. CASE Call(busy, stb)
    BY <1>3 DEF Call, Request
  <1>4. CASE Reset(busy, stb)
    BY <1>4 DEF Reset, Request
  <1>5. CASE PollRoom(busy, stb)
    BY <1>5 DEF PollRoom, Request
  <1>6. CASE PollIdle(busy, stb)
    BY <1>6 DEF PollIdle, Request
  <1>7. CASE Sleep(busy, stb)
    BY <1>7 DEF Sleep, Request, Pic
  <1>8. CASE WriteChar(busy, stb)
    BY <1>8 DEF WriteChar, Request
  <1>9. CASE AskChar(busy, stb)
    BY <1>9 DEF AskChar, Request
  <1>10. CASE TakeChar(busy, stb)
    BY <1>10 DEF TakeChar, Request
  <1>. QED
    BY <1>1, <1>2, <1>3, <1>4, <1>5, <1>6, <1>7, <1>8, <1>9, <1>10
       DEF Clock, Program

LEMMA ClockInv ==
    ASSUME ConsoleInv, NEW req, NEW w, NEW busy, NEW stb \in BOOLEAN,
           Hardware(req, w, busy, stb)
    PROVE  ConsoleInv'
  <1>1. PICK char : Receive(req, stb, char) /\ Transmit(req, busy)
    BY DEF Hardware, ConsoleClock
  <1>2. CASE WithFifo
    <2>1. /\ rxfifo' = Fifo(rxfifo, rx_console_reset, stb, char, rxf_wb_read)
          /\ rxf_wb_read' \in BOOLEAN /\ rx_console_reset' \in BOOLEAN
      BY <1>1, <1>2 DEF Receive, ReceiveFifo, Reads
    <2>2. /\ txfifo' = Fifo(txfifo, tx_console_reset, txf_wb_write, txf_wb_data,
                            ~busy /\ txfifo.some)
          /\ txf_wb_write' \in BOOLEAN /\ tx_console_reset' \in BOOLEAN
      BY <1>1, <1>2 DEF Transmit, TransmitFifo, Writes
    <2>3. Shape(rxfifo') /\ Sound(rxfifo') /\ rxfifo'.len = rxfifo.len
      <3>1. Clocked(rxfifo, rx_console_reset, stb, char, rxf_wb_read, rxfifo')
        BY <2>1, FifoClocked
      <3>2. rxfifo'.len = rxfifo.len
        BY <3>1 DEF Clocked
      <3>. QED
        BY <1>2, <3>1, <3>2, FifoShape, FifoSound DEF ConsoleInv
    <2>4. (~busy /\ txfifo.some) \in BOOLEAN
      OBVIOUS
    <2>5. Shape(txfifo') /\ Sound(txfifo') /\ txfifo'.len = txfifo.len
      <3>1. Clocked(txfifo, tx_console_reset, txf_wb_write, txf_wb_data,
                    ~busy /\ txfifo.some, txfifo')
        BY <2>2, FifoClocked
      <3>2. txfifo'.len = txfifo.len
        BY <3>1 DEF Clocked
      <3>. QED
        BY <1>2, <2>4, <3>1, <3>2, FifoShape, FifoSound DEF ConsoleInv
    <2>. QED
      BY <2>1, <2>2, <2>3, <2>5 DEF ConsoleInv, WithFifo
  <1>3. CASE ~WithFifo
    <2>1. UNCHANGED <<rxfifo, rxf_wb_read, rx_console_reset>>
      BY <1>1, <1>3 DEF Receive, ReceiveRegister
    <2>2. UNCHANGED <<txfifo, tx_console_reset>> /\ txf_wb_write' \in BOOLEAN
      BY <1>1, <1>3 DEF Transmit, TransmitRegister
    <2>. QED
      BY <1>3, <2>1, <2>2 DEF ConsoleInv, WithFifo
  <1>. QED
    BY <1>2, <1>3

\* The FIFOs are sound in every behaviour of the console (ufifo.v:60-191), for
\* every length from four up and for every use that programs and the link make
\* of it: reads of an empty FIFO, writes to a full one, both at once, resets.
THEOREM ConsoleFifosSound == Spec => []FifosSound
  <1>1. Init => ConsoleInv
    BY InitInv
  <1>2. ConsoleInv /\ [Next]_vars => ConsoleInv'
    <2>1. CASE Next
      BY <2>1, NextIsHardware, ClockInv
    <2>2. CASE UNCHANGED vars
      BY <2>2 DEF vars, consoleVars, ConsoleInv, WithFifo, Shape, Sound,
                  IndicesAgree, ShowsOldest, After
    <2>. QED
      BY <2>1, <2>2
  <1>3. ConsoleInv => FifosSound
    BY DEF ConsoleInv, FifosSound
  <1>. QED
    BY <1>1, <1>2, <1>3, PTL DEF Spec

----------------------------------------------------------------------------
(* What the programs ask for, and the answers.                                *)

Waiting == {"txwait", "txbusy", "rv", "value"}
Writing == {"_outbyte", "txwait", "txchr", "txbusy", "wait", "enable", "pic",
            "WAIT", "off", "uarttx"}
Steps == Writing \cup Waiting \cup {"_inbyte", "wbregs", "idle"}
Asked(p) == CASE p = "txwait" -> "fifo" [] p = "txbusy" -> "tx"
              [] p \in {"rv", "value"} -> "rx"

\* An answer is for the program that waits for one, and no other is under way.
Acks ==
    /\ pc \in Waiting => \/ r_wb_ack /\ ~o_wb_ack /\ r_wb_addr = Asked(pc)
                         \/ ~r_wb_ack /\ o_wb_ack
    /\ pc \notin Waiting \cup {"idle"} => ~r_wb_ack
    /\ WithFifo => (rxf_wb_read <=> pc \in {"rv", "value"} /\ r_wb_ack)
\* Nothing is reset, or on its way to the FIFO, while a procedure runs.
Quiet ==
    /\ pc \in Steps
    /\ rx_console_reset => WithFifo /\ pc = "idle"
    /\ tx_console_reset => WithFifo /\ pc = "idle" /\ written = 0 /\ ~txf_wb_write
    /\ WithFifo /\ pc # "idle" => ~txf_wb_write
Control == Acks /\ Quiet

\* What a clock of the hardware does to them.
Lines(req) ==
    /\ rxfifo'.len = rxfifo.len
    /\ r_wb_ack' = (req.to \in Registers) /\ o_wb_ack' = r_wb_ack
    /\ r_wb_addr' = IF req.to \in Registers THEN req.to ELSE "setup"
    /\ IF WithFifo
       THEN /\ rxf_wb_read' = Reads(req, "rx")
            /\ rx_console_reset' =
                 (Writes(req, "setup") \/ (Writes(req, "rx") /\ req.clear))
            /\ tx_console_reset' =
                 (Writes(req, "setup") \/ (Writes(req, "tx") /\ req.clear))
            /\ txf_wb_write' = Writes(req, "tx")
       ELSE UNCHANGED <<rx_console_reset, tx_console_reset>>

LEMMA HardwareLines ==
    ASSUME NEW req, NEW w, NEW busy, NEW stb, Hardware(req, w, busy, stb)
    PROVE  Lines(req)
  <1>1. PICK char : ConsoleClock(req, busy, stb, char)
    BY DEF Hardware
  <1>2. CASE WithFifo
    <2>1. rxfifo'.len = rxfifo.len
      BY <1>1, <1>2 DEF ConsoleClock, Receive, ReceiveFifo, Fifo
    <2>. QED
      BY <1>1, <1>2, <2>1 DEF ConsoleClock, Answer, Lines, Receive, ReceiveFifo,
                              Transmit, TransmitFifo
  <1>3. CASE ~WithFifo
    BY <1>1, <1>3 DEF ConsoleClock, Answer, Lines, Receive, ReceiveRegister,
                      Transmit, TransmitRegister
  <1>. QED
    BY <1>2, <1>3

LEMMA NoReqLines ==
    ASSUME Lines(NoReq)
    PROVE  /\ (WithFifo' <=> WithFifo)
           /\ ~r_wb_ack' /\ (o_wb_ack' <=> r_wb_ack)
           /\ WithFifo => /\ ~rxf_wb_read' /\ ~rx_console_reset'
                          /\ ~tx_console_reset' /\ ~txf_wb_write'
           /\ ~WithFifo => UNCHANGED <<rx_console_reset, tx_console_reset>>
  <1>1. NoReq.to = "none" /\ NoReq.we = FALSE /\ NoReq.to \notin Registers
    BY DEF NoReq, Registers
  <1>2. \A reg : ~Writes(NoReq, reg)
    BY <1>1 DEF Writes
  <1>3. ~Reads(NoReq, "rx")
    BY <1>1 DEF Reads
  <1>4. /\ (WithFifo' <=> WithFifo)
        /\ ~r_wb_ack' /\ (o_wb_ack' <=> r_wb_ack)
    BY <1>1 DEF Lines, WithFifo
  <1>. QED
    BY <1>2, <1>3, <1>4 DEF Lines

LEMMA ReadLines ==
    ASSUME NEW reg \in {"fifo", "rx", "tx"}, Lines(ReadOf(reg))
    PROVE  /\ (WithFifo' <=> WithFifo)
           /\ r_wb_ack' /\ r_wb_addr' = reg /\ (o_wb_ack' <=> r_wb_ack)
           /\ WithFifo => /\ (rxf_wb_read' <=> reg = "rx")
                          /\ ~rx_console_reset'
                          /\ ~tx_console_reset' /\ ~txf_wb_write'
           /\ ~WithFifo => UNCHANGED <<rx_console_reset, tx_console_reset>>
  BY DEF Lines, ReadOf, NoReq, Reads, Writes, Registers, WithFifo

LEMMA WriteLines ==
    ASSUME NEW char, Lines(WriteOf("tx", char))
    PROVE  /\ (WithFifo' <=> WithFifo)
           /\ WithFifo => /\ ~rxf_wb_read' /\ ~rx_console_reset'
                          /\ ~tx_console_reset' /\ txf_wb_write'
           /\ ~WithFifo => UNCHANGED <<rx_console_reset, tx_console_reset>>
  BY DEF Lines, WriteOf, NoReq, Reads, Writes, WithFifo

LEMMA ResetLines ==
    ASSUME NEW reg \in {"rx", "setup"}, Lines(ResetBy(reg))
    PROVE  /\ (WithFifo' <=> WithFifo)
           /\ WithFifo => /\ ~rxf_wb_read' /\ ~txf_wb_write'
                          /\ rx_console_reset'
                          /\ (tx_console_reset' <=> reg = "setup")
           /\ ~WithFifo => UNCHANGED <<rx_console_reset, tx_console_reset>>
  BY DEF Lines, ResetBy, WriteOf, NoReq, Reads, Writes, WithFifo

LEMMA InitControl == Init => Control
  <1>. SUFFICES ASSUME Init PROVE Control
    OBVIOUS
  <1>1. PICK len \in FifoLengthsBuilt : ConsoleInit(len)
    BY DEF Init
  <1>2. rxfifo.len = len
    BY <1>1, InitFifo DEF ConsoleInit
  <1>3. /\ ~rxf_wb_read /\ ~txf_wb_write /\ pc = "idle" /\ written = 0
        /\ rx_console_reset => WithFifo
        /\ tx_console_reset => WithFifo
    BY <1>1, <1>2 DEF Init, ConsoleInit, WithFifo
  <1>. QED
    BY <1>3 DEF Control, Acks, Quiet, Steps, Waiting

LEMMA NextControl == ASSUME ConsoleInv, Control, Next PROVE Control'
  <1>1. PICK busy \in BOOLEAN, stb \in BOOLEAN : Clock(busy, stb)
    BY DEF Next
  <1>2. CASE Elsewhere(busy, stb)
    <2>1. Lines(NoReq) /\ UNCHANGED <<pc, written>> /\ ~(o_wb_ack /\ pc \in Waiting)
      BY <1>2, HardwareLines DEF Elsewhere, Request, Keep, Waiting
    <2>. QED
      BY <2>1, NoReqLines DEF Control, Acks, Quiet
  <1>3. CASE Call(busy, stb)
    <2>1. /\ Lines(NoReq) /\ written' = written /\ pc = "idle"
          /\ pc' \in {"_outbyte", "_inbyte", "wbregs", "txchr", "wait"}
      <3>1. Lines(NoReq) /\ written' = written
        BY <1>3, HardwareLines DEF Call, Request, Keep
      <3>2. Calls[rxfifo.len] \subseteq {"_outbyte", "_inbyte", "wbregs", "txchr",
                                         "wait", "reset"}
        BY ConsoleAssumption DEF ConsoleInv
      <3>. QED
        BY <1>3, <3>1, <3>2 DEF Call, Goto
    <2>. QED
      BY <2>1, NoReqLines DEF Control, Acks, Quiet, Steps, Writing, Waiting
  <1>4. CASE Reset(busy, stb)
    <2>1. PICK reg \in {"rx", "setup"} :
            /\ Lines(ResetBy(reg))
            /\ pc = "idle" /\ pc' = "idle" /\ written = 0 /\ written' = 0
      BY <1>4, HardwareLines DEF Reset, Request, Goto, Keep
    <2>. QED
      BY <2>1, ResetLines DEF Control, Acks, Quiet, Waiting
  <1>5. CASE PollRoom(busy, stb) \/ PollIdle(busy, stb)
    <2>1. \/ /\ Lines(ReadOf("fifo")) /\ pc = "_outbyte" /\ pc' = "txwait"
          \/ /\ Lines(ReadOf("tx")) /\ pc = "txchr" /\ pc' = "txbusy"
          \/ /\ Lines(NoReq) /\ pc \in {"txwait", "txbusy"} /\ o_wb_ack
             /\ pc' \in {"uarttx", "_outbyte", "txchr"}
      BY <1>5, HardwareLines DEF PollRoom, PollIdle, Request, Goto
    <2>2. written' = written
      BY <1>5 DEF PollRoom, PollIdle, Keep
    <2>. QED
      BY <2>1, <2>2, NoReqLines, ReadLines
         DEF Control, Acks, Quiet, Steps, Writing, Waiting, Asked
  <1>6. CASE Sleep(busy, stb)
    <2>1. /\ Lines(NoReq) /\ written' = written
          /\ pc \in {"wait", "enable", "pic", "WAIT", "off"}
          /\ pc' \in {"enable", "pic", "WAIT", "off", "uarttx"}
      BY <1>6, HardwareLines DEF Sleep, Request, Pic, Goto, Keep
    <2>. QED
      BY <2>1, NoReqLines DEF Control, Acks, Quiet, Steps, Writing, Waiting
  <1>7. CASE WriteChar(busy, stb)
    <2>1. /\ Lines(WriteOf("tx", written + 1))
          /\ pc = "uarttx" /\ pc' = "idle"
      BY <1>7, HardwareLines DEF WriteChar, Request, Goto
    <2>. QED
      BY <2>1, WriteLines DEF Control, Acks, Quiet, Steps, Waiting
  <1>8. CASE AskChar(busy, stb)
    <2>1. /\ Lines(ReadOf("rx")) /\ written' = written
          /\ pc \in {"_inbyte", "wbregs"} /\ pc' \in {"rv", "value"}
      BY <1>8, HardwareLines DEF AskChar, Request, Goto
    <2>. QED
      BY <2>1, ReadLines DEF Control, Acks, Quiet, Steps, Waiting, Asked
  <1>9. CASE TakeChar(busy, stb)
    <2>1. /\ Lines(NoReq) /\ written' = written /\ o_wb_ack
          /\ pc \in {"rv", "value"} /\ pc' \in {"idle", "_outbyte"}
      BY <1>9, HardwareLines DEF TakeChar, Request, Goto
    <2>. QED
      BY <2>1, NoReqLines DEF Control, Acks, Quiet, Steps, Writing, Waiting
  <1>. QED
    BY <1>1, <1>2, <1>3, <1>4, <1>5, <1>6, <1>7, <1>8, <1>9 DEF Clock, Program

----------------------------------------------------------------------------
(* How many characters there are.                                             *)

Pending == IF txf_wb_write THEN 1 ELSE 0
Queued == IF WithFifo THEN Size(txfifo) + Pending ELSE Pending
\* What is written and not sent waits; more may be, if some of it was dropped.
Counts ==
    /\ written \in 0 .. MaxWritten /\ typed \in 0 .. MaxTyped
    /\ sent \in 0 .. written
    /\ pc \in Writing => written < MaxWritten
    /\ IF tx_console_reset THEN sent = 0 /\ ~txfifo.some
       ELSE sent + Queued <= written

\* Whether a step reads, writes or resets.
Reading(req) ==
    /\ req \in {NoReq, ReadOf("fifo"), ReadOf("rx"), ReadOf("tx")}
    /\ written' = written
WritingOne(req) ==
    /\ req = WriteOf("tx", written + 1) /\ written' = written + 1
    /\ pc = "uarttx" /\ pc' = "idle"
Resetting(req) ==
    /\ req \in {ResetBy("rx"), ResetBy("setup")}
    /\ written = 0 /\ written' = 0 /\ pc = "idle" /\ pc' = "idle"

\* What is written to the interrupt controller.
WriteOK(w) == w.mask \subseteq Ints /\ w.enable \in BOOLEAN

LEMMA NextKinds ==
    ASSUME Control, Next, pc \in Writing => written < MaxWritten
    PROVE  /\ pc' \in Writing => written' < MaxWritten
           /\ \E req, w : \E busy, stb \in BOOLEAN :
                /\ Hardware(req, w, busy, stb) /\ WriteOK(w)
                /\ Reading(req) \/ WritingOne(req) \/ Resetting(req)
  <1>1. PICK busy \in BOOLEAN, stb \in BOOLEAN : Clock(busy, stb)
    BY DEF Next
  <1>. SUFFICES /\ pc' \in Writing => written' < MaxWritten
                /\ \E req, w : /\ Hardware(req, w, busy, stb) /\ WriteOK(w)
                               /\ Reading(req) \/ WritingOne(req) \/ Resetting(req)
    OBVIOUS
  <1>0. /\ WriteOK(NoWrite) /\ WriteOK(PicWrite(Ints, Ints, FALSE))
        /\ WriteOK(PicWrite({}, {"uarttxf"}, TRUE))
        /\ WriteOK(PicWrite({}, {}, FALSE))
    BY ConsoleAssumption DEF PicWrite, NoWrite, WriteOK
  <1>2. CASE Elsewhere(busy, stb)
    BY <1>0, <1>2 DEF Elsewhere, Request, Keep, Reading
  <1>3. CASE Call(busy, stb)
    BY <1>0, <1>3 DEF Call, Goto, Request, Keep, Reading, Writing
  <1>4. CASE Reset(busy, stb)
    BY <1>0, <1>4 DEF Reset, Goto, Request, Keep, Resetting, Writing
  <1>5. CASE PollRoom(busy, stb)
    BY <1>0, <1>5 DEF PollRoom, Goto, Request, Keep, Reading, Writing
  <1>6. CASE PollIdle(busy, stb)
    BY <1>0, <1>6 DEF PollIdle, Goto, Request, Keep, Reading, Writing
  <1>7. CASE Sleep(busy, stb)
    BY <1>0, <1>7 DEF Sleep, Goto, Request, Pic, Keep, Reading, Writing
  <1>8. CASE WriteChar(busy, stb)
    BY <1>0, <1>8 DEF WriteChar, Goto, Request, WritingOne, Writing
  <1>9. CASE AskChar(busy, stb)
    BY <1>0, <1>9 DEF AskChar, Goto, Request, Reading, Writing
  <1>10. CASE TakeChar(busy, stb)
    BY <1>0, <1>10 DEF TakeChar, Goto, Request, Reading, Writing
  <1>. QED
    BY <1>1, <1>2, <1>3, <1>4, <1>5, <1>6, <1>7, <1>8, <1>9, <1>10
       DEF Clock, Program

\* A character sent is one taken out of the FIFO.
Sends(req, rd) ==
    /\ rd \in BOOLEAN
    /\ Clocked(txfifo, FALSE, txf_wb_write, txf_wb_data, rd, txfifo')
    /\ Resized(txfifo, txf_wb_write, rd, txfifo')
    /\ Moved(txfifo, txf_wb_write, txf_wb_data, rd, txfifo')
    /\ txfifo'.fill = Fill(txfifo, txf_wb_write, rd)
    /\ txfifo'.ovfl => txfifo.ovfl \/ (txf_wb_write /\ ~Accepts(txfifo, txf_wb_write, rd))
    /\ Advances(txfifo, txf_wb_write, rd) <=> rd
    /\ sent' = sent + Taken(txfifo, txf_wb_write, rd)
    /\ txf_wb_data' = req.data
LEMMA FifoSends ==
    ASSUME ConsoleInv, WithFifo, ~tx_console_reset, sent \in Nat,
           NEW req, NEW w, NEW busy \in BOOLEAN, NEW stb, Hardware(req, w, busy, stb)
    PROVE  \E rd : Sends(req, rd)
  <1>. DEFINE rd == ~busy /\ txfifo.some
  <1>1. /\ txfifo' = Fifo(txfifo, tx_console_reset, txf_wb_write, txf_wb_data, rd)
        /\ txf_wb_data' = req.data
    BY DEF Hardware, ConsoleClock, Transmit, TransmitFifo
  <1>2. tx_console_reset = FALSE /\ rd \in BOOLEAN /\ txf_wb_write \in BOOLEAN
    BY DEF ConsoleInv
  <1>3. Shape(txfifo) /\ IndicesAgree(txfifo)
    BY DEF ConsoleInv, Sound
  <1>4. Clocked(txfifo, FALSE, txf_wb_write, txf_wb_data, rd, txfifo')
    BY <1>1, <1>2, FifoClocked
  <1>5. Resized(txfifo, txf_wb_write, rd, txfifo')
    BY <1>2, <1>3, <1>4, StepSize
  <1>9. Moved(txfifo, txf_wb_write, txf_wb_data, rd, txfifo')
    BY <1>2, <1>3, <1>4, StepHeld
  <1>10. /\ txfifo'.fill = Fill(txfifo, txf_wb_write, rd)
         /\ txfifo'.ovfl =>
              txfifo.ovfl \/ (txf_wb_write /\ ~Accepts(txfifo, txf_wb_write, rd))
    BY <1>1, <1>2 DEF Fifo
  <1>6. Advances(txfifo, txf_wb_write, rd) <=> rd
    BY <1>3 DEF Advances, IndicesAgree
  <1>7. sent' = IF rd THEN sent + 1 ELSE sent
    BY DEF Hardware, ConsoleStb
  <1>8. sent' = sent + Taken(txfifo, txf_wb_write, rd)
    BY <1>6, <1>7 DEF Taken
  <1>. HIDE DEF rd
  <1>. QED
    BY <1>1, <1>2, <1>4, <1>5, <1>6, <1>8, <1>9, <1>10 DEF Sends

\* Without FIFOs.
LEMMA RegisterSends ==
    ASSUME ~WithFifo,
           NEW req, NEW w, NEW busy, NEW stb, Hardware(req, w, busy, stb)
    PROVE  /\ sent' = IF txf_wb_write /\ ~busy THEN sent + 1 ELSE sent
           /\ txf_wb_write' <=> Writes(req, "tx") \/ (txf_wb_write /\ busy)
           /\ txf_wb_data' = IF Writes(req, "tx") /\ ~txf_wb_write THEN req.data
                             ELSE txf_wb_data
           /\ r_txf_err' => r_txf_err \/ (Writes(req, "tx") /\ txf_wb_write)
           /\ UNCHANGED <<txfifo, tx_console_reset>>
  BY DEF Hardware, ConsoleClock, ConsoleStb, Transmit, TransmitRegister

LEMMA RequestWrites ==
    /\ \A req : Reading(req) => ~Writes(req, "tx") /\ ~Writes(req, "setup")
    /\ \A req : WritingOne(req) => Writes(req, "tx") /\ ~Writes(req, "setup")
                                   /\ ~req.clear /\ req.data = written + 1
    /\ \A req : Resetting(req) => ~Writes(req, "tx")
  <1>1. /\ NoReq.we = FALSE
        /\ \A reg : ReadOf(reg).we = FALSE
        /\ \A reg, c : /\ WriteOf(reg, c).to = reg /\ WriteOf(reg, c).we = TRUE
                      /\ WriteOf(reg, c).data = c /\ WriteOf(reg, c).clear = FALSE
        /\ \A reg : ResetBy(reg).to = reg
    BY DEF NoReq, ReadOf, WriteOf, ResetBy
  <1>2. \A req : Reading(req) => ~Writes(req, "tx") /\ ~Writes(req, "setup")
    BY <1>1 DEF Reading, Writes
  <1>3. \A req : WritingOne(req) => Writes(req, "tx") /\ ~Writes(req, "setup")
                                   /\ ~req.clear /\ req.data = written + 1
    BY <1>1 DEF WritingOne, Writes
  <1>4. \A req : Resetting(req) => ~Writes(req, "tx")
    BY <1>1 DEF Resetting, Writes
  <1>. QED
    BY <1>2, <1>3, <1>4

\* How many words more a FIFO can hold.
Left(f) == Distance(f, After(f, f.first), f.last)
\* A FIFO that is reset is empty.
LEMMA TxReset ==
    ASSUME ConsoleInv, WithFifo, tx_console_reset,
           NEW req, NEW w, NEW busy, NEW stb, Hardware(req, w, busy, stb)
    PROVE  /\ Size(txfifo') = 0 /\ ~txfifo'.some
           /\ ~txfifo'.ovfl /\ ~txfifo'.over
           /\ ~txfifo.receive => txfifo'.fill = Left(txfifo')
  <1>1. txfifo' = Fifo(txfifo, TRUE, txf_wb_write, txf_wb_data, ~busy /\ txfifo.some)
    BY DEF Hardware, ConsoleClock, Transmit, TransmitFifo, ConsoleInv
  <1>2. txfifo.len \in Nat /\ txfifo.len >= 4
    BY DEF ConsoleInv, Shape
  <1>3. /\ txfifo'.first = 0 /\ txfifo'.last = 0 /\ ~txfifo'.some
        /\ ~txfifo'.ovfl /\ ~txfifo'.over /\ txfifo'.len = txfifo.len
        /\ txfifo'.fill = IF txfifo.receive THEN 0 ELSE txfifo.len - 1
    BY <1>1 DEF Fifo
  <1>. QED
    BY <1>2, <1>3 DEF Size, Place, Left, Distance, After

LEMMA InitCounts == Init => Counts
  <1>. SUFFICES ASSUME Init PROVE Counts
    OBVIOUS
  <1>1. PICK len \in FifoLengthsBuilt : ConsoleInit(len)
    BY DEF Init
  <1>2. /\ rxfifo.len = len /\ tx_console_reset = (len > 0) /\ ~txf_wb_write
        /\ ~txfifo.some
    BY <1>1, InitFifo DEF ConsoleInit, FifoInit
  <1>3. ~tx_console_reset => Queued = 0
    BY <1>2 DEF Queued, Pending, WithFifo
  <1>. QED
    BY <1>2, <1>3, ConsoleAssumption DEF Init, Counts, Writing

LEMMA NextCounts ==
    ASSUME ConsoleInv, ConsoleInv', Control, Counts, Next
    PROVE  Counts'
  <1>1. pc \in Writing => written < MaxWritten
    BY DEF Counts
  <1>2. PICK req, w : \E b, s \in BOOLEAN :
          /\ Hardware(req, w, b, s)
          /\ Reading(req) \/ WritingOne(req) \/ Resetting(req)
    BY <1>1, NextKinds
  <1>3. PICK busy \in BOOLEAN, stb \in BOOLEAN :
          /\ Hardware(req, w, busy, stb)
          /\ Reading(req) \/ WritingOne(req) \/ Resetting(req)
    BY <1>2
  <1>4. pc' \in Writing => written' < MaxWritten
    BY <1>1, NextKinds
  <1>5. typed' \in 0 .. MaxTyped
    BY <1>3, ConsoleAssumption DEF Hardware, Counts
  <1>6. written' \in 0 .. MaxWritten
    BY <1>1, <1>3, ConsoleAssumption
       DEF Counts, Reading, WritingOne, Resetting, Writing
  <1>7. Lines(req)
    BY <1>3, HardwareLines
  <1>8. WithFifo' <=> WithFifo
    BY <1>7 DEF Lines, WithFifo
  <1>9. /\ sent' \in 0 .. written'
        /\ IF tx_console_reset' THEN sent' = 0 /\ ~txfifo'.some
           ELSE sent' + Queued' <= written'
    <2>1. CASE ~WithFifo
      <3>1. ~tx_console_reset /\ ~tx_console_reset' /\ sent + Pending <= written
        BY <1>3, <2>1, RegisterSends DEF Control, Quiet, Counts, Queued
      <3>2. /\ sent' = IF txf_wb_write /\ ~busy THEN sent + 1 ELSE sent
            /\ txf_wb_write' <=> Writes(req, "tx") \/ (txf_wb_write /\ busy)
        BY <1>3, <2>1, RegisterSends
      <3>3. \/ ~Writes(req, "tx") /\ written' = written
            \/ written' = written + 1
        BY <1>3, RequestWrites DEF Reading, WritingOne, Resetting
      <3>4. Queued' = Pending'
        BY <1>8, <2>1 DEF Queued
      <3>. QED
        BY <3>1, <3>2, <3>3, <3>4 DEF Counts, Pending
    <2>2. CASE WithFifo /\ tx_console_reset
      <3>1. /\ pc = "idle" /\ written = 0 /\ ~txf_wb_write
            /\ sent = 0 /\ ~txfifo.some
        BY <2>2 DEF Control, Quiet, Counts
      <3>2. ~WritingOne(req) /\ ~Writes(req, "tx") /\ written' = 0
        BY <1>3, <3>1, RequestWrites DEF Reading, WritingOne, Resetting
      <3>3. sent' = 0
        BY <1>3, <2>2, <3>1 DEF Hardware, ConsoleStb
      <3>4. Size(txfifo') = 0 /\ ~txfifo'.some
        BY <1>3, <2>2, TxReset
      <3>5. Pending' = 0
        BY <1>7, <2>2, <3>2 DEF Lines, Pending
      <3>. QED
        BY <1>8, <2>2, <3>2, <3>3, <3>4, <3>5 DEF Queued
    <2>3. CASE WithFifo /\ ~tx_console_reset
      <3>1. PICK rd : Sends(req, rd)
        BY <1>3, <2>3, FifoSends DEF Counts
      <3>0. Pending \in {0, 1} /\ sent \in Nat /\ written \in Nat
        BY DEF Pending, Counts
      <3>2. /\ Size(txfifo') = Size(txfifo) + Added(txfifo, txf_wb_write, rd)
                               - Taken(txfifo, txf_wb_write, rd)
            /\ sent' = sent + Taken(txfifo, txf_wb_write, rd)
            /\ Size(txfifo) \in Nat /\ Taken(txfifo, txf_wb_write, rd) \in {0, 1}
            /\ Added(txfifo, txf_wb_write, rd) \in 0 .. Pending
        BY <2>3, <3>1, PlaceFacts
           DEF Sends, Resized, ConsoleInv, Taken, Added, Accepts, Pending
      <3>3. sent + Size(txfifo) + Pending <= written
        BY <2>3, <3>0, <3>2 DEF Counts, Queued
      <3>4. /\ sent' + Size(txfifo') <= written /\ sent' \in Nat
            /\ Size(txfifo') \in Int /\ written \in Nat
        BY <3>0, <3>2, <3>3
      <3>5. /\ Pending' = IF Writes(req, "tx") THEN 1 ELSE 0
            /\ Queued' = Size(txfifo') + Pending'
        BY <1>7, <1>8, <2>3 DEF Lines, Pending, Queued
      <3>9. Size(txfifo') >= 0
        BY <1>8, <2>3, PlaceFacts DEF ConsoleInv
      <3>6. CASE Reading(req)
        <4>1. ~Writes(req, "tx") /\ ~Writes(req, "setup") /\ written' = written
          BY <3>6, RequestWrites DEF Reading
        <4>2. ~tx_console_reset'
          BY <1>7, <2>3, <4>1 DEF Lines
        <4>. QED
          BY <3>4, <3>5, <3>9, <4>1, <4>2
      <3>7. CASE WritingOne(req)
        <4>1. /\ Writes(req, "tx") /\ ~Writes(req, "setup") /\ ~req.clear
              /\ written' = written + 1
          BY <3>7, RequestWrites DEF WritingOne
        <4>2. ~tx_console_reset'
          BY <1>7, <2>3, <4>1 DEF Lines
        <4>. QED
          BY <3>4, <3>5, <3>9, <4>1, <4>2
      <3>8. CASE Resetting(req)
        <4>1. ~Writes(req, "tx") /\ written = 0 /\ written' = 0
          BY <3>8, RequestWrites DEF Resetting
        <4>2. Size(txfifo) = 0 /\ Pending = 0 /\ sent = 0
          BY <3>0, <3>2, <3>3, <4>1
        <4>3. ~txfifo.some /\ ~txf_wb_write
          BY <2>3, <4>2, PlaceFacts DEF ConsoleInv, Sound, IndicesAgree, Pending
        <4>4. ~Advances(txfifo, txf_wb_write, rd) /\ ~Accepts(txfifo, txf_wb_write, rd)
          BY <2>3, <4>3 DEF ConsoleInv, Sound, IndicesAgree, Advances, Accepts
        <4>5. Size(txfifo') = 0 /\ sent' = 0 /\ Pending' = 0
          BY <3>2, <3>5, <4>1, <4>2, <4>4 DEF Taken, Added
        <4>6. ~txfifo'.some
          <5>1. rd \in BOOLEAN /\ txf_wb_write \in BOOLEAN
            BY <3>1 DEF Sends, ConsoleInv
          <5>2. Clocked(txfifo, FALSE, txf_wb_write, txf_wb_data, rd, txfifo')
            BY <3>1 DEF Sends
          <5>3. Shape(txfifo') /\ IndicesAgree(txfifo')
            BY <2>3, <5>1, <5>2, FifoShape, StepIndices DEF ConsoleInv, Sound
          <5>. QED
            BY <4>5, <5>3, PlaceFacts DEF IndicesAgree
        <4>. QED
          BY <3>5, <4>1, <4>5, <4>6
      <3>. QED
        BY <1>3, <3>6, <3>7, <3>8
    <2>. QED
      BY <2>1, <2>2, <2>3
  <1>. QED
    BY <1>4, <1>5, <1>6, <1>9 DEF Counts

----------------------------------------------------------------------------
(* Types.                                                                     *)

LEMMA FifoTypes ==
    ASSUME NEW f, Shape(f), FifoTypeOK(f),
           NEW reset \in BOOLEAN, NEW wr \in BOOLEAN, NEW data \in Chars,
           NEW rd \in BOOLEAN
    PROVE  FifoTypeOK(Fifo(f, reset, wr, data, rd))
  <1>. DEFINE g == Fifo(f, reset, wr, data, rd)
  <1>. DEFINE Index == 0 .. f.len - 1
  <1>1. f.len \in Nat /\ f.len >= 4 /\ FifoLengths(f.len) = Index
    BY DEF Shape, FifoLengths
  <1>2. /\ f.len \in FifoLengthsBuilt /\ f.receive \in BOOLEAN
        /\ f.first \in Index /\ f.last \in Index /\ f.next \in Index
        /\ f.mem \in [Index -> Chars]
        /\ f.over \in BOOLEAN /\ f.under \in BOOLEAN /\ f.ovfl \in BOOLEAN
        /\ f.some \in BOOLEAN
    BY <1>1 DEF FifoTypeOK
  <1>3. Clocked(f, reset, wr, data, rd, g)
    BY FifoClocked
  <1>4. Shape(g) /\ g.len = f.len
    BY <1>3, FifoShape DEF Clocked
  <1>5. DOMAIN g = {"len", "receive", "first", "last", "next", "over",
                    "under", "ovfl", "some", "fill", "mem", "out"}
    BY DEF Fifo
  <1>6. g.receive = f.receive /\ g.ovfl \in BOOLEAN
    BY <1>2 DEF Fifo
  <1>7. g.fill \in Index
    <2>1. \A i \in Index : After(f, i) \in Index
      BY <1>1 DEF After
    <2>2. \A i, j \in Index : Distance(f, i, j) \in Index
      BY <1>1 DEF Distance
    <2>3. Fill(f, wr, rd) \in Index
      BY <1>2, <2>1, <2>2 DEF Fill
    <2>4. 0 \in Index /\ f.len - 1 \in Index
      BY <1>1
    <2>5. g.fill = IF reset THEN IF f.receive THEN 0 ELSE f.len - 1
                   ELSE Fill(f, wr, rd)
      BY DEF Fifo
    <2>. QED
      BY <2>3, <2>4, <2>5
  <1>8. g.mem \in [Index -> Chars]
    BY <1>2, <1>3 DEF Clocked
  <1>9. g.out \in Chars
    BY <1>2, <1>3 DEF Clocked, Show
  <1>10. /\ g.len \in FifoLengthsBuilt /\ g.first \in Index
         /\ g.last \in Index /\ g.next \in Index
         /\ g.over \in BOOLEAN /\ g.under \in BOOLEAN /\ g.some \in BOOLEAN
         /\ FifoLengths(g.len) = Index
    BY <1>1, <1>2, <1>4 DEF Shape
  <1>11. FifoTypeOK(g)
    <2>. HIDE DEF g, Index
    <2>1. {g.over, g.under, g.ovfl, g.some} \subseteq BOOLEAN
      BY <1>6, <1>10
    <2>. QED
      BY <1>2, <1>5, <1>6, <1>7, <1>8, <1>9, <1>10, <2>1 DEF FifoTypeOK
  <1>. QED
    BY <1>11

LEMMA CharsFacts ==
    /\ 0 \in Chars
    /\ \A i \in 0 .. MaxWritten : i \in Chars
    /\ \A i \in 0 .. MaxTyped : i \in Chars
  BY ConsoleAssumption DEF Chars

LEMMA InitFifoTypes ==
    ASSUME NEW len \in FifoLengthsBuilt, NEW receive \in BOOLEAN,
           NEW f \in FifoInit(len, receive)
    PROVE  FifoTypeOK(f) /\ f.receive = receive
  <1>1. PICK n \in FifoLengths(len) :
          f = [len |-> len, receive |-> receive,
               first |-> 0, last |-> 0, next |-> n, over |-> FALSE, under |-> TRUE,
               ovfl |-> FALSE, some |-> FALSE, fill |-> 0,
               mem |-> [i \in FifoLengths(len) |-> 0], out |-> 0]
    BY DEF FifoInit
  <1>2. 0 \in FifoLengths(len) /\ 0 \in Chars
    BY ConsoleAssumption, CharsFacts DEF FifoLengths
  <1>. QED
    BY <1>1, <1>2 DEF FifoTypeOK

LEMMA InitTypes == Init => TypeOK
  <1>. SUFFICES ASSUME Init PROVE TypeOK
    OBVIOUS
  <1>1. PICK len \in FifoLengthsBuilt : ConsoleInit(len)
    BY DEF Init
  <1>2. /\ FifoTypeOK(rxfifo) /\ rxfifo.receive = TRUE /\ rxfifo.len = len
        /\ FifoTypeOK(txfifo) /\ txfifo.receive = FALSE /\ txfifo.len = len
    BY <1>1, InitFifo, InitFifoTypes DEF ConsoleInit
  <1>3. /\ (len > 0) \in BOOLEAN /\ (len = 0) \in BOOLEAN
    OBVIOUS
  <1>4. NoAnswer \in [flag : BOOLEAN, err : BOOLEAN, char : Chars]
    BY CharsFacts DEF NoAnswer
  <1>5. {rxf_wb_read, rx_console_reset, r_rx_fifo_full, r_rx_fifo_err,
        tx_console_reset, txf_wb_write, r_txf_err, r_wb_ack, o_wb_ack,
        r_mie, o_interrupt, waited} \subseteq BOOLEAN
    BY <1>1, <1>3 DEF Init, ConsoleInit, IControlInit
  <1>. QED
    BY <1>1, <1>2, <1>4, <1>5, CharsFacts
       DEF Init, ConsoleInit, IControlInit, TypeOK, Registers

\* The booleans, and what the FIFOs, the registers and the answers hold.
LEMMA HardwareTypes ==
    ASSUME TypeOK, ConsoleInv, Counts, NEW req, req.data \in Chars,
           NEW w, WriteOK(w), NEW busy \in BOOLEAN, NEW stb \in BOOLEAN,
           Hardware(req, w, busy, stb)
    PROVE  /\ FifoTypeOK(rxfifo') /\ FifoTypeOK(txfifo')
           /\ rxfifo'.len = txfifo'.len /\ rxfifo'.receive /\ ~txfifo'.receive
           /\ {rxf_wb_read, rx_console_reset, r_rx_fifo_full, r_rx_fifo_err,
               tx_console_reset, txf_wb_write, r_txf_err, r_wb_ack, o_wb_ack,
               r_mie, o_interrupt}' \subseteq BOOLEAN
           /\ r_rx_fifo_data' \in Chars /\ txf_wb_data' \in Chars
           /\ r_wb_addr' \in Registers
           /\ o_wb_data' \in [flag : BOOLEAN, err : BOOLEAN, char : Chars]
           /\ r_int_state' \subseteq Ints /\ r_int_enable' \subseteq Ints
  <1>. DEFINE char == IF stb THEN typed + 1 ELSE 0
  <1>1. /\ Receive(req, stb, char) /\ Transmit(req, busy) /\ Answer(req, busy)
        /\ IControlClock(w, ConsoleInts \cap Ints)
    BY DEF Hardware, ConsoleClock
  <1>2. char \in Chars
    <2>1. stb => typed + 1 \in 0 .. MaxTyped
      BY ConsoleAssumption DEF Hardware, Counts
    <2>. QED
      BY <2>1, CharsFacts
  <1>. HIDE DEF char
  <1>3. /\ FifoTypeOK(rxfifo) /\ FifoTypeOK(txfifo)
        /\ rxfifo.len = txfifo.len /\ rxfifo.receive /\ ~txfifo.receive
        /\ rxf_wb_read \in BOOLEAN /\ rx_console_reset \in BOOLEAN
        /\ r_rx_fifo_full \in BOOLEAN /\ r_rx_fifo_err \in BOOLEAN
        /\ tx_console_reset \in BOOLEAN /\ txf_wb_write \in BOOLEAN
        /\ r_txf_err \in BOOLEAN /\ r_wb_ack \in BOOLEAN
        /\ r_mie \in BOOLEAN
        /\ r_rx_fifo_data \in Chars /\ txf_wb_data \in Chars
        /\ r_wb_addr \in Registers
        /\ r_int_state \subseteq Ints /\ r_int_enable \subseteq Ints
    BY DEF TypeOK
  <1>4. /\ rxfifo.some \in BOOLEAN /\ rxfifo.ovfl \in BOOLEAN /\ rxfifo.out \in Chars
        /\ txfifo.some \in BOOLEAN /\ txfifo.ovfl \in BOOLEAN
        /\ txfifo.over \in BOOLEAN
    BY <1>3 DEF FifoTypeOK
  <1>5. /\ FifoTypeOK(rxfifo') /\ rxfifo'.receive /\ rxfifo'.len = rxfifo.len
        /\ rxf_wb_read' \in BOOLEAN /\ rx_console_reset' \in BOOLEAN
        /\ r_rx_fifo_full' \in BOOLEAN /\ r_rx_fifo_err' \in BOOLEAN
        /\ r_rx_fifo_data' \in Chars
    <2>1. CASE WithFifo
      <3>1. /\ rxfifo' = Fifo(rxfifo, rx_console_reset, stb, char, rxf_wb_read)
            /\ UNCHANGED <<r_rx_fifo_data, r_rx_fifo_full, r_rx_fifo_err>>
            /\ rxf_wb_read' \in BOOLEAN /\ rx_console_reset' \in BOOLEAN
        BY <1>1, <2>1 DEF Receive, ReceiveFifo, Reads
      <3>2. FifoTypeOK(rxfifo')
        BY <1>2, <1>3, <2>1, <3>1, FifoTypes DEF ConsoleInv
      <3>3. rxfifo'.receive = rxfifo.receive /\ rxfifo'.len = rxfifo.len
        BY <3>1 DEF Fifo
      <3>. QED
        BY <1>3, <3>1, <3>2, <3>3
    <2>2. CASE ~WithFifo
      BY <1>1, <1>2, <1>3, <2>2 DEF Receive, ReceiveRegister, RegisterFull
    <2>. QED
      BY <2>1, <2>2
  <1>6. /\ FifoTypeOK(txfifo') /\ ~txfifo'.receive /\ txfifo'.len = txfifo.len
        /\ tx_console_reset' \in BOOLEAN /\ txf_wb_write' \in BOOLEAN
        /\ r_txf_err' \in BOOLEAN /\ txf_wb_data' \in Chars
    <2>1. CASE WithFifo
      <3>1. /\ txfifo' = Fifo(txfifo, tx_console_reset, txf_wb_write, txf_wb_data,
                              ~busy /\ txfifo.some)
            /\ txf_wb_data' = req.data /\ r_txf_err' = r_txf_err
            /\ txf_wb_write' \in BOOLEAN /\ tx_console_reset' \in BOOLEAN
        BY <1>1, <2>1 DEF Transmit, TransmitFifo, Writes
      <3>2. (~busy /\ txfifo.some) \in BOOLEAN
        OBVIOUS
      <3>3. FifoTypeOK(txfifo')
        BY <1>3, <2>1, <3>1, <3>2, FifoTypes DEF ConsoleInv
      <3>4. txfifo'.receive = txfifo.receive /\ txfifo'.len = txfifo.len
        BY <3>1 DEF Fifo
      <3>. QED
        BY <1>3, <3>1, <3>3, <3>4
    <2>2. CASE ~WithFifo
      BY <1>1, <1>3, <2>2 DEF Transmit, TransmitRegister
    <2>. QED
      BY <2>1, <2>2
  <1>7. /\ r_wb_ack' \in BOOLEAN /\ o_wb_ack' \in BOOLEAN
        /\ r_wb_addr' \in Registers
    BY <1>1, <1>3 DEF Answer, Registers
  <1>8. o_wb_data' \in [flag : BOOLEAN, err : BOOLEAN, char : Chars]
    <2>1. o_wb_data' \in {RxData, TxData(busy), FifoStatus, NoAnswer}
      BY <1>1, <1>3 DEF Answer, Registers
    <2>2. RxData \in [flag : BOOLEAN, err : BOOLEAN, char : Chars]
      BY <1>3, <1>4 DEF RxData, RxNotEmpty, RxError
    <2>3. TxData(busy) \in [flag : BOOLEAN, err : BOOLEAN, char : Chars]
      BY <1>3, <1>4, CharsFacts DEF TxData, TxBusy, TxError, ConsoleStb
    <2>4. FifoStatus \in [flag : BOOLEAN, err : BOOLEAN, char : Chars]
      BY <1>3, <1>4, CharsFacts DEF FifoStatus, NoAnswer, TxStatus, Status
    <2>5. NoAnswer \in [flag : BOOLEAN, err : BOOLEAN, char : Chars]
      BY CharsFacts DEF NoAnswer
    <2>. QED
      BY <2>1, <2>2, <2>3, <2>4, <2>5
  <1>9. /\ r_int_state' \subseteq Ints /\ r_int_enable' \subseteq Ints
    BY <1>1, <1>3 DEF IControlClock, Triggered, WriteOK
  <1>10. r_mie' \in BOOLEAN /\ o_interrupt' \in BOOLEAN
    BY <1>1, <1>3 DEF IControlClock, WriteOK, Interrupting
  <1>. QED
    BY <1>3, <1>5, <1>6, <1>7, <1>8, <1>9, <1>10

LEMMA NextTypes ==
    ASSUME TypeOK, ConsoleInv, Control, Counts, Counts', ConsoleInv', Next
    PROVE  TypeOK'
  <1>1. pc \in Writing => written < MaxWritten
    BY DEF Counts
  <1>2. PICK req, w : \E b, s \in BOOLEAN :
          /\ Hardware(req, w, b, s) /\ WriteOK(w)
          /\ Reading(req) \/ WritingOne(req) \/ Resetting(req)
    BY <1>1, NextKinds
  <1>3. req.data \in Chars
    <2>1. /\ NoReq.data = 0 /\ \A reg : ReadOf(reg).data = 0
          /\ \A reg, c : WriteOf(reg, c).data = c
          /\ \A reg : ResetBy(reg).data = 0
      BY DEF NoReq, ReadOf, WriteOf, ResetBy
    <2>2. pc = "uarttx" => written + 1 \in 0 .. MaxWritten
      BY <1>1, ConsoleAssumption DEF Writing, Counts
    <2>. QED
      BY <1>2, <2>1, <2>2, CharsFacts DEF Reading, WritingOne, Resetting
  <1>4. /\ FifoTypeOK(rxfifo') /\ FifoTypeOK(txfifo')
        /\ rxfifo'.len = txfifo'.len /\ rxfifo'.receive /\ ~txfifo'.receive
        /\ {rxf_wb_read, rx_console_reset, r_rx_fifo_full, r_rx_fifo_err,
            tx_console_reset, txf_wb_write, r_txf_err, r_wb_ack, o_wb_ack,
            r_mie, o_interrupt}' \subseteq BOOLEAN
        /\ r_rx_fifo_data' \in Chars /\ txf_wb_data' \in Chars
        /\ r_wb_addr' \in Registers
        /\ o_wb_data' \in [flag : BOOLEAN, err : BOOLEAN, char : Chars]
        /\ r_int_state' \subseteq Ints /\ r_int_enable' \subseteq Ints
    BY <1>2, <1>3, HardwareTypes
  <1>5. written' \in Chars /\ typed' \in Chars
    BY CharsFacts DEF Counts
  <1>6. sent' \in Chars
    <2>1. sent' \in 0 .. MaxWritten
      BY ConsoleAssumption DEF Counts
    <2>. QED
      BY <2>1, CharsFacts
  <1>7. got' \in Chars /\ waited' \in BOOLEAN
    <2>0. waited \in BOOLEAN /\ RxNotEmpty \in BOOLEAN
      BY DEF TypeOK, RxNotEmpty, FifoTypeOK
    <2>1. got' \in {got, o_wb_data.char} /\ waited' \in BOOLEAN
      <3>1. CASE \E busy, stb \in BOOLEAN : Elsewhere(busy, stb)
        BY <2>0, <3>1 DEF Elsewhere, Keep
      <3>2. CASE \E busy, stb \in BOOLEAN : Call(busy, stb) \/ Reset(busy, stb)
        BY <2>0, <3>2 DEF Call, Reset, Keep
      <3>3. CASE \E busy, stb \in BOOLEAN : PollRoom(busy, stb) \/ PollIdle(busy, stb)
        BY <2>0, <3>3 DEF PollRoom, PollIdle, Keep
      <3>4. CASE \E busy, stb \in BOOLEAN : Sleep(busy, stb)
        BY <2>0, <3>4 DEF Sleep, Keep
      <3>5. CASE \E busy, stb \in BOOLEAN :
                   WriteChar(busy, stb) \/ AskChar(busy, stb) \/ TakeChar(busy, stb)
        BY <2>0, <3>5 DEF WriteChar, AskChar, TakeChar, Keep
      <3>. QED
        BY <3>1, <3>2, <3>3, <3>4, <3>5 DEF Next, Clock, Program
    <2>. QED
      BY <2>1 DEF TypeOK
  <1>. QED
    BY <1>4, <1>5, <1>6, <1>7 DEF TypeOK

LEMMA NextConsole == ASSUME ConsoleInv, Next PROVE ConsoleInv'
  BY NextIsHardware, ClockInv

\* What every clock keeps.
ConsoleBase == ConsoleInv /\ Control /\ Counts /\ TypeOK
LEMMA StutterBase ==
    ASSUME ConsoleBase, UNCHANGED vars
    PROVE  ConsoleBase'
  <1>1. ConsoleInv'
    BY DEF ConsoleBase, vars, consoleVars, ConsoleInv, WithFifo, Shape, Sound,
           IndicesAgree, ShowsOldest, After
  <1>2. Control'
    BY DEF ConsoleBase, vars, consoleVars, Control, Acks, Quiet, WithFifo
  <1>3. Counts'
    BY DEF ConsoleBase, vars, consoleVars, Counts, Queued, Pending, Size, Place,
           Distance, WithFifo
  <1>4. TypeOK'
    BY DEF ConsoleBase, vars, consoleVars, picVars, TypeOK, FifoTypeOK
  <1>. QED
    BY <1>1, <1>2, <1>3, <1>4 DEF ConsoleBase
LEMMA BaseHolds == Spec => []ConsoleBase
  <1>1. Init => ConsoleBase
    BY InitInv, InitControl, InitCounts, InitTypes DEF ConsoleBase
  <1>2. ConsoleBase /\ [Next]_vars => ConsoleBase'
    <2>1. ASSUME ConsoleBase, Next PROVE ConsoleBase'
      BY <2>1, NextConsole, NextControl, NextCounts, NextTypes DEF ConsoleBase
    <2>. QED
      BY <2>1, StutterBase
  <1>. QED
    BY <1>1, <1>2, PTL DEF Spec

\* The types hold in every behaviour of the console, whatever it is built with:
\* indices of FIFOs of any length stay inside their memories, whatever overflows
\* (ufifo.v:60-191, console.v:98-290).
THEOREM ConsoleTypes == Spec => []TypeOK
  <1>1. ConsoleBase => TypeOK
    BY DEF ConsoleBase
  <1>. QED
    BY <1>1, BaseHolds, PTL

----------------------------------------------------------------------------
(* Out.                                                                       *)

\* TXWAIT waits for room only if the console is built without FIFOs, as it is:
\* the flag that it looks at says of a FIFO that it is full.
PollsAsBuilt ==
    \A len \in FifoLengthsBuilt \ {0} : Calls[len] \cap {"_outbyte", "_inbyte"} = {}

\* What the FIFO holds are the characters from the next one to send on.
HoldsNext ==
    /\ \A i : Held(txfifo, i) => txfifo.mem[i] = sent + 1 + Place(txfifo, i)
    /\ txfifo.fill = Left(txfifo)
    /\ txf_wb_write => ~txfifo.over
Outgoing ==
    /\ \/ tx_console_reset
       \/ /\ written = sent + Queued
          /\ txf_wb_write => txf_wb_data = written
          /\ WithFifo => HoldsNext
    /\ ~txfifo.ovfl /\ ~r_txf_err

Room == ~txf_wb_write /\ (WithFifo => ~txfifo.over)
\* Whatever a program takes for room is room, since nothing else writes.
RoomKnown ==
    /\ pc \in {"enable", "pic", "WAIT"} /\ "uarttxf" \in r_int_state => Room
    /\ pc = "enable" => ~r_mie /\ r_int_enable = {}
    /\ pc \in {"pic", "WAIT"} => r_int_enable \subseteq {"uarttxf"}
    /\ pc \in {"pic", "WAIT"} /\ o_interrupt => Room
    /\ pc \in {"off", "uarttx"} => Room
    /\ o_wb_ack /\ pc = "txwait" /\ o_wb_data.flag => Room
    /\ o_wb_ack /\ pc = "txbusy" /\ ~o_wb_data.flag => Room
Polls == pc \in {"_outbyte", "txwait", "_inbyte", "rv"} => ~WithFifo

LEMMA StepLeft ==
    ASSUME NEW f, Shape(f), IndicesAgree(f), ~f.receive,
           NEW wr, NEW rd, NEW g, g.len = f.len,
           g.first = IF wr THEN After(f, f.first) ELSE f.first,
           g.last = IF rd THEN f.next ELSE f.last
    PROVE  Fill(f, wr, rd) = Left(g)
  <1>1. /\ f.len \in Nat /\ f.len >= 4
        /\ f.first \in 0 .. f.len - 1 /\ f.last \in 0 .. f.len - 1
        /\ f.next = After(f, f.last)
    BY DEF Shape, IndicesAgree
  <1>2. CASE wr /\ rd
    <2>1. Fill(f, wr, rd) = Distance(f, After(f, f.first), f.last)
      BY <1>2 DEF Fill
    <2>2. Left(g) = Distance(g, After(g, After(f, f.first)), After(f, f.last))
      BY <1>1, <1>2 DEF Left
    <2>. QED
      BY <1>1, <2>1, <2>2 DEF Distance, After
  <1>3. CASE wr /\ ~rd
    BY <1>1, <1>3 DEF Fill, Left, Distance, After
  <1>4. CASE ~wr /\ rd
    BY <1>1, <1>4 DEF Fill, Left, Distance, After
  <1>5. CASE ~wr /\ ~rd
    BY <1>1, <1>5 DEF Fill, Left, Distance, After
  <1>. QED
    BY <1>2, <1>3, <1>4, <1>5

LEMMA FifoOutgoing ==
    ASSUME ConsoleInv, WithFifo, ~tx_console_reset, ~txfifo.receive,
           sent \in Nat, written = sent + Size(txfifo) + Pending,
           txf_wb_write => txf_wb_data = written, HoldsNext, ~txfifo.ovfl,
           NEW req, NEW rd, Sends(req, rd)
    PROVE  /\ ~txfifo'.ovfl
           /\ written = sent' + Size(txfifo')
           /\ \A i : Held(txfifo', i) => txfifo'.mem[i] = sent' + 1 + Place(txfifo', i)
           /\ txfifo'.fill = Left(txfifo')
           /\ ~txf_wb_write /\ ~txfifo.over => ~txfifo'.over
  <1>0. /\ Shape(txfifo) /\ IndicesAgree(txfifo)
        /\ txf_wb_write \in BOOLEAN /\ rd \in BOOLEAN /\ Pending \in {0, 1}
        /\ Size(txfifo) \in Nat
    BY PlaceFacts DEF ConsoleInv, Sound, Sends, Pending
  <1>1. Accepts(txfifo, txf_wb_write, rd) <=> txf_wb_write
    BY DEF HoldsNext, Accepts
  <1>2. Added(txfifo, txf_wb_write, rd) = Pending
    BY <1>1 DEF Added, Pending
  <1>3. /\ sent' = sent + Taken(txfifo, txf_wb_write, rd)
        /\ Taken(txfifo, txf_wb_write, rd) \in {0, 1}
    BY DEF Sends, Taken
  <1>4. Size(txfifo') = Size(txfifo) + Pending - Taken(txfifo, txf_wb_write, rd)
    BY <1>2 DEF Sends, Resized
  <1>5. written = sent' + Size(txfifo')
    BY <1>0, <1>3, <1>4
  <1>6. ~txfifo'.ovfl
    BY <1>1 DEF Sends
  <1>7. Clocked(txfifo, FALSE, txf_wb_write, txf_wb_data, rd, txfifo')
    BY DEF Sends
  <1>8. ASSUME NEW i, Held(txfifo', i)
        PROVE  txfifo'.mem[i] = sent' + 1 + Place(txfifo', i)
    <2>1. \/ txf_wb_write /\ txfifo'.mem[i] = txf_wb_data /\ Place(txfifo', i) = Size(txfifo') - 1
          \/ /\ Held(txfifo, i) /\ txfifo'.mem[i] = txfifo.mem[i]
             /\ Place(txfifo, i) = Place(txfifo', i) + Taken(txfifo, txf_wb_write, rd)
      BY <1>8 DEF Sends, Moved
    <2>2. Place(txfifo', i) \in Int
      <3>1. Shape(txfifo')
        BY <1>0, <1>7, FifoShape
      <3>. QED
        BY <1>8, <3>1, PlaceFacts DEF Held
    <2>3. CASE txf_wb_write /\ txfifo'.mem[i] = txf_wb_data /\ Place(txfifo', i) = Size(txfifo') - 1
      <3>1. txfifo'.mem[i] = written
        BY <2>3
      <3>2. sent' \in Int /\ Size(txfifo') \in Int
        BY <1>0, <1>3, <1>4
      <3>3. Place(txfifo', i) = Size(txfifo') - 1
        BY <2>3
      <3>. QED
        BY <1>5, <2>2, <3>1, <3>2, <3>3
    <2>4. CASE /\ Held(txfifo, i) /\ txfifo'.mem[i] = txfifo.mem[i]
               /\ Place(txfifo, i) = Place(txfifo', i) + Taken(txfifo, txf_wb_write, rd)
      BY <1>3, <2>2, <2>4 DEF HoldsNext
    <2>. QED
      BY <2>1, <2>3, <2>4
  <1>9. txfifo'.fill = Left(txfifo')
    <2>1. /\ txfifo'.len = txfifo.len
          /\ txfifo'.first = IF txf_wb_write THEN After(txfifo, txfifo.first) ELSE txfifo.first
          /\ txfifo'.last = IF rd THEN txfifo.next ELSE txfifo.last
      BY <1>1, <1>7 DEF Sends, Clocked
    <2>. QED
      BY <1>0, <2>1, StepLeft DEF Sends
  <1>10. ~txf_wb_write /\ ~txfifo.over => ~txfifo'.over
    BY <1>0, <1>7 DEF Clocked, WillOverflow, IndicesAgree
  <1>. QED
    BY <1>5, <1>6, <1>8, <1>9, <1>10

\* Of the state with a FIFO that is not being reset.
LEMMA OutgoingFifo ==
    ASSUME ConsoleBase, Outgoing, WithFifo, ~tx_console_reset,
           NEW req, NEW w, NEW busy \in BOOLEAN, NEW stb, Hardware(req, w, busy, stb)
    PROVE  /\ ~txfifo'.ovfl /\ txf_wb_data' = req.data
           /\ written = sent' + Size(txfifo')
           /\ \A i : Held(txfifo', i) => txfifo'.mem[i] = sent' + 1 + Place(txfifo', i)
           /\ txfifo'.fill = Left(txfifo')
           /\ ~txf_wb_write /\ ~txfifo.over => ~txfifo'.over
  <1>1. /\ ConsoleInv /\ ~txfifo.receive /\ sent \in Nat
        /\ Size(txfifo) \in Nat /\ Pending \in {0, 1}
    BY PlaceFacts DEF ConsoleBase, TypeOK, Counts, ConsoleInv, Pending
  <1>2. PICK rd : Sends(req, rd)
    BY <1>1, FifoSends
  <1>3. written = sent + Size(txfifo) + Pending
    <2>1. written = sent + Queued
      BY DEF Outgoing
    <2>. QED
      BY <1>1, <2>1 DEF Queued
  <1>4. /\ txf_wb_write => txf_wb_data = written
        /\ HoldsNext /\ ~txfifo.ovfl
    BY DEF Outgoing
  <1>5. txf_wb_data' = req.data
    BY <1>2 DEF Sends
  <1>. QED
    BY <1>1, <1>2, <1>3, <1>4, <1>5, FifoOutgoing

LEMMA RoomStays ==
    ASSUME ConsoleBase, Outgoing, Room, NEW req, NEW w, NEW busy \in BOOLEAN,
           NEW stb, Hardware(req, w, busy, stb), ~Writes(req, "tx")
    PROVE  Room'
  <1>1. Lines(req)
    BY HardwareLines
  <1>2. WithFifo' <=> WithFifo
    BY <1>1 DEF Lines, WithFifo
  <1>3. CASE ~WithFifo
    BY <1>2, <1>3, RegisterSends DEF Room
  <1>4. CASE WithFifo /\ tx_console_reset
    <2>1. ~txfifo'.over
      BY <1>4, TxReset DEF ConsoleBase
    <2>. QED
      BY <1>1, <1>4, <2>1 DEF Lines, Room
  <1>5. CASE WithFifo /\ ~tx_console_reset
    <2>1. ~txfifo'.over
      BY <1>5, OutgoingFifo DEF Room
    <2>. QED
      BY <1>1, <1>5, <2>1 DEF Lines, Room
  <1>. QED
    BY <1>3, <1>4, <1>5

LEMMA NextOutgoing ==
    ASSUME ConsoleBase, ConsoleBase', Outgoing, RoomKnown, Next
    PROVE  Outgoing'
  <1>1. PICK req, w : \E b, s \in BOOLEAN :
          /\ Hardware(req, w, b, s)
          /\ Reading(req) \/ WritingOne(req) \/ Resetting(req)
    BY NextKinds DEF ConsoleBase, Counts
  <1>2. PICK busy \in BOOLEAN, stb \in BOOLEAN :
          /\ Hardware(req, w, busy, stb)
          /\ Reading(req) \/ WritingOne(req) \/ Resetting(req)
    BY <1>1
  <1>3. \/ ~Writes(req, "tx") /\ written' = written
        \/ /\ Writes(req, "tx") /\ req.data = written + 1
           /\ written' = written + 1 /\ Room
           /\ pc = "uarttx" /\ ~Writes(req, "setup") /\ ~req.clear
    BY <1>2, RequestWrites DEF Reading, WritingOne, Resetting, RoomKnown
  <1>4. Lines(req)
    BY <1>2, HardwareLines
  <1>5. WithFifo' <=> WithFifo
    BY <1>4 DEF Lines, WithFifo
  <1>6. written \in Nat /\ sent \in Nat /\ written' \in Nat /\ sent' \in Nat
    BY ConsoleAssumption DEF ConsoleBase, Counts
  <1>7. ~txfifo.ovfl /\ ~r_txf_err
    BY DEF Outgoing
  <1>8. CASE ~WithFifo
    <2>1. /\ sent' = IF txf_wb_write /\ ~busy THEN sent + 1 ELSE sent
          /\ txf_wb_write' <=> Writes(req, "tx") \/ (txf_wb_write /\ busy)
          /\ txf_wb_data' = IF Writes(req, "tx") /\ ~txf_wb_write THEN req.data
                            ELSE txf_wb_data
          /\ r_txf_err' => r_txf_err \/ (Writes(req, "tx") /\ txf_wb_write)
          /\ UNCHANGED <<txfifo, tx_console_reset>>
      BY <1>2, <1>8, RegisterSends
    <2>2. /\ written = sent + Pending
          /\ txf_wb_write => txf_wb_data = written
      BY <1>8 DEF Outgoing, Queued, ConsoleBase, Control, Quiet
    <2>3. Room => ~txf_wb_write
      BY DEF Room
    <2>4. /\ written' = sent' + Pending'
          /\ txf_wb_write' => txf_wb_data' = written'
          /\ ~r_txf_err' /\ ~txfifo'.ovfl
      BY <1>3, <1>6, <1>7, <2>1, <2>2, <2>3 DEF Pending
    <2>. QED
      BY <1>5, <1>8, <2>4 DEF Outgoing, Queued
  <1>9. CASE WithFifo /\ tx_console_reset
    <2>1. ~Writes(req, "tx") /\ written' = written /\ written = 0
      BY <1>3, <1>9 DEF ConsoleBase, Control, Quiet
    <2>2. sent' = 0
      BY <1>6, <2>1 DEF ConsoleBase, Counts
    <2>3. Size(txfifo') = 0 /\ ~txfifo'.ovfl /\ txfifo'.fill = Left(txfifo')
      BY <1>2, <1>9, TxReset DEF ConsoleBase, TypeOK
    <2>4. ~txf_wb_write' /\ r_txf_err' = r_txf_err
      BY <1>2, <1>4, <1>9, <2>1
         DEF Lines, Hardware, ConsoleClock, Transmit, TransmitFifo
    <2>5. HoldsNext'
      <3>1. \A i : ~Held(txfifo', i)
        <4>1. Shape(txfifo')
          BY <1>5, <1>9 DEF ConsoleBase, ConsoleInv
        <4>. QED
          BY <2>3, <4>1, PlaceFacts DEF Held
      <3>. QED
        BY <2>3, <2>4, <3>1 DEF HoldsNext, Held, Left, Size, Place, Distance, After
    <2>6. Queued' = 0
      BY <1>5, <1>9, <2>3, <2>4 DEF Queued, Pending
    <2>7. written' = sent' + Queued'
      BY <2>1, <2>2, <2>6
    <2>. QED
      BY <1>7, <2>3, <2>4, <2>5, <2>7 DEF Outgoing
  <1>10. CASE WithFifo /\ ~tx_console_reset
    <2>1. /\ ~txfifo'.ovfl /\ txf_wb_data' = req.data
          /\ written = sent' + Size(txfifo')
          /\ \A i : Held(txfifo', i) => txfifo'.mem[i] = sent' + 1 + Place(txfifo', i)
          /\ txfifo'.fill = Left(txfifo')
          /\ ~txf_wb_write /\ ~txfifo.over => ~txfifo'.over
      BY <1>2, <1>10, OutgoingFifo
    <2>2. r_txf_err' = r_txf_err /\ (txf_wb_write' <=> Writes(req, "tx"))
      BY <1>2, <1>4, <1>10
         DEF Lines, Hardware, ConsoleClock, Transmit, TransmitFifo
    <2>3. txf_wb_write' => ~txfifo'.over
      BY <1>3, <1>10, <2>1, <2>2 DEF Room
    <2>4. HoldsNext'
      BY <2>1, <2>3 DEF HoldsNext, Held, Left, Size, Place, Distance, After
    <2>5. written' = sent' + Queued'
      <3>1. Shape(txfifo')
        BY <1>5, <1>10 DEF ConsoleBase, ConsoleInv
      <3>2. Size(txfifo') \in Nat
        BY <3>1, PlaceFacts
      <3>3. Queued' = Size(txfifo') + IF Writes(req, "tx") THEN 1 ELSE 0
        BY <1>5, <1>10, <2>2 DEF Queued, Pending
      <3>. QED
        BY <1>3, <1>6, <2>1, <3>2, <3>3
    <2>6. txf_wb_write' => txf_wb_data' = written'
      BY <1>3, <2>1, <2>2
    <2>. QED
      BY <1>7, <2>1, <2>2, <2>4, <2>5, <2>6 DEF Outgoing
  <1>. QED
    BY <1>8, <1>9, <1>10

\* The interrupt of a FIFO that is not full comes while half of it is free.
LEMMA LineIsRoom ==
    ASSUME ConsoleBase, Outgoing, pc # "idle", "uarttxf" \in ConsoleInts
    PROVE  Room
  <1>1. TxfInt
    BY DEF ConsoleInts
  <1>2. CASE ~WithFifo
    BY <1>1, <1>2 DEF TxfInt, Room
  <1>3. CASE WithFifo
    <2>1. ~txf_wb_write /\ ~tx_console_reset
      BY <1>3 DEF ConsoleBase, Control, Quiet
    <2>2. Shape(txfifo) /\ IndicesAgree(txfifo) /\ txfifo.fill = Left(txfifo)
      BY <1>3, <2>1 DEF ConsoleBase, ConsoleInv, Sound, Outgoing, HoldsNext
    <2>3. txfifo.fill >= txfifo.len \div 2
      BY <1>1, <1>3 DEF TxfInt, HalfFull
    <2>4. txfifo.len \in Nat /\ txfifo.len >= 4
      BY <2>2 DEF Shape
    <2>5. txfifo.fill > 0
      BY <2>2, <2>3, <2>4 DEF Shape, Left, Distance, After
    <2>6. txfifo.over => Left(txfifo) = 0
      BY <2>2 DEF Shape, IndicesAgree, Left, Distance
    <2>. QED
      BY <2>1, <2>2, <2>5, <2>6 DEF Room
  <1>. QED
    BY <1>2, <1>3

\* So is an answer to TXWAIT or to TXBUSY.
LEMMA AnswerIsRoom ==
    ASSUME ConsoleBase, Outgoing, Polls, r_wb_ack, pc \in {"txwait", "txbusy"},
           NEW busy, Answer(NoReq, busy),
           o_wb_data'.flag <=> pc = "txwait"
    PROVE  Room
  <1>1. r_wb_addr = Asked(pc)
    BY DEF ConsoleBase, Control, Acks, Waiting
  <1>2. CASE pc = "txwait"
    <2>1. o_wb_data' = FifoStatus /\ ~WithFifo
      BY <1>1, <1>2 DEF Asked, Answer, Polls
    <2>. QED
      BY <1>2, <2>1 DEF FifoStatus, NoAnswer, TxStatus, Room
  <1>3. CASE pc = "txbusy"
    <2>1. o_wb_data' = TxData(busy)
      BY <1>1, <1>3 DEF Asked, Answer
    <2>2. ~ConsoleStb
      BY <1>3, <2>1 DEF TxData, TxBusy
    <2>3. CASE ~WithFifo
      BY <2>2, <2>3 DEF ConsoleStb, Room
    <2>4. CASE WithFifo
      <3>1. ~txf_wb_write /\ ~tx_console_reset
        BY <1>3, <2>4 DEF ConsoleBase, Control, Quiet
      <3>2. ~txfifo.some /\ Shape(txfifo) /\ IndicesAgree(txfifo)
        BY <2>2, <2>4, <3>1 DEF ConsoleStb, ConsoleBase, ConsoleInv, Sound
      <3>3. ~txfifo.over
        BY <3>2, AfterFacts DEF IndicesAgree, Shape
      <3>. QED
        BY <3>1, <3>3 DEF Room
    <2>. QED
      BY <2>3, <2>4
  <1>. QED
    BY <1>2, <1>3

LEMMA NextPolls ==
    ASSUME PollsAsBuilt, ConsoleBase, Polls, Next
    PROVE  Polls'
  <1>1. PICK busy \in BOOLEAN, stb \in BOOLEAN : Clock(busy, stb)
    BY DEF Next
  <1>2. WithFifo' <=> WithFifo
    <2>1. PICK req, w, b : \E s \in BOOLEAN : Hardware(req, w, b, s)
      BY NextIsHardware
    <2>2. Lines(req)
      BY <2>1, HardwareLines
    <2>. QED
      BY <2>2 DEF Lines, WithFifo
  <1>3. CASE Call(busy, stb)
    <2>1. PICK p \in Calls[rxfifo.len] : pc' = p
      BY <1>3 DEF Call, Goto
    <2>2. WithFifo => Calls[rxfifo.len] \cap {"_outbyte", "_inbyte"} = {}
      BY DEF PollsAsBuilt, ConsoleBase, ConsoleInv, WithFifo
    <2>3. pc' # "txwait" /\ pc' # "rv"
      <3>1. Calls[rxfifo.len] \subseteq {"_outbyte", "_inbyte", "wbregs", "txchr",
                                         "wait", "reset"}
        BY ConsoleAssumption DEF ConsoleBase, ConsoleInv
      <3>. QED
        BY <2>1, <3>1
    <2>. QED
      BY <1>2, <2>1, <2>2, <2>3 DEF Polls
  <1>4. CASE Elsewhere(busy, stb)
    BY <1>2, <1>4 DEF Elsewhere, Polls
  <1>5. CASE Reset(busy, stb) \/ WriteChar(busy, stb)
    BY <1>5 DEF Reset, WriteChar, Goto, Polls
  <1>6. CASE PollRoom(busy, stb) \/ PollIdle(busy, stb) \/ Sleep(busy, stb)
    BY <1>2, <1>6 DEF PollRoom, PollIdle, Sleep, Goto, Polls
  <1>7. CASE AskChar(busy, stb) \/ TakeChar(busy, stb)
    BY <1>2, <1>7 DEF AskChar, TakeChar, Goto, Polls
  <1>. QED
    BY <1>1, <1>3, <1>4, <1>5, <1>6, <1>7 DEF Clock, Program

LEMMA NextRoom ==
    ASSUME ConsoleBase, Outgoing, RoomKnown, Polls, Next
    PROVE  RoomKnown'
  <1>1. PICK busy \in BOOLEAN, stb \in BOOLEAN : Clock(busy, stb)
    BY DEF Next
  <1>2. ASSUME NEW w, Hardware(NoReq, w, busy, stb)
        PROVE  /\ Room => Room'
               /\ "uarttxf" \in r_int_state' /\ pc # "idle" =>
                    "uarttxf" \in r_int_state \ w.clear \/ Room'
               /\ IControlClock(w, ConsoleInts \cap Ints)
               /\ (o_wb_ack' <=> r_wb_ack) /\ Answer(NoReq, busy)
    <2>1. Room => Room'
      <3>1. ~Writes(NoReq, "tx")
        BY DEF Writes, NoReq
      <3>. QED
        BY <1>2, <3>1, RoomStays
    <2>2. /\ IControlClock(w, ConsoleInts \cap Ints)
          /\ o_wb_ack' = r_wb_ack /\ Answer(NoReq, busy)
      BY <1>2 DEF Hardware, ConsoleClock, Answer
    <2>3. r_int_state' = (r_int_state \ w.clear) \cup (ConsoleInts \cap Ints)
      BY <2>2 DEF IControlClock, Triggered
    <2>. QED
      BY <2>1, <2>2, <2>3, LineIsRoom
  <1>3. ASSUME NEW w, Hardware(NoReq, w, busy, stb), pc \in {"pic", "WAIT"}, o_interrupt'
        PROVE  Room'
    <2>1. r_int_state \cap r_int_enable # {}
      BY <1>2, <1>3 DEF IControlClock, Interrupting
    <2>2. Room
      BY <1>3, <2>1 DEF RoomKnown
    <2>. QED
      BY <1>2, <1>3, <2>2
  <1>4. CASE Elsewhere(busy, stb)
    <2>1. Hardware(NoReq, NoWrite, busy, stb) /\ pc' = pc
      BY <1>4 DEF Elsewhere, Request
    <2>2. pc \in {"enable", "pic", "WAIT"} /\ "uarttxf" \in r_int_state' => Room'
      BY <1>2, <2>1 DEF RoomKnown
    <2>3. /\ r_int_enable' = r_int_enable /\ r_mie' = r_mie
      BY <1>2, <2>1 DEF IControlClock, NoWrite
    <2>4. pc \in {"pic", "WAIT"} /\ o_interrupt' => Room'
      BY <1>3, <2>1
    <2>5. pc \in {"off", "uarttx"} => Room'
      BY <1>2, <2>1 DEF RoomKnown
    <2>6. ASSUME o_wb_ack', pc \in {"txwait", "txbusy"},
                 o_wb_data'.flag <=> pc = "txwait"
          PROVE  Room'
      <3>1. r_wb_ack /\ Answer(NoReq, busy)
        BY <1>2, <2>1, <2>6
      <3>. QED
        BY <1>2, <2>1, <2>6, <3>1, AnswerIsRoom
    <2>. QED
      BY <2>1, <2>2, <2>3, <2>4, <2>5, <2>6 DEF RoomKnown
  <1>5. CASE \/ Call(busy, stb) \/ Reset(busy, stb) \/ WriteChar(busy, stb)
             \/ AskChar(busy, stb) \/ TakeChar(busy, stb)
    <2>1. pc' \in {"_outbyte", "_inbyte", "wbregs", "txchr", "wait", "idle", "rv", "value"}
      <3>1. Calls[rxfifo.len] \subseteq {"_outbyte", "_inbyte", "wbregs", "txchr",
                                         "wait", "reset"}
        BY ConsoleAssumption DEF ConsoleBase, ConsoleInv
      <3>. QED
        BY <1>5, <3>1 DEF Call, Reset, WriteChar, AskChar, TakeChar, Goto
    <2>. QED
      BY <2>1 DEF RoomKnown
  <1>6. CASE PollRoom(busy, stb) \/ PollIdle(busy, stb)
    <2>1. CASE \/ Goto("_outbyte", "txwait") /\ Request(ReadOf("fifo"), busy, stb)
               \/ Goto("txchr", "txbusy") /\ Request(ReadOf("tx"), busy, stb)
      <3>1. ~r_wb_ack
        BY <2>1 DEF Goto, ConsoleBase, Control, Acks, Waiting
      <3>2. ~o_wb_ack'
        BY <2>1, <3>1 DEF Request, Hardware, ConsoleClock, Answer
      <3>. QED
        BY <2>1, <3>2 DEF Goto, RoomKnown
    <2>2. CASE /\ o_wb_ack /\ Request(NoReq, busy, stb)
               /\ \/ Goto("txwait", IF o_wb_data.flag THEN "uarttx" ELSE "_outbyte")
                  \/ Goto("txbusy", IF o_wb_data.flag THEN "txchr" ELSE "uarttx")
      <3>1. pc' \in {"uarttx", "_outbyte", "txchr"} /\ (pc' = "uarttx" => Room)
        BY <2>2 DEF Goto, RoomKnown
      <3>2. Room => Room'
        BY <1>2, <2>2 DEF Request
      <3>. QED
        BY <3>1, <3>2 DEF RoomKnown
    <2>. QED
      BY <1>6, <2>1, <2>2 DEF PollRoom, PollIdle
  <1>7. CASE Sleep(busy, stb)
    <2>1. CASE /\ Goto("wait", "enable")
               /\ Pic(PicWrite(Ints, Ints, FALSE), busy, stb)
      <3>. DEFINE w == PicWrite(Ints, Ints, FALSE)
      <3>0. /\ w.write /\ w.master /\ w.clear = Ints /\ w.mask = Ints
            /\ w.enable = FALSE
        BY DEF PicWrite, NoWrite
      <3>1. Hardware(NoReq, w, busy, stb)
        BY <2>1 DEF Pic
      <3>. HIDE DEF w
      <3>5. IControlClock(w, ConsoleInts \cap Ints)
        BY <1>2, <3>1
      <3>2. r_int_state \subseteq Ints /\ r_int_enable \subseteq Ints
        BY DEF ConsoleBase, TypeOK
      <3>3. "uarttxf" \in r_int_state' => Room'
        <4>1. /\ Room => Room'
              /\ "uarttxf" \in r_int_state' =>
                   "uarttxf" \in r_int_state \ w.clear \/ Room'
          BY <1>2, <2>1, <3>1 DEF Goto
        <4>. QED
          BY <3>0, <3>2, <4>1
      <3>4. ~r_mie' /\ r_int_enable' = {}
        BY <3>0, <3>2, <3>5 DEF IControlClock
      <3>. QED
        BY <2>1, <3>3, <3>4 DEF Goto, RoomKnown
    <2>2. CASE /\ Goto("enable", "pic")
               /\ Pic(PicWrite({}, {"uarttxf"}, TRUE), busy, stb)
      <3>. DEFINE w == PicWrite({}, {"uarttxf"}, TRUE)
      <3>0. w.write /\ w.mask = {"uarttxf"}
        BY DEF PicWrite, NoWrite
      <3>1. Hardware(NoReq, w, busy, stb)
        BY <2>2 DEF Pic
      <3>. HIDE DEF w
      <3>2. r_int_enable = {} /\ ~r_mie
        BY <2>2 DEF Goto, RoomKnown
      <3>3. "uarttxf" \in r_int_state' => Room'
        BY <1>2, <2>2, <3>1 DEF Goto, RoomKnown
      <3>4. ~o_interrupt' /\ r_int_enable' \subseteq {"uarttxf"}
        <4>1. IControlClock(w, ConsoleInts \cap Ints)
          BY <1>2, <3>1
        <4>. QED
          BY <3>0, <3>2, <4>1 DEF IControlClock, Interrupting
      <3>. QED
        BY <2>2, <3>3, <3>4 DEF Goto, RoomKnown
    <2>3. CASE Goto("pic", "WAIT") /\ Request(NoReq, busy, stb)
      <3>1. Hardware(NoReq, NoWrite, busy, stb)
        BY <2>3 DEF Request
      <3>2. "uarttxf" \in r_int_state' => Room'
        BY <1>2, <2>3, <3>1 DEF Goto, RoomKnown
      <3>3. (o_interrupt' => Room') /\ r_int_enable' = r_int_enable
        BY <1>2, <1>3, <2>3, <3>1 DEF Goto, IControlClock, NoWrite
      <3>. QED
        BY <2>3, <3>2, <3>3 DEF Goto, RoomKnown
    <2>4. CASE o_interrupt /\ Goto("WAIT", "off") /\ Request(NoReq, busy, stb)
      BY <1>2, <2>4 DEF Goto, Request, RoomKnown
    <2>5. CASE Goto("off", "uarttx") /\ Pic(PicWrite({}, {}, FALSE), busy, stb)
      BY <1>2, <2>5 DEF Goto, Pic, RoomKnown
    <2>. QED
      BY <1>7, <2>1, <2>2, <2>3, <2>4, <2>5 DEF Sleep
  <1>. QED
    BY <1>1, <1>4, <1>5, <1>6, <1>7 DEF Clock, Program

----------------------------------------------------------------------------
(* In.                                                                        *)

\* What a FIFO holds came after c and by t, in the order of their places.
Ordered(f, c, t) ==
    /\ \A i : Held(f, i) => f.mem[i] \in c + 1 .. t
    /\ \A i, j : Held(f, i) /\ Held(f, j) /\ Place(f, i) < Place(f, j)
                   => f.mem[i] < f.mem[j]
Returning == {"rv", "value"}
\* A character on its way to a read, and those behind it, come after the last.
Incoming ==
    /\ got \in 0 .. typed
    /\ WithFifo /\ ~rx_console_reset => Ordered(rxfifo, got, typed)
    /\ pc \in Returning /\ r_wb_ack /\ ~WithFifo /\ r_rx_fifo_full =>
         r_rx_fifo_data \in got + 1 .. typed
    /\ pc \in Returning /\ ~r_wb_ack /\ ~o_wb_data.flag =>
         /\ o_wb_data.char \in got + 1 .. typed
         /\ WithFifo => Ordered(rxfifo, o_wb_data.char, typed)

\* A word added is the latest one, and the order is that of the FIFO before.
LEMMA StepOrdered ==
    ASSUME NEW f, NEW g, Shape(f), Shape(g), NEW wr, NEW data, NEW rd,
           Moved(f, wr, data, rd, g), NEW t \in Nat, wr => data = t + 1,
           NEW u, u = IF wr THEN t + 1 ELSE t,
           NEW c \in 0 .. t, Ordered(f, c, t)
    PROVE  /\ Ordered(g, c, u)
           /\ \A i : /\ Held(f, i) /\ Place(f, i) = 0
                     /\ Taken(f, wr, rd) = 1
                     => Ordered(g, f.mem[i], u)
  <1>1. ASSUME NEW i, Held(g, i)
        PROVE  /\ \/ wr /\ g.mem[i] = t + 1 /\ Place(g, i) = Size(g) - 1
                  \/ /\ Held(f, i) /\ g.mem[i] = f.mem[i]
                     /\ Place(f, i) = Place(g, i) + Taken(f, wr, rd)
               /\ Place(g, i) \in Nat /\ Size(g) \in Nat /\ Place(g, i) < Size(g)
    BY <1>1, PlaceFacts DEF Moved, Held
  <1>2. \A i : Held(f, i) => f.mem[i] \in c + 1 .. t
    BY DEF Ordered
  <1>3. Taken(f, wr, rd) \in {0, 1}
    BY DEF Taken
  <1>4. ASSUME NEW i, NEW j, Held(g, i), Held(g, j), Place(g, i) < Place(g, j)
        PROVE  g.mem[i] < g.mem[j]
    <2>1. /\ Held(f, i) /\ g.mem[i] = f.mem[i]
          /\ Place(f, i) = Place(g, i) + Taken(f, wr, rd)
      BY <1>1, <1>4
    <2>2. CASE wr /\ g.mem[j] = t + 1
      BY <1>2, <2>1, <2>2
    <2>3. CASE /\ Held(f, j) /\ g.mem[j] = f.mem[j]
               /\ Place(f, j) = Place(g, j) + Taken(f, wr, rd)
      <3>1. Place(f, i) < Place(f, j)
        BY <1>1, <1>3, <1>4, <2>1, <2>3
      <3>. QED
        BY <2>1, <2>3, <3>1 DEF Ordered
    <2>. QED
      BY <1>1, <1>4, <2>2, <2>3
  <1>5. ASSUME NEW i, Held(g, i)
        PROVE  g.mem[i] \in c + 1 .. u
    BY <1>1, <1>2, <1>5
  <1>6. Ordered(g, c, u)
    BY <1>4, <1>5 DEF Ordered
  <1>7. ASSUME NEW k, Held(f, k), Place(f, k) = 0, Taken(f, wr, rd) = 1
        PROVE  Ordered(g, f.mem[k], u)
    <2>1. ASSUME NEW i, Held(g, i)
          PROVE  g.mem[i] \in f.mem[k] + 1 .. u
      <3>1. f.mem[k] \in c + 1 .. t
        BY <1>2, <1>7
      <3>2. CASE wr /\ g.mem[i] = t + 1
        BY <3>1, <3>2
      <3>3. CASE /\ Held(f, i) /\ g.mem[i] = f.mem[i]
                 /\ Place(f, i) = Place(g, i) + Taken(f, wr, rd)
        <4>1. Place(f, k) < Place(f, i)
          BY <1>1, <1>7, <2>1, <3>3
        <4>2. f.mem[k] < f.mem[i]
          BY <1>7, <3>3, <4>1 DEF Ordered
        <4>. QED
          BY <1>2, <3>1, <3>3, <4>2
      <3>. QED
        BY <1>1, <2>1, <3>2, <3>3
    <2>. QED
      BY <1>4, <2>1 DEF Ordered
  <1>. QED
    BY <1>6, <1>7

LEMMA RxClock ==
    ASSUME ConsoleInv, ConsoleInv', Counts, WithFifo, NEW req, NEW w, NEW busy,
           NEW stb \in BOOLEAN, Hardware(req, w, busy, stb)
    PROVE  /\ rx_console_reset => \A c : Ordered(rxfifo', c, typed')
           /\ ~rx_console_reset => \A c \in 0 .. typed :
                Ordered(rxfifo, c, typed) =>
                  /\ Ordered(rxfifo', c, typed')
                  /\ rxf_wb_read /\ rxfifo.some =>
                       /\ rxfifo.out \in c + 1 .. typed
                       /\ Ordered(rxfifo', rxfifo.out, typed')
  <1>. DEFINE char == IF stb THEN typed + 1 ELSE 0
  <1>1. rxfifo' = Fifo(rxfifo, rx_console_reset, stb, char, rxf_wb_read)
    BY DEF Hardware, ConsoleClock, Receive, ReceiveFifo
  <1>2. /\ Shape(rxfifo) /\ Shape(rxfifo') /\ rxf_wb_read \in BOOLEAN
        /\ rx_console_reset \in BOOLEAN
    <2>1. WithFifo'
      BY <1>1 DEF Fifo, WithFifo
    <2>. QED
      BY <2>1 DEF ConsoleInv
  <1>3. typed \in Nat /\ typed' = IF stb THEN typed + 1 ELSE typed
    BY DEF Counts, Hardware
  <1>4. stb => char = typed + 1
    OBVIOUS
  <1>. HIDE DEF char
  <1>5. ASSUME rx_console_reset, NEW c PROVE Ordered(rxfifo', c, typed')
    <2>1. rxfifo'.first = 0 /\ rxfifo'.last = 0
      BY <1>1, <1>5 DEF Fifo
    <2>2. \A i : ~Held(rxfifo', i)
      BY <1>2, <2>1, PlaceFacts DEF Held
    <2>. QED
      BY <2>2 DEF Ordered
  <1>6. ASSUME ~rx_console_reset, NEW c \in 0 .. typed, Ordered(rxfifo, c, typed)
        PROVE  /\ Ordered(rxfifo', c, typed')
               /\ rxf_wb_read /\ rxfifo.some =>
                    /\ rxfifo.out \in c + 1 .. typed
                    /\ Ordered(rxfifo', rxfifo.out, typed')
    <2>1. IndicesAgree(rxfifo) /\ ShowsOldest(rxfifo) /\ rx_console_reset = FALSE
      BY <1>2, <1>6 DEF ConsoleInv, Sound
    <2>2. Clocked(rxfifo, FALSE, stb, char, rxf_wb_read, rxfifo')
      BY <1>1, <2>1, FifoClocked
    <2>3. Moved(rxfifo, stb, char, rxf_wb_read, rxfifo')
      BY <1>2, <2>1, <2>2, StepHeld
    <2>4. /\ Ordered(rxfifo', c, typed')
          /\ \A i : /\ Held(rxfifo, i) /\ Place(rxfifo, i) = 0
                    /\ Taken(rxfifo, stb, rxf_wb_read) = 1
                    => Ordered(rxfifo', rxfifo.mem[i], typed')
      BY <1>2, <1>3, <1>4, <1>6, <2>3, StepOrdered
    <2>5. ASSUME rxf_wb_read, rxfifo.some
          PROVE  /\ rxfifo.out \in c + 1 .. typed
                 /\ Ordered(rxfifo', rxfifo.out, typed')
      <3>1. rxfifo.out = rxfifo.mem[rxfifo.last]
        BY <2>1, <2>5 DEF ShowsOldest
      <3>2. Held(rxfifo, rxfifo.last) /\ Place(rxfifo, rxfifo.last) = 0
        <4>1. rxfifo.first # rxfifo.last
          BY <2>1, <2>5 DEF IndicesAgree
        <4>2. /\ Size(rxfifo) \in 0 .. rxfifo.len - 1 /\ Size(rxfifo) # 0
              /\ Place(rxfifo, rxfifo.last) = 0
          BY <1>2, <4>1, PlaceFacts
        <4>3. rxfifo.last \in 0 .. rxfifo.len - 1 /\ rxfifo.len \in Nat
          BY <1>2 DEF Shape
        <4>. QED
          BY <4>2, <4>3 DEF Held
      <3>3. Taken(rxfifo, stb, rxf_wb_read) = 1
        BY <2>1, <2>5 DEF Taken, Advances, IndicesAgree
      <3>. QED
        BY <1>6, <2>4, <3>1, <3>2, <3>3 DEF Ordered
    <2>. QED
      BY <2>4, <2>5
  <1>. QED
    BY <1>5, <1>6

\* A clock that neither asks for a character nor has one to return.
LEMMA KeepsIncoming ==
    ASSUME ConsoleBase, ConsoleBase', Incoming, got' = got, pc' \notin Returning,
           pc \notin Returning, NEW req, NEW w, NEW busy, NEW stb \in BOOLEAN,
           Hardware(req, w, busy, stb)
    PROVE  Incoming'
  <1>1. got \in 0 .. typed /\ typed \in Nat /\ typed' = IF stb THEN typed + 1 ELSE typed
    BY DEF Incoming, ConsoleBase, Counts, Hardware
  <1>2. (WithFifo' <=> WithFifo) /\ got' \in 0 .. typed'
    BY <1>1, HardwareLines DEF Lines, WithFifo
  <1>3. WithFifo => Ordered(rxfifo', got, typed')
    BY <1>1, RxClock DEF ConsoleBase, Incoming
  <1>4. WithFifo' /\ ~rx_console_reset' => Ordered(rxfifo', got', typed')
    BY <1>2, <1>3
  <1>. QED
    BY <1>2, <1>4 DEF Incoming

LEMMA AskIncoming ==
    ASSUME ConsoleBase, ConsoleBase', Incoming, NEW busy \in BOOLEAN,
           NEW stb \in BOOLEAN, AskChar(busy, stb)
    PROVE  Incoming'
  <1>1. /\ pc \in {"_inbyte", "wbregs"} /\ got' = got
        /\ Hardware(ReadOf("rx"), NoWrite, busy, stb)
    BY DEF AskChar, Goto, Request
  <1>2. got \in 0 .. typed /\ typed \in Nat /\ typed' = IF stb THEN typed + 1 ELSE typed
    BY <1>1 DEF Incoming, ConsoleBase, Counts, Hardware
  <1>3. Lines(ReadOf("rx"))
    BY <1>1, HardwareLines
  <1>4. (WithFifo' <=> WithFifo) /\ r_wb_ack'
    BY <1>3, ReadLines
  <1>5. WithFifo => Ordered(rxfifo', got, typed')
    BY <1>1, <1>2, RxClock DEF ConsoleBase, Incoming
  <1>6. ~WithFifo /\ r_rx_fifo_full' => r_rx_fifo_data' \in got' + 1 .. typed'
    <2>1. Reads(ReadOf("rx"), "rx")
      BY DEF Reads, ReadOf, NoReq
    <2>2. ~WithFifo => /\ r_rx_fifo_full' <=> stb
                       /\ stb => r_rx_fifo_data' = typed + 1
      BY <1>1, <2>1 DEF Hardware, ConsoleClock, Receive, ReceiveRegister, RegisterFull
    <2>. QED
      BY <1>1, <1>2, <2>2
  <1>. QED
    BY <1>1, <1>2, <1>4, <1>5, <1>6 DEF Incoming

\* The answer is made in the clock in which the FIFO gives the word away.
LEMMA AnswerIncoming ==
    ASSUME ConsoleBase, ConsoleBase', Incoming, NEW busy \in BOOLEAN,
           NEW stb \in BOOLEAN, Elsewhere(busy, stb), pc \in Returning
    PROVE  Incoming'
  <1>1. /\ pc' = pc /\ got' = got /\ Hardware(NoReq, NoWrite, busy, stb)
        /\ ~o_wb_ack
    BY DEF Elsewhere, Request, Keep, Returning
  <1>2. got \in 0 .. typed /\ typed \in Nat /\ typed' = IF stb THEN typed + 1 ELSE typed
    BY <1>1 DEF Incoming, ConsoleBase, Counts, Hardware
  <1>3. Lines(NoReq)
    BY <1>1, HardwareLines
  <1>4. (WithFifo' <=> WithFifo) /\ ~r_wb_ack'
    BY <1>3, NoReqLines
  <1>5. r_wb_ack /\ r_wb_addr = "rx" /\ (WithFifo => rxf_wb_read)
    BY <1>1 DEF ConsoleBase, Control, Acks, Waiting, Returning, Asked
  <1>6. WithFifo => ~rx_console_reset
    BY DEF ConsoleBase, Control, Quiet, Returning
  <1>7. o_wb_data' = RxData
    BY <1>1, <1>5 DEF Hardware, ConsoleClock, Answer
  <1>8. WithFifo => /\ Ordered(rxfifo', got, typed')
                    /\ rxfifo.some => /\ rxfifo.out \in got + 1 .. typed
                                      /\ Ordered(rxfifo', rxfifo.out, typed')
    BY <1>1, <1>2, <1>5, <1>6, RxClock DEF ConsoleBase, Incoming
  <1>9. ~o_wb_data'.flag =>
          /\ o_wb_data'.char \in got' + 1 .. typed'
          /\ WithFifo' => Ordered(rxfifo', o_wb_data'.char, typed')
    <2>. SUFFICES ASSUME ~o_wb_data'.flag
                  PROVE  /\ o_wb_data'.char \in got' + 1 .. typed'
                         /\ WithFifo' => Ordered(rxfifo', o_wb_data'.char, typed')
      OBVIOUS
    <2>1. RxNotEmpty
      BY <1>7 DEF RxData
    <2>2. CASE WithFifo
      <3>1. o_wb_data'.char = rxfifo.out /\ rxfifo.some
        BY <1>7, <2>1, <2>2 DEF RxData, RxNotEmpty
      <3>2. /\ rxfifo.out \in got + 1 .. typed
            /\ Ordered(rxfifo', rxfifo.out, typed')
        BY <1>8, <2>2, <3>1
      <3>3. rxfifo.out \in got' + 1 .. typed'
        BY <1>1, <1>2, <3>2
      <3>. QED
        BY <3>1, <3>2, <3>3
    <2>3. CASE ~WithFifo
      <3>1. o_wb_data'.char = r_rx_fifo_data /\ r_rx_fifo_full
        BY <1>7, <2>1, <2>3 DEF RxData, RxNotEmpty
      <3>2. r_rx_fifo_data \in got + 1 .. typed
        BY <1>5, <2>3, <3>1 DEF Incoming
      <3>3. r_rx_fifo_data \in got' + 1 .. typed'
        BY <1>1, <1>2, <3>2
      <3>. QED
        BY <1>4, <2>3, <3>1, <3>3
    <2>. QED
      BY <2>2, <2>3
  <1>10. got' \in 0 .. typed'
    BY <1>1, <1>2
  <1>. QED
    BY <1>1, <1>4, <1>8, <1>9, <1>10 DEF Incoming

LEMMA TakeIncoming ==
    ASSUME ConsoleBase, ConsoleBase', Incoming, NEW busy \in BOOLEAN,
           NEW stb \in BOOLEAN, TakeChar(busy, stb)
    PROVE  Incoming'
  <1>1. /\ pc \in Returning /\ pc' \notin Returning /\ o_wb_ack
        /\ Hardware(NoReq, NoWrite, busy, stb)
        /\ got' = IF o_wb_data.flag THEN got ELSE o_wb_data.char
    BY DEF TakeChar, Goto, Request, Returning
  <1>2. got \in 0 .. typed /\ typed \in Nat /\ typed' = IF stb THEN typed + 1 ELSE typed
    BY <1>1 DEF Incoming, ConsoleBase, Counts, Hardware
  <1>3. Lines(NoReq)
    BY <1>1, HardwareLines
  <1>4. WithFifo' <=> WithFifo
    BY <1>3, NoReqLines
  <1>5. ~r_wb_ack /\ (WithFifo => ~rx_console_reset)
    BY <1>1 DEF ConsoleBase, Control, Acks, Quiet, Waiting, Returning
  <1>6. got' \in 0 .. typed /\ (WithFifo => Ordered(rxfifo, got', typed))
    BY <1>1, <1>2, <1>5 DEF Incoming
  <1>7. WithFifo => Ordered(rxfifo', got', typed')
    BY <1>1, <1>5, <1>6, RxClock DEF ConsoleBase
  <1>8. got' \in 0 .. typed'
    BY <1>2, <1>6
  <1>. QED
    BY <1>1, <1>4, <1>7, <1>8 DEF Incoming

LEMMA NextIncoming ==
    ASSUME ConsoleBase, ConsoleBase', Incoming, Next
    PROVE  Incoming'
  <1>1. PICK busy \in BOOLEAN, stb \in BOOLEAN : Clock(busy, stb)
    BY DEF Next
  <1>2. CASE AskChar(busy, stb)
    BY <1>2, AskIncoming
  <1>3. CASE TakeChar(busy, stb)
    BY <1>3, TakeIncoming
  <1>4. CASE Elsewhere(busy, stb) /\ pc \in Returning
    BY <1>4, AnswerIncoming
  <1>5. CASE \/ Call(busy, stb) \/ Reset(busy, stb) \/ WriteChar(busy, stb)
             \/ PollRoom(busy, stb) \/ PollIdle(busy, stb) \/ Sleep(busy, stb)
             \/ Elsewhere(busy, stb) /\ pc \notin Returning
    <2>1. Calls[rxfifo.len] \subseteq {"_outbyte", "_inbyte", "wbregs", "txchr",
                                       "wait", "reset"}
      BY ConsoleAssumption DEF ConsoleBase, ConsoleInv
    <2>2. pc \notin Returning /\ pc' \notin Returning /\ got' = got
      BY <1>5, <2>1 DEF Call, Reset, WriteChar, PollRoom, PollIdle, Sleep,
                        Elsewhere, Goto, Keep, Returning
    <2>3. \E req, w : Hardware(req, w, busy, stb)
      BY <1>5 DEF Call, Reset, WriteChar, PollRoom, PollIdle, Sleep, Elsewhere,
                  Request, Pic
    <2>. QED
      BY <2>2, <2>3, KeepsIncoming
  <1>. QED
    BY <1>1, <1>2, <1>3, <1>4, <1>5 DEF Clock, Program

----------------------------------------------------------------------------
(* All of it.                                                                 *)

LEMMA InitInOrder == Init => Outgoing /\ RoomKnown /\ Polls /\ Incoming
  <1>. SUFFICES ASSUME Init PROVE Outgoing /\ RoomKnown /\ Polls /\ Incoming
    OBVIOUS
  <1>1. PICK len \in FifoLengthsBuilt : ConsoleInit(len)
    BY DEF Init
  <1>2. rxfifo.len = len /\ ~txfifo.ovfl
    BY <1>1, InitFifo DEF ConsoleInit, FifoInit
  <1>3. /\ tx_console_reset = (len > 0) /\ ~txf_wb_write /\ ~r_txf_err
        /\ rx_console_reset = (len > 0)
    BY <1>1 DEF ConsoleInit
  <1>4. /\ WithFifo => tx_console_reset /\ rx_console_reset
        /\ pc = "idle" /\ written = 0 /\ sent = 0 /\ got = 0 /\ typed = 0
    BY <1>2, <1>3 DEF Init, WithFifo
  <1>5. ~WithFifo => Queued = 0
    BY <1>3 DEF Queued, Pending
  <1>6. Outgoing
    BY <1>2, <1>3, <1>4, <1>5 DEF Outgoing
  <1>7. RoomKnown /\ Polls /\ Incoming
    BY <1>4 DEF RoomKnown, Polls, Incoming, Returning
  <1>. QED
    BY <1>6, <1>7

\* The word a FIFO offers to the link is the next to be sent.
LEMMA OffersTheNext == ConsoleBase /\ Outgoing => OffersNext
  <1>. SUFFICES ASSUME ConsoleBase, Outgoing, ConsoleStb PROVE ConsoleData = sent + 1
    BY DEF OffersNext
  <1>1. CASE ~WithFifo
    <2>1. txf_wb_write /\ ~tx_console_reset
      BY <1>1 DEF ConsoleStb, ConsoleBase, Control, Quiet
    <2>2. written = sent + 1 /\ txf_wb_data = written
      BY <1>1, <2>1 DEF Outgoing, Queued, Pending
    <2>. QED
      BY <1>1, <2>2 DEF ConsoleData
  <1>2. CASE WithFifo
    <2>1. txfifo.some /\ ~tx_console_reset
      BY <1>2 DEF ConsoleStb, ConsoleBase, Counts
    <2>2. Shape(txfifo) /\ IndicesAgree(txfifo) /\ ShowsOldest(txfifo)
      BY <1>2, <2>1 DEF ConsoleBase, ConsoleInv, Sound
    <2>3. txfifo.out = txfifo.mem[txfifo.last] /\ txfifo.first # txfifo.last
      BY <2>1, <2>2 DEF ShowsOldest, IndicesAgree
    <2>4. /\ Size(txfifo) \in 0 .. txfifo.len - 1 /\ Size(txfifo) # 0
          /\ Place(txfifo, txfifo.last) = 0
      BY <2>2, <2>3, PlaceFacts
    <2>5. txfifo.last \in 0 .. txfifo.len - 1 /\ txfifo.len \in Nat
      BY <2>2 DEF Shape
    <2>6. Held(txfifo, txfifo.last)
      BY <2>4, <2>5 DEF Held
    <2>7. txfifo.mem[txfifo.last] = sent + 1 + 0
      BY <1>2, <2>1, <2>4, <2>6 DEF Outgoing, HoldsNext
    <2>8. sent \in Int
      BY DEF ConsoleBase, Counts
    <2>. QED
      BY <1>2, <2>3, <2>7, <2>8 DEF ConsoleData
  <1>. QED
    BY <1>1, <1>2

LEMMA IncomingHolds == Spec => []Incoming
  <1>1. Init => Incoming
    BY InitInOrder
  <1>2. ConsoleBase /\ ConsoleBase' /\ Incoming /\ [Next]_vars => Incoming'
    <2>1. ASSUME Incoming, UNCHANGED vars PROVE Incoming'
      BY <2>1 DEF vars, consoleVars, Incoming, WithFifo, Ordered, Held, Size, Place,
                  Distance
    <2>. QED
      BY <2>1, NextIncoming
  <1>. QED
    BY <1>1, <1>2, BaseHolds, PTL DEF Spec

\* Characters go through the console in the order they are written and typed, and
\* none is written for which there is no room, for FIFOs of every length and every
\* order of calls, sleeps, stalls and resets, if TXWAIT is used only without FIFOs
\* (console.v:98-290, syscalls.c:63, cputest.c:1081-1104).
THEOREM ConsoleInOrder == ASSUME PollsAsBuilt PROVE Spec => []InOrder
  <1>1. Init => Outgoing /\ RoomKnown /\ Polls
    BY InitInOrder
  <1>2. /\ ConsoleBase /\ ConsoleBase' /\ Outgoing /\ RoomKnown /\ Polls
        /\ [Next]_vars
        => Outgoing' /\ RoomKnown' /\ Polls'
    <2>1. ASSUME Outgoing, RoomKnown, Polls, UNCHANGED vars
          PROVE  Outgoing' /\ RoomKnown' /\ Polls'
      <3>1. Outgoing'
        BY <2>1 DEF vars, consoleVars, Outgoing, Queued, Pending, WithFifo, Size,
                    Place, Distance, HoldsNext, Held, Left, After
      <3>2. RoomKnown' /\ Polls'
        BY <2>1 DEF vars, consoleVars, picVars, RoomKnown, Room, Polls, WithFifo
      <3>. QED
        BY <3>1, <3>2
    <2>. QED
      BY <2>1, NextOutgoing, NextRoom, NextPolls
  <1>3. ConsoleBase /\ Outgoing /\ Incoming => InOrder
    <2>. SUFFICES ASSUME ConsoleBase, Outgoing, Incoming PROVE InOrder
      OBVIOUS
    <2>1. OffersNext
      BY OffersTheNext
    <2>2. RoomWhenWritten
      BY DEF RoomWhenWritten, TxError, Outgoing
    <2>3. ReturnsNew
      BY DEF ReturnsNew, Incoming, Returning, ConsoleBase, Control, Acks, Waiting
    <2>. QED
      BY <2>1, <2>2, <2>3 DEF InOrder
  <1>. QED
    BY <1>1, <1>2, <1>3, BaseHolds, IncomingHolds, PTL DEF Spec

=============================================================================
