------------------------------ MODULE ConsoleIo -----------------------------
(* The programs that use the console, on its hardware: _outbyte and _inbyte of *)
(* sw/zlib/syscalls.c, which poll it, and txchr and wait of                    *)
(* sw/board/cputest.c, which poll it in user mode and in supervisor mode sleep *)
(* until the interrupt controller wakes them; and wbregs of the host, which    *)
(* reads a register.  _outbyte puts a carriage return before a line feed as    *)
(* another call would.                                                         *)
(* Characters are numbered in the order they are written, and those that are   *)
(* typed in the order they come.                                               *)
EXTENDS Console, IControl
CONSTANTS
    FifoLengthsBuilt,       \* the FIFOs the console may be built with; 0 is none
    Ints,                   \* the interrupt lines looked at
    Calls,                  \* the procedures called, for each of those FIFOs
    MaxWritten, MaxTyped    \* bounds
ASSUME ConsoleAssumption ==
    /\ FifoLengthsBuilt \subseteq {0} \cup {n \in Nat : n >= 4}
    /\ Ints \subseteq {"uartrx", "uartrxf", "uarttx", "uarttxf"}
    /\ "uarttxf" \in Ints
    /\ Calls \in [FifoLengthsBuilt -> SUBSET {"_outbyte", "_inbyte", "wbregs",
                                             "txchr", "wait", "reset"}]
    /\ MaxWritten \in Nat /\ MaxTyped \in Nat
\* What is called in the run: all on a console without FIFOs, as main.v builds it;
\* with FIFOs of four not _outbyte and _inbyte, which expect none: TXWAIT of theirs
\* waits for the FIFO to be full.
CallsTried == [len \in {0, 4} |->
    {"wbregs", "txchr", "wait", "reset"}
        \cup (IF len = 0 THEN {"_outbyte", "_inbyte"} ELSE {})]
VARIABLES
    pc,                     \* the procedure that runs and its step
    written, sent,          \* the last character written; how many were sent
    typed, got,             \* the last one that came, and that a read returned
    waited                  \* a character was there when _inbyte asked

picVars == <<r_int_state, r_int_enable, r_mie, o_interrupt>>
vars == <<consoleVars, picVars, pc, written, sent, typed, got, waited>>

NoReq == [to |-> "none", we |-> FALSE, data |-> 0, clear |-> FALSE]
ReadOf(reg) == [NoReq EXCEPT !.to = reg]
WriteOf(reg, char) == [NoReq EXCEPT !.to = reg, !.we = TRUE, !.data = char]
ResetBy(reg) == [WriteOf(reg, 0) EXCEPT !.clear = TRUE]

Init ==
    /\ \E len \in FifoLengthsBuilt : ConsoleInit(len)
    /\ IControlInit
    /\ pc = "idle" /\ waited = FALSE
    /\ written = 0 /\ sent = 0 /\ typed = 0 /\ got = 0

\* A clock of the hardware: the link takes a character unless it is busy, and
\* may bring one.
Hardware(req, w, busy, stb) ==
    /\ stb => typed < MaxTyped
    /\ ConsoleClock(req, busy, stb, IF stb THEN typed + 1 ELSE 0)
    /\ IControlClock(w, ConsoleInts \cap Ints)
    /\ typed' = IF stb THEN typed + 1 ELSE typed
    /\ sent' = IF ConsoleStb /\ ~busy THEN sent + 1 ELSE sent

Goto(from, to) == pc = from /\ pc' = to
Keep == UNCHANGED <<written, got, waited>>
Request(req, busy, stb) == Hardware(req, NoWrite, busy, stb)
Pic(w, busy, stb) == Hardware(NoReq, w, busy, stb)

----------------------------------------------------------------------------
(* The procedures.                                                            *)

Call(busy, stb) ==
    /\ \E p \in Calls[rxfifo.len] \ {"reset"} :
         /\ p \in {"_inbyte", "wbregs"} \/ written < MaxWritten
         /\ Goto("idle", p)
    /\ Request(NoReq, busy, stb) /\ Keep

\* A program that starts resets the receiver, or both ways.
Reset(busy, stb) ==
    /\ "reset" \in Calls[rxfifo.len] /\ written = 0 /\ Goto("idle", "idle")
    /\ \E reg \in {"rx", "setup"} : Request(ResetBy(reg), busy, stb)
    /\ Keep

\* TXWAIT: until the status says that there is room.
PollRoom(busy, stb) ==
    \/ Goto("_outbyte", "txwait") /\ Request(ReadOf("fifo"), busy, stb) /\ Keep
    \/ /\ o_wb_ack
       /\ Goto("txwait", IF o_wb_data.flag THEN "uarttx" ELSE "_outbyte")
       /\ Request(NoReq, busy, stb) /\ Keep
\* TXBUSY: until nothing is being sent.
PollIdle(busy, stb) ==
    \/ Goto("txchr", "txbusy") /\ Request(ReadOf("tx"), busy, stb) /\ Keep
    \/ /\ o_wb_ack
       /\ Goto("txbusy", IF o_wb_data.flag THEN "txchr" ELSE "uarttx")
       /\ Request(NoReq, busy, stb) /\ Keep

\* wait(BUSPIC_UARTTXF): clear and disable all, enable one, sleep, disable.
Sleep(busy, stb) ==
    \/ /\ Goto("wait", "enable")
       /\ Pic(PicWrite(Ints, Ints, FALSE), busy, stb) /\ Keep
    \/ /\ Goto("enable", "pic")
       /\ Pic(PicWrite({}, {"uarttxf"}, TRUE), busy, stb) /\ Keep
    \/ Goto("pic", "WAIT") /\ Request(NoReq, busy, stb) /\ Keep
    \/ /\ o_interrupt
       /\ Goto("WAIT", "off") /\ Request(NoReq, busy, stb) /\ Keep
    \/ Goto("off", "uarttx") /\ Pic(PicWrite({}, {}, FALSE), busy, stb) /\ Keep

WriteChar(busy, stb) ==
    /\ Goto("uarttx", "idle")
    /\ Request(WriteOf("tx", written + 1), busy, stb)
    /\ written' = written + 1
    /\ UNCHANGED <<got, waited>>

\* A read of the receiver, by _inbyte or by the host's wbregs.
AskChar(busy, stb) ==
    /\ Goto("_inbyte", "rv") \/ Goto("wbregs", "value")
    /\ Request(ReadOf("rx"), busy, stb)
    /\ waited' = RxNotEmpty
    /\ UNCHANGED <<written, got>>
\* _inbyte echoes what it returns, all but a line feed after a carriage return.
TakeChar(busy, stb) ==
    /\ o_wb_ack
    /\ \/ Goto("value", "idle") \/ Goto("rv", "idle")
       \/ /\ ~o_wb_data.flag /\ written < MaxWritten
          /\ Goto("rv", "_outbyte")
    /\ Request(NoReq, busy, stb)
    /\ got' = IF o_wb_data.flag THEN got ELSE o_wb_data.char
    /\ waited' = FALSE
    /\ UNCHANGED written

Program(busy, stb) ==
    \/ Call(busy, stb) \/ Reset(busy, stb)
    \/ PollRoom(busy, stb) \/ PollIdle(busy, stb) \/ Sleep(busy, stb)
    \/ WriteChar(busy, stb)
    \/ AskChar(busy, stb) \/ TakeChar(busy, stb)
\* The CPU is about something else, unless it is given the answer it waits for.
Elsewhere(busy, stb) ==
    /\ ~(o_wb_ack /\ pc \in {"txwait", "txbusy", "rv", "value"})
    /\ Request(NoReq, busy, stb) /\ UNCHANGED pc /\ Keep

Clock(busy, stb) == Program(busy, stb) \/ Elsewhere(busy, stb)
Next == \E busy, stb \in BOOLEAN : Clock(busy, stb)
Spec == Init /\ [][Next]_vars

\* The CPU runs on, and the link is ready again and again: it is so as well when
\* a poll looks, as it idles for longer than a poll takes.
FairSpec ==
    /\ Spec
    /\ WF_vars(\E busy, stb \in BOOLEAN : Program(busy, stb))
    /\ WF_vars(\E stb \in BOOLEAN : Clock(FALSE, stb))
    /\ SF_vars(r_wb_addr = "tx" /\ \E stb \in BOOLEAN : Clock(FALSE, stb))

----------------------------------------------------------------------------
(* Properties.                                                                *)

Chars == 0 .. (IF MaxWritten > MaxTyped THEN MaxWritten ELSE MaxTyped)
FifoTypeOK(f) ==
    LET Index == FifoLengths(f.len)
    IN  /\ DOMAIN f = {"len", "receive", "first", "last", "next", "over",
                       "under", "ovfl", "some", "fill", "mem", "out"}
        /\ f.len \in FifoLengthsBuilt /\ f.receive \in BOOLEAN
        /\ f.first \in Index /\ f.last \in Index /\ f.next \in Index
        /\ f.fill \in Index /\ f.mem \in [Index -> Chars]
        /\ {f.over, f.under, f.ovfl, f.some} \subseteq BOOLEAN
        /\ f.out \in Chars

\* The types: indices stay inside their memories, and interrupts are known ones.
TypeOK ==
    /\ FifoTypeOK(rxfifo) /\ FifoTypeOK(txfifo)
    /\ rxfifo.len = txfifo.len /\ rxfifo.receive /\ ~txfifo.receive
    /\ {rxf_wb_read, rx_console_reset, r_rx_fifo_full, r_rx_fifo_err,
        tx_console_reset, txf_wb_write, r_txf_err, r_wb_ack, o_wb_ack,
        r_mie, o_interrupt, waited} \subseteq BOOLEAN
    /\ {r_rx_fifo_data, txf_wb_data, written, sent, typed, got} \subseteq Chars
    /\ r_wb_addr \in Registers
    /\ o_wb_data \in [flag : BOOLEAN, err : BOOLEAN, char : Chars]
    /\ r_int_state \subseteq Ints /\ r_int_enable \subseteq Ints

\* The flags and the word that ufifo.v keeps in registers, to have them without
\* a read, agree with its memory in every clock after a reset, whatever is read,
\* written or reset at the same time (ufifo.v:60-191).
FifosSound ==
    WithFifo => /\ rx_console_reset \/ Sound(rxfifo)
                /\ tx_console_reset \/ Sound(txfifo)

\* What the console offers to the link is the next character that was written:
\* none is sent twice or out of order, however the programs wait for room and
\* whenever the link is busy (console.v:219-290).
OffersNext == ConsoleStb => ConsoleData = sent + 1
\* None of the programs ever writes a character for which there is no room,
\* although room is found out clocks before, by a poll or by an interrupt of
\* which the controller may hold an old one (syscalls.c:63, cputest.c:1081-1104).
RoomWhenWritten == ~TxError
\* A character that a read returns came after the one that the last returned and
\* is not one twice, although reads and characters cross (console.v:98-168).
ReturnsNew ==
    pc \in {"rv", "value"} /\ o_wb_ack /\ ~o_wb_data.flag => o_wb_data.char \in got + 1 .. typed
\* So characters go through the console in order, and none written is lost.
InOrder == OffersNext /\ RoomWhenWritten /\ ReturnsNew

\* A call returns: no program polls, or sleeps with its interrupt passed by, for
\* ever (cputest.c:1081-1104, icontrol.v:96-150).
CallReturns == pc # "idle" ~> pc = "idle"

\* The last character written is sent, though nothing comes after it.
WrittenIsSent == written = MaxWritten ~> sent = MaxWritten
=============================================================================
