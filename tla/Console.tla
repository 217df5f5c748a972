------------------------------ MODULE Console -------------------------------
(* rtl/hexbus/console.v: characters from the bus to the serial link and back,  *)
(* each way through a FIFO or, if LGFLEN is zero as in main.v, a register.     *)
(* A request [to, we, data, clear] is for one of the registers "setup",        *)
(* "fifo", "rx" and "tx", or for another device; clear is bit 12.              *)
EXTENDS Ufifo
VARIABLES
    rxfifo, rxf_wb_read, rx_console_reset,              \* RX_WFIFO
    r_rx_fifo_data, r_rx_fifo_full, r_rx_fifo_err,      \* RX_NOFIFO
    txfifo, tx_console_reset, txf_wb_write, txf_wb_data,
    r_txf_err,                                          \* TX_NOFIFO
    r_wb_addr, r_wb_ack, o_wb_ack, o_wb_data

Registers == {"setup", "fifo", "rx", "tx"}
Reads(req, reg) == req.to = reg /\ ~req.we
Writes(req, reg) == req.to = reg /\ req.we

\* Of an answer, the flag that programs look at, the error and the character.
NoAnswer == [flag |-> FALSE, err |-> FALSE, char |-> 0]

WithFifo == rxfifo.len > 0

\* Nothing sets r_rx_fifo_err before it is used.
ConsoleInit(len) ==
    /\ rxfifo \in FifoInit(len, TRUE) /\ txfifo \in FifoInit(len, FALSE)
    /\ rx_console_reset = (len > 0) /\ tx_console_reset = (len > 0)
    /\ rxf_wb_read = FALSE
    /\ r_rx_fifo_data = 0 /\ r_rx_fifo_full = FALSE
    /\ r_rx_fifo_err \in {FALSE, len = 0}
    /\ txf_wb_write = FALSE /\ txf_wb_data = 0 /\ r_txf_err = FALSE
    /\ r_wb_addr = "setup" /\ r_wb_ack = FALSE /\ o_wb_ack = FALSE
    /\ o_wb_data = NoAnswer

----------------------------------------------------------------------------
(* From the serial link.                                                      *)

ReceiveFifo(req, stb, char) ==
    /\ rxfifo' = Fifo(rxfifo, rx_console_reset, stb, char, rxf_wb_read)
    /\ rxf_wb_read' = Reads(req, "rx")
    /\ rx_console_reset' = (Writes(req, "setup") \/ (Writes(req, "rx") /\ req.clear))
    /\ UNCHANGED <<r_rx_fifo_data, r_rx_fifo_full, r_rx_fifo_err>>

RegisterFull(req, stb) == stb \/ (r_rx_fifo_full /\ ~Reads(req, "rx"))
\* A character that comes while one is there replaces it, and that is an error.
ReceiveRegister(req, stb, char) ==
    /\ r_rx_fifo_full' = RegisterFull(req, stb)
    /\ r_rx_fifo_data' = IF stb THEN char ELSE r_rx_fifo_data
    /\ r_rx_fifo_err' =
         \/ r_rx_fifo_full /\ stb
         \/ r_rx_fifo_err /\ req.to # "rx"
    /\ UNCHANGED <<rxfifo, rxf_wb_read, rx_console_reset>>

Receive(req, stb, char) ==
    IF WithFifo THEN ReceiveFifo(req, stb, char) ELSE ReceiveRegister(req, stb, char)
RxNotEmpty == IF WithFifo THEN rxfifo.some ELSE r_rx_fifo_full
RxError == IF WithFifo THEN rxfifo.ovfl ELSE r_rx_fifo_err
RxData == [flag |-> ~RxNotEmpty, err |-> RxError,
           char |-> IF WithFifo THEN rxfifo.out ELSE r_rx_fifo_data]

----------------------------------------------------------------------------
(* To the serial link.                                                        *)

ConsoleStb == IF WithFifo THEN txfifo.some ELSE txf_wb_write
ConsoleData == IF WithFifo THEN txfifo.out ELSE txf_wb_data

TransmitFifo(req, busy) ==
    /\ txfifo' = Fifo(txfifo, tx_console_reset, txf_wb_write, txf_wb_data,
                      ~busy /\ txfifo.some)
    /\ txf_wb_write' = Writes(req, "tx")
    /\ txf_wb_data' = req.data
    /\ tx_console_reset' = (Writes(req, "setup") \/ (Writes(req, "tx") /\ req.clear))
    /\ UNCHANGED r_txf_err

\* A character written while one is there is lost; busy says if that is an error.
TransmitRegister(req, busy) ==
    /\ txf_wb_write' = (Writes(req, "tx") \/ (txf_wb_write /\ busy))
    /\ txf_wb_data' = IF Writes(req, "tx") /\ ~txf_wb_write THEN req.data
                      ELSE txf_wb_data
    /\ r_txf_err' =
         /\ ~Writes(req, "setup") /\ ~(Writes(req, "tx") /\ req.clear)
         /\ r_txf_err \/ (Writes(req, "tx") /\ txf_wb_write /\ busy)
    /\ UNCHANGED <<txfifo, tx_console_reset>>

\* Mutant: the strobe is dropped while the link is busy.
TransmitUnlessBusy(req, busy) ==
    IF WithFifo THEN TransmitFifo(req, busy) ELSE TransmitRegister(req, FALSE)
Transmit(req, busy) ==
    IF WithFifo THEN TransmitFifo(req, busy) ELSE TransmitRegister(req, busy)

TxStatus == IF WithFifo THEN Status(txfifo) ELSE ~txf_wb_write  \* txf_status[0]
TxBusy(busy) == busy \/ ConsoleStb
TxError == IF WithFifo THEN txfifo.ovfl ELSE r_txf_err
TxData(busy) == [flag |-> TxBusy(busy), err |-> TxError,
                 char |-> IF TxBusy(busy) THEN txf_wb_data ELSE 0]

----------------------------------------------------------------------------
(* Answers come two clocks after the request; nothing stalls.  What answers no *)
(* request is the setup register's zero.                                      *)
FifoStatus == [NoAnswer EXCEPT !.flag = TxStatus]

Answer(req, busy) ==
    /\ r_wb_addr' = IF req.to \in Registers THEN req.to ELSE "setup"
    /\ r_wb_ack' = (req.to \in Registers)
    /\ o_wb_ack' = r_wb_ack
    /\ o_wb_data' =
         CASE r_wb_addr = "rx" -> RxData
           [] r_wb_addr = "tx" -> TxData(busy)
           [] r_wb_addr = "fifo" -> FifoStatus
           [] r_wb_addr = "setup" -> NoAnswer

\* A clock: a request of the bus, whether the link is busy, a character from it.
ConsoleClock(req, busy, stb, char) ==
    /\ Receive(req, stb, char)
    /\ Transmit(req, busy)
    /\ Answer(req, busy)

\* Interrupt lines.
TxfIntInverted == txf_wb_write          \* mutant: high while one is there
TxfInt == IF WithFifo THEN HalfFull(txfifo) ELSE ~txf_wb_write
ConsoleInts ==
    {i \in {"uartrx", "uartrxf", "uarttx", "uarttxf"} :
      CASE i = "uartrx" -> RxNotEmpty
        [] i = "uartrxf" -> IF WithFifo THEN HalfFull(rxfifo) ELSE r_rx_fifo_full
        [] i = "uarttx" -> TxStatus
        [] i = "uarttxf" -> TxfInt}

consoleVars == <<rxfifo, rxf_wb_read, rx_console_reset, r_rx_fifo_data,
                 r_rx_fifo_full, r_rx_fifo_err, txfifo, tx_console_reset,
                 txf_wb_write, txf_wb_data, r_txf_err,
                 r_wb_addr, r_wb_ack, o_wb_ack, o_wb_data>>
=============================================================================
