------------------------------- MODULE SdSpi --------------------------------
(* rtl/sdspi.v over rtl/llsdspi.v, byte by byte: a command and its argument go  *)
(* out, and what comes back goes to the registers or to a FIFO.  A byte is on   *)
(* its way while the one before is looked at, so an answer has its effect on    *)
(* the byte after the next.  Left out, as the simulated card never has cause for *)
(* them when asked what this program asks: answers with a busy time, R1b         *)
(* (sdspi.v:367-377, 490-517), error tokens (404-413, 649-671), and the watchdog *)
(* that ends a command after 2^22 clocks (419-422, 958-969).                     *)
EXTENDS SdSpiSim
VARIABLE sd
sdVars == <<sd, cardVars>>

EmptyFifo == [k \in 1 .. BlockBytes |-> 0]
SdInit ==
    sd = [busy |-> FALSE, stb |-> FALSE, cmd_state |-> 0, rsp_state |-> "none", resp |-> "R1",
          use_fifo |-> FALSE, fifo_wr |-> FALSE, id |-> 1, have_resp |-> FALSE,
          data |-> <<0, 0, 0, 0>>, fil |-> 0, r1 |-> Idle, dat |-> Idle, crc |-> 0,
          fifo |-> <<EmptyFifo, EmptyFifo>>, limit |-> BlockBytes,
          rd |-> FALSE, taken |-> 0, token |-> FALSE,
          wr |-> FALSE, started |-> FALSE, put |-> 0, wr_state |-> 0,
          crc_err |-> FALSE, cmd_err |-> FALSE]

\* A write to the control register, with the other registers as in regs: the
\* first byte goes off.
NewCommand(regs, n, resp, use, wr, id) ==
    /\ sd' = [regs EXCEPT !.busy = TRUE, !.stb = TRUE, !.cmd_state = 1, !.rsp_state = "none",
                          !.resp = resp, !.use_fifo = use, !.fifo_wr = wr, !.id = id,
                          !.have_resp = FALSE, !.fil = 0, !.dat = regs.data[1],
                          !.crc = CmdCrc(<<64 + n>> \o regs.data), !.rd = FALSE, !.taken = 0,
                          !.token = FALSE, !.wr = FALSE, !.started = FALSE, !.put = 0,
                          !.wr_state = 0, !.crc_err = FALSE, !.cmd_err = FALSE]
    /\ m_dat_in' = 64 + n

\* A byte has been sent: the one after the next, by the state of the command.
FifoPacket == Packet(sd.fifo[sd.id])
ByteOut ==
    CASE sd.cmd_state < 4 -> [sd EXCEPT !.cmd_state = @ + 1, !.dat = sd.data[sd.cmd_state + 1]]
      [] sd.cmd_state = 4 -> [sd EXCEPT !.cmd_state = 5, !.dat = sd.crc]
      [] sd.cmd_state = 5 /\ sd.have_resp ->
            LET writes == sd.use_fifo /\ sd.fifo_wr
            IN  [sd EXCEPT !.cmd_state = IF sd.use_fifo THEN 6 ELSE 7, !.rd = writes,
                           !.dat = IF writes THEN StartToken ELSE Idle]
      [] sd.cmd_state = 6 /\ sd.rd ->
            IF sd.taken = BlockBytes + 2 THEN [sd EXCEPT !.cmd_state = 7, !.rd = FALSE, !.dat = Idle]
            ELSE [sd EXCEPT !.taken = @ + 1, !.dat = FifoPacket[sd.taken + 1]]
      [] OTHER -> [sd EXCEPT !.dat = Idle]

\* The byte that has come in, once the command has been sent.
BitOf(v, k) == (v \div 2 ^ k) % 2
HaveToken(got) == sd.token \/ (sd.use_fifo /\ sd.fifo_wr /\ sd.cmd_state > 5 /\ BitOf(got, 4) = 0)
\* R1; or R3 or R7, which have a word after it.
AwaitResponse(c, got) ==
    IF got >= 128 THEN c
    ELSE CASE c.resp = "R3" -> [c EXCEPT !.r1 = got, !.rsp_state = "getword"]
           [] OTHER -> [c EXCEPT !.r1 = got, !.rsp_state = IF c.use_fifo /\ c.fifo_wr THEN "gettoken" ELSE "writing",
                                 !.data = <<Idle, Idle, Idle, Idle>>, !.have_resp = TRUE,
                                 !.stb = c.use_fifo, !.wr = c.use_fifo /\ ~c.fifo_wr]
GetWord(c, got) ==
    [c EXCEPT !.data = Append(Tail(@), got), !.fil = @ + 1,
              !.stb = IF c.fil = 3 THEN c.use_fifo ELSE @]
ByteIn(c, got) ==
    CASE c.rsp_state = "none" -> AwaitResponse(c, got)
      [] c.rsp_state = "getword" -> GetWord(c, got)
      [] c.rsp_state = "gettoken" -> IF c.token THEN [c EXCEPT !.rsp_state = "busywait"] ELSE c
      [] c.rsp_state = "busywait" -> IF got # 0 THEN [c EXCEPT !.rsp_state = "complete"] ELSE c
      [] c.rsp_state = "complete" -> [c EXCEPT !.stb = FALSE]
      [] c.rsp_state = "writing" -> IF sd.wr_state = 3 THEN [c EXCEPT !.wr = FALSE, !.stb = FALSE] ELSE c
\* Into the FIFO: all of it to the first place, until the token has come; then
\* the block, and its CRC.
AfterAny(c) == c.put + 1                    \* mutant: without a token
After(c) == IF c.started THEN c.put + 1 ELSE c.put
IntoFifo(c, got) ==
    CASE ~c.wr \/ c.wr_state = 3 -> c
      [] c.wr /\ c.wr_state = 0 ->
            [c EXCEPT !.fifo[c.id][c.put + 1] = got, !.started = @ \/ got = StartToken,
                      !.put = After(c),
                      !.wr_state = IF c.put + 1 = c.limit THEN 1 ELSE 0]
      [] OTHER ->
            [c EXCEPT !.wr_state = @ + 1,
                      !.crc_err = @ \/ got # BlockCrc(SubSeq(c.fifo[c.id], 1, c.limit))[c.wr_state]]
Received(c, got) ==
    IF sd.cmd_state < 5 THEN c
    ELSE ByteIn([IntoFifo(c, got) EXCEPT !.token = HaveToken(got)], got)

\* A byte is through, and the next one goes off; or it was the last one, and the
\* card is let go.
NextByte ==
    /\ sd.busy /\ sd.stb /\ TakeByte
    /\ sd' = [Received(ByteOut, m_dat_out) EXCEPT !.cmd_err = @ \/ sd.crc_err]
    /\ m_dat_in' = sd.dat
Release ==
    /\ sd.busy /\ ~sd.stb /\ Deselected
    /\ sd' = [sd EXCEPT !.busy = FALSE, !.wr = FALSE, !.rd = FALSE] /\ m_dat_in' = Idle
=============================================================================
