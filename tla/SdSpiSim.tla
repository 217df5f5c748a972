------------------------------ MODULE SdSpiSim ------------------------------
(* sim/sdspisim.cpp: the simulated SD card, byte by byte.  A byte is taken on   *)
(* the first falling clock edge of the next one, and what the card has to say   *)
(* to it goes out with that next one.                                           *)
EXTENDS Integers, Sequences
CONSTANTS
    BlockBytes,             \* of a block, 512
    RspLen,                 \* SDSPI_RSPLEN, 8
    BlockDelay,             \* bytes from a response to its block, 60
    tRESET,                 \* bytes' time of powering up, 4 ms
    DevBlocks               \* blocks of the device
VARIABLES
    card,                   \* the class's members, but those that follow
    m_dat_in, m_dat_out,    \* the byte that comes in, and the one that goes out
    m_powerup_busy,
    asserts_hold            \* no assertion has failed
cardVars == <<card, m_dat_in, m_dat_out, m_powerup_busy, asserts_hold>>

Idle == 255
StartToken == 254
MaxBlkLen == BlockBytes + 8
Disk(n) == [k \in 1 .. BlockBytes |-> 16 * (n + 1) + k]
m_csd == <<0, 15, 50, 91>>                  \* of 16 bytes
m_cid == <<186, 208, 218, 221>>
NoResponse == [k \in 1 .. RspLen |-> Idle]

\* Checksums that tell apart what differs here.
CheckSum(times, of, s) ==
    LET sum[k \in 0 .. Len(s)] == IF k = 0 THEN 0 ELSE (times * sum[k - 1] + s[k]) % of
    IN  sum[Len(s)]
CmdCrc(s) == 2 * CheckSum(3, 128, s) + 1
BlockCrc(s) == <<CheckSum(2, 256, s), CheckSum(1, 256, s)>>
Packet(s) == s \o BlockCrc(s)

\* The members the constructor leaves alone are set before they are used, but
\* m_altcmd_flag, FALSE here.
CardInit ==
    /\ card = [cmdidx |-> 0, cmdbuf |-> <<>>, rspidx |-> 0, rspdly |-> 0, rspbuf |-> NoResponse,
               blkdly |-> 0, blkidx |-> MaxBlkLen, block_buf |-> <<>>,
               reading_data |-> FALSE, have_token |-> FALSE, altcmd |-> FALSE, reset |-> "powerup"]
    /\ m_dat_in = Idle /\ m_dat_out = Idle /\ m_powerup_busy = -1 /\ asserts_hold = TRUE

Answer(v) == m_dat_out' = v
Asserts(cond) == asserts_hold' = (asserts_hold /\ cond)
Elapse == m_powerup_busy' = IF m_powerup_busy > 0 THEN m_powerup_busy - 1 ELSE m_powerup_busy

\* While the card is not selected; what it was told to take or to expect stays.
Deselected ==
    /\ card' = [card EXCEPT !.cmdidx = 0, !.rspidx = 0]
    /\ Answer(Idle) /\ Elapse /\ UNCHANGED asserts_hold

\* A block to be written: its token, its bytes and its CRC.
WaitOnToken ==
    /\ card.reading_data /\ ~card.have_token
    /\ card' = IF m_dat_in = StartToken
               THEN [card EXCEPT !.have_token = TRUE, !.block_buf = <<>>] ELSE card
    /\ Answer(Idle) /\ Elapse /\ UNCHANGED asserts_hold
TakeBlock ==
    /\ card.reading_data /\ card.have_token /\ Elapse
    /\ LET rx == Append(card.block_buf, m_dat_in)
           full == Len(rx) >= BlockBytes + 2
           good == rx = Packet(SubSeq(rx, 1, BlockBytes))
       IN  /\ card' = [card EXCEPT !.block_buf = rx, !.reading_data = ~full, !.have_token = ~full]
           /\ Answer(CASE ~full -> Idle [] full /\ good -> 5 [] OTHER -> 11)
           /\ Asserts(full => good)
RecordCommand ==
    /\ ~card.reading_data /\ card.cmdidx < 6
    /\ card' = [card EXCEPT !.cmdidx = @ + 1,
                            !.cmdbuf = Append(IF card.cmdidx = 0 THEN <<>> ELSE @, m_dat_in)]
    /\ Asserts(card.cmdidx = 0 => m_dat_in \in 64 .. 127) /\ Answer(Idle) /\ Elapse

\* The byte after the CRC is when the command is looked at.  Its CRC has to be right.
HaveCommand == ~card.reading_data /\ card.cmdidx = 6
Began == [card EXCEPT !.cmdidx = 7, !.rspidx = 0, !.blkdly = 0, !.blkidx = MaxBlkLen,
                      !.altcmd = FALSE]
Respond(c, rsp, dly) ==
    [c EXCEPT !.rspbuf = rsp \o SubSeq(NoResponse, Len(rsp) + 1, RspLen), !.rspdly = dly]
SendBlock(c, data, dly) ==
    [c EXCEPT !.block_buf = <<StartToken>> \o Packet(data), !.blkdly = dly, !.blkidx = 0]
GoodCrc == card.cmdbuf[6] = CmdCrc(SubSeq(card.cmdbuf, 1, 5))
Expect(cond) == Asserts(GoodCrc /\ cond)
Arg == SubSeq(card.cmdbuf, 2, 5)
NoArgBut(v) == Tail(Arg) = <<0, 0, 0>> /\ Arg[1] \in {0, v}
Command(n) == HaveCommand /\ ~card.altcmd /\ card.cmdbuf[1] % 64 = n
AltCommand(n) == HaveCommand /\ card.altcmd /\ card.cmdbuf[1] % 64 = n
Operating == card.reset = "operation"

GoIdle ==
    /\ Command(0) /\ card' = [Respond(Began, <<1>>, 4) EXCEPT !.reset = "idle"]
    /\ Expect(TRUE) /\ Answer(Idle) /\ Elapse
InitOpCond ==
    /\ Command(1) /\ card' = Respond(Began, <<2>>, 4)
    /\ Expect(NoArgBut(64)) /\ Answer(Idle) /\ Elapse
SendIfCond ==
    /\ Command(8)
    /\ card' = [Respond(Began, <<0, 0, 0, IF Arg[3] = 1 THEN 1 ELSE 0, Arg[4]>>, 4)
                   EXCEPT !.reset = "cmd8"]
    /\ Expect(Arg[1] = 0 /\ Arg[2] = 0 /\ Arg[3] < 16 /\ card.reset \in {"idle", "cmd8"})
    /\ Answer(Idle) /\ Elapse
AppCommand ==
    /\ Command(55) /\ card' = [Respond(Began, <<0>>, 2) EXCEPT !.altcmd = TRUE]
    /\ Expect(TRUE) /\ Answer(Idle) /\ Elapse
PowerUp ==
    IF m_powerup_busy = -1 THEN tRESET
    ELSE IF m_powerup_busy > 0 THEN m_powerup_busy - 1 ELSE 0
\* It starts to power up; the response's other bytes are those of before.
SendOpCond ==
    /\ AltCommand(41)
    /\ m_powerup_busy' = PowerUp
    /\ LET busy == m_powerup_busy' # 0
       IN  card' = [Began EXCEPT !.rspbuf[1] = IF busy THEN 1 ELSE 0, !.rspdly = 2,
                                 !.reset = IF busy THEN "acmd41" ELSE "complete"]
    /\ Expect(card.reset \in {"cmd8", "acmd41", "complete"} /\ NoArgBut(64))
    /\ Answer(Idle)
ReadOcr ==
    /\ Command(58)
    /\ card' = [Respond(Began, <<0, (IF m_powerup_busy # 0 THEN 128 ELSE 0) + 64, 255, 128, 0>>, 4)
                   EXCEPT !.reset = IF @ = "complete" THEN "operation" ELSE @]
    /\ Expect(TRUE) /\ Answer(Idle) /\ Elapse
SendStatus ==
    /\ Command(13) /\ card' = Respond(Began, <<0, 0>>, 4)
    /\ Expect(Operating) /\ Answer(Idle) /\ Elapse
\* The delay of the response is what the last command's has left.
SendRegister ==
    /\ \/ Command(9) /\ card' = SendBlock(Respond(Began, <<0>>, card.rspdly), m_csd, BlockDelay)
       \/ Command(10) /\ card' = SendBlock(Respond(Began, <<0>>, card.rspdly), m_cid, BlockDelay)
    /\ Expect(Operating) /\ Answer(Idle) /\ Elapse
ReadBlock ==
    /\ Command(17)
    /\ card' = SendBlock(Respond(Began, <<0>>, card.rspdly), Disk(Arg[4]), BlockDelay)
    /\ Expect(Operating /\ Arg[4] < DevBlocks) /\ Answer(Idle) /\ Elapse
\* The response goes out at once, and before an old one.
SendScr ==
    /\ AltCommand(51) /\ card' = SendBlock(Began, SubSeq(m_csd, 1, Len(m_csd) \div 2), 0)
    /\ Expect(TRUE) /\ Answer(0) /\ Elapse
WriteBlock ==
    /\ Command(24)
    /\ card' = [Respond(Began, <<>>, card.rspdly) EXCEPT !.reading_data = TRUE, !.have_token = FALSE]
    /\ Expect(TRUE) /\ Answer(0) /\ Elapse
NotImplemented ==
    /\ HaveCommand
    /\ card.cmdbuf[1] % 64 \notin
          (IF card.altcmd THEN {41, 51} ELSE {0, 1, 8, 9, 10, 13, 17, 24, 55, 58})
    /\ card' = Respond(Began, <<4>>, 4)
    /\ Asserts(FALSE) /\ Answer(Idle) /\ Elapse
Execute ==
    \/ GoIdle \/ InitOpCond \/ SendIfCond \/ AppCommand \/ SendOpCond \/ ReadOcr \/ SendStatus
    \/ SendRegister \/ ReadBlock \/ SendScr \/ WriteBlock \/ NotImplemented

\* A delay, the response, a delay, the block; the host is to be silent meanwhile.
Delays ==
    \/ card.rspdly > 0 /\ card' = [card EXCEPT !.rspdly = @ - 1]
    \/ card.rspdly = 0 /\ card.rspidx = RspLen /\ card.blkdly > 0 /\ card' = [card EXCEPT !.blkdly = @ - 1]
    \/ /\ card.rspdly = 0 /\ card.rspidx = RspLen /\ card.blkdly = 0 /\ card.blkidx = MaxBlkLen
       /\ UNCHANGED card
BlockByte == IF card.blkidx < Len(card.block_buf) THEN card.block_buf[card.blkidx + 1] ELSE Idle
Sends ==
    \/ /\ card.rspdly = 0 /\ card.rspidx < RspLen
       /\ card' = [card EXCEPT !.rspidx = @ + 1] /\ Answer(card.rspbuf[card.rspidx + 1])
    \/ /\ card.rspdly = 0 /\ card.rspidx = RspLen /\ card.blkdly = 0 /\ card.blkidx < MaxBlkLen
       /\ card' = [card EXCEPT !.blkidx = @ + 1] /\ Answer(BlockByte)
Answering ==
    /\ ~card.reading_data /\ card.cmdidx > 6 /\ Elapse
    /\ (Delays /\ Answer(Idle)) \/ Sends
    /\ Asserts(m_dat_in = Idle \/ (card.blkidx = MaxBlkLen /\ card.rspidx = RspLen))

TakeByte == WaitOnToken \/ TakeBlock \/ RecordCommand \/ Execute \/ Answering
=============================================================================
