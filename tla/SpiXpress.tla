----------------------------- MODULE SpiXpress ------------------------------
(* rtl/spixpress.v: the SPI flash controller, one transaction at a time.  The  *)
(* memory port (stb) reads words, each FirstDelay clocks long, or PipeDelay    *)
(* clocks when it reads the word after the last one; the configuration port    *)
(* (cfg) enters and leaves user mode and sends one byte at a time.  Words are  *)
(* shifted in by a free-running register: here a word is its address.          *)
EXTENDS Naturals
CONSTANTS
    FirstDelay, PipeDelay, UserDelay,   \* 65, 32 and 9 clocks in the code
    FlashSize                           \* words in the flash, 2^AW in the code
VARIABLES
    flash_stall, ack_delay, flash_ack,  \* the bus side
    cfg_user_mode, cs_n, r_next_addr,   \* o_spi_cs_n, the address that may be piped
    shift_addr,                         \* the address of the word shifted in
    flash_data                          \* o_wb_data: the address of the word it
                                        \* holds, or Shifting

flashVars == <<flash_stall, ack_delay, flash_ack, cfg_user_mode, cs_n,
               r_next_addr, shift_addr, flash_data>>

\* What the shift register holds when it is not a word of the memory.
Shifting == FlashSize

FlashInit ==
    /\ flash_stall = FALSE /\ ack_delay = 0 /\ flash_ack = FALSE
    /\ cfg_user_mode = FALSE /\ cs_n = TRUE
    /\ r_next_addr = 0 /\ shift_addr = 0
    /\ flash_data = Shifting

\* The requests the controller acts on; every other request it takes is
\* acknowledged at once.
BusRequest(stb, req) == stb /\ ~flash_stall /\ ~req.we /\ ~cfg_user_mode
NextRequest(stb, req) == stb /\ ~req.we /\ ~cfg_user_mode /\ req.addr = r_next_addr
UserRequest(cfg, req) == cfg /\ ~flash_stall /\ req.we /\ ~req.exit

FlashDelay(cyc, stb, cfg, req) ==
    ack_delay' = IF ~cyc THEN 0
                 ELSE IF BusRequest(stb, req)
                      THEN IF cs_n THEN FirstDelay ELSE PipeDelay
                 ELSE IF UserRequest(cfg, req) THEN UserDelay
                 ELSE IF ack_delay # 0 THEN ack_delay - 1
                 ELSE 0

FlashAck(cyc, stb, cfg, req) ==
    flash_ack' = IF ack_delay = 1 THEN cyc
                 ELSE \/ stb /\ ~flash_stall /\ ~BusRequest(stb, req)
                      \/ cfg /\ ~flash_stall /\ ~UserRequest(cfg, req)

FlashStall(cyc, stb, cfg, req) ==
    flash_stall' = (/\ cyc
                    /\ \/ BusRequest(stb, req) \/ UserRequest(cfg, req)
                       \/ /\ ~(NextRequest(stb, req) /\ ack_delay = 2)
                          /\ ack_delay > 1)

FlashMode(cfg, req) ==
    cfg_user_mode' = IF cfg /\ ~flash_stall /\ req.we THEN ~req.exit
                     ELSE cfg_user_mode

FlashSelect(cyc, stb, cfg, req) ==
    cs_n' = IF ~cyc /\ ~cfg_user_mode THEN TRUE
            ELSE IF BusRequest(stb, req) THEN FALSE
            ELSE IF cfg /\ ~flash_stall /\ req.we THEN req.exit
            ELSE IF cfg_user_mode THEN FALSE
            ELSE IF ack_delay = 1 THEN TRUE
            ELSE cs_n

\* Mutant: the address after the last word is one too wide.
FlashDataNoWrap(stb, req) ==
    /\ r_next_addr' = IF flash_stall THEN r_next_addr ELSE req.addr + 1
    /\ shift_addr' = IF ~BusRequest(stb, req) THEN shift_addr
                     ELSE IF cs_n THEN req.addr
                     ELSE (shift_addr + 1) % FlashSize
    /\ flash_data' = IF ack_delay = 1 /\ ~cfg_user_mode THEN shift_addr ELSE Shifting

\* A selected flash goes on to the word after the last one: the address is sent
\* only when the select line falls.  The word is whole when ack_delay runs out.
FlashData(stb, req) ==
    /\ r_next_addr' = IF flash_stall THEN r_next_addr ELSE (req.addr + 1) % FlashSize
    /\ shift_addr' = IF ~BusRequest(stb, req) THEN shift_addr
                     ELSE IF cs_n THEN req.addr
                     ELSE (shift_addr + 1) % FlashSize
    /\ flash_data' = IF ack_delay = 1 /\ ~cfg_user_mode THEN shift_addr ELSE Shifting

Flash(cyc, stb, cfg, req) ==
    /\ FlashDelay(cyc, stb, cfg, req)
    /\ FlashAck(cyc, stb, cfg, req)
    /\ FlashStall(cyc, stb, cfg, req)
    /\ FlashMode(cfg, req)
    /\ FlashSelect(cyc, stb, cfg, req)
    /\ FlashData(stb, req)
=============================================================================
