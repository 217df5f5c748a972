------------------------------ MODULE HbConsole ------------------------------
(* The two halves of rtl/hexbus/hbconsole.v around HbExec.  Incoming, hbdechex *)
(* classifies each byte and hbpack gathers the bytes of a command word; a byte *)
(* or a run of digits is a token, of which hbdechex sees these kinds in t:     *)
(*   "op"  op                    R, W or A                                     *)
(*   "digits" addr, hold, data   the digits of a word, which the command       *)
(*                               before them says how to read                  *)
(*   "reset"                     T, which resets the core and the transmitter  *)
(*   "end"                       any other character: it ends a command        *)
(* A command is a record of HbExec.                                            *)
(*                                                                             *)
(* Outgoing, words pass through hbints, which adds interrupts, hbidle, which   *)
(* adds signs of life, and hbdeword, which takes them apart into characters;   *)
(* characters pass through hbgenhex, hbnewline, which ends an idle line, and   *)
(* the register that is shared with the console.  A word is a response of      *)
(* HbExec, or one of the kinds "int" and "idle".  A character is a token       *)
(* [t, word]: the letter of a word, the first or the last group of its digits, *)
(* or "cr" and "lf".                                                           *)
EXTENDS Naturals
CONSTANTS
    NoToken, NoCmd, Rsp(_),
    DigitGroups         \* groups of digits in a word
VARIABLES
    w_reset,                \* o_reset of hbdechex
    dh,                     \* o_dh_stb, o_dh_bits
    cmd_loaded, r_word,
    pck                     \* o_pck_stb, o_pck_word: a command, or NoCmd
VARIABLES
    int_state, pending_interrupt, loaded,       \* hbints
    int_stb, int_loaded, int_word,              \*   o_int_stb, o_int_word
    idl_stb, idl_word,                          \* hbidle: o_idl_stb, o_idl_word
    dw_stb, dw_tok, r_len,                      \* hbdeword: o_dw_stb, o_dw_bits
    gx_stb, gx_tok,                             \* hbgenhex: o_gx_stb, o_gx_char
    nl_stb, nl_tok, cr_state, last_cr, nl_loaded,   \* hbnewline
    ps_full, ps_tok                             \* ps_full, ps_data

ReceiveInit ==
    /\ w_reset = TRUE
    /\ dh = NoToken
    /\ cmd_loaded = FALSE /\ r_word = NoCmd
    /\ pck = NoCmd

\* hbdechex does not look at the top bit of the byte, which says whether it is
\* meant for the bus or for the console.
Dechex(byte) ==
    /\ w_reset' = (byte.t = "reset")
    /\ dh' = byte

\* hbpack: a command goes out as the next character that is no digit comes in.
Pack ==
    LET endsWord == dh # NoToken /\ dh.t \in {"op", "end", "reset"}
    IN  /\ cmd_loaded' = (/\ ~w_reset
                          /\ IF endsWord THEN dh.t = "op" ELSE cmd_loaded)
        /\ pck' = IF ~w_reset /\ endsWord /\ cmd_loaded THEN r_word ELSE NoCmd
        /\ r_word' =
             IF w_reset THEN NoCmd
             ELSE IF dh = NoToken THEN r_word
             ELSE IF dh.t = "op" THEN [NoCmd EXCEPT !.op = dh.op]
             ELSE IF endsWord THEN NoCmd
             ELSE [r_word EXCEPT !.addr = dh.addr, !.hold = dh.hold, !.data = dh.data]

Receive(byte) == Dechex(byte) /\ Pack

---------------------------------------------------------------------------
Special == {"reset", "err", "int", "idle"}      \* words that have no digits

TransmitInit ==
    /\ int_state = FALSE /\ pending_interrupt = FALSE /\ loaded = FALSE
    /\ int_stb = FALSE /\ int_loaded = TRUE /\ int_word = Rsp("int")
    /\ idl_stb = FALSE /\ idl_word = Rsp("idle")
    /\ dw_stb = FALSE /\ dw_tok = NoToken /\ r_len = 0
    /\ gx_stb = FALSE /\ gx_tok = NoToken
    /\ nl_stb = FALSE /\ nl_tok = NoToken
    /\ cr_state = FALSE /\ last_cr = TRUE /\ nl_loaded = FALSE
    /\ ps_full = FALSE /\ ps_tok = NoToken

NewlineBusy(txBusy) == txBusy /\ ps_full            \* i_busy of hbnewline
NlBusy(txBusy) ==                                   \* o_nl_busy
    \/ NewlineBusy(txBusy) /\ nl_stb /\ nl_loaded
    \/ cr_state /\ ~NewlineBusy(txBusy)
GxBusy(txBusy) == gx_stb /\ NlBusy(txBusy)          \* o_gx_busy
IdlBusyAlways == idl_stb                            \* mutant: no hand over
IdlBusy == idl_stb /\ dw_stb                        \* o_idl_busy; o_dw_busy is dw_stb
IntBusy == int_stb /\ loaded                        \* o_int_busy

\* hbints: one interrupt for each time the line rises.
PendInterrupt(reset, line) ==
    LET sent == int_stb /\ ~IdlBusy
    IN  /\ int_state' =
             (/\ ~reset
              /\ \/ line /\ ~int_state
                 \/ int_state /\ (pending_interrupt \/ line))
        /\ pending_interrupt' =
             (/\ ~reset
              /\ \/ line /\ ~int_state
                 \/ pending_interrupt /\ ~(sent /\ int_loaded))

\* Mutant: an interrupt only goes out while the next stage is busy.
IntStrobeBusy(takes) ==
    \/ takes
    \/ pending_interrupt /\ IdlBusy
    \/ int_stb /\ loaded /\ IdlBusy
IntStrobe(takes) ==
    \/ takes
    \/ pending_interrupt /\ (~int_loaded \/ IdlBusy)
    \/ int_stb /\ loaded /\ IdlBusy

\* A response goes first; without one the word is the interrupt's.
PassWord(reset, stb, word) ==
    LET takes == stb /\ ~IntBusy
        sent  == int_stb /\ ~IdlBusy
    IN  /\ loaded' = (~reset /\ (takes \/ (loaded /\ ~sent)))
        /\ int_stb' = (~reset /\ IntStrobe(takes))
        /\ int_loaded' = IF takes THEN FALSE ELSE int_loaded \/ ~IdlBusy \/ ~int_stb
        /\ int_word' = IF takes THEN word
                       ELSE IF ~IdlBusy \/ ~int_stb THEN Rsp("int") ELSE int_word

\* hbidle: `quiet` is the clock in which the idle counter overflows.
Idles(reset, quiet) ==
    LET takes == int_stb /\ ~IdlBusy
    IN  /\ idl_stb' = (/\ ~reset
                       /\ (takes \/ (quiet /\ ~idl_stb) \/ IdlBusy))
        /\ idl_word' = IF takes THEN int_word
                       ELSE IF ~dw_stb THEN Rsp("idle") ELSE idl_word

DewordDigits(n) == [t |-> IF n = DigitGroups THEN "hi" ELSE "lo", word |-> dw_tok.word]
DewordLength(word) == IF word.kind \in Special THEN 0 ELSE DigitGroups

\* hbdeword: the letter, then the digits.
Deword(reset, txBusy) ==
    LET takes == idl_stb /\ ~dw_stb
    IN  IF takes /\ ~reset
        THEN /\ dw_stb' = TRUE
             /\ dw_tok' = [t |-> "letter", word |-> idl_word]
             /\ r_len' = DewordLength(idl_word)
        ELSE IF reset \/ (dw_stb /\ ~GxBusy(txBusy) /\ r_len = 0)
        THEN dw_stb' = FALSE /\ dw_tok' = NoToken /\ r_len' = 0
        ELSE IF dw_stb /\ ~GxBusy(txBusy)
        THEN dw_tok' = DewordDigits(r_len) /\ r_len' = r_len - 1 /\ UNCHANGED dw_stb
        ELSE UNCHANGED <<dw_stb, dw_tok, r_len>>

\* hbgenhex
Genhex(reset, txBusy) ==
    /\ gx_stb' = (~reset /\ IF GxBusy(txBusy) THEN gx_stb ELSE dw_stb)
    /\ gx_tok' = IF reset THEN NoToken
                 ELSE IF GxBusy(txBusy) THEN gx_tok ELSE dw_tok

\* hbnewline: a carriage return that may still be replaced by a new character,
\* then a line feed that may not.
Newline(reset, txBusy) ==
    LET End(t) == [t |-> t, word |-> Rsp("idle")]
        Becomes(stb, tok, cr, last, ld) ==
            /\ nl_stb' = stb /\ nl_tok' = tok
            /\ cr_state' = cr /\ last_cr' = last /\ nl_loaded' = ld
    IN  IF reset THEN Becomes(FALSE, NoToken, FALSE, TRUE, FALSE)
        ELSE IF gx_stb /\ ~NlBusy(txBusy) THEN Becomes(TRUE, gx_tok, FALSE, FALSE, TRUE)
        ELSE IF NewlineBusy(txBusy)
             THEN UNCHANGED <<nl_stb, nl_tok, cr_state, last_cr, nl_loaded>>
        ELSE IF ~last_cr THEN Becomes(~gx_stb, End("cr"), TRUE, ~gx_stb, FALSE)
        ELSE IF cr_state THEN Becomes(TRUE, End("lf"), FALSE, last_cr, TRUE)
        ELSE Becomes(FALSE, NoToken, cr_state, last_cr, FALSE)

\* The register before the UART: the console's byte only when it and the bus's
\* characters are out of the way.
ConsoleToken == [t |-> "console", word |-> Rsp("idle")]
\* What goes up the line to the bus's side of the host.
Sent(txBusy) ==
    IF ps_full /\ ~txBusy /\ ps_tok.t # "console" THEN <<ps_tok>> ELSE <<>>
PortShare(txBusy, console) ==
    IF ps_full /\ txBusy THEN UNCHANGED <<ps_full, ps_tok>>
    ELSE LET con == ~ps_full /\ ~nl_stb /\ console
         IN  /\ ps_full' = (nl_stb \/ con)
             /\ ps_tok' = IF nl_stb THEN nl_tok ELSE IF con THEN ConsoleToken ELSE NoToken

Transmit(reset, line, stb, word, quiet, console, txBusy) ==
    /\ PendInterrupt(reset, line)
    /\ PassWord(reset, stb, word)
    /\ Idles(reset, quiet)
    /\ Deword(reset, txBusy)
    /\ Genhex(reset, txBusy)
    /\ Newline(reset, txBusy)
    /\ PortShare(txBusy, console)
=============================================================================
