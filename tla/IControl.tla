------------------------------ MODULE IControl ------------------------------
(* rtl/cpu/icontrol.v: the interrupt controller of the bus.  A write holds     *)
(* what to clear, what to enable or disable (mask, by enable) and whether that *)
(* is also for all interrupts (master).                                        *)
EXTENDS Naturals
VARIABLES r_int_state, r_int_enable, r_mie, o_interrupt

NoWrite == [write |-> FALSE, clear |-> {}, mask |-> {}, enable |-> FALSE,
            master |-> FALSE]
PicWrite(clear, mask, enable) ==
    [NoWrite EXCEPT !.write = TRUE, !.clear = clear, !.mask = mask,
                    !.enable = enable, !.master = TRUE]

IControlInit ==
    r_int_state = {} /\ r_int_enable = {} /\ r_mie = FALSE /\ o_interrupt = FALSE

\* What has triggered stays until it is written; a line that is high wins.
TriggeredKeeps(w, lines) == r_int_state \cup lines      \* mutant: no clearing
Triggered(w, lines) == (r_int_state \ w.clear) \cup lines

Interrupting == r_mie /\ r_int_state \cap r_int_enable # {}
IControlClock(w, lines) ==
    /\ r_int_state' = Triggered(w, lines)
    /\ r_int_enable' = IF ~w.write THEN r_int_enable
                       ELSE IF w.enable THEN r_int_enable \cup w.mask
                       ELSE r_int_enable \ w.mask
    /\ r_mie' = IF w.write /\ w.master THEN w.enable ELSE r_mie
    /\ o_interrupt' = Interrupting
=============================================================================
