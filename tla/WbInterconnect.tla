--------------------------- MODULE WbInterconnect ---------------------------
(* The wb bus of rtl/main.v: the address decoder, the peripherals whose        *)
(* acknowledgement is a fixed number of clocks behind the request, the flash   *)
(* controller, and the logic that merges their answers into one.  A request is *)
(* [addr, we, data].  Of an address only what it decodes to matters, and of    *)
(* the word read there only which word it is: Decode[addr] = <<sel, reg>> says *)
(* both.  Of the data written only bit 8 matters, to the flash configuration   *)
(* port: it is set in ExitData.  Of the eight selects of the bus five are here: *)
(* the console answers with the timing of the block RAM, the SD card with that *)
(* of the single class, and the SDRAM is another controller that stalls.  A    *)
(* data register is tracked while an acknowledgement goes with it.             *)
EXTENDS Naturals
CONSTANTS
    Decode,                                     \* [addresses -> Selects \X Nat]
    NoWord, ExitData,
    FirstDelay, PipeDelay, UserDelay, FlashSize
VARIABLES
    sio_ack, sio_data,                          \* r_wb_sio_ack, r_wb_sio_data
    dio_ack0, dio_ack1, dio_bus_select, dio_data,   \* r_wb_dio_*
    ram_last_stb, ram_last_addr,                \* memdev: last_stb, last_addr
    ram_ack, ram_data,                          \*         o_wb_ack, o_wb_data
    flash_stall, ack_delay, flash_ack, cfg_user_mode, cs_n, r_next_addr,
    shift_addr, flash_data,                     \* spixpress
    wb_ack, wb_many_ack, r_wb_bus_select, wb_idata

Fl == INSTANCE SpiXpress

slaveVars == <<sio_ack, sio_data, dio_ack0, dio_ack1, dio_bus_select, dio_data,
               ram_last_stb, ram_last_addr, ram_ack, ram_data>>
mergeVars == <<wb_ack, wb_many_ack, r_wb_bus_select, wb_idata>>
icVars == <<slaveVars, Fl!flashVars, mergeVars>>

Mapped == {"sio", "dio", "bkram", "flash", "flashcfg"}

Sel(req) == Decode[req.addr][1]
Reg(req) == Decode[req.addr][2]

\* r_wb_bus_select comes up zero, the flash configuration port's number.
IcInit ==
    /\ sio_ack = FALSE /\ sio_data = NoWord
    /\ dio_ack0 = FALSE /\ dio_ack1 = FALSE /\ dio_bus_select = NoWord /\ dio_data = NoWord
    /\ ram_last_stb = FALSE /\ ram_last_addr = NoWord /\ ram_ack = FALSE /\ ram_data = NoWord
    /\ Fl!FlashInit
    /\ wb_ack = FALSE /\ wb_many_ack = FALSE
    /\ r_wb_bus_select = "flashcfg" /\ wb_idata = NoWord

Selects(bus, sel) == bus.stb /\ Sel(bus.req) = sel

\* wb_stall: only the flash stalls here, and only requests decoded to it.  Its
\* configuration port shares the controller, and main.v ties its stall to zero.
Stall(bus) == Sel(bus.req) = "flash" /\ flash_stall

\* wb_none_sel and wb_err
NoneSelected(bus) == bus.stb /\ Sel(bus.req) \notin Mapped
BusError(bus) == NoneSelected(bus) \/ wb_many_ack

\* What the merged bus answers its master.
IcReturn(bus) ==
    [ack |-> wb_ack, err |-> BusError(bus), stall |-> Stall(bus), data |-> wb_idata]

Tracked(acked, word) == IF acked THEN word ELSE NoWord

\* The class SINGLE peripherals: acknowledged one clock later, gated by nothing.
Sio(bus) ==
    /\ sio_ack' = Selects(bus, "sio")
    /\ sio_data' = Tracked(sio_ack', <<"sio", Reg(bus.req)>>)

\* The class DOUBLE peripherals: two clocks.
Dio(bus) ==
    /\ dio_ack0' = (bus.cyc /\ Selects(bus, "dio"))
    /\ dio_ack1' = (bus.cyc /\ dio_ack0)
    /\ dio_bus_select' = Tracked(dio_ack0', Reg(bus.req))
    /\ dio_data' = Tracked(dio_ack1', <<"dio", dio_bus_select>>)

\* Block RAM with its input registered (EXTRACLOCK = 1).
MemDev(bus) ==
    /\ ram_last_stb' = Selects(bus, "bkram")
    /\ ram_last_addr' = Tracked(ram_last_stb', Reg(bus.req))
    /\ ram_ack' = (ram_last_stb /\ bus.cyc)
    /\ ram_data' = Tracked(ram_ack', <<"bkram", ram_last_addr>>)

\* The flash controller serves two decoded ranges.
FlashPorts(bus) ==
    Fl!Flash(bus.cyc, Selects(bus, "flash"), Selects(bus, "flashcfg"),
             [addr |-> Reg(bus.req), we |-> bus.req.we, exit |-> bus.req.data = ExitData])

\* The peripherals acknowledging now; flashcfg_ack is tied to zero, its accesses
\* are acknowledged by the flash.
Acking ==
    {s \in Mapped : \/ s = "sio" /\ sio_ack
                    \/ s = "dio" /\ dio_ack1
                    \/ s = "bkram" /\ ram_ack
                    \/ s = "flash" /\ flash_ack}

\* The data lines the select register picks; flashcfg reads the flash's.
Selected ==
    CASE r_wb_bus_select = "sio"     -> sio_data
      [] r_wb_bus_select = "dio"     -> dio_data
      [] r_wb_bus_select = "bkram"   -> ram_data
      [] OTHER                       -> <<"flash", flash_data>>

\* One answer a clock leaves the merge; two at once are an error.
Merge(bus) ==
    /\ wb_ack' = (bus.cyc /\ Acking # {})
    /\ wb_many_ack' = (bus.cyc /\ \E s, t \in Acking : s # t)
    /\ r_wb_bus_select' = IF bus.stb /\ ~Stall(bus) /\ Sel(bus.req) \in Mapped
                          THEN Sel(bus.req) ELSE r_wb_bus_select
    /\ wb_idata' = Tracked(wb_ack', Selected)

Interconnect(bus) ==
    /\ Sio(bus)
    /\ Dio(bus)
    /\ MemDev(bus)
    /\ FlashPorts(bus)
    /\ Merge(bus)
=============================================================================
