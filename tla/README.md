# Verification of the ZipSTORM-MX design

TLA+ models of the parts of this repository, the TLC configurations that check
them on small instances, and proofs checked by TLAPS. The source is the
reference for every definition; `PROJECT.json` says which lines each stands for.

## The system

The repository is a ZipCPU system for an iCE40 board. `rtl/main.v` (generated
by AutoFPGA from `auto-data/`) connects the parts:

    zipload, zipdbg, zipstate, scopes, flashid, wbregs          sw/host
          | DEVBUS / HEXBUS (llcomms)
    netuart - serial line            or   dbluartsim            sw/host, sim
                  |
             hbconsole: hbdechex, hbpack, hbexec,
             hbints, hbidle, hbdeword, hbgenhex, hbnewline      rtl/hexbus
                  | hb bus
                  +-----------------------------+
    ZipCPU        |                             |
      | zip       | hb_dwb                  debug port (zipbones)
      +-- wbpriarbiter -- busdelay -- wb bus
                              |
     sio (buserr, pic, pwrcount, spio, ...)  dio
     bkram  flash+flashcfg  sdram  console  sdcard  scopes

The same design is also simulated: `sim/main_tb.cpp` loads a program into its
memories, ticks it, and gives it a flash (`flashsim`), an SD card (`sdspisim`)
and a serial port with two network ports (`dbluartsim`).

| part | state | operations | talks to |
|---|---|---|---|
| wbpriarbiter | who owns the bus | change owner, route requests and answers | both masters, busdelay |
| busdelay | a request, a second one held back by a stall, the answer | advance, hold, end on error | arbiter, wb bus |
| wb bus (main.v) | merged ack, error and data, the last select | decode, merge | all peripherals |
| spixpress | clocks left, mode, chip select, next address | read, read on, user mode, stall | wb bus, the flash chip |
| flash chip, flashsim | memory, command, enables, busy time | read, erase, program, status | spixpress |
| FLASHDRVR, zipload | the piece of the program under way, the flash's copy | erase, program, verify, load, start | DEVBUS, flash, debug port |
| zipbones, zipcpu, dblfetch, memops | reset, halt and step requests; the pipeline's registers | command and data register; fetch, decode, execute, write back | hb bus, zip bus |
| zipdbg, zipstate | the screen, the cursor, errors so far | halt, go, step, reset, edit, look | DEVBUS, debug port |
| hbexec | bus cycle, address, increment flag, response | set address, read, write, error, reset | hb bus, hbpack, hbints |
| hbdechex, hbpack | command under way | take a byte | serial line, hbexec |
| hbints ... hbnewline, port share | one word or character each | take, pass on, stall; add interrupts, idle words, ends of line | hbexec, serial line, console |
| HEXBUS driver | copy of the device's address, acks, word under way | readio, readi, readz, writeio, writei, writez | program, serial line |
| netuart, dbluartsim | two connections, lines and characters kept | accept, split, mark, close | serial line, programs at two ports |
| console, ufifo | a FIFO or a register each way, reset and error flags | write, read, status | wb bus, serial line |
| icontrol | pending and enabled interrupts | trigger, acknowledge, enable, disable | wb bus, CPU, hbints |
| syscalls.c, cputest.c | the procedure that runs | write or read a character, poll or sleep | console, icontrol |
| wbscope, wbscopc, SCOPE | trigger, holdoff, circular buffer; what was read | arm, trigger, stop, read; decompress, mark | wb bus, DEVBUS |
| crt0.c | two pointers | copy kernel, copy image, clear BSS | flash, block RAM, SDRAM |
| main_tb, zipelf | sections, the end of the run | read a file, load, tick, exit | memories, CPU |
| memtest.c | round, test, shift register, pointer | fill, read back, fail | SDRAM |
| udiv.c, umod.c | quotient so far, divisor | divide, remainder | CPU's divide |
| sdspi, llsdspi, sdspisim | command, response, FIFOs, tokens; the card's state | commands, blocks, registers | wb bus, card |
| wbsdram, genuctrl | open rows, pipeline of acks, refresh | read, write, activate, precharge, refresh | wb bus, SDRAM |

What is hard here: the masters, the delay stage and the peripherals are all
pipelines of registers, so a request, its stall, its answer and the end of its
cycle are on different clocks in different places; either master may abandon a
cycle at any time; wishbone answers carry no name, so nothing but order and
cycles tells whose an answer is; the serial protocol keeps one address in two
places that are never compared before use; interrupts, idle words and console
bytes are mixed into the answers; a program learns whether there is room, or a
character, clocks before it acts on it. A debugger's accesses fall on any clock
of a CPU that is fetching, loading or at a break. Host programs are killed between any two accesses and
leave a chip with its enables set and its work half done. The scopes' data,
trigger and stop go through pipelines of different lengths. And two servers, which block
in different calls, share one line between two kinds of bytes.

What makes each part correct is what its properties below say. For parts not
modelled: the SDRAM controller keeps the chip's timing, answers in order and
refreshes in time; a timer that expires is told of once.

`PROJECT.json` lists all components with their status and, under "hazards", each
place where the above can go wrong.

## Modules

| module | models | role |
|---|---|---|
| `WbPriArbiter` | `rtl/cpu/wbpriarbiter.v` | r_a_owner and the routing of requests and answers |
| `BusDelay` | `rtl/cpu/busdelay.v` | both request registers, the answer register |
| `SpiXpress` | `rtl/spixpress.v` | the bus side of the flash controller |
| `WbInterconnect` | wb bus of `rtl/main.v`, `rtl/memdev.v` | decoder, peripherals, merge; instantiates `SpiXpress` |
| `HbExec` | `rtl/hexbus/hbexec.v` | commands to bus requests |
| `WbBus` | `rtl/main.v` | all of these with a CPU, clock by clock |
| `WbBusProofs` | | theorems about `WbBus` |
| `HbConsole` | the rest of `rtl/hexbus/hbconsole.v` | bytes to commands, responses to bytes |
| `HbHost` | `sw/host/hexbus.cpp` | the driver |
| `DevBus` | `sw/host/devbus.h` | abstract specification: what the driver promises |
| `HexBus` | | driver, serial line, device and memory; implements `DevBus` |
| `HexBusProofs` | | a theorem about `HexBus` |
| `Ufifo` | `rtl/ufifo.v` | a FIFO, as a record and its clock |
| `Console` | `rtl/hexbus/console.v` | both ways through it, its answers and interrupts |
| `IControl` | `rtl/cpu/icontrol.v` | the interrupt controller |
| `ConsoleIo` | `sw/zlib/syscalls.c`, `sw/board/cputest.c` | the procedures that use these, on them |
| `ConsoleProofs` | | theorems about `ConsoleIo` |
| `FlashSim` | `sim/flashsim.cpp`, or a chip | the flash, byte by byte |
| `FlashDrvr` | `sw/host/flashdrvr.cpp` | erase, program, verify, one bus access a step |
| `ZipLoad` | `sw/host/zipload.cpp`, `zipelf.cpp`, `dumpflash.cpp`, `flashid.cpp` | loaders, dumps and users, one after the other, on one flash |
| `ZipLoadProofs` | | theorems about `ZipLoad` |
| `NetPorts` | `sw/host/llcomms.cpp` | the two ports, what is at their ends, the line |
| `NetUart`, `DblUartSim` | `sw/host/netuart.cpp`, `sim/dbluartsim.cpp` | the two servers |
| `PortServers` | | one of them at a time, with programs that come and go |
| `PortProofs` | | theorems about `PortServers` |
| `WbScopes` | `rtl/wbscope.v`, `rtl/wbscopc.v` | what they share (control, trigger, buffer, read-out), what each records and when it stops |
| `ScopeRun` | `sw/host/scopecls.cpp` | a scope, its signal, its operator and the program that reads and decompresses |
| `ScopeProofs` | | theorems about `ScopeRun`, for the scope without compression |
| `Bootloader` | `sw/zlib/crt0.c`, `sw/board/*.ld` | from reset to `main()` |
| `MainTb` | `sim/main_tb.cpp`, `automaster_tb.cpp`, `testb.h`, `zipelf.cpp` | the simulator: load, tick, end; on `Bootloader` |
| `MemTest` | `sw/board/memtest.c` | the four tests on good and faulty memories |
| `LongDivide` | `sw/zlib/udiv.c`, `umod.c` | division of longs, signed and not |
| `SdSpiSim` | `sim/sdspisim.cpp` | the card, byte by byte |
| `SdSpi` | `rtl/sdspi.v`, `rtl/llsdspi.v` | the controller, byte by byte |
| `BoardPrograms` | | one of these programs at a time, and one that uses the card (external) |
| `BootProofs` | | a theorem about the bootloader and the simulator in `BoardPrograms` |
| `ZipBones` | `rtl/cpu/zipbones.v`, `zipcpu.v`, `dblfetch.v`, `memops.v` | the debug port and the pipeline as built |
| `ZipDbg` | `sw/host/zipdbg.cpp`, `zipstate.cpp` | the programs that look into the CPU |
| `ZipDbgProofs` | | theorems about `ZipDbg` |
| `MC...` | | values of the constants for TLC; `MCWbBusLive` also gives `WbBus` a visible clock, its fairness and liveness |

A Verilog module is a TLA+ module whose variables are its registers, by their
names; its outputs that are wires are operators. An action gives every register
its next value, and a clock of the whole design (`Clock` in `WbBus` and `HexBus`) is the
conjunction of the actions of its parts: Verilog's nonblocking assignments read the
old values and happen at once, which is what such a conjunction means. A C++ object
is a module whose variables are its members; an action is what happens between two
accesses to something that others also change (a bus access, a read or write of a socket).

`WbBus`: the CPU is any master that keeps the rules of `bench/formal/fwb_slave.v` (no
strobe outside a cycle, a stalled request stays, one direction per cycle, the
cycle ends after an error) with up to `MaxOutstanding` requests unanswered. It
also keeps the rule in main.v's comment on many_ack: two peripherals are not
accessed one right after the other in a cycle. Addresses are the elements of
`Decode`, which maps each to a select and a register. A word of data is the name of
what it was read from, so that an answer with the wrong data is told apart.
`zip_pend` and `hb_pend` are history variables: what each master knows it is waiting
for. `i_reset` is tied to zero by `rtl/toplevel.v`; the only reset is that of the hex
bus (`HostReset`).

`HexBus`: a character is a record; the eight digits of a word are two groups, enough
for a pause in the middle of a word. The hb bus is a memory that takes and
answers at any time (its own correctness is `WbBus`). `asked` and `got` are history
variables: the accesses the calls so far have asked for and not seen done, and
the words of those done. The clock that brings a byte comes only once the bus
has nothing left to do (`ByteTime`): a byte on the serial line takes hundreds of clocks, a bus
request at most some tens.

`ConsoleIo`: the console's two FIFOs are records, `Fifo` the value of one after a clock.
`WithFifo` is the generate of `console.v`: a length of zero is a console without
FIFOs, as `main.v:844` builds it, and `Init` takes any of `FifoLengthsBuilt`, so that one run checks
both. Written characters are numbered, and so are those that come, so that one lost,
repeated or out of order is seen. `pc` is the procedure that runs and where it is: `_outbyte` and `_inbyte`
of `syscalls.c`, `txchr` and `wait` of `cputest.c`, and a host that reads the
receiver (`wbregs`). In any clock the CPU may be about something else (`Elsewhere`), the link busy and a
character come. Of the nibbles in the FIFO status only the bit that programs look at is
kept. `waited` is a history variable: what the receiver held when it was asked.

`ZipLoad`: a byte of the flash is the set of its bits that are one; programming is an
intersection, erasing the full set. `chip.kind` is `flashsim`, with its assertions and
its answers, or `chip`: one that refuses what a data sheet refuses and keeps
going. An access to the bus is a step, so a loader is killed between any two
(`Kill`), the chip ends its work at any time (`ChipDone`), another loader, a dump or a user
with `wbregs` comes after. `found` says that this loader found the flash readable when it began:
nothing in the repository brings a flash back that was left in its command mode.

`PortServers`: bytes are numbered for each port, and marked or not as the servers mark
them. A socket holds `SockRoom` bytes and the line `LineRoom`, so that writes are partial and
block; a program may type, take what it was sent, leave or be killed in any state of
the server. `server` is which of the two runs.

`ScopeRun`: a clock is a step, of the scope, of the signal it watches and of the bus.
The signal is a bit, and the trigger comes with any sample. `window` is a history variable, the last samples,
against which the words that the program prints are compared. `compressed` is which of
the two scopes it is.

`BoardPrograms`: `program` is the one that runs. In `Bootloader` a word is the name of its
place in the program; the layouts are those of the three linker scripts, with every
size up to the bounds; a reset may come in any step until `main()`, and after `main()` has
written its variables. In `MainTb` a file is the program cut into sections, one of which may
be empty or end in part of a word; `act` is what `main()` does last (exits by each of the codes of
`execsim`, breaks, or goes on). `MemTest` has the shift registers with `LGMEMTEST` bits and
a memory with no fault or any fault of a stuck bit or address line. The program that uses the SD card is external: the
repository has none, so this one follows the card's own states.

`ZipBones` and `ZipDbg`: a clock is a step (`Tick`); whether the fetch or the load is answered in it is the
environment's choice. An access of the host goes through `Access`, with at least `MinGap` clocks
between two, as it takes the serial line many more. An instruction is one of four kinds: one that
computes, one that loads (and stays busy), one that jumps, and a break. `ran`, `idle` and `edit` are history
variables of the properties: how many instructions a step carried out, how many steps
have carried out none, what was typed last. Keys, cells and values are the user's.

## Runs

| run | module | what it shows |
|---|---|---|
| bus | `MCWbBus` | `TypeOK`; `AnswersOldest`: an ack answers the master's oldest request with its word; `ErrorsAreOwn`: a master is told of an error only for a request of its own, the host outside a cycle only in the clock after a reset that ended one; `NoneDropped`: unanswered requests are exactly those in flight; `OnlyOwnerWaits`; `OwnerKeepsCycle`; `StalledRequestHeld` |
| busLive | `MCWbBusLive` | `CpuServed`: the CPU's requests are taken and answered; `HostServed` |
| hexbus | `MCHexBus` | `AccessesAsAsked`: each bus access is the next one asked for; `ResponseTaken`; `KeepsPromise`: refinement of `DevBus` |
| hexLive | `MCHexBus` | `CallReturns`, `InterruptAnswered` |
| hexSkip | `MCHexBus` | violation: `AccessesAsAsked` |
| console | `ConsoleIo` | `TypeOK`; `FifosSound`: flags and next word agree with the memory; `InOrder`: each written character is sent, once, in order (`OffersNext`), none is written without room (`RoomWhenWritten`), what is read is new (`ReturnsNew`); `CallReturns`; `WrittenIsSent` |
| flash | `MCZipLoad` | `DoneAsSaid`: what is said to be loaded, started or dumped is; `RunsReadable`: the flash answers a CPU that runs; `CommandsAccepted`: no command is refused, and, with a stack that holds no length that ends in the flash, no assertion fails; `OnlyItsSectors`: nothing else is erased, nor what need not be; `LoaderEnds` |
| ports | `PortServers` | `OnlyCommandsMarked`: a byte is sent to the board marked as its port says (but a terminal may itself send bytes with the top bit set); `GivenAll`: a program gets what was sent to it, in order, from either server; `TypedArrives`: what is typed gets to the board, once, in order |
| scope | `ScopeRun` | `ShowsTheSignal`: the words printed are the signal, clock by clock; `MarksTheTrigger` |
| board | `MCBoardPrograms` | `ProgramInPlace`: when the simulator starts (`SimLoads`), when `main()` does (`MainFindsProgram`: the BSS is zero if the program came from flash, and as it was found if not), and left to be started again (`StartsAgain`); `SimEnds`: with the program's status; `TestTells`: faults are found, good memories pass, in rounds whose number a state of the registers is; `DivisionExact`; `CardWorks`: commands do what they are for and end, and the card comes up |
| debug | `MCZipDbg` | `ShowsTheCpu`: the screen is what the registers hold, and the cell edited what was typed, unless it shows a user's timer; `NeverStalls`; `RunsAsShown`: the next instruction is the one the PC shows, on the values shown; `StepsOne`: a step is one instruction at most, two are one at least; `GoneIsRunning`; `KeyAnswered` |
| debugUserPc | `MCZipDbg` | violation: `RunsAsShown` |

### Bounds

Bounds of the bus runs: ten addresses cover every kind of peripheral timing (one clock, two,
block RAM, stalling flash and its configuration port), an address nothing
answers and both debug registers; two words of flash, and of RAM one for each master, tell an answer
from its neighbour's. The flash's clocks are 4, 3 and 3 instead of 65, 32 and
9: nothing but zero, one, two and more is told apart. Four requests outstanding
fill a peripheral and the delay stage's two registers, and leave one to be stalled at its near side. There is no
bound on time: runs explore all states.
The liveness run is smaller, as its graph is searched for cycles.

Bounds of the hex bus runs: two calls, because every hazard is a disagreement one
call leaves to the next; memory at three addresses, with an error on each side, of
twelve, four per digit group. `MaxOf` and `MaxEvents` bound the events from outside:
one idle word or console byte in `hexbus`, one of an interrupt, an idle word or a
typed letter in `hexLive`. The calls of `hexbus` (`MCCalls`) leave out what the driver does
get wrong, or the passing properties could not be stated: an incrementing call
at the address where a write has left `m_lastaddr` (hexSkip, and the split echo
below), a write to an address with an error (the error is told twice). An
interrupt is left out of `hexbus`, since an ack may be lost with it (below).

Bounds of the console run: FIFOs of four hold three, and four characters
written and four typed fill one, overflow the receiver and wrap its indices. (`console.v` builds none
smaller.) Of the interrupts, `console` looks only at the one that `wait` sleeps on: the others
reach no procedure, as it enables one and disables all. The calls with FIFOs leave out `_outbyte`, and `_inbyte`
which echoes through it: TXWAIT would wait for ever on the transmit flag of a FIFO (below).

Bounds of the flash run: words of two bytes, pages of two words, sectors of two pages and two sectors, so that
a program begins and ends at, before and after every kind of boundary; bytes of two bits tell
a byte that only needs programming from one that needs an erase. Two loads, as what one leaves
is what the next meets.

Bounds of the ports run: two connections in all, at one port after each other or one at each (`MaxSessions`), and two
bytes in all, typed or sent by the board (`MaxBytes`): two of one kind, whose order can be wrong, or one of each. There is
room for one on each socket and on the line: a write is cut and blocks as soon as there are two. The
simulator's buffers hold four (`DblPipeBufLen`, 256 in the code). `Typed` has the byte whose top bit is set
(the mark's own bit) and the NUL.

Bounds of the scope run: a buffer of eight words, holdoffs of 0 and 2, runs of up to
three; the window is one more than the buffer, since a word read is compared up to there.
Signal changes (`MaxMoves`) and triggers come at any clock. The largest holdoff is left out (below).

Bounds of the board run: kernels of two words, images of three and BSS of two give every single and
longer part, and an empty kernel and BSS. An image has at least a word: with `bkram.ld` `.start` is in it, and of one of none in
the other layouts `crt0.c:70-77` itself says that `_ram_image_end` is not where it should be. The shift registers have three bits and the memory eight words of
four bits. Words of the division have 4 bits and its longs 8: signed operands are all
around zero and the extremes, unsigned ones the low ones, around the middle, and the high ones. A
block has 6 bytes instead of 512, and the card's start takes 30 steps instead of 4 ms of ticks: the protocol counts
them and looks at none of these numbers. `MCFiles` leaves out the files that the
simulator gets wrong (below).

Bounds of the debug run: four instructions, one of each kind, with the loop that the jump
makes; two registers of each set, the general one and the PC; one cell of a peripheral, one timer of each
set, so that the key `u` changes what the screen shows (and `m` back); three keys, two sessions, one
retry. An edit of the user's PC is left out of `debug` and is all that `debugUserPc` adds.
`MaxLook` (how often a program looks whether the CPU has halted, `MaxErr` how often it starts again) are smaller
than in the programs: a load that is not answered exceeds any.

CHECK_DEADLOCK is FALSE where programs end: in the hex bus runs after `MaxCalls`, in
flash, ports, board and debug after the last session. Elsewhere it is checked.

### Fairness

`MCWbBusLive!FairSpec`: the clock goes on. `clk` toggles with each clock, so that
a clock in which no register changes is a step: without it weak fairness of `Next` would
make the CPU give up, or the debugger halt it, whenever the bus stands still. `HostServed` assumes
besides that the CPU keeps letting go of its cycles: it has the priority, and
nothing else makes it. `HexBus!FairSpec`: WF of `Prompt`, a clock in which the bus
answers, the serial port takes a character and the line delivers a byte if one
is there, and WF of the host's steps. These are the peripherals' latency (bounded, by
`CpuServed` and `HostServed`), the baud clock and the host's scheduler. Interrupts, idle words and
typing are under no fairness. `ConsoleIo!FairSpec`: the CPU runs on (WF of `Program`); the link is ready
again and again (WF); and it is so when a poll of the transmitter looks (SF), since the link
is idle for longer than a poll takes, so that the two do not miss each other for ever.

`ZipLoad!FairSpec`: the loader goes on and the chip ends what it is busy with (its data sheet's times
are bounded); nobody need kill, start or type anything. `PortServers`: the server runs, the line
takes what it is given, and a program that stays connected reads; the last is an assumption on
clients, since netuart waits in `write` for one that does not. `BoardPrograms`: the
CPU, or the simulator, runs on. `ZipDbg!FairSpec`: the clocks between two accesses pass
(`[]<>(gap = 0)`), and a program makes the access that it may make (`[]<>~MayAccess`); the CPU's own
bus need not ever answer, and the user need not press a key.

## What the violations say

* **hexSkip** after `writei` the driver counts the address up twice, and the next call at the place
  it believes in sends no address.
* **debugUserPc** an edit of the user's PC in a CPU halted in supervisor mode moves the prefetch
  (`zipcpu.v:2357` looks at four bits of the register's number), and the CPU goes on at the
  user's PC, with the supervisor's registers.

## Disagreements without a run

Each was met while modelling. Where the code is modelled with it, the passing runs leave out, by a
constant, the case in which it shows.

* `hbexec.v:283` takes an error without looking at its own cycle. `ErrorsAreOwn` says when that matters: in the clock after
  `HostReset`, of the request the reset gave up.
* `main.v` shows the flash's stall only to its memory range: two configuration
  writes in one cycle lose the second (`PipelinedConfig`, FALSE in the runs).
* An interrupt on an idle link waits until a response goes out (`hbints.v:95`); with an
  interrupt and two pipelined writes one ack is lost, as hbexec does not wait (`hbconsole.v:128`).
* Letters typed at the console are bus commands too (`hbdechex.v:53`).
* readidle forgets digits it has read before a pause, so an address echo cut in two leaves a wrong
  `m_lastaddr`; and it throws before noting the character after an error,
  so the next call throws for it again.
* As built, a read of the console's receiver clears it before the answer is formed, which
  always says "empty": `_inbyte` never returns a character. With FIFOs, which `main.v` does not build, the
  bit for "room" means "full", and a receiver polled while empty, on the very clock in which a
  character comes, drops it.
* `flashdrvr.cpp:194-195` says of a sector that equals the program's part, "go on". `write` reads its whole words
  only (`209`) but compares its bytes (`213`): where the part ends inside a word, the last ones are
  compared with memory never read. An equal sector may be erased (`WholeWords` in `OnlyItsSectors`), and one whose
  last bytes differ taken for loaded (`InWholeWords` in `DoneAsSaid`; without it TLC shows the program of three bytes, loaded over one
  that has the first two).
* `flashdrvr.cpp:244` reads `len` in its own initialiser: a page's length is cut from that of the page
  before, or, for the first, from what the stack holds. After the first every page is cut at its own end, so the last one is
  programmed past the program's and verified there: a load over old data that need not be erased fails. A
  stack that holds a length that ends in the first page leaves the rest of it unwritten, or fails an assertion
  (130-132): TLC shows both with `StaleLengths` = {1} and {3}. Nothing in the code keeps such a length away. The run takes 0 and one
  beyond the flash, and the theorems that need it name it (`StaleHarmless`); that the chip accepts every command needs it not (`ChipAccepts`).
* `flashdrvr.cpp:106` verifies an erase at an address that has the base twice: it reads the SDRAM.
* netuart ends when a program it writes to is killed (`netuart.cpp:185`, where `440-443` says that
  the connection is closed kindly), and by its assertion when a NUL is typed at the console port (`226`). A first
  `read` of a terminal that fails ends it too, a later one in the same turn only the turn.
* With the largest holdoff, which `auto-data/dbgscope.txt` uses, the counter of `wbscope.v:268`
  wraps: the buffer is not the trigger's. Where the trigger is in a compressed buffer no program shows.
* A program in block RAM alone has its BSS not cleared: `_rom` is 0, and `crt0.c:215-219` compares the end of the image
  with itself, where `crt0.c:80-85` says that the BSS is. `MainFindsProgram` says what the code does: not a word of it is written.
* `main_tb.cpp:397` uses an offset in octets as an index of words, right for offset zero only;
  a section without bytes ends `zipelf.cpp`'s list before its last one; a last word that is not whole is not
  turned round.
* zipdbg's cells for the peripherals are registers 32 and on, of which the debug port keeps
  five bits: they show registers. After the key `u` four of them show the user's timers (`zipdbg.cpp:370-380`), but an edit there writes
  the master's of the same place (`527-530`), and the value typed is not on the screen. `ShowsTheCpu` says so, cell by cell. A single step may only decode (two carry an instruction out, `StepsOne`). `zipstate`
  that looks at a running CPU leaves it halted.
* The SD card simulator leaves `m_altcmd_flag` uninitialised, answers CMD58 with the busy bit turned round, and crosses
  its error tokens; the controller takes a first byte of a busy answer as the end of it.
* Test #4 of `memtest.c` does not end from the round whose number no register reaches (2^19 on).
* A division of longs by zero traps only if the dividend is below 2^32; above it returns something.

## Proofs

A run checks a small instance; a theorem holds for every value of the constants
that the named assumptions of the modules allow. Each invariant below was an invariant of a TLC
run before it was proved. The proof that a step keeps it has a lemma for each
action, or for each part of the hardware that a clock moves.

**The bus** (`WbBusProofs`): any address map, latencies of at least three clocks,
set of requests and number outstanding (`BusAssumption`).

* `TypeCorrect`: `TypeOK`. Two implications are conjuncts since typing needs
  them: a register that is read is a number only while its strobe is up.
* `OwnerKept`: `OwnerKeepsCycle`, from the typing of the owner. `StalledHeld`: `StalledRequestHeld`, by
  the cases of the delay stage: a request is replaced only on Advance, which a stall excludes.
* `OnlyOwnerEverWaits`: `OnlyOwnerWaits`. It is not inductive alone: the host could have a
  request pending outside its cycle, or two. `BusInv` adds `OneHostRequest`: hbexec strobes
  only in a cycle with nothing pending, and no master has requests outside a
  cycle. Then a change of owner needs the loser's cycle to be over.
* `NothingDropped`, `OwnErrors`, `OldestAnswered`: `NoneDropped`, `ErrorsAreOwn`, `AnswersOldest`. They say what
  comes out at one end of a pipeline; the invariant, `FlightInv`, says where in it each request is. The requests
  that a master waits for are, oldest first, at the merged answer, at a peripheral about to answer (late, then early), in
  the delay stage's register and in its second one: `AtMerge`, `AtLate`, `AtEarly`, `AtDelay`, `AtHeld` are the
  places in the list that these have. It needs that the requests of a cycle are to one peripheral (`Alike`: the rule in main.v's comment on many_ack), that
  cycles on both sides of the arbiter agree (`CyclesMatch`), and that the flash counts as many as it
  holds (`FlashHolds`). Hypotheses: not `PipelinedConfig`, with which a request is lost (above); for the last theorem also `DebugWords`,
  the debug port tells its two registers apart by the last bit of the address, and `DebugHeld`: an access of the host's to it
  does not increment. The code that uses the port, `HEXBUS::readio` and `writeio`, never asks for that. `ErrorsAreOwn` is of steps, since an
  error that the host sees outside a cycle is of the request that it gave up the clock before: it takes `FlightInv` before the step as well as after it.

**The hex bus** (`HexBusProofs`): any number of calls of any length, interrupts, idle words and bus errors.

* `HeldAccessesAsAsked`: `AccessesAsAsked`. The invariant, `InOrder`, is about the whole way of a command: the line, `hbdechex`,
  `hbpack`, the register before `hbexec`, the bus. One command at a time is past the line (`OneCommand`; by `ByteTime`, a
  character comes when the bus has nothing left to do), what is on the line is well spelt and goes on with the command being
  received (`Spelling`: digits cut in two are not), and the accesses asked for have places on that way, in order (`AskedAt`: of each, the
  place of its letter, or the device), with the address that the last word before it sets. `Asking` is about a call that is not yet all sent:
  the rest of it will find the address that the device then has. Hypothesis `HeldOnly`: nobody types at the console, whose letters are bus commands too, and
  no call increments: with `writei` the theorem is false (`hexSkip`), and `readi` needs in addition that no read fails. `wbregs`, `flashid` and
  `scopecls` use only `readio`, `readz` and `writeio`, the debuggers too.
* `HeldResponsesTaken`: `ResponseTaken`. `hbexec` does not wait for the words behind it, so nothing in a clock keeps it from losing an
  answer: what does is how few can be on their way. They are of three sorts, the echo of an address, the answer to an access and
  a sign of life, and each is at one of fourteen places (`At`) from the letter of its command on the line
  up, through the device, to the driver that has taken its letter and not yet seen that the word ends. `Ordered` says that of each sort
  at most one is on its way (`OneEach`), the echo in front of the answer (`EchoFirst`). A word in `hbints` that cannot go on has two
  before it; with one in `hbexec` that would be four words of three sorts. That a place is left before the next one comes needs how the
  registers after `hbdeword` share a word's characters (`Outgoing`), that a digit follows no space (`Digits`, so that the driver ends no word too soon),
  when `hbexec` speaks (`SpeaksOnce`), and what an answered call leaves behind: nothing (`Owed`). Hypotheses, each of which the argument needs: besides `HeldOnly`, writes are of one word
  and without errors (`SingleWrites`, as `writeio`'s are; the words of `writez` are sent without waiting for their acks, and
  an error is told twice); no interrupt comes, a fourth sort for which there is no room; and no read gives up after its third idle word
  (`GivesUp`), which leaves its answer on the way.

**The console** (`ConsoleProofs`): FIFOs of every length from four up, or none.

* `ConsoleFifosSound`: `FifosSound`. The invariant, `ConsoleInv`,
  says of each FIFO that its indices are in range (`Shape`) and, unless its reset is pending, that
  it is `Sound`; without a reset it need not be, as nothing else gives `r_next` a
  value. `FifoSound` goes through a clock by what is accepted and what advances; the
  arithmetic of the indices is in one lemma (`AfterFacts`), so that no later step sees it.
* `ConsoleTypes`: `TypeOK`. A number typed or sent stays in range only because of how
  many a FIFO holds (`Counts`), and that only because of which answer a program is waiting for (`Control`).
* `ConsoleInOrder`: `InOrder`. A FIFO's words are followed by their place from the oldest (`Place`, `Held`), and hold
  consecutive numbers (`Outgoing`, `Incoming`); `RoomKnown` carries what a program has seen of the room over the clocks until it writes. Hypothesis `PollsAsBuilt`:
  programs that poll the flags of TXWAIT use a console without FIFOs, as it is built.

**The network ports** (`PortProofs`): any number of connections and bytes, any room on the way, either
server (`PortsAssumption`, `BufAssumption`).

* `CommandsAreMarked`: `OnlyCommandsMarked`. `MarkedInv` follows a byte from the socket (`SocketsHold`) through
  the servers' buffers (`BufsHold`, `DblHolds`) to the line (`LineHolds`), where it is marked as its port says.
* `ProgramsAreGiven`: `GivenAll`. `Gives` says that what a program has been given, what the server keeps for it, and what is still
  to come from the line are numbers that follow each other, while it is served (`Fresh`, `Ordered`, and `NetInv` or `DblInv` for what each server
  keeps at each point of its code). Two facts of the model make it provable: the bytes of one port on the line are taken by a recursive
  function (`OfPort`), about which the provers can be told, instead of by `SelectSeq`; and its lemmas are proved by the least
  length at which they fail.

**The debugger** (`ZipDbgProofs`): any program, registers, keys, edits and retries; two accesses of the host are three
clocks apart (`MinGap`, `DebugAssumption`).

* `CpuIsShown`, `DataNeverStalls`, `StepIsOne`, `GoneRuns`: `ShowsTheCpu`, `NeverStalls`, `StepsOne`,
  `GoneIsRunning`. Their one invariant is `DebugInv`: a CPU that has said it is halted stays so (`HaltedStays`) as its pipeline has become quiet
  (`Settles`, `Quieting`); what the screen holds is then what the registers do (`Shown`, `EditWritten`; the cell edited is the one at
  the cursor in the view that is shown, `EditInView`), and a step carries out what
  was decoded (`OneInsn`, `Decoded`).
* `CpuRunsAsShown`: `RunsAsShown`, with `PipeFollowsPc`: what is fetched or decoded is from the
  program counter on. Hypothesis `UserPcLeft`: the user's program counter is not edited; what happens else is `debugUserPc`.

**The loader** (`ZipLoadProofs`): any program, buffer, sizes of pages and sectors (`FlashSimAssumption`, `ZipLoadAssumption`).

* `LeftReadable`: `RunsReadable`. `AllAccepted`: the chip refuses no command of the first loader (`ChipAccepts`, a half of `CommandsAccepted`),
  with no hypothesis about lengths. `PagesAsAsserted`: the whole of `CommandsAccepted`, under `PagesAsBuilt`, pages that divide the sectors
  and the flash, for the behaviours with `StaleHarmless`: the length that `flashdrvr.cpp:244` reads before it is set does
  not end in the flash. The code does not see to that, and without it the theorem is false (above). `PagesInv` says that the length
  kept from the last page ends before this one (`Past`), so that each is cut at its end (`Cut`). `LoaderInv` relates the
  place in the loader's code and the bytes of a command it has still to send to the state of the chip
  (`LoaderKnows`, by `Enabling`, `Commanding`, `Polling`, `Between`): the chip's answers are read one access at a
  time, and a command is right only for the enable sent before. `CpuRuns` and `FirstLoader` say which loaders this is true of:
  a loader killed in between leaves a chip of which the next one knows nothing.
* `OnlySectorsChanged`: `OnlyItsSectors`, of behaviours with `StaleHarmless`, under `SectorsAsBuilt`: besides `PagesAsBuilt`, a flash of whole sectors that begins at a
  multiple of its size, as the address decoder needs. It is a property of single steps: only the byte that ends a command changes
  the memory (`SendMemory`), so `SectorsInv` says after every byte what the chip has been told (`Told`): the
  address of an erase is that of the sector under way, and what is in the page's buffer is the program's bytes, each in its
  place, or ones (`Buffered`); and that an erase was asked for by a byte that is not yet what it will be (`Stale`). The buffer's bytes
  past the program are ones (`DataBeyond`), so the last page programs nothing there.
* `LoadedAsSaid`: `DoneAsSaid`, of behaviours with `StaleHarmless` too, under `LoadsAsBuilt`: besides `SectorsAsBuilt`, pages of whole words, block RAM and flash apart, a flash
  that does not begin at zero, users that send no command that writes (one may undo what was loaded, as he may mean to), and programs as
  the linker scripts lay them out (`Linked`): sections that do not overlap, those without bytes last, since `elfread()`'s
  list ends there and what follows is not loaded, and none in block RAM within the last word of another, of which `zipload`
  writes all. `CopiedInv` says which sections are in the buffer or in block RAM, and that no later one is copied over them.
  `InFlashInv` says up to which address the flash holds the buffer's bytes (`DoneTo`), at each place of the driver: up
  to the sector; while it is compared, to the first word that differs (`WordCompared`); then to the page, as each is
  verified (`PageVerified`). What the driver sends from there on changes nothing before it (`SendsBeyond`), and an erase goes back to the
  start of the sector only. From the last sector's end follows all of it (`DoneLoaded`). `Dumps` is about
  dumpflash: the words that it leaves out are ones.

**The bootloader and the simulator** (`BootProofs`): parts of every size that fit (`BootAssumption`), an image of at least a word.

* `InItsPlace`: `ProgramInPlace`, which claims a zero BSS of programs from flash, and an untouched one of those in block RAM. `PlaceInv` says at each stage which words have been copied, from where the
  pointers go on (`AtKernel` to `AtMain`), which sections have been loaded (`Simulated`), and that nothing else has been written (`Untouched`, `InFlash`).
  A reset starts from there again. Hypothesis `WholeFiles`: files that the simulator loads as they are, with no BSS
  before the program's words, and for block RAM in one section of whole words; what it does with others is listed above.

**The scope without compression** (`ScopeProofs`): every size of buffer, any number of resets, triggers and read-outs.

* `ScopeShows`, `ScopeMarks`: `ShowsTheSignal`, `MarksTheTrigger`. `RecordInv`: the buffer holds the newest samples but one, the trigger comes when it
  has been filled, and the counter is the number of samples since. `ReadInv`: where a read
  is, two clocks before its answer, and that what was read are the words in order. Hypotheses:
  `WindowFits`, the history variable goes back further than the buffer; `HoldoffsFit`, the
  counter goes past the holdoff. With the largest holdoff it wraps (`wbscope.v:268`, above) and the theorem is false.

Only model-checked:

* The refinement `KeepsPromise` of `HexBus`: it is true of the calls and the number of events of the runs, and the code is
  wrong for others (above). `AccessesAsAsked` of calls that increment, and `ResponseTaken` of writes of several words,
  of writes with errors, and after a read that gave up.
* The compressed scope: where a word belongs is a sum over the runs before it.
* `SimEnds`, `TestTells`, `DivisionExact`, `CardWorks`, `TypedArrives` and all that says that
  something happens in the end: liveness under fairness, and ENABLED, are out of the prover's reach.
* What the recursive functions of `LongDivide`, `MemTest` and `SdSpiSim` compute: induction over data. There are no RECURSIVE
  operators.

## Not modelled

* The SDRAM controller: what would be checked is the chip's timing, and the only description of a chip
  in the repository, `sim/sdramsim.cpp`, asserts another start-up than the one the controller makes.
* Timers, watchdog, counters, ZipSystem, the DMA, the caches and the pipelined fetch and memory units, the
  quad flash controller: `main.v` builds none of them.
* Of the CPU: user mode, interrupts, sleep, bus errors, compressed instructions, the functions of the ALU, divide
  and multiply. `cputest.c` tests the latter one by one; the model is of the pipeline's control and what a debugger may do to it.
* Of the SD controller: commands with a busy answer (R1b), the error tokens that a card sends for data, and the watchdog; of its driver,
  a restart between CMD55 and the command that belongs to it.
* The clock for which `dblfetch.v:88-117` drops its cycle when a new PC comes within one: in `ZipBones` the cycle goes on. `r_halted`
  differs for that clock, which is less than what lies between two accesses of the host.
* Bits on wires: of the serial line, of the SPI lines, of the pins.
* The registers behind the single-clock peripherals; the bytes of a written word and the stored contents of the RAM
  in `WbBus`; `HEXBUS::usleep`, `wait`, `poll`.
* How things are printed: instructions, stacks, traces, profiles, VCD headers.
* The rest of the C library, which is newlib's, and the tables of instruction names.

`PROJECT.json` gives each component its status and reason.

## Plan

1. The buses, the hex bus, the console and its drivers: done.
2. The flash and its loader, the network ports, the scopes, the programs of the board and the simulator, the CPU and
   its debuggers: done.
3. Proofs of the buses, the hex bus, the console, the ports, the debugger, the loader, the bootloader and the plain scope: done. Next
   `ResponseTaken` of writes of several words, and the refinement `KeepsPromise`, for the calls it is true of.
4. User mode and interrupts in `ZipBones`, with the arbiter's side of `memops`.

The abstract specifications worth stating: a queue (FIFO, of which `InOrder` is half), one
instruction at a time (`RunsAsShown` is its first half), and `DevBus` (done).
