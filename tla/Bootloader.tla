----------------------------- MODULE Bootloader -----------------------------
(* sw/zlib/crt0.c, as it is built without the DMA, and the three linker scripts *)
(* of sw/board/: where they place a program's kernel, image and BSS, and how    *)
(* the bootloader moves them before main() starts.                              *)
EXTENDS Naturals, Sequences, FiniteSets
CONSTANTS
    MaxKernel, MaxImage, MaxBss,            \* words of each part
    RamSize                                 \* words of a memory
\* The linker fits a program into the memories (board.ld, MEMORY).
ASSUME BootAssumption ==
    /\ MaxKernel \in Nat /\ MaxImage \in Nat /\ MaxBss \in Nat /\ RamSize \in Nat
    /\ 1 + MaxKernel + MaxImage <= RamSize /\ MaxImage + MaxBss <= RamSize
VARIABLES ld, size, boot_at, memory, wrp, rdp, i
bootVars == <<ld, size, boot_at, memory, wrp, rdp, i>>

\* board.ld and flash.ld leave the program in flash, bkram.ld in block RAM.  The
\* kernel and the BSS may be empty, the image not: with bkram.ld .start is in it,
\* and with the others crt0.c (70-77) says that _ram_image_end of an image of no
\* words is not where the linker's map has it, and leaves open where it is.
Scripts == {"board", "flash", "bkram"}
Sizes == [kernel : 0 .. MaxKernel, image : 1 .. MaxImage, bss : 0 .. MaxBss]

\* An address is a memory and a word of it; the words of the program in flash
\* start at .start and .boot, of one word here.
Null == [in |-> "none", at |-> 0]
Adr(m, n) == [in |-> m, at |-> n]
Memories == {"bkram", "flash", "sdram"}
Kernel == IF ld = "board" THEN size.kernel ELSE 0   \* elsewhere it is part of the image
_rom == IF ld = "bkram" THEN Null ELSE Adr("flash", 0)
_kram == IF ld = "board" THEN Adr("bkram", 0) ELSE Null
_ram == IF ld = "board" THEN Adr("sdram", 0) ELSE Adr("bkram", 0)
_kram_start == IF ld = "bkram" THEN Adr("bkram", 0) ELSE Adr("flash", 1)
_kram_end == IF ld = "board" THEN Adr("bkram", Kernel) ELSE _kram_start
_ram_image_end == Adr(_ram.in, size.image)
_bss_image_end == Adr(_ram.in, size.image + size.bss)

\* Block RAM and SDRAM hold anything; the program has been written by zipload.
Anything == <<"anything", 0>>
Zero == <<"zero", 0>>
BootWord == <<"boot", 0>>
KernelWord(k) == <<"kernel", k>>
ImageWord(k) == <<"image", k>>
Loaded(m, n) ==
    CASE m = "flash" /\ ld # "bkram" ->
            IF n = 0 THEN BootWord
            ELSE IF n <= Kernel THEN KernelWord(n - 1)
            ELSE IF n - 1 - Kernel < size.image THEN ImageWord(n - 1 - Kernel) ELSE Anything
      [] m = "bkram" /\ ld = "bkram" -> IF n < size.image THEN ImageWord(n) ELSE Anything
      [] OTHER -> Anything
BootStart ==
    /\ ld \in Scripts /\ size \in Sizes
    /\ boot_at = "start" /\ wrp = Null /\ rdp = Null /\ i = 0
BootInit ==
    /\ BootStart
    /\ memory = [m \in Memories |-> [n \in 0 .. RamSize - 1 |-> Loaded(m, n)]]

Store(v) ==
    /\ memory' = [memory EXCEPT ![wrp.in][wrp.at] = v]
    /\ wrp' = [wrp EXCEPT !.at = @ + 1]
CopyWord == Store(memory[rdp.in][rdp.at]) /\ rdp' = [rdp EXCEPT !.at = @ + 1]
Goto(l) == boot_at' = l /\ UNCHANGED <<memory, rdp>>

\* With _rom = NULL it is to clear the BSS, but compares the end of the image with
\* itself, and leaves it as it is.
Begin ==
    /\ boot_at = "start" /\ UNCHANGED <<memory, i>>
    /\ IF _rom = Null
       THEN boot_at' = "main" /\ UNCHANGED <<wrp, rdp>>
       ELSE /\ rdp' = _kram_start
            /\ wrp' = IF _kram # Null THEN _kram ELSE _ram
            /\ boot_at' = IF _kram_end # _kram_start THEN "kernel" ELSE "ram"
CopyKernel ==
    /\ boot_at = "kernel" /\ UNCHANGED i
    /\ IF wrp.at < _kram_end.at THEN CopyWord /\ UNCHANGED boot_at ELSE Goto("ram") /\ UNCHANGED wrp
ToRamFrom(a) == a                           \* mutant: goes on in block RAM
ToRam(a) == IF _ram # Null THEN _ram ELSE a
SwitchToRam == boot_at = "ram" /\ wrp' = ToRam(wrp) /\ i' = 0 /\ Goto("image")
More(k, n) == k < n
CopyImage ==
    /\ boot_at = "image"
    /\ IF More(i, _ram_image_end.at - _ram.at)
       THEN CopyWord /\ i' = i + 1 /\ UNCHANGED boot_at
       ELSE Goto("bss") /\ i' = 0 /\ UNCHANGED wrp
ClearBss ==
    /\ boot_at = "bss"
    /\ IF More(i, _bss_image_end.at - _ram_image_end.at)
       THEN Store(Zero) /\ i' = i + 1 /\ UNCHANGED <<boot_at, rdp>>
       ELSE Goto("main") /\ UNCHANGED <<wrp, i>>
BootStep == (Begin \/ CopyKernel \/ SwitchToRam \/ CopyImage \/ ClearBss) /\ UNCHANGED <<ld, size>>
\* The CPU is reset, on the way or after main() has written its variables.  A
\* program in block RAM whose main() has begun has to be loaded again: its data
\* are what main() made of them, and so is its BSS.  That is left out.
Reset ==
    /\ boot_at # "start" /\ (boot_at = "main" => _rom # Null)
    /\ memory' = IF boot_at # "main" THEN memory
                 ELSE [memory EXCEPT ![_ram.in] =
                     [n \in DOMAIN @ |-> IF n < _bss_image_end.at THEN Anything ELSE @[n]]]
    /\ boot_at' = "start" /\ wrp' = Null /\ rdp' = Null /\ i' = 0 /\ UNCHANGED <<ld, size>>
=============================================================================
