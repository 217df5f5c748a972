----------------------------- MODULE BootProofs -----------------------------
(* Theorems about Bootloader and MainTb, as BoardPrograms runs them: a program   *)
(* is in its place when the simulator starts it and when main() is called, for   *)
(* programs and memories of every size, after any number of resets on the way.   *)
EXTENDS BoardPrograms, FiniteSetTheorems, TLAPS

\* The files that the simulator loads as they are: no BSS before the program's
\* words, and for block RAM one part, of whole words (zipelf.cpp, main_tb.cpp).
WholeFiles ==
    \A f \in Files :
        /\ f.cut \in Nat /\ f.bss \in {"none", "last"}
        /\ f.ld = "bkram" => f.cut = 0 /\ ~f.ragged

\* The invariant.  What stays where the linker has put it.
Addresses == 0 .. RamSize - 1
Shaped ==
    /\ ld \in Scripts /\ size \in Sizes
    /\ DOMAIN memory = Memories /\ \A d \in Memories : DOMAIN memory[d] = Addresses
InFlash == Stored /\ ld # "bkram" => \A k \in Addresses : memory["flash"][k] = Loaded("flash", k)
InBlockRam == Stored /\ ld = "bkram" => \A k \in Addresses : memory["bkram"][k] = Loaded("bkram", k)
Untouched ==
    ld # "bkram" =>
        /\ ld = "board" => \A k \in Kernel .. RamSize - 1 : memory["bkram"][k] = Anything
        /\ \A k \in size.image + size.bss .. RamSize - 1 : memory[_ram.in][k] = Anything
\* How far the bootloader has come.
KernelUpTo(n) == \A k \in 0 .. n - 1 : memory["bkram"][k] = KernelWord(k)
ImageUpTo(n) == \A k \in 0 .. n - 1 : memory[_ram.in][k] = ImageWord(k)
BssUpTo(n) == \A k \in size.image .. size.image + n - 1 : memory[_ram.in][k] = Zero
AtKernel ==
    boot_at = "kernel" =>
        /\ ld = "board" /\ wrp.at \in 0 .. Kernel /\ KernelUpTo(wrp.at)
        /\ wrp = Adr("bkram", wrp.at) /\ rdp = Adr("flash", 1 + wrp.at)
AtRam == boot_at = "ram" => ld # "bkram" /\ KernelUpTo(Kernel) /\ rdp = Adr("flash", 1 + Kernel)
AtImage ==
    boot_at = "image" =>
        /\ ld # "bkram" /\ KernelUpTo(Kernel) /\ i \in 0 .. size.image /\ ImageUpTo(i)
        /\ wrp = Adr(_ram.in, i) /\ rdp = Adr("flash", 1 + Kernel + i)
AtBss ==
    boot_at = "bss" =>
        /\ ld # "bkram" /\ KernelUpTo(Kernel) /\ ImageUpTo(size.image)
        /\ i \in 0 .. size.bss /\ BssUpTo(i) /\ wrp = Adr(_ram.in, size.image + i)
AtMain ==
    boot_at = "main" /\ ld # "bkram" =>
        KernelUpTo(Kernel) /\ ImageUpTo(size.image) /\ BssUpTo(size.bss)
Stages == boot_at \in {"start", "kernel", "ram", "image", "bss", "main"}
\* How far the simulator has come with the sections of the file.
Sections == IF file.cut \in 1 .. ProgramWords - 1 THEN 2 ELSE 1
Before(s) == IF s = 1 THEN 0 ELSE IF s = 2 /\ Sections = 2 THEN file.cut ELSE ProgramWords
LoadedUpTo(n) ==
    \A k \in Addresses :
        memory[ProgramIn][k] = IF k < n THEN Loaded(ProgramIn, k) ELSE Anything
Simulated ==
    program = "simulate" =>
        /\ file \in Files /\ file.ld = ld
        /\ sim_at = "load" =>
               boot_at = "start" /\ section \in 1 .. Sections + 1 /\ LoadedUpTo(Before(section))
BootInv ==
    /\ Shaped /\ InFlash /\ InBlockRam /\ Untouched /\ Stages
    /\ AtKernel /\ AtRam /\ AtImage /\ AtBss /\ AtMain
PlaceInv == Boots => BootInv /\ Simulated

\* The sizes of the parts are numbers that fit.
LEMMA Fits ==
    ASSUME Shaped
    PROVE  /\ ld \in Scripts /\ RamSize \in Nat
           /\ size.kernel \in Nat /\ size.image \in Nat /\ size.image >= 1 /\ size.bss \in Nat
           /\ Kernel \in Nat /\ (ld # "board" => Kernel = 0)
           /\ 1 + Kernel + size.image <= RamSize
           /\ size.image + size.bss <= RamSize
  BY BootAssumption DEF Shaped, Sizes, Kernel

\* Where the linker scripts place the parts.
LEMMA PlacesAre ==
    ASSUME ld # "bkram", ld \in Scripts
    PROVE  /\ _ram.in = (IF ld = "board" THEN "sdram" ELSE "bkram") /\ _ram.at = 0
           /\ _ram \in [in : Memories, at : Nat] /\ _ram.in \in Memories /\ _ram # Null
           /\ _ram = Adr(_ram.in, 0)
           /\ _rom # Null /\ _kram_start = Adr("flash", 1)
           /\ _ram_image_end.at = size.image /\ _bss_image_end.at = size.image + size.bss
           /\ ld = "board" => _kram = Adr("bkram", 0) /\ _kram # Null
                              /\ _kram_end = Adr("bkram", Kernel) /\ _kram_end # _kram_start
           /\ ld = "flash" => _kram_end = _kram_start
  BY DEF Scripts, _ram, _rom, _kram, _kram_start, _kram_end, _ram_image_end, _bss_image_end,
         Adr, Null, Memories

\* What the words of the program in flash are.
LEMMA FlashWords ==
    ASSUME Shaped, ld # "bkram"
    PROVE  /\ \A k \in 0 .. Kernel - 1 : Loaded("flash", 1 + k) = KernelWord(k)
           /\ \A k \in 0 .. size.image - 1 : Loaded("flash", 1 + Kernel + k) = ImageWord(k)
  <1>1. Kernel \in Nat /\ size.image \in Nat
    BY Fits
  <1>2. \A k \in Nat : k < Kernel => Loaded("flash", 1 + k) = KernelWord(k)
    <2> DEFINE K == Kernel
    <2> SUFFICES ASSUME NEW k \in Nat, k < K PROVE Loaded("flash", 1 + k) = KernelWord(k)
      OBVIOUS
    <2>1. K \in Nat
      BY <1>1
    <2>2. Loaded("flash", 1 + k) = IF 1 + k = 0 THEN BootWord
                                   ELSE IF 1 + k <= K THEN KernelWord((1 + k) - 1)
                                   ELSE IF ((1 + k) - 1) - K < size.image
                                        THEN ImageWord(((1 + k) - 1) - K) ELSE Anything
      BY DEF Loaded
    <2>3. 1 + k # 0 /\ 1 + k <= K /\ (1 + k) - 1 = k
      BY <2>1
    <2> QED
      BY <2>2, <2>3
  <1>3. \A k \in Nat : k < size.image => Loaded("flash", 1 + Kernel + k) = ImageWord(k)
    <2> DEFINE K == Kernel
    <2> SUFFICES ASSUME NEW k \in Nat, k < size.image
                 PROVE Loaded("flash", 1 + K + k) = ImageWord(k)
      OBVIOUS
    <2>1. K \in Nat /\ size.image \in Nat
      BY <1>1
    <2>2. Loaded("flash", 1 + K + k) = IF 1 + K + k = 0 THEN BootWord
                                   ELSE IF 1 + K + k <= K THEN KernelWord((1 + K + k) - 1)
                                   ELSE IF ((1 + K + k) - 1) - K < size.image
                                        THEN ImageWord(((1 + K + k) - 1) - K) ELSE Anything
      BY DEF Loaded
    <2> HIDE DEF K
    <2>3. 1 + K + k # 0 /\ ~(1 + K + k <= K) /\ ((1 + K + k) - 1) - K = k
      BY <2>1
    <2> QED
      BY <2>2, <2>3
  <1> QED
    BY <1>1, <1>2, <1>3
\* The linker's symbols stay as the layout does.
LEMMA LayoutStays ==
    ASSUME UNCHANGED <<ld, size>>
    PROVE  /\ Kernel' = Kernel /\ _ram' = _ram
           /\ \A d \in Memories : \A k \in Addresses : Loaded(d, k)' = Loaded(d, k)
  <1>1. Kernel' = Kernel
    BY DEF Kernel
  <1>2. _ram' = _ram
    BY DEF _ram
  <1>3. ASSUME NEW d \in Memories, NEW k \in Addresses PROVE Loaded(d, k)' = Loaded(d, k)
    BY <1>1 DEF Loaded
  <1> QED
    BY <1>1, <1>2, <1>3

\* A step that leaves the memory and the layout alone leaves what is in them.
LEMMA MemoryStays ==
    ASSUME Shaped, InFlash, InBlockRam, Untouched, Stored, UNCHANGED <<ld, size, memory>>
    PROVE  Shaped' /\ InFlash' /\ InBlockRam' /\ Untouched'
  <1>1. /\ Kernel' = Kernel /\ _ram' = _ram /\ "flash" \in Memories /\ "bkram" \in Memories
        /\ \A d \in Memories : \A k \in Addresses : Loaded(d, k)' = Loaded(d, k)
    BY LayoutStays DEF Memories
  <1>2. Shaped'
    BY DEF Shaped
  <1>3. InFlash'
    BY <1>1 DEF InFlash
  <1>4. InBlockRam'
    BY <1>1 DEF InBlockRam
  <1>5. Untouched'
    BY <1>1 DEF Untouched
  <1> QED
    BY <1>2, <1>3, <1>4, <1>5

\* The bootloader starts, at the kernel or at the image.
LEMMA BeginKeeps ==
    ASSUME BootInv, Stored, Begin, UNCHANGED <<ld, size>>
    PROVE  BootInv'
  <1>1. /\ boot_at = "start" /\ UNCHANGED <<memory, i>> /\ Shaped /\ ld \in Scripts
        /\ Kernel' = Kernel /\ _ram' = _ram /\ Kernel \in Nat
    BY LayoutStays, Fits DEF Begin, BootInv, Shaped
  <1>2. Shaped' /\ InFlash' /\ InBlockRam' /\ Untouched'
    BY <1>1, MemoryStays DEF BootInv
  <1>3. CASE ld = "bkram"
    <2>1. boot_at' = "main" /\ ld' = "bkram"
      BY <1>1, <1>3 DEF Begin, _rom
    <2> QED
      BY <1>2, <2>1 DEF BootInv, Stages, AtKernel, AtRam, AtImage, AtBss, AtMain
  <1>4. CASE ld = "board"
    <2>1. boot_at' = "kernel" /\ rdp' = Adr("flash", 1) /\ wrp' = Adr("bkram", 0) /\ ld' = "board"
      BY <1>1, <1>4, PlacesAre DEF Begin
    <2>2. wrp'.at = 0 /\ AtKernel'
      BY <1>1, <2>1 DEF AtKernel, KernelUpTo, Adr
    <2> QED
      BY <1>2, <2>1, <2>2 DEF BootInv, Stages, AtRam, AtImage, AtBss, AtMain
  <1>5. CASE ld = "flash"
    <2>1. boot_at' = "ram" /\ rdp' = Adr("flash", 1) /\ Kernel = 0 /\ ld' = "flash"
      BY <1>1, <1>5, PlacesAre DEF Begin, Kernel
    <2>2. AtRam'
      BY <1>1, <2>1 DEF AtRam, KernelUpTo
    <2> QED
      BY <1>2, <2>1, <2>2 DEF BootInv, Stages, AtKernel, AtImage, AtBss, AtMain
  <1> QED
    BY <1>1, <1>3, <1>4, <1>5 DEF Scripts
\* The program's own memory, but for what is in flash.
Own(d, n) ==
    \/ d = "bkram" /\ ld = "board" /\ n \in 0 .. Kernel - 1
    \/ d = _ram.in /\ n \in 0 .. size.image + size.bss - 1

\* A word written there: what it changes, and what stays.
LEMMA StoreKeeps ==
    ASSUME Shaped, InFlash, InBlockRam, Untouched, Stored, ld # "bkram",
           NEW d, NEW n, NEW v, wrp = Adr(d, n), Own(d, n), Store(v), UNCHANGED <<ld, size>>
    PROVE  /\ Shaped' /\ InFlash' /\ InBlockRam' /\ Untouched'
           /\ wrp' = Adr(d, n + 1) /\ Kernel' = Kernel /\ _ram' = _ram
           /\ \A e \in Memories : \A k \in Addresses :
                  memory'[e][k] = IF e = d /\ k = n THEN v ELSE memory[e][k]
  <1>1. /\ ld \in {"board", "flash"} /\ RamSize \in Nat /\ Kernel \in Nat
        /\ size.image \in Nat /\ size.bss \in Nat /\ Kernel <= RamSize
        /\ size.image + size.bss <= RamSize /\ (ld = "flash" => Kernel = 0)
    BY Fits DEF Scripts
  <1>2. _ram.in = (IF ld = "board" THEN "sdram" ELSE "bkram") /\ _ram.in \in Memories
    BY <1>1, PlacesAre DEF Scripts
  <1>3. d \in Memories /\ d # "flash" /\ n \in Nat /\ n < RamSize
    BY <1>1, <1>2 DEF Own, Memories
  <1>4. wrp.in = d /\ wrp.at = n /\ wrp' = Adr(d, n + 1)
    BY DEF Store, Adr
  <1>5. memory' = [memory EXCEPT ![d][n] = v]
    BY <1>4 DEF Store
  <1>6. /\ DOMAIN memory' = Memories
        /\ \A e \in Memories : DOMAIN memory'[e] = Addresses
    BY <1>5 DEF Shaped
  <1>7. ASSUME NEW e \in Memories, NEW k \in Addresses
        PROVE  memory'[e][k] = IF e = d /\ k = n THEN v ELSE memory[e][k]
    <2>1. memory'[e] = IF e = d THEN [memory[d] EXCEPT ![n] = v] ELSE memory[e]
      BY <1>3, <1>5 DEF Shaped
    <2>2. k \in DOMAIN memory[e]
      BY DEF Shaped
    <2> QED
      BY <2>1, <2>2
  <1>8. /\ Kernel' = Kernel /\ _ram' = _ram /\ "flash" \in Memories /\ "bkram" \in Memories
        /\ \A e \in Memories : \A k \in Addresses : Loaded(e, k)' = Loaded(e, k)
    BY LayoutStays DEF Memories
  <1>9. Shaped'
    BY <1>6 DEF Shaped
  <1>10. InFlash'
    <2> SUFFICES ASSUME NEW k \in Addresses PROVE memory'["flash"][k] = Loaded("flash", k)'
      BY DEF InFlash
    <2> QED
      BY <1>3, <1>7, <1>8 DEF InFlash
  <1>11. InBlockRam'
    BY DEF InBlockRam
  <1>12. Untouched'
    <2>1. ASSUME ld = "board", NEW k \in Kernel .. RamSize - 1
          PROVE  memory'["bkram"][k] = Anything
      <3>1. k \in Addresses /\ memory["bkram"][k] = Anything /\ _ram.in = "sdram"
        BY <1>1, <1>2, <2>1 DEF Untouched, Addresses
      <3>2. ~(d = "bkram" /\ k = n)
        BY <1>1, <2>1, <3>1 DEF Own
      <3> QED
        BY <1>7, <1>8, <3>1, <3>2
    <2>2. ASSUME NEW k \in size.image + size.bss .. RamSize - 1
          PROVE  memory'[_ram.in][k] = Anything
      <3>1. k \in Addresses /\ memory[_ram.in][k] = Anything
        BY <1>1 DEF Untouched, Addresses
      <3>2. ~(_ram.in = d /\ k = n)
        BY <1>1, <1>2, <2>2 DEF Own
      <3> QED
        BY <1>2, <1>7, <3>1, <3>2
    <2> QED
      BY <1>8, <2>1, <2>2 DEF Untouched
  <1> QED
    BY <1>4, <1>7, <1>8, <1>9, <1>10, <1>11, <1>12
\* A word of the kernel is copied, or all are and the image is next.
LEMMA CopyKernelKeeps ==
    ASSUME BootInv, Stored, CopyKernel, UNCHANGED <<ld, size>>
    PROVE  BootInv'
  <1>1. /\ boot_at = "kernel" /\ ld = "board" /\ wrp.at \in 0 .. Kernel /\ KernelUpTo(wrp.at)
        /\ wrp = Adr("bkram", wrp.at) /\ rdp = Adr("flash", 1 + wrp.at)
        /\ Shaped /\ InFlash /\ InBlockRam /\ Untouched
    BY DEF CopyKernel, BootInv, AtKernel
  <1>2. /\ Kernel \in Nat /\ RamSize \in Nat /\ 1 + Kernel + size.image <= RamSize
        /\ size.image \in Nat /\ _kram_end.at = Kernel /\ ld \in Scripts
    BY <1>1, Fits, PlacesAre DEF Adr
  <1>3. CASE wrp.at < Kernel
    <2> DEFINE n == wrp.at
    <2>1. n \in 0 .. Kernel - 1 /\ Store(memory["flash"][1 + n]) /\ UNCHANGED boot_at
          /\ rdp' = [rdp EXCEPT !.at = @ + 1]
      BY <1>1, <1>2, <1>3 DEF CopyKernel, CopyWord, Adr
    <2>2. memory["flash"][1 + n] = KernelWord(n)
      <3>1. 1 + n \in Addresses
        BY <1>2, <2>1 DEF Addresses
      <3>2. Loaded("flash", 1 + n) = KernelWord(n)
        BY <1>1, <2>1, FlashWords
      <3> QED
        BY <1>1, <3>1, <3>2 DEF InFlash
    <2>3. Own("bkram", n)
      BY <1>1, <2>1 DEF Own
    <2>4. /\ Shaped' /\ InFlash' /\ InBlockRam' /\ Untouched'
          /\ wrp' = Adr("bkram", n + 1) /\ Kernel' = Kernel
          /\ \A e \in Memories : \A k \in Addresses :
                 memory'[e][k] = IF e = "bkram" /\ k = n THEN KernelWord(n) ELSE memory[e][k]
      <3>1. wrp = Adr("bkram", n) /\ Store(KernelWord(n)) /\ ld # "bkram"
        BY <1>1, <2>1, <2>2
      <3> HIDE DEF n
      <3> QED
        BY <1>1, <2>3, <3>1, StoreKeeps
    <2>5. rdp' = Adr("flash", 1 + (n + 1)) /\ wrp'.at = n + 1 /\ n + 1 \in 0 .. Kernel
      <3> n \in Nat
        BY <1>2, <2>1
      <3> rdp = Adr("flash", 1 + n)
        BY <1>1
      <3> HIDE DEF n
      <3> QED
        BY <1>2, <2>1, <2>4 DEF Adr
    <2>6. ASSUME NEW k \in 0 .. n PROVE memory'["bkram"][k] = KernelWord(k)
      <3>1. k \in Addresses /\ "bkram" \in Memories
        BY <1>2, <2>1 DEF Addresses, Memories
      <3>2. k # n => memory["bkram"][k] = KernelWord(k)
        BY <1>1, <2>1 DEF KernelUpTo
      <3> QED
        BY <2>4, <3>1, <3>2
    <2>7. AtKernel'
      <3>1. \A k \in 0 .. wrp'.at - 1 : memory'["bkram"][k] = KernelWord(k)
        BY <1>2, <2>1, <2>5, <2>6
      <3>2. wrp'.at \in 0 .. Kernel' /\ wrp' = Adr("bkram", wrp'.at) /\ rdp' = Adr("flash", 1 + wrp'.at)
        BY <2>4, <2>5
      <3> QED
        BY <1>1, <3>1, <3>2 DEF AtKernel, KernelUpTo
    <2> QED
      BY <1>1, <2>1, <2>4, <2>7 DEF BootInv, Stages, AtRam, AtImage, AtBss, AtMain
  <1>4. CASE ~(wrp.at < Kernel)
    <2>1. boot_at' = "ram" /\ UNCHANGED <<memory, rdp>> /\ wrp.at = Kernel
      BY <1>1, <1>2, <1>4 DEF CopyKernel, Goto
    <2>2. /\ Shaped' /\ InFlash' /\ InBlockRam' /\ Untouched' /\ Kernel' = Kernel
      BY <1>1, <2>1, MemoryStays, LayoutStays
    <2>3. AtRam'
      BY <1>1, <2>1, <2>2 DEF AtRam, KernelUpTo
    <2> QED
      BY <2>1, <2>2, <2>3 DEF BootInv, Stages, AtKernel, AtImage, AtBss, AtMain
  <1> QED
    BY <1>3, <1>4

\* The bootloader turns to the image.
LEMMA SwitchToRamKeeps ==
    ASSUME BootInv, Stored, SwitchToRam, UNCHANGED <<ld, size>>
    PROVE  BootInv'
  <1>1. /\ boot_at = "ram" /\ ld # "bkram" /\ KernelUpTo(Kernel) /\ rdp = Adr("flash", 1 + Kernel)
        /\ Shaped /\ InFlash /\ InBlockRam /\ Untouched /\ UNCHANGED <<memory, rdp>>
        /\ boot_at' = "image" /\ i' = 0
    BY DEF SwitchToRam, BootInv, AtRam, Goto
  <1>2. Kernel \in Nat /\ size.image \in Nat /\ ld \in Scripts
    BY <1>1, Fits
  <1>3. wrp' = Adr(_ram.in, 0)
    BY <1>1, <1>2, PlacesAre DEF SwitchToRam, ToRam
  <1>4. Shaped' /\ InFlash' /\ InBlockRam' /\ Untouched' /\ Kernel' = Kernel /\ _ram' = _ram
    BY <1>1, MemoryStays, LayoutStays
  <1>5. rdp' = Adr("flash", 1 + Kernel + 0)
    BY <1>1, <1>2
  <1>6. KernelUpTo(Kernel)' /\ ImageUpTo(0)'
    BY <1>1, <1>4 DEF KernelUpTo, ImageUpTo
  <1>7. AtImage'
    BY <1>1, <1>2, <1>3, <1>4, <1>5, <1>6 DEF AtImage, ImageUpTo
  <1> QED
    BY <1>1, <1>4, <1>7 DEF BootInv, Stages, AtKernel, AtRam, AtBss, AtMain
\* A word of the image is copied, or all are and the BSS is next.
LEMMA CopyImageKeeps ==
    ASSUME BootInv, Stored, CopyImage, UNCHANGED <<ld, size>>
    PROVE  BootInv'
  <1>1. /\ boot_at = "image" /\ ld # "bkram" /\ KernelUpTo(Kernel) /\ i \in 0 .. size.image
        /\ ImageUpTo(i) /\ wrp = Adr(_ram.in, i) /\ rdp = Adr("flash", 1 + Kernel + i)
        /\ Shaped /\ InFlash /\ InBlockRam /\ Untouched
    BY DEF CopyImage, BootInv, AtImage
  <1>2. /\ Kernel \in Nat /\ RamSize \in Nat /\ 1 + Kernel + size.image <= RamSize
        /\ size.image \in Nat /\ size.bss \in Nat /\ ld \in Scripts /\ i \in Nat
        /\ (ld # "board" => Kernel = 0)
    BY <1>1, Fits
  <1>3. /\ _ram_image_end.at - _ram.at = size.image /\ _ram.in \in Memories
        /\ _ram.in = (IF ld = "board" THEN "sdram" ELSE "bkram") /\ "bkram" \in Memories
    BY <1>1, <1>2, PlacesAre DEF Memories
  <1>4. CASE i < size.image
    <2>1. Store(memory["flash"][1 + Kernel + i]) /\ UNCHANGED boot_at /\ i' = i + 1
          /\ rdp' = [rdp EXCEPT !.at = @ + 1]
      BY <1>1, <1>3, <1>4 DEF CopyImage, CopyWord, Adr, More
    <2>2. memory["flash"][1 + Kernel + i] = ImageWord(i)
      <3>1. 1 + Kernel + i \in Addresses
        BY <1>2, <1>4 DEF Addresses
      <3>2. Loaded("flash", 1 + Kernel + i) = ImageWord(i)
        BY <1>1, <1>2, <1>4, FlashWords
      <3> QED
        BY <1>1, <3>1, <3>2 DEF InFlash
    <2>3. Own(_ram.in, i)
      BY <1>2, <1>4 DEF Own
    <2>4. /\ Shaped' /\ InFlash' /\ InBlockRam' /\ Untouched'
          /\ wrp' = Adr(_ram.in, i + 1) /\ Kernel' = Kernel /\ _ram' = _ram
          /\ \A e \in Memories : \A k \in Addresses :
                 memory'[e][k] = IF e = _ram.in /\ k = i THEN ImageWord(i) ELSE memory[e][k]
      BY <1>1, <2>1, <2>2, <2>3, StoreKeeps
    <2>5. rdp' = Adr("flash", 1 + Kernel + (i + 1))
      BY <1>1, <1>2, <2>1 DEF Adr
    <2>6. ASSUME NEW k \in 0 .. i PROVE memory'[_ram.in][k] = ImageWord(k)
      <3>1. k \in Addresses
        BY <1>2, <1>4 DEF Addresses
      <3>2. k # i => memory[_ram.in][k] = ImageWord(k)
        BY <1>1, <1>2 DEF ImageUpTo
      <3> QED
        BY <1>3, <2>4, <3>1, <3>2
    <2>7. KernelUpTo(Kernel)'
      <3> SUFFICES ASSUME NEW k \in 0 .. Kernel - 1 PROVE memory'["bkram"][k] = KernelWord(k)
        BY <2>4 DEF KernelUpTo
      <3>1. k \in Addresses /\ _ram.in # "bkram"
        BY <1>2, <1>3 DEF Addresses
      <3> QED
        BY <1>1, <1>3, <2>4, <3>1 DEF KernelUpTo
    <2>8. ImageUpTo(i)'
      <3>1. \A k \in 0 .. i' - 1 : memory'[_ram.in][k] = ImageWord(k)
        BY <1>2, <2>1, <2>6
      <3> QED
        BY <2>4, <3>1 DEF ImageUpTo
    <2>9. AtImage'
      <3>1. i' \in 0 .. size'.image
        BY <1>2, <1>4, <2>1
      <3> QED
        BY <1>1, <2>1, <2>4, <2>5, <2>7, <2>8, <3>1 DEF AtImage
    <2> QED
      BY <1>1, <2>1, <2>4, <2>9 DEF BootInv, Stages, AtKernel, AtRam, AtBss, AtMain
  <1>5. CASE ~(i < size.image)
    <2>1. boot_at' = "bss" /\ i' = 0 /\ UNCHANGED <<memory, rdp, wrp>> /\ i = size.image
      BY <1>1, <1>2, <1>3, <1>5 DEF CopyImage, Goto, More
    <2>2. Shaped' /\ InFlash' /\ InBlockRam' /\ Untouched' /\ Kernel' = Kernel /\ _ram' = _ram
      BY <1>1, <2>1, MemoryStays, LayoutStays
    <2>3. KernelUpTo(Kernel)' /\ ImageUpTo(size.image)'
      BY <1>1, <2>1, <2>2 DEF KernelUpTo, ImageUpTo
    <2>4. wrp' = Adr(_ram'.in, size'.image + i') /\ i' \in 0 .. size'.bss
      BY <1>1, <1>2, <2>1, <2>2
    <2>5. BssUpTo(i)'
      BY <1>2, <2>1 DEF BssUpTo
    <2>6. AtBss'
      BY <1>1, <2>3, <2>4, <2>5 DEF AtBss
    <2> QED
      BY <2>1, <2>2, <2>6 DEF BootInv, Stages, AtKernel, AtRam, AtImage, AtMain
  <1> QED
    BY <1>4, <1>5

\* A word of the BSS is cleared, or all are and main() is called.
LEMMA ClearBssKeeps ==
    ASSUME BootInv, Stored, ClearBss, UNCHANGED <<ld, size>>
    PROVE  BootInv'
  <1>1. /\ boot_at = "bss" /\ ld # "bkram" /\ KernelUpTo(Kernel) /\ i \in 0 .. size.bss
        /\ ImageUpTo(size.image) /\ BssUpTo(i) /\ wrp = Adr(_ram.in, size.image + i)
        /\ Shaped /\ InFlash /\ InBlockRam /\ Untouched
    BY DEF ClearBss, BootInv, AtBss
  <1>2. /\ Kernel \in Nat /\ RamSize \in Nat /\ 1 + Kernel + size.image <= RamSize
        /\ size.image \in Nat /\ size.bss \in Nat /\ ld \in Scripts /\ i \in Nat
        /\ size.image + size.bss <= RamSize /\ (ld # "board" => Kernel = 0)
    BY <1>1, Fits
  <1>3. /\ _bss_image_end.at - _ram_image_end.at = size.bss /\ _ram.in \in Memories
        /\ _ram.in = (IF ld = "board" THEN "sdram" ELSE "bkram") /\ "bkram" \in Memories
    <2>1. _bss_image_end.at = size.image + size.bss /\ _ram_image_end.at = size.image
      BY <1>1, <1>2, PlacesAre
    <2>2. _bss_image_end.at - _ram_image_end.at = size.bss
      BY <1>2, <2>1
    <2> QED
      BY <1>1, <1>2, <2>2, PlacesAre DEF Memories
  <1>4. CASE i < size.bss
    <2>1. Store(Zero) /\ UNCHANGED <<boot_at, rdp>> /\ i' = i + 1
      BY <1>3, <1>4 DEF ClearBss, More
    <2>2. Own(_ram.in, size.image + i)
      BY <1>2, <1>4 DEF Own
    <2>3. /\ Shaped' /\ InFlash' /\ InBlockRam' /\ Untouched'
          /\ wrp' = Adr(_ram.in, size.image + i + 1) /\ Kernel' = Kernel /\ _ram' = _ram
          /\ \A e \in Memories : \A k \in Addresses :
                 memory'[e][k] = IF e = _ram.in /\ k = size.image + i THEN Zero ELSE memory[e][k]
      BY <1>1, <2>1, <2>2, StoreKeeps
    <2>4. KernelUpTo(Kernel)'
      <3> SUFFICES ASSUME NEW k \in 0 .. Kernel - 1 PROVE memory'["bkram"][k] = KernelWord(k)
        BY <2>3 DEF KernelUpTo
      <3>1. k \in Addresses /\ _ram.in # "bkram"
        BY <1>2, <1>3 DEF Addresses
      <3> QED
        BY <1>1, <1>3, <2>3, <3>1 DEF KernelUpTo
    <2>5. ImageUpTo(size.image)'
      <3> SUFFICES ASSUME NEW k \in 0 .. size.image - 1
                   PROVE  memory'[_ram.in][k] = ImageWord(k)
        BY <2>3 DEF ImageUpTo
      <3>1. k \in Addresses /\ k # size.image + i
        BY <1>2 DEF Addresses
      <3> QED
        BY <1>1, <1>3, <2>3, <3>1 DEF ImageUpTo
    <2>6. BssUpTo(i)'
      <3> SUFFICES ASSUME NEW k \in size.image .. size.image + i
                   PROVE  memory'[_ram.in][k] = Zero
        <4>1. \A k \in size'.image .. size'.image + i' - 1 : memory'[_ram'.in][k] = Zero
          BY <1>2, <2>1, <2>3
        <4> QED
          BY <4>1 DEF BssUpTo
      <3>1. k \in Addresses
        BY <1>2, <1>4 DEF Addresses
      <3>2. k # size.image + i => memory[_ram.in][k] = Zero
        BY <1>1, <1>2 DEF BssUpTo
      <3> QED
        BY <1>3, <2>3, <3>1, <3>2
    <2>7. AtBss'
      <3>1. i' \in 0 .. size'.bss /\ wrp' = Adr(_ram'.in, size'.image + i')
        BY <1>2, <1>4, <2>1, <2>3
      <3> QED
        BY <1>1, <2>4, <2>5, <2>6, <3>1 DEF AtBss
    <2> QED
      BY <1>1, <2>1, <2>3, <2>7 DEF BootInv, Stages, AtKernel, AtRam, AtImage, AtMain
  <1>5. CASE ~(i < size.bss)
    <2>1. boot_at' = "main" /\ UNCHANGED <<memory, rdp, wrp, i>> /\ i = size.bss
      BY <1>1, <1>2, <1>3, <1>5 DEF ClearBss, Goto, More
    <2>2. Shaped' /\ InFlash' /\ InBlockRam' /\ Untouched' /\ Kernel' = Kernel /\ _ram' = _ram
      BY <1>1, <2>1, MemoryStays, LayoutStays
    <2>3. KernelUpTo(Kernel)' /\ ImageUpTo(size.image)' /\ BssUpTo(size.bss)'
      BY <1>1, <2>1, <2>2 DEF KernelUpTo, ImageUpTo, BssUpTo
    <2> QED
      BY <2>1, <2>2, <2>3 DEF BootInv, Stages, AtKernel, AtRam, AtImage, AtBss, AtMain
  <1> QED
    BY <1>4, <1>5

\* The CPU is reset: the program's own memory may then hold anything.
LEMMA ResetKeeps ==
    ASSUME BootInv, Stored, Reset
    PROVE  BootInv'
  <1>1. /\ boot_at' = "start" /\ UNCHANGED <<ld, size>> /\ (boot_at = "main" => _rom # Null)
        /\ Shaped /\ InFlash /\ InBlockRam /\ Untouched
    BY DEF Reset, BootInv
  <1>2. CASE boot_at # "main"
    <2>1. UNCHANGED memory
      BY <1>2 DEF Reset
    <2>2. Shaped' /\ InFlash' /\ InBlockRam' /\ Untouched'
      BY <1>1, <2>1, MemoryStays
    <2> QED
      BY <1>1, <2>2 DEF BootInv, Stages, AtKernel, AtRam, AtImage, AtBss, AtMain
  <1>3. CASE boot_at = "main"
    <2>1. ld # "bkram" /\ ld \in Scripts
      BY <1>1, <1>3 DEF _rom, Shaped
    <2>2. /\ _ram.in = (IF ld = "board" THEN "sdram" ELSE "bkram") /\ _ram.in \in Memories
          /\ _bss_image_end.at = size.image + size.bss
          /\ "bkram" \in Memories /\ "flash" \in Memories
      BY <2>1, PlacesAre DEF Memories
    <2>3. /\ Kernel \in Nat /\ RamSize \in Nat /\ size.image \in Nat /\ size.bss \in Nat
          /\ size.image + size.bss <= RamSize
      BY <1>1, Fits
    <2>4. memory' = [memory EXCEPT ![_ram.in] =
              [n \in DOMAIN @ |-> IF n < size.image + size.bss THEN Anything ELSE @[n]]]
      BY <1>3, <2>2 DEF Reset
    <2>5. /\ Kernel' = Kernel /\ _ram' = _ram
          /\ \A e \in Memories : \A k \in Addresses : Loaded(e, k)' = Loaded(e, k)
      BY <1>1, LayoutStays
    <2>6. ASSUME NEW e \in Memories, e # _ram.in PROVE memory'[e] = memory[e]
      BY <2>4, <2>6 DEF Shaped
    <2>7. /\ DOMAIN memory'[_ram.in] = Addresses
          /\ \A k \in Addresses : memory'[_ram.in][k] =
                 IF k < size.image + size.bss THEN Anything ELSE memory[_ram.in][k]
      BY <1>1, <2>2, <2>4 DEF Shaped
    <2>8. Shaped'
      <3>1. DOMAIN memory' = Memories
        BY <1>1, <2>4 DEF Shaped
      <3>2. \A e \in Memories : DOMAIN memory'[e] = Addresses
        BY <1>1, <2>6, <2>7 DEF Shaped
      <3> QED
        BY <1>1, <3>1, <3>2 DEF Shaped
    <2>9. InFlash'
      BY <1>1, <2>2, <2>5, <2>6 DEF InFlash
    <2>10. InBlockRam'
      BY <1>1, <2>1 DEF InBlockRam
    <2>11. Untouched'
      <3>1. ASSUME ld = "board", NEW k \in Kernel .. RamSize - 1
            PROVE  memory'["bkram"][k] = Anything
        BY <1>1, <2>2, <2>6, <3>1 DEF Untouched
      <3>2. ASSUME NEW k \in size.image + size.bss .. RamSize - 1
            PROVE  memory'[_ram.in][k] = Anything
        <4>1. k \in Addresses /\ memory[_ram.in][k] = Anything
          BY <1>1, <2>1, <2>3 DEF Untouched, Addresses
        <4> QED
          BY <2>7, <4>1
      <3> QED
        BY <1>1, <2>5, <3>1, <3>2 DEF Untouched
    <2> QED
      BY <1>1, <2>8, <2>9, <2>10, <2>11
      DEF BootInv, Stages, AtKernel, AtRam, AtImage, AtBss, AtMain
  <1> QED
    BY <1>2, <1>3

\* A step of the bootloader keeps the invariant.
LEMMA BootStepKeeps ==
    ASSUME BootInv, Stored, BootStep
    PROVE  BootInv'
  <1> USE DEF BootStep
  <1>1. CASE Begin
    BY <1>1, BeginKeeps
  <1>2. CASE CopyKernel
    BY <1>2, CopyKernelKeeps
  <1>3. CASE SwitchToRam
    BY <1>3, SwitchToRamKeeps
  <1>4. CASE CopyImage
    BY <1>4, CopyImageKeeps
  <1>5. CASE ClearBss
    BY <1>5, ClearBssKeeps
  <1> QED
    BY <1>1, <1>2, <1>3, <1>4, <1>5

\* One more header after a list of them: the others stay where they are.
LEMMA Appended ==
    ASSUME NEW S, NEW hs \in Seq(S), NEW one \in S
    PROVE  /\ Len(hs \o <<one>>) = Len(hs) + 1
           /\ DOMAIN (hs \o <<one>>) = 1 .. Len(hs) + 1
           /\ \A k \in 1 .. Len(hs) : (hs \o <<one>>)[k] = hs[k]
           /\ (hs \o <<one>>)[Len(hs) + 1] = one
  <1>1. <<one>> \in Seq(S) /\ Len(<<one>>) = 1 /\ <<one>>[1] = one
    OBVIOUS
  <1>2. hs \o <<one>> \in Seq(S)
    BY <1>1
  <1>3. Len(hs \o <<one>>) = Len(hs) + 1
    BY <1>1
  <1>4. \A k \in 1 .. Len(hs) : (hs \o <<one>>)[k] = hs[k]
    BY <1>1
  <1>5. (hs \o <<one>>)[Len(hs) + 1] = one
    BY <1>1
  <1> QED
    BY <1>2, <1>3, <1>4, <1>5

\* The program headers of a file that is loaded as it is: the words of the program
\* in one section or two, and perhaps a last header without any.
LEMMA HeadersAre ==
    ASSUME Shaped, file.cut \in Nat, file.bss \in {"none", "last"}
    PROVE  /\ ProgramWords \in Nat /\ ProgramWords >= 1 /\ Sections \in {1, 2}
           /\ Len(Headers) \in {Sections, Sections + 1} /\ DOMAIN Headers = 1 .. Len(Headers)
           /\ \A k \in 1 .. Sections : Headers[k] = Parts[k]
           /\ \A k \in 1 .. Sections :
                  /\ Before(k) \in Nat /\ Before(k + 1) \in Nat /\ Before(k) < Before(k + 1)
                  /\ Headers[k].in = ProgramIn /\ Headers[k].at = Before(k)
                  /\ Headers[k].len = Before(k + 1) - Before(k)
                  /\ Headers[k].ragged => file.ragged
           /\ Len(Headers) = Sections + 1 => Headers[Sections + 1].len = 0
           /\ Before(1) = 0 /\ Before(Sections + 1) = ProgramWords
  <1>1. ProgramWords \in Nat /\ ProgramWords >= 1
    BY Fits DEF ProgramWords
  <1>2. Sections \in {1, 2} /\ Sections \in Nat
    BY DEF Sections
  <1>3. Before(1) = 0 /\ Before(Sections + 1) = ProgramWords
    BY DEF Before, Sections
  <1>4. /\ Len(Parts) = Sections /\ DOMAIN Parts = 1 .. Sections
        /\ \A k \in 1 .. Sections :
               /\ Before(k) \in Nat /\ Before(k + 1) \in Nat /\ Before(k) < Before(k + 1)
               /\ Parts[k].in = ProgramIn /\ Parts[k].at = Before(k)
               /\ Parts[k].len = Before(k + 1) - Before(k)
               /\ Parts[k].ragged => file.ragged
    <2>1. CASE file.cut \in 1 .. ProgramWords - 1
      <3>1. Sections = 2 /\ Before(1) = 0 /\ Before(2) = file.cut /\ Before(3) = ProgramWords
        BY <2>1 DEF Sections, Before
      <3>2. Parts = <<Header(ProgramIn, 0, file.cut, FALSE),
                      Header(ProgramIn, file.cut, ProgramWords - file.cut, file.ragged)>>
        BY <2>1 DEF Parts
      <3>3. /\ Len(Parts) = 2 /\ DOMAIN Parts = 1 .. 2
            /\ Parts[1] = Header(ProgramIn, 0, file.cut, FALSE)
            /\ Parts[2] = Header(ProgramIn, file.cut, ProgramWords - file.cut, file.ragged)
        BY <3>2
      <3>4. 1 .. Sections = {1, 2} /\ 1 + 1 = 2 /\ 2 + 1 = 3
        BY <3>1
      <3>5. file.cut - 0 = file.cut
        OBVIOUS
      <3> QED
        BY <1>1, <2>1, <3>1, <3>3, <3>4, <3>5 DEF Header
    <2>2. CASE ~(file.cut \in 1 .. ProgramWords - 1)
      <3>1. Sections = 1 /\ Before(1) = 0 /\ Before(2) = ProgramWords
        BY <2>2 DEF Sections, Before
      <3>2. Parts = <<Header(ProgramIn, 0, ProgramWords, file.ragged)>>
        BY <2>2 DEF Parts
      <3>3. /\ Len(Parts) = 1 /\ DOMAIN Parts = 1 .. 1
            /\ Parts[1] = Header(ProgramIn, 0, ProgramWords, file.ragged)
        BY <3>2
      <3>4. 1 .. Sections = {1} /\ 1 + 1 = 2
        BY <3>1
      <3>5. ProgramWords - 0 = ProgramWords
        BY <1>1
      <3> QED
        BY <1>1, <3>1, <3>3, <3>4, <3>5 DEF Header
    <2> QED
      BY <2>1, <2>2
  <1>5. CASE file.bss = "none"
    <2>1. Headers = Parts
      BY <1>5 DEF Headers
    <2>2. Len(Headers) = Sections /\ Len(Headers) # Sections + 1
      BY <1>2, <1>4, <2>1
    <2> QED
      BY <1>1, <1>2, <1>3, <1>4, <2>1, <2>2
  <1>6. CASE file.bss = "last"
    <2> DEFINE h == Header(_ram.in, size.image, 0, FALSE)
    <2>1. Headers = Parts \o <<h>>
      BY <1>6 DEF Headers, BssHeader
    <2>2. h.len = 0
      BY DEF Header
    <2>4. PICK S : Parts \in Seq(S) /\ h \in S
      <3>1. CASE file.cut \in 1 .. ProgramWords - 1
        <4>1. Parts \in Seq({Header(ProgramIn, 0, file.cut, FALSE),
                Header(ProgramIn, file.cut, ProgramWords - file.cut, file.ragged), h})
          BY <3>1 DEF Parts
        <4> QED
          BY <4>1
      <3>2. CASE ~(file.cut \in 1 .. ProgramWords - 1)
        <4>1. Parts \in Seq({Header(ProgramIn, 0, ProgramWords, file.ragged), h})
          BY <3>2 DEF Parts
        <4> QED
          BY <4>1
      <3> QED
        BY <3>1, <3>2
    <2> HIDE DEF h
    <2>5. /\ Len(Headers) = Len(Parts) + 1 /\ DOMAIN Headers = 1 .. Len(Parts) + 1
          /\ \A k \in 1 .. Len(Parts) : Headers[k] = Parts[k]
          /\ Headers[Len(Parts) + 1] = h
      BY <2>1, <2>4, Appended
    <2>3. /\ Len(Headers) = Sections + 1 /\ DOMAIN Headers = 1 .. Sections + 1
          /\ \A k \in 1 .. Sections : Headers[k] = Parts[k]
          /\ Headers[Sections + 1] = h
      BY <1>4, <2>5
    <2> QED
      BY <1>1, <1>2, <1>3, <1>4, <2>2, <2>3
  <1> QED
    BY <1>5, <1>6
\* The list of sections ends where the program's words do, and until then its
\* entries are the sections in turn (zipelf.cpp, elfread).
LEMMA SectionsAre ==
    ASSUME Shaped, file.cut \in Nat, file.bss \in {"none", "last"}
    PROVE  /\ ListEnds(Sections + 1)
           /\ \A s \in 1 .. Sections : ~ListEnds(s) /\ Entry(s) = s
  <1> DEFINE n == Sections
  <1> DEFINE len == Len(Headers)
  <1>1. /\ n \in Nat /\ n >= 1 /\ len \in {n, n + 1} /\ len \in Nat /\ DOMAIN Headers = 1 .. len
        /\ \A k \in 1 .. n : HasWords(Headers[k])
        /\ len = n + 1 => ~HasWords(Headers[n + 1])
    <2>1. /\ Sections \in {1, 2} /\ len \in {n, n + 1} /\ DOMAIN Headers = 1 .. len
          /\ len = n + 1 => Headers[n + 1].len = 0
      BY HeadersAre
    <2>2. ASSUME NEW k \in 1 .. n PROVE HasWords(Headers[k])
      <3>1. /\ Before(k) \in Nat /\ Before(k + 1) \in Nat /\ Before(k) < Before(k + 1)
            /\ Headers[k].len = Before(k + 1) - Before(k)
        BY HeadersAre
      <3> QED
        BY <3>1 DEF HasWords
    <2>3. len = n + 1 => ~HasWords(Headers[n + 1])
      BY <2>1 DEF HasWords
    <2> HIDE DEF n, len
    <2>4. n \in {1, 2}
      BY <2>1 DEF n
    <2> QED
      BY <2>1, <2>2, <2>3, <2>4
  <1> HIDE DEF n, len
  <1>2. \A k \in 1 .. len : HasWords(Headers[k]) <=> k <= n
    BY <1>1
  <1>3. CountSections = n
    <2>1. {k \in DOMAIN Headers : HasWords(Headers[k])} = 1 .. n
      BY <1>1, <1>2
    <2>2. Cardinality(1 .. n) = n
      BY <1>1, FS_Interval
    <2> QED
      BY <2>1, <2>2 DEF CountSections
  <1>4. End = len + 1
    BY DEF End, len
  <1>5. Entry(n + 1) = End
    <2>1. ~\E k \in n + 1 .. len : HasWords(Headers[k])
      BY <1>1, <1>2
    <2> QED
      BY <2>1 DEF Entry, len
  <1>6. ASSUME NEW s \in 1 .. n PROVE Entry(s) = s
    <2>1. s \in s .. len /\ HasWords(Headers[s])
      BY <1>1
    <2>2. \A j \in s .. s - 1 : ~HasWords(Headers[j])
      BY <1>1
    <2>3. \A k \in s .. len :
              (HasWords(Headers[k]) /\ \A j \in s .. k - 1 : ~HasWords(Headers[j])) => k = s
      <3> SUFFICES ASSUME NEW k \in s .. len, k # s
                   PROVE  \E j \in s .. k - 1 : HasWords(Headers[j])
        OBVIOUS
      <3>1. s \in s .. k - 1
        BY <1>1
      <3> QED
        BY <2>1, <3>1
    <2>4. Entry(s) = CHOOSE k \in s .. len :
              HasWords(Headers[k]) /\ \A j \in s .. k - 1 : ~HasWords(Headers[j])
      BY <2>1 DEF Entry, len
    <2> QED
      BY <2>1, <2>2, <2>3, <2>4
  <1>7. ListEnds(n + 1)
    BY <1>5 DEF ListEnds
  <1>8. ASSUME NEW s \in 1 .. n PROVE ~ListEnds(s)
    <2>1. Entry(s) = s /\ s # len + 1 /\ Entry(CountSections + 1) = len + 1
      BY <1>1, <1>3, <1>4, <1>5, <1>6
    <2> QED
      BY <1>4, <2>1 DEF ListEnds
  <1> QED
    BY <1>6, <1>7, <1>8 DEF n

\* A section is loaded: its words, and no others, are where the linker put them.
LEMMA LoadSectionKeeps ==
    ASSUME WholeFiles, program = "simulate", BootInv, Simulated, LoadSection, program' = program
    PROVE  BootInv' /\ Simulated'
  <1>1. /\ sim_at = "load" /\ file \in Files /\ file.ld = ld /\ boot_at = "start"
        /\ section \in 1 .. Sections + 1 /\ LoadedUpTo(Before(section)) /\ Shaped /\ Untouched
        /\ UNCHANGED <<file, ld, size, boot_at>> /\ ~Stored
    BY DEF LoadSection, Simulated, BootInv, Stored
  <1>2. /\ file.cut \in Nat /\ file.bss \in {"none", "last"}
        /\ ld = "bkram" => file.cut = 0 /\ ~file.ragged
    BY <1>1 DEF WholeFiles
  <1>3. /\ Kernel' = Kernel /\ _ram' = _ram /\ ProgramWords' = ProgramWords
        /\ ProgramIn' = ProgramIn /\ Sections' = Sections
        /\ \A d \in Memories : \A k \in Addresses : Loaded(d, k)' = Loaded(d, k)
    <2>1. Kernel' = Kernel /\ ProgramIn' = ProgramIn
      BY <1>1 DEF Kernel, ProgramIn
    <2>2. ProgramWords' = ProgramWords
      BY <1>1, <2>1 DEF ProgramWords
    <2>3. Sections' = Sections
      BY <1>1, <2>2 DEF Sections
    <2> QED
      BY <1>1, <2>1, <2>2, <2>3, LayoutStays
  <1>4. /\ Sections \in {1, 2} /\ ProgramWords \in Nat /\ Before(Sections + 1) = ProgramWords
        /\ \A k \in 1 .. Sections :
                  /\ Before(k) \in Nat /\ Before(k + 1) \in Nat /\ Before(k) < Before(k + 1)
                  /\ Headers[k].in = ProgramIn /\ Headers[k].at = Before(k)
                  /\ Headers[k].len = Before(k + 1) - Before(k)
                  /\ Headers[k].ragged => file.ragged
    BY <1>1, <1>2, HeadersAre
  <1>5. /\ ld \in Scripts /\ RamSize \in Nat /\ Kernel \in Nat /\ size.image \in Nat
        /\ size.bss \in Nat /\ ProgramWords <= RamSize /\ ProgramWords \in Nat
        /\ ld # "bkram" => ProgramWords = 1 + Kernel + size.image
    BY <1>1, Fits DEF ProgramWords
  <1>6. /\ ProgramIn = (IF ld = "bkram" THEN "bkram" ELSE "flash")
        /\ ProgramIn \in Memories /\ "flash" \in Memories /\ "bkram" \in Memories
    BY DEF ProgramIn, Memories
  <1>7. /\ AtKernel' /\ AtRam' /\ AtImage' /\ AtBss' /\ AtMain' /\ Stages'
    BY <1>1 DEF AtKernel, AtRam, AtImage, AtBss, AtMain, Stages
  <1>8. CASE section = Sections + 1
    <2>1. ListEnds(section)
      BY <1>1, <1>2, <1>8, SectionsAre
    <2>2. sim_at' = "run" /\ UNCHANGED <<section, memory>>
      BY <2>1 DEF LoadSection
    <2>3. \A k \in Addresses : memory[ProgramIn][k] = Loaded(ProgramIn, k)
      <3> SUFFICES ASSUME NEW k \in Addresses, ~(k < ProgramWords)
                   PROVE  Loaded(ProgramIn, k) = Anything
        BY <1>1, <1>4, <1>8 DEF LoadedUpTo
      <3>1. CASE ld = "bkram"
        <4>1. ~(k < size.image)
          BY <3>1 DEF ProgramWords
        <4> QED
          BY <1>6, <3>1, <4>1 DEF Loaded
      <3>2. CASE ld # "bkram"
        <4> DEFINE K == Kernel
        <4>1. Loaded("flash", k) = IF k = 0 THEN BootWord
                  ELSE IF k <= K THEN KernelWord(k - 1)
                  ELSE IF (k - 1) - K < size.image THEN ImageWord((k - 1) - K) ELSE Anything
          BY <3>2 DEF Loaded
        <4>2. K \in Nat /\ ~(k < 1 + K + size.image) /\ k \in Nat
          BY <1>5, <3>2 DEF Addresses
        <4> HIDE DEF K
        <4>3. k # 0 /\ ~(k <= K) /\ ~((k - 1) - K < size.image)
          BY <1>5, <4>2
        <4> QED
          BY <1>6, <3>2, <4>1, <4>3
      <3> QED
        BY <3>1, <3>2
    <2>4. Shaped'
      BY <1>1, <2>2 DEF Shaped
    <2>5. InFlash'
      BY <1>1, <1>3, <1>6, <2>2, <2>3 DEF InFlash
    <2>6. InBlockRam'
      BY <1>1, <1>3, <1>6, <2>2, <2>3 DEF InBlockRam
    <2>7. Untouched'
      BY <1>1, <1>3, <2>2 DEF Untouched
    <2>8. Simulated'
      BY <1>1, <2>2 DEF Simulated
    <2> QED
      BY <1>7, <2>4, <2>5, <2>6, <2>7, <2>8 DEF BootInv
  <1>9. CASE section \in 1 .. Sections
    <2> DEFINE h == Headers[section]
    <2> DEFINE lo == Before(section)
    <2> DEFINE hi == Before(section + 1)
    <2>1. ~ListEnds(section) /\ Entry(section) = section
      BY <1>1, <1>2, <1>9, SectionsAre
    <2>2. memory' = LoadWords(h) /\ section' = section + 1 /\ UNCHANGED sim_at
      BY <2>1 DEF LoadSection
    <2>3. /\ lo \in Nat /\ hi \in Nat /\ lo < hi /\ h.in = ProgramIn /\ h.at = lo
          /\ h.len = hi - lo /\ (h.ragged => file.ragged)
      BY <1>4, <1>9
    <2>4. Index(h) = lo
      <3>1. ld = "bkram" => lo = 0
        <4>1. ld = "bkram" => Sections = 1
          BY <1>2 DEF Sections
        <4> QED
          BY <1>9, <4>1 DEF Before
      <3>2. h.in = "bkram" => ld = "bkram"
        BY <1>6, <2>3
      <3> HIDE DEF h, lo
      <3> QED
        BY <2>3, <3>1, <3>2 DEF Index
    <2>5. \A k : Content(h, k) = Loaded(h.in, h.at + k)
      <3>1. h.in = "bkram" => ~h.ragged
        BY <1>2, <1>6, <2>3
      <3> HIDE DEF h
      <3> QED
        BY <3>1 DEF Content
    <2> HIDE DEF h, lo, hi
    <2>6. /\ DOMAIN memory' = Memories /\ \A d \in Memories : DOMAIN memory'[d] = Addresses
          /\ \A d \in Memories : d # ProgramIn => memory'[d] = memory[d]
          /\ \A k \in Addresses :
                 memory'[ProgramIn][k] = IF k - lo \in 0 .. hi - lo - 1 THEN Content(h, k - lo)
                                         ELSE memory[ProgramIn][k]
      <3>1. memory' = [memory EXCEPT ![ProgramIn] = [k \in Addresses |->
                IF k - lo \in 0 .. hi - lo - 1 THEN Content(h, k - lo) ELSE memory[ProgramIn][k]]]
        BY <1>1, <1>6, <2>2, <2>3, <2>4 DEF LoadWords, Shaped
      <3> QED
        BY <1>1, <1>6, <3>1 DEF Shaped
    <2>7. \A k \in Addresses :
              memory'[ProgramIn][k] = IF k < hi THEN Loaded(ProgramIn, k) ELSE Anything
      <3> SUFFICES ASSUME NEW k \in Addresses
                   PROVE  memory'[ProgramIn][k] = IF k < hi THEN Loaded(ProgramIn, k) ELSE Anything
        OBVIOUS
      <3>1. k \in Nat /\ memory[ProgramIn][k] = IF k < lo THEN Loaded(ProgramIn, k) ELSE Anything
        BY <1>1, <1>5 DEF LoadedUpTo, Addresses, lo
      <3>2. CASE k < lo
        <4>1. ~(k - lo \in 0 .. hi - lo - 1) /\ k < hi
          BY <2>3, <3>1, <3>2
        <4> QED
          BY <2>6, <3>1, <3>2, <4>1
      <3>3. CASE lo <= k /\ k < hi
        <4>1. k - lo \in 0 .. hi - lo - 1 /\ lo + (k - lo) = k
          BY <2>3, <3>1, <3>3
        <4>2. Content(h, k - lo) = Loaded(ProgramIn, k)
          BY <2>3, <2>5, <4>1
        <4> QED
          BY <2>6, <3>3, <4>1, <4>2
      <3>4. CASE ~(k < hi)
        <4>1. ~(k - lo \in 0 .. hi - lo - 1) /\ ~(k < lo)
          BY <2>3, <3>1, <3>4
        <4> QED
          BY <2>6, <3>1, <3>4, <4>1
      <3> QED
        BY <2>3, <3>1, <3>2, <3>3, <3>4
    <2>8. Shaped'
      BY <1>1, <2>6 DEF Shaped
    <2>9. InFlash' /\ InBlockRam'
      BY <1>1, <2>2 DEF InFlash, InBlockRam, Stored
    <2>10. Untouched'
      <3> SUFFICES ASSUME ld # "bkram" PROVE Untouched'
        BY <1>1 DEF Untouched
      <3>1. _ram.in \in Memories /\ _ram.in # "flash"
        BY <1>5, PlacesAre
      <3>2. ProgramIn = "flash"
        BY <1>6
      <3>3. memory'["bkram"] = memory["bkram"] /\ memory'[_ram.in] = memory[_ram.in]
        BY <1>6, <2>6, <3>1, <3>2
      <3> QED
        BY <1>1, <1>3, <3>3 DEF Untouched
    <2>11. Before(section)' = hi
      <3>1. Before(section)' = IF section' = 1 THEN 0
                ELSE IF section' = 2 /\ Sections' = 2 THEN file'.cut ELSE ProgramWords'
        BY DEF Before
      <3>2. hi = IF section + 1 = 1 THEN 0
                 ELSE IF section + 1 = 2 /\ Sections = 2 THEN file.cut ELSE ProgramWords
        BY DEF hi, Before
      <3> QED
        BY <1>1, <1>3, <2>2, <3>1, <3>2
    <2>12. Simulated'
      <3>1. section' \in 1 .. Sections' + 1
        BY <1>3, <1>4, <1>9, <2>2
      <3>2. LoadedUpTo(Before(section))'
        <4>1. \A k \in Addresses :
                  memory'[ProgramIn'][k] = IF k < hi THEN Loaded(ProgramIn, k)' ELSE Anything
          <5> SUFFICES ASSUME NEW k \in Addresses
                       PROVE  memory'[ProgramIn'][k] =
                                  IF k < hi THEN Loaded(ProgramIn, k)' ELSE Anything
            OBVIOUS
          <5>1. Loaded(ProgramIn, k)' = Loaded(ProgramIn, k)
            BY <1>1, <1>3, <1>6 DEF Loaded
          <5> QED
            BY <1>3, <2>7, <5>1
        <4> QED
          BY <2>11, <4>1 DEF LoadedUpTo
      <3> QED
        BY <1>1, <3>1, <3>2 DEF Simulated
    <2> QED
      BY <1>7, <2>8, <2>9, <2>10, <2>12 DEF BootInv
  <1> QED
    BY <1>1, <1>4, <1>8, <1>9
\* The programs start with the invariant.
LEMMA PlaceInit ==
    ASSUME Init
    PROVE  PlaceInv
  <1> SUFFICES ASSUME Boots PROVE BootInv /\ Simulated
    BY DEF PlaceInv
  <1>1. BootStart
    BY DEF Init, Boots, BootInit, SimInit
  <1>2. ld \in Scripts /\ size \in Sizes /\ boot_at = "start"
    BY <1>1 DEF BootStart
  <1>3. Stages /\ AtKernel /\ AtRam /\ AtImage /\ AtBss /\ AtMain
    BY <1>2 DEF Stages, AtKernel, AtRam, AtImage, AtBss, AtMain
  <1>4. "flash" \in Memories /\ "bkram" \in Memories /\ "sdram" \in Memories
    BY DEF Memories
  <1>5. CASE program = "boot"
    <2>1. memory = [d \in Memories |-> [k \in Addresses |-> Loaded(d, k)]]
      BY <1>5 DEF Init, BootInit, Addresses
    <2>2. Shaped
      BY <1>2, <2>1 DEF Shaped
    <2>3. InFlash /\ InBlockRam
      BY <1>4, <2>1 DEF InFlash, InBlockRam
    <2>4. Untouched
      <3> SUFFICES ASSUME ld # "bkram" PROVE Untouched
        BY DEF Untouched
      <3>1. /\ _ram.in \in {"bkram", "sdram"} /\ RamSize \in Nat /\ Kernel \in Nat
            /\ size.image \in Nat /\ size.bss \in Nat
        BY <1>2, <2>2, Fits, PlacesAre
      <3>2. \A d \in {"bkram", "sdram"} : \A k \in Addresses : memory[d][k] = Anything
        <4>1. \A k : Loaded("bkram", k) = Anything /\ Loaded("sdram", k) = Anything
          BY DEF Loaded
        <4> QED
          BY <1>4, <2>1, <4>1
      <3>3. /\ \A k \in Kernel .. RamSize - 1 : k \in Addresses
            /\ \A k \in size.image + size.bss .. RamSize - 1 : k \in Addresses
        BY <3>1 DEF Addresses
      <3> QED
        BY <3>1, <3>2, <3>3 DEF Untouched
    <2>5. Simulated
      BY <1>5 DEF Simulated
    <2> QED
      BY <1>3, <2>2, <2>3, <2>4, <2>5 DEF BootInv
  <1>6. CASE program = "simulate"
    <2>1. /\ memory = [d \in Memories |-> [k \in Addresses |-> Anything]]
          /\ file \in Files /\ file.ld = ld /\ sim_at = "load" /\ section = 1
      BY <1>6 DEF Init, SimInit, Addresses
    <2>2. Shaped
      BY <1>2, <2>1 DEF Shaped
    <2>3. InFlash /\ InBlockRam
      BY <1>6, <2>1 DEF InFlash, InBlockRam, Stored
    <2>4. Untouched
      <3> SUFFICES ASSUME ld # "bkram" PROVE Untouched
        BY DEF Untouched
      <3>1. /\ _ram.in \in Memories /\ RamSize \in Nat /\ Kernel \in Nat
            /\ size.image \in Nat /\ size.bss \in Nat
        BY <1>2, <2>2, Fits, PlacesAre
      <3>2. /\ \A k \in Kernel .. RamSize - 1 : k \in Addresses
            /\ \A k \in size.image + size.bss .. RamSize - 1 : k \in Addresses
        BY <3>1 DEF Addresses
      <3> QED
        BY <1>4, <2>1, <3>1, <3>2 DEF Untouched
    <2>5. Simulated
      <3>1. ProgramIn \in Memories
        BY DEF ProgramIn, Memories
      <3>2. LoadedUpTo(Before(1))
        BY <2>1, <3>1 DEF LoadedUpTo, Before, Addresses
      <3>3. 1 \in 1 .. Sections + 1
        BY DEF Sections
      <3> QED
        BY <1>2, <2>1, <3>2, <3>3 DEF Simulated
    <2> QED
      BY <1>3, <2>2, <2>3, <2>4, <2>5 DEF BootInv
  <1> QED
    BY <1>5, <1>6 DEF Boots

\* A tick of the simulator's clock, and the end of its loop.
LEMMA TickKeeps ==
    ASSUME program = "simulate", BootInv, Simulated, Tick \/ Leave, program' = program
    PROVE  BootInv' /\ Simulated'
  <1>1. sim_at = "run" /\ sim_at' # "load" /\ UNCHANGED file /\ Stored
    BY DEF Tick, Leave, EndsWith, Stored
  <1>2. BootInv' /\ UNCHANGED ld
    <2>1. CASE BootStep
      BY <1>1, <2>1, BootStepKeeps DEF BootStep
    <2>2. CASE UNCHANGED bootVars
      <3>1. Shaped' /\ InFlash' /\ InBlockRam' /\ Untouched' /\ Kernel' = Kernel /\ _ram' = _ram
        BY <1>1, <2>2, MemoryStays, LayoutStays DEF BootInv, bootVars
      <3>2. Stages' /\ AtRam' /\ AtKernel'
        BY <2>2, <3>1 DEF BootInv, bootVars, Stages, AtRam, AtKernel, KernelUpTo
      <3>3. AtImage' /\ AtBss' /\ AtMain'
        BY <2>2, <3>1
        DEF BootInv, bootVars, AtImage, AtBss, AtMain, KernelUpTo, ImageUpTo, BssUpTo
      <3> QED
        BY <2>2, <3>1, <3>2, <3>3 DEF BootInv, bootVars
    <2> QED
      BY <2>1, <2>2 DEF Tick, Leave, CpuSteps
  <1>3. Simulated'
    BY <1>1, <1>2 DEF Simulated
  <1> QED
    BY <1>2, <1>3

\* Every step of a program keeps the invariant.
LEMMA PlaceStep ==
    ASSUME WholeFiles, PlaceInv, [Next]_vars
    PROVE  PlaceInv'
  <1>1. program' = program
    BY DEF Next, vars
  <1> SUFFICES ASSUME Boots PROVE BootInv' /\ Simulated'
    BY <1>1 DEF PlaceInv, Boots
  <1>2. BootInv /\ Simulated
    BY DEF PlaceInv
  <1>3. CASE program = "boot" /\ Next
    <2>1. Stored /\ (BootStep \/ Reset)
      BY <1>3 DEF Next, Stored
    <2>2. BootInv'
      BY <1>2, <2>1, BootStepKeeps, ResetKeeps
    <2>3. Simulated'
      BY <1>1, <1>3 DEF Simulated
    <2> QED
      BY <2>2, <2>3
  <1>4. CASE program = "simulate" /\ Next
    <2>1. SimStep
      BY <1>4 DEF Next
    <2> QED
      BY <1>1, <1>2, <1>4, <2>1, LoadSectionKeeps, TickKeeps DEF SimStep
  <1>5. CASE UNCHANGED vars
    <2>1. UNCHANGED <<ld, size, boot_at, memory, wrp, rdp, i, file, sim_at, section, program>>
      BY <1>5 DEF vars, bootVars, simVars
    <2>2. /\ Kernel' = Kernel /\ _ram' = _ram /\ (Stored' <=> Stored)
          /\ "flash" \in Memories /\ "bkram" \in Memories
          /\ \A d \in Memories : \A k \in Addresses : Loaded(d, k)' = Loaded(d, k)
      BY <2>1, LayoutStays DEF Stored, Memories
    <2>3. Shaped' /\ InFlash' /\ InBlockRam'
      BY <1>2, <2>1, <2>2 DEF BootInv, Shaped, InFlash, InBlockRam
    <2>4. Untouched' /\ Stages' /\ AtKernel' /\ AtRam'
      BY <1>2, <2>1, <2>2 DEF BootInv, Untouched, Stages, AtKernel, AtRam, KernelUpTo
    <2>5. AtImage' /\ AtBss' /\ AtMain'
      BY <1>2, <2>1, <2>2
      DEF BootInv, AtImage, AtBss, AtMain, KernelUpTo, ImageUpTo, BssUpTo
    <2>6. Simulated'
      <3>1. ProgramIn' = ProgramIn /\ ProgramWords' = ProgramWords /\ ProgramIn \in Memories
        BY <2>1, <2>2 DEF ProgramIn, ProgramWords, Memories
      <3>2. Sections' = Sections /\ Before(section)' = Before(section)
        BY <2>1, <3>1 DEF Sections, Before
      <3>3. LoadedUpTo(Before(section))' <=> LoadedUpTo(Before(section))
        <4>1. \A k \in Addresses : Loaded(ProgramIn, k)' = Loaded(ProgramIn, k)
          BY <2>1, <2>2, <3>1 DEF Loaded
        <4> QED
          BY <2>1, <3>1, <3>2, <4>1 DEF LoadedUpTo
      <3> QED
        BY <1>2, <2>1, <3>2, <3>3 DEF Simulated
    <2> QED
      BY <2>3, <2>4, <2>5, <2>6 DEF BootInv
  <1> QED
    BY <1>3, <1>4, <1>5 DEF Boots

\* The invariant says what is in place when.
LEMMA PlaceHolds ==
    ASSUME PlaceInv
    PROVE  ProgramInPlace
  <1>1. SimLoads
    <2> SUFFICES ASSUME program = "simulate", sim_at = "run", NEW k \in 0 .. ProgramWords - 1
                 PROVE  memory[ProgramIn][k] = Loaded(ProgramIn, k)
      BY DEF SimLoads
    <2>1. BootInv /\ Stored
      BY DEF PlaceInv, Boots, Stored
    <2>2. k \in Addresses
      BY <2>1, Fits DEF BootInv, ProgramWords, Addresses
    <2> QED
      BY <2>1, <2>2 DEF BootInv, InFlash, InBlockRam, ProgramIn
  <1>2. MainFindsProgram
    <2> SUFFICES ASSUME Boots, boot_at = "main"
                 PROVE  Placed /\ BssHolds(IF _rom = Null THEN Anything ELSE Zero)
      BY DEF MainFindsProgram
    <2>1. BootInv /\ Simulated /\ Shaped
      BY DEF PlaceInv, BootInv
    <2>2. CASE ld # "bkram"
      <3>1. _rom # Null
        BY <2>2 DEF _rom, Null, Adr
      <3> QED
        BY <2>1, <2>2, <3>1
        DEF BootInv, AtMain, Placed, BssHolds, KernelUpTo, ImageUpTo, BssUpTo
    <2>3. CASE ld = "bkram"
      <3>1. Kernel = 0 /\ _rom = Null /\ _ram.in = "bkram" /\ size.image \in Nat /\ RamSize \in Nat
            /\ size.image <= RamSize
        BY <2>1, <2>3, Fits DEF Kernel, _rom, _ram, Adr
      <3>2. Stored
        BY <2>1 DEF Stored, Simulated, Boots
      <3>3. ASSUME NEW k \in 0 .. size.image - 1 PROVE memory["bkram"][k] = ImageWord(k)
        <4>1. k \in Addresses /\ k < size.image
          BY <3>1 DEF Addresses
        <4>2. Loaded("bkram", k) = ImageWord(k)
          BY <2>3, <4>1 DEF Loaded
        <4> QED
          BY <2>1, <2>3, <3>2, <4>1, <4>2 DEF BootInv, InBlockRam
      <3>4. ASSUME NEW k \in size.image .. size.image + size.bss - 1
            PROVE  memory["bkram"][k] = Anything
        <4>1. k \in Addresses /\ ~(k < size.image)
          BY <2>1, <3>1, Fits DEF Addresses
        <4>2. Loaded("bkram", k) = Anything
          BY <2>3, <4>1 DEF Loaded
        <4> QED
          BY <2>1, <2>3, <3>2, <4>1, <4>2 DEF BootInv, InBlockRam
      <3> QED
        BY <3>1, <3>3, <3>4 DEF Placed, BssHolds
    <2> QED
      BY <2>2, <2>3
  <1>3. StartsAgain
    <2> SUFFICES ASSUME Stored, ld # "bkram"
                 PROVE  /\ \A k \in DOMAIN memory["flash"] : memory["flash"][k] = Loaded("flash", k)
                        /\ \A k \in Kernel .. RamSize - 1 :
                               _ram.in # "bkram" => memory["bkram"][k] = Anything
                        /\ \A k \in size.image + size.bss .. RamSize - 1 :
                               memory[_ram.in][k] = Anything
      BY DEF StartsAgain
    <2>1. BootInv /\ Shaped
      BY DEF PlaceInv, Boots, Stored, BootInv
    <2>2. DOMAIN memory["flash"] = Addresses
      BY <2>1 DEF Shaped, Memories
    <2>3. _ram.in # "bkram" => ld = "board"
      BY DEF _ram, Adr
    <2> QED
      BY <2>1, <2>2, <2>3 DEF BootInv, InFlash, Untouched
  <1> QED
    BY <1>1, <1>2, <1>3 DEF ProgramInPlace

\* When the simulator starts the CPU the program is where the linker put it, and
\* when main() is called its parts are where they belong.  The BSS of a program in
\* flash is zero then, and such a program is left to be started again, after any
\* number of resets of the CPU and whatever main() has made of its variables; the
\* BSS of a program in block RAM is not cleared (crt0.c, main_tb.cpp).
THEOREM InItsPlace ==
    ASSUME WholeFiles
    PROVE  Spec => []ProgramInPlace
  <1>1. Init => PlaceInv
    BY PlaceInit
  <1>2. PlaceInv /\ [Next]_vars => PlaceInv'
    BY PlaceStep
  <1>3. PlaceInv => ProgramInPlace
    BY PlaceHolds
  <1> QED
    BY <1>1, <1>2, <1>3, PTL DEF Spec
=============================================================================
