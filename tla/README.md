# MosaOS: a TLA+ model of the boot loader and the kernel

MosaOS is a small operating system for x86-64: a UEFI loader (`boot/MosaLoader.c`) that puts an
ELF kernel in memory and jumps to it, and a C++ kernel (`kernel/`) that sets up the screen, the
processor, its own memory management and a C heap, draws as it goes, and then halts.  This directory models the parts
in which the order of steps, a failed call, the firmware's concurrent activity or the arithmetic of
a boundary decides whether the machine comes up in a sound state.

Paths below are relative to the repository.

## 1. The system

| part | code | state | operations |
|---|---|---|---|
| UEFI loader | `boot/MosaLoader.c` `UefiMain`, `boot/kernel_jump.S` | `status`, `root`, file buffers, `mmap`, `bootinfo` | locate GOP and the file system, open the volume, read `font.bin`, `mosa.bmp`, `kernel.elf`, load the kernel, take the memory map, leave boot services, jump |
| segment loading | `LoadKernel`, `Allocate` | program header cursor, `ret`, `size`, `num_pages`, `tmp` | per `PT_LOAD` header: allocate pages (retrying from one page further), copy the file's bytes |
| processor set-up | `KernelMain`, `segment.cpp`, `paging.cpp`, `interrupt.cpp`, `asmfunc.asm` | GDT, selectors, page tables, IDT | `SetupSegments`, `SetDSAll`, `SetCSSS`, `SetupIdentityPageTable`, `InitializeInterrupt`, the handlers `IntSegFault` and `IntDefault` |
| frame manager | `memory_manager.cpp`, class `BitmapMemoryManager` | `alloc_map_`, `range_begin_`, `range_end_` | constructor, `MarkAllocated`, `SetMemoryRange`, `Allocate`, `Free` |
| memory set-up and heap | `KernelMain` lines 73-116, `InitializeHeap`, `newlib_support.c` | `available_end`, the walk's `iter`, `program_break`, `program_break_end` | walk over the firmware's memory map, heap allocation, `sbrk` |
| screens, drawing, console | `screen.cpp`, `print`, `printd` | list of screens, two pixel buffers, two cursors | `setScreen`, `getScreen`, pixels, squares, text, pictures, `copyScreen` |
| fonts, pictures | `font.cpp`, `bmp.cpp`, `font/*.c` | glyph table, picture header | glyph look-up, pixel index, the tool that encodes `hankaku.txt` |
| error codes, placement new | `error.hpp`, `new.cpp` | none | a code with a name for it; a constructor at an address |
| ELF definitions | `boot/elf.h` | none (vendored C library header) | |

How they interact.  The firmware runs the loader and, until `ExitBootServices`, its own timer
callbacks, which take and return pages of the memory the loader works in.  The loader hands the
kernel one structure, `bootinfo`: the frame buffer, the font, the picture and the memory map.  The
kernel reads the memory map to tell the frame manager what is in use; the loader's pages
(`EfiLoaderData`: the kernel's image, the files) must be in that map, and the firmware's boot
services memory is given up.  That memory also holds the GDT, the page tables, the interrupt table
and the stack the loader left, so the processor set-up must have replaced them by then.  The
heap's frames come from the frame manager, `sbrk` hands the heap to newlib, and the exception
handlers print through the screens.

What is hard in it.  Nearly nothing can be unit-tested: the code runs on bare hardware, once.  There
is one flow of control, and three things that interleave with it: firmware callbacks during the
loader, exceptions at any instruction of the kernel, and whatever was in memory before (the loader
clears nothing, so the kernel's `.bss` starts with garbage: `alloc_map_`, the heap's break, the text
cursors, the gates nobody writes).  Most calls of the
loader can fail.  The list of hazards, each at its line, is in `PROJECT.json`.

## 2. Modules

```
FirstFit                                   what an allocator promises
   ^ implemented by
FrameAllocator  <- KernelMemory            BitmapMemoryManager; the walk, the heap, sbrk
   ^ KernelMemoryProofs

SegmentLoader   <- Loader                  LoadKernel and Allocate; UefiMain
BootChain  (Loader, KernelMemory)          from power-on to the heap
   ^ BootChainProofs (KernelMemoryProofs)  of these three

KernelBoot                                 entry_point's and KernelMain's order of steps
   ^ KernelBootProofs
   ^ implemented by
CpuTables       -> PageTables              descriptors and gates, written and read back;
   ^ CpuTablesProofs (KernelBootProofs)    SetupIdentityPageTable and the processor's walk

ScreenSequence                             what a list of screens promises
   ^ implemented by
ScreenList                                 setScreen, getScreen, getLast
   ^ ScreenListProofs

Display                                    print, printd, squares, pictures, copyScreen
   ^ DisplayProofs
BitMapPicture                              BitMapImage and printBmp
   ^ BitMapPictureProofs
FontFile                                   makefontfile, AsciiFont, testfont
```

`A <- B` and `B -> A`: B extends A and uses its actions.  `MC...` modules give TLC its instances.

**FirstFit** is the abstract allocator: a request for `n` frames is answered in one step with the
lowest run of unused frames of the managed range, or refused when there is none.

**FrameAllocator** is the class.  The bitmap is the set `alloc_map` of the frames whose bit is set.
A call of `Allocate` puts its locals in `scan`; an iteration of its two nested loops is one of four
actions: `OutOfRange` (lines 45-47), `FrameTaken` (48, 60: jump behind the taken frame), `FrameClear`
(next `i`), `RunFound` (52-58: mark and return).  `Init` chooses any content for the map, because the
constructor clears nothing.  The 64-bit lines and masks of `alloc_map_` are left out.  `Free` passes `true` to `SetBit`, and so does the model.  `held` is a
history variable: what callers were granted and have not given back.

**KernelMemory** composes it with `KernelMain` 73-116.  `WalkDescriptor` is one turn of the loop over
the descriptors, both advances of `iter` included; `FinishWalk` is `SetMemoryRange`; `RequestHeap`,
`SearchHeap`, `HeapReady`, `HeapFailed` are `InitializeHeap` around the steps of `Allocate`; `Sbrk` may
happen wherever the kernel is between two calls, before the heap exists too.  Its two variables lie
in `.bss`, so that they start with anything (`GarbageBreaks`), addresses wrap, and its only tests are the
code's: an unset break, and the upper end.  Who calls it is the C library, which is not in the
repository.  So the increments are free, negative ones included; `lent` is a history of the bytes that
callers hold, and `astray` says that one of them was given a grant before the heap existed or gave back
what it did not hold.  `SbrkGrantsHeap` and `HeapInAvailableMemory` say what holds in any case (nothing is
granted at the heap's end or behind it) and what holds unless callers went astray (bytes of the heap
alone, none twice).  No frame number is checked by the class: when the walk marks, or the search reads, a frame the map has no bit for, the
C++ is undefined, and the model goes to the phase `outOfMap` and stops.

`HeapLowest` answers for the page tables: they map 64 GiB, the manager goes up to 128 GiB, and the heap
is outside of what is mapped only when no run inside would do.

**SegmentLoader** has the firmware's page ownership, `LoadKernel` and `Allocate`.  `AllocateGranted`
and `AllocateRefused` are a turn of the retry loop; sizes are `UINT64` and wrap (`Word`), `ph_num` has
eight bits (`PhNumRange`).  The result of `Allocate` is not looked at, so `CopySegment` always
follows.  The bytes copied are recorded as the pages they lie in.  A copy onto a page that `Allocate` did not
obtain, or any copy while the file lies at address 0, may hit the headers still to be read: `table` is what
they say now, `image` what the file says, and `Overwritten` lets the rest of the table become anything of
`Headers`.  What else such a copy hits is taken to go on as before.  `FirmwareCallback` takes or returns
a page between any two steps; every change of ownership changes `map_key`.  Two histories tell what
became of each request: `got`, the pages that `Allocate` obtained for a header, and `blocked`, the pages
that were not free at the moment a request for them was refused.  An exception that a property makes for
a page refers to these moments, so that a page lost later is excused by nothing.

**Loader** is `UefiMain`, one action per firmware call, each with a `status` that is free to be success
or error.  Whether that status is assigned and tested is the code's: `OpenVolume`'s is not assigned,
`AllocatePool`'s is overwritten, `Read`'s is tested for the kernel only, `GetMemoryMap`'s is overwritten.  A `LoadKernel` step is a step
of `SegmentLoader`.  `ExitBootServices` succeeds exactly when the key it is given is that of the
firmware's current map.

**BootChain** joins the two halves.  It extends `Loader`, instantiates `KernelMemory` over the same pages, and
adds the one thing that passes between them, the memory map: `EnterKernel` writes a descriptor for each
run of pages of one type, in any order: free pages as conventional memory, the loader's as `EfiLoaderData`, the
firmware's as boot services memory, runtime memory or nothing.  Where `GetMemoryMap` failed and the firmware
stored the key all the same, the jump takes place with whatever the buffer held (`StaleMaps`).  Its
properties are the point of the whole start-up: what the loader got for the kernel, the kernel never gives
away.  They are about a map that was taken (`mmap.taken`); by bytes the firmware never wrote nothing can be
kept.

**KernelBoot** is the order of the steps of `entry_point` and `KernelMain`, and an exception before any
of them.  The stack and each table, register and selector is the firmware's or the kernel's; `After` is
the order of the statements.  An exception enters a handler through the gate's selector; a selector
chosen for another GDT may or may not be good in the present one.  Gates 20 and above are never written
and may hold anything.

**CpuTables** has the tables themselves: `SetCodeSegment`, `SetDataSegment` and `SetIDTEntry` write records
of bit fields, cut as in the code, over garbage; the processor's checks read them back when `SetCSSS`
loads selectors and when an exception is delivered.  The step "paging" is all of `PageTables`, whose
`pc` it carries along; KernelMain's own is `step`.  A variable `done` keeps the steps of `KernelBoot`
that touch no table here.  The refinement mapping takes who provides a table from what the registers
hold, so that it fails when a selector is not accepted or a gate leads elsewhere than its handler.

**PageTables** is `SetupIdentityPageTable` entry by entry over garbage, and the walk a processor makes of
the result.  An entry is an address in pages and its flags.

**ScreenList** is the linked list of `ScreenManager`, one pointer a step.  `Wild` is a pointer nobody wrote;
the head is NULL after `ScreenManager()`, anything before.  `misused` remembers a manager built over
garbage by `ScreenManager(Screen*)` and a screen added twice: the code tests for neither, and what
follows them is not promised.  **ScreenSequence** is the promise: a sequence that `setScreen` appends to
and `getScreen` reads, until it is `broken`.

**Display** is the script of `KernelMain`'s drawing, with `print` and `printd` and their static cursors, the
loop over the memory map with its line per reserved descriptor, the two messages of a failed heap and
a handler's message after any call.  The cursors are in `.bss` and start anywhere (`GarbageCursors`); they,
coordinates and indexes are 32 bits wide and wrap (`Word`), and a strip that reaches the last row of all
never ends, as in `writeSquare`.  A pixel of the buffers is an index; `picture` is a history of the
same drawing by coordinates, `lines` of what `print` wrote in its present pass over the screen, `strays` of
the calls that wrote or read past `back_fb`.  What such a write does to what lies there is not followed.

**FontFile** is the tool that turns `hankaku.txt` into `font.bin`, line by line over whole and cut texts, the
constructors that cut the file into glyphs, and `isDraw`; `Shown` is what `testfont` prints of the same
file.  **BitMapPicture** is the constructor of `BitMapImage` and the loops of `printBmp` with `getColor`'s
index, for pictures stored in either direction.

Decisions that hold for all of them.  Addresses of the memory manager are counted in frames:
firmware pages and the manager's frames both have 4096 bytes and firmware addresses are
page-aligned.  The firmware is external: it grants a request exactly when all its pages are free,
which is what `AllocateAddress` means, and refuses a request for no page.  What the code draws or
logs is left out of all modules but `Display`.

## 3. Runs

| run | question | bounds |
|---|---|---|
| `frame_allocator` | any history of `MarkAllocated`, `SetMemoryRange`, `Free` and `Allocate`: types; the search passes over no usable run; grants disjoint; every search ends; refinement of `FirstFit` | 4 frames, requests up to 3, every initial map |
| `free_keeps_frames` | finding: frames given to `Free` can be granted again | the same |
| `kernel_memory` | only available memory is allocatable; the heap lies in it, above frame 0, in the lowest run that would do; a halt only for want of room; leaving the map only with memory beyond it; `sbrk` grants the heap alone, no byte twice, unless its callers went astray; the boot ends | all maps of up to 3 disjoint descriptors of up to 4 pages, in any order, with holes, over 5 frames plus one page beyond; heap of 2 frames of 2 bytes, 12 byte addresses; increments -2..2; 2 values under the break and its end; 2 initial maps |
| `segment_loader` | every start given up was hopeless when it was tried; pages obtained stay the loader's, and the others of a segment could not be had or were not counted; all bytes copied unless the headers may have been overwritten or are too many to count; a halt only for a segment of as many pages as tries; loading ends | 4 pages of 2 bytes, tables of up to five headers with one or two segments at aligned and unaligned addresses, sizes 0, 1, 3, 6 and 50, two headers that an overwritten one may turn into, callbacks up to map key 3, 4 tries |
| `open_volume_unchecked` | finding: a failed `OpenVolume` stops the loader | 4 pages, two images, every call failing or not, map keys up to 3 for callbacks |
| `boot_chain` | the kernel is entered only after `ExitBootServices`, with its file read; its memory map, if it fitted, is true at that moment, and every page the loader obtained for the image is still the loader's in it; `UefiMain` ends; by a map that fitted, no page obtained is allocatable, nor another of the image unless the loader could not get or did not count it, and the heap is on no page of the loader, nor on one the firmware keeps | 4 pages of 2 bytes, two images, every call failing or not, map keys up to 2 for callbacks, every order of the descriptors, 3 contents of a map buffer never written, heap of one frame, 8 byte addresses, `sbrk(0)` over a clear break only (the rest: `kernel_memory`), one initial map |
| `kernel_boot` | a reset only between `LoadGDT` and `LoadIDT`; handlers run on the kernel's own stack and tables with `gScreen` set; the firmware's are dropped before their memory is allocatable | exceptions 0, 2, 12, 13, 14, 19, 20, 21 |
| `cpu_tables` | refinement of `KernelBoot`: the processor accepts the selectors, each gate leads to its handler; the page tables in use are an identity map | pieces of 8 and 4 bits for 16 and 8, four firmware selectors, exceptions 0, 2, 12, 13, 19, 20, 21; 16 entries to a page table for 512, 9 directories for 64 |
| `screen_list` | the pointers are the sequence added; refinement of `ScreenSequence`; calls return | 3 screens, every garbage head, indexes -1 to 3 |
| `display` | each pixel where it was asked for; for which reasons, in which mode, a call leaves the buffer; lines whole; what is copied is what was drawn | cells of 1 by 2 pixels, a back buffer of 280, indexes below 512, 8 modes, 6 starts for each cursor, up to 3 reserved descriptors |
| `font_file` | the kernel draws what the text shows; the tool hangs for which texts | 2 glyphs of 2 rows of 6 columns, texts of up to 7 lines |
| `bitmap_picture` | which pictures are drawn as stored, and which are read past their end | widths 0 to 4, heights -3 to 3, 8 to 32 bits |

Why the bounds are enough.  Four frames hold a run, a taken frame inside a longer run, the jump over
it and the end of the range, with one frame to spare on each side.  Three descriptors are the least
with one read, one skipped and one read, and disjoint maps in any order contain unsorted ones; the
last page beyond frame 5 is the machine with more memory than bits.  Two memory types stand for the
two answers of `IsAvailable`.  A break under which 0 lies is unset, one under which 5 lies can fall, before the
heap exists, until it wraps below address 0.  Pages of two bytes have
an aligned and an unaligned address; sizes 0, 1, 3, 6 and 50 are empty, partial, unaligned, larger than
the memory behind some of the addresses, and beyond the limit at which the retries end;
`Word` = 64 with `SizeLimit` = 48 puts the wrapped sizes where the loop's test must see them, as
`0xffffffffffff0000` does for 64 bits; a table of five headers has more than a `ph_num` of four values
can count.
`MaxTries` = 4 makes the 10000th try reachable.  The exceptions are an NMI, the one with a handler of
its own, its neighbours, the last gate set and two that are not.  In `cpu_tables` offsets and limits are cut
at 2^8 and 2^4, since TLC's integers have 32 bits: the handlers' addresses still fill three pieces of
a gate, no two alike.  Nine directories for 16 entries leave a rest of entries beyond the last
directory, as 64 for 512 do.  Three screens are a first, one in the middle and a last, and a fourth index
is beyond them.  In `display` the modes have 180 to 308 pixels for a buffer of 280: with room below the
last row, filling the buffer, too large, with rows too short for the longest line, with padded rows, and
with a frame buffer longer than its rows; a cursor starts at the top, among the rows, below them, at a row
whose index wraps to the buffer's start, at the one whose strip never ends, or at the last; the lines have
the lengths of the real messages.  Two glyphs are one before the last header and one after it, and texts
of every length up to seven are whole and cut at each place.  Heights below zero are pictures from the
top down; widths of up to four at 24 bits have every padding.  The mutants show that each property
can fail within these bounds: each changes one definition the way a slip in the code would, and TLC
then reports the property violated.

All runs but those of `FrameAllocator` switch the deadlock check off:
the program really stops there, in the kernel, in `stop()`, in a `hlt` loop, at the end of a function or
a tool, or, in ScreenList, in a call through a wild pointer.

Fairness.  Each specification with a liveness property assumes weak fairness of the one flow of
control of that program (`ScanStep`, `KernelStep`, `LoadStep`, `UefiMain`; `Walk` of ScreenList, the part of a call behind its start) and of nothing else.  The code justifies it: there is one processor, no scheduler and no lock, a firmware callback
returns to what it interrupted, and firmware calls return.  Calls of `sbrk`, callbacks and exceptions
are not fair: they need never happen.  Callbacks are bounded (`MaxKey`); unbounded callbacks that
take a page at every turn would not disturb the ends proved here, since no retry waits for one.

## 4. Proofs

The proofs are checked by TLAPS for every value of the constants, under the assumptions that the
modules declaring them name.  Most say no more than what kind of value a constant is: `FrameCount`
positive, `GarbageMaps` sets of frames, `MemoryMaps` sequences of descriptors, `Tables` sequences of
program headers.  The others are these.

- `HeapFrames` is at least one and at most `MaxRequest`.
- `WordAssumption` of `SegmentLoader`: two more pages than `SizeLimit` do not wrap, and memory ends below it.
  In the code the limit is `0xffffffffffff0000`, 2^16 below the wrap, a page has 2^12 bytes, and no
  processor has that much memory.
- `HandlerAssumption` of `CpuTables`: two functions have two addresses.  `GarbageAssumption`: what an entry
  nobody wrote holds is kept apart from what the code writes.
- `TextAssumption` of `FontFile`: a text is a sequence of headers and rows.  Which of them follow each
  other, and how many, is open.
- `MaxIncrAssumption` of `KernelMemory`: the byte addresses reach far enough beyond the frames that no
  increment wraps from a frame's last byte.  In the code an `int` is added to an address of 64 bits.
- `DisplayAssumption` of `Display`: the frame buffer holds its rows, the back buffer's indexes fit a word,
  and no rectangle of the code's reaches the last row that a word can name.
- `PictureAssumption` of `Display`: the picture is to the right of a line of 20 characters.  In the
  code it is at column 200, and a line of 20 characters ends at 160.

In particular nothing is assumed of the order or the number of the memory map's descriptors, nor of
what `alloc_map_`, the heap's break and the text cursors start with.  They may even overlap, though a frame counts as available then if any
of its descriptors says so.

### The memory of the kernel: `KernelMemoryProofs`

For the allocator, `IInv` joins the type invariant, `held \subseteq alloc_map` and, for a running
search, that the frames counted so far are clear, in the range and in the map, and that every start
passed over is blocked.  None of these is inductive alone: marking at `RunFound` keeps `held` marked and the
types right only because the counted frames are in the map, and a refusal is justified only by what
was passed over.  From it: `TypeCorrect`, `HeldMarked`, `SearchSound`; the action property
`GrantsDisjoint`, since the counted frames are unmarked and held ones are marked; and
`RefinesFirstFit`: a loop iteration that does not return stutters, `RunFound` is `Grant` of the lowest
run and `OutOfRange` is `Refuse`, each because of the passed-over starts.

For the kernel around it, `MainIInv` adds what the walk maintains (`MemoryKnown`): each frame below
`available_end` is marked or available.  Only a step that moves `available_end` up can break it, and the
frames such a step passes are in the gap it marks or in the available descriptor it reads.  That holds
although the walk skips every second descriptor: a skipped one is part of the next gap, or lies
beyond the end of the range.  Where the walk or the search has left the map, only the parts that do
not depend on the bitmap remain; hence the conjunct `phase # "outOfMap" => InMap`.  From it:
`AvailableOnly`, `HeapAvailable`, `LowestHeap`, `HaltJustified`, `StaysInMap`, `SbrkSound`,
`MainTypeCorrect`.  `SbrkSound` and the part of `HeapAvailable` on the break rest on two facts that hold from
the moment the heap exists: the break is below the end, because `sbrk` tests that end, and, as long as
no caller went astray, `lent` is exactly the bytes from the heap's base to the break, so that what is granted
next is in nobody's hands.  Nothing is said of the break before that but that an unset one grants
nothing.  The same argument says what the skipping costs: memory that is available in a
skipped descriptor is never allocated, which is a loss and not an error.

### The loader: `BootChainProofs`, first part

`LoadKernel` first.  `TriesSound` is about starts that the retry loop has left behind, so the invariant
has to say where the loop is (`Asking`): a refused request moves its start up by a page and its size
down by one, so that its end stays where the segment's count of pages ends.  The page that made the
firmware refuse therefore lies between the start given up and that end, and `blocked` remembers it, whatever
callbacks do later.
When the loop ends without a grant, its start has come to the end, or the size was so large that the
end lies beyond memory; either way each page of the count was obtained or is accounted for (`Kept`).  All
of this is said of the headers as they are in memory, which a copy astray may change, though never those
already gone through; `ImageRead` ties them to the file's as long as there is no reason why not.  From it:
`SegTypeCorrect`, `RetriesSound`, `LoadedImageOwned`, `LoadedImageCopied`, `HaltNeedsHugeSegment`.

`UefiMain` runs `LoadKernel` with pages it has taken for other uses, the buffers of `AllocatePool`.  The
invariant has the set of those pages as a parameter, so that the lemmas about `LoadKernel`'s steps
serve there too.  `LoaderIInv` says which calls lie behind each stage, that the memory map
handed over carries the key it was taken with, and that a map that was taken and has the current key shows
the current owners.  The last part is what makes `ExitBootServices`' test of the key sufficient.  From both:
`EntryPrepared`, `MapIsTrue`, `LoaderTypeCorrect` and `KernelImageKept`.

### From power-on to the heap: `BootChainProofs`, last part

The invariant joins those of the two programs.  Until the kernel is entered it has not moved
(`Started`); from then on the loader does not move, and every page that the handed map calls available
is nobody's, or one of the firmware's that boot services left behind (`HandedTrue`), if the map was taken at
all.  That holds of the descriptors in every order, being said of each by itself.  The kernel
allocates nothing but such pages, which `KernelMemoryProofs` shows of every memory map, instantiated
here with the pages as frames and the map handed over as the firmware's; the pages that the loader obtained
are not among them, by `KernelImageKept`'s invariant.  From it: `ImageSafeFromAllocator`, `HeapSafe`.

### The processor: `KernelBootProofs`, `CpuTablesProofs`

`BootInv` says of each step of the start-up which tables, registers and flags are the
kernel's by then (`Replaced`).  The properties are not inductive without it: that no handler runs
before it can print follows from the steps that lie before `LoadIDT`, and an exception freezes the step
at which it struck.  From it: `BootTyped`, `ResetsOnlyInWindow`, `HandlersPrint`, `TablesDropped`, for
every set of exceptions.

`IdentityMap` says nothing until CR3 is loaded.  `Filled` carries it there: behind the two
counters every entry is the one it has to be, whatever was in memory.  From it `PageTyped` and
`MapsIdentity`, for every number of entries and directories, the real ones included, and
`KernelMapsIdentity` for the page tables among the other steps.

`TablesInv` does the same for the GDT (`GdtWritten`) and the IDT (`GatesWritten`): what lies in them behind
each step is what the refinement needs where the processor reads them, when `SetCSSS` loads selectors
and when an exception strikes.  That a gate leads to its handler is arithmetic: the three pieces
that `SetIDTEntry` cuts an address into make up that address, for every width of the pieces
(`OffsetOfGate`).  From it `RefinesKernelBoot`, each step of `CpuTables` being one of `KernelBoot` or a
stutter, and so `TablesBootSafely`: what is proved of `KernelBoot` holds of the tables.

### Screens and pictures: `ScreenListProofs`, `DisplayProofs`, `BitMapPictureProofs`

`ListInv` adds to the pointers' agreement with the sequence where a running call is
in it: `getLast` at a screen of the list, `getScreen` at the one its counter says.  From it `ListTyped`,
`PointersFollow`, `NoStray`, and `RefinesSequence`, where the return of a call is the abstract call and each
pointer followed before it a stutter.

`DisplayInv` joins the three invariants of `Display` with what each needs of the calls before.  Where no
rectangle is wider than the screen and no index wraps, a pixel of the buffer has one pair of coordinates, so that buffer
and picture change alike.  The lines of `print` lie above its cursor until it starts anew, and beside
the place of the picture until that is drawn (`LinesAbove`).  Wherever that cursor started, one line brings it
to the screen (`PrintCursor`); hence the exception for the first line in `StaysInBuffer`.  The cursor of
`printd` never starts anew: it stays within three lines of its start because a stop comes after few
messages (`FewMessages`).  From it `PicturesTrue`,
`NothingStrays`, `LinesStay`, and the action property `CopiesTrue`, for every size of buffer, cell and
screen and every number of reserved descriptors.

`PicInv` says which pixels the two loops have gone through and that these are drawn as stored.  The index
that `getColor` computes is a number of two digits to the base of a row's bytes; without padding that
base is the file's too.  From it `DrawnAsStored`, for every header.

### Fonts: `FontFileProofs`

Two arguments.  The first is of the numbers: `makefontfile` puts a row's columns into one number, and
`isDraw` and `testfont` take them out again.  Both the power of two and the running number are recursive
functions, which the prover knows only once they are shown to exist (`BitFacts`, `EncodeSteps`).  After the
turn of a column, the columns before it have left a number below its power of two (`LowerDigits`), and
those behind it add multiples of the next power (`HigherDigits`); the bit taken out is therefore the
column (`Decode`), through `testfont`'s signed char as well.

The second is of the lines: the position in the text is the number of lines asked for, or the end of the
text (`Position`), no header is passed at the end (`HeadersRead`), and what the loops have left
behind is the text's (`RowsEncoded`).  The position is what makes `HangsForShortText` inductive: the tool
spins only at the end of a text, and there the lines asked for tell how short it is.  From both:
`DrawnAsWritten` and `HangsIfShort`, for every number of glyphs, rows and columns and every text.

### Progress

Liveness itself rests on fairness and is left to TLC.  What is proved is the part of it that depends on the
code: a measure that every step of the loop lowers, for every value of the constants.  With a fair
scheduler nothing then is left but to come to the end, or to be stuck at a step that is not enabled, which the
runs exclude on their instances (their liveness properties say that the end is reached).

- `SearchNearsEnd`: a turn of `Allocate` ends the call or leaves fewer frames of the range ahead.  The
  jump over a taken frame never goes back.
- `BootNearsEnd`: phases of the boot, and in a phase the turns of its loop; the walk advances its cursor
  by two descriptors in each turn.
- `LoadNearsEnd`: headers, and at a header the tries left.  The invariant says that a running loop has a try
  left (`Asking`); a callback of the firmware changes nothing of it.
- `UefiNearsEnd`: the calls ahead, at most eighteen, `LoadKernel` being one.
- `WalkNearsEnd`: `getScreen` takes as many turns as its index says; `getLast` moves along the sequence of the
  screens, as long as none was added twice.

`MarksStay` is of another kind.  The abstract allocator never clears a bit (`FirstFitKeeps`), and the
refinement carries that over to the code: a frame that was granted is never granted again, not even after
`Free`, which sets the bits it should clear (section 5).

### Model-checked only

All liveness (`SearchEnds`, `BootEnds`, `LoadEnds`, `UefiMainEnds`, `CallsReturn`): the prover does not
handle what rests on fairness and on `ENABLED`.  Every other property of the runs that pass is stated by a
theorem.  The two that fail (section 5) are no properties of the code.

## 5. Findings

- `Free` (`kernel/memory_manager.cpp:66`) sets the bits of the frames given back.  Shown by
  `free_keeps_frames`.
- `OpenVolume`'s result (`boot/MosaLoader.c:129`) is not assigned to `status`; the branch that reports
  its failure is dead and the next line calls through `NULL`.  Shown by `open_volume_unchecked`.

What the model makes explicit though no text of the repository contradicts it: every second descriptor
of the memory map is skipped (a loss of memory, not of safety: `AvailableOnly`); the last page of a
segment that is not page-aligned is not allocated (the exception in `ImageOwned`, `ImageKept` and
`ImageNeverAllocatable`); an image with 256 program headers loads nothing, and a segment copied onto pages
that could not be had may overwrite the headers behind it (the conditions of `ImageCopied`); with a memory
map that does not fit 16 KiB the kernel may be entered and walk bytes nobody wrote (`mmap.taken`); `sbrk`
grants by an uncleared break before the heap exists, and lets its callers take the break below the heap
(`astray`); memory above 128 GiB
takes the walk out of `alloc_map_` (`InMapWhenMemoryFits`); an exception between `LoadGDT` and `LoadIDT`
may reset the machine (`ResetOnlyInWindow`); a screen added twice closes a circle in the list, and a
manager built with a screen over memory nobody cleared, as `InitializeScreen` does, takes what it finds
for a list (`misused`); on a large enough screen, or with a text cursor that starts low enough in memory nobody
cleared, drawing leaves the back buffer (the reasons in `StaysInBuffer`), and padded rows show a slanted
picture (the condition of `ShownAsAsked`); a picture stored from the top
down is read one pixel too far (which `PictureAsStored` leaves out); `makefontfile` never ends for a text cut before a header
(`HangsForShortText`).

## 6. Not modelled, and why

- `boot/elf.h`, two thirds of the repository's lines, is the C library's header: constants and layouts for
  every processor ELF knows, of which the loader uses two records and a constant.  `stdarg.h` and
  `stddef.h` are the compiler's.  They have no behaviour, so that the share of all lines the modules
  stand for stays near a fifth; of the system's own lines it is more than half.
- The contents of the GOP mode and of `bootinfo` other than the memory map, in the loader: data its control
  does not depend on.  The overrun of `EFI_FILE_INFO` (`MosaLoader.c:150`) is a matter of stack layout.
- A font or a picture that was never read (`MosaLoader.c:159`): `Loader` records it, and `FontFile` and
  `BitMapPicture` begin with a file that was.
- What a kernel finds in a map buffer that the firmware did not write is one of a few stale maps.  A map
  that does not fit makes `GetMemoryMap` return `BUFFER_TOO_SMALL`, with which firmware may hand out the key
  that `ExitBootServices` then accepts (`GetMemoryMap` in `Loader`, `EnterKernel` in `BootChain`).  A
  firmware that then leaves the size of a descriptor at 0 would keep the kernel in its first turn of
  the walk; the model has the size set.
- What a copy or a drawing outside its own memory does to anything but the program headers still to be read:
  the loader's stack and code, the firmware, what follows `back_fb` or `alloc_map_`.
- An exception in the middle of a drawing call: `Display` has it between two calls.
- How a frame's bit lies in the 64-bit lines of `alloc_map_`: the frames are a set.
- A screen's name, which nothing reads; the colour that `print` changes with each pass; placement new
  and error codes, which have no effect but the branch that tests for one; build files; `strcmp` and `dumpSectionHeader`, which nothing calls.

## 7. Plan

On disk: the frame manager with its abstract form; memory set-up, heap and `sbrk`;
the segment loader and `UefiMain`; the chain from power-on to the heap; the processor set-up with its
tables; paging; the list of screens; drawing, fonts and pictures.

Each of them has its proofs.  What would come next:

1. What the abstract list promises by itself, so that a property proved of it carries over to the code
   through the refinement, as `MarksStay` does for the allocator.
2. That the steps of each loop are enabled until its end, in the form of an invariant on their guards, which
   with the measures above is what liveness needs short of fairness itself.
