----------------------------- MODULE KernelMemory -----------------------------
(***************************************************************************)
(* How the kernel takes over physical memory: the memory manager part of   *)
(* KernelMain (kernel/kernel.cpp), InitializeHeap (memory_manager.cpp) and *)
(* sbrk (newlib_support.c), composed with FrameAllocator.                  *)
(*                                                                         *)
(* KernelMain walks the firmware's memory map and marks what it may not    *)
(* use, sets the managed range, allocates the frames of the C heap and     *)
(* halts; sbrk then hands the heap out to newlib.  Addresses are counted   *)
(* in frames: the pages of the firmware and the frames of the manager both *)
(* have 4096 bytes, and firmware addresses are page-aligned.               *)
(***************************************************************************)
EXTENDS FrameAllocator, Sequences

CONSTANTS
  MemoryMaps,     \* the memory maps the firmware may hand over
  HeapFrames,     \* kHeapFrames
  BytesPerFrame,  \* kBytesPerFrame
  Addresses,      \* the number of byte addresses, 2^64
  GarbageBreaks,  \* what may lie under program_break and program_break_end
  MaxIncr         \* bound: the largest |incr| passed to sbrk

MemoryType ==
  {"kEfiReservedMemoryType", "kEfiLoaderCode", "kEfiLoaderData",
   "kEfiBootServicesCode", "kEfiBootServicesData", "kEfiRuntimeServicesCode",
   "kEfiRuntimeServicesData", "kEfiConventionalMemory", "kEfiUnusableMemory",
   "kEfiACPIReclaimMemory", "kEfiACPIMemoryNVS", "kEfiMemoryMappedIO",
   "kEfiMemoryMappedIOPortSpace", "kEfiPalCode", "kEfiPersistentMemory",
   "kEfiMaxMemoryType"}

(* Mutant: the loader's memory is taken for available.                     *)
IsAvailableLoader(type) ==
  type \in {"kEfiLoaderData", "kEfiBootServicesData", "kEfiConventionalMemory"}

IsAvailable(type) ==
  type \in {"kEfiBootServicesCode", "kEfiBootServicesData", "kEfiConventionalMemory"}

Descriptor == [type : MemoryType, start : Nat, pages : Nat]

End(d) == d.start + d.pages

ASSUME MemoryMapsAssumption    == MemoryMaps \subseteq Seq(Descriptor)
ASSUME HeapFramesAssumption    == HeapFrames \in 1 .. MaxRequest
ASSUME BytesPerFrameAssumption == BytesPerFrame \in Nat \ {0}
(* No increment, an int, reaches around from a frame to the last bytes.    *)
ASSUME MaxIncrAssumption       ==
  /\ MaxIncr \in Nat /\ Addresses \in Nat
  /\ FrameCount * BytesPerFrame + MaxIncr <= Addresses
ASSUME GarbageBreaksAssumption == GarbageBreaks \subseteq 0 .. Addresses - 1

VARIABLES
  phase,              \* how far KernelMain has got
  mmap,               \* binfo->mmap, fixed for the whole run
  iter,               \* the position of the walk's cursor, 1 for the first
  available_end,      \* end of the last available descriptor seen
  program_break,      \* the heap's break, a byte address; garbage before the heap
  program_break_end,
  sbrk_ret,           \* what the latest sbrk returned
  lent,               \* history: the bytes sbrk has lent since the heap exists
  astray              \* history: sbrk granted before that, or was given back
                      \* bytes that it had not lent

walkVars == <<mmap, iter, available_end>>
heapVars == <<program_break, program_break_end, sbrk_ret, lent, astray>>
mainVars == <<vars, phase, walkVars, heapVars>>

SbrkError == -1

MainInit ==
  /\ Init
  /\ phase = "walk"
  /\ mmap \in MemoryMaps
  /\ iter = 1
  /\ available_end = 0
  /\ program_break \in GarbageBreaks /\ program_break_end \in GarbageBreaks
  /\ sbrk_ret = 0
  /\ lent = {} /\ astray = FALSE

-------------------------------------------------------------------------------
(* One turn of the loop over the descriptors.  The gap between the end of  *)
(* the last available descriptor and this one is marked, and so is this    *)
(* one unless it is available.  Both the body and the loop header advance  *)
(* iter.  MarkAllocated does not check its frame numbers: with a frame     *)
(* beyond the map the kernel overwrites what follows alloc_map_, and the   *)
(* model stops there.                                                      *)
(* Mutants: a gap that starts one frame late, a descriptor that ends one   *)
(* frame late, a range that starts at frame 0.                             *)
GapShort(d) == available_end + 1 .. d.start - 1
OwnInclusive(d) == IF IsAvailable(d.type) THEN {} ELSE d.start .. End(d)
FirstFrameZero == 0

Gap(d) == available_end .. d.start - 1

Own(d) == IF IsAvailable(d.type) THEN {} ELSE d.start .. End(d) - 1

WalkDescriptor ==
  /\ phase = "walk" /\ iter <= Len(mmap)
  /\ LET d == mmap[iter]
         marked == Gap(d) \cup Own(d)
     IN  /\ SetBits(marked \cap Frame)
         /\ available_end' = IF IsAvailable(d.type) THEN End(d) ELSE available_end
         /\ phase' = IF marked \subseteq Frame THEN "walk" ELSE "outOfMap"
  /\ iter' = iter + 2
  /\ UNCHANGED <<range_begin, range_end, scan, result, held, mmap, heapVars>>

(* The range starts at frame 1, so that no address 0 is ever handed out.   *)
FirstFrame == 1

FinishWalk ==
  /\ phase = "walk" /\ iter > Len(mmap)
  /\ SetMemoryRange(FirstFrame, available_end)
  /\ phase' = "heap"
  /\ UNCHANGED <<walkVars, heapVars>>

-------------------------------------------------------------------------------
(* InitializeHeap: the call of Allocate, its search, and the two ends.     *)
(* GetBit checks no frame number either: the model also stops where the    *)
(* search, in a range longer than the map, reads what follows alloc_map_.  *)
RequestHeap ==
  /\ phase = "heap"
  /\ CallAllocate(HeapFrames)
  /\ phase' = "allocating"
  /\ UNCHANGED <<walkVars, heapVars>>

ReadsBit == InLoop /\ ~AtEnd

SearchHeap ==
  /\ phase = "allocating"
  /\ ScanStep
  /\ phase' = IF ReadsBit => Candidate \in Frame THEN "allocating" ELSE "outOfMap"
  /\ UNCHANGED <<walkVars, heapVars>>

HeapReady ==
  /\ phase = "allocating" /\ ~scan.active /\ ~result.error
  /\ program_break' = result.value * BytesPerFrame
  /\ program_break_end' = program_break' + HeapFrames * BytesPerFrame
  /\ phase' = "running"
  /\ UNCHANGED <<vars, walkVars, sbrk_ret, lent, astray>>

HeapFailed ==
  /\ phase = "allocating" /\ ~scan.active /\ result.error
  /\ phase' = "halted"
  /\ UNCHANGED <<vars, walkVars, heapVars>>

(* sbrk, called by the C library, which is not part of the source.  Its    *)
(* two variables lie in .bss, which nobody clears: before the heap exists  *)
(* they hold anything.  Addresses wrap.  The code compares with the upper  *)
(* end alone; what callers give back is up to them.                        *)
HeapBase == program_break_end - HeapFrames * BytesPerFrame

(* Mutant: the increment left out of the test.                             *)
NoRoomBefore(incr) == program_break = 0 \/ program_break >= program_break_end

NoRoom(incr) ==
  program_break = 0 \/ (program_break + incr) % Addresses >= program_break_end

(* The bytes between the break and where incr moves it.                    *)
Granted(incr) == program_break .. program_break + incr - 1
Returned(incr) == program_break + incr .. program_break - 1

Grant(incr) ==
  /\ ~NoRoom(incr)
  /\ sbrk_ret' = program_break
  /\ program_break' = (program_break + incr) % Addresses
  /\ \/ /\ phase = "running"
        /\ lent' = (lent \cup Granted(incr)) \ Returned(incr)
        /\ astray' = (astray \/ ~(Returned(incr) \subseteq lent))
     \/ phase # "running" /\ astray' = TRUE /\ UNCHANGED lent

Sbrk(incr) ==
  /\ phase \in {"walk", "heap", "running"}
  /\ \/ Grant(incr)
     \/ /\ NoRoom(incr)
        /\ sbrk_ret' = SbrkError
        /\ UNCHANGED <<program_break, lent, astray>>
  /\ UNCHANGED <<vars, phase, walkVars, program_break_end>>

KernelStep ==
  \/ WalkDescriptor
  \/ FinishWalk
  \/ RequestHeap
  \/ SearchHeap
  \/ HeapReady
  \/ HeapFailed

MainNext ==
  \/ KernelStep
  \/ \E incr \in -MaxIncr .. MaxIncr : Sbrk(incr)

MainSpec == MainInit /\ [][MainNext]_mainVars

(* The kernel is one flow of control that nothing preempts.                *)
MainFairSpec == MainSpec /\ WF_mainVars(KernelStep)

-------------------------------------------------------------------------------
FramesOf(d) == d.start .. End(d) - 1

AvailableFrames ==
  UNION {FramesOf(mmap[k]) : k \in {j \in DOMAIN mmap : IsAvailable(mmap[j].type)}}

(* The frames Allocate may return.                                         *)
Allocatable == (range_begin .. range_end - 1) \ alloc_map

(* Type invariant.                                                         *)
MainTypeOK ==
  /\ TypeOK
  /\ phase \in {"walk", "heap", "allocating", "running", "halted", "outOfMap"}
  /\ mmap \in Seq(Descriptor)
  /\ iter \in Nat \ {0}
  /\ available_end \in Nat
  /\ program_break \in Nat /\ program_break_end \in Nat
  /\ sbrk_ret \in Nat \cup {SbrkError}
  /\ lent \subseteq Int /\ astray \in BOOLEAN

Booted == phase \in {"heap", "allocating", "running", "halted"}

(* Once the range is set, a frame that Allocate may return lies in memory  *)
(* the firmware declared available: although the walk reads only every     *)
(* second descriptor, in no particular address order, and although         *)
(* alloc_map_ starts with whatever was in memory.                          *)
OnlyAvailableAllocatable == Booted => Allocatable \subseteq AvailableFrames

(* The heap lies in available memory, its frames are marked and none of    *)
(* them is frame 0.  The break stays below the heap's end, whatever sbrk's *)
(* callers do; and unless they went astray it stays in the heap, and the   *)
(* bytes they hold are those below it.                                     *)
HeapRun == result.value .. result.value + HeapFrames - 1

HeapInAvailableMemory ==
  phase = "running" =>
    /\ HeapRun \subseteq AvailableFrames \cap alloc_map
    /\ 0 \notin HeapRun
    /\ HeapBase = result.value * BytesPerFrame
    /\ program_break < program_break_end
    /\ ~astray => HeapBase <= program_break /\ lent = HeapBase .. program_break - 1

(* The heap is as low as memory allows: every run below it has a frame     *)
(* that was marked before.  So it leaves the 64 GiB that paging.cpp maps   *)
(* only on a machine where no run inside them would do.                    *)
NoRunBelow ==
  \A s \in 1 .. result.value - 1 :
    Run(s, HeapFrames) \cap (alloc_map \ HeapRun) # {}

HeapLowest == phase = "running" => NoRunBelow

(* Once the heap exists sbrk grants nothing at its end or behind it, and   *)
(* unless its callers went astray it grants bytes of the heap alone, none  *)
(* of them twice.  Before that it grants only what an uncleared break says.*)
HeapBytes == HeapBase .. program_break_end - 1

SbrkGrantsHeap ==
  [][program_break' # program_break /\ phase' = phase =>
       /\ phase # "running" => program_break # 0
       /\ phase = "running" =>
            /\ program_break' < program_break_end
            /\ ~astray' =>
                 /\ lent' \subseteq HeapBytes
                 /\ (program_break .. program_break' - 1) \cap lent = {}]_mainVars

(* The kernel halts for want of a heap only when no run of clear bits of   *)
(* the heap's size is left in the range.                                   *)
HaltsOnlyWithoutRoom ==
  phase = "halted" => \A s \in 1 .. range_end : ~RunClear(s, HeapFrames)

(* The walk and the search leave alloc_map_ only on a machine with memory  *)
(* beyond what the map has bits for.                                       *)
InMapWhenMemoryFits ==
  phase = "outOfMap" => \E k \in DOMAIN mmap : End(mmap[k]) > FrameCount

(* Booting comes to an end.                                                *)
BootEnds == <>(phase \in {"running", "halted", "outOfMap"})
===============================================================================
