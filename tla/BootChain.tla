------------------------------- MODULE BootChain -------------------------------
(***************************************************************************)
(* From power-on to the C heap: the boot loader (Loader) and the kernel    *)
(* that gets its memory map (KernelMemory), over the same pages.  The map  *)
(* is the only thing that tells the kernel where its own image and the     *)
(* files of the loader lie; nothing else keeps it from handing them out.   *)
(*                                                                         *)
(* The map the firmware writes has one descriptor for each run of pages of *)
(* one type, in any order.  Pages of the firmware are boot services        *)
(* memory, runtime services memory or not in the map at all; the loader's  *)
(* are EfiLoaderData.  Frames and pages have the same size.                *)
(***************************************************************************)
EXTENDS Loader, FiniteSets

CONSTANTS
  GarbageMaps,    \* what may lie under alloc_map_ when the kernel starts
  StaleMaps,      \* what a buffer that the firmware never wrote may read as
  NullFrame, MaxRequest, HeapFrames, BytesPerFrame, Addresses, GarbageBreaks, MaxIncr

ASSUME BitmapAssumption == PageCount # 0 /\ GarbageMaps \subseteq SUBSET Page
ASSUME FrameAssumption  == NullFrame \in Nat /\ MaxRequest \in Nat
ASSUME HeapAssumption   ==
  HeapFrames \in 1 .. MaxRequest /\ BytesPerFrame \in Nat \ {0}
ASSUME BreakAssumption  ==
  /\ MaxIncr \in Nat /\ Addresses \in Nat
  /\ PageCount * BytesPerFrame + MaxIncr <= Addresses
  /\ GarbageBreaks \subseteq 0 .. Addresses - 1

VARIABLES
  entered,  \* the kernel has taken over
  handed,   \* the memory map in the loader's buffer, as the kernel reads it
  alloc_map, range_begin, range_end, scan, result, held,
  phase, iter, available_end,
  program_break, program_break_end, sbrk_ret, lent, astray

kernelVars ==
  <<alloc_map, range_begin, range_end, scan, result, held, phase, iter,
    available_end, program_break, program_break_end, sbrk_ret, lent, astray>>
chainVars == <<loaderVars, entered, handed, kernelVars>>

Kernel == INSTANCE KernelMemory WITH
  FrameCount <- PageCount, MemoryMaps <- {<<>>}, mmap <- handed

ASSUME StaleAssumption == StaleMaps \subseteq Seq(Kernel!Descriptor)

ChainInit ==
  /\ LoaderInit
  /\ entered = FALSE
  /\ Kernel!MainInit

-------------------------------------------------------------------------------
(* The types that GetMemoryMap may report for pages of these owners.       *)
Absent == "absent"

PageTypes(owners) ==
  {type \in [Page -> {"kEfiConventionalMemory", "kEfiLoaderData",
                      "kEfiBootServicesData", "kEfiRuntimeServicesData", Absent}] :
     \A p \in Page :
       CASE owners[p] = "free" -> type[p] = "kEfiConventionalMemory"
         [] owners[p] = "loader" -> type[p] = "kEfiLoaderData"
         [] OTHER -> type[p] \notin {"kEfiConventionalMemory", "kEfiLoaderData"}}

RunStarts(type) ==
  {p \in Page : type[p] # Absent /\ (p = 0 \/ type[p] # type[p - 1])}

(* Where the run of pages of one type that starts at page s ends.          *)
RunEnd(type, s) ==
  CHOOSE e \in s + 1 .. PageCount :
    /\ \A p \in s .. e - 1 : type[p] = type[s]
    /\ e = PageCount \/ type[e] # type[s]

(* The sequences that list each of a set of pages once.                    *)
Orders(pages) ==
  {order \in [1 .. Cardinality(pages) -> pages] :
     \A i, j \in DOMAIN order : order[i] = order[j] => i = j}

Descriptors(type, starts) ==
  [k \in DOMAIN starts |->
     [type |-> type[starts[k]], start |-> starts[k],
      pages |-> RunEnd(type, starts[k]) - starts[k]]]

(* The jump to the kernel.  A map that did not fit leaves the buffer as it *)
(* was; the firmware may still have stored the key, with which boot        *)
(* services end, and the size of a descriptor.                             *)
EnterKernel ==
  /\ stage = "kernel" /\ ~entered
  /\ entered' = TRUE
  /\ \/ /\ mmap.taken
        /\ \E type \in PageTypes(mmap.pages) :
             \E starts \in Orders(RunStarts(type)) : handed' = Descriptors(type, starts)
     \/ ~mmap.taken /\ handed' \in StaleMaps
  /\ UNCHANGED <<loaderVars, kernelVars>>

LoaderStep(step) == step /\ UNCHANGED <<entered, handed, kernelVars>>

ChainNext ==
  \/ LoaderStep(LoaderNext)
  \/ EnterKernel
  \/ entered /\ Kernel!MainNext /\ UNCHANGED <<loaderVars, entered>>

ChainSpec == ChainInit /\ [][ChainNext]_chainVars

(* As in Loader, UefiMain goes on whatever callbacks the firmware makes.   *)
ChainFairSpec == ChainSpec /\ WF_chainVars(LoaderStep(UefiMain))

-------------------------------------------------------------------------------
(* Once the kernel manages memory by a map that could be taken, it cannot  *)
(* allocate a page that the loader obtained for the kernel's image,        *)
(* whatever the walk skipped and whatever alloc_map_ held.  A page of the  *)
(* image that it can allocate is one Allocate gave up because of a page    *)
(* that was not free when it asked, or the uncounted last page of a        *)
(* segment that does not start at a page's first byte.                     *)
ImageNeverAllocatable ==
  Kernel!Booted /\ mmap.taken =>
    /\ \A g \in got : g[2] \notin Kernel!Allocatable
    /\ \A k \in 1 .. PhNum :
         table[k].load =>
           \A p \in Touched(table[k].vaddr, table[k].memsz) \cap Kernel!Allocatable :
             BlockedFrom(k, p) \/ p >= CountEnd(table[k])

(* By such a map the C heap lies on no page of the loader - the kernel's   *)
(* image, the font and the picture it still draws from - and on no page    *)
(* that the firmware still owned and kept for itself when boot services    *)
(* ended.                                                                  *)
HeapOnUnusedMemory ==
  phase = "running" /\ mmap.taken =>
    \A p \in Kernel!HeapRun :
      /\ owner[p] # "loader"
      /\ owner[p] = "firmware" =>
           \E k \in DOMAIN handed :
             handed[k].type = "kEfiBootServicesData" /\ p \in Kernel!FramesOf(handed[k])
===============================================================================
