-------------------------- MODULE KernelMemoryProofs --------------------------
(***************************************************************************)
(* Proofs about FrameAllocator and KernelMemory, for every set of memory   *)
(* maps, bitmap size, initial bitmap, request, heap size and frame size.   *)
(*                                                                         *)
(* First the allocator alone: its type, the soundness of the search loop,  *)
(* that no frame is granted twice, and that the loop implements the        *)
(* one-step abstract allocator of FirstFit.  TypeOK is not inductive:      *)
(* RunFound marks the run it found, and that the run lies inside the       *)
(* bitmap follows from ScanInMap (the search has read the bits of its      *)
(* frames).  The search stays inside the bitmap because the managed range  *)
(* does (RangeInMap).                                                      *)
(*                                                                         *)
(* Then the kernel's memory: below available_end, every frame is marked or *)
(* available (MemoryKnown).  A step of the walk can only break this by     *)
(* moving available_end up, to the end of an available descriptor; the     *)
(* frames it passes are then in the gap that is marked, or in the          *)
(* descriptor.  No use is made of the order of the descriptors, or of how  *)
(* many are read.  The search of the heap is the allocator's.              *)
(*                                                                         *)
(* Last, what brings the search and the boot to their end: each step       *)
(* lowers the number of frames the search has ahead (SearchLeft), or of    *)
(* phases and turns (BootNearer).  And no call clears a bit                *)
(* (NothingReleased), since none of FirstFit does and the code implements  *)
(* it.                                                                     *)
(***************************************************************************)
EXTENDS KernelMemory, TLAPS

USE DEF MarkRun, InLoop, AtEnd, NextStart

(* The managed range ends inside the bitmap, or is empty: the constructor  *)
(* makes it [kNullFrame, kNullFrame).                                      *)
RangeInMap == range_end <= FrameCount \/ range_end <= range_begin

(* The frames a search has counted so far have a bit.                      *)
ScanInMap == scan.active => Run(scan.start, scan.i) \subseteq Frame

IInv == TypeOK /\ ScanInMap /\ HeldIsMarked /\ ScanSound

-------------------------------------------------------------------------------
(* The locals of Allocate between two calls.                               *)
LEMMA NoScanTyped == NoScan \in ScanState /\ ~NoScan.active
  BY MaxRequestAssumption DEF NoScan, ScanState

(* The constructor's state satisfies the invariant.                        *)
LEMMA InitIInv == Init => IInv
  BY NullFrameAssumption, GarbageAssumption, FrameCountAssumption, NoScanTyped
  DEF Init, IInv, TypeOK, ScanInMap, HeldIsMarked, ScanSound

(* Marking frames of the bitmap while no search runs preserves it.         *)
LEMMA MarkIInv ==
  ASSUME NEW start \in Nat, NEW n \in Nat, Run(start, n) \subseteq Frame,
         IInv, MarkAllocated(start, n)
  PROVE  IInv'
  BY DEF IInv, TypeOK, ScanInMap, HeldIsMarked, ScanSound, RunClear,
         MarkAllocated, SetBits

(* So does Free, which takes frames out of held and leaves them marked.    *)
LEMMA FreeIInv ==
  ASSUME NEW start \in Nat, NEW n \in Nat, Run(start, n) \subseteq Frame,
         IInv, Free(start, n)
  PROVE  IInv'
  BY DEF IInv, TypeOK, ScanInMap, HeldIsMarked, ScanSound, RunClear,
         Free, SetBits

(* So does a new range.                                                    *)
LEMMA RangeIInv ==
  ASSUME NEW begin \in Nat, NEW end \in Nat,
         IInv, SetMemoryRange(begin, end)
  PROVE  IInv'
  BY DEF IInv, TypeOK, ScanInMap, HeldIsMarked, ScanSound, RunClear,
         SetMemoryRange

(* So does a call of Allocate: nothing has been passed over yet.           *)
LEMMA CallIInv ==
  ASSUME NEW n \in 0 .. MaxRequest, IInv, CallAllocate(n)
  PROVE  IInv'
  <1>1. scan' = [active |-> TRUE, num_frames |-> n,
                 start |-> range_begin, i |-> 0]
    BY DEF CallAllocate
  <1>2. TypeOK'
    BY <1>1, MaxRequestAssumption DEF IInv, TypeOK, ScanState, CallAllocate
  <1>3. ScanSound'
    BY <1>1 DEF IInv, TypeOK, ScanState, CallAllocate, ScanSound, RunClear, Run
  <1>4. ScanInMap'
    BY <1>1 DEF ScanInMap, IInv, TypeOK, Run
  <1>5. QED
    BY <1>2, <1>3, <1>4 DEF IInv, CallAllocate, HeldIsMarked

(* A taken frame at Candidate blocks every start up to Candidate, so the   *)
(* search may jump past it.                                                *)
LEMMA TakenBlocks ==
  ASSUME IInv, FrameTaken, NEW s \in scan.start .. Candidate
  PROVE  ~RunClear(s, scan.num_frames)
  <1>1. Candidate \in Run(s, scan.num_frames)
    BY DEF FrameTaken, IInv, TypeOK, ScanState, Candidate, Run
  <1>2. QED
    BY <1>1 DEF FrameTaken, GetBit, RunClear

(* The count of the inner loop never exceeds the request.                  *)
LEMMA CountTyped ==
  ASSUME TypeOK, InLoop
  PROVE  [scan EXCEPT !.i = scan.i + 1] \in ScanState
  <1>1. scan.i + 1 \in 0 .. MaxRequest
    BY MaxRequestAssumption DEF TypeOK, ScanState
  <1>2. QED
    BY <1>1 DEF TypeOK, ScanState

(* Every iteration of the search that reads a bit of the map preserves it. *)
LEMMA ScanIInv ==
  ASSUME IInv, ScanStep, FrameClear => Candidate \in Frame
  PROVE  IInv'
  <1>1. CASE OutOfRange
    BY <1>1, NullFrameAssumption, NoScanTyped
    DEF OutOfRange, IInv, TypeOK, ScanInMap, HeldIsMarked, ScanSound
  <1>2. CASE FrameTaken
    <2>1. scan' = [scan EXCEPT !.start = Candidate + 1, !.i = 0]
      BY <1>2 DEF FrameTaken
    <2>2. TypeOK'
      <3>1. Candidate + 1 \in Nat /\ 0 \in 0 .. MaxRequest
        BY MaxRequestAssumption DEF IInv, TypeOK, ScanState, Candidate
      <3>2. scan' \in ScanState
        BY <2>1, <3>1 DEF IInv, TypeOK, ScanState
      <3>3. QED
        BY <1>2, <3>2 DEF FrameTaken, IInv, TypeOK, ScanState
    <2>3. /\ scan'.start = Candidate + 1 /\ scan'.i = 0
          /\ scan'.num_frames = scan.num_frames /\ scan'.active
      BY <1>2, <2>1 DEF FrameTaken, IInv, TypeOK, ScanState, Candidate
    <2>4. ASSUME NEW s \in range_begin .. Candidate
          PROVE  ~RunClear(s, scan.num_frames)
      <3>1. CASE s \in scan.start .. Candidate
        BY <3>1, <1>2, TakenBlocks
      <3>2. CASE s \in range_begin .. scan.start - 1
        BY <3>2, <1>2 DEF IInv, ScanSound, FrameTaken
      <3>3. QED
        BY <3>1, <3>2 DEF IInv, TypeOK, ScanState, Candidate
    <2>5. ScanSound'
      BY <1>2, <2>3, <2>4
      DEF FrameTaken, IInv, TypeOK, ScanState, ScanSound, RunClear, Run, Candidate
    <2>6. ScanInMap'
      BY <2>2, <2>3 DEF ScanInMap, TypeOK, ScanState, Run
    <2>7. QED
      BY <1>2, <2>2, <2>5, <2>6 DEF FrameTaken, IInv, HeldIsMarked
  <1>3. CASE FrameClear
    <2>1. scan' = [scan EXCEPT !.i = scan.i + 1]
      BY <1>3 DEF FrameClear
    <2>2. TypeOK'
      BY <1>3, <2>1, CountTyped DEF FrameClear, IInv, TypeOK
    <2>3. /\ scan'.start = scan.start /\ scan'.i = scan.i + 1
          /\ scan'.num_frames = scan.num_frames
      BY <2>1 DEF IInv, TypeOK, ScanState
    <2>4. RunClear(scan.start, scan.i + 1)
      BY <1>3
      DEF FrameClear, GetBit, IInv, TypeOK, ScanState, ScanSound, RunClear, Run,
          Candidate
    <2>5. ScanSound'
      BY <1>3, <2>3, <2>4
      DEF FrameClear, IInv, TypeOK, ScanState, ScanSound, RunClear, Run
    <2>6. ScanInMap'
      <3>1. Run(scan.start, scan.i + 1) = Run(scan.start, scan.i) \cup {Candidate}
        BY DEF IInv, TypeOK, ScanState, Run, Candidate
      <3>2. Run(scan.start, scan.i) \subseteq Frame /\ Candidate \in Frame
        BY <1>3 DEF FrameClear, IInv, ScanInMap
      <3>3. QED
        BY <2>3, <3>1, <3>2 DEF ScanInMap
    <2>7. QED
      BY <1>3, <2>2, <2>5, <2>6 DEF FrameClear, IInv, HeldIsMarked
  <1>4. CASE RunFound
    <2>1. Run(scan.start, scan.num_frames) \subseteq Frame
      BY <1>4 DEF RunFound, IInv, ScanInMap
    <2>2. QED
      BY <1>4, <2>1, NoScanTyped
      DEF RunFound, SetBits, ScanState, IInv, TypeOK, ScanInMap, HeldIsMarked,
          ScanSound
  <1>5. QED
    BY <1>1, <1>2, <1>3, <1>4 DEF ScanStep

LEMMA NextIInv == IInv /\ RangeInMap /\ [Next]_vars => IInv' /\ RangeInMap'
  <1> SUFFICES ASSUME IInv, RangeInMap, [Next]_vars PROVE IInv' /\ RangeInMap'
    OBVIOUS
  <1>1. ASSUME NEW start \in Frame, NEW n \in 0 .. MaxRequest,
               Run(start, n) \subseteq Frame,
               MarkAllocated(start, n) \/ Free(start, n)
        PROVE  IInv' /\ RangeInMap'
    BY <1>1, MarkIInv, FreeIInv, MaxRequestAssumption, FrameCountAssumption
    DEF Frame, MarkAllocated, Free, RangeInMap
  <1>2. ASSUME NEW begin \in 0 .. FrameCount, NEW end \in 0 .. FrameCount,
               SetMemoryRange(begin, end)
        PROVE  IInv' /\ RangeInMap'
    BY <1>2, RangeIInv, FrameCountAssumption DEF SetMemoryRange, RangeInMap
  <1>3. ASSUME NEW n \in 0 .. MaxRequest, CallAllocate(n)
        PROVE  IInv' /\ RangeInMap'
    BY <1>3, CallIInv DEF CallAllocate, RangeInMap
  <1>4. CASE ScanStep
    <2>1. FrameClear => Candidate \in Frame
      <3>1. ASSUME FrameClear
            PROVE  Candidate < FrameCount
        BY <3>1, FrameCountAssumption
        DEF FrameClear, IInv, TypeOK, ScanState, ScanSound, RangeInMap, Candidate
      <3>2. QED
        BY <3>1, FrameCountAssumption DEF Frame, IInv, TypeOK, ScanState, Candidate
    <2>2. IInv'
      BY <1>4, <2>1, ScanIInv
    <2>3. QED
      BY <1>4, <2>2
      DEF ScanStep, OutOfRange, FrameTaken, FrameClear, RunFound, RangeInMap
  <1>5. CASE UNCHANGED vars
    BY <1>5 DEF vars, IInv, TypeOK, ScanInMap, RangeInMap, HeldIsMarked, ScanSound, RunClear
  <1>6. QED
    BY <1>1, <1>2, <1>3, <1>4, <1>5 DEF Next

(* The inductive invariant holds in every behaviour of the manager.        *)
THEOREM InductiveInvariant == Spec => []IInv
  <1>1. Init => IInv /\ RangeInMap
    BY InitIInv, NullFrameAssumption DEF Init, RangeInMap
  <1>2. QED
    BY <1>1, NextIInv, PTL DEF Spec

-------------------------------------------------------------------------------
(* Every variable of the manager keeps its type: in particular no call     *)
(* marks a frame outside alloc_map_.                                       *)
THEOREM TypeCorrect == Spec => []TypeOK
  <1>1. IInv => TypeOK
    BY DEF IInv
  <1>2. QED
    BY <1>1, InductiveInvariant, PTL

(* A frame a caller holds is marked.                                       *)
THEOREM HeldMarked == Spec => []HeldIsMarked
  <1>1. IInv => HeldIsMarked
    BY DEF IInv
  <1>2. QED
    BY <1>1, InductiveInvariant, PTL

(* The search loop of Allocate never passes over a run that would do.      *)
THEOREM SearchSound == Spec => []ScanSound
  <1>1. IInv => ScanSound
    BY DEF IInv
  <1>2. QED
    BY <1>1, InductiveInvariant, PTL

(* Only RunFound returns without an error, with the run at scan.start.     *)
LEMMA GrantIsRunFound ==
  ASSUME IInv, [Next]_vars, Granting
  PROVE  RunFound /\ result'.value = scan.start
  <1>1. scan.active /\ ~scan'.active /\ ~result'.error
    BY DEF Granting
  <1>2. ScanStep
    BY <1>1 DEF Next, vars, MarkAllocated, Free, SetMemoryRange, CallAllocate
  <1>3. ~OutOfRange
    BY <1>1 DEF OutOfRange
  <1>4. ~FrameTaken /\ ~FrameClear
    BY <1>1 DEF FrameTaken, FrameClear, IInv, TypeOK, ScanState
  <1>5. QED
    BY <1>2, <1>3, <1>4 DEF ScanStep, RunFound

(* Allocate never returns a frame that is in a caller's hands.             *)
THEOREM GrantsDisjoint == Spec => NoDoubleGrant
  <1>1. IInv /\ [Next]_vars
          => [Granting => Run(result'.value, scan.num_frames) \cap held = {}]_vars
    <2> SUFFICES ASSUME IInv, [Next]_vars, Granting
                 PROVE  Run(result'.value, scan.num_frames) \cap held = {}
      OBVIOUS
    <2>1. RunFound /\ result'.value = scan.start
      BY GrantIsRunFound
    <2>2. RunClear(scan.start, scan.num_frames)
      BY <2>1 DEF RunFound, IInv, ScanSound
    <2>3. QED
      BY <2>1, <2>2 DEF RunClear, IInv, HeldIsMarked
  <1>2. QED
    BY <1>1, InductiveInvariant, PTL DEF Spec, NoDoubleGrant

-------------------------------------------------------------------------------
(* How far a search is from the end of its range.                          *)
SearchLeft == IF Candidate < range_end THEN range_end - Candidate ELSE 0

SearchNearer == SearchLeft \in Nat /\ SearchLeft' \in Nat /\ SearchLeft' < SearchLeft

(* The next frame is looked at, whether this one is taken or clear.        *)
LEMMA ScanStepNears ==
  ASSUME TypeOK, ScanStep
  PROVE  ~scan'.active \/ SearchNearer
  <1>1. /\ scan \in ScanState /\ range_end \in Nat /\ Candidate = scan.start + scan.i
        /\ scan.start \in Nat /\ scan.i \in Nat /\ Candidate \in Nat
    BY MaxRequestAssumption DEF TypeOK, ScanState, Candidate
  <1>2. CASE OutOfRange \/ RunFound
    BY <1>2, NoScanTyped DEF OutOfRange, RunFound
  <1>3. CASE FrameTaken
    <2>1. scan'.start = Candidate + 1 /\ scan'.i = 0 /\ range_end' = range_end
      BY <1>1, <1>3 DEF FrameTaken, ScanState
    <2>2. Candidate' = Candidate + 1 /\ Candidate < range_end
      BY <1>1, <1>3, <2>1 DEF FrameTaken, Candidate
    <2>3. QED
      BY <1>1, <2>1, <2>2 DEF SearchNearer, SearchLeft
  <1>4. CASE FrameClear
    <2>1. scan'.start = scan.start /\ scan'.i = scan.i + 1 /\ range_end' = range_end
      BY <1>1, <1>4 DEF FrameClear, ScanState
    <2>2. Candidate' = Candidate + 1 /\ Candidate < range_end
      BY <1>1, <1>4, <2>1 DEF FrameClear, Candidate
    <2>3. QED
      BY <1>1, <2>1, <2>2 DEF SearchNearer, SearchLeft
  <1>5. QED
    BY <1>2, <1>3, <1>4 DEF ScanStep

(* While a search is on, every step is one of its turns, and ends it or    *)
(* leaves fewer frames to look at: however the frames ahead are marked,    *)
(* the jump over a taken one never goes back.                              *)
SearchNears == [][scan.active => ~scan'.active \/ SearchNearer]_vars

(* The loop of Allocate comes to its end: it has no step that does not     *)
(* bring it nearer, for every range and every content of alloc_map_.       *)
THEOREM SearchNearsEnd == Spec => SearchNears
  <1>1. IInv /\ [Next]_vars => [scan.active => ~scan'.active \/ SearchNearer]_vars
    <2> SUFFICES ASSUME IInv, Next, scan.active PROVE ~scan'.active \/ SearchNearer
      BY DEF vars
    <2>1. ScanStep
      BY DEF Next, MarkAllocated, Free, SetMemoryRange, CallAllocate
    <2>2. QED
      BY <2>1, ScanStepNears DEF IInv
  <1>2. QED
    BY <1>1, InductiveInvariant, PTL DEF Spec, SearchNears

-------------------------------------------------------------------------------
(* The refinement of FirstFit.                                             *)
LEMMA RunsAgree ==
  ASSUME IInv, NEW s \in Nat, NEW n \in Nat
  PROVE  Abstract!FreeRun(s, n) <=> range_begin <= s /\ RunClear(s, n)
  BY DEF Abstract!FreeRun, RunClear, Run

LEMMA GrantRefines ==
  ASSUME IInv, RunFound
  PROVE  Abstract!Grant(scan.num_frames)
  <1> DEFINE n == scan.num_frames
             s == scan.start
  <1>1. s \in Nat /\ n \in Nat /\ range_begin \in Nat /\ range_end \in Nat
    BY DEF IInv, TypeOK, ScanState
  <1>2. Abstract!FreeRun(s, n)
    BY <1>1, RunsAgree DEF RunFound, IInv, ScanSound
  <1>3. \A t \in range_begin .. s - 1 : ~Abstract!FreeRun(t, n)
    BY <1>1, RunsAgree DEF RunFound, IInv, ScanSound
  <1>4. s \in Abstract!Starts
    BY <1>1 DEF RunFound, IInv, ScanSound, RunClear, Run, Abstract!Starts
  <1>5. QED
    BY <1>2, <1>3, <1>4 DEF RunFound, SetBits, Run, Abstract!Grant

(* When the search runs off the range, no later start would do either.     *)
LEMMA RefuseRefines ==
  ASSUME IInv, OutOfRange
  PROVE  Abstract!Refuse(scan.num_frames)
  <1> DEFINE n == scan.num_frames
  <1>1. /\ scan.start \in Nat /\ scan.i \in Nat /\ n \in Nat
        /\ range_begin \in Nat /\ range_end \in Nat
    BY DEF IInv, TypeOK, ScanState
  <1>2. ASSUME NEW s \in Abstract!Starts
        PROVE  ~Abstract!FreeRun(s, n)
    <2>1. s \in Nat /\ s >= range_begin
      BY <1>1 DEF Abstract!Starts
    <2>2. CASE s < scan.start
      BY <1>1, <2>1, <2>2, RunsAgree DEF OutOfRange, IInv, ScanSound
    <2>3. CASE s >= scan.start
      <3>1. s + scan.i \in Run(s, n) /\ ~(s + scan.i < range_end)
        BY <1>1, <2>1, <2>3 DEF OutOfRange, Candidate, Run
      <3>2. QED
        BY <1>1, <2>1, <3>1, RunsAgree DEF RunClear
    <2>4. QED
      BY <1>1, <2>1, <2>2, <2>3
  <1>3. QED
    BY <1>2 DEF OutOfRange, Abstract!Refuse

LEMMA StepRefines ==
  IInv /\ [Next]_vars => [Abstract!Next]_<<alloc_map, range_begin, range_end, result>>
  <1> SUFFICES ASSUME IInv, [Next]_vars
               PROVE  [Abstract!Next]_<<alloc_map, range_begin, range_end, result>>
    OBVIOUS
  <1> USE DEF Abstract!Next
  <1>1. ASSUME NEW start \in Frame, NEW n \in 0 .. MaxRequest,
               Run(start, n) \subseteq Frame,
               MarkAllocated(start, n) \/ Free(start, n)
        PROVE  Abstract!Reserve
    BY <1>1 DEF MarkAllocated, Free, SetBits, Abstract!Reserve, Frame,
                Abstract!FFrame
  <1>2. ASSUME NEW begin \in 0 .. FrameCount, NEW end \in 0 .. FrameCount,
               SetMemoryRange(begin, end)
        PROVE  Abstract!SetRange
    BY <1>2 DEF SetMemoryRange, Abstract!SetRange
  <1>3. ASSUME NEW n \in 0 .. MaxRequest, CallAllocate(n)
        PROVE  UNCHANGED <<alloc_map, range_begin, range_end, result>>
    BY <1>3 DEF CallAllocate
  <1>4. CASE ScanStep
    <2>1. scan.num_frames \in 0 .. MaxRequest
      BY DEF IInv, TypeOK, ScanState
    <2>2. CASE OutOfRange
      BY <2>1, <2>2, RefuseRefines
    <2>3. CASE RunFound
      BY <2>1, <2>3, GrantRefines
    <2>4. CASE FrameTaken \/ FrameClear
      BY <2>4 DEF FrameTaken, FrameClear
    <2>5. QED
      BY <1>4, <2>2, <2>3, <2>4 DEF ScanStep
  <1>5. CASE UNCHANGED vars
    BY <1>5 DEF vars
  <1>6. QED
    BY <1>1, <1>2, <1>3, <1>4, <1>5 DEF Next

(* The loop of Allocate implements the one-step first-fit allocator: every *)
(* granted run is the lowest that fits, and a request is refused only when *)
(* no run fits.                                                            *)
THEOREM RefinesFirstFit == Spec => ImplementsFirstFit
  <1>1. Init => Abstract!Init
    BY GarbageAssumption DEF Init, Abstract!Init, Frame, Abstract!FFrame
  <1>2. IInv /\ [Next]_vars
          => [Abstract!Next]_<<alloc_map, range_begin, range_end, result>>
    BY StepRefines
  <1>3. QED
    BY <1>1, <1>2, InductiveInvariant, PTL
    DEF Spec, ImplementsFirstFit, Abstract!Spec, Abstract!vars

(* Of the abstract allocator: what is used stays used.                     *)
LEMMA FirstFitKeeps ==
  Abstract!Spec => [][alloc_map \subseteq alloc_map']_<<alloc_map, range_begin, range_end, result>>
  <1>1. [Abstract!Next]_<<alloc_map, range_begin, range_end, result>>
          => [alloc_map \subseteq alloc_map']_<<alloc_map, range_begin, range_end, result>>
    BY DEF Abstract!Next, Abstract!Reserve, Abstract!SetRange, Abstract!Grant, Abstract!Refuse
  <1>2. QED
    BY <1>1, PTL DEF Abstract!Spec, Abstract!vars

(* Hence of the code, by the refinement: no call ever clears a bit.  A     *)
(* frame that was granted is not granted again, not even after a Free.     *)
NothingReleased == [][alloc_map \subseteq alloc_map']_alloc_map

(* Free included, the calls of the frame manager leave every bit that is   *)
(* set.                                                                    *)
THEOREM MarksStay == Spec => NothingReleased
  <1>1. [alloc_map \subseteq alloc_map']_<<alloc_map, range_begin, range_end, result>>
          => [alloc_map \subseteq alloc_map']_alloc_map
    OBVIOUS
  <1>2. QED
    BY <1>1, FirstFitKeeps, RefinesFirstFit, PTL DEF ImplementsFirstFit, NothingReleased

-------------------------------------------------------------------------------
(* The kernel's memory.                                                    *)
USE DEF FirstFrame

MemoryKnown == \A f \in 0 .. available_end - 1 : f \in alloc_map \cup AvailableFrames

AvailableEndKnown ==
  available_end = 0 \/ \E k \in DOMAIN mmap : End(mmap[k]) = available_end

RangeSet == Booted => range_begin = 1 /\ range_end = available_end

SearchesForHeap ==
  scan.active => phase = "allocating" /\ scan.num_frames = HeapFrames

HeapFound ==
  (phase = "allocating" /\ ~scan.active /\ ~result.error) \/ phase = "running" =>
    HeapRun \subseteq AvailableFrames \cap alloc_map /\ 0 \notin HeapRun /\ NoRunBelow

NoHeapFits ==
  (phase = "allocating" /\ ~scan.active /\ result.error) \/ phase = "halted" =>
    \A s \in 1 .. range_end : ~RunClear(s, HeapFrames)

BreakInHeap ==
  IF phase = "running"
  THEN /\ HeapBase = result.value * BytesPerFrame
       /\ program_break_end <= FrameCount * BytesPerFrame
       /\ program_break < program_break_end
       /\ ~astray => HeapBase <= program_break /\ lent = HeapBase .. program_break - 1
  ELSE lent = {}

(* The part that holds as long as the kernel has stayed inside alloc_map_. *)
InMap ==
  /\ IInv
  /\ MemoryKnown
  /\ RangeSet
  /\ SearchesForHeap
  /\ HeapFound
  /\ NoHeapFits

MainIInv ==
  /\ MainTypeOK
  /\ AvailableEndKnown
  /\ BreakInHeap
  /\ InMapWhenMemoryFits
  /\ phase # "outOfMap" => InMap

-------------------------------------------------------------------------------
LEMMA HeapSize == HeapFrames * BytesPerFrame \in Nat \ {0}
  <1>1. HeapFrames \in Nat \ {0} /\ BytesPerFrame \in Nat \ {0}
    BY HeapFramesAssumption, BytesPerFrameAssumption, MaxRequestAssumption
  <1>2. QED
    BY <1>1

(* Addresses are numbers, and the frames' are among them.                  *)
LEMMA AddressFacts ==
  /\ FrameCount * BytesPerFrame \in Nat \ {0} /\ Addresses \in Nat \ {0} /\ MaxIncr \in Nat
  /\ FrameCount * BytesPerFrame + MaxIncr <= Addresses
  <1>1. FrameCount * BytesPerFrame \in Nat \ {0}
    <2>1. FrameCount \in Nat \ {0} /\ BytesPerFrame \in Nat \ {0}
      BY FrameCountAssumption, BytesPerFrameAssumption
    <2>2. QED
      BY <2>1
  <1>2. QED
    BY <1>1, MaxIncrAssumption

LEMMA DescriptorTyped ==
  ASSUME MainTypeOK, NEW k \in DOMAIN mmap
  PROVE  /\ mmap[k].start \in Nat /\ mmap[k].pages \in Nat
         /\ End(mmap[k]) \in Nat /\ mmap[k].start <= End(mmap[k])
  <1>1. mmap[k] \in Descriptor
    BY DEF MainTypeOK
  <1>2. QED
    BY <1>1 DEF Descriptor, End

(* The frames of an available descriptor are available.                    *)
LEMMA AvailableMember ==
  ASSUME NEW k \in DOMAIN mmap, IsAvailable(mmap[k].type),
         NEW f \in FramesOf(mmap[k])
  PROVE  f \in AvailableFrames
  BY DEF AvailableFrames

(* KernelMain at its start, with any memory map.                           *)
Started ==
  /\ Init
  /\ phase = "walk"
  /\ mmap \in Seq(Descriptor)
  /\ iter = 1
  /\ available_end = 0
  /\ program_break \in Nat /\ program_break_end \in Nat
  /\ sbrk_ret = 0
  /\ lent = {} /\ astray = FALSE

LEMMA StartedIInv == Started => MainIInv
  <1> SUFFICES ASSUME Started PROVE MainIInv
    OBVIOUS
  <1>1. IInv
    BY InitIInv DEF Started
  <1>2. MainTypeOK
    <2>1. lent \subseteq Int /\ astray \in BOOLEAN
      BY DEF Started
    <2>2. TypeOK /\ sbrk_ret \in Nat \cup {SbrkError}
      BY <1>1 DEF Started, IInv
    <2>3. QED
      BY <2>1, <2>2 DEF Started, MainTypeOK
  <1>3. ~scan.active
    BY NoScanTyped DEF Started, Init
  <1>4. QED
    BY <1>1, <1>2, <1>3
    DEF Started, MainIInv, AvailableEndKnown, BreakInHeap, InMapWhenMemoryFits,
        InMap, MemoryKnown, RangeSet, Booted, SearchesForHeap, HeapFound, NoHeapFits

LEMMA MainInitIInv == MainInit => MainIInv
  <1>1. GarbageBreaks \subseteq Nat
    BY GarbageBreaksAssumption, AddressFacts
  <1>2. QED
    BY <1>1, StartedIInv, MemoryMapsAssumption DEF MainInit, Started

-------------------------------------------------------------------------------
(* A turn of the walk keeps every frame below available_end known.         *)
LEMMA WalkKnown ==
  ASSUME MainTypeOK, MemoryKnown, WalkDescriptor, phase' = "walk"
  PROVE  MemoryKnown'
  <1> DEFINE d == mmap[iter]
  <1>1. /\ iter \in DOMAIN mmap
        /\ d.start \in Nat /\ End(d) \in Nat /\ available_end \in Nat
    BY DescriptorTyped DEF WalkDescriptor, MainTypeOK
  <1>2. /\ Gap(d) \subseteq alloc_map'
        /\ alloc_map \subseteq alloc_map'
        /\ available_end' = IF IsAvailable(d.type) THEN End(d) ELSE available_end
        /\ mmap' = mmap
    BY DEF WalkDescriptor, SetBits
  <1>3. AvailableFrames' = AvailableFrames
    BY <1>2 DEF AvailableFrames
  <1>4. ASSUME NEW f \in 0 .. available_end' - 1
        PROVE  f \in alloc_map' \cup AvailableFrames
    <2>1. CASE f < available_end
      BY <1>1, <1>2, <2>1 DEF MemoryKnown
    <2>2. CASE f >= available_end
      <3>1. IsAvailable(d.type) /\ f < End(d)
        BY <1>1, <1>2, <2>2
      <3>2. CASE f < d.start
        BY <1>1, <1>2, <2>2, <3>2 DEF Gap
      <3>3. CASE f >= d.start
        <4>1. f \in FramesOf(d)
          BY <1>1, <3>1, <3>3 DEF FramesOf
        <4>2. QED
          BY <1>1, <3>1, <4>1, AvailableMember
      <3>4. QED
        BY <1>1, <3>2, <3>3
    <2>3. QED
      BY <1>1, <1>2, <2>1, <2>2
  <1>5. QED
    BY <1>3, <1>4 DEF MemoryKnown

LEMMA WalkIInv ==
  ASSUME MainIInv, WalkDescriptor
  PROVE  MainIInv'
  <1> DEFINE d == mmap[iter]
             marked == Gap(d) \cup Own(d)
  <1>1. MainTypeOK /\ InMap /\ IInv /\ TypeOK
    BY DEF MainIInv, WalkDescriptor, InMap, IInv
  <1>2. /\ iter \in DOMAIN mmap
        /\ d.start \in Nat /\ End(d) \in Nat /\ available_end \in Nat
        /\ d.start <= End(d)
    BY <1>1, DescriptorTyped DEF WalkDescriptor, MainTypeOK
  <1>3. /\ alloc_map' = alloc_map \cup (marked \cap Frame)
        /\ available_end' = IF IsAvailable(d.type) THEN End(d) ELSE available_end
        /\ phase' = IF marked \subseteq Frame THEN "walk" ELSE "outOfMap"
        /\ phase = "walk" /\ iter' = iter + 2 /\ mmap' = mmap
        /\ UNCHANGED <<range_begin, range_end, scan, result, held,
                       program_break, program_break_end, sbrk_ret, lent, astray>>
    BY DEF WalkDescriptor, SetBits, heapVars
  <1>4. ~scan.active
    BY <1>1, <1>3 DEF InMap, SearchesForHeap
  <1>5. IInv'
    BY <1>1, <1>3, <1>4 DEF IInv, TypeOK, ScanInMap, HeldIsMarked, ScanSound
  <1>6. MainTypeOK'
    BY <1>1, <1>2, <1>3, <1>5 DEF MainTypeOK, IInv
  <1>7. AvailableEndKnown'
    BY <1>2, <1>3 DEF MainIInv, AvailableEndKnown
  <1>8. BreakInHeap'
    BY <1>3 DEF MainIInv, BreakInHeap
  <1>9. InMapWhenMemoryFits'
    <2>1. ASSUME ~(marked \subseteq Frame)
          PROVE  End(d) > FrameCount
      BY <1>2, <2>1, FrameCountAssumption DEF Gap, Own, Frame
    <2>2. QED
      BY <1>2, <1>3, <2>1 DEF InMapWhenMemoryFits
  <1>10. ASSUME phase' # "outOfMap"
         PROVE  InMap'
    <2>1. MemoryKnown'
      BY <1>1, <1>3, <1>10, WalkKnown DEF InMap
    <2>2. QED
      BY <1>3, <1>4, <1>5, <1>10, <2>1
      DEF InMap, RangeSet, Booted, SearchesForHeap, HeapFound, NoHeapFits
  <1>11. QED
    BY <1>6, <1>7, <1>8, <1>9, <1>10 DEF MainIInv

LEMMA FinishIInv ==
  ASSUME MainIInv, FinishWalk
  PROVE  MainIInv'
  <1>1. MainTypeOK /\ InMap /\ IInv /\ TypeOK
    BY DEF MainIInv, FinishWalk, InMap, IInv
  <1>2. /\ SetMemoryRange(1, available_end)
        /\ phase = "walk" /\ phase' = "heap"
        /\ UNCHANGED <<walkVars, heapVars>>
    BY DEF FinishWalk
  <1>3. /\ range_begin' = 1 /\ range_end' = available_end /\ ~scan.active
        /\ UNCHANGED <<alloc_map, scan, result, held>>
    BY <1>2 DEF SetMemoryRange
  <1>4. available_end \in Nat /\ FrameCount \in Nat
    BY <1>1, FrameCountAssumption DEF MainTypeOK
  <1>5. MainTypeOK'
    BY <1>1, <1>2, <1>3, <1>4 DEF MainTypeOK, TypeOK, walkVars, heapVars
  <1>6. AvailableEndKnown' /\ BreakInHeap'
    BY <1>2 DEF MainIInv, AvailableEndKnown, BreakInHeap, walkVars, heapVars
  <1>7. InMapWhenMemoryFits'
    BY <1>2 DEF InMapWhenMemoryFits
  <1>8. InMap'
    <2>1. IInv'
      BY <1>1, <1>2, <1>4, RangeIInv
    <2>2. MemoryKnown'
      BY <1>1, <1>2, <1>3 DEF InMap, MemoryKnown, AvailableFrames, walkVars
    <2>3. QED
      BY <1>2, <1>3, <2>1, <2>2
      DEF InMap, RangeSet, Booted, SearchesForHeap, HeapFound, NoHeapFits, walkVars
  <1>9. QED
    BY <1>5, <1>6, <1>7, <1>8 DEF MainIInv

-------------------------------------------------------------------------------
LEMMA RequestIInv ==
  ASSUME MainIInv, RequestHeap
  PROVE  MainIInv'
  <1>1. /\ MainTypeOK /\ InMap /\ IInv /\ phase = "heap" /\ phase' = "allocating"
        /\ CallAllocate(HeapFrames)
        /\ UNCHANGED <<walkVars, heapVars>>
    BY DEF MainIInv, RequestHeap, InMap
  <1>2. IInv'
    BY <1>1, CallIInv, HeapFramesAssumption
  <1>3. /\ scan'.active /\ scan'.num_frames = HeapFrames
        /\ UNCHANGED <<alloc_map, range_begin, range_end, result>>
    BY <1>1 DEF CallAllocate
  <1>4. MainTypeOK'
    BY <1>1, <1>2 DEF MainTypeOK, IInv, walkVars, heapVars
  <1>5. InMap'
    BY <1>1, <1>2, <1>3
    DEF InMap, MemoryKnown, AvailableFrames, RangeSet, Booted, SearchesForHeap,
        HeapFound, NoHeapFits, walkVars
  <1>6. QED
    BY <1>1, <1>4, <1>5
    DEF MainIInv, AvailableEndKnown, BreakInHeap, InMapWhenMemoryFits, walkVars,
        heapVars

(* A run the search accepts lies below available_end and was clear, so it  *)
(* is available memory.                                                    *)
LEMMA ClearRunAvailable ==
  ASSUME MainTypeOK, InMap, Booted, NEW s \in Nat, s >= range_begin,
         RunClear(s, HeapFrames)
  PROVE  Run(s, HeapFrames) \subseteq AvailableFrames /\ 0 \notin Run(s, HeapFrames)
  <1>1. ASSUME NEW f \in Run(s, HeapFrames)
        PROVE  f \in AvailableFrames /\ f # 0
    <2>1. f \in Nat /\ f >= 1 /\ f < available_end /\ f \notin alloc_map
      BY <1>1 DEF InMap, RangeSet, RunClear, Run
    <2>2. available_end \in Nat
      BY DEF MainTypeOK
    <2>3. QED
      BY <2>1, <2>2 DEF InMap, MemoryKnown
  <1>2. QED
    BY <1>1

(* The search reads beyond the map only when the range is longer than it,  *)
(* that is, when an available descriptor ends beyond it.                   *)
LEMMA SearchLeavesMap ==
  ASSUME MainIInv, SearchHeap, ReadsBit, Candidate \notin Frame
  PROVE  MainIInv'
  <1>1. /\ MainTypeOK /\ InMap /\ IInv /\ TypeOK /\ AvailableEndKnown
        /\ phase = "allocating" /\ phase' = "outOfMap" /\ Booted /\ ScanStep
        /\ UNCHANGED <<walkVars, heapVars>>
    BY DEF MainIInv, SearchHeap, InMap, IInv, Booted
  <1>2. /\ Candidate \in Nat /\ range_end \in Nat /\ available_end \in Nat
        /\ FrameCount \in Nat /\ range_end = available_end
        /\ scan.i \in Nat /\ scan.num_frames \in Nat
    BY <1>1, FrameCountAssumption
    DEF MainTypeOK, TypeOK, ScanState, Candidate, InMap, RangeSet
  <1>3. Candidate \notin alloc_map
    BY <1>1 DEF TypeOK
  <1>4. FrameClear
    BY <1>1, <1>2, <1>3
    DEF ScanStep, OutOfRange, FrameTaken, RunFound, ReadsBit, GetBit
  <1>5. MainTypeOK'
    BY <1>1, <1>4, CountTyped
    DEF FrameClear, MainTypeOK, TypeOK, walkVars, heapVars
  <1>6. AvailableEndKnown' /\ BreakInHeap'
    BY <1>1 DEF MainIInv, AvailableEndKnown, BreakInHeap, walkVars, heapVars
  <1>7. InMapWhenMemoryFits'
    <2>1. available_end > FrameCount
      BY <1>2 DEF ReadsBit, Frame
    <2>2. \E k \in DOMAIN mmap : End(mmap[k]) > FrameCount
      BY <1>1, <1>2, <2>1 DEF AvailableEndKnown
    <2>3. QED
      BY <1>1, <2>2 DEF InMapWhenMemoryFits, walkVars
  <1>8. QED
    BY <1>1, <1>5, <1>6, <1>7 DEF MainIInv

LEMMA SearchIInv ==
  ASSUME MainIInv, SearchHeap, ReadsBit => Candidate \in Frame
  PROVE  MainIInv'
  <1>1. /\ MainTypeOK /\ InMap /\ IInv /\ TypeOK /\ ScanSound
        /\ phase = "allocating" /\ phase' = "allocating" /\ Booted /\ ScanStep
        /\ UNCHANGED <<walkVars, heapVars>>
    BY DEF MainIInv, SearchHeap, InMap, IInv, Booted
  <1>2. IInv'
    BY <1>1, ScanIInv DEF FrameClear, ReadsBit
  <1>3. /\ UNCHANGED <<range_begin, range_end>> /\ alloc_map \subseteq alloc_map'
        /\ UNCHANGED mmap /\ UNCHANGED available_end
    BY <1>1 DEF ScanStep, OutOfRange, FrameTaken, FrameClear, RunFound, SetBits,
                walkVars
  <1>4. AvailableFrames' = AvailableFrames
    BY <1>3 DEF AvailableFrames
  <1>5. MemoryKnown' /\ RangeSet'
    BY <1>1, <1>3, <1>4 DEF InMap, MemoryKnown, RangeSet, Booted
  <1>6. scan.active /\ scan.num_frames = HeapFrames
    BY <1>1 DEF ScanStep, OutOfRange, FrameTaken, FrameClear, RunFound, InMap,
                SearchesForHeap
  <1>7. SearchesForHeap'
    BY <1>1, <1>6, NoScanTyped
    DEF ScanStep, OutOfRange, FrameTaken, FrameClear, RunFound, SearchesForHeap,
        TypeOK, ScanState
  <1>8. HeapFound' /\ NoHeapFits'
    <2>1. CASE RunFound
      <3>1. /\ scan.start \in Nat /\ scan.start >= range_begin
            /\ RunClear(scan.start, HeapFrames)
        BY <1>1, <1>6, <2>1 DEF RunFound, ScanSound, TypeOK, ScanState
      <3>2. /\ Run(scan.start, HeapFrames) \subseteq AvailableFrames
            /\ 0 \notin Run(scan.start, HeapFrames)
        BY <1>1, <3>1, ClearRunAvailable
      <3>3. /\ HeapRun' = Run(scan.start, HeapFrames) /\ ~result'.error
            /\ Run(scan.start, HeapFrames) \subseteq alloc_map'
        BY <1>6, <2>1 DEF RunFound, SetBits, HeapRun, Run
      <3>4. ASSUME NEW s \in 1 .. scan.start - 1
            PROVE  Run(s, HeapFrames) \cap (alloc_map' \ HeapRun') # {}
        <4>1. /\ s \in Nat /\ range_begin = 1 /\ range_end \in Nat
              /\ HeapFrames \in Nat \ {0}
          BY <1>1, <3>1, HeapFramesAssumption, MaxRequestAssumption
          DEF InMap, RangeSet, TypeOK
        <4>2. PICK f \in Run(s, HeapFrames) : ~(f < range_end /\ f \notin alloc_map)
          BY <1>1, <1>6, <4>1 DEF ScanSound, RunClear
        <4>3. /\ scan.start \in Run(scan.start, HeapFrames) /\ scan.start < range_end
          BY <3>1, <4>1 DEF RunClear, Run
        <4>4. f < range_end
          <5>1. CASE f <= scan.start
            BY <4>1, <4>2, <4>3, <5>1, <3>1 DEF Run
          <5>2. CASE f > scan.start
            BY <4>1, <4>2, <5>2, <3>1 DEF Run, RunClear
          <5>3. QED
            BY <4>1, <5>1, <5>2, <3>1 DEF Run
        <4>5. f \in alloc_map /\ f \notin Run(scan.start, HeapFrames)
          BY <3>1, <4>2, <4>4 DEF RunClear
        <4>6. QED
          BY <1>3, <3>3, <4>2, <4>5
      <3>5. NoRunBelow'
        BY <2>1, <3>4 DEF NoRunBelow, RunFound
      <3>6. QED
        BY <1>1, <1>4, <3>2, <3>3, <3>5 DEF HeapFound, NoHeapFits
    <2>2. CASE OutOfRange
      <3>1. \A s \in Abstract!Starts : ~Abstract!FreeRun(s, HeapFrames)
        BY <1>1, <1>6, <2>2, RefuseRefines DEF Abstract!Refuse
      <3>2. ASSUME NEW s \in 1 .. range_end
            PROVE  ~RunClear(s, HeapFrames)
        <4>1. s \in Nat /\ range_begin = 1 /\ s \in Abstract!Starts
          BY <1>1 DEF InMap, RangeSet, Abstract!Starts
        <4>2. QED
          BY <1>1, <3>1, <4>1, RunsAgree, HeapFramesAssumption, MaxRequestAssumption
      <3>3. UNCHANGED <<alloc_map, range_end>> /\ result'.error
        BY <2>2 DEF OutOfRange
      <3>4. QED
        BY <1>1, <3>2, <3>3 DEF HeapFound, NoHeapFits, RunClear
    <2>3. CASE FrameTaken \/ FrameClear
      <3>1. scan'.active
        BY <1>1, <2>3 DEF FrameTaken, FrameClear, TypeOK, ScanState
      <3>2. QED
        BY <1>1, <3>1 DEF HeapFound, NoHeapFits
    <2>4. QED
      BY <1>1, <2>1, <2>2, <2>3 DEF ScanStep
  <1>9. MainTypeOK'
    BY <1>1, <1>2 DEF MainTypeOK, IInv, walkVars, heapVars
  <1>10. QED
    BY <1>1, <1>2, <1>5, <1>7, <1>8, <1>9
    DEF MainIInv, InMap, AvailableEndKnown, BreakInHeap, InMapWhenMemoryFits,
        walkVars, heapVars

LEMMA HeapEndIInv ==
  ASSUME MainIInv, HeapReady \/ HeapFailed
  PROVE  MainIInv'
  <1> USE DEF MainIInv, MainTypeOK, InMap, walkVars, heapVars, vars
  <1>1. /\ MainTypeOK /\ InMap /\ IInv /\ TypeOK /\ UNCHANGED <<vars, walkVars>>
        /\ phase = "allocating" /\ ~scan.active
    BY DEF HeapReady, HeapFailed, IInv
  <1>2. TypeOK' /\ IInv'
    BY <1>1 DEF TypeOK, IInv, ScanInMap, HeldIsMarked, ScanSound, RunClear
  <1>3. MemoryKnown' /\ AvailableEndKnown' /\ RangeSet' /\ SearchesForHeap'
    BY <1>1 DEF MemoryKnown, AvailableFrames, AvailableEndKnown, RangeSet, Booted,
                SearchesForHeap, HeapReady, HeapFailed
  <1>4. HeapFound' /\ NoHeapFits' /\ InMapWhenMemoryFits'
    BY <1>1 DEF HeapReady, HeapFailed, HeapFound, HeapRun, NoRunBelow, AvailableFrames,
                NoHeapFits, RunClear, InMapWhenMemoryFits
  <1>5. CASE HeapReady
    <2> DEFINE base == result.value * BytesPerFrame
               size == HeapFrames * BytesPerFrame
    <2>1. base \in Nat /\ size \in Nat \ {0}
      BY <1>1, HeapSize, BytesPerFrameAssumption DEF TypeOK
    <2>2. /\ program_break' = base /\ program_break_end' = base + size
          /\ phase' = "running" /\ result' = result /\ sbrk_ret' = sbrk_ret
          /\ lent' = lent /\ astray' = astray
      BY <1>5 DEF HeapReady
    <2>3. HeapBase' = base
      BY <2>1, <2>2 DEF HeapBase
    <2>a. base + size <= FrameCount * BytesPerFrame
      <3>1. result.value \in Nat /\ HeapFrames \in Nat \ {0} /\ ~result.error
        BY <1>1, <1>5, HeapFramesAssumption, MaxRequestAssumption DEF TypeOK, HeapReady
      <3>2. HeapRun \subseteq Frame
        BY <1>1, <3>1 DEF HeapFound, TypeOK
      <3>3. result.value + HeapFrames - 1 \in HeapRun
        BY <3>1 DEF HeapRun
      <3>4. result.value + HeapFrames <= FrameCount
        BY <3>1, <3>2, <3>3, FrameCountAssumption DEF Frame
      <3>5. \A m, n \in Nat : m <= n => m * BytesPerFrame <= n * BytesPerFrame
        BY BytesPerFrameAssumption
      <3>6. (result.value + HeapFrames) * BytesPerFrame <= FrameCount * BytesPerFrame
        BY <3>1, <3>4, <3>5, FrameCountAssumption
      <3>7. (result.value + HeapFrames) * BytesPerFrame = base + size
        BY <3>1, BytesPerFrameAssumption
      <3>8. QED
        BY <3>6, <3>7
    <2>b. lent' = {} /\ base .. base - 1 = {}
      BY <1>1, <2>1, <2>2 DEF BreakInHeap
    <2>4. BreakInHeap'
      BY <2>1, <2>2, <2>3, <2>a, <2>b DEF BreakInHeap
    <2>5. MainTypeOK'
      BY <1>1, <1>2, <2>1, <2>2
    <2>6. QED
      BY <1>2, <1>3, <1>4, <2>4, <2>5
  <1>6. CASE HeapFailed
    <2>1. BreakInHeap' /\ MainTypeOK'
      BY <1>1, <1>2, <1>6 DEF HeapFailed, BreakInHeap
    <2>2. QED
      BY <1>2, <1>3, <1>4, <2>1
  <1>7. QED
    BY <1>5, <1>6

(* Once the heap exists, a grant moves the break by incr and stays below   *)
(* the heap's end: no increment is large enough to come there around the   *)
(* addresses' wrap.                                                        *)
LEMMA GrantFacts ==
  ASSUME MainTypeOK, BreakInHeap, phase = "running",
         NEW incr \in -MaxIncr .. MaxIncr, Grant(incr)
  PROVE  /\ program_break + incr \in Nat
         /\ program_break' = program_break + incr
         /\ program_break' < program_break_end
  <1>1. /\ program_break \in Nat /\ program_break_end \in Nat /\ incr \in Int
        /\ MaxIncr \in Nat /\ Addresses \in Nat \ {0} /\ -MaxIncr <= incr /\ incr <= MaxIncr
        /\ program_break < program_break_end /\ program_break_end + MaxIncr <= Addresses
    BY AddressFacts DEF MainTypeOK, BreakInHeap
  <1>2. /\ (program_break + incr) % Addresses < program_break_end
        /\ program_break' = (program_break + incr) % Addresses
        /\ (program_break + incr) % Addresses \in 0 .. Addresses - 1
    BY <1>1 DEF Grant, NoRoom
  <1>3. CASE program_break + incr >= 0
    <2>1. (program_break + incr) % Addresses = program_break + incr
      BY <1>1, <1>3
    <2>2. QED
      BY <1>1, <1>2, <1>3, <2>1
  <1>4. CASE program_break + incr < 0
    <2>1. (program_break + incr) % Addresses = program_break + incr + Addresses
      BY <1>1, <1>4
    <2>2. QED
      BY <1>1, <1>2, <2>1
  <1>5. QED
    BY <1>1, <1>3, <1>4

(* The bytes lent are those below the break as long as no more is given    *)
(* back than was lent.                                                     *)
LEMMA LentFacts ==
  ASSUME MainTypeOK, BreakInHeap, phase = "running",
         NEW incr \in -MaxIncr .. MaxIncr, Grant(incr), ~astray'
  PROVE  /\ ~astray /\ HeapBase <= program_break /\ HeapBase <= program_break'
         /\ lent = HeapBase .. program_break - 1
         /\ lent' = HeapBase .. program_break' - 1
  <1>1. /\ program_break \in Nat /\ incr \in Int /\ HeapBase \in Int
        /\ program_break' = program_break + incr /\ program_break' \in Nat
    BY GrantFacts, HeapSize, AddressFacts DEF MainTypeOK, HeapBase
  <1>2. /\ ~astray /\ lent' = (lent \cup Granted(incr)) \ Returned(incr)
        /\ Returned(incr) \subseteq lent
    BY DEF Grant
  <1>3. HeapBase <= program_break /\ lent = HeapBase .. program_break - 1
    BY <1>2 DEF BreakInHeap
  <1>4. HeapBase <= program_break'
    <2>1. CASE incr >= 0
      BY <1>1, <1>3, <2>1
    <2>2. CASE incr < 0
      <3>1. program_break + incr \in Returned(incr)
        BY <1>1, <2>2 DEF Returned
      <3>2. QED
        BY <1>1, <1>2, <1>3, <3>1
    <2>3. QED
      BY <1>1, <2>1, <2>2
  <1>5. lent' = HeapBase .. program_break' - 1
    BY <1>1, <1>2, <1>3, <1>4 DEF Granted, Returned
  <1>6. QED
    BY <1>2, <1>3, <1>4, <1>5

LEMMA SbrkIInv ==
  ASSUME MainIInv, NEW incr \in -MaxIncr .. MaxIncr, Sbrk(incr)
  PROVE  MainIInv'
  <1>1. /\ MainTypeOK /\ BreakInHeap /\ phase \in {"walk", "heap", "running"}
        /\ phase' = phase /\ program_break_end' = program_break_end
        /\ UNCHANGED <<vars, walkVars>>
    BY DEF MainIInv, Sbrk
  <1>2. /\ incr \in Int /\ program_break \in Nat /\ program_break_end \in Nat
        /\ HeapBase \in Int /\ sbrk_ret \in Nat \cup {SbrkError}
        /\ lent \subseteq Int /\ astray \in BOOLEAN
    BY <1>1, HeapSize, MaxIncrAssumption DEF MainTypeOK, HeapBase
  <1>3. HeapBase' = HeapBase /\ result' = result
    BY <1>1 DEF HeapBase, vars
  <1>4. /\ program_break' \in Nat /\ sbrk_ret' \in Nat \cup {SbrkError}
        /\ lent' \subseteq Int /\ astray' \in BOOLEAN
        /\ BreakInHeap'
    <2>1. CASE ~Grant(incr)
      <3>1. sbrk_ret' = SbrkError /\ UNCHANGED <<program_break, lent, astray>>
        BY <2>1 DEF Sbrk
      <3>2. QED
        BY <1>1, <1>2, <1>3, <3>1 DEF BreakInHeap
    <2>2. CASE Grant(incr) /\ phase = "running"
      <3>1. program_break' \in Nat /\ program_break' < program_break_end
        BY <1>1, <2>2, GrantFacts
      <3>2. lent' \subseteq Int /\ astray' \in BOOLEAN /\ sbrk_ret' = program_break
        <4>1. /\ lent' = (lent \cup Granted(incr)) \ Returned(incr)
              /\ astray' = (astray \/ ~(Returned(incr) \subseteq lent))
              /\ sbrk_ret' = program_break
          BY <2>2 DEF Grant
        <4>2. Granted(incr) \subseteq Int
          BY <1>2 DEF Granted
        <4>3. lent' \subseteq Int
          BY <1>2, <4>1, <4>2
        <4>4. QED
          BY <1>2, <4>1, <4>3
      <3>3. ~astray' => HeapBase <= program_break' /\ lent' = HeapBase .. program_break' - 1
        BY <1>1, <2>2, LentFacts
      <3>4. QED
        BY <1>1, <1>2, <1>3, <2>2, <3>1, <3>2, <3>3 DEF BreakInHeap
    <2>3. CASE Grant(incr) /\ phase # "running"
      <3>1. program_break' \in Nat
        BY <1>2, <2>3, AddressFacts DEF Grant
      <3>2. QED
        BY <1>1, <1>2, <2>3, <3>1 DEF Grant, BreakInHeap
    <2>4. QED
      BY <1>1, <2>1, <2>2, <2>3
  <1>5. TypeOK' /\ MainTypeOK'
    BY <1>1, <1>2, <1>4 DEF MainTypeOK, TypeOK, vars, walkVars
  <1>6. AvailableEndKnown' /\ InMapWhenMemoryFits'
    BY <1>1 DEF MainIInv, AvailableEndKnown, InMapWhenMemoryFits, walkVars
  <1>7. ASSUME phase' # "outOfMap"
        PROVE  InMap'
    <2>1. InMap
      BY <1>1, <1>7 DEF MainIInv
    <2>2. IInv'
      BY <1>1, <1>5, <2>1
      DEF InMap, IInv, ScanInMap, HeldIsMarked, ScanSound, RunClear, vars
    <2>3. QED
      BY <1>1, <2>1, <2>2
      DEF InMap, MemoryKnown, AvailableFrames, RangeSet, Booted, SearchesForHeap,
          HeapFound, HeapRun, NoRunBelow, NoHeapFits, RunClear, vars, walkVars
  <1>8. QED
    BY <1>4, <1>5, <1>6, <1>7 DEF MainIInv

LEMMA MainNextIInv == MainIInv /\ [MainNext]_mainVars => MainIInv'
  <1> SUFFICES ASSUME MainIInv, [MainNext]_mainVars PROVE MainIInv'
    OBVIOUS
  <1>1. CASE WalkDescriptor
    BY <1>1, WalkIInv
  <1>2. CASE FinishWalk
    BY <1>2, FinishIInv
  <1>3. CASE RequestHeap
    BY <1>3, RequestIInv
  <1>4. CASE SearchHeap
    BY <1>4, SearchIInv, SearchLeavesMap
  <1>5. CASE HeapReady \/ HeapFailed
    BY <1>5, HeapEndIInv
  <1>6. ASSUME NEW incr \in -MaxIncr .. MaxIncr, Sbrk(incr)
        PROVE  MainIInv'
    BY <1>6, SbrkIInv
  <1>7. CASE UNCHANGED mainVars
    <2> USE <1>7 DEF mainVars, vars, walkVars, heapVars
    <2>1. MainTypeOK'
      BY DEF MainIInv, MainTypeOK, TypeOK
    <2>2. AvailableEndKnown' /\ BreakInHeap' /\ InMapWhenMemoryFits'
      BY DEF MainIInv, AvailableEndKnown, BreakInHeap, HeapBase, InMapWhenMemoryFits
    <2>3. phase' # "outOfMap" => InMap'
      BY DEF MainIInv, InMap, IInv, TypeOK, ScanInMap, HeldIsMarked, ScanSound,
             RunClear, MemoryKnown, AvailableFrames, RangeSet, Booted,
             SearchesForHeap, HeapFound, HeapRun, NoRunBelow, NoHeapFits
    <2>4. QED
      BY <2>1, <2>2, <2>3 DEF MainIInv
  <1>8. QED
    BY <1>1, <1>2, <1>3, <1>4, <1>5, <1>6, <1>7 DEF MainNext, KernelStep

(* The inductive invariant holds in every behaviour of the kernel.         *)
THEOREM MainInvariant == MainSpec => []MainIInv
  BY MainInitIInv, MainNextIInv, PTL DEF MainSpec

-------------------------------------------------------------------------------
(* Every variable keeps its type; the walk, the range and the heap hand no *)
(* frame number to the manager that the map has no bit for.                *)
THEOREM MainTypeCorrect == MainSpec => []MainTypeOK
  <1>1. MainIInv => MainTypeOK
    BY DEF MainIInv
  <1>2. QED
    BY <1>1, MainInvariant, PTL

(* What the invariant says of the frames that Allocate may return, and of  *)
(* the heap.                                                               *)
LEMMA AllocatableAvailable == MainIInv => OnlyAvailableAllocatable
  <1> SUFFICES ASSUME MainIInv, Booted, NEW f \in Allocatable
               PROVE  f \in AvailableFrames
    BY DEF OnlyAvailableAllocatable
  <1>1. MemoryKnown /\ RangeSet /\ MainTypeOK
    BY DEF MainIInv, InMap, Booted
  <1>2. f \in 0 .. available_end - 1 /\ f \notin alloc_map
    BY <1>1 DEF Allocatable, RangeSet, MainTypeOK
  <1>3. QED
    BY <1>1, <1>2 DEF MemoryKnown

LEMMA HeapRunAvailable == MainIInv => HeapInAvailableMemory
  BY DEF MainIInv, MainTypeOK, InMap, HeapFound, BreakInHeap, HeapInAvailableMemory

(* Whatever the firmware's memory map, in whatever order, and whatever     *)
(* bytes alloc_map_ held, no frame outside available memory can be granted.*)
THEOREM AvailableOnly == MainSpec => []OnlyAvailableAllocatable
  BY AllocatableAvailable, MainInvariant, PTL

(* The C heap lies in available, marked memory; its break is below its end *)
(* whatever sbrk's callers do, and in the heap unless they went astray.    *)
THEOREM HeapAvailable == MainSpec => []HeapInAvailableMemory
  BY HeapRunAvailable, MainInvariant, PTL

(* Whatever the memory map, the heap lies in the lowest run that would do. *)
THEOREM LowestHeap == MainSpec => []HeapLowest
  <1>1. MainIInv => HeapLowest
    BY DEF MainIInv, InMap, HeapFound, HeapLowest
  <1>2. QED
    BY <1>1, MainInvariant, PTL

(* InitializeHeap fails only when no run of the heap's size is clear.      *)
THEOREM HaltJustified == MainSpec => []HaltsOnlyWithoutRoom
  <1>1. MainIInv => HaltsOnlyWithoutRoom
    BY DEF MainIInv, InMap, NoHeapFits, HaltsOnlyWithoutRoom
  <1>2. QED
    BY <1>1, MainInvariant, PTL

(* The kernel leaves alloc_map_ only when there is memory it has no bit    *)
(* for.                                                                    *)
THEOREM StaysInMap == MainSpec => []InMapWhenMemoryFits
  <1>1. MainIInv => InMapWhenMemoryFits
    BY DEF MainIInv
  <1>2. QED
    BY <1>1, MainInvariant, PTL

(* With a heap, sbrk grants nothing at its end or behind it whatever its   *)
(* callers do; and bytes of the heap alone, none of them twice, as long as *)
(* they gave back nothing they did not have and called for nothing before  *)
(* there was a heap.  Without one it grants only what an uncleared break   *)
(* says.                                                                   *)
THEOREM SbrkSound == MainSpec => SbrkGrantsHeap
  <1> DEFINE Moves == program_break' # program_break /\ phase' = phase
             Sound ==
               /\ phase # "running" => program_break # 0
               /\ phase = "running" =>
                    /\ program_break' < program_break_end
                    /\ ~astray' =>
                         /\ lent' \subseteq HeapBytes
                         /\ (program_break .. program_break' - 1) \cap lent = {}
  <1>1. MainIInv /\ [MainNext]_mainVars => [Moves => Sound]_mainVars
    <2> SUFFICES ASSUME MainIInv, MainNext, Moves PROVE Sound
      BY DEF mainVars
    <2>1. PICK incr \in -MaxIncr .. MaxIncr : Sbrk(incr)
      BY DEF MainNext, KernelStep, WalkDescriptor, FinishWalk, RequestHeap,
             SearchHeap, HeapReady, HeapFailed, heapVars
    <2>2. Grant(incr)
      BY <2>1 DEF Sbrk
    <2>3. MainTypeOK /\ BreakInHeap
      BY DEF MainIInv
    <2>4. ASSUME phase = "running"
          PROVE  /\ program_break' < program_break_end
                 /\ ~astray' =>
                      /\ lent' \subseteq HeapBytes
                      /\ (program_break .. program_break' - 1) \cap lent = {}
      <3>1. /\ program_break' < program_break_end /\ program_break' \in Nat
            /\ program_break \in Nat /\ program_break_end \in Nat /\ HeapBase \in Int
        BY <2>2, <2>3, <2>4, GrantFacts, HeapSize DEF MainTypeOK, HeapBase
      <3>2. ASSUME ~astray'
            PROVE  /\ lent = HeapBase .. program_break - 1
                   /\ lent' = HeapBase .. program_break' - 1
        BY <2>2, <2>3, <2>4, <3>2, LentFacts
      <3>3. QED
        BY <3>1, <3>2 DEF HeapBytes
    <2>5. phase # "running" => program_break # 0
      BY <2>2 DEF Grant, NoRoom
    <2>6. QED
      BY <2>4, <2>5
  <1>2. QED
    BY <1>1, MainInvariant, PTL DEF MainSpec, SbrkGrantsHeap

-------------------------------------------------------------------------------
(* How far the kernel is from having its heap: the phases ahead, and the   *)
(* turns of the loop it is in.                                             *)
PhasesLeft ==
  CASE phase = "walk" -> 3
    [] phase = "heap" -> 2
    [] phase = "allocating" -> 1
    [] OTHER -> 0

TurnsLeft ==
  CASE phase = "walk" /\ iter <= Len(mmap) -> Len(mmap) + 1 - iter
    [] phase = "allocating" /\ scan.active -> SearchLeft + 1
    [] OTHER -> 0

BootNearer ==
  \/ PhasesLeft' < PhasesLeft
  \/ /\ PhasesLeft' = PhasesLeft
     /\ TurnsLeft \in Nat /\ TurnsLeft' \in Nat /\ TurnsLeft' < TurnsLeft

LEMMA WalkNears ==
  ASSUME MainTypeOK, WalkDescriptor
  PROVE  BootNearer
  <1>1. /\ iter \in Nat /\ Len(mmap) \in Nat /\ iter <= Len(mmap) /\ phase = "walk"
        /\ iter' = iter + 2 /\ mmap' = mmap
    BY DEF MainTypeOK, WalkDescriptor
  <1>2. PhasesLeft = 3 /\ TurnsLeft = Len(mmap) + 1 - iter
    BY <1>1 DEF PhasesLeft, TurnsLeft
  <1>3. CASE phase' = "walk"
    <2>1. PhasesLeft' = 3
      BY <1>3 DEF PhasesLeft
    <2>2. TurnsLeft' = IF iter + 2 <= Len(mmap) THEN Len(mmap) + 1 - (iter + 2) ELSE 0
      BY <1>1, <1>3 DEF TurnsLeft
    <2>3. QED
      BY <1>1, <1>2, <2>1, <2>2 DEF BootNearer
  <1>4. CASE phase' = "outOfMap"
    <2>1. PhasesLeft' = 0
      BY <1>4 DEF PhasesLeft
    <2>2. QED
      BY <1>2, <2>1 DEF BootNearer
  <1>5. QED
    BY <1>3, <1>4 DEF WalkDescriptor

LEMMA SearchHeapNears ==
  ASSUME MainTypeOK, SearchHeap
  PROVE  BootNearer
  <1>1. phase = "allocating" /\ ScanStep /\ scan.active /\ TypeOK
    BY DEF SearchHeap, ScanStep, OutOfRange, FrameTaken, FrameClear, RunFound, MainTypeOK
  <1>2. ~scan'.active \/ SearchNearer
    BY <1>1, ScanStepNears
  <1>3. SearchLeft \in Nat
    BY <1>1, MaxRequestAssumption DEF SearchLeft, Candidate, TypeOK, ScanState
  <1>4. PhasesLeft = 1 /\ TurnsLeft = SearchLeft + 1
    BY <1>1 DEF PhasesLeft, TurnsLeft
  <1>5. CASE phase' = "allocating"
    <2>1. PhasesLeft' = 1 /\ TurnsLeft' = IF scan'.active THEN SearchLeft' + 1 ELSE 0
      BY <1>5 DEF PhasesLeft, TurnsLeft
    <2>2. QED
      BY <1>2, <1>3, <1>4, <2>1 DEF BootNearer, SearchNearer
  <1>6. CASE phase' = "outOfMap"
    <2>1. PhasesLeft' = 0
      BY <1>6 DEF PhasesLeft
    <2>2. QED
      BY <1>4, <2>1 DEF BootNearer
  <1>7. QED
    BY <1>5, <1>6 DEF SearchHeap

(* Every step of the kernel brings it nearer to its heap or its halt,      *)
(* whatever the memory map: the walk, whose loop header and body both      *)
(* advance the cursor, and the search.  A call of sbrk on the way changes  *)
(* nothing that this depends on.                                           *)
BootNears ==
  [][IF KernelStep THEN BootNearer ELSE UNCHANGED <<vars, phase, walkVars>>]_mainVars

(* The walk over the memory map and the search for the heap come to an end *)
(* for every memory map, bitmap and heap size.                             *)
THEOREM BootNearsEnd == MainSpec => BootNears
  <1> DEFINE Nears == IF KernelStep THEN BootNearer ELSE UNCHANGED <<vars, phase, walkVars>>
  <1>1. MainIInv /\ [MainNext]_mainVars => [Nears]_mainVars
    <2> SUFFICES ASSUME MainIInv, MainNext PROVE Nears
      OBVIOUS
    <2>1. CASE KernelStep
      <3>1. CASE WalkDescriptor
        BY <2>1, <3>1, WalkNears DEF MainIInv
      <3>2. CASE SearchHeap
        BY <2>1, <3>2, SearchHeapNears DEF MainIInv
      <3>3. CASE FinishWalk
        BY <2>1, <3>3 DEF FinishWalk, BootNearer, PhasesLeft
      <3>4. CASE RequestHeap
        BY <2>1, <3>4 DEF RequestHeap, BootNearer, PhasesLeft
      <3>5. CASE HeapReady
        BY <2>1, <3>5 DEF HeapReady, BootNearer, PhasesLeft
      <3>6. CASE HeapFailed
        BY <2>1, <3>6 DEF HeapFailed, BootNearer, PhasesLeft
      <3>7. QED
        BY <2>1, <3>1, <3>2, <3>3, <3>4, <3>5, <3>6 DEF KernelStep
    <2>2. CASE ~KernelStep
      BY <2>2 DEF MainNext, Sbrk, vars, walkVars
    <2>3. QED
      BY <2>1, <2>2
  <1>2. QED
    BY <1>1, MainInvariant, PTL DEF MainSpec, BootNears
===============================================================================
