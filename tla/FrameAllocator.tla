---------------------------- MODULE FrameAllocator ----------------------------
(***************************************************************************)
(* The kernel's physical frame manager, class BitmapMemoryManager of       *)
(* kernel/memory_manager.cpp.  One bit per 4 KiB frame says that the frame *)
(* is taken; Allocate looks for a run of clear bits inside the managed     *)
(* range, and its search is modelled one loop iteration at a time.         *)
(*                                                                         *)
(* The bitmap is the set of the frames whose bit is set.  The manager has  *)
(* no lock and one caller, so a call starts only when no search is going   *)
(* on.                                                                     *)
(***************************************************************************)
EXTENDS Integers

CONSTANTS
  FrameCount,   \* kFrameCount, the number of bits of alloc_map_
  NullFrame,    \* the value kNullFrame has in the running kernel
  MaxRequest,   \* bound: the largest num_frames passed to a call
  GarbageMaps   \* what the memory below alloc_map_ may hold at construction

Frame == 0 .. FrameCount - 1

ASSUME FrameCountAssumption == FrameCount \in Nat \ {0}
ASSUME NullFrameAssumption  == NullFrame \in Nat
ASSUME MaxRequestAssumption == MaxRequest \in Nat
ASSUME GarbageAssumption    == GarbageMaps \subseteq SUBSET Frame

VARIABLES
  alloc_map,     \* the frames whose bit in alloc_map_ is set
  range_begin,   \* range_begin_
  range_end,     \* range_end_
  scan,          \* the locals of a running Allocate
  result,        \* what the latest Allocate returned
  held           \* history: the frames granted and not given back by Free

vars == <<alloc_map, range_begin, range_end, scan, result, held>>

Run(start, n) == start .. start + n - 1

ScanState == [active : BOOLEAN, num_frames : 0 .. MaxRequest, start : Nat,
              i : 0 .. MaxRequest]

NoScan == [active |-> FALSE, num_frames |-> 0, start |-> 0, i |-> 0]

-------------------------------------------------------------------------------
(* The constructor sets the range and leaves alloc_map_ as it finds it.    *)
Init ==
  /\ alloc_map \in GarbageMaps
  /\ range_begin = NullFrame
  /\ range_end = NullFrame
  /\ scan = NoScan
  /\ result = [value |-> NullFrame, error |-> FALSE]
  /\ held = {}

GetBit(f) == f \in alloc_map

(* Mutant of the bitmap's updates: the wrong polarity.                     *)
SetBitsInverted(frames) == alloc_map' = alloc_map \ frames

SetBits(frames) == alloc_map' = alloc_map \cup frames

(* The loop of SetBit(_, true) calls in MarkAllocated and in Free.         *)
MarkRun(start, n) == SetBits(Run(start, n))

MarkAllocated(start, n) ==
  /\ ~scan.active
  /\ MarkRun(start, n)
  /\ UNCHANGED <<range_begin, range_end, scan, result, held>>

SetMemoryRange(begin, end) ==
  /\ ~scan.active
  /\ range_begin' = begin
  /\ range_end' = end
  /\ UNCHANGED <<alloc_map, scan, result, held>>

-------------------------------------------------------------------------------
(* Allocate: the call, and the four ways an iteration of its loops ends.   *)
CallAllocate(n) ==
  /\ ~scan.active
  /\ scan' = [active |-> TRUE, num_frames |-> n, start |-> range_begin, i |-> 0]
  /\ UNCHANGED <<alloc_map, range_begin, range_end, result, held>>

Candidate == scan.start + scan.i

(* Mutants of the conditions below: off by one in the count, in the end of *)
(* the range and, either way, in the jump over a taken frame.              *)
InLoopPast == scan.i <= scan.num_frames
AtEndEarly == Candidate + 1 >= range_end
NextStartFar == Candidate + 2
NextStartStays == Candidate

InLoop == scan.i < scan.num_frames

AtEnd == Candidate >= range_end

NextStart == Candidate + 1

OutOfRange ==
  /\ scan.active /\ InLoop /\ AtEnd
  /\ scan' = NoScan
  /\ result' = [value |-> NullFrame, error |-> TRUE]
  /\ UNCHANGED <<alloc_map, range_begin, range_end, held>>

FrameTaken ==
  /\ scan.active /\ InLoop /\ ~AtEnd /\ GetBit(Candidate)
  /\ scan' = [scan EXCEPT !.start = NextStart, !.i = 0]
  /\ UNCHANGED <<alloc_map, range_begin, range_end, result, held>>

FrameClear ==
  /\ scan.active /\ InLoop /\ ~AtEnd /\ ~GetBit(Candidate)
  /\ scan' = [scan EXCEPT !.i = scan.i + 1]
  /\ UNCHANGED <<alloc_map, range_begin, range_end, result, held>>

RunFound ==
  /\ scan.active /\ scan.i = scan.num_frames
  /\ MarkRun(scan.start, scan.num_frames)
  /\ held' = held \cup Run(scan.start, scan.num_frames)
  /\ result' = [value |-> scan.start, error |-> FALSE]
  /\ scan' = NoScan
  /\ UNCHANGED <<range_begin, range_end>>

ScanStep == OutOfRange \/ FrameTaken \/ FrameClear \/ RunFound

-------------------------------------------------------------------------------
(* Free passes true to SetBit: the bits of the frames given back are set,  *)
(* not cleared.  A caller gives back frames it holds.                      *)
Free(start, n) ==
  /\ ~scan.active
  /\ Run(start, n) \subseteq held
  /\ MarkRun(start, n)
  /\ held' = held \ Run(start, n)
  /\ UNCHANGED <<range_begin, range_end, scan, result>>

(* Callers stay inside alloc_map_: no method checks a frame number.        *)
Next ==
  \/ \E start \in Frame, n \in 0 .. MaxRequest :
       /\ Run(start, n) \subseteq Frame
       /\ MarkAllocated(start, n) \/ Free(start, n)
  \/ \E begin, end \in 0 .. FrameCount : SetMemoryRange(begin, end)
  \/ \E n \in 0 .. MaxRequest : CallAllocate(n)
  \/ ScanStep

Spec == Init /\ [][Next]_vars

(* A called Allocate runs to its return: nothing can take the processor    *)
(* away from it for good but an exception, whose handler stops the machine.*)
FairSpec == Spec /\ WF_vars(ScanStep)

-------------------------------------------------------------------------------
(* Type invariant.                                                         *)
TypeOK ==
  /\ alloc_map \in SUBSET Frame
  /\ range_begin \in Nat
  /\ range_end \in Nat
  /\ scan \in ScanState
  /\ result \in [value : Nat, error : BOOLEAN]
  /\ held \in SUBSET Frame

(* A frame in a caller's hands keeps its bit set, whatever sequence of     *)
(* marks, range changes, searches and frees the callers go through.        *)
HeldIsMarked == held \subseteq alloc_map

(* Allocate returned a run in this step.                                   *)
Granting == scan.active /\ ~scan'.active /\ ~result'.error

(* Allocate never returns a frame that an earlier call returned and nobody *)
(* gave back (the granting return of Allocate, memory_manager.cpp 52-58).  *)
NoDoubleGrant ==
  [][Granting => Run(result'.value, scan.num_frames) \cap held = {}]_vars

(* A search never skips a run that would do: every start below the current *)
(* one is blocked by a set bit or by the end of the range, and the frames  *)
(* counted so far are clear.  This is what makes the jump of i + 1 sound.  *)
RunClear(start, n) ==
  \A f \in Run(start, n) : f < range_end /\ f \notin alloc_map

ScanSound ==
  scan.active =>
    /\ scan.start >= range_begin
    /\ scan.i <= scan.num_frames
    /\ RunClear(scan.start, scan.i)
    /\ \A s \in range_begin .. scan.start - 1 : ~RunClear(s, scan.num_frames)

(* Every search ends with an answer (the while(true) of Allocate exits).   *)
SearchEnds == scan.active ~> ~scan.active

(* Frames given back to Free can be granted again: the manager's interface *)
(* pairs Free with Allocate.  The code keeps them marked.                  *)
Freeing == held' \subseteq held /\ held' # held

FreeReleases == [][Freeing => (held \ held') \cap alloc_map' = {}]_vars

(* The loop implements the abstract allocator.                             *)
Abstract == INSTANCE FirstFit WITH
  used <- alloc_map, lo <- range_begin, hi <- range_end, reply <- result

ImplementsFirstFit == Abstract!Spec
===============================================================================
