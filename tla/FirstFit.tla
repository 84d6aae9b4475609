------------------------------- MODULE FirstFit -------------------------------
(***************************************************************************)
(* What the physical frame manager of the kernel promises its callers: a   *)
(* request for n frames is answered, in one step, with the lowest run of   *)
(* n unused frames of the managed range, or refused when there is none.    *)
(* FrameAllocator, whose search is a loop, implements this module.         *)
(***************************************************************************)
EXTENDS Integers

CONSTANTS
  FrameCount,  \* the frames the manager has a bit for
  NullFrame,   \* the frame a refusal carries
  MaxRequest   \* the largest request that is made

VARIABLES
  used,   \* the frames that may not be handed out
  lo, hi, \* the managed range [lo, hi)
  reply   \* the answer to the latest request

vars == <<used, lo, hi, reply>>

FFrame == 0 .. FrameCount - 1

\* A run of n unused frames of the managed range begins at s.
FreeRun(s, n) ==
  /\ lo <= s
  /\ \A f \in s .. s + n - 1 : f < hi /\ f \notin used

\* Every start worth considering; lo alone when the range is empty.
Starts == {lo} \cup (lo .. hi)

Init ==
  /\ used \in SUBSET FFrame
  /\ lo = NullFrame
  /\ hi = NullFrame
  /\ reply = [value |-> NullFrame, error |-> FALSE]

\* Frames are taken out of circulation.
Reserve ==
  /\ \E S \in SUBSET FFrame : used' = used \cup S
  /\ UNCHANGED <<lo, hi, reply>>

SetRange ==
  /\ lo' \in 0 .. FrameCount
  /\ hi' \in 0 .. FrameCount
  /\ UNCHANGED <<used, reply>>

\* The lowest run is granted.
Grant(n) ==
  /\ \E s \in Starts :
       /\ FreeRun(s, n)
       /\ \A t \in lo .. s - 1 : ~FreeRun(t, n)
       /\ used' = used \cup (s .. s + n - 1)
       /\ reply' = [value |-> s, error |-> FALSE]
  /\ UNCHANGED <<lo, hi>>

\* A request is refused only when no run would do.
Refuse(n) ==
  /\ \A s \in Starts : ~FreeRun(s, n)
  /\ reply' = [value |-> NullFrame, error |-> TRUE]
  /\ UNCHANGED <<used, lo, hi>>

Next ==
  \/ Reserve
  \/ SetRange
  \/ \E n \in 0 .. MaxRequest : Grant(n) \/ Refuse(n)

Spec == Init /\ [][Next]_vars
===============================================================================
