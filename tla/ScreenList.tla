------------------------------ MODULE ScreenList -------------------------------
(***************************************************************************)
(* ScreenManager's singly linked list of screens (kernel/screen.cpp), one  *)
(* pointer followed per step.                                              *)
(*                                                                         *)
(* The manager is built where nobody cleared the memory: the constructor   *)
(* that takes a screen reaches getLast before screens is written, and goes *)
(* by what was there - NULL, a screen of an earlier start, or Wild, an     *)
(* address of nothing.  Beyond a Wild pointer the model does not go.       *)
(***************************************************************************)
EXTENDS Integers, Sequences

CONSTANTS Screens, NULL, Wild, Indexes

ASSUME PointerAssumption ==
  NULL \notin Screens /\ Wild \notin Screens /\ NULL # Wild
ASSUME IndexAssumption == Indexes \subseteq Int

VARIABLES
  screens,  \* the head of the list
  next,     \* Screen::next
  pc,       \* the call under way
  ptr, arg, index, i,  \* locals of the calls
  reply,    \* what the last call returned
  listed,   \* history: the screens added, in order
  misused   \* history: one was added twice, or to a head that was not NULL

locals == <<ptr, arg, index, i>>
listVars == <<screens, next, pc, locals, reply, listed, misused>>

Pointer == Screens \cup {NULL, Wild}
InUse == {listed[k] : k \in DOMAIN listed}

ListInit ==
  /\ screens \in Pointer
  /\ next = [s \in Screens |-> Wild]
  /\ pc = "unbuilt"
  /\ ptr = NULL /\ arg = NULL /\ index = 0 /\ i = 0
  /\ reply = NULL /\ listed = <<>> /\ misused = FALSE

-------------------------------------------------------------------------------
Constructed(s) == next[s] # Wild

NewScreen(s) ==
  /\ pc \in {"unbuilt", "idle"} /\ ~Constructed(s)
  /\ next' = [next EXCEPT ![s] = NULL]
  /\ UNCHANGED <<screens, pc, locals, reply, listed, misused>>

EmptyHead == NULL

(* ScreenManager(), and below ScreenManager(s).                            *)
NewManager ==
  /\ pc = "unbuilt" /\ pc' = "idle"
  /\ screens' = EmptyHead
  /\ UNCHANGED <<next, locals, reply, listed, misused>>

CallSetScreen(s) ==
  /\ Constructed(s)
  /\ pc' = "getLast" /\ ptr' = screens /\ arg' = s
  /\ UNCHANGED <<screens, next, index, i, reply, listed>>

NewManagerWith(s) ==
  /\ pc = "unbuilt"
  /\ CallSetScreen(s)
  /\ misused' = (screens # NULL)

SetScreen(s) == pc = "idle" /\ CallSetScreen(s) /\ UNCHANGED misused

-------------------------------------------------------------------------------
(* Mutants: the walk stays where it is, and the link is made backwards.    *)
GetNextStays(p) == p
SetNextBack(p, s) == [next EXCEPT ![s] = p]

GetNext(p) == next[p]
SetNext(p, s) == [next EXCEPT ![p] = s]

Return(r) == pc' = "idle" /\ reply' = r

Record ==
  IF misused \/ arg \in InUse
  THEN misused' = TRUE /\ UNCHANGED listed
  ELSE listed' = Append(listed, arg) /\ UNCHANGED misused

(* setScreen: getLast says that there is no screen, or which is the last.  *)
SetFirst ==
  /\ pc = "getLast" /\ ptr = NULL
  /\ screens' = arg
  /\ Return(arg) /\ Record
  /\ UNCHANGED <<next, locals>>

FollowToLast ==
  /\ pc = "getLast" /\ ptr \in Screens /\ next[ptr] # NULL
  /\ ptr' = GetNext(ptr)
  /\ UNCHANGED <<screens, next, pc, arg, index, i, reply, listed, misused>>

SetAfterLast ==
  /\ pc = "getLast" /\ ptr \in Screens /\ next[ptr] = NULL
  /\ next' = SetNext(ptr, arg)
  /\ Return(arg) /\ Record
  /\ UNCHANGED <<screens, locals>>

CallGetScreen(k) ==
  /\ pc = "idle" /\ pc' = "getScreen"
  /\ ptr' = screens /\ index' = k /\ i' = 0
  /\ UNCHANGED <<screens, next, arg, reply, listed, misused>>

(* Mutant: one screen further.                                             *)
BelowIndexTo == i <= index

BelowIndex == i < index

FollowToIndex ==
  /\ pc = "getScreen" /\ BelowIndex /\ ptr \in Screens
  /\ ptr' = GetNext(ptr) /\ i' = i + 1
  /\ UNCHANGED <<screens, next, pc, arg, index, reply, listed, misused>>

GetScreenReturns ==
  /\ pc = "getScreen" /\ (BelowIndex => ptr = NULL)
  /\ Return(ptr)
  /\ UNCHANGED <<screens, next, locals, listed, misused>>

(* A call through a Wild pointer.                                          *)
Stray ==
  /\ \/ pc = "getLast"
     \/ pc = "getScreen" /\ BelowIndex
  /\ ptr = Wild /\ pc' = "lost"
  /\ UNCHANGED <<screens, next, locals, reply, listed, misused>>

Walk ==
  \/ SetFirst
  \/ FollowToLast
  \/ SetAfterLast
  \/ FollowToIndex
  \/ GetScreenReturns
  \/ Stray

Call ==
  \/ \E s \in Screens : NewScreen(s) \/ NewManagerWith(s) \/ SetScreen(s)
  \/ NewManager
  \/ \E k \in Indexes : CallGetScreen(k)

ListNext == Walk \/ Call

ListSpec == ListInit /\ [][ListNext]_listVars

(* A call goes on until it returns.                                        *)
ListFairSpec == ListSpec /\ WF_listVars(Walk)

-------------------------------------------------------------------------------
(* Type invariant; the counter of getScreen never passes the index.        *)
ListTypeOK ==
  /\ screens \in Pointer
  /\ next \in [Screens -> Pointer]
  /\ pc \in {"unbuilt", "idle", "getLast", "getScreen", "lost"}
  /\ ptr \in Pointer /\ arg \in Screens \cup {NULL} /\ reply \in Pointer
  /\ index \in Int /\ i \in Nat
  /\ pc = "getScreen" => i <= (IF index < 0 THEN 0 ELSE index)
  /\ listed \in Seq(Screens) /\ misused \in BOOLEAN

(* As long as no screen was added twice and the manager was not built over *)
(* garbage, the pointers are the sequence of what was added: each screen   *)
(* once, in order, and NULL after the last.                                *)
ListFollows ==
  ~misused /\ pc # "unbuilt" =>
    /\ screens = IF listed = <<>> THEN NULL ELSE listed[1]
    /\ \A k \in DOMAIN listed :
         next[listed[k]] = IF k < Len(listed) THEN listed[k + 1] ELSE NULL
    /\ \A j, k \in DOMAIN listed : listed[j] = listed[k] => j = k

(* Nor does any call then go through a pointer that was never written.     *)
StraysOnlyWhenMisused == pc = "lost" => misused

(* setScreen and getScreen are those of a sequence.                        *)
Sequence == INSTANCE ScreenSequence WITH
  list <- listed, broken <- misused

ImplementsSequence == Sequence!SequenceSpec

(* Every call returns; a walk over a list into which a screen was put      *)
(* twice is the exception, for it has no end.                              *)
CallsReturn == pc \in {"getLast", "getScreen"} ~> pc = "idle" \/ misused
===============================================================================
