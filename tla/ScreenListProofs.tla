--------------------------- MODULE ScreenListProofs ---------------------------
(***************************************************************************)
(* Proofs about ScreenList, for any set of screens and of indexes: its     *)
(* type, that its pointers are the sequence of what was added, that no     *)
(* call strays, and that its calls implement ScreenSequence.               *)
(*                                                                         *)
(* None of these is inductive.  What is needed beside them is where a call *)
(* stands in the list: WalkSound says that getLast is at one of the added  *)
(* screens and that getScreen is at the one its counter numbers; Fresh     *)
(* that a screen not yet added has no next.                                *)
(***************************************************************************)
EXTENDS ScreenList, TLAPS

USE DEF GetNext, SetNext, EmptyHead

Unbuilt == pc = "unbuilt" => listed = <<>> /\ ~misused

Fresh == ~misused => \A s \in Screens \ InUse : next[s] \in {NULL, Wild}

(* The screen a setScreen is adding has been constructed.                  *)
ArgSound == pc = "getLast" => arg \in Screens /\ next[arg] # Wild

WalkSound ==
  ~misused =>
    /\ pc = "getLast" =>
         IF listed = <<>> THEN ptr = NULL ELSE \E k \in DOMAIN listed : ptr = listed[k]
    /\ pc = "getScreen" =>
         /\ i <= Len(listed)
         /\ ptr = IF i < Len(listed) THEN listed[i + 1] ELSE NULL

ListInv ==
  /\ ListTypeOK /\ ListFollows /\ StraysOnlyWhenMisused
  /\ Unbuilt /\ Fresh /\ ArgSound /\ WalkSound

-------------------------------------------------------------------------------
(* Sequences of no and of one screen.                                      *)
LEMMA ShortSequences ==
  /\ <<>> \in Seq(Screens) /\ DOMAIN <<>> = {}
  /\ \A s \in Screens : <<s>> \in Seq(Screens)
  <1>1. <<>> \in Seq(Screens)
    OBVIOUS
  <1>2. DOMAIN <<>> = {}
    OBVIOUS
  <1>3. ASSUME NEW s \in Screens PROVE <<s>> \in Seq(Screens)
    OBVIOUS
  <1>4. QED
    BY <1>1, <1>2, <1>3

(* The initial states satisfy the invariant.                               *)
LEMMA InitListInv == ListInit => ListInv
  <1> SUFFICES ASSUME ListInit PROVE ListInv
    OBVIOUS
  <1>1. ListTypeOK
    <2>1. listed \in Seq(Screens)
      BY ShortSequences DEF ListInit
    <2>2. next \in [Screens -> Pointer]
      BY DEF ListInit, Pointer
    <2>3. screens \in Pointer /\ ptr \in Pointer /\ reply \in Pointer
      BY DEF ListInit, Pointer
    <2>4. arg \in Screens \cup {NULL} /\ index \in Int /\ i \in Nat
      BY DEF ListInit
    <2>5. pc = "unbuilt" /\ misused \in BOOLEAN
      BY DEF ListInit
    <2>6. QED
      BY <2>1, <2>2, <2>3, <2>4, <2>5 DEF ListTypeOK
  <1>2. Fresh
    BY DEF ListInit, Fresh
  <1>3. QED
    BY <1>1, <1>2
    DEF ListInit, ListInv, ListFollows, StraysOnlyWhenMisused, Unbuilt, ArgSound, WalkSound

(* Adding a screen at the end of the history.                              *)
LEMMA AppendScreen ==
  ASSUME NEW s \in Screens, listed \in Seq(Screens)
  PROVE  LET l == Append(listed, s)
         IN /\ l \in Seq(Screens) /\ Len(l) = Len(listed) + 1
            /\ DOMAIN l = 1 .. Len(listed) + 1
            /\ DOMAIN listed = 1 .. Len(listed)
            /\ \A k \in DOMAIN listed : l[k] = listed[k]
            /\ l[Len(listed) + 1] = s
            /\ (listed = <<>>) <=> (Len(listed) = 0)
            /\ l # <<>>
  OBVIOUS

(* setScreen finds the list empty.                                         *)
LEMMA SetFirstInv == ListInv /\ SetFirst => ListInv'
  <1> SUFFICES ASSUME ListInv, SetFirst PROVE ListInv'
    OBVIOUS
  <1> USE PointerAssumption
  <1> DEFINE l == Append(listed, arg)
  <1>1. arg \in Screens /\ next[arg] # Wild /\ listed \in Seq(Screens)
    BY DEF ListInv, ListTypeOK, ArgSound, SetFirst
  <1>2. CASE ~misused /\ arg \notin InUse
    <2>1. listed = <<>> /\ next[arg] = NULL
      BY <1>1, <1>2 DEF ListInv, WalkSound, SetFirst, Fresh, ListTypeOK
    <2>2. listed' = <<arg>> /\ misused' = FALSE /\ screens' = arg /\ next' = next
      BY <1>2, <2>1 DEF ListInv, ListTypeOK, SetFirst, Record
    <2>3. ListTypeOK'
      <3>1. listed' \in Seq(Screens) /\ misused' \in BOOLEAN
        BY <1>1, <2>2, ShortSequences
      <3>2. QED
        BY <1>1, <2>2, <3>1 DEF ListInv, ListTypeOK, SetFirst, Return, Pointer, locals
    <2>4. ListFollows'
      BY <1>1, <2>1, <2>2 DEF ListFollows
    <2>5. Fresh'
      BY <1>2, <2>1, <2>2 DEF ListInv, Fresh, InUse
    <2>6. QED
      BY <2>2, <2>3, <2>4, <2>5
      DEF ListInv, StraysOnlyWhenMisused, Unbuilt, ArgSound, WalkSound, SetFirst, Return
  <1>3. CASE misused \/ arg \in InUse
    <2>1. misused' /\ listed' = listed
      BY <1>3 DEF SetFirst, Record
    <2>2. ListTypeOK'
      BY <1>1, <2>1 DEF ListInv, ListTypeOK, SetFirst, Return, Pointer, locals
    <2>3. QED
      BY <2>1, <2>2
      DEF ListInv, ListFollows, StraysOnlyWhenMisused, Unbuilt, Fresh, ArgSound,
          WalkSound, SetFirst, Return
  <1>4. QED
    BY <1>2, <1>3

(* setScreen links the screen after the last.                              *)
LEMMA SetAfterLastInv == ListInv /\ SetAfterLast => ListInv'
  <1> SUFFICES ASSUME ListInv, SetAfterLast PROVE ListInv'
    OBVIOUS
  <1> USE PointerAssumption
  <1>1. /\ arg \in Screens /\ next[arg] # Wild /\ listed \in Seq(Screens)
        /\ ptr \in Screens /\ next \in [Screens -> Pointer]
        /\ pc = "getLast" /\ pc' = "idle" /\ next' = [next EXCEPT ![ptr] = arg]
    BY DEF ListInv, ListTypeOK, ArgSound, SetAfterLast, Return
  <1>2. ASSUME listed' \in Seq(Screens), misused' \in BOOLEAN PROVE ListTypeOK'
    BY <1>1, <1>2 DEF ListInv, ListTypeOK, SetAfterLast, Return, Pointer, locals
  <1>3. CASE ~misused /\ arg \notin InUse
    <2> DEFINE n == Len(listed)
    <2>1. /\ n \in Nat \ {0} /\ DOMAIN listed = 1 .. n /\ listed # <<>>
          /\ ptr = listed[n] /\ listed[n] \in InUse
      <3>1. PICK k \in DOMAIN listed : ptr = listed[k]
        BY <1>1, <1>3 DEF ListInv, WalkSound
      <3>2. next[listed[k]] = IF k < n THEN listed[k + 1] ELSE NULL
        BY <1>1, <1>3 DEF ListInv, ListFollows
      <3>3. DOMAIN listed = 1 .. n /\ k = n
        BY <1>1, <3>1, <3>2 DEF SetAfterLast
      <3>4. QED
        BY <1>1, <3>1, <3>3 DEF InUse
    <2>2. listed' = Append(listed, arg) /\ misused' = FALSE /\ screens' = screens
      BY <1>3 DEF ListInv, ListTypeOK, SetAfterLast, Record
    <2>3. /\ listed' \in Seq(Screens) /\ Len(listed') = n + 1 /\ listed' # <<>>
          /\ DOMAIN listed' = 1 .. n + 1
          /\ \A k \in 1 .. n : listed'[k] = listed[k]
          /\ listed'[n + 1] = arg
      BY <1>1, <2>1, <2>2, AppendScreen
    <2>4. next[arg] = NULL /\ arg # ptr
      BY <1>1, <1>3, <2>1 DEF ListInv, Fresh
    <2>5. ListTypeOK'
      BY <1>2, <2>2, <2>3
    <2>6. \A k \in 1 .. n + 1 :
            next'[listed'[k]] = IF k < n + 1 THEN listed'[k + 1] ELSE NULL
      <3> TAKE k \in 1 .. n + 1
      <3>1. CASE k = n + 1
        BY <1>1, <2>3, <2>4, <3>1
      <3>2. CASE k = n
        BY <1>1, <2>1, <2>3, <3>2
      <3>3. CASE k < n
        <4>1. listed[k] # listed[n] /\ next[listed[k]] = listed[k + 1]
          <5>1. k \in DOMAIN listed /\ n \in DOMAIN listed /\ k # n
            <6>1. ASSUME NEW m \in Nat \ {0}, NEW j \in 1 .. m + 1, j < m
                  PROVE  j \in 1 .. m /\ m \in 1 .. m /\ j # m
              BY <6>1
            <6>2. QED
              BY <2>1, <3>3, <6>1
          <5>2. QED
            BY <1>1, <1>3, <3>3, <5>1 DEF ListInv, ListFollows
        <4>2. listed[k] \in Screens /\ listed'[k] = listed[k] /\ listed'[k + 1] = listed[k + 1]
          BY <1>1, <2>1, <2>3, <3>3
        <4>3. QED
          BY <1>1, <2>1, <4>1, <4>2, <3>3
      <3>4. k = n + 1 \/ k = n \/ k < n
        <4>1. ASSUME NEW m \in Nat, NEW j \in 1 .. m + 1
              PROVE  j = m + 1 \/ j = m \/ j < m
          BY <4>1
        <4>2. QED
          BY <2>1, <4>1
      <3>5. QED
        BY <3>1, <3>2, <3>3, <3>4, Zenon
    <2>7. \A j, k \in 1 .. n + 1 : listed'[j] = listed'[k] => j = k
      <3>1. \A j, k \in 1 .. n : listed[j] = listed[k] => j = k
        BY <1>1, <1>3, <2>1 DEF ListInv, ListFollows
      <3>2. \A k \in 1 .. n : listed[k] # arg
        BY <1>3, <2>1 DEF InUse
      <3>3. QED
        BY <2>1, <2>3, <3>1, <3>2
    <2>8. ListFollows'
      <3>1. screens' = listed'[1]
        BY <1>1, <1>3, <2>1, <2>2, <2>3 DEF ListInv, ListFollows
      <3>2. QED
        BY <2>3, <2>6, <2>7, <3>1 DEF ListFollows
    <2>9. Fresh'
      <3>1. InUse' = InUse \cup {arg}
        BY <2>1, <2>3 DEF InUse
      <3>2. QED
        BY <1>1, <1>3, <2>1, <3>1 DEF ListInv, Fresh
    <2>10. QED
      BY <1>1, <2>2, <2>5, <2>8, <2>9
      DEF ListInv, StraysOnlyWhenMisused, Unbuilt, ArgSound, WalkSound
  <1>4. CASE misused \/ arg \in InUse
    <2>1. misused' = TRUE /\ listed' = listed
      BY <1>4 DEF SetAfterLast, Record
    <2>2. ListTypeOK'
      BY <1>1, <1>2, <2>1
    <2>3. QED
      BY <1>1, <2>1, <2>2
      DEF ListInv, ListFollows, StraysOnlyWhenMisused, Unbuilt, Fresh, ArgSound, WalkSound
  <1>5. QED
    BY <1>3, <1>4

(* The walks follow one pointer.                                           *)
LEMMA FollowInv == ListInv /\ (FollowToLast \/ FollowToIndex) => ListInv'
  <1> SUFFICES ASSUME ListInv, FollowToLast \/ FollowToIndex PROVE ListInv'
    OBVIOUS
  <1> USE PointerAssumption
  <1>1. /\ UNCHANGED <<screens, next, pc, arg, index, reply, listed, misused>>
        /\ ptr \in Screens /\ ptr' = next[ptr] /\ ptr' \in Pointer
        /\ next \in [Screens -> Pointer] /\ listed \in Seq(Screens)
    BY DEF ListInv, ListTypeOK, FollowToLast, FollowToIndex
  <1>2. ListTypeOK'
    BY <1>1 DEF ListInv, ListTypeOK, FollowToLast, FollowToIndex, BelowIndex
  <1>3. WalkSound'
    <2> SUFFICES ASSUME ~misused PROVE WalkSound'
      BY <1>1 DEF WalkSound
    <2>1. DOMAIN listed = 1 .. Len(listed) /\ Len(listed) \in Nat
      BY <1>1
    <2>2. CASE FollowToLast
      <3>1. PICK k \in DOMAIN listed : ptr = listed[k]
        BY <1>1, <2>2 DEF ListInv, WalkSound, FollowToLast
      <3>2. next[ptr] = IF k < Len(listed) THEN listed[k + 1] ELSE NULL
        BY <2>2, <3>1 DEF ListInv, ListFollows, FollowToLast
      <3>3. k + 1 \in DOMAIN listed /\ ptr' = listed[k + 1]
        BY <1>1, <2>1, <2>2, <3>1, <3>2 DEF FollowToLast
      <3>4. QED
        BY <1>1, <2>2, <3>3 DEF WalkSound, FollowToLast
    <2>3. CASE FollowToIndex
      <3>1. /\ i \in Nat /\ i < Len(listed) /\ ptr = listed[i + 1]
            /\ pc = "getScreen" /\ i' = i + 1
        BY <1>1, <2>3 DEF ListInv, ListTypeOK, WalkSound, FollowToIndex
      <3>2. i + 1 \in DOMAIN listed
        BY <2>1, <3>1
      <3>3. next[ptr] = IF i + 1 < Len(listed) THEN listed[i + 1 + 1] ELSE NULL
        BY <3>1, <3>2 DEF ListInv, ListFollows
      <3>4. QED
        BY <1>1, <2>1, <3>1, <3>3 DEF WalkSound
    <2>4. QED
      BY <2>2, <2>3
  <1>4. QED
    BY <1>1, <1>2, <1>3
    DEF ListInv, ListFollows, StraysOnlyWhenMisused, Unbuilt, Fresh, ArgSound, InUse

(* The calls begin at the head of the list.                                *)
LEMMA CallInv == ListInv /\ Call => ListInv'
  <1> SUFFICES ASSUME ListInv, Call PROVE ListInv'
    OBVIOUS
  <1> USE PointerAssumption
  <1>0. listed \in Seq(Screens) /\ DOMAIN listed = 1 .. Len(listed) /\ Len(listed) \in Nat
    BY DEF ListInv, ListTypeOK
  <1>1. ASSUME NEW s \in Screens, NewScreen(s) PROVE ListInv'
    <2>1. next' = [next EXCEPT ![s] = NULL] /\ next[s] = Wild /\ next \in [Screens -> Pointer]
      BY <1>1 DEF ListInv, ListTypeOK, NewScreen, Constructed
    <2>2. ListTypeOK'
      BY <1>1, <2>1 DEF ListInv, ListTypeOK, NewScreen, Pointer, locals
    <2>3. ListFollows'
      <3> SUFFICES ASSUME ~misused, pc # "unbuilt" PROVE ListFollows'
        BY <1>1 DEF ListFollows, NewScreen
      <3>1. \A k \in DOMAIN listed : listed[k] \in Screens /\ listed[k] # s
        BY <1>0, <2>1 DEF ListInv, ListFollows, Pointer
      <3>2. \A k \in DOMAIN listed : next'[listed[k]] = next[listed[k]]
        BY <2>1, <3>1
      <3>3. QED
        BY <1>1, <3>2 DEF ListInv, ListFollows, NewScreen
    <2>4. Fresh' /\ ArgSound'
      BY <1>1, <2>1 DEF ListInv, Fresh, ArgSound, NewScreen, InUse, locals
    <2>5. QED
      BY <1>1, <2>2, <2>3, <2>4
      DEF ListInv, StraysOnlyWhenMisused, Unbuilt, WalkSound, NewScreen, locals
  <1>2. ASSUME NewManager PROVE ListInv'
    <2>1. listed = <<>>
      BY <1>2 DEF ListInv, Unbuilt, NewManager
    <2>2. ListTypeOK'
      BY <1>2 DEF ListInv, ListTypeOK, NewManager, Pointer, locals
    <2>3. QED
      BY <1>2, <2>1, <2>2
      DEF ListInv, ListFollows, StraysOnlyWhenMisused, Unbuilt, Fresh, ArgSound,
          WalkSound, NewManager, InUse
  <1>3. ASSUME NEW s \in Screens, NewManagerWith(s) PROVE ListInv'
    <2>1. /\ listed = <<>> /\ listed' = <<>> /\ misused' = (screens # NULL)
          /\ screens' = screens /\ next' = next /\ pc' = "getLast" /\ ptr' = screens
          /\ arg' = s /\ next[s] # Wild /\ ~misused
      BY <1>3 DEF ListInv, Unbuilt, NewManagerWith, CallSetScreen, Constructed
    <2>2. ListTypeOK'
      BY <1>3, <2>1 DEF ListInv, ListTypeOK, NewManagerWith, CallSetScreen
    <2>3. Fresh' /\ StraysOnlyWhenMisused' /\ Unbuilt' /\ ArgSound'
      BY <1>3, <2>1 DEF ListInv, Fresh, StraysOnlyWhenMisused, Unbuilt, ArgSound, InUse
    <2>4. ListFollows' /\ WalkSound'
      BY <2>1, ShortSequences DEF ListFollows, WalkSound
    <2>5. QED
      BY <2>2, <2>3, <2>4 DEF ListInv
  <1>4. ASSUME NEW s \in Screens, SetScreen(s) PROVE ListInv'
    <2>1. /\ UNCHANGED <<screens, next, listed, misused>> /\ pc = "idle"
          /\ pc' = "getLast" /\ ptr' = screens /\ arg' = s /\ next[s] # Wild
      BY <1>4 DEF SetScreen, CallSetScreen, Constructed
    <2>2. ListTypeOK'
      BY <1>4, <2>1 DEF ListInv, ListTypeOK, SetScreen, CallSetScreen
    <2>3. WalkSound'
      BY <1>0, <2>1 DEF ListInv, ListFollows, WalkSound
    <2>4. QED
      BY <2>1, <2>2, <2>3
      DEF ListInv, ListFollows, StraysOnlyWhenMisused, Unbuilt, Fresh, ArgSound, InUse
  <1>5. ASSUME NEW k \in Indexes, CallGetScreen(k) PROVE ListInv'
    <2>1. /\ UNCHANGED <<screens, next, arg, reply, listed, misused>> /\ pc = "idle"
          /\ pc' = "getScreen" /\ ptr' = screens /\ index' = k /\ i' = 0
      BY <1>5 DEF CallGetScreen
    <2>2. ListTypeOK'
      BY <2>1, IndexAssumption DEF ListInv, ListTypeOK
    <2>3. WalkSound'
      BY <1>0, <2>1 DEF ListInv, ListFollows, WalkSound
    <2>4. QED
      BY <2>1, <2>2, <2>3
      DEF ListInv, ListFollows, StraysOnlyWhenMisused, Unbuilt, Fresh, ArgSound, InUse
  <1>6. QED
    BY <1>1, <1>2, <1>3, <1>4, <1>5 DEF Call

(* A call that returns or strays moves no pointer.                         *)
LEMMA EndInv == ListInv /\ (GetScreenReturns \/ Stray) => ListInv'
  <1> SUFFICES ASSUME ListInv, GetScreenReturns \/ Stray PROVE ListInv'
    OBVIOUS
  <1> USE PointerAssumption
  <1>1. UNCHANGED <<screens, next, locals, listed, misused>>
    BY DEF GetScreenReturns, Stray
  <1>2. ListTypeOK'
    BY <1>1 DEF ListInv, ListTypeOK, GetScreenReturns, Stray, Return, locals
  <1>3. pc \in {"getLast", "getScreen"} /\ pc' \in {"idle", "lost"}
    BY DEF GetScreenReturns, Stray, Return
  <1>4. pc' = "lost" => misused
    <2> SUFFICES ASSUME ~misused PROVE pc' # "lost"
      OBVIOUS
    <2>1. listed \in Seq(Screens) /\ DOMAIN listed = 1 .. Len(listed) /\ Len(listed) \in Nat
      BY DEF ListInv, ListTypeOK
    <2>2. ptr # Wild
      BY <1>3, <2>1 DEF ListInv, ListTypeOK, WalkSound
    <2>3. QED
      BY <2>2 DEF GetScreenReturns, Stray, Return
  <1>5. QED
    BY <1>1, <1>2, <1>3, <1>4
    DEF ListInv, ListFollows, StraysOnlyWhenMisused, Unbuilt, Fresh, ArgSound,
        WalkSound, InUse

-------------------------------------------------------------------------------
(* Every step preserves the invariant.                                     *)
LEMMA NextListInv == ListInv /\ [ListNext]_listVars => ListInv'
  <1>1. ListInv /\ UNCHANGED listVars => ListInv'
    BY DEF ListInv, ListTypeOK, ListFollows, StraysOnlyWhenMisused, Unbuilt, Fresh,
           ArgSound, WalkSound, InUse, listVars, locals
  <1>2. QED
    BY <1>1, SetFirstInv, SetAfterLastInv, FollowInv, EndInv, CallInv
    DEF ListNext, Walk

(* The invariant holds in every reachable state.                           *)
LEMMA ListInvariant == ListSpec => []ListInv
  BY InitListInv, NextListInv, PTL DEF ListSpec

(* Every variable of the list keeps its type.                              *)
THEOREM ListTyped == ListSpec => []ListTypeOK
  <1>1. ListInv => ListTypeOK
    BY DEF ListInv
  <1>2. QED
    BY <1>1, ListInvariant, PTL

(* The pointers are the sequence of the screens added.                     *)
THEOREM PointersFollow == ListSpec => []ListFollows
  <1>1. ListInv => ListFollows
    BY DEF ListInv
  <1>2. QED
    BY <1>1, ListInvariant, PTL

(* No call goes through a pointer that was never written.                  *)
THEOREM NoStray == ListSpec => []StraysOnlyWhenMisused
  <1>1. ListInv => StraysOnlyWhenMisused
    BY DEF ListInv
  <1>2. QED
    BY <1>1, ListInvariant, PTL

-------------------------------------------------------------------------------
(* getScreen's walk has as many turns as its index says, whatever has      *)
(* become of the list; getLast's goes along the sequence of the screens,   *)
(* in each turn to the next one, as long as no screen was added twice.     *)
WalkNears ==
  [][/\ FollowToIndex => index' - i' \in Nat /\ index' - i' < index - i
     /\ FollowToLast /\ ~misused =>
          \E k \in 1 .. Len(listed) - 1 :
            ptr = listed[k] /\ ptr' = listed[k + 1] /\ listed' = listed]_listVars

(* The loops of getScreen and getLast come to an end: a turn is never one  *)
(* back.                                                                   *)
THEOREM WalkNearsEnd == ListSpec => WalkNears
  <1> DEFINE Nears ==
        /\ FollowToIndex => index' - i' \in Nat /\ index' - i' < index - i
        /\ FollowToLast /\ ~misused =>
             \E k \in 1 .. Len(listed) - 1 :
               ptr = listed[k] /\ ptr' = listed[k + 1] /\ listed' = listed
  <1>1. ListInv /\ [ListNext]_listVars => [Nears]_listVars
    <2> SUFFICES ASSUME ListInv PROVE Nears
      OBVIOUS
    <2>1. ASSUME FollowToIndex PROVE index' - i' \in Nat /\ index' - i' < index - i
      BY <2>1 DEF ListInv, ListTypeOK, FollowToIndex, BelowIndex
    <2>2. ASSUME FollowToLast, ~misused
          PROVE  \E k \in 1 .. Len(listed) - 1 :
                   ptr = listed[k] /\ ptr' = listed[k + 1] /\ listed' = listed
      <3>1. /\ ptr \in Screens /\ ptr' = next[ptr] /\ next[ptr] # NULL /\ listed' = listed
            /\ pc = "getLast" /\ DOMAIN listed = 1 .. Len(listed) /\ Len(listed) \in Nat
        BY <2>2 DEF FollowToLast, ListInv, ListTypeOK
      <3>2. PICK k \in DOMAIN listed : ptr = listed[k]
        BY <2>2, <3>1, PointerAssumption DEF ListInv, WalkSound
      <3>3. next[ptr] = IF k < Len(listed) THEN listed[k + 1] ELSE NULL
        BY <2>2, <3>1, <3>2 DEF ListInv, ListFollows
      <3>4. k \in 1 .. Len(listed) - 1 /\ ptr' = listed[k + 1]
        BY <3>1, <3>2, <3>3
      <3>5. QED
        BY <3>1, <3>2, <3>4
    <2>3. QED
      BY <2>1, <2>2
  <1>2. QED
    BY <1>1, ListInvariant, PTL DEF ListSpec, WalkNears

-------------------------------------------------------------------------------
(* A return of setScreen adds to the sequence, or breaks it.               *)
LEMMA SetRefines ==
  ListInv /\ (SetFirst \/ SetAfterLast) => Sequence!SequenceNext
  <1> SUFFICES ASSUME ListInv, SetFirst \/ SetAfterLast PROVE Sequence!SequenceNext
    OBVIOUS
  <1>1. arg \in Screens /\ reply' = arg /\ Record /\ misused \in BOOLEAN
    BY DEF ListInv, ListTypeOK, ArgSound, SetFirst, SetAfterLast, Return
  <1>2. CASE misused \/ arg \in InUse
    <2>1. misused \/ \E s \in Screens : Sequence!Listed(s)
      BY <1>1, <1>2 DEF InUse, Sequence!Listed
    <2>2. Sequence!Break
      BY <1>1, <1>2, <2>1 DEF Record, Sequence!Break
    <2>3. QED
      BY <2>2 DEF Sequence!SequenceNext
  <1>3. CASE ~misused /\ arg \notin InUse
    <2>1. UNCHANGED <<index, arg>>
      BY DEF SetFirst, SetAfterLast, locals
    <2>2. Sequence!Add
      BY <1>1, <1>3, <2>1, PointerAssumption
      DEF Record, InUse, Sequence!Add, Sequence!Listed
    <2>3. QED
      BY <2>2 DEF Sequence!SequenceNext
  <1>4. QED
    BY <1>2, <1>3

(* A return of getScreen reads the sequence.                               *)
LEMMA GetRefines ==
  ListInv /\ GetScreenReturns => Sequence!SequenceNext
  <1> SUFFICES ASSUME ListInv, GetScreenReturns PROVE Sequence!SequenceNext
    OBVIOUS
  <1>1. /\ reply' = ptr /\ listed' = listed /\ misused' = misused /\ pc = "getScreen"
        /\ index \in Int /\ i \in Nat /\ i <= (IF index < 0 THEN 0 ELSE index)
        /\ i < index => ptr = NULL
        /\ misused \in BOOLEAN /\ listed \in Seq(Screens) /\ UNCHANGED <<index, arg>>
    BY DEF ListInv, ListTypeOK, GetScreenReturns, BelowIndex, Return, locals
  <1>2. CASE misused
    BY <1>1, <1>2 DEF Sequence!Break, Sequence!SequenceNext
  <1>3. CASE ~misused
    <2>1. /\ Len(listed) \in Nat /\ i <= Len(listed)
          /\ ptr = IF i < Len(listed) THEN listed[i + 1] ELSE NULL
      BY <1>1, <1>3 DEF ListInv, WalkSound
    <2>2. i < Len(listed) => listed[i + 1] # NULL
      BY <1>1, <2>1, PointerAssumption
    <2>3. ptr = Sequence!Element
      BY <1>1, <2>1, <2>2 DEF Sequence!Element
    <2>4. Sequence!Get
      BY <1>1, <1>3, <2>3 DEF Sequence!Get
    <2>5. QED
      BY <2>4 DEF Sequence!SequenceNext
  <1>4. QED
    BY <1>2, <1>3

(* A call gives its argument or index; the other steps leave the sequence  *)
(* alone, or break it.                                                     *)
LEMMA OtherRefines ==
  ListInv /\ (FollowToLast \/ FollowToIndex \/ Stray \/ Call)
    => Sequence!SequenceNext \/ UNCHANGED <<listed, index, arg, reply, misused>>
  <1>1. ASSUME NEW s \in Screens, CallSetScreen(s), UNCHANGED misused
        PROVE  Sequence!SequenceNext
    BY <1>1 DEF CallSetScreen, Sequence!SequenceNext, Sequence!Ask
  <1>2. ASSUME ListInv, NEW s \in Screens, NewManagerWith(s)
        PROVE  Sequence!SequenceNext
    <2>1. listed = <<>> /\ ~misused /\ misused' \in BOOLEAN /\ CallSetScreen(s)
      BY <1>2 DEF ListInv, Unbuilt, NewManagerWith
    <2>2. CASE misused'
      BY <2>1, <2>2 DEF Sequence!SequenceNext, Sequence!Break
    <2>3. CASE ~misused'
      BY <1>1, <1>2, <2>1, <2>3 DEF ListInv, ListTypeOK
    <2>4. QED
      BY <2>2, <2>3
  <1>3. ASSUME NEW k \in Indexes, CallGetScreen(k) PROVE Sequence!SequenceNext
    BY <1>3 DEF CallGetScreen, Sequence!SequenceNext, Sequence!Ask
  <1>4. QED
    BY <1>1, <1>2, <1>3
    DEF FollowToLast, FollowToIndex, Stray, Call, NewScreen, NewManager, SetScreen, locals

(* setScreen and getScreen implement those of a sequence, over any memory. *)
THEOREM RefinesSequence == ListSpec => ImplementsSequence
  <1>1. ListInit => Sequence!SequenceInit
    BY DEF ListInit, Sequence!SequenceInit
  <1>2. ListInv /\ [ListNext]_listVars
          => [Sequence!SequenceNext]_<<listed, index, arg, reply, misused>>
    <2>1. UNCHANGED listVars => UNCHANGED <<listed, index, arg, reply, misused>>
      BY DEF listVars, locals
    <2>2. QED
      BY <2>1, SetRefines, GetRefines, OtherRefines DEF ListNext, Walk
  <1>3. QED
    BY <1>1, <1>2, ListInvariant, PTL
    DEF ListSpec, ImplementsSequence, Sequence!SequenceSpec, Sequence!sequenceVars
===============================================================================
