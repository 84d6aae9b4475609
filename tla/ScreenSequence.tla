---------------------------- MODULE ScreenSequence -----------------------------
(***************************************************************************)
(* What ScreenManager (kernel/screen.hpp) promises: a sequence of screens, *)
(* to which setScreen adds one and whose elements getScreen returns.  The  *)
(* promise ends where the code gives none: for a screen added twice, and   *)
(* for a manager built with a screen in memory that was not clear.         *)
(***************************************************************************)
EXTENDS Integers, Sequences

CONSTANTS Screens, NULL, Indexes

VARIABLES
  list,
  index, arg,  \* what the calls were last given
  reply,       \* what they last returned
  broken

sequenceVars == <<list, index, arg, reply, broken>>

Listed(s) == \E k \in DOMAIN list : list[k] = s

(* An index below zero counts as zero, one beyond the end has no screen.   *)
Element ==
  LET k == IF index < 0 THEN 0 ELSE index
  IN IF k < Len(list) THEN list[k + 1] ELSE NULL

SequenceInit ==
  list = <<>> /\ index = 0 /\ arg = NULL /\ reply = NULL /\ broken = FALSE

Ask(k, s) ==
  /\ index' = k /\ arg' = s
  /\ UNCHANGED <<list, reply, broken>>

Add ==
  /\ ~broken /\ arg # NULL /\ ~Listed(arg)
  /\ list' = Append(list, arg) /\ reply' = arg
  /\ UNCHANGED <<index, arg, broken>>

Get ==
  /\ ~broken
  /\ reply' = Element
  /\ UNCHANGED <<list, index, arg, broken>>

Break == (broken \/ list = <<>> \/ \E s \in Screens : Listed(s)) /\ broken'

SequenceNext ==
  \/ \E k \in Indexes : Ask(k, arg)
  \/ \E s \in Screens : Ask(index, s)
  \/ Add
  \/ Get
  \/ Break

SequenceSpec == SequenceInit /\ [][SequenceNext]_sequenceVars
===============================================================================
