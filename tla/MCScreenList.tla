----------------------------- MODULE MCScreenList ------------------------------
(***************************************************************************)
(* An instance of ScreenList: every index from below the list to beyond it *)
(***************************************************************************)
EXTENDS ScreenList, FiniteSets

IndexRange == -1 .. Cardinality(Screens) + 1
===============================================================================
