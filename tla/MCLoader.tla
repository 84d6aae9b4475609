------------------------------- MODULE MCLoader -------------------------------
(* Instance of Loader for TLC: images of one or two segments, aligned or   *)
(* not, over four pages that the firmware holds in part.                   *)
EXTENDS Loader

Segment(addr, size) == [load |-> TRUE, vaddr |-> addr, memsz |-> size, filesz |-> size]

MCTables ==
  {<<Segment(3, 3)>>, <<Segment(1, 2), Segment(4, 3)>>}

MCHeaders == {Segment(6, 2)}
===============================================================================
