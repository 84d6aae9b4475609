------------------------------ MODULE MCBootChain ------------------------------
(* Instance of BootChain for TLC: an image of one unaligned segment or of  *)
(* two, a bitmap that starts with a frame marked, and a map buffer that    *)
(* was never written: empty, one with a descriptor over the image, or one  *)
(* with a descriptor beyond memory.                                        *)
EXTENDS BootChain

Segment(addr, size) == [load |-> TRUE, vaddr |-> addr, memsz |-> size, filesz |-> size]

MCTables ==
  {<<Segment(3, 3)>>, <<Segment(1, 2), Segment(4, 3)>>}

MCHeaders == {Segment(6, 2)}

MCGarbageMaps == {{1}}

MCStaleMaps ==
  {<<>>,
   <<[type |-> "kEfiConventionalMemory", start |-> 0, pages |-> 3]>>,
   <<[type |-> "kEfiReservedMemoryType", start |-> 6, pages |-> 1]>>}
===============================================================================
