--------------------------- MODULE MCFrameAllocator ---------------------------
(* Instance of FrameAllocator for TLC: any memory may lie under the map.   *)
EXTENDS FrameAllocator

MCGarbageMaps == SUBSET Frame
===============================================================================
