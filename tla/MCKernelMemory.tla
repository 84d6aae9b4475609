---------------------------- MODULE MCKernelMemory ----------------------------
(* Instance of KernelMemory for TLC.  A memory map is any sequence of up   *)
(* to MapLength disjoint descriptors, in any order, with holes, and with   *)
(* memory up to one page beyond the last frame the manager has a bit for.  *)
EXTENDS KernelMemory

CONSTANTS MapLength, MaxPages, Types

MCDescriptor ==
  {d \in [type : Types, start : 0 .. FrameCount, pages : 1 .. MaxPages] :
     End(d) <= FrameCount + 1}

Disjoint(m) ==
  \A j, k \in DOMAIN m : j < k => FramesOf(m[j]) \cap FramesOf(m[k]) = {}

MCMemoryMaps ==
  UNION {{m \in [1 .. n -> MCDescriptor] : Disjoint(m)} : n \in 0 .. MapLength}

MCGarbageMaps == {{}, {2}}
===============================================================================
