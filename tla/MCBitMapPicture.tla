---------------------------- MODULE MCBitMapPicture ----------------------------
(***************************************************************************)
(* An instance of BitMapPicture: pictures of both directions, with padded  *)
(* and unpadded rows.                                                      *)
(***************************************************************************)
EXTENDS BitMapPicture

HeightSet == -3 .. 3
===============================================================================
