------------------------------- MODULE MCDisplay -------------------------------
(***************************************************************************)
(* An instance of Display with cells of one pixel by two, the squares and  *)
(* the picture moved accordingly, and indexes of 9 bits.  280 pixels are   *)
(* 28 by 10 or 35 by 8: of the modes two have room below, two fit to the   *)
(* pixel, one has too many pixels, one too short rows, two padded rows and *)
(* one a frame buffer larger than its rows.  A cursor starts at the top,   *)
(* among the rows, below them, at a row whose index wraps to 0 in a mode   *)
(* of 24, at the one whose strip has no end, or at the last.               *)
(***************************************************************************)
EXTENDS Display

ModeSet ==
  {[x_axis |-> x, y_axis |-> y, ppsl |-> x + pad, fb_size |-> 4 * ((x + pad) * y + more)] :
     <<x, y, pad, more>> \in
       {<<24, 8, 0, 0>>, <<25, 8, 0, 90>>, <<28, 10, 0, 0>>, <<35, 8, 0, 0>>,
        <<28, 11, 0, 0>>, <<20, 9, 0, 0>>, <<24, 8, 2, 0>>, <<28, 9, 5, 0>>}}

SquareRects == <<Rect(12, 3, 14, 5), Rect(13, 4, 14, 6)>>
PictureRect == Rect(22, 5, 23, 6)
===============================================================================
