------------------------------ MODULE MCFontFile -------------------------------
(***************************************************************************)
(* An instance of FontFile: two glyphs of two rows, and every text of up   *)
(* to seven lines, one more than two glyphs need, of headers and two kinds *)
(* of row, neither of them symmetric.                                      *)
(***************************************************************************)
EXTENDS FontFile

RowOf(at) == [x \in 0 .. Cols - 1 |-> x \in at]
LineSet == {Header, RowOf({0, 2}), RowOf({1, 4, 5})}
TextSet == UNION {[1 .. n -> LineSet] : n \in 0 .. 7}
===============================================================================
