----------------------------- MODULE BitMapPicture -----------------------------
(***************************************************************************)
(* The kernel's reader of a BMP file (kernel/bmp.cpp) in the loops of      *)
(* printBmp (kernel/screen.cpp).  A byte of the file is the pixel and the  *)
(* component that the format puts there: rows from the bottom up, or from  *)
(* the top down when the height is negative, each padded to four bytes.    *)
(***************************************************************************)
EXTENDS Integers

CONSTANTS Widths, Heights, BitCounts  \* what the headers considered may say

ASSUME HeaderAssumption == Widths \subseteq Nat /\ Heights \subseteq Int /\ BitCounts \subseteq Nat

VARIABLES
  info,                      \* bcWidth, bcHeight and bcBitCount
  height, isAscend,          \* members of BitMapImage
  pc, i, j,
  drawn,                     \* the pixels drawn, with their colours
  outside                    \* history: a byte behind the image was read

picVars == <<info, height, isAscend, pc, i, j, drawn, outside>>

PicInit ==
  /\ info \in [bcWidth : Widths, bcHeight : Heights, bcBitCount : BitCounts]
  /\ height = 0 /\ isAscend = FALSE
  /\ pc = "construct" /\ i = 0 /\ j = 0
  /\ drawn = [p \in {} |-> 0] /\ outside = FALSE

(* BitMapImage(file); width is bcWidth.                                    *)
NewBitMapImage ==
  /\ pc = "construct" /\ pc' = "columns"
  /\ isAscend' = (info.bcHeight < 0)
  /\ height' = IF info.bcHeight < 0 THEN -info.bcHeight ELSE info.bcHeight
  /\ UNCHANGED <<info, i, j, drawn, outside>>

-------------------------------------------------------------------------------
(* The file: bytes of a row, of the image, and what one of them holds.     *)
BytesPerPixel == info.bcBitCount \div 8
Stride == ((info.bcWidth * BytesPerPixel + 3) \div 4) * 4
ImageBytes == Stride * height

Byte(b) ==
  LET row == b \div Stride
      column == (b % Stride) \div BytesPerPixel
  IN IF b \notin 0 .. ImageBytes - 1 \/ column >= info.bcWidth THEN <<"none">>
     ELSE <<"byte", column, IF isAscend THEN row ELSE height - 1 - row,
            (b % Stride) % BytesPerPixel>>

(* Mutant: rows counted from one row too low.                              *)
RowFromBelow(y) == height - y

RowFromBottom(y) == height - y - 1

(* getColor: the index of the first of three bytes.                        *)
Index(x, y) ==
  BytesPerPixel *
    (IF ~isAscend THEN info.bcWidth * RowFromBottom(y) + x ELSE info.bcWidth * y + x + 1)

GetColor(x, y) ==
  [r |-> Byte(Index(x, y) + 2), g |-> Byte(Index(x, y) + 1), b |-> Byte(Index(x, y))]

Column ==
  /\ pc = "columns"
  /\ pc' = IF i < info.bcWidth THEN "rows" ELSE "done"
  /\ j' = 0
  /\ UNCHANGED <<info, height, isAscend, i, drawn, outside>>

InRows == j < height

DrawPixel ==
  /\ pc = "rows" /\ InRows
  /\ drawn' = [p \in DOMAIN drawn \cup {<<i, j>>} |->
                 IF p = <<i, j>> THEN GetColor(i, j) ELSE drawn[p]]
  /\ outside' = (outside \/ Index(i, j) < 0 \/ Index(i, j) + 2 >= ImageBytes)
  /\ j' = j + 1
  /\ UNCHANGED <<info, height, isAscend, pc, i>>

EndColumn ==
  /\ pc = "rows" /\ ~InRows
  /\ pc' = "columns" /\ i' = i + 1
  /\ UNCHANGED <<info, height, isAscend, j, drawn, outside>>

PicNext == NewBitMapImage \/ Column \/ DrawPixel \/ EndColumn

PicSpec == PicInit /\ [][PicNext]_picVars

-------------------------------------------------------------------------------
(* Of a picture of 24 bits or more, from the bottom up, no byte behind the *)
(* image is read, padded rows or not; and if its rows need no padding, as  *)
(* those of Mosa.bmp, all of it is drawn as it is stored.                  *)
PictureAsStored ==
  ~isAscend /\ BytesPerPixel >= 3 =>
    /\ ~outside
    /\ (info.bcWidth * BytesPerPixel) % 4 = 0 =>
         /\ \A p \in DOMAIN drawn :
              /\ drawn[p].b = <<"byte", p[1], p[2], 0>>
              /\ drawn[p].g = <<"byte", p[1], p[2], 1>>
              /\ drawn[p].r = <<"byte", p[1], p[2], 2>>
         /\ pc = "done" =>
              DOMAIN drawn = (0 .. info.bcWidth - 1) \X (0 .. height - 1)
===============================================================================
