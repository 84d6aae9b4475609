-------------------------- MODULE BitMapPictureProofs --------------------------
(***************************************************************************)
(* Proofs about BitMapPicture, for every width, height and number of bits  *)
(* that a header may have.                                                 *)
(*                                                                         *)
(* The argument: the index of a pixel is a number of two digits, its row   *)
(* from the bottom and its place in the row, where a row that needs no     *)
(* padding is the base (PixelByte); padding only makes the image larger    *)
(* (IndexInImage).  What is drawn is what the counters of the two loops    *)
(* have gone through (DrawnSoFar).                                         *)
(***************************************************************************)
EXTENDS BitMapPicture, TLAPS

PicTypeOK ==
  /\ info.bcWidth \in Nat /\ info.bcHeight \in Int /\ info.bcBitCount \in Nat
  /\ height \in Nat /\ isAscend \in BOOLEAN
  /\ pc \in {"construct", "columns", "rows", "done"}
  /\ i \in 0 .. info.bcWidth /\ j \in Nat
  /\ outside \in BOOLEAN

(* The columns behind i are drawn, and the rows before j of column i.      *)
DrawnSoFar ==
  /\ pc = "construct" => i = 0 /\ ~outside
  /\ pc = "rows" => i < info.bcWidth /\ j <= height
  /\ pc = "done" => i = info.bcWidth
  /\ DOMAIN drawn =
       {p \in (0 .. info.bcWidth - 1) \X (0 .. height - 1) :
          p[1] < i \/ (pc = "rows" /\ p[1] = i /\ p[2] < j)}

Unpadded == (info.bcWidth * BytesPerPixel) % 4 = 0

(* Read from where they are stored, and none behind the image.             *)
PixelsStored ==
  ~isAscend /\ BytesPerPixel >= 3 =>
    /\ ~outside
    /\ Unpadded =>
         \A p \in DOMAIN drawn :
           /\ drawn[p].b = <<"byte", p[1], p[2], 0>>
           /\ drawn[p].g = <<"byte", p[1], p[2], 1>>
           /\ drawn[p].r = <<"byte", p[1], p[2], 2>>

PicInv == PicTypeOK /\ DrawnSoFar /\ PixelsStored

-------------------------------------------------------------------------------
(* A number of two digits to the base b has these digits.                  *)
LEMMA Digits ==
  ASSUME NEW a \in Nat, NEW b \in Nat \ {0}
  PROVE  /\ a = b * (a \div b) + (a % b)
         /\ a \div b \in Nat /\ a % b \in Nat /\ a % b < b
  OBVIOUS

LEMMA TwoDigits ==
  ASSUME NEW a \in Nat, NEW b \in Nat \ {0}, NEW q \in Nat, NEW r \in Nat,
         r < b, a = b * q + r
  PROVE  a \div b = q /\ a % b = r
  <1> DEFINE p == a \div b
             s == a % b
  <1>1. p \in Nat /\ s \in Nat /\ s < b /\ a = b * p + s
    BY Digits
  <1> HIDE DEF p, s
  <1>2. \A u \in Nat, v \in Nat : u + 1 <= v => b * u + b <= b * v
    <2> SUFFICES ASSUME NEW u \in Nat, NEW v \in Nat, u + 1 <= v PROVE b * u + b <= b * v
      OBVIOUS
    <2>1. b * (u + 1) <= b * v
      OBVIOUS
    <2>2. b * (u + 1) = b * u + b
      OBVIOUS
    <2>3. QED
      BY <2>1, <2>2
  <1>3. b * p \in Nat /\ b * q \in Nat
    BY <1>1
  <1>4. ~(p + 1 <= q) /\ ~(q + 1 <= p)
    BY <1>1, <1>2, <1>3
  <1>5. p = q
    BY <1>1, <1>4
  <1>6. QED
    BY <1>1, <1>3, <1>5 DEF p, s

(* A row is padded to four bytes, or needs no padding.                     *)
LEMMA Padding ==
  ASSUME NEW n \in Nat
  PROVE  /\ ((n + 3) \div 4) * 4 \in Nat /\ n <= ((n + 3) \div 4) * 4
         /\ n % 4 = 0 => ((n + 3) \div 4) * 4 = n
  OBVIOUS

(* The index of a pixel in a picture from the bottom up.                   *)
LEMMA IndexDigits ==
  ASSUME NEW w \in Nat, NEW h \in Nat, NEW d \in Nat, d >= 3,
         NEW x \in 0 .. w - 1, NEW y \in 0 .. h - 1, NEW c \in 0 .. 2
  PROVE  /\ h - y - 1 \in Nat /\ w * d \in Nat \ {0} /\ d * x + c \in Nat
         /\ d * x + c < w * d
         /\ d * (w * (h - y - 1) + x) + c = (w * d) * (h - y - 1) + (d * x + c)
         /\ (w * d) * (h - y - 1) + (d * x + c) < (w * d) * h
         /\ (w * d) * h \in Nat
  <1> DEFINE q == h - y - 1
  <1>1. q \in Nat /\ q + 1 <= h
    OBVIOUS
  <1>2. w * d \in Nat /\ d * x \in Nat /\ w \in Nat \ {0}
    OBVIOUS
  <1>3. d * x + d <= w * d
    <2>1. (x + 1) * d <= w * d
      OBVIOUS
    <2>2. (x + 1) * d = d * x + d
      OBVIOUS
    <2>3. QED
      BY <2>1, <2>2
  <1> HIDE DEF q
  <1>4. d * (w * q + x) = (w * d) * q + d * x
    BY <1>1
  <1>5. (w * d) * q + w * d <= (w * d) * h /\ (w * d) * h \in Nat /\ (w * d) * q \in Nat
    <2>1. \A u \in Nat : u * (q + 1) <= u * h /\ u * (q + 1) = u * q + u /\ u * h \in Nat /\ u * q \in Nat
      BY <1>1
    <2>2. QED
      BY <1>2, <2>1
  <1>6. d * (w * q + x) + c = (w * d) * q + (d * x + c)
    BY <1>2, <1>4, <1>5
  <1>7. d * x + c < w * d /\ d * x + c \in Nat
    BY <1>2, <1>3
  <1>8. (w * d) * q + (d * x + c) < (w * d) * h
    BY <1>2, <1>5, <1>7
  <1>9. QED
    BY <1>1, <1>2, <1>3, <1>5, <1>6, <1>7, <1>8 DEF q

(* The header's numbers.                                                   *)
LEMMA HeaderFacts ==
  ASSUME PicTypeOK
  PROVE  /\ info.bcWidth \in Nat /\ BytesPerPixel \in Nat
         /\ info.bcWidth * BytesPerPixel \in Nat
         /\ Stride \in Nat /\ info.bcWidth * BytesPerPixel <= Stride
         /\ Unpadded => Stride = info.bcWidth * BytesPerPixel
  <1>1. info.bcWidth \in Nat /\ info.bcBitCount \in Nat
    BY DEF PicTypeOK
  <1>2. BytesPerPixel \in Nat
    BY <1>1 DEF BytesPerPixel
  <1>3. info.bcWidth * BytesPerPixel \in Nat
    BY <1>1, <1>2
  <1>4. QED
    BY <1>1, <1>2, <1>3, Padding DEF Stride, Unpadded

(* No byte of a pixel lies behind the image.                               *)
LEMMA IndexInImage ==
  ASSUME PicTypeOK, ~isAscend, BytesPerPixel >= 3,
         NEW x \in 0 .. info.bcWidth - 1, NEW y \in 0 .. height - 1, NEW c \in 0 .. 2
  PROVE  Index(x, y) + c \in 0 .. ImageBytes - 1
  <1> DEFINE d == BytesPerPixel
             w == info.bcWidth
  <1>1. w \in Nat /\ d \in Nat /\ d >= 3 /\ height \in Nat
    BY HeaderFacts DEF PicTypeOK
  <1>2. Index(x, y) = d * (w * (height - y - 1) + x)
    BY DEF Index, RowFromBottom
  <1>3. Stride \in Nat /\ w * d <= Stride
    BY HeaderFacts
  <1> HIDE DEF d, w
  <1>4. x \in 0 .. w - 1
    BY DEF w
  <1>5. /\ Index(x, y) + c = (w * d) * (height - y - 1) + (d * x + c)
        /\ (w * d) * (height - y - 1) + (d * x + c) < (w * d) * height
        /\ height - y - 1 \in Nat /\ w * d \in Nat \ {0} /\ d * x + c \in Nat
        /\ (w * d) * height \in Nat
    BY <1>1, <1>2, <1>4, IndexDigits
  <1>6. (w * d) * height <= Stride * height /\ Stride * height \in Nat
    BY <1>1, <1>3, <1>5
  <1>7. Index(x, y) + c \in Nat
    BY <1>5
  <1>8. QED
    BY <1>5, <1>6, <1>7 DEF ImageBytes

(* In a picture without padding it is the byte of that pixel.              *)
LEMMA PixelByte ==
  ASSUME PicTypeOK, ~isAscend, BytesPerPixel >= 3, Unpadded,
         NEW x \in 0 .. info.bcWidth - 1, NEW y \in 0 .. height - 1, NEW c \in 0 .. 2
  PROVE  Byte(Index(x, y) + c) = <<"byte", x, y, c>>
  <1> DEFINE d == BytesPerPixel
             w == info.bcWidth
             b == Index(x, y) + c
             q == height - y - 1
             s == d * x + c
  <1>1. w \in Nat /\ d \in Nat /\ d >= 3 /\ height \in Nat
    BY HeaderFacts DEF PicTypeOK
  <1>2. Index(x, y) = d * (w * q + x)
    BY DEF Index, RowFromBottom
  <1>3. Stride = w * d
    BY HeaderFacts
  <1>4. b \in 0 .. ImageBytes - 1
    BY IndexInImage
  <1>5. x \in 0 .. w - 1
    OBVIOUS
  <1>6. /\ b = (w * d) * q + s /\ q \in Nat /\ w * d \in Nat \ {0} /\ s \in Nat /\ s < w * d
    <2> HIDE DEF d, w
    <2>1. QED
      BY <1>1, <1>2, <1>5, IndexDigits
  <1>7. b \in Nat
    BY <1>6
  <1> HIDE DEF d, w, b, q, s
  <1>8. b \div Stride = q /\ b % Stride = s
    BY <1>3, <1>6, <1>7, TwoDigits
  <1>9. s \div d = x /\ s % d = c
    <2>1. x \in Nat /\ c \in Nat /\ c < d /\ d \in Nat \ {0} /\ s = d * x + c
      BY <1>1, <1>5 DEF s
    <2>2. QED
      BY <1>6, <2>1, TwoDigits
  <1>10. height - 1 - q = y
    BY <1>1 DEF q
  <1>11. Byte(b) = <<"byte", x, y, c>>
    <2>1. ~(b \notin 0 .. ImageBytes - 1 \/ (b % Stride) \div BytesPerPixel >= info.bcWidth)
      BY <1>1, <1>4, <1>5, <1>8, <1>9 DEF d, w
    <2>2. /\ (b % Stride) \div BytesPerPixel = x /\ (b % Stride) % BytesPerPixel = c
          /\ height - 1 - (b \div Stride) = y
      BY <1>8, <1>9, <1>10 DEF d
    <2>3. QED
      BY <2>1, <2>2 DEF Byte
  <1>12. QED
    BY <1>11 DEF b

-------------------------------------------------------------------------------
(* Nothing is drawn at first.                                              *)
LEMMA PicInitInv == PicInit => PicInv
  <1> SUFFICES ASSUME PicInit PROVE PicInv
    OBVIOUS
  <1>1. info.bcWidth \in Nat /\ info.bcHeight \in Int /\ info.bcBitCount \in Nat
    BY HeaderAssumption DEF PicInit
  <1>2. PicTypeOK
    <2>1. /\ height = 0 /\ isAscend = FALSE /\ pc = "construct" /\ i = 0 /\ j = 0
          /\ outside = FALSE
      BY DEF PicInit
    <2>2. isAscend \in BOOLEAN /\ outside \in BOOLEAN
      BY <2>1, Zenon
    <2>3. height \in Nat /\ i \in 0 .. info.bcWidth /\ j \in Nat
      BY <1>1, <2>1
    <2>4. QED
      BY <1>1, <2>1, <2>2, <2>3, Zenon DEF PicTypeOK
  <1>3. DOMAIN drawn = {}
    BY DEF PicInit
  <1>4. DrawnSoFar
    BY <1>1, <1>3 DEF PicInit, DrawnSoFar
  <1>5. PixelsStored
    BY <1>3 DEF PicInit, PixelsStored
  <1>6. QED
    BY <1>2, <1>4, <1>5 DEF PicInv

(* The pixel drawn next has the colour stored for it.                      *)
LEMMA DrawPixelInv == PicInv /\ DrawPixel => PicInv'
  <1> SUFFICES ASSUME PicInv, DrawPixel PROVE PicInv'
    OBVIOUS
  <1>1. PicTypeOK /\ DrawnSoFar /\ PixelsStored
    BY DEF PicInv
  <1>2. /\ pc = "rows" /\ pc' = pc /\ j < height /\ j' = j + 1 /\ i' = i
        /\ info' = info /\ height' = height /\ isAscend' = isAscend
    BY DEF DrawPixel, InRows
  <1>3. i \in 0 .. info.bcWidth - 1 /\ j \in 0 .. height - 1 /\ height \in Nat /\ info.bcWidth \in Nat
    BY <1>1, <1>2 DEF PicTypeOK, DrawnSoFar
  <1>4. /\ DOMAIN drawn' = DOMAIN drawn \cup {<<i, j>>}
        /\ drawn'[<<i, j>>] = GetColor(i, j)
        /\ \A p \in DOMAIN drawn : p # <<i, j>> => drawn'[p] = drawn[p]
    BY DEF DrawPixel
  <1>5. PicTypeOK'
    <2>1. outside' \in BOOLEAN
      BY <1>1 DEF DrawPixel, PicTypeOK
    <2>2. QED
      BY <1>1, <1>2, <1>3, <2>1 DEF PicTypeOK
  <1>6. DrawnSoFar'
    <2>1. DOMAIN drawn' = {p \in (0 .. info.bcWidth - 1) \X (0 .. height - 1) :
                             p[1] < i \/ (p[1] = i /\ p[2] < j + 1)}
      BY <1>1, <1>2, <1>3, <1>4 DEF DrawnSoFar
    <2>2. QED
      BY <1>2, <1>3, <2>1 DEF DrawnSoFar
  <1>7. PixelsStored'
    <2> SUFFICES ASSUME ~isAscend, BytesPerPixel >= 3
                 PROVE  /\ ~outside'
                        /\ Unpadded =>
                             \A p \in DOMAIN drawn' :
                               /\ drawn'[p].b = <<"byte", p[1], p[2], 0>>
                               /\ drawn'[p].g = <<"byte", p[1], p[2], 1>>
                               /\ drawn'[p].r = <<"byte", p[1], p[2], 2>>
      BY <1>2 DEF PixelsStored, BytesPerPixel, Unpadded
    <2>1. ~outside'
      <3>1. Index(i, j) + 0 \in 0 .. ImageBytes - 1 /\ Index(i, j) + 2 \in 0 .. ImageBytes - 1
        BY <1>1, <1>3, IndexInImage
      <3>2. Index(i, j) \in Int
        BY <1>1, <1>3, HeaderFacts DEF Index, RowFromBottom, PicTypeOK
      <3>3. ImageBytes \in Int
        BY <1>1, HeaderFacts DEF ImageBytes, PicTypeOK
      <3>4. ~(Index(i, j) < 0) /\ ~(Index(i, j) + 2 >= ImageBytes)
        BY <3>1, <3>2, <3>3
      <3>5. ~outside
        BY <1>1 DEF PixelsStored
      <3>6. QED
        BY <3>4, <3>5 DEF DrawPixel
    <2>2. ASSUME Unpadded, NEW p \in DOMAIN drawn'
          PROVE  /\ drawn'[p].b = <<"byte", p[1], p[2], 0>>
                 /\ drawn'[p].g = <<"byte", p[1], p[2], 1>>
                 /\ drawn'[p].r = <<"byte", p[1], p[2], 2>>
      <3>1. CASE p = <<i, j>>
        <4>1. /\ Byte(Index(i, j) + 0) = <<"byte", i, j, 0>>
              /\ Byte(Index(i, j) + 1) = <<"byte", i, j, 1>>
              /\ Byte(Index(i, j) + 2) = <<"byte", i, j, 2>>
          BY <1>1, <1>3, <2>2, PixelByte
        <4>2. Index(i, j) + 0 = Index(i, j)
          BY <1>1, <1>3, HeaderFacts DEF Index, RowFromBottom, PicTypeOK
        <4>3. p[1] = i /\ p[2] = j
          BY <3>1
        <4>4. QED
          BY <1>4, <3>1, <4>1, <4>2, <4>3 DEF GetColor
      <3>2. CASE p # <<i, j>>
        BY <1>1, <1>4, <2>2, <3>2 DEF PixelsStored
      <3>3. QED
        BY <3>1, <3>2
    <2>3. QED
      BY <2>1, <2>2
  <1>8. QED
    BY <1>5, <1>6, <1>7 DEF PicInv

(* The other steps draw nothing.                                           *)
LEMMA PicInvStep == PicInv /\ [PicNext]_picVars => PicInv'
  <1> SUFFICES ASSUME PicInv, [PicNext]_picVars PROVE PicInv'
    OBVIOUS
  <1>1. PicTypeOK /\ DrawnSoFar /\ PixelsStored
    BY DEF PicInv
  <1>2. CASE NewBitMapImage
    <2>1. /\ pc = "construct" /\ pc' = "columns" /\ height' \in Nat /\ isAscend' \in BOOLEAN
          /\ UNCHANGED <<info, i, j, drawn, outside>>
      BY <1>1, <1>2 DEF NewBitMapImage, PicTypeOK
    <2>2. i = 0 /\ DOMAIN drawn = {} /\ ~outside
      BY <1>1, <2>1 DEF DrawnSoFar, PicTypeOK
    <2>3. PicTypeOK'
      BY <1>1, <2>1 DEF PicTypeOK
    <2>4. DrawnSoFar'
      BY <1>1, <2>1, <2>2 DEF DrawnSoFar, PicTypeOK
    <2>5. PixelsStored'
      BY <1>1, <2>1, <2>2 DEF PixelsStored, BytesPerPixel, Unpadded
    <2>6. QED
      BY <2>3, <2>4, <2>5 DEF PicInv
  <1>3. CASE Column
    <2>1. /\ pc = "columns" /\ pc' = IF i < info.bcWidth THEN "rows" ELSE "done"
          /\ j' = 0 /\ UNCHANGED <<info, height, isAscend, i, drawn, outside>>
      BY <1>3 DEF Column
    <2>2. PicTypeOK'
      BY <1>1, <2>1 DEF PicTypeOK
    <2>3. DrawnSoFar'
      BY <1>1, <2>1 DEF DrawnSoFar, PicTypeOK
    <2>4. PixelsStored'
      BY <1>1, <2>1 DEF PixelsStored, BytesPerPixel, Unpadded
    <2>5. QED
      BY <2>2, <2>3, <2>4 DEF PicInv
  <1>4. CASE DrawPixel
    BY <1>4, DrawPixelInv
  <1>5. CASE EndColumn
    <2>1. /\ pc = "rows" /\ pc' = "columns" /\ ~(j < height) /\ i' = i + 1
          /\ UNCHANGED <<info, height, isAscend, j, drawn, outside>>
      BY <1>5 DEF EndColumn, InRows
    <2>2. PicTypeOK'
      BY <1>1, <2>1 DEF PicTypeOK, DrawnSoFar
    <2>3. DrawnSoFar'
      BY <1>1, <2>1 DEF DrawnSoFar, PicTypeOK
    <2>4. PixelsStored'
      BY <1>1, <2>1 DEF PixelsStored, BytesPerPixel, Unpadded
    <2>5. QED
      BY <2>2, <2>3, <2>4 DEF PicInv
  <1>6. CASE UNCHANGED picVars
    BY <1>1, <1>6
    DEF PicInv, PicTypeOK, DrawnSoFar, PixelsStored, BytesPerPixel, Unpadded, picVars
  <1>7. QED
    BY <1>2, <1>3, <1>4, <1>5, <1>6 DEF PicNext

(* Of a picture from the bottom up nothing behind the image is read; if    *)
(* its rows need no padding, each pixel is drawn as it is stored, and all  *)
(* of them are drawn.                                                      *)
THEOREM DrawnAsStored == PicSpec => []PictureAsStored
  <1>1. PicInv => PictureAsStored
    <2> SUFFICES ASSUME PicInv, ~isAscend, BytesPerPixel >= 3
                 PROVE  /\ ~outside
                        /\ Unpadded =>
                             /\ \A p \in DOMAIN drawn :
                                  /\ drawn[p].b = <<"byte", p[1], p[2], 0>>
                                  /\ drawn[p].g = <<"byte", p[1], p[2], 1>>
                                  /\ drawn[p].r = <<"byte", p[1], p[2], 2>>
                             /\ pc = "done" =>
                                  DOMAIN drawn = (0 .. info.bcWidth - 1) \X (0 .. height - 1)
      BY DEF PictureAsStored, Unpadded
    <2>1. pc = "done" => DOMAIN drawn = (0 .. info.bcWidth - 1) \X (0 .. height - 1)
      BY DEF PicInv, PicTypeOK, DrawnSoFar
    <2>2. QED
      BY <2>1 DEF PicInv, PixelsStored
  <1>2. QED
    BY <1>1, PicInitInv, PicInvStep, PTL DEF PicSpec
===============================================================================
