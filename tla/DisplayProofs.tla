----------------------------- MODULE DisplayProofs -----------------------------
(***************************************************************************)
(* Proofs about Display, for every size of the back buffer, of a cell and  *)
(* of the screen, every place of the squares, any start of the cursors,    *)
(* any number of reserved descriptors, and a picture to the right of 20    *)
(* characters.                                                             *)
(*                                                                         *)
(* The argument: where no shape is wider than the screen and no index      *)
(* wraps, a pixel of the buffer has one pair of coordinates                *)
(* (PixelInjective), so that what a call does to it is what the call does  *)
(* to the picture (DrawnAt).  After its first line print's cursor is on    *)
(* the screen, wherever it started (PrintCursor).  The lines of print lie  *)
(* above it until it starts anew, and beside the place of the picture      *)
(* until that is drawn (LinesAbove).  printd, that never starts anew,      *)
(* writes few messages before a stop (FewMessages).  What does not reach   *)
(* an index beyond the buffer at its last row stays inside (NotBeyond).    *)
(***************************************************************************)
EXTENDS Display, TLAPS

(* The calls of the script, by their number.                               *)
LEMMA ScriptCalls ==
  /\ Len(Script) = 20 /\ DOMAIN Script = 1 .. 20
  /\ Script[1].op = "fill" /\ Script[2].op = "squares" /\ Script[12].op = "picture"
  /\ Script[13].op = "copy" /\ Script[15].op = "loop" /\ Script[18].op = "room"
  /\ Script[20].op = "heap" /\ Script[16] = [op |-> "printd", length |-> 18]
  /\ Script[3] = Line(14) /\ Script[4] = Line(20) /\ Script[5] = Line(15)
  /\ Script[6] = Line(9) /\ Script[7] = Line(13) /\ Script[8] = Line(9)
  /\ Script[9] = Line(14) /\ Script[10] = Line(9) /\ Script[11] = Line(14)
  /\ Script[14] = Line(21) /\ Script[17] = Line(9) /\ Script[19] = Line(10)
  BY DEF Script

(* What a line of the script is.                                           *)
LEMMA LineIs == ASSUME NEW n PROVE Line(n).op = "print" /\ Line(n).length = n
  BY DEF Line

(* What each of them does: the lines before the picture have at most 20    *)
(* characters.                                                             *)
LEMMA CallCases ==
  ASSUME Call
  PROVE  /\ pc \in 1 .. 20 /\ reserved' = reserved
         /\ \/ /\ \/ pc = 1 /\ Draw("fill", {}, Points(mode))
                  \/ pc = 2 /\ Draw("squares", WriteSquare(Squares[1]), WriteSquare(Squares[2]))
                  \/ pc = 12 /\ Draw("picture", {}, WriteSquare(Picture))
               /\ pc' = pc + 1 /\ UNCHANGED <<cursors, messages, lines>>
            \/ pc = 13 /\ CopyScreen /\ pc' = pc + 1
            \/ pc \in 3 .. 11 /\ \E length \in 1 .. 20 : print(length, pc + 1)
            \/ pc \in 14 .. 20 /\ \E length \in 1 .. 21 : print(length, pc + 1)
            \/ pc = 16 /\ printd(18, pc + 1)
  <1>1. pc \in 1 .. 20 /\ reserved' = reserved
    BY ScriptCalls DEF Call, Running
  <1> DEFINE c == Script[pc]
  <1>2. \/ /\ \/ c.op = "fill" /\ Draw("fill", {}, Points(mode))
              \/ c.op = "squares" /\ Draw("squares", WriteSquare(Squares[1]), WriteSquare(Squares[2]))
              \/ c.op = "picture" /\ Draw("picture", {}, WriteSquare(Picture))
           /\ pc' = pc + 1 /\ UNCHANGED <<cursors, messages, lines>>
        \/ c.op = "copy" /\ CopyScreen /\ pc' = pc + 1
        \/ c.op = "print" /\ print(c.length, pc + 1)
        \/ c.op = "printd" /\ printd(c.length, pc + 1)
        \/ c.op = "room" /\ \E length \in {7, 12} : print(length, pc + 1)
        \/ c.op = "heap" /\ print(9, pc + 1)
    BY DEF Call
  <1> HIDE DEF c
  <1>3. /\ c.op = "fill" => pc = 1
        /\ c.op = "squares" => pc = 2
        /\ c.op = "picture" => pc = 12
        /\ c.op = "copy" => pc = 13
        /\ c.op = "room" => pc = 18
        /\ c.op = "heap" => pc = 20
        /\ c.op = "printd" => pc = 16 /\ c.length = 18
        /\ c.op = "print" => \/ pc \in 3 .. 11 /\ c.length \in 1 .. 20
                             \/ pc \in 14 .. 20 /\ c.length \in 1 .. 21
    BY <1>1, ScriptCalls, LineIs DEF c
  <1>4. QED
    BY <1>1, <1>2, <1>3

-------------------------------------------------------------------------------
(* Two places of the screen's width are two pixels.                        *)
LEMMA PixelInjective ==
  ASSUME NEW w \in Nat \ {0}, NEW x \in 0 .. w - 1, NEW u \in 0 .. w - 1,
         NEW y \in Nat, NEW v \in Nat, y * w + x = v * w + u
  PROVE  x = u /\ y = v
  <1>1. \A a \in Nat, b \in Nat : a + 1 <= b => a * w + w <= b * w
    <2> SUFFICES ASSUME NEW a \in Nat, NEW b \in Nat, a + 1 <= b PROVE a * w + w <= b * w
      OBVIOUS
    <2>1. (a + 1) * w <= b * w
      OBVIOUS
    <2>2. (a + 1) * w = a * w + w
      OBVIOUS
    <2>3. QED
      BY <2>1, <2>2
  <1>2. y * w \in Nat /\ v * w \in Nat
    OBVIOUS
  <1>3. ~(y + 1 <= v)
    BY <1>1, <1>2
  <1>4. ~(v + 1 <= y)
    BY <1>1, <1>2
  <1>5. y = v
    BY <1>3, <1>4
  <1>6. QED
    BY <1>2, <1>5

(* What a mode is.                                                         *)
LEMMA ModeFacts ==
  ASSUME mode \in Modes
  PROVE  /\ mode.x_axis \in Nat \ {0} /\ mode.y_axis \in Nat \ {0} /\ mode.ppsl \in Nat \ {0}
         /\ mode.fb_size \in Nat /\ mode.fb_size >= 4 * (mode.ppsl * mode.y_axis)
  BY DisplayAssumption DEF VideoInfo

(* What the constants are.                                                 *)
LEMMA ConstantFacts ==
  /\ BackPixels \in Nat \ {0} /\ CharX \in Nat \ {0} /\ CharY \in Nat \ {0}
  /\ Word \in Nat \ {0} /\ BackPixels <= Word
  /\ MaxReserved \in Nat /\ GarbageCursors \subseteq 0 .. Word - 1
  /\ Squares[1] \in Area /\ Squares[2] \in Area /\ Picture \in Area
  BY DisplayAssumption

(* Numbers of one word.                                                    *)
LEMMA Wrapped ==
  \A n \in Nat : n % Word \in 0 .. Word - 1 /\ (n < Word => n % Word = n)
  BY ConstantFacts

(* Products with the length of a row.                                      *)
LEMMA RowsGrow ==
  ASSUME mode \in Modes, NEW y \in Nat, NEW v \in Nat, y <= v
  PROVE  /\ y * mode.x_axis \in Nat /\ v * mode.x_axis \in Nat
         /\ y * mode.x_axis <= v * mode.x_axis /\ v <= v * mode.x_axis
  <1>1. mode.x_axis \in Nat /\ mode.x_axis >= 1
    BY ModeFacts
  <1>2. y * mode.x_axis \in Nat /\ v * mode.x_axis \in Nat
    BY <1>1
  <1>3. y * mode.x_axis <= v * mode.x_axis
    BY <1>1
  <1>4. v * 1 <= v * mode.x_axis
    BY <1>1
  <1>5. QED
    BY <1>2, <1>3, <1>4

(* An index in the rows that do not wrap.                                  *)
LEMMA IndexedPlace ==
  ASSUME mode \in Modes, NEW h \in Nat, Indexed(h), NEW y \in Nat, y <= h,
         NEW x \in Nat, x < mode.x_axis
  PROVE  /\ y * mode.x_axis + x \in Nat /\ y * mode.x_axis + x < Word
         /\ Indexed(y) /\ h < Word
  <1>1. mode.x_axis \in Nat /\ (h + 1) * mode.x_axis = h * mode.x_axis + mode.x_axis
    BY ModeFacts
  <1>2. (y + 1) * mode.x_axis = y * mode.x_axis + mode.x_axis
    BY ModeFacts
  <1>3. /\ y * mode.x_axis \in Nat /\ h * mode.x_axis \in Nat
        /\ y * mode.x_axis <= h * mode.x_axis /\ h <= h * mode.x_axis
    BY RowsGrow
  <1>4. h * mode.x_axis + mode.x_axis <= Word
    BY <1>1 DEF Indexed
  <1>5. y * mode.x_axis + mode.x_axis <= Word
    BY <1>1, <1>3, <1>4, ConstantFacts
  <1>6. Indexed(y)
    BY <1>2, <1>5 DEF Indexed
  <1>7. y * mode.x_axis + x \in Nat /\ y * mode.x_axis + x < Word
    BY <1>1, <1>3, <1>5, ConstantFacts
  <1>8. h < Word
    BY <1>1, <1>3, <1>4, ModeFacts, ConstantFacts
  <1>9. QED
    BY <1>6, <1>7, <1>8

(* A shape no wider than the screen, of rows that do not wrap.             *)
OnRows(s) ==
  \A p \in s : /\ p \in Nat \X Nat
               /\ p[1] < mode.x_axis /\ p[2] * mode.x_axis + p[1] < Word

(* It is written where it lies.                                            *)
LEMMA Placed ==
  ASSUME mode \in Modes, NEW s, OnRows(s),
         NEW x \in 0 .. mode.x_axis - 1, NEW y \in Nat, y * mode.x_axis + x < Word
  PROVE  Pixel(x, y) \in Written(s) <=> <<x, y>> \in s
  <1>1. Pixel(x, y) = y * mode.x_axis + x
    BY Wrapped, ModeFacts DEF Pixel
  <1>2. ASSUME <<x, y>> \in s PROVE Pixel(x, y) \in Written(s)
    BY <1>2 DEF Written
  <1>3. ASSUME Pixel(x, y) \in Written(s) PROVE <<x, y>> \in s
    <2>1. PICK p \in s : Pixel(x, y) = Pixel(p[1], p[2])
      BY <1>3 DEF Written
    <2>2. p \in Nat \X Nat /\ p[1] < mode.x_axis /\ p[2] * mode.x_axis + p[1] < Word
      BY DEF OnRows
    <2>3. p[1] \in Nat /\ p[2] \in Nat /\ p = <<p[1], p[2]>>
      BY <2>2
    <2>4. Pixel(p[1], p[2]) = p[2] * mode.x_axis + p[1]
      BY <2>2, <2>3, Wrapped, ModeFacts DEF Pixel
    <2>5. y * mode.x_axis + x = p[2] * mode.x_axis + p[1]
      BY <1>1, <2>1, <2>4
    <2>6. p[1] \in 0 .. mode.x_axis - 1
      BY <2>2, <2>3, ModeFacts
    <2>7. x = p[1] /\ y = p[2]
      BY <2>3, <2>5, <2>6, ModeFacts, PixelInjective
    <2>8. QED
      BY <2>3, <2>7
  <1>4. QED
    BY <1>2, <1>3

(* Pixels are numbered within the rows that precede them.                  *)
LEMMA PixelBelow ==
  ASSUME mode \in Modes, NEW x \in 0 .. mode.x_axis - 1, NEW y \in 0 .. mode.y_axis - 1
  PROVE  y * mode.x_axis + x \in 0 .. mode.x_axis * mode.y_axis - 1
  <1>1. y \in Nat /\ y + 1 \in Nat /\ y + 1 <= mode.y_axis /\ mode.y_axis \in Nat
    BY ModeFacts
  <1>2. y * mode.x_axis \in Nat
    BY <1>1, RowsGrow
  <1>3. (y + 1) * mode.x_axis <= mode.y_axis * mode.x_axis
    BY <1>1, RowsGrow
  <1>4. /\ (y + 1) * mode.x_axis = y * mode.x_axis + mode.x_axis
        /\ mode.y_axis * mode.x_axis = mode.x_axis * mode.y_axis
    <2>1. \A a \in Nat, b \in Nat : (a + 1) * b = a * b + b /\ a * b = b * a
      OBVIOUS
    <2>2. mode.x_axis \in Nat /\ mode.y_axis \in Nat
      BY ModeFacts
    <2>3. QED
      BY <1>1, <2>1, <2>2
  <1>5. QED
    BY <1>1, <1>2, <1>3, <1>4, ModeFacts

(* Places whose last lies in the buffer lie in it.                         *)
LEMMA NotBeyond ==
  ASSUME mode \in Modes, NEW u \in Nat, NEW v \in Nat, ~Beyond(u, v),
         NEW x \in Nat, x <= u, NEW y \in Nat, y <= v
  PROVE  Pixel(x, y) \in Pixels
  <1>1. /\ y * mode.x_axis \in Nat /\ v * mode.x_axis \in Nat
        /\ y * mode.x_axis <= v * mode.x_axis
    BY RowsGrow
  <1>2. v * mode.x_axis + u < BackPixels
    BY <1>1, ConstantFacts DEF Beyond
  <1>3. y * mode.x_axis + x \in 0 .. BackPixels - 1 /\ y * mode.x_axis + x < Word
    BY <1>1, <1>2, ConstantFacts
  <1>4. QED
    BY <1>3, Wrapped DEF Pixel, Pixels

-------------------------------------------------------------------------------
Names == {"fill", "squares", "picture", "print", "printd", "copy"}

(* Types.                                                                  *)
DisplayTypeOK ==
  /\ mode \in Modes /\ start \in [print : GarbageCursors, printd : GarbageCursors]
  /\ back \in [Pixels -> Int]
  /\ frame \in [FramePixels(mode) -> Int]
  /\ picture \in [Points(mode) -> Int]
  /\ print_y \in 0 .. Word - 1 /\ printd_y \in 0 .. Word - 1
  /\ pc \in 1 .. Failed /\ reserved \in 0 .. MaxReserved
  /\ calls \in Nat /\ messages \in Nat
  /\ strays \subseteq Names \X Nat
  /\ \A y \in DOMAIN lines :
       y \in Nat /\ lines[y].length \in 1 .. LongestLine - 1 /\ lines[y].colour \in Int

(* After its first line print's cursor is on the screen.                   *)
PrintCursor ==
  /\ pc <= 3 => print_y = start.print
  /\ pc > 3 /\ pc # Stopped => print_y <= mode.y_axis

(* Few messages of printd come before a stop.                              *)
FewMessages ==
  pc # Stopped /\ start.printd + 3 * CharY < Word =>
    /\ pc <= 16 => printd_y = start.printd
    /\ pc <= 20 => printd_y <= start.printd + CharY
    /\ printd_y <= start.printd + 2 * CharY

(* The lines that print has written lie above its cursor, or below the     *)
(* screen where the first may, and beside the place of the picture until   *)
(* it is drawn.                                                            *)
LinesAbove ==
  /\ Fits /\ print_y # 0 => \A y \in DOMAIN lines : y + CharY <= print_y \/ y > mode.y_axis
  /\ pc <= 3 => DOMAIN lines = {}
  /\ pc <= 12 => \A y \in DOMAIN lines : lines[y].length <= 20

DisplayInv ==
  /\ DisplayTypeOK /\ PrintCursor /\ FewMessages /\ LinesAbove
  /\ DrawnAsAsked /\ StaysInBuffer /\ LinesWhole

-------------------------------------------------------------------------------
(* What a call of Draw does to the buffer, the picture and their history.  *)
LEMMA DrawTyped ==
  ASSUME DisplayTypeOK, NEW by \in Names, NEW cleared, NEW drawn, Draw(by, cleared, drawn)
  PROVE  /\ back' \in [Pixels -> Int] /\ picture' \in [Points(mode) -> Int]
         /\ calls' \in Nat /\ UNCHANGED <<mode, start, frame>>
         /\ strays' \subseteq Names \X Nat /\ calls' = calls + 1
  <1>1. calls' = calls + 1 /\ UNCHANGED <<mode, start, frame>> /\ calls \in Nat
    BY DEF Draw, DisplayTypeOK
  <1>2. \A place, under, over, old : old \in Int => Over(place, under, over, old) \in Int
    BY <1>1 DEF Over
  <1>3. back' \in [Pixels -> Int]
    BY <1>2 DEF Draw, DisplayTypeOK
  <1>4. picture' \in [Points(mode) -> Int]
    BY <1>2 DEF Draw, DisplayTypeOK
  <1>5. strays' \subseteq Names \X Nat
    <2>1. strays' = strays \/ strays' = strays \cup {<<by, pc>>}
      BY DEF Draw
    <2>2. pc \in Nat
      BY ScriptCalls DEF DisplayTypeOK, Failed
    <2>3. QED
      BY <2>1, <2>2 DEF DisplayTypeOK
  <1>6. QED
    BY <1>1, <1>3, <1>4, <1>5

(* What is left at a place of the screen.                                  *)
LEMMA DrawnAt ==
  ASSUME DisplayTypeOK, NEW by, NEW cleared, NEW drawn, OnRows(cleared), OnRows(drawn),
         Draw(by, cleared, drawn),
         NEW x \in 0 .. mode.x_axis - 1, NEW y \in Nat, y * mode.x_axis + x \in Pixels
  PROVE  back'[y * mode.x_axis + x] =
           Over(<<x, y>>, cleared, drawn, back[y * mode.x_axis + x])
  <1>1. y * mode.x_axis + x < Word /\ mode \in Modes
    BY ConstantFacts DEF Pixels, DisplayTypeOK
  <1>2. Pixel(x, y) = y * mode.x_axis + x
    BY <1>1, Wrapped, ConstantFacts DEF Pixel, Pixels
  <1>3. /\ Pixel(x, y) \in Written(cleared) <=> <<x, y>> \in cleared
        /\ Pixel(x, y) \in Written(drawn) <=> <<x, y>> \in drawn
    BY <1>1, Placed
  <1>4. back'[Pixel(x, y)] =
          Over(Pixel(x, y), Written(cleared), Written(drawn), back[Pixel(x, y)])
    BY <1>2 DEF Draw
  <1>5. QED
    BY <1>2, <1>3, <1>4 DEF Over

(* What fits is decided by the mode, and by where the cursors start.       *)
LEMMA FitsKept ==
  /\ mode' = mode => (Fits' <=> Fits)
  /\ mode' = mode /\ start' = start => (CursorsFit' <=> CursorsFit)
  BY DEF Fits, CursorsFit, Indexed

(* The places of the screen are pixels of the buffer.                      *)
LEMMA PointsInBuffer ==
  ASSUME mode \in Modes, mode.x_axis * mode.y_axis <= BackPixels,
         NEW x \in 0 .. mode.x_axis - 1, NEW y \in 0 .. mode.y_axis - 1
  PROVE  y * mode.x_axis + x \in Pixels /\ Pixel(x, y) \in Pixels
  <1>1. y * mode.x_axis + x \in 0 .. mode.x_axis * mode.y_axis - 1
    BY PixelBelow
  <1>2. mode.x_axis * mode.y_axis \in Nat
    BY ModeFacts
  <1>3. y * mode.x_axis + x \in 0 .. BackPixels - 1 /\ y * mode.x_axis + x < Word
    BY <1>1, <1>2, ConstantFacts
  <1>4. QED
    BY <1>3, Wrapped DEF Pixel, Pixels

(* Buffer and picture agree after a call as before it.                     *)
LEMMA DrawKeepsPicture ==
  ASSUME DisplayTypeOK, DrawnAsAsked, NEW by, NEW cleared, NEW drawn,
         Draw(by, cleared, drawn),
         Fits /\ CursorsFit => OnRows(cleared) /\ OnRows(drawn)
  PROVE  DrawnAsAsked'
  <1>1. mode' = mode /\ start' = start
    BY DEF Draw
  <1> SUFFICES ASSUME Fits, CursorsFit, NEW p \in Points(mode)
               PROVE  back'[p[2] * mode.x_axis + p[1]] = picture'[p]
    BY <1>1, FitsKept DEF DrawnAsAsked
  <1>2. /\ p[1] \in 0 .. mode.x_axis - 1 /\ p[2] \in 0 .. mode.y_axis - 1 /\ p[2] \in Nat
        /\ p = <<p[1], p[2]>>
    BY DEF Points
  <1>3. back[p[2] * mode.x_axis + p[1]] = picture[p]
    BY DEF DrawnAsAsked
  <1>4. p[2] * mode.x_axis + p[1] \in Pixels
    BY <1>2, PointsInBuffer DEF DisplayTypeOK, Fits
  <1>5. back'[p[2] * mode.x_axis + p[1]] =
          Over(<<p[1], p[2]>>, cleared, drawn, back[p[2] * mode.x_axis + p[1]])
    BY <1>2, <1>4, DrawnAt
  <1>6. picture'[p] = Over(p, cleared, drawn, picture[p])
    BY DEF Draw
  <1>7. QED
    BY <1>2, <1>3, <1>5, <1>6

(* The reason of a call to leave the buffer.                               *)
Reason(by, call) ==
  \/ by = "fill" /\ mode.x_axis * mode.y_axis > BackPixels
  \/ by = "copy" /\ mode.fb_size > 4 * BackPixels
  \/ by = "squares" /\ \E k \in {1, 2} : Beyond(Squares[k].x2, Squares[k].y2)
  \/ by = "picture" /\ Beyond(Picture.x2, Picture.y2)
  \/ by = "print" /\ \/ Beyond(LongestLine * CharX, mode.y_axis + CharY)
                     \/ call = 3 /\ start.print > mode.y_axis
  \/ by = "printd" /\ Beyond(LongestLine * CharX, start.printd + 3 * CharY)

LEMMA ReasonKept ==
  /\ StaysInBuffer <=> \A s \in strays : Reason(s[1], s[2])
  /\ mode' = mode /\ start' = start =>
       (StaysInBuffer' <=> \A s \in strays' : Reason(s[1], s[2]))
  <1>1. StaysInBuffer <=> \A s \in strays : Reason(s[1], s[2])
    BY DEF StaysInBuffer, Reason
  <1>2. ASSUME mode' = mode, start' = start
        PROVE  StaysInBuffer' <=> \A s \in strays' : Reason(s[1], s[2])
    BY <1>2 DEF StaysInBuffer, Reason, Beyond
  <1>3. QED
    BY <1>1, <1>2

(* A call has a reason, or stays.                                          *)
LEMMA DrawStays ==
  ASSUME StaysInBuffer, NEW by, NEW cleared, NEW drawn, Draw(by, cleared, drawn),
         Reason(by, pc) \/ Written(cleared) \cup Written(drawn) \subseteq Pixels
  PROVE  StaysInBuffer'
  <1>1. mode' = mode /\ start' = start
    BY DEF Draw
  <1>2. \A s \in strays : Reason(s[1], s[2])
    BY ReasonKept
  <1>3. CASE Reason(by, pc)
    <2>1. strays' \subseteq strays \cup {<<by, pc>>}
      BY DEF Draw
    <2>2. \A s \in strays' : Reason(s[1], s[2])
      <3> SUFFICES ASSUME NEW s \in strays' PROVE Reason(s[1], s[2])
        OBVIOUS
      <3>1. s \in strays \/ s = <<by, pc>>
        BY <2>1
      <3>2. CASE s \in strays
        BY <1>2, <3>2
      <3>3. CASE s = <<by, pc>>
        <4>1. s[1] = by /\ s[2] = pc
          BY <3>3
        <4>2. QED
          BY <1>3, <4>1
      <3>4. QED
        BY <3>1, <3>2, <3>3
    <2>3. QED
      BY <1>1, <2>2, ReasonKept
  <1>4. CASE Written(cleared) \cup Written(drawn) \subseteq Pixels
    <2>1. strays' = strays
      BY <1>4 DEF Draw
    <2>2. QED
      BY <1>1, <1>2, <2>1, ReasonKept
  <1>5. QED
    BY <1>3, <1>4

-------------------------------------------------------------------------------
(* A square drawn on the rows of the screen's width, and in the buffer.    *)
LEMMA SquareOnRows ==
  ASSUME mode \in Modes, NEW r \in Area, r.x2 < mode.x_axis, Indexed(r.y2)
  PROVE  OnRows(WriteSquare(r))
  <1>1. r.x1 \in Nat /\ r.x2 \in Nat /\ r.y1 \in Nat /\ r.y2 \in Nat /\ r.y2 # Word - 1
    BY ConstantFacts DEF Area
  <1>2. SUFFICES ASSUME NEW p \in (r.x1 .. r.x2) \X (r.y1 .. r.y2)
                 PROVE  /\ p \in Nat \X Nat
                        /\ p[1] < mode.x_axis /\ p[2] * mode.x_axis + p[1] < Word
    BY <1>1 DEF WriteSquare, OnRows
  <1>3. p[1] \in r.x1 .. r.x2 /\ p[2] \in r.y1 .. r.y2 /\ p \in Nat \X Nat
    BY <1>1
  <1>4. p[1] \in Nat /\ p[1] < mode.x_axis /\ p[2] \in Nat /\ p[2] <= r.y2
    BY <1>1, <1>3, ModeFacts
  <1>5. QED
    BY <1>1, <1>3, <1>4, IndexedPlace

LEMMA SquareStays ==
  ASSUME mode \in Modes, NEW r \in Area, ~Beyond(r.x2, r.y2)
  PROVE  Written(WriteSquare(r)) \subseteq Pixels
  <1>1. r.x1 \in Nat /\ r.x2 \in Nat /\ r.y1 \in Nat /\ r.y2 \in Nat /\ r.y2 # Word - 1
    BY ConstantFacts DEF Area
  <1>2. SUFFICES ASSUME NEW p \in (r.x1 .. r.x2) \X (r.y1 .. r.y2)
                 PROVE  Pixel(p[1], p[2]) \in Pixels
    BY <1>1 DEF WriteSquare, Written
  <1>3. p[1] \in Nat /\ p[1] <= r.x2 /\ p[2] \in Nat /\ p[2] <= r.y2
    BY <1>1
  <1>4. QED
    BY <1>1, <1>3, NotBeyond

(* The width of a line.                                                    *)
LEMMA LineWidth ==
  ASSUME NEW length \in 1 .. LongestLine
  PROVE  /\ length * CharX \in Nat /\ 1 <= length * CharX
         /\ LongestLine * CharX \in Nat /\ length * CharX <= LongestLine * CharX
  <1>1. length * CharX <= LongestLine * CharX
    BY ConstantFacts DEF LongestLine
  <1>2. LongestLine * CharX \in Nat /\ length * CharX \in Nat
    BY ConstantFacts DEF LongestLine
  <1>3. 1 * CharX <= length * CharX
    BY ConstantFacts
  <1>4. QED
    BY <1>1, <1>2, <1>3, ConstantFacts

(* What a line draws where y does not wrap.                                *)
LEMMA TextPlaces ==
  ASSUME NEW y \in Nat, y + CharY < Word - 1, NEW length \in 1 .. LongestLine
  PROVE  /\ ~Endless(y) /\ Below(y) = y + CharY
         /\ Strip(y, length) = (0 .. length * CharX) \X (y .. y + CharY)
         /\ Cells(y, length) = (0 .. length * CharX - 1) \X (y .. y + CharY - 1)
  <1>1. y + CharY \in Nat /\ CharY \in Nat \ {0} /\ length * CharX \in Nat
    BY ConstantFacts, LineWidth
  <1>2. Below(y) = y + CharY
    BY <1>1, Wrapped, ConstantFacts DEF Below
  <1>3. ~Endless(y)
    BY <1>1, <1>2, ConstantFacts DEF Endless
  <1>4. Strip(y, length) = (0 .. length * CharX) \X (y .. y + CharY)
    <2>1. \A a, b, c, d : /\ Rect(a, b, c, d).x1 = a /\ Rect(a, b, c, d).y1 = b
                          /\ Rect(a, b, c, d).x2 = c /\ Rect(a, b, c, d).y2 = d
      BY DEF Rect
    <2>2. y + CharY # Word - 1
      BY <1>1, ConstantFacts
    <2>3. QED
      BY <1>2, <2>1, <2>2 DEF Strip, WriteSquare
  <1>5. Cells(y, length) = (0 .. length * CharX - 1) \X (y .. y + CharY - 1)
    <2>1. Cells(y, length) =
            {<<x, (y + j) % Word>> : x \in 0 .. length * CharX - 1, j \in 0 .. CharY - 1}
      BY <1>3 DEF Cells
    <2>2. \A j \in 0 .. CharY - 1 : y + j \in y .. y + CharY - 1 /\ (y + j) % Word = y + j
      <3> SUFFICES ASSUME NEW j \in 0 .. CharY - 1
                   PROVE  y + j \in y .. y + CharY - 1 /\ (y + j) % Word = y + j
        OBVIOUS
      <3>1. y + j \in Nat /\ y + j < Word /\ y + j \in y .. y + CharY - 1
        BY <1>1, ConstantFacts
      <3>2. QED
        BY <3>1, Wrapped
    <2>3. \A v \in y .. y + CharY - 1 : v - y \in 0 .. CharY - 1 /\ y + (v - y) = v
      BY <1>1
    <2>4. Cells(y, length) \subseteq (0 .. length * CharX - 1) \X (y .. y + CharY - 1)
      BY <2>1, <2>2
    <2>5. ASSUME NEW p \in (0 .. length * CharX - 1) \X (y .. y + CharY - 1)
          PROVE  p \in Cells(y, length)
      <3>1. p = <<p[1], p[2]>> /\ p[1] \in 0 .. length * CharX - 1 /\ p[2] \in y .. y + CharY - 1
        OBVIOUS
      <3>2. (y + (p[2] - y)) % Word = p[2] /\ p[2] - y \in 0 .. CharY - 1
        BY <2>2, <2>3, <3>1
      <3>3. QED
        BY <2>1, <3>1, <3>2
    <2>6. QED
      BY <2>4, <2>5
  <1>6. QED
    BY <1>2, <1>3, <1>4, <1>5

(* A line on rows whose indexes do not wrap.                               *)
LEMMA TextOnRows ==
  ASSUME mode \in Modes, Fits, NEW y \in Nat, Indexed(y + CharY),
         NEW length \in 1 .. LongestLine
  PROVE  /\ y + CharY < Word - 1 /\ length * CharX < mode.x_axis
         /\ OnRows(Strip(y, length)) /\ OnRows(Cells(y, length))
  <1>1. length * CharX \in Nat /\ length * CharX < mode.x_axis /\ 1 <= length * CharX
    BY LineWidth, ModeFacts DEF Fits
  <1>2. y + CharY \in Nat
    BY ConstantFacts
  <1>3. y + CharY < Word - 1
    <2>1. /\ (y + CharY) * mode.x_axis + 1 < Word /\ 1 < mode.x_axis
      BY <1>1, <1>2, IndexedPlace, ModeFacts
    <2>2. y + CharY <= (y + CharY) * mode.x_axis /\ (y + CharY) * mode.x_axis \in Nat
      BY <1>2, RowsGrow
    <2>3. QED
      BY <1>2, <2>1, <2>2, ConstantFacts
  <1>4. ASSUME NEW p \in Nat \X Nat, p[1] <= length * CharX, p[2] <= y + CharY
        PROVE  p[1] < mode.x_axis /\ p[2] * mode.x_axis + p[1] < Word
    <2>1. p[1] \in Nat /\ p[2] \in Nat /\ p[1] < mode.x_axis
      BY <1>1, <1>4, ModeFacts
    <2>2. QED
      BY <1>2, <1>4, <2>1, IndexedPlace
  <1>5. OnRows(Strip(y, length))
    <2> SUFFICES ASSUME NEW p \in (0 .. length * CharX) \X (y .. y + CharY)
                 PROVE  p \in Nat \X Nat /\ p[1] <= length * CharX /\ p[2] <= y + CharY
      BY <1>3, <1>4, TextPlaces DEF OnRows
    <2>1. p = <<p[1], p[2]>> /\ p[1] \in 0 .. length * CharX /\ p[2] \in y .. y + CharY
      OBVIOUS
    <2>2. QED
      BY <1>1, <1>2, <2>1
  <1>6. OnRows(Cells(y, length))
    <2> SUFFICES ASSUME NEW p \in (0 .. length * CharX - 1) \X (y .. y + CharY - 1)
                 PROVE  p \in Nat \X Nat /\ p[1] <= length * CharX /\ p[2] <= y + CharY
      BY <1>3, <1>4, TextPlaces DEF OnRows
    <2>1. p = <<p[1], p[2]>> /\ p[1] \in 0 .. length * CharX - 1 /\ p[2] \in y .. y + CharY - 1
      OBVIOUS
    <2>2. p[1] \in Nat /\ p[1] <= length * CharX /\ p[2] \in Nat /\ p[2] <= y + CharY
      BY <1>1, <1>2, <2>1, ConstantFacts
    <2>3. QED
      BY <2>1, <2>2
  <1>7. QED
    BY <1>1, <1>3, <1>5, <1>6

(* A line whose last place lies in the buffer.                             *)
LEMMA TextStays ==
  ASSUME mode \in Modes, NEW y \in Nat, ~Beyond(LongestLine * CharX, y + CharY),
         NEW length \in 1 .. LongestLine
  PROVE  Written(Strip(y, length)) \cup Written(Cells(y, length)) \subseteq Pixels
  <1>1. /\ length * CharX \in Nat /\ 1 <= length * CharX
        /\ LongestLine * CharX \in Nat /\ length * CharX <= LongestLine * CharX
    BY LineWidth
  <1>2. y + CharY \in Nat
    BY ConstantFacts
  <1>3. y + CharY < Word - 1
    <2>1. y + CharY <= (y + CharY) * mode.x_axis /\ (y + CharY) * mode.x_axis \in Nat
      BY <1>2, RowsGrow
    <2>2. (y + CharY) * mode.x_axis + LongestLine * CharX < BackPixels
      BY <1>1, <2>1, ConstantFacts DEF Beyond
    <2>3. QED
      BY <1>1, <1>2, <2>1, <2>2, ConstantFacts
  <1>4. ASSUME NEW p \in Nat \X Nat, p[1] <= length * CharX, p[2] <= y + CharY
        PROVE  Pixel(p[1], p[2]) \in Pixels
    <2>1. p[1] \in Nat /\ p[2] \in Nat /\ p[1] <= LongestLine * CharX
      BY <1>1, <1>4
    <2>2. QED
      BY <1>1, <1>2, <1>4, <2>1, NotBeyond
  <1>5. ASSUME NEW p \in Strip(y, length) \cup Cells(y, length)
        PROVE  p \in Nat \X Nat /\ p[1] <= length * CharX /\ p[2] <= y + CharY
    <2>1. \/ p \in (0 .. length * CharX) \X (y .. y + CharY)
          \/ p \in (0 .. length * CharX - 1) \X (y .. y + CharY - 1)
      BY <1>3, <1>5, TextPlaces
    <2>2. p = <<p[1], p[2]>> /\ p[1] \in 0 .. length * CharX /\ p[2] \in y .. y + CharY
      <3>1. CASE p \in (0 .. length * CharX) \X (y .. y + CharY)
        BY <3>1
      <3>2. CASE p \in (0 .. length * CharX - 1) \X (y .. y + CharY - 1)
        <4>1. /\ p = <<p[1], p[2]>>
              /\ p[1] \in 0 .. length * CharX - 1 /\ p[2] \in y .. y + CharY - 1
          BY <3>2
        <4>2. QED
          BY <1>1, <1>2, <4>1, ConstantFacts
      <3>3. QED
        BY <2>1, <3>1, <3>2
    <2>3. QED
      BY <1>1, <1>2, <2>2
  <1>6. QED
    BY <1>4, <1>5 DEF Written

(* A cell's pixels are on the screen.                                      *)
LEMMA CellPixel ==
  ASSUME mode \in Modes, Fits, NEW y \in Nat, y + CharY <= mode.y_axis,
         NEW length \in 1 .. LongestLine,
         NEW x \in 0 .. length * CharX - 1, NEW j \in 0 .. CharY - 1
  PROVE  /\ x \in 0 .. mode.x_axis - 1 /\ y + j \in Nat
         /\ (y + j) * mode.x_axis + x \in Pixels
  <1>1. x \in 0 .. mode.x_axis - 1
    BY LineWidth, ModeFacts DEF Fits
  <1>2. y + j \in 0 .. mode.y_axis - 1 /\ y + j \in Nat
    BY ModeFacts, ConstantFacts
  <1>3. (y + j) * mode.x_axis + x \in Pixels
    BY <1>1, <1>2, PointsInBuffer DEF Fits
  <1>4. QED
    BY <1>1, <1>2, <1>3

(* A line is still whole after a call that covers none of its cells.       *)
LEMMA LineKept ==
  ASSUME DisplayTypeOK, Fits, NEW by, NEW cleared, NEW drawn,
         OnRows(cleared), OnRows(drawn), Draw(by, cleared, drawn),
         NEW y \in Nat, y + CharY <= mode.y_axis, NEW length \in 1 .. LongestLine,
         NEW x \in 0 .. length * CharX - 1, NEW j \in 0 .. CharY - 1,
         <<x, y + j>> \notin cleared \cup drawn
  PROVE  back'[(y + j) * mode.x_axis + x] = back[(y + j) * mode.x_axis + x]
  <1>1. /\ x \in 0 .. mode.x_axis - 1 /\ y + j \in Nat
        /\ (y + j) * mode.x_axis + x \in Pixels
    BY CellPixel DEF DisplayTypeOK
  <1>2. back'[(y + j) * mode.x_axis + x] =
          Over(<<x, y + j>>, cleared, drawn, back[(y + j) * mode.x_axis + x])
    BY <1>1, DrawnAt
  <1>3. QED
    BY <1>2 DEF Over

(* The line just written is whole.                                         *)
LEMMA LineWritten ==
  ASSUME DisplayTypeOK, Fits, NEW y \in Nat, y + CharY <= mode.y_axis,
         NEW length \in 1 .. LongestLine, NEW by,
         Draw(by, Strip(y, length), Cells(y, length)), Indexed(y + CharY),
         NEW x \in 0 .. length * CharX - 1, NEW j \in 0 .. CharY - 1
  PROVE  back'[(y + j) * mode.x_axis + x] = calls + 1
  <1>1. /\ x \in 0 .. mode.x_axis - 1 /\ y + j \in Nat /\ mode \in Modes
        /\ (y + j) * mode.x_axis + x \in Pixels
    BY CellPixel DEF DisplayTypeOK
  <1>2. y + CharY < Word - 1 /\ OnRows(Strip(y, length)) /\ OnRows(Cells(y, length))
    BY <1>1, TextOnRows
  <1>3. <<x, y + j>> \in Cells(y, length)
    <2>1. y + j \in y .. y + CharY - 1
      BY ConstantFacts
    <2>2. QED
      BY <1>2, <2>1, TextPlaces
  <1>4. back'[(y + j) * mode.x_axis + x] =
          Over(<<x, y + j>>, Strip(y, length), Cells(y, length),
               back[(y + j) * mode.x_axis + x])
    BY <1>1, <1>2, DrawnAt
  <1>5. QED
    BY <1>3, <1>4 DEF Over

-------------------------------------------------------------------------------
(* The number of the stops, and what they are not.                         *)
LEMMA Stops == Stopped = 21 /\ Failed = 22 /\ LongestLine = 22
  BY ScriptCalls DEF Stopped, Failed, LongestLine

(* Where the cursors start.                                                *)
LEMMA StartFacts ==
  ASSUME DisplayTypeOK
  PROVE  start.print \in 0 .. Word - 1 /\ start.printd \in 0 .. Word - 1
  BY ConstantFacts DEF DisplayTypeOK

(* The parts of the invariant hold at first: the buffer is of one colour,  *)
(* and there is no line.                                                   *)
LEMMA InitInv == DisplayInit => DisplayInv
  <1> SUFFICES ASSUME DisplayInit PROVE DisplayInv
    OBVIOUS
  <1>1. DOMAIN lines = {}
    BY DEF DisplayInit, NoLines
  <1>2. DisplayTypeOK
    <2>1. start.print \in 0 .. Word - 1 /\ start.printd \in 0 .. Word - 1
      BY ConstantFacts DEF DisplayInit
    <2>2. QED
      BY <1>1, <2>1, Stops, ModeFacts, ConstantFacts DEF DisplayInit, DisplayTypeOK, Unknown
  <1>3. PrintCursor /\ FewMessages /\ LinesAbove
    BY <1>1, <1>2, StartFacts, ConstantFacts, Stops
    DEF DisplayInit, PrintCursor, FewMessages, LinesAbove
  <1>4. DrawnAsAsked
    <2> SUFFICES ASSUME Fits, NEW p \in Points(mode)
                 PROVE  back[p[2] * mode.x_axis + p[1]] = picture[p]
      BY DEF DrawnAsAsked
    <2>1. p[1] \in 0 .. mode.x_axis - 1 /\ p[2] \in 0 .. mode.y_axis - 1
      BY DEF Points
    <2>2. p[2] * mode.x_axis + p[1] \in Pixels
      BY <1>2, <2>1, PointsInBuffer DEF Fits, DisplayTypeOK
    <2>3. QED
      BY <2>2 DEF DisplayInit
  <1>5. StaysInBuffer
    BY DEF DisplayInit, StaysInBuffer
  <1>6. LinesWhole
    BY <1>1 DEF LinesWhole
  <1>7. QED
    BY <1>2, <1>3, <1>4, <1>5, <1>6 DEF DisplayInv

(* Squares or a picture drawn: they miss the lines that lie beside the     *)
(* picture, and before the squares there is no line.                       *)
LEMMA RectanglesStep ==
  ASSUME DisplayInv, NEW cleared, NEW drawn, NEW by \in {"fill", "squares", "picture"},
         Draw(by, cleared, drawn), reserved' = reserved,
         pc \in {1, 2, 12}, pc' = pc + 1, UNCHANGED <<cursors, messages, lines>>,
         Fits => OnRows(cleared) /\ OnRows(drawn),
         Reason(by, pc) \/ Written(cleared) \cup Written(drawn) \subseteq Pixels,
         pc = 12 => \A p \in cleared \cup drawn : p[1] > 20 * CharX
  PROVE  DisplayInv'
  <1>1. /\ DisplayTypeOK /\ PrintCursor /\ FewMessages /\ LinesAbove
        /\ DrawnAsAsked /\ StaysInBuffer /\ LinesWhole
    BY DEF DisplayInv
  <1>2. /\ mode' = mode /\ start' = start /\ lines' = lines /\ messages' = messages
        /\ print_y' = print_y /\ printd_y' = printd_y
    BY DEF Draw, cursors
  <1>3. DisplayTypeOK'
    <2>1. pc' \in 1 .. Failed
      BY Stops
    <2>2. /\ back' \in [Pixels -> Int] /\ picture' \in [Points(mode) -> Int]
          /\ calls' \in Nat /\ UNCHANGED <<mode, start, frame>>
          /\ strays' \subseteq Names \X Nat
      BY <1>1, DrawTyped DEF Names
    <2>3. QED
      BY <1>1, <1>2, <2>1, <2>2 DEF DisplayTypeOK
  <1>4. PrintCursor' /\ FewMessages' /\ LinesAbove'
    <2>1. PrintCursor' /\ FewMessages'
      BY <1>1, <1>2, Stops DEF PrintCursor, FewMessages
    <2>2. LinesAbove'
      BY <1>1, <1>2, FitsKept DEF LinesAbove
    <2>3. QED
      BY <2>1, <2>2
  <1>5. DrawnAsAsked'
    BY <1>1, DrawKeepsPicture
  <1>6. StaysInBuffer'
    BY <1>1, DrawStays
  <1>7. LinesWhole'
    <2> SUFFICES ASSUME Fits, messages = 0, NEW y \in DOMAIN lines, y + CharY <= mode.y_axis,
                        NEW x \in 0 .. lines[y].length * CharX - 1, NEW j \in 0 .. CharY - 1
                 PROVE  back'[(y + j) * mode.x_axis + x] = lines[y].colour
      BY <1>2, FitsKept DEF LinesWhole
    <2>1. back[(y + j) * mode.x_axis + x] = lines[y].colour
      BY <1>1 DEF LinesWhole
    <2>2. pc = 12 /\ lines[y].length <= 20
      BY <1>1 DEF LinesAbove
    <2>3. y \in Nat /\ lines[y].length \in 1 .. LongestLine
      BY <1>1 DEF DisplayTypeOK, LongestLine
    <2>4. x < 20 * CharX
      <3>1. \A n \in 1 .. LongestLine :
              n <= 20 => n * CharX \in Nat /\ 20 * CharX \in Nat /\ n * CharX <= 20 * CharX
        BY ConstantFacts DEF LongestLine
      <3>2. /\ lines[y].length * CharX \in Nat /\ 20 * CharX \in Nat
            /\ lines[y].length * CharX <= 20 * CharX
        BY <2>2, <2>3, <3>1
      <3>3. QED
        BY <3>2
    <2>5. <<x, y + j>> \notin cleared \cup drawn
      <3>1. x \in Nat /\ 20 * CharX \in Nat
        BY ConstantFacts
      <3>2. <<x, y + j>>[1] = x /\ ~(x > 20 * CharX)
        BY <2>4, <3>1
      <3>3. QED
        BY <2>2, <3>2
    <2>6. back'[(y + j) * mode.x_axis + x] = back[(y + j) * mode.x_axis + x]
      BY <1>1, <2>3, <2>5, LineKept
    <2>7. QED
      BY <2>1, <2>6
  <1>8. QED
    BY <1>3, <1>4, <1>5, <1>6, <1>7 DEF DisplayInv

(* copyScreen changes the frame buffer only.                               *)
LEMMA CopyStep ==
  ASSUME DisplayInv, CopyScreen, pc = 13, pc' = pc + 1, reserved' = reserved
  PROVE  DisplayInv'
  <1>1. /\ DisplayTypeOK /\ PrintCursor /\ FewMessages /\ LinesAbove
        /\ DrawnAsAsked /\ StaysInBuffer /\ LinesWhole
    BY DEF DisplayInv
  <1>2. /\ mode' = mode /\ start' = start /\ back' = back /\ picture' = picture
        /\ calls' = calls /\ messages' = messages
        /\ lines' = lines /\ print_y' = print_y /\ printd_y' = printd_y
    BY DEF CopyScreen, cursors
  <1> DEFINE copied == Copied(mode.fb_size)
  <1>3. frame' \in [FramePixels(mode) -> Int]
    BY <1>1 DEF CopyScreen, DisplayTypeOK, Unknown
  <1>4. strays' = IF copied \subseteq Pixels THEN strays ELSE strays \cup {<<"copy", pc>>}
    BY DEF CopyScreen
  <1>5. copied \subseteq Pixels \/ mode.fb_size > 4 * BackPixels
    <2> SUFFICES ASSUME NEW k \in copied, mode.fb_size <= 4 * BackPixels PROVE k \in Pixels
      BY <1>1, ModeFacts, ConstantFacts DEF DisplayTypeOK
    <2>1. k \in FramePixels(mode) /\ 4 * k < mode.fb_size
      BY <1>1 DEF Copied, DisplayTypeOK
    <2>2. k \in Nat
      BY <1>1, <2>1, ModeFacts DEF FramePixels, DisplayTypeOK
    <2>3. QED
      BY <1>1, <2>1, <2>2, ModeFacts, ConstantFacts DEF Pixels, DisplayTypeOK
  <1> HIDE DEF copied
  <1>6. DisplayTypeOK'
    <2>1. pc' \in 1 .. Failed
      BY Stops
    <2>2. frame' \in [FramePixels(mode') -> Int] /\ picture' \in [Points(mode') -> Int]
      BY <1>1, <1>2, <1>3 DEF DisplayTypeOK
    <2>3. strays' \subseteq Names \X Nat
      <3>1. <<"copy", pc>> \in Names \X Nat
        BY DEF Names
      <3>2. QED
        BY <1>1, <1>4, <3>1 DEF DisplayTypeOK
    <2>4. QED
      BY <1>1, <1>2, <2>1, <2>2, <2>3 DEF DisplayTypeOK
  <1>7. PrintCursor' /\ FewMessages' /\ LinesAbove'
    <2>1. PrintCursor' /\ FewMessages'
      BY <1>1, <1>2, Stops DEF PrintCursor, FewMessages
    <2>2. LinesAbove'
      BY <1>1, <1>2, FitsKept DEF LinesAbove
    <2>3. QED
      BY <2>1, <2>2
  <1>8. DrawnAsAsked' /\ LinesWhole'
    BY <1>1, <1>2, FitsKept DEF DrawnAsAsked, LinesWhole
  <1>9. StaysInBuffer'
    <2>1. \A s \in strays : Reason(s[1], s[2])
      BY <1>1, ReasonKept
    <2>2. CASE copied \subseteq Pixels
      BY <1>2, <1>4, <2>1, <2>2, ReasonKept
    <2>3. CASE mode.fb_size > 4 * BackPixels
      <3>1. Reason(<<"copy", pc>>[1], <<"copy", pc>>[2])
        BY <2>3 DEF Reason
      <3>2. \A s \in strays' : Reason(s[1], s[2])
        BY <1>4, <2>1, <3>1
      <3>3. QED
        BY <1>2, <3>2, ReasonKept
    <2>4. QED
      BY <1>5, <2>2, <2>3
  <1>10. QED
    BY <1>6, <1>7, <1>8, <1>9 DEF DisplayInv

(* The cursor's next place.                                                *)
LEMMA NextLineFacts ==
  ASSUME mode \in Modes, NEW y \in Nat
  PROVE  /\ Below(y) \in 0 .. Word - 1 /\ NextLine(y) \in 0 .. Word - 1
         /\ NextLine(y) <= mode.y_axis
         /\ NextLine(y) # 0 => NextLine(y) = Below(y)
  <1>1. Below(y) \in 0 .. Word - 1
    BY Wrapped, ConstantFacts DEF Below
  <1>2. QED
    BY <1>1, ModeFacts, ConstantFacts DEF NextLine

(* Where print writes on rows whose indexes do not wrap.                   *)
LEMMA PrintIndexed ==
  ASSUME DisplayTypeOK, Fits, NEW y \in Nat, y <= mode.y_axis
  PROVE  Indexed(y + CharY) /\ y + CharY < Word
  <1>1. /\ mode.y_axis + CharY \in Nat /\ y + CharY \in Nat
        /\ y + CharY <= mode.y_axis + CharY
    BY ModeFacts, ConstantFacts DEF DisplayTypeOK
  <1>2. Indexed(mode.y_axis + CharY) /\ 0 \in Nat /\ 0 < mode.x_axis
    BY ModeFacts DEF DisplayTypeOK, Fits
  <1>3. QED
    BY <1>1, <1>2, IndexedPlace DEF DisplayTypeOK

(* A line below the lines written so far, or a new pass over the screen;   *)
(* the first may lie anywhere.                                             *)
LEMMA PrintStep ==
  ASSUME DisplayInv, NEW length \in 1 .. LongestLine - 1, NEW next, print(length, next),
         pc \in 3 .. 20, next = pc + 1 \/ (pc = 15 /\ next = 15), next <= 12 => length <= 20,
         reserved' \in 0 .. MaxReserved
  PROVE  DisplayInv'
  <1>1. /\ DisplayTypeOK /\ PrintCursor /\ FewMessages /\ LinesAbove
        /\ DrawnAsAsked /\ StaysInBuffer /\ LinesWhole
    BY DEF DisplayInv
  <1>2. /\ Draw("print", Strip(print_y, length), Cells(print_y, length))
        /\ mode' = mode /\ start' = start /\ printd_y' = printd_y /\ messages' = messages
    BY DEF print, Draw
  <1>3. /\ length \in 1 .. LongestLine /\ print_y \in Nat /\ mode \in Modes
        /\ mode.y_axis \in Nat /\ pc # Stopped
    BY <1>1, ModeFacts, ConstantFacts, Stops DEF DisplayTypeOK
  <1>4. /\ pc = 3 => print_y = start.print /\ DOMAIN lines = {}
        /\ pc > 3 => print_y <= mode.y_axis
    BY <1>1, <1>3 DEF PrintCursor, LinesAbove
  <1> DEFINE kept == IF print_y = 0 THEN {} ELSE DOMAIN lines
  <1>5. \/ Endless(print_y) /\ pc' = Stopped /\ print_y' = print_y /\ lines' = lines
        \/ /\ ~Endless(print_y) /\ pc' = next /\ print_y' = NextLine(print_y)
           /\ DOMAIN lines' = {print_y} \cup kept
           /\ lines'[print_y].length = length /\ lines'[print_y].colour = calls + 1
           /\ \A y \in kept : y # print_y => lines'[y] = lines[y]
    BY DEF print
  <1>6. kept \subseteq DOMAIN lines /\ (pc = 3 => kept = {})
    BY <1>4
  <1>7. ASSUME Fits, NEW y \in kept
        PROVE  /\ y \in Nat /\ pc > 3 /\ print_y <= mode.y_axis
               /\ y # print_y /\ (y + CharY <= print_y \/ y > mode.y_axis)
    <2>1. y \in DOMAIN lines /\ print_y # 0 /\ y \in Nat
      BY <1>1, <1>7 DEF DisplayTypeOK
    <2>2. y + CharY <= print_y \/ y > mode.y_axis
      BY <1>1, <1>7, <2>1 DEF LinesAbove
    <2>3. pc > 3 /\ print_y <= mode.y_axis
      BY <1>4, <1>6, <1>7
    <2>4. QED
      BY <1>3, <2>1, <2>2, <2>3, ConstantFacts
  <1> HIDE DEF kept
  <1>8. DisplayTypeOK'
    <2>1. /\ back' \in [Pixels -> Int] /\ picture' \in [Points(mode) -> Int]
          /\ calls' \in Nat /\ UNCHANGED <<mode, start, frame>>
          /\ strays' \subseteq Names \X Nat
      BY <1>1, <1>2, DrawTyped DEF Names
    <2>2. pc' \in 1 .. Failed
      BY <1>5, Stops
    <2>3. print_y' \in 0 .. Word - 1
      BY <1>1, <1>3, <1>5, NextLineFacts DEF DisplayTypeOK
    <2>4. ASSUME NEW y \in DOMAIN lines'
          PROVE  y \in Nat /\ lines'[y].length \in 1 .. LongestLine - 1 /\ lines'[y].colour \in Int
      <3>1. CASE lines' = lines
        BY <1>1, <2>4, <3>1 DEF DisplayTypeOK
      <3>2. CASE lines' # lines /\ y = print_y
        BY <1>1, <1>3, <1>5, <3>2 DEF DisplayTypeOK
      <3>3. CASE lines' # lines /\ y # print_y
        <4>1. y \in DOMAIN lines /\ lines'[y] = lines[y]
          BY <1>5, <1>6, <2>4, <3>3
        <4>2. QED
          BY <1>1, <4>1 DEF DisplayTypeOK
      <3>4. QED
        BY <3>1, <3>2, <3>3
    <2>5. mode' \in Modes /\ frame' \in [FramePixels(mode') -> Int]
      BY <1>1, <2>1 DEF DisplayTypeOK
    <2>6. QED
      BY <1>1, <1>2, <2>1, <2>2, <2>3, <2>4, <2>5 DEF DisplayTypeOK
  <1>9. PrintCursor'
    <2>1. pc' > 3 /\ ~(pc' <= 3)
      BY <1>5, Stops
    <2>2. pc' # Stopped => print_y' <= mode.y_axis
      BY <1>3, <1>5, NextLineFacts
    <2>3. QED
      BY <1>2, <2>1, <2>2 DEF PrintCursor
  <1>10. FewMessages'
    <2>1. pc' # Stopped => /\ pc' <= 16 => pc <= 16
                           /\ pc <= 20
      BY <1>5, Stops
    <2>2. QED
      BY <1>1, <1>2, <1>3, <2>1 DEF FewMessages
  <1>11. LinesAbove'
    <2>1. ASSUME Fits, print_y' # 0, NEW y \in DOMAIN lines'
          PROVE  y + CharY <= print_y' \/ y > mode.y_axis
      <3>1. CASE Endless(print_y)
        BY <1>1, <1>5, <2>1, <3>1 DEF LinesAbove
      <3>2. CASE ~Endless(print_y)
        <4>1. print_y' = Below(print_y) /\ DOMAIN lines' = {print_y} \cup kept
          BY <1>3, <1>5, <2>1, <3>2, NextLineFacts
        <4>2. CASE y = print_y
          <5>1. CASE y <= mode.y_axis
            <6>1. y + CharY < Word /\ y + CharY \in Nat
              BY <1>1, <1>3, <2>1, <4>2, <5>1, PrintIndexed, ConstantFacts
            <6>2. QED
              BY <4>1, <4>2, <6>1, Wrapped DEF Below
          <5>2. QED
            BY <1>3, <4>2, <5>1
        <4>3. CASE y \in kept
          <5>1. y \in Nat /\ print_y <= mode.y_axis /\ (y + CharY <= print_y \/ y > mode.y_axis)
            BY <1>7, <2>1, <4>3
          <5>2. print_y + CharY < Word /\ print_y + CharY \in Nat
            BY <1>1, <1>3, <2>1, <5>1, PrintIndexed, ConstantFacts
          <5>3. print_y' = print_y + CharY
            BY <4>1, <5>2, Wrapped DEF Below
          <5>4. QED
            BY <1>3, <5>1, <5>3, ConstantFacts
        <4>4. QED
          BY <2>1, <4>1, <4>2, <4>3
      <3>3. QED
        BY <3>1, <3>2
    <2>2. pc' <= 3 => DOMAIN lines' = {}
      BY <1>5, Stops
    <2>3. ASSUME pc' <= 12, NEW y \in DOMAIN lines' PROVE lines'[y].length <= 20
      <3>1. /\ pc' = next /\ pc <= 12 /\ DOMAIN lines' = {print_y} \cup kept
            /\ lines'[print_y].length = length
            /\ \A v \in kept : v # print_y => lines'[v] = lines[v]
        BY <1>5, <2>3, Stops
      <3>2. CASE y = print_y
        BY <2>3, <3>1, <3>2
      <3>3. CASE y # print_y
        <4>1. y \in DOMAIN lines /\ lines'[y] = lines[y]
          BY <1>6, <2>3, <3>1, <3>3
        <4>2. QED
          BY <1>1, <3>1, <4>1 DEF LinesAbove
      <3>4. QED
        BY <3>2, <3>3
    <2>4. QED
      BY <1>2, <2>1, <2>2, <2>3, FitsKept DEF LinesAbove
  <1>12. DrawnAsAsked'
    <2>1. ASSUME Fits, CursorsFit PROVE Indexed(print_y + CharY)
      BY <1>1, <1>3, <1>4, <2>1, PrintIndexed DEF CursorsFit
    <2>2. Fits /\ CursorsFit =>
            OnRows(Strip(print_y, length)) /\ OnRows(Cells(print_y, length))
      BY <1>3, <2>1, TextOnRows
    <2>3. QED
      BY <1>1, <1>2, <2>2, DrawKeepsPicture
  <1>13. StaysInBuffer'
    <2>1. CASE Reason("print", pc)
      BY <1>1, <1>2, <2>1, DrawStays
    <2>2. CASE ~Reason("print", pc)
      <3>1. /\ ~Beyond(LongestLine * CharX, mode.y_axis + CharY)
            /\ ~(pc = 3 /\ start.print > mode.y_axis)
        BY <2>2 DEF Reason
      <3>2. print_y <= mode.y_axis
        <4>1. start.print \in Nat
          BY <1>1, StartFacts, ConstantFacts
        <4>2. QED
          BY <1>3, <1>4, <3>1, <4>1
      <3>3. ~Beyond(LongestLine * CharX, print_y + CharY)
        <4>1. /\ (print_y + CharY) * mode.x_axis \in Nat
              /\ (mode.y_axis + CharY) * mode.x_axis \in Nat
              /\ (print_y + CharY) * mode.x_axis <= (mode.y_axis + CharY) * mode.x_axis
          <5>1. /\ print_y + CharY \in Nat /\ mode.y_axis + CharY \in Nat
                /\ print_y + CharY <= mode.y_axis + CharY
            BY <1>3, <3>2, ConstantFacts
          <5>2. QED
            BY <1>3, <5>1, RowsGrow
        <4>2. LongestLine * CharX \in Nat
          BY <1>3, LineWidth
        <4>3. QED
          BY <3>1, <4>1, <4>2, ConstantFacts DEF Beyond
      <3>4. Written(Strip(print_y, length)) \cup Written(Cells(print_y, length)) \subseteq Pixels
        BY <1>3, <3>3, TextStays
      <3>5. QED
        BY <1>1, <1>2, <3>4, DrawStays
    <2>3. QED
      BY <2>1, <2>2
  <1>14. LinesWhole'
    <2> SUFFICES ASSUME Fits, messages = 0, NEW y \in DOMAIN lines', y + CharY <= mode.y_axis,
                        NEW x \in 0 .. lines'[y].length * CharX - 1, NEW j \in 0 .. CharY - 1
                 PROVE  back'[(y + j) * mode.x_axis + x] = lines'[y].colour
      BY <1>2, FitsKept DEF LinesWhole
    <2>1. y \in Nat /\ y <= mode.y_axis
      BY <1>3, <1>8, ConstantFacts DEF DisplayTypeOK
    <2>2. ~Endless(print_y)
      <3> SUFFICES ASSUME Endless(print_y) PROVE FALSE
        OBVIOUS
      <3>1. lines' = lines /\ pc > 3
        BY <1>4, <1>5
      <3>2. Indexed(print_y + CharY)
        BY <1>1, <1>3, <1>4, <3>1, PrintIndexed
      <3>3. QED
        BY <1>3, <3>2, TextOnRows, TextPlaces
    <2>3. /\ DOMAIN lines' = {print_y} \cup kept
          /\ lines'[print_y].length = length /\ lines'[print_y].colour = calls + 1
          /\ \A v \in kept : v # print_y => lines'[v] = lines[v]
      BY <1>5, <2>2
    <2>4. CASE y = print_y
      <3>1. x \in 0 .. length * CharX - 1 /\ Indexed(print_y + CharY)
        BY <1>1, <1>3, <2>1, <2>3, <2>4, PrintIndexed
      <3>2. back'[(print_y + j) * mode.x_axis + x] = calls + 1
        BY <1>1, <1>2, <1>3, <2>4, <3>1, LineWritten
      <3>3. QED
        BY <2>3, <2>4, <3>2
    <2>5. CASE y \in kept
      <3>1. /\ y + CharY <= print_y /\ lines'[y] = lines[y] /\ y \in DOMAIN lines
            /\ print_y <= mode.y_axis
        BY <1>3, <1>6, <1>7, <2>1, <2>3, <2>5
      <3>2. x \in 0 .. lines[y].length * CharX - 1
        BY <3>1
      <3>3. back[(y + j) * mode.x_axis + x] = lines[y].colour
        BY <1>1, <3>1, <3>2 DEF LinesWhole
      <3>4. Indexed(print_y + CharY)
        BY <1>1, <1>3, <3>1, PrintIndexed
      <3>5. /\ print_y + CharY < Word - 1
            /\ OnRows(Strip(print_y, length)) /\ OnRows(Cells(print_y, length))
        BY <1>3, <3>4, TextOnRows
      <3>6. <<x, y + j>> \notin Strip(print_y, length) \cup Cells(print_y, length)
        <4>1. y + j < print_y /\ y + j \in Nat
          BY <1>3, <2>1, <3>1, ConstantFacts
        <4>2. y + j \notin print_y .. print_y + CharY /\ y + j \notin print_y .. print_y + CharY - 1
          BY <1>3, <4>1
        <4>3. QED
          BY <1>3, <3>5, <4>2, TextPlaces
      <3>7. lines[y].length \in 1 .. LongestLine
        BY <1>1, <3>1, Stops DEF DisplayTypeOK
      <3>8. back'[(y + j) * mode.x_axis + x] = back[(y + j) * mode.x_axis + x]
        BY <1>1, <1>2, <2>1, <3>2, <3>5, <3>6, <3>7, LineKept
      <3>9. QED
        BY <3>1, <3>3, <3>8
    <2>6. QED
      BY <2>3, <2>4, <2>5
  <1>15. QED
    BY <1>8, <1>9, <1>10, <1>11, <1>12, <1>13, <1>14 DEF DisplayInv

(* A line of printd: from its first on, the lines of print are not kept.   *)
LEMMA PrintdStep ==
  ASSUME DisplayInv, NEW length \in 1 .. LongestLine, NEW next, printd(length, next),
         \/ pc = 16 /\ next = 17
         \/ pc = 20 /\ next = Failed
         \/ pc \in 10 .. Failed /\ pc # Stopped /\ next = Stopped,
         reserved' = reserved
  PROVE  DisplayInv'
  <1>1. /\ DisplayTypeOK /\ PrintCursor /\ FewMessages /\ LinesAbove
        /\ DrawnAsAsked /\ StaysInBuffer /\ LinesWhole
    BY DEF DisplayInv
  <1>2. /\ Draw("printd", Strip(printd_y, length), Cells(printd_y, length))
        /\ mode' = mode /\ start' = start /\ print_y' = print_y /\ lines' = lines
        /\ messages' = messages + 1
    BY DEF printd, Draw
  <1>3. \/ Endless(printd_y) /\ pc' = Stopped /\ printd_y' = printd_y
        \/ ~Endless(printd_y) /\ pc' = next /\ printd_y' = Below(printd_y)
    BY DEF printd
  <1>4. /\ printd_y \in Nat /\ start.printd \in Nat /\ messages \in Nat /\ mode \in Modes
        /\ CharY \in Nat \ {0}
    BY <1>1, StartFacts, ConstantFacts DEF DisplayTypeOK
  <1>5. pc \in 10 .. 22 /\ pc # Stopped
    BY Stops
  <1>6. start.printd + 3 * CharY < Word =>
          /\ pc <= 16 => printd_y = start.printd
          /\ pc <= 20 => printd_y <= start.printd + CharY
          /\ printd_y <= start.printd + 2 * CharY
    BY <1>1, <1>5 DEF FewMessages
  <1>7. DisplayTypeOK'
    <2>1. /\ back' \in [Pixels -> Int] /\ picture' \in [Points(mode) -> Int]
          /\ calls' \in Nat /\ UNCHANGED <<mode, start, frame>>
          /\ strays' \subseteq Names \X Nat
      BY <1>1, <1>2, DrawTyped DEF Names
    <2>2. pc' \in 1 .. Failed
      BY <1>3, Stops
    <2>3. printd_y' \in 0 .. Word - 1
      BY <1>1, <1>3, <1>4, NextLineFacts DEF DisplayTypeOK
    <2>4. messages' \in Nat
      BY <1>2, <1>4
    <2>5. QED
      BY <1>1, <1>2, <2>1, <2>2, <2>3, <2>4 DEF DisplayTypeOK
  <1>8. PrintCursor'
    <2>1. ~(pc' <= 3)
      BY <1>3, <1>5, Stops
    <2>2. print_y <= mode.y_axis
      BY <1>1, <1>5 DEF PrintCursor
    <2>3. QED
      BY <1>2, <2>1, <2>2 DEF PrintCursor
  <1>9. FewMessages'
    <2> SUFFICES ASSUME pc' # Stopped, start.printd + 3 * CharY < Word
                 PROVE  /\ pc' <= 16 => printd_y' = start.printd
                        /\ pc' <= 20 => printd_y' <= start.printd + CharY
                        /\ printd_y' <= start.printd + 2 * CharY
      BY <1>2 DEF FewMessages
    <2>1. printd_y + CharY \in Nat /\ printd_y + CharY < Word
      BY <1>4, <1>6, ConstantFacts
    <2>2. printd_y' = printd_y + CharY /\ pc' = next
      BY <1>3, <2>1, Wrapped DEF Below
    <2>3. (pc = 16 /\ pc' = 17) \/ (pc = 20 /\ pc' = 22)
      BY <2>2, Stops
    <2>4. QED
      BY <1>4, <1>6, <2>2, <2>3, Stops
  <1>10. LinesAbove'
    BY <1>1, <1>2, <1>3, <1>5, FitsKept, Stops DEF LinesAbove
  <1>11. DrawnAsAsked'
    <2>1. ASSUME Fits, CursorsFit PROVE Indexed(printd_y + CharY)
      <3>1. /\ start.printd + 3 * CharY \in Nat /\ Indexed(start.printd + 3 * CharY)
            /\ 0 \in Nat /\ 0 < mode.x_axis
        BY <1>4, <2>1, ModeFacts DEF CursorsFit
      <3>2. start.printd + 3 * CharY < Word
        BY <1>4, <3>1, IndexedPlace
      <3>3. printd_y + CharY \in Nat /\ printd_y + CharY <= start.printd + 3 * CharY
        BY <1>4, <1>6, <3>2
      <3>4. QED
        BY <1>4, <3>1, <3>3, IndexedPlace
    <2>2. Fits /\ CursorsFit =>
            OnRows(Strip(printd_y, length)) /\ OnRows(Cells(printd_y, length))
      BY <1>4, <2>1, TextOnRows
    <2>3. QED
      BY <1>1, <1>2, <2>2, DrawKeepsPicture
  <1>12. StaysInBuffer'
    <2>1. CASE Reason("printd", pc)
      BY <1>1, <1>2, <2>1, DrawStays
    <2>2. CASE ~Reason("printd", pc)
      <3>1. ~Beyond(LongestLine * CharX, start.printd + 3 * CharY)
        BY <2>2 DEF Reason
      <3>2. LongestLine * CharX \in Nat /\ start.printd + 3 * CharY \in Nat
        BY <1>4, LineWidth
      <3>3. start.printd + 3 * CharY < Word
        <4>1. /\ start.printd + 3 * CharY <= (start.printd + 3 * CharY) * mode.x_axis
              /\ (start.printd + 3 * CharY) * mode.x_axis \in Nat
          BY <1>4, <3>2, RowsGrow
        <4>2. (start.printd + 3 * CharY) * mode.x_axis + LongestLine * CharX < BackPixels
          BY <3>1, <3>2, <4>1, ConstantFacts DEF Beyond
        <4>3. QED
          BY <3>2, <4>1, <4>2, ConstantFacts
      <3>4. printd_y + CharY \in Nat /\ printd_y + CharY <= start.printd + 3 * CharY
        BY <1>4, <1>6, <3>3
      <3>5. ~Beyond(LongestLine * CharX, printd_y + CharY)
        <4>1. /\ (printd_y + CharY) * mode.x_axis \in Nat
              /\ (start.printd + 3 * CharY) * mode.x_axis \in Nat
              /\ (printd_y + CharY) * mode.x_axis <= (start.printd + 3 * CharY) * mode.x_axis
          BY <1>4, <3>2, <3>4, RowsGrow
        <4>2. QED
          BY <3>1, <3>2, <4>1, ConstantFacts DEF Beyond
      <3>6. Written(Strip(printd_y, length)) \cup Written(Cells(printd_y, length)) \subseteq Pixels
        BY <1>4, <3>5, TextStays
      <3>7. QED
        BY <1>1, <1>2, <3>6, DrawStays
    <2>3. QED
      BY <2>1, <2>2
  <1>13. LinesWhole'
    <2>1. messages' # 0
      BY <1>2, <1>4
    <2>2. QED
      BY <2>1 DEF LinesWhole
  <1>14. QED
    BY <1>7, <1>8, <1>9, <1>10, <1>11, <1>12, <1>13 DEF DisplayInv

(* The first call: the whole screen in one colour.                         *)
LEMMA FillStep ==
  ASSUME DisplayInv, Draw("fill", {}, Points(mode)),
         pc = 1, pc' = pc + 1, UNCHANGED <<cursors, messages, lines, reserved>>
  PROVE  DisplayInv'
  <1>1. mode \in Modes /\ mode.x_axis \in Nat \ {0} /\ mode.y_axis \in Nat \ {0}
    BY ModeFacts DEF DisplayInv, DisplayTypeOK
  <1>2. \A p \in Points(mode) : /\ p = <<p[1], p[2]>> /\ p \in Nat \X Nat
                                /\ p[1] \in 0 .. mode.x_axis - 1 /\ p[2] \in 0 .. mode.y_axis - 1
    BY <1>1 DEF Points
  <1>3. mode.x_axis * mode.y_axis <= BackPixels =>
          Written({}) \cup Written(Points(mode)) \subseteq Pixels
    BY <1>1, <1>2, PointsInBuffer DEF Written
  <1>4. Reason("fill", pc) \/ mode.x_axis * mode.y_axis <= BackPixels
    BY <1>1, ConstantFacts DEF Reason
  <1>5. Fits => OnRows({}) /\ OnRows(Points(mode))
    <2> SUFFICES ASSUME Fits, NEW p \in Points(mode)
                 PROVE  p[1] < mode.x_axis /\ p[2] * mode.x_axis + p[1] < Word
      BY <1>2 DEF OnRows
    <2>1. p[1] \in 0 .. mode.x_axis - 1 /\ p[2] \in 0 .. mode.y_axis - 1
      BY <1>2
    <2>2. p[2] * mode.x_axis + p[1] \in Pixels
      BY <1>1, <2>1, PointsInBuffer DEF Fits
    <2>3. QED
      BY <1>1, <2>1, <2>2, ConstantFacts DEF Pixels
  <1>6. QED
    BY <1>3, <1>4, <1>5, RectanglesStep

(* Then the squares, where there is no line yet.                           *)
LEMMA SquaresStep ==
  ASSUME DisplayInv, Draw("squares", WriteSquare(Squares[1]), WriteSquare(Squares[2])),
         pc = 2, pc' = pc + 1, UNCHANGED <<cursors, messages, lines, reserved>>
  PROVE  DisplayInv'
  <1>1. mode \in Modes /\ Squares[1] \in Area /\ Squares[2] \in Area
    BY ConstantFacts DEF DisplayInv, DisplayTypeOK
  <1>2. Fits => OnRows(WriteSquare(Squares[1])) /\ OnRows(WriteSquare(Squares[2]))
    BY <1>1, SquareOnRows DEF Fits
  <1>3. \/ Reason("squares", pc)
        \/ ~Beyond(Squares[1].x2, Squares[1].y2) /\ ~Beyond(Squares[2].x2, Squares[2].y2)
    BY DEF Reason
  <1>4. \/ Reason("squares", pc)
        \/ Written(WriteSquare(Squares[1])) \cup Written(WriteSquare(Squares[2])) \subseteq Pixels
    BY <1>1, <1>3, SquareStays
  <1>5. QED
    BY <1>2, <1>4, RectanglesStep

(* The picture, beside the lines.                                          *)
LEMMA PictureStep ==
  ASSUME DisplayInv, Draw("picture", {}, WriteSquare(Picture)),
         pc = 12, pc' = pc + 1, UNCHANGED <<cursors, messages, lines, reserved>>
  PROVE  DisplayInv'
  <1>1. mode \in Modes /\ Picture \in Area
    BY ConstantFacts DEF DisplayInv, DisplayTypeOK
  <1>2. Fits => OnRows({}) /\ OnRows(WriteSquare(Picture))
    BY <1>1, SquareOnRows DEF Fits, OnRows
  <1>3. Reason("picture", pc) \/ ~Beyond(Picture.x2, Picture.y2)
    BY DEF Reason
  <1>4. Reason("picture", pc) \/ Written({}) \cup Written(WriteSquare(Picture)) \subseteq Pixels
    BY <1>1, <1>3, SquareStays DEF Written
  <1>5. \A p \in {} \cup WriteSquare(Picture) : p[1] > 20 * CharX
    <2>1. Picture.x1 \in Nat /\ Picture.x2 \in Nat /\ Picture.y2 # Word - 1 /\ 20 * CharX \in Nat
      BY <1>1, ConstantFacts DEF Area
    <2>2. ASSUME NEW p \in (Picture.x1 .. Picture.x2) \X (Picture.y1 .. Picture.y2)
          PROVE  p[1] > 20 * CharX
      <3>1. p[1] \in Picture.x1 .. Picture.x2
        OBVIOUS
      <3>2. QED
        BY <2>1, <3>1, PictureAssumption
    <2>3. QED
      BY <2>1, <2>2 DEF WriteSquare
  <1>6. QED
    BY <1>2, <1>4, <1>5, RectanglesStep

(* Every step keeps the invariant: the calls of the script, the loop over  *)
(* the memory map, the failure of the heap, and a handler's message.       *)
LEMMA DisplayInvStep == DisplayInv /\ [DisplayNext]_displayVars => DisplayInv'
  <1> SUFFICES ASSUME DisplayInv, [DisplayNext]_displayVars PROVE DisplayInv'
    OBVIOUS
  <1>1. pc \in 1 .. 22 /\ reserved \in 0 .. MaxReserved
    BY Stops DEF DisplayInv, DisplayTypeOK
  <1>2. CASE Call
    <2>1. reserved' = reserved /\ pc + 1 \in 2 .. 21 /\ reserved' \in 0 .. MaxReserved
      BY <1>1, <1>2, CallCases
    <2>2. CASE pc = 1 /\ Draw("fill", {}, Points(mode))
               /\ pc' = pc + 1 /\ UNCHANGED <<cursors, messages, lines>>
      BY <2>1, <2>2, FillStep
    <2>3. CASE pc = 2 /\ Draw("squares", WriteSquare(Squares[1]), WriteSquare(Squares[2]))
               /\ pc' = pc + 1 /\ UNCHANGED <<cursors, messages, lines>>
      BY <2>1, <2>3, SquaresStep
    <2>4. CASE pc = 12 /\ Draw("picture", {}, WriteSquare(Picture))
               /\ pc' = pc + 1 /\ UNCHANGED <<cursors, messages, lines>>
      BY <2>1, <2>4, PictureStep
    <2>5. CASE pc = 13 /\ CopyScreen /\ pc' = pc + 1
      BY <2>1, <2>5, CopyStep
    <2>6. CASE pc \in 3 .. 11 /\ \E length \in 1 .. 20 : print(length, pc + 1)
      <3>1. PICK length \in 1 .. 20 : print(length, pc + 1)
        BY <2>6
      <3>2. length \in 1 .. LongestLine - 1 /\ pc \in 3 .. 20 /\ length <= 20
        BY <2>6, Stops
      <3>3. QED
        BY <2>1, <3>1, <3>2, PrintStep
    <2>7. CASE pc \in 14 .. 20 /\ \E length \in 1 .. 21 : print(length, pc + 1)
      <3>1. PICK length \in 1 .. 21 : print(length, pc + 1)
        BY <2>7
      <3>2. length \in 1 .. LongestLine - 1 /\ pc \in 3 .. 20 /\ ~(pc + 1 <= 12)
        BY <2>7, Stops
      <3>3. QED
        BY <2>1, <3>1, <3>2, PrintStep
    <2>8. CASE pc = 16 /\ printd(18, pc + 1)
      <3>1. 18 \in 1 .. LongestLine /\ pc + 1 = 17
        BY <2>8, Stops
      <3>2. QED
        BY <2>1, <2>8, <3>1, PrintdStep
    <2>9. QED
      BY <1>2, <2>2, <2>3, <2>4, <2>5, <2>6, <2>7, <2>8, CallCases
  <1>3. CASE WalkReserved
    <2>1. pc = 15
      BY <1>1, <1>3, ScriptCalls, LineIs DEF WalkReserved, Running
    <2>2. CASE reserved < MaxReserved /\ reserved' = reserved + 1 /\ print(12, pc)
      <3>1. reserved' \in 0 .. MaxReserved /\ 12 \in 1 .. LongestLine - 1
        BY <1>1, <2>2, ConstantFacts, Stops
      <3>2. pc \in 3 .. 20 /\ (pc = 15 /\ pc = 15) /\ (pc <= 12 => 12 <= 20)
        BY <2>1
      <3>3. QED
        BY <2>2, <3>1, <3>2, PrintStep
    <2>3. CASE /\ pc' = pc + 1
               /\ UNCHANGED <<mode, start, back, frame, cursors, reserved, calls, messages,
                              strays, picture, lines>>
      <3>1. DisplayTypeOK'
        BY <2>1, <2>3, Stops DEF DisplayInv, DisplayTypeOK, cursors
      <3>2. PrintCursor' /\ FewMessages'
        BY <2>1, <2>3, Stops DEF DisplayInv, PrintCursor, FewMessages, cursors
      <3>3. LinesAbove'
        BY <2>1, <2>3, FitsKept DEF DisplayInv, LinesAbove, cursors
      <3>4. DrawnAsAsked' /\ LinesWhole'
        BY <2>3, FitsKept DEF DisplayInv, DrawnAsAsked, LinesWhole, cursors
      <3>5. StaysInBuffer'
        BY <2>3, ReasonKept DEF DisplayInv
      <3>6. QED
        BY <3>1, <3>2, <3>3, <3>4, <3>5 DEF DisplayInv
    <2>4. QED
      BY <1>3, <2>2, <2>3 DEF WalkReserved
  <1>4. CASE HeapFails
    <2>1. reserved' = reserved
      BY <1>4 DEF HeapFails
    <2>2. CASE Running /\ Script[pc].op = "heap" /\ printd(22, Failed)
      <3>1. pc = 20 /\ 22 \in 1 .. LongestLine
        BY <1>1, <2>2, ScriptCalls, LineIs, Stops DEF Running
      <3>2. QED
        BY <2>1, <2>2, <3>1, PrintdStep
    <2>3. CASE pc = Failed /\ printd(15, Stopped)
      <3>1. pc \in 10 .. Failed /\ pc # Stopped /\ 15 \in 1 .. LongestLine
        BY <2>3, Stops
      <3>2. QED
        BY <2>1, <2>3, <3>1, PrintdStep
    <2>4. QED
      BY <1>4, <2>2, <2>3 DEF HeapFails
  <1>5. CASE Handler
    <2>1. pc \in 10 .. Failed /\ pc # Stopped /\ reserved' = reserved
      BY <1>1, <1>5, Stops DEF Handler, HandlersSet
    <2>2. PICK length \in 1 .. LongestLine : printd(length, Stopped)
      BY <1>5, Stops DEF Handler
    <2>3. QED
      BY <2>1, <2>2, PrintdStep
  <1>6. CASE UNCHANGED displayVars
    <2>1. DisplayTypeOK' /\ PrintCursor' /\ FewMessages'
      BY <1>6 DEF DisplayInv, DisplayTypeOK, PrintCursor, FewMessages, displayVars, cursors
    <2>2. LinesAbove'
      BY <1>6, FitsKept DEF DisplayInv, LinesAbove, displayVars, cursors
    <2>3. DrawnAsAsked' /\ LinesWhole'
      BY <1>6, FitsKept DEF DisplayInv, DrawnAsAsked, LinesWhole, displayVars, cursors
    <2>4. StaysInBuffer'
      BY <1>6, ReasonKept DEF DisplayInv, displayVars
    <2>5. QED
      BY <2>1, <2>2, <2>3, <2>4 DEF DisplayInv
  <1>7. QED
    BY <1>2, <1>3, <1>4, <1>5, <1>6 DEF DisplayNext

(* The invariant.                                                          *)
THEOREM DisplayAlways == DisplaySpec => []DisplayInv
  <1>1. QED
    BY InitInv, DisplayInvStep, PTL DEF DisplaySpec

-------------------------------------------------------------------------------
(* In a mode that fits, each pixel on the screen has the colour of the     *)
(* call that drew last at its coordinates, when the cursors start where    *)
(* no index wraps.                                                         *)
THEOREM PicturesTrue == DisplaySpec => []DrawnAsAsked
  <1>1. DisplayInv => DrawnAsAsked
    BY DEF DisplayInv
  <1>2. QED
    BY <1>1, DisplayAlways, PTL

(* In every mode and wherever the cursors start, whoever writes, or reads, *)
(* past back_fb has a reason of its own: print, which brings its cursor    *)
(* back to the screen, only with its first line or for want of room for a  *)
(* line below the screen.                                                  *)
THEOREM NothingStrays == DisplaySpec => []StaysInBuffer
  <1>1. DisplayInv => StaysInBuffer
    BY DEF DisplayInv
  <1>2. QED
    BY <1>1, DisplayAlways, PTL

(* No call of print, no square and no picture draws over a line that print *)
(* wrote since it was at the top, wherever its cursor started.             *)
THEOREM LinesStay == DisplaySpec => []LinesWhole
  <1>1. DisplayInv => LinesWhole
    BY DEF DisplayInv
  <1>2. QED
    BY <1>1, DisplayAlways, PTL

(* Only copyScreen changes the frame buffer, and it shows each pixel where *)
(* it was drawn, when the two buffers have rows of one length.             *)
THEOREM CopiesTrue == DisplaySpec => ShownAsAsked
  <1> DEFINE Shown == frame' # frame /\ Fits /\ CursorsFit /\ mode.ppsl = mode.x_axis =>
                        \A p \in Points(mode) : frame'[p[2] * mode.ppsl + p[1]] = picture[p]
  <1>1. DisplayInv /\ [DisplayNext]_displayVars => [Shown]_displayVars
    <2> SUFFICES ASSUME DisplayInv, DisplayNext, frame' # frame, Fits, CursorsFit,
                        mode.ppsl = mode.x_axis, NEW p \in Points(mode)
                 PROVE  frame'[p[2] * mode.ppsl + p[1]] = picture[p]
      OBVIOUS
    <2>1. CopyScreen
      <3>1. \A length, next : ~print(length, next) /\ ~printd(length, next)
        BY DEF print, printd, Draw
      <3>2. ~WalkReserved /\ ~HeapFails /\ ~Handler
        BY <3>1 DEF WalkReserved, HeapFails, Handler
      <3>3. Call
        BY <3>2 DEF DisplayNext
      <3>4. QED
        BY <3>1, <3>3, CallCases DEF Draw
    <2>2. DisplayTypeOK /\ DrawnAsAsked /\ mode \in Modes
      BY DEF DisplayInv, DisplayTypeOK
    <2>3. p[1] \in 0 .. mode.x_axis - 1 /\ p[2] \in 0 .. mode.y_axis - 1
      BY DEF Points
    <2> DEFINE n == p[2] * mode.x_axis + p[1]
    <2>4. p[2] * mode.ppsl + p[1] = n
      OBVIOUS
    <2>5. n \in Pixels
      BY <2>2, <2>3, PointsInBuffer DEF Fits
    <2>6. n \in FramePixels(mode) /\ 4 * n < mode.fb_size /\ n \in Nat
      <3>1. n \in 0 .. mode.x_axis * mode.y_axis - 1
        BY <2>2, <2>3, PixelBelow
      <3>2. /\ mode.ppsl * mode.y_axis \in Nat /\ mode.fb_size \in Nat
            /\ mode.fb_size >= 4 * (mode.ppsl * mode.y_axis)
        BY <2>2, ModeFacts
      <3> HIDE DEF n
      <3>3. n \in 0 .. mode.ppsl * mode.y_axis - 1
        BY <3>1
      <3>4. n \in Nat /\ 4 * n + 4 <= mode.fb_size
        BY <3>2, <3>3
      <3>5. n <= mode.fb_size \div 4 - 1 /\ mode.fb_size \div 4 - 1 \in Int
        BY <3>2, <3>4
      <3>6. QED
        BY <3>2, <3>4, <3>5 DEF FramePixels
    <2> HIDE DEF n
    <2>7. n \in Copied(mode.fb_size)
      BY <2>2, <2>6 DEF Copied, DisplayTypeOK
    <2>8. frame'[n] = back[n]
      BY <2>1, <2>2, <2>5, <2>6, <2>7 DEF CopyScreen, DisplayTypeOK
    <2>9. back[n] = picture[p]
      BY <2>2 DEF DrawnAsAsked, n
    <2>10. QED
      BY <2>4, <2>8, <2>9
  <1>2. QED
    BY <1>1, DisplayAlways, PTL DEF DisplaySpec, ShownAsAsked
===============================================================================
