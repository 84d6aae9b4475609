-------------------------------- MODULE Display --------------------------------
(***************************************************************************)
(* What KernelMain draws (kernel/kernel.cpp), through print, printd and    *)
(* the drawing of kernel/screen.cpp: pixels of a back buffer of a fixed    *)
(* size, addressed row by row, copied once to the frame buffer of whatever *)
(* mode the firmware chose.  Coordinates and indexes are uint32_t and      *)
(* wrap; the cursors of print and printd are in .bss, that nobody clears,  *)
(* so they start anywhere.                                                 *)
(*                                                                         *)
(* A colour is the number of the call that drew it, negative for the strip *)
(* cleared under a line of text.  The glyphs of a line fill their cells; a *)
(* call draws in one step.  What a write past back_fb does to what lies    *)
(* there is not followed.                                                  *)
(***************************************************************************)
EXTENDS Integers, Sequences

CONSTANTS
  Word,           \* 2^32 in the code: coordinates and indexes are below it
  BackPixels,     \* the pixels of back_fb
  CharX, CharY,   \* the cell of a character
  Modes,          \* the modes considered
  Squares,        \* the two that writeSquare draws first
  Picture,        \* where printBmp draws Mosa.bmp
  GarbageCursors, \* what .bss may hold where the cursors are
  MaxReserved     \* bound on the descriptors that are not available

(* video_info_t, without the address of the frame buffer.                  *)
VideoInfo == [x_axis : Nat \ {0}, y_axis : Nat \ {0}, ppsl : Nat \ {0}, fb_size : Nat]

Area == [x1 : Nat, y1 : Nat, x2 : Nat, y2 : 0 .. Word - 2]

(* The frame buffer holds its rows.                                        *)
ASSUME DisplayAssumption ==
  /\ {Word, BackPixels, CharX, CharY} \subseteq Nat \ {0} /\ MaxReserved \in Nat
  /\ BackPixels <= Word /\ GarbageCursors \subseteq 0 .. Word - 1
  /\ Modes \subseteq VideoInfo
  /\ \A m \in Modes : m.fb_size >= 4 * (m.ppsl * m.y_axis)
  /\ Squares \in Area \X Area /\ Picture \in Area
(* Mosa.bmp is drawn beside the lines above it, the longest of which has   *)
(* 20 characters.                                                          *)
ASSUME PictureAssumption == Picture.x1 > 20 * CharX

VARIABLES
  mode, start,        \* the mode, and where the cursors start
  back, frame,        \* back_fb and the frame buffer, by index
  print_y, printd_y,  \* the static y of print and of printd
  pc, reserved,       \* the next call of KernelMain; turns of its loop
  calls,              \* calls made so far
  messages,           \* history: calls of printd
  strays,             \* history: who wrote, or read, past back_fb, and when
  picture,            \* history: what the calls drew, by coordinates
  lines               \* history: what print wrote since it was at the top

cursors == <<print_y, printd_y>>
displayVars == <<mode, start, back, frame, cursors, pc, reserved, calls, messages,
                 strays, picture, lines>>

Unknown == 0
NoLines == [y \in {} |-> Unknown]
Pixels == 0 .. BackPixels - 1
FramePixels(m) == 0 .. m.fb_size \div 4 - 1
Points(m) == (0 .. m.x_axis - 1) \X (0 .. m.y_axis - 1)

DisplayInit ==
  /\ mode \in Modes
  /\ start \in [print : GarbageCursors, printd : GarbageCursors]
  /\ back = [k \in Pixels |-> Unknown]
  /\ frame = [k \in FramePixels(mode) |-> Unknown]
  /\ print_y = start.print /\ printd_y = start.printd
  /\ pc = 1 /\ reserved = 0 /\ calls = 0 /\ messages = 0
  /\ strays = {}
  /\ picture = [p \in Points(mode) |-> Unknown]
  /\ lines = NoLines

-------------------------------------------------------------------------------
(* The calls of KernelMain, with the length of each line.                  *)
Line(length) == [op |-> "print", length |-> length]

Script ==
  <<[op |-> "fill"], [op |-> "squares"], Line(14), Line(20),
    Line(15), Line(9), Line(13), Line(9), Line(14), Line(9), Line(14),
    [op |-> "picture"], [op |-> "copy"], Line(21), [op |-> "loop"],
    [op |-> "printd", length |-> 18], Line(9), [op |-> "room"], Line(10), [op |-> "heap"]>>

Stopped == Len(Script) + 1
Failed == Len(Script) + 2

-------------------------------------------------------------------------------
Rect(x1, y1, x2, y2) == [x1 |-> x1, y1 |-> y1, x2 |-> x2, y2 |-> y2]

(* Mutant: rows as long as those of the frame buffer.                      *)
PixelOfLine(x, y) == (y * mode.ppsl + x) % Word

Pixel(x, y) == (y * mode.x_axis + x) % Word

(* The places that writeSquare draws: i from x1 to x2, j from y1 to y2,    *)
(* both included.  Every j is at most Word - 1.                            *)
WriteSquare(r) ==
  IF r.y2 = Word - 1 THEN {r.x1} \X (0 .. Word - 1)
  ELSE (r.x1 .. r.x2) \X (r.y1 .. r.y2)

Written(places) == {Pixel(p[1], p[2]) : p \in places}

(* What a call leaves in a place: the last that it draws has its colour.   *)
Over(place, cleared, drawn, old) ==
  IF place \in drawn THEN calls + 1
  ELSE IF place \in cleared THEN -(calls + 1)
  ELSE old

(* Draws places over others; by coordinates what lies outside the screen   *)
(* is not seen.                                                            *)
Draw(by, cleared, drawn) ==
  /\ LET under == Written(cleared)
         over == Written(drawn)
     IN /\ back' = [n \in Pixels |-> Over(n, under, over, back[n])]
        /\ strays' = IF under \cup over \subseteq Pixels THEN strays
                     ELSE strays \cup {<<by, pc>>}
  /\ picture' = [p \in Points(mode) |-> Over(p, cleared, drawn, picture[p])]
  /\ calls' = calls + 1
  /\ UNCHANGED <<mode, start, frame>>

(* Mutants: lines that overlap, and a test made before y moves.            *)
BelowOverlap(y) == (y + CharY - 1) % Word
NextLineLate(y) == IF y > mode.y_axis THEN 0 ELSE (y + CharY) % Word

Below(y) == (y + CharY) % Word

NextLine(y) == IF Below(y) > mode.y_axis THEN 0 ELSE Below(y)

(* The inner loop of a strip that reaches the last row of all.             *)
Endless(y) == Below(y) = Word - 1

(* A strip of one row more than a character.                               *)
Strip(y, length) == WriteSquare(Rect(0, y, length * CharX, Below(y)))

Cells(y, length) ==
  IF Endless(y) THEN {}
  ELSE {<<x, (y + j) % Word>> : x \in 0 .. length * CharX - 1, j \in 0 .. CharY - 1}

print(length, next) ==
  /\ Draw("print", Strip(print_y, length), Cells(print_y, length))
  /\ \/ Endless(print_y) /\ pc' = Stopped /\ UNCHANGED <<print_y, lines>>
     \/ /\ ~Endless(print_y) /\ pc' = next
        /\ print_y' = NextLine(print_y)
        /\ lines' = [y \in {print_y} \cup (IF print_y = 0 THEN {} ELSE DOMAIN lines) |->
                       IF y = print_y THEN [length |-> length, colour |-> calls + 1]
                       ELSE lines[y]]
  /\ UNCHANGED <<printd_y, messages>>

printd(length, next) ==
  /\ Draw("printd", Strip(printd_y, length), Cells(printd_y, length))
  /\ messages' = messages + 1
  /\ \/ Endless(printd_y) /\ pc' = Stopped /\ UNCHANGED printd_y
     \/ ~Endless(printd_y) /\ pc' = next /\ printd_y' = Below(printd_y)
  /\ UNCHANGED <<print_y, lines>>

(* Mutant: a size in bytes taken for one in pixels.                        *)
CopiedFew(size) == {k \in DOMAIN frame : 4 * (4 * k) < size}

Copied(size) == {k \in DOMAIN frame : 4 * k < size}

(* Both screens have the size of the one video_info_t, so that the test of *)
(* copyScreen never fails.                                                 *)
CopyScreen ==
  LET copied == Copied(mode.fb_size)
  IN /\ frame' = [k \in DOMAIN frame |->
                    IF k \notin copied THEN frame[k]
                    ELSE IF k \in Pixels THEN back[k] ELSE Unknown]
     /\ strays' = IF copied \subseteq Pixels THEN strays ELSE strays \cup {<<"copy", pc>>}
     /\ UNCHANGED <<mode, start, back, cursors, calls, messages, picture, lines>>

-------------------------------------------------------------------------------
Running == pc \in DOMAIN Script

(* The first call after InitializeInterrupt.                               *)
HandlersSet == 10

Call ==
  /\ Running
  /\ LET c == Script[pc]
     IN \/ /\ \/ /\ c.op = "fill"
                 /\ Draw("fill", {}, Points(mode))
              \/ /\ c.op = "squares"
                 /\ Draw("squares", WriteSquare(Squares[1]), WriteSquare(Squares[2]))
              \/ /\ c.op = "picture"
                 /\ Draw("picture", {}, WriteSquare(Picture))
           /\ pc' = pc + 1
           /\ UNCHANGED <<cursors, messages, lines>>
        \/ c.op = "copy" /\ CopyScreen /\ pc' = pc + 1
        \/ c.op = "print" /\ print(c.length, pc + 1)
        \/ c.op = "printd" /\ printd(c.length, pc + 1)
        \/ c.op = "room" /\ \E length \in {7, 12} : print(length, pc + 1)
        \/ c.op = "heap" /\ print(9, pc + 1)
  /\ UNCHANGED reserved

(* A descriptor that is not available, or the loop's end.                  *)
WalkReserved ==
  /\ Running /\ Script[pc].op = "loop"
  /\ \/ reserved < MaxReserved /\ reserved' = reserved + 1 /\ print(12, pc)
     \/ /\ pc' = pc + 1
        /\ UNCHANGED <<mode, start, back, frame, cursors, reserved, calls, messages,
                       strays, picture, lines>>

(* The two messages of a failure.                                          *)
HeapFails ==
  /\ \/ Running /\ Script[pc].op = "heap" /\ printd(22, Failed)
     \/ pc = Failed /\ printd(15, Stopped)
  /\ UNCHANGED reserved

(* IntDefault and IntSegFault, between two calls.                          *)
Handler ==
  /\ pc >= HandlersSet /\ pc # Stopped
  /\ \E length \in {14, 18} : printd(length, Stopped)
  /\ UNCHANGED reserved

DisplayNext == Call \/ WalkReserved \/ HeapFails \/ Handler

DisplaySpec == DisplayInit /\ [][DisplayNext]_displayVars

-------------------------------------------------------------------------------
LongestLine == 22

(* No index wraps in the rows down to y.                                   *)
Indexed(y) == (y + 1) * mode.x_axis <= Word

(* The mode's pixels have room in the back buffer, and no row is too short *)
(* for what is drawn on it.                                                *)
Fits ==
  /\ mode.x_axis * mode.y_axis <= BackPixels
  /\ LongestLine * CharX < mode.x_axis
  /\ Indexed(mode.y_axis + CharY)
  /\ \A r \in {Picture, Squares[1], Squares[2]} :
       r.x2 < mode.x_axis /\ Indexed(r.y2)

(* Where the cursors start, the lines below have rows that do not wrap.    *)
CursorsFit == Indexed(start.print + CharY) /\ Indexed(start.printd + 3 * CharY)

(* In a mode that fits, each pixel is where its coordinates say, whatever  *)
(* was drawn below the screen's last row, as long as no index wraps.       *)
DrawnAsAsked ==
  Fits /\ CursorsFit =>
    \A p \in Points(mode) : back[p[2] * mode.x_axis + p[1]] = picture[p]

(* copyScreen shows the picture drawn so far: in a mode that fits, when    *)
(* the rows of the frame buffer have no padding.                           *)
ShownAsAsked ==
  [][frame' # frame /\ Fits /\ CursorsFit /\ mode.ppsl = mode.x_axis =>
       \A p \in Points(mode) : frame'[p[2] * mode.ppsl + p[1]] = picture[p]]_displayVars

(* The index of a place does not lie in the back buffer.                   *)
Beyond(x, y) == y * mode.x_axis + x >= BackPixels

(* A call writes, or copyScreen reads, past the back buffer in no mode     *)
(* without a reason of its own.  print has one when there is no room for a *)
(* line below the screen, or for the first line that it writes where its   *)
(* cursor starts; printd, whose cursor nothing brings back, when the third *)
(* line from its start has no room.                                        *)
StaysInBuffer ==
  \A s \in strays :
    \/ s[1] = "fill" /\ mode.x_axis * mode.y_axis > BackPixels
    \/ s[1] = "copy" /\ mode.fb_size > 4 * BackPixels
    \/ s[1] = "squares" /\ \E k \in {1, 2} : Beyond(Squares[k].x2, Squares[k].y2)
    \/ s[1] = "picture" /\ Beyond(Picture.x2, Picture.y2)
    \/ s[1] = "print" /\ \/ Beyond(LongestLine * CharX, mode.y_axis + CharY)
                         \/ s[2] = 3 /\ start.print > mode.y_axis
    \/ s[1] = "printd" /\ Beyond(LongestLine * CharX, start.printd + 3 * CharY)

(* As long as printd has not written over them, the lines that print wrote *)
(* since it was at the top are whole, wherever they are on the screen and  *)
(* wherever the cursor started.                                            *)
LinesWhole ==
  Fits /\ messages = 0 =>
    \A y \in DOMAIN lines :
      y + CharY <= mode.y_axis =>
        \A x \in 0 .. lines[y].length * CharX - 1, j \in 0 .. CharY - 1 :
          back[(y + j) * mode.x_axis + x] = lines[y].colour
===============================================================================
