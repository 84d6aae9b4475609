------------------------------- MODULE FontFile --------------------------------
(***************************************************************************)
(* A glyph's way to the screen: font/makefontfile.c reads hankaku.txt line *)
(* by line and writes hankaku, which the loader hands to the kernel, whose *)
(* AsciiFont copies it (kernel/font.cpp) and whose isDraw says which       *)
(* pixels to draw.  font/testfont.c shows the same file.                   *)
(*                                                                         *)
(* A line of the text is a Header, 0x and a number, or a row, the columns  *)
(* that hold an @.  Blank lines are not in the model: each fscanf begins   *)
(* by skipping white space.  The number of a header goes nowhere.          *)
(***************************************************************************)
EXTENDS Integers, Sequences

CONSTANTS
  GlyphCount, FontNum,  \* glyphs in the file, and those the kernel takes
  WordBytes,            \* bytes in a uint64_t
  Cols, Header,
  Texts                 \* the texts considered

Rows == 2 * WordBytes
Columns == 0 .. Cols - 1
Row == [Columns -> BOOLEAN]

ASSUME FontAssumption ==
  /\ {GlyphCount, FontNum, WordBytes, Cols} \subseteq Nat \ {0}
  /\ FontNum <= GlyphCount
ASSUME TextAssumption == Texts \subseteq Seq(Row \cup {Header})

VARIABLES
  text, pos,  \* hankaku.txt and the next line
  pc, i, k,
  line,       \* the buffer of fscanf
  font,       \* font[GlyphCount], on the stack
  hankaku,    \* the bytes of the file written
  glyphs      \* MonoAsciiFont::row of each glyph, in the kernel

fontVars == <<text, pos, pc, i, k, line, font, hankaku, glyphs>>

Nothing == [b \in {} |-> 0]

FontInit ==
  /\ text \in Texts /\ pos = 1
  /\ pc = "header" /\ i = 0 /\ k = 0
  /\ line = [x \in Columns |-> FALSE]
  /\ font = [g \in 0 .. GlyphCount - 1 |-> [r \in 0 .. Rows - 1 |-> -1]]
  /\ hankaku = Nothing /\ glyphs = Nothing

-------------------------------------------------------------------------------
AtEof == pos > Len(text)

(* Mutant: a line too many, as with "\n0x%x\n" before the loop.            *)
AfterHeaderLine == pos + 2

AfterHeader == pos + 1

(* fscanf of the number, then characters up to a line's end.  What is not  *)
(* a header is passed over alike; at the end of the file no character      *)
(* comes and the loop has no end.                                          *)
ReadHeader ==
  /\ pc = "header" /\ i < GlyphCount
  /\ IF AtEof THEN pc' = "spin" /\ UNCHANGED <<pos, k>>
     ELSE pc' = "rows" /\ pos' = AfterHeader /\ k' = 0
  /\ UNCHANGED <<text, i, line, font, hankaku, glyphs>>

(* What %s leaves in the buffer: a row, all of it; four characters and a   *)
(* NUL of a header, the rest as it was; nothing new at the end.            *)
Scanned ==
  IF AtEof THEN line
  ELSE IF text[pos] = Header THEN [x \in Columns |-> x > 4 /\ line[x]]
  ELSE text[pos]

(* 1 << j                                                                  *)
Bit[j \in 0 .. Cols] == IF j = 0 THEN 1 ELSE 2 * Bit[j - 1]

(* Mutant: the row mirrored.                                               *)
EncodeMirrored(l) ==
  LET line_num[j \in 0 .. Cols] ==
        IF j = 0 THEN 0 ELSE line_num[j - 1] + (IF l[j - 1] THEN Bit[j - 1] ELSE 0)
  IN line_num[Cols]

(* What line_num is after j turns, and at the end.                         *)
Encode(l) ==
  LET line_num[j \in 0 .. Cols] ==
        IF j = 0 THEN 0 ELSE line_num[j - 1] + (IF l[Cols - j] THEN Bit[j - 1] ELSE 0)
  IN line_num[Cols]

AfterRow == IF AtEof THEN pos ELSE pos + 1

NextRow == k + 1

ReadRow ==
  /\ pc = "rows" /\ k < Rows
  /\ line' = Scanned
  /\ font' = [font EXCEPT ![i][k] = Encode(line')]
  /\ pos' = AfterRow /\ k' = NextRow
  /\ UNCHANGED <<text, pc, i, hankaku, glyphs>>

EndGlyph ==
  /\ pc = "rows" /\ k = Rows
  /\ pc' = "header" /\ i' = i + 1
  /\ UNCHANGED <<text, pos, k, line, font, hankaku, glyphs>>

WriteFile ==
  /\ pc = "header" /\ i = GlyphCount
  /\ hankaku' = [b \in 0 .. GlyphCount * Rows - 1 |-> font[b \div Rows][b % Rows]]
  /\ pc' = "written"
  /\ UNCHANGED <<text, pos, i, k, line, font, glyphs>>

(* MonoAsciiFont(mono_font), and AsciiFont(font_file): glyph g is copied   *)
(* from font_file + g*2.                                                   *)
NewMonoAsciiFont(at) == [y \in 0 .. Rows - 1 |-> hankaku[at + y]]

NewAsciiFont ==
  /\ pc = "written"
  /\ glyphs' = [g \in 0 .. FontNum - 1 |->
                  NewMonoAsciiFont(g * 2 * WordBytes)]
  /\ pc' = "loaded"
  /\ UNCHANGED <<text, pos, i, k, line, font, hankaku>>

FontNext == ReadHeader \/ ReadRow \/ EndGlyph \/ WriteFile \/ NewAsciiFont

FontSpec == FontInit /\ [][FontNext]_fontVars

-------------------------------------------------------------------------------
GetFont(c) == glyphs[c]

(* Outside the glyph isDraw does not return.                               *)
Halts == "halts"

IsDraw(g, x, y) ==
  IF x < Cols /\ y < Rows THEN (GetFont(g)[y] \div Bit[Cols - 1 - x]) % 2 = 1
  ELSE Halts

(* testfont's char is signed; the shift keeps the sign.                    *)
Signed(b) == IF b >= Bit[Cols - 1] THEN b - Bit[Cols] ELSE b

Shown(g, x, y) == (Signed(hankaku[g * Rows + y]) \div Bit[Cols - 1 - x]) % 2 = 1

LineOf(g, y) == g * (Rows + 1) + 2 + y

WellFormed ==
  /\ Len(text) >= GlyphCount * (Rows + 1)
  /\ \A g \in 0 .. GlyphCount - 1, y \in 0 .. Rows - 1 : text[LineOf(g, y)] # Header

(* For every character from 0 on, the pixels the kernel draws are the @ of *)
(* the text, if its rows are where they belong; testfont shows the same.   *)
GlyphsDrawn ==
  WellFormed /\ pc = "loaded" =>
    \A g \in 0 .. FontNum - 1, x \in Columns, y \in 0 .. Rows - 1 :
      /\ IsDraw(g, x, y) = text[LineOf(g, y)][x]
      /\ Shown(g, x, y) = text[LineOf(g, y)][x]

(* The tool hangs for a text that ends before the last header, and for no  *)
(* other; a text cut later is written with rows of the buffer's last line. *)
HangsForShortText ==
  /\ pc = "spin" => Len(text) < (GlyphCount - 1) * (Rows + 1) + 1
  /\ pc \in {"written", "loaded"} => Len(text) >= (GlyphCount - 1) * (Rows + 1) + 1
===============================================================================
