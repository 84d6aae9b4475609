----------------------------- MODULE FontFileProofs -----------------------------
(***************************************************************************)
(* Proofs about FontFile, for every number of glyphs, rows and columns and *)
(* every text.                                                             *)
(*                                                                         *)
(* First what a row is converted to.  Bit and line_num are defined by      *)
(* recursion, so that they have to be shown to exist (Recursion) before    *)
(* their equations can be used (BitFacts, EncodeSteps).  After the turn of *)
(* a column, line_num is what the turns before left, below the power of    *)
(* two of this one (LowerDigits), and the turns after it add multiples of  *)
(* the next power (HigherDigits); hence the bit that isDraw and testfont   *)
(* take out is the column (Decode).                                        *)
(*                                                                         *)
(* Then where a row is read: the position in the text is the number of     *)
(* lines asked for, or the end (Position), and no header was passed at the *)
(* end (HeadersRead); in a well formed text the rows that the loops have   *)
(* left behind are those of the text (RowsEncoded).                        *)
(***************************************************************************)
EXTENDS FontFile, FiniteSetTheorems, WellFoundedInduction, TLAPS

FontTypeOK ==
  /\ text \in Seq(Row \cup {Header}) /\ pos \in Nat
  /\ pc \in {"header", "rows", "spin", "written", "loaded"}
  /\ i \in 0 .. GlyphCount /\ k \in 0 .. Rows
  /\ pc \in {"rows", "spin"} => i < GlyphCount
  /\ pc \in {"written", "loaded"} => i = GlyphCount
  /\ line \in Row
  /\ font \in [0 .. GlyphCount - 1 -> [0 .. Rows - 1 -> Int]]

(* The lines before glyph g, and those that the loops have asked for.      *)
Lines(g) == g * (Rows + 1)
Asked == Lines(i) + (IF pc = "rows" THEN 1 + k ELSE 0)

(* The next line is the one behind those asked for, or there is none.      *)
Position ==
  pc \in {"header", "rows"} =>
    pos = IF Asked <= Len(text) THEN Asked + 1 ELSE Len(text) + 1

(* No header is passed at the end of the text.                             *)
HeadersRead ==
  /\ pc = "rows" => Len(text) > Lines(i)
  /\ pc \in {"header", "written", "loaded"} /\ i > 0 => Len(text) > Lines(i - 1)
  /\ pc = "spin" => Len(text) <= Lines(i)

Converted(g, r) == g < i \/ (pc = "rows" /\ g = i /\ r < k)

(* The rows behind the loops hold what stands in their lines, and so do    *)
(* the file and the kernel's glyphs.                                       *)
RowsEncoded ==
  WellFormed =>
    \A g \in 0 .. GlyphCount - 1, r \in 0 .. Rows - 1 :
      Converted(g, r) => font[g][r] = Encode(text[LineOf(g, r)])

FileAsFont ==
  pc \in {"written", "loaded"} =>
    \A g \in 0 .. GlyphCount - 1, r \in 0 .. Rows - 1 : hankaku[g * Rows + r] = font[g][r]

GlyphsAsFont ==
  pc = "loaded" =>
    \A g \in 0 .. FontNum - 1, r \in 0 .. Rows - 1 : glyphs[g][r] = font[g][r]

FontInv ==
  FontTypeOK /\ Position /\ HeadersRead /\ RowsEncoded /\ FileAsFont /\ GlyphsAsFont

-------------------------------------------------------------------------------
(* A set of numbers that has an element has a smallest one: the intervals  *)
(* below its elements are finite sets, and have a minimal one.             *)
LEMMA SmallestElement ==
  ASSUME NEW X \in SUBSET Nat, X # {}
  PROVE  \E m \in X : \A n \in X : m <= n
  <1> DEFINE T == {0 .. m - 1 : m \in X}
  <1>1. T # {}
    OBVIOUS
  <1>2. T \subseteq FiniteSubsetsOf(Nat)
    <2>1. ASSUME NEW m \in X PROVE 0 .. m - 1 \in FiniteSubsetsOf(Nat)
      <3>1. IsFiniteSet(0 .. m - 1)
        BY FS_Interval
      <3>2. QED
        BY <3>1 DEF FiniteSubsetsOf
    <2>2. QED
      BY <2>1
  <1>3. PICK s \in T : \A t \in T : <<t, s>> \notin StrictSubsetOrdering(Nat)
    BY <1>1, <1>2, FS_StrictSubsetOrderingWellFounded, WFMin
  <1>4. PICK m \in X : s = 0 .. m - 1
    OBVIOUS
  <1>5. ASSUME NEW n \in X, n < m PROVE FALSE
    <2>1. 0 .. n - 1 \in T
      OBVIOUS
    <2>2. 0 .. n - 1 \subseteq s /\ n \in s /\ n \notin 0 .. n - 1
      BY <1>4, <1>5
    <2>3. <<0 .. n - 1, s>> \in StrictSubsetOrdering(Nat)
      BY <1>4, <2>2 DEF StrictSubsetOrdering
    <2>4. QED
      BY <1>3, <2>1, <2>3
  <1>6. QED
    BY <1>5

(* What holds of 0 and passes from each number to the next holds up to n.  *)
LEMMA UpTo ==
  ASSUME NEW n \in Nat, NEW S, 0 \in S, \A m \in 0 .. n - 1 : m \in S => m + 1 \in S
  PROVE  \A m \in 0 .. n : m \in S
  <1> DEFINE X == {m \in 0 .. n : m \notin S}
  <1>1. SUFFICES ASSUME X # {} PROVE FALSE
    OBVIOUS
  <1>2. PICK m \in X : \A u \in X : m <= u
    <2>1. X \in SUBSET Nat
      OBVIOUS
    <2> HIDE DEF X
    <2>2. QED
      BY <1>1, <2>1, SmallestElement
  <1>3. m \in 0 .. n /\ m \notin S /\ m # 0
    BY <1>2
  <1>4. m - 1 \in 0 .. n - 1 /\ (m - 1) + 1 = m
    BY <1>3
  <1>5. m - 1 \in S
    <2>1. ~(m <= m - 1)
      BY <1>3
    <2>2. QED
      BY <1>2, <1>4, <2>1
  <1>6. QED
    BY <1>3, <1>4, <1>5

(* f begins with c, and each value comes from the one before it by a step. *)
Steps(n, V) == [1 .. n -> [V -> V]]
StepByStep(f, n, V, c, step) ==
  f \in [0 .. n -> V] /\ f[0] = c /\ \A j \in 1 .. n : f[j] = step[j][f[j - 1]]

(* A definition by recursion defines a function.                           *)
LEMMA Recursion ==
  ASSUME NEW n \in Nat, NEW V, NEW c \in V, NEW step \in Steps(n, V)
  PROVE  \E f : StepByStep(f, n, V, c, step)
  <1> USE DEF Steps
  <1> DEFINE S == {m \in 0 .. n : \E f \in [0 .. m -> V] :
                     f[0] = c /\ \A j \in 1 .. m : f[j] = step[j][f[j - 1]]}
  <1>1. 0 \in S
    <2>1. 0 \in 0 .. n
      OBVIOUS
    <2>2. \E f \in [0 .. 0 -> V] : f[0] = c /\ \A j \in 1 .. 0 : f[j] = step[j][f[j - 1]]
      <3>1. [j \in 0 .. 0 |-> c] \in [0 .. 0 -> V] /\ [j \in 0 .. 0 |-> c][0] = c
        OBVIOUS
      <3>2. \A j : j \notin 1 .. 0
        OBVIOUS
      <3>3. QED
        BY <3>1, <3>2
    <2>3. QED
      BY <2>1, <2>2
  <1>2. ASSUME NEW m \in 0 .. n - 1, m \in S PROVE m + 1 \in S
    <2>1. PICK f \in [0 .. m -> V] :
            f[0] = c /\ \A j \in 1 .. m : f[j] = step[j][f[j - 1]]
      BY <1>2
    <2> DEFINE g == [j \in 0 .. m + 1 |-> IF j = m + 1 THEN step[m + 1][f[m]] ELSE f[j]]
    <2>2. step[m + 1][f[m]] \in V
      <3>1. m + 1 \in 1 .. n /\ m \in 0 .. m
        OBVIOUS
      <3>2. QED
        BY <3>1
    <2>3. g \in [0 .. m + 1 -> V]
      BY <2>2
    <2>4. g[0] = c
      BY <2>1
    <2>5. ASSUME NEW j \in 1 .. m + 1 PROVE g[j] = step[j][g[j - 1]]
      <3>1. j \in 0 .. m + 1 /\ j - 1 \in 0 .. m /\ j - 1 \in 0 .. m + 1 /\ j - 1 # m + 1
        OBVIOUS
      <3>2. g[j - 1] = f[j - 1]
        BY <3>1
      <3>3. CASE j = m + 1
        <4>1. g[j] = step[m + 1][f[m]] /\ j - 1 = m
          BY <3>1, <3>3
        <4>2. QED
          BY <3>2, <3>3, <4>1
      <3>4. CASE j # m + 1
        <4>1. j \in 1 .. m /\ g[j] = f[j]
          BY <3>1, <3>4
        <4>2. QED
          BY <2>1, <3>2, <4>1
      <3>5. QED
        BY <3>3, <3>4
    <2>6. m + 1 \in 0 .. n
      OBVIOUS
    <2> HIDE DEF g
    <2>7. QED
      BY <2>3, <2>4, <2>5, <2>6
  <1> HIDE DEF S
  <1>3. n \in S
    <2>1. \A m \in 0 .. n : m \in S
      BY <1>1, <1>2, UpTo
    <2>2. QED
      BY <2>1
  <1>4. QED
    BY <1>3 DEF S, StepByStep

(* The powers of two.                                                      *)
LEMMA BitFacts ==
  /\ Bit \in [0 .. Cols -> Nat] /\ Bit[0] = 1
  /\ \A j \in 1 .. Cols : Bit[j] = 2 * Bit[j - 1]
  <1> DEFINE step == [j \in 1 .. Cols |-> [v \in Nat |-> 2 * v]]
             F(f) == [j \in 0 .. Cols |-> IF j = 0 THEN 1 ELSE 2 * f[j - 1]]
  <1>1. Cols \in Nat /\ \A j \in 1 .. Cols : j - 1 \in 0 .. Cols
    BY FontAssumption
  <1>2. PICK f : StepByStep(f, Cols, Nat, 1, step)
    <2>1. step \in Steps(Cols, Nat) /\ 1 \in Nat
      BY DEF Steps
    <2> HIDE DEF step
    <2>2. QED
      BY <1>1, <2>1, Recursion
  <1>3. f \in [0 .. Cols -> Nat] /\ f[0] = 1 /\ \A j \in 1 .. Cols : f[j] = step[j][f[j - 1]]
    BY <1>2 DEF StepByStep
  <1>4. \A j \in 1 .. Cols : f[j] = 2 * f[j - 1]
    BY <1>1, <1>3
  <1>5. f = F(f)
    <2>1. \A j \in 0 .. Cols : j = 0 \/ j \in 1 .. Cols
      BY <1>1
    <2>2. \A j \in 0 .. Cols : f[j] = F(f)[j]
      BY <1>3, <1>4, <2>1
    <2>3. QED
      BY <1>3, <2>2
  <1>6. Bit = F(Bit)
    BY <1>5 DEF Bit
  <1> HIDE DEF step
  <1>7. Bit[0] = 1 /\ \A j \in 1 .. Cols : Bit[j] = 2 * Bit[j - 1]
    BY <1>1, <1>6
  <1>8. \A j \in 0 .. Cols : Bit[j] \in Nat
    <2> DEFINE S == {j \in 0 .. Cols : Bit[j] \in Nat}
    <2>1. 0 \in S
      BY <1>1, <1>7
    <2>2. ASSUME NEW j \in 0 .. Cols - 1, j \in S PROVE j + 1 \in S
      <3>1. j + 1 \in 1 .. Cols /\ j + 1 \in 0 .. Cols /\ (j + 1) - 1 = j
        BY <1>1
      <3>2. Bit[j + 1] = 2 * Bit[j]
        BY <1>7, <3>1
      <3>3. QED
        BY <2>2, <3>1, <3>2
    <2> HIDE DEF S
    <2>3. \A j \in 0 .. Cols : j \in S
      BY <1>1, <2>1, <2>2, UpTo
    <2>4. QED
      BY <2>3 DEF S
  <1>9. Bit \in [0 .. Cols -> Nat]
    BY <1>6, <1>8
  <1>10. QED
    BY <1>7, <1>9

(* What line_num is after each turn.                                       *)
Turn(l, j) == IF l[Cols - j] THEN Bit[j - 1] ELSE 0

LineNum(N, l) ==
  /\ N \in [0 .. Cols -> Nat] /\ N[0] = 0 /\ N[Cols] = Encode(l)
  /\ \A j \in 1 .. Cols : N[j] = N[j - 1] + Turn(l, j)

LEMMA EncodeSteps ==
  ASSUME NEW l \in Row
  PROVE  \E N : LineNum(N, l)
  <1> DEFINE step == [j \in 1 .. Cols |-> [v \in Nat |-> v + Turn(l, j)]]
             F(f) == [j \in 0 .. Cols |->
                        IF j = 0 THEN 0
                        ELSE f[j - 1] + (IF l[Cols - j] THEN Bit[j - 1] ELSE 0)]
             N[j \in 0 .. Cols] ==
               IF j = 0 THEN 0 ELSE N[j - 1] + (IF l[Cols - j] THEN Bit[j - 1] ELSE 0)
  <1>1. Cols \in Nat /\ \A j \in 1 .. Cols : j - 1 \in 0 .. Cols
    BY FontAssumption
  <1>2. \A j \in 1 .. Cols : Turn(l, j) \in Nat
    BY <1>1, BitFacts DEF Turn
  <1>3. PICK f : StepByStep(f, Cols, Nat, 0, step)
    <2>1. step \in Steps(Cols, Nat) /\ 0 \in Nat
      BY <1>2 DEF Steps
    <2> HIDE DEF step
    <2>2. QED
      BY <1>1, <2>1, Recursion
  <1>4. f \in [0 .. Cols -> Nat] /\ f[0] = 0 /\ \A j \in 1 .. Cols : f[j] = step[j][f[j - 1]]
    BY <1>3 DEF StepByStep
  <1>5. \A j \in 1 .. Cols : f[j] = f[j - 1] + Turn(l, j)
    BY <1>1, <1>4
  <1>6. f = F(f)
    <2>1. \A j \in 0 .. Cols : j = 0 \/ j \in 1 .. Cols
      BY <1>1
    <2>2. \A j \in 0 .. Cols : f[j] = F(f)[j]
      BY <1>4, <1>5, <2>1 DEF Turn
    <2>3. QED
      BY <1>4, <2>2
  <1>7. N = F(N)
    BY <1>6
  <1>8. Encode(l) = N[Cols]
    BY DEF Encode
  <1> HIDE DEF step, N
  <1>9. N[0] = 0 /\ \A j \in 1 .. Cols : N[j] = N[j - 1] + Turn(l, j)
    BY <1>1, <1>7 DEF Turn
  <1>10. \A j \in 0 .. Cols : N[j] \in Nat
    <2> DEFINE S == {j \in 0 .. Cols : N[j] \in Nat}
    <2>1. 0 \in S
      BY <1>1, <1>9
    <2>2. ASSUME NEW j \in 0 .. Cols - 1, j \in S PROVE j + 1 \in S
      <3>1. j + 1 \in 1 .. Cols /\ j + 1 \in 0 .. Cols /\ (j + 1) - 1 = j
        BY <1>1
      <3>2. N[j + 1] = N[j] + Turn(l, j + 1) /\ Turn(l, j + 1) \in Nat
        BY <1>2, <1>9, <3>1
      <3>3. QED
        BY <2>2, <3>1, <3>2
    <2> HIDE DEF S
    <2>3. \A j \in 0 .. Cols : j \in S
      BY <1>1, <2>1, <2>2, UpTo
    <2>4. QED
      BY <2>3 DEF S
  <1>11. N \in [0 .. Cols -> Nat]
    BY <1>7, <1>10
  <1>12. QED
    BY <1>8, <1>9, <1>11 DEF LineNum

(* A power of two divides the higher ones, and line_num is below it when   *)
(* its turn comes.                                                         *)
LEMMA HigherBits ==
  ASSUME NEW b \in 0 .. Cols - 1
  PROVE  \A n \in 0 .. Cols - 1 - b : \E r \in Nat : Bit[b + 1 + n] = 2 * Bit[b] * r
  <1> DEFINE S == {n \in 0 .. Cols - 1 - b : \E r \in Nat : Bit[b + 1 + n] = 2 * Bit[b] * r}
  <1>1. Cols \in Nat /\ b \in Nat /\ Cols - 1 - b \in Nat /\ Bit[b] \in Nat
    BY FontAssumption, BitFacts
  <1>2. 0 \in S
    <2>1. b + 1 \in 1 .. Cols /\ (b + 1) - 1 = b /\ b + 1 + 0 = b + 1
      BY <1>1
    <2>2. Bit[b + 1 + 0] = 2 * Bit[b] * 1
      BY <1>1, <2>1, BitFacts
    <2>3. QED
      BY <1>1, <2>2
  <1>3. ASSUME NEW n \in 0 .. (Cols - 1 - b) - 1, n \in S PROVE n + 1 \in S
    <2>1. PICK r \in Nat : Bit[b + 1 + n] = 2 * Bit[b] * r
      BY <1>3
    <2>2. b + 1 + (n + 1) \in 1 .. Cols /\ (b + 1 + (n + 1)) - 1 = b + 1 + n
      BY <1>1
    <2>3. Bit[b + 1 + (n + 1)] = 2 * (2 * Bit[b] * r)
      BY <2>1, <2>2, BitFacts
    <2>4. 2 * (2 * Bit[b] * r) = 2 * Bit[b] * (2 * r) /\ 2 * r \in Nat
      BY <1>1
    <2>5. n + 1 \in 0 .. Cols - 1 - b
      BY <1>1
    <2>6. QED
      BY <2>3, <2>4, <2>5
  <1> HIDE DEF S
  <1>4. \A n \in 0 .. Cols - 1 - b : n \in S
    BY <1>1, <1>2, <1>3, UpTo
  <1>5. QED
    BY <1>4 DEF S

LEMMA LowerDigits ==
  ASSUME NEW l, NEW N, LineNum(N, l)
  PROVE  \A j \in 0 .. Cols : N[j] < Bit[j]
  <1> DEFINE S == {j \in 0 .. Cols : N[j] < Bit[j]}
  <1>1. Cols \in Nat
    BY FontAssumption
  <1>2. 0 \in S
    BY <1>1, BitFacts DEF LineNum
  <1>3. ASSUME NEW j \in 0 .. Cols - 1, j \in S PROVE j + 1 \in S
    <2>1. j + 1 \in 1 .. Cols /\ j + 1 \in 0 .. Cols /\ (j + 1) - 1 = j /\ j \in 0 .. Cols
      BY <1>1
    <2>2. Bit[j + 1] = 2 * Bit[j] /\ Bit[j] \in Nat /\ N[j] \in Nat /\ N[j] < Bit[j]
      BY <1>3, <2>1, BitFacts DEF LineNum
    <2>3. N[j + 1] = N[j] + Turn(l, j + 1)
      BY <2>1 DEF LineNum
    <2>4. Turn(l, j + 1) = Bit[j] \/ Turn(l, j + 1) = 0
      BY <2>1 DEF Turn
    <2>5. N[j + 1] < Bit[j + 1]
      BY <2>2, <2>3, <2>4
    <2>6. QED
      BY <2>1, <2>5
  <1> HIDE DEF S
  <1>4. \A j \in 0 .. Cols : j \in S
    BY <1>1, <1>2, <1>3, UpTo
  <1>5. QED
    BY <1>4 DEF S

(* What the turns after it add is a multiple of the next power of two.     *)
LEMMA HigherDigits ==
  ASSUME NEW l, NEW N, LineNum(N, l), NEW b \in 0 .. Cols - 1
  PROVE  \A n \in 0 .. Cols - 1 - b :
           \E q \in Nat : N[b + 1 + n] = N[b + 1] + 2 * Bit[b] * q
  <1> DEFINE S == {n \in 0 .. Cols - 1 - b :
                     \E q \in Nat : N[b + 1 + n] = N[b + 1] + 2 * Bit[b] * q}
  <1>1. Cols \in Nat /\ b \in Nat /\ Cols - 1 - b \in Nat /\ Bit[b] \in Nat
    BY FontAssumption, BitFacts
  <1>2. b + 1 \in 0 .. Cols /\ N[b + 1] \in Nat
    BY <1>1 DEF LineNum
  <1>3. 0 \in S
    <2>1. b + 1 + 0 = b + 1 /\ N[b + 1] = N[b + 1] + 2 * Bit[b] * 0
      BY <1>1, <1>2
    <2>2. QED
      BY <1>1, <2>1
  <1>4. ASSUME NEW n \in 0 .. (Cols - 1 - b) - 1, n \in S PROVE n + 1 \in S
    <2>1. PICK q \in Nat : N[b + 1 + n] = N[b + 1] + 2 * Bit[b] * q
      BY <1>4
    <2>2. n \in 0 .. Cols - 1 - b /\ n + 1 \in 0 .. Cols - 1 - b
      BY <1>1
    <2>3. PICK r \in Nat : Bit[b + 1 + n] = 2 * Bit[b] * r
      BY <2>2, HigherBits
    <2>4. b + 1 + (n + 1) \in 1 .. Cols /\ (b + 1 + (n + 1)) - 1 = b + 1 + n
      BY <1>1
    <2>5. N[b + 1 + (n + 1)] = N[b + 1 + n] + Turn(l, b + 1 + (n + 1))
      BY <2>4 DEF LineNum
    <2>6. \/ Turn(l, b + 1 + (n + 1)) = 2 * Bit[b] * r
          \/ Turn(l, b + 1 + (n + 1)) = 2 * Bit[b] * 0
      BY <1>1, <2>3, <2>4 DEF Turn
    <2>7. PICK t \in Nat : Turn(l, b + 1 + (n + 1)) = 2 * Bit[b] * t
      BY <2>6
    <2>8. 2 * Bit[b] * (q + t) = 2 * Bit[b] * q + 2 * Bit[b] * t
      BY <1>1
    <2>9. 2 * Bit[b] * q \in Nat /\ 2 * Bit[b] * t \in Nat /\ q + t \in Nat
      BY <1>1
    <2>10. N[b + 1 + (n + 1)] = N[b + 1] + 2 * Bit[b] * (q + t)
      BY <1>2, <2>1, <2>5, <2>7, <2>8, <2>9
    <2>11. QED
      BY <2>2, <2>9, <2>10
  <1> HIDE DEF S
  <1>5. \A n \in 0 .. Cols - 1 - b : n \in S
    BY <1>1, <1>3, <1>4, UpTo
  <1>6. QED
    BY <1>5 DEF S

(* A number of two digits, the higher one of any sign.                     *)
LEMMA TwoDigits ==
  ASSUME NEW a \in Int, NEW b \in Nat \ {0}, NEW q \in Int, NEW r \in Nat,
         r < b, a = b * q + r
  PROVE  a \div b = q /\ a % b = r
  <1> DEFINE p == a \div b
             s == a % b
  <1>1. p \in Int /\ s \in Nat /\ s < b /\ a = b * p + s
    OBVIOUS
  <1> HIDE DEF p, s
  <1>2. \A u \in Int, v \in Int : u + 1 <= v => b * u + b <= b * v
    <2> SUFFICES ASSUME NEW u \in Int, NEW v \in Int, u + 1 <= v PROVE b * u + b <= b * v
      OBVIOUS
    <2>1. b * (u + 1) <= b * v
      OBVIOUS
    <2>2. b * (u + 1) = b * u + b
      OBVIOUS
    <2>3. QED
      BY <2>1, <2>2
  <1>3. b * p \in Int /\ b * q \in Int
    BY <1>1
  <1>4. ~(p + 1 <= q) /\ ~(q + 1 <= p)
    BY <1>1, <1>2, <1>3
  <1>5. p = q
    BY <1>1, <1>4
  <1>6. QED
    BY <1>1, <1>3, <1>5 DEF p, s

LEMMA LastBit ==
  ASSUME NEW q \in Int, NEW d \in {0, 1}
  PROVE  (d + 2 * q) % 2 = d
  OBVIOUS

(* The bit of a column says whether the column holds an @, whatever        *)
(* multiple of 1 << Cols a sign takes away.                                *)
LEMMA Decode ==
  ASSUME NEW l \in Row, NEW x \in Columns, NEW c \in {0, 1}
  PROVE  /\ Encode(l) \in Nat /\ Encode(l) < Bit[Cols]
         /\ (((Encode(l) - c * Bit[Cols]) \div Bit[Cols - 1 - x]) % 2 = 1) = l[x]
  <1> DEFINE b == Cols - 1 - x
             d == IF l[x] THEN 1 ELSE 0
  <1>0. l[x] \in BOOLEAN
    BY DEF Row
  <1>1. /\ Cols \in Nat /\ x \in Nat /\ b \in 0 .. Cols - 1
        /\ b \in 0 .. Cols /\ b + 1 \in 1 .. Cols /\ (b + 1) - 1 = b /\ Cols - (b + 1) = x
        /\ Cols - 1 - b \in 0 .. Cols - 1 - b /\ b + 1 + (Cols - 1 - b) = Cols
    BY FontAssumption DEF Columns
  <1>2. PICK N : LineNum(N, l)
    BY EncodeSteps
  <1>3. /\ N[Cols] = Encode(l) /\ N[Cols] \in Nat /\ N[b] \in Nat
        /\ N[Cols] < Bit[Cols] /\ N[b] < Bit[b] /\ Bit[b] \in Nat \ {0} /\ Bit[Cols] \in Nat
    <2>1. N[Cols] < Bit[Cols] /\ N[b] < Bit[b]
      BY <1>1, <1>2, LowerDigits
    <2> HIDE DEF b
    <2>2. Bit[b] \in Nat /\ N[b] \in Nat /\ N[Cols] \in Nat /\ Bit[Cols] \in Nat
      BY <1>1, <1>2, BitFacts DEF LineNum
    <2>3. QED
      BY <1>2, <2>1, <2>2 DEF LineNum
  <1> HIDE DEF b
  <1>4. PICK q \in Nat : N[Cols] = N[b + 1] + 2 * Bit[b] * q
    BY <1>1, <1>2, HigherDigits
  <1>5. PICK r \in Nat : Bit[Cols] = 2 * Bit[b] * r
    BY <1>1, HigherBits
  <1>6. N[b + 1] = N[b] + d * Bit[b] /\ d \in {0, 1}
    <2>1. N[b + 1] = N[b] + (IF l[x] THEN Bit[b] ELSE 0)
      BY <1>1, <1>2 DEF LineNum, Turn
    <2>2. QED
      BY <1>3, <2>1
  <1>7. (d = 1) = l[x]
    BY <1>0
  <1> HIDE DEF d
  <1>8. Encode(l) - c * Bit[Cols] = Bit[b] * (d + 2 * (q - c * r)) + N[b]
    <2>1. /\ c * Bit[Cols] = 2 * Bit[b] * (c * r)
          /\ Bit[b] * (d + 2 * (q - c * r)) = d * Bit[b] + 2 * Bit[b] * q - 2 * Bit[b] * (c * r)
      <3>1. \A u \in Nat, e \in Nat : u * (e + 2 * (q - c * r)) = e * u + 2 * u * q - 2 * u * (c * r)
        BY <1>3
      <3>2. d \in Nat /\ c \in Nat
        BY <1>6
      <3>3. \A u \in Nat, v \in Nat : v * (2 * u * r) = 2 * u * (v * r)
        BY <1>3
      <3>4. c * Bit[Cols] = c * (2 * Bit[b] * r)
        BY <1>5
      <3>5. Bit[b] \in Nat
        BY <1>3
      <3>6. c * (2 * Bit[b] * r) = 2 * Bit[b] * (c * r)
        BY <3>2, <3>3, <3>5
      <3>7. Bit[b] * (d + 2 * (q - c * r)) = d * Bit[b] + 2 * Bit[b] * q - 2 * Bit[b] * (c * r)
        BY <3>1, <3>2, <3>5
      <3>8. QED
        BY <3>4, <3>6, <3>7
    <2>2. /\ 2 * Bit[b] * (c * r) \in Nat /\ 2 * Bit[b] * q \in Nat /\ d * Bit[b] \in Nat
      BY <1>3, <1>6
    <2>3. QED
      BY <1>3, <1>4, <1>6, <2>1, <2>2
  <1>9. (Encode(l) - c * Bit[Cols]) \div Bit[b] = d + 2 * (q - c * r)
    <2>1. c * r \in Int /\ d + 2 * (q - c * r) \in Int /\ c * Bit[Cols] \in Int
      BY <1>3, <1>6
    <2>2. Encode(l) - c * Bit[Cols] \in Int
      BY <1>3, <2>1
    <2>3. QED
      BY <1>3, <1>8, <2>1, <2>2, TwoDigits
  <1>10. (d + 2 * (q - c * r)) % 2 = d
    <2>1. q - c * r \in Int
      OBVIOUS
    <2>2. QED
      BY <1>6, <2>1, LastBit
  <1>11. QED
    BY <1>3, <1>7, <1>9, <1>10 DEF b

LEMMA EncodeNat ==
  ASSUME NEW l \in Row
  PROVE  Encode(l) \in Nat
  <1>1. PICK N : LineNum(N, l)
    BY EncodeSteps
  <1>2. Cols \in 0 .. Cols
    BY FontAssumption
  <1>3. QED
    BY <1>1, <1>2 DEF LineNum

-------------------------------------------------------------------------------
(* Glyphs lie in the text one behind the other, and in the file.           *)
LEMMA Sizes == Rows \in Nat \ {0} /\ GlyphCount \in Nat \ {0}
  BY FontAssumption DEF Rows

LEMMA LinesFacts ==
  /\ Rows \in Nat \ {0} /\ GlyphCount \in Nat \ {0} /\ Lines(0) = 0
  /\ \A g \in Nat : Lines(g) \in Nat /\ Lines(g + 1) = Lines(g) + Rows + 1
  /\ \A g \in Nat, h \in Nat : g < h => Lines(g) + Rows + 1 <= Lines(h)
  <1>1. Rows \in Nat \ {0} /\ GlyphCount \in Nat \ {0}
    BY Sizes
  <1>2. \A u \in Nat : 0 * (u + 1) = 0
    OBVIOUS
  <1>3. \A u \in Nat, g \in Nat : g * (u + 1) \in Nat /\ (g + 1) * (u + 1) = g * (u + 1) + u + 1
    OBVIOUS
  <1>4. ASSUME NEW g \in Nat, NEW h \in Nat, g < h
        PROVE  Lines(g) + Rows + 1 <= Lines(h)
    <2>1. \A u \in Nat : (g + 1) * (u + 1) <= h * (u + 1)
      BY <1>4
    <2>2. QED
      BY <1>1, <1>3, <2>1 DEF Lines
  <1>5. QED
    BY <1>1, <1>2, <1>3, <1>4 DEF Lines

LEMMA IndexFacts ==
  ASSUME NEW g \in 0 .. GlyphCount - 1, NEW r \in 0 .. Rows - 1
  PROVE  /\ g * Rows + r \in 0 .. GlyphCount * Rows - 1
         /\ (g * Rows + r) \div Rows = g /\ (g * Rows + r) % Rows = r
  <1>1. Rows \in Nat \ {0} /\ GlyphCount \in Nat \ {0} /\ g \in Nat /\ r \in Nat /\ r < Rows
    BY LinesFacts
  <1>2. g * Rows + r \in 0 .. GlyphCount * Rows - 1
    <2>1. \A u \in Nat : (g + 1) * u <= GlyphCount * u /\ (g + 1) * u = g * u + u
      BY <1>1
    <2>2. g * Rows \in Nat /\ GlyphCount * Rows \in Nat /\ g * Rows + Rows <= GlyphCount * Rows
      BY <1>1, <2>1
    <2>3. QED
      BY <1>1, <2>2
  <1>3. g * Rows + r \in Int /\ g * Rows = Rows * g
    BY <1>1
  <1>4. g \in Int /\ g * Rows + r = Rows * g + r
    BY <1>1, <1>3
  <1>5. QED
    BY <1>1, <1>2, <1>3, <1>4, TwoDigits

LEMMA Counters ==
  ASSUME FontTypeOK
  PROVE  /\ Len(text) \in Nat /\ pos \in Nat /\ i \in Nat /\ i <= GlyphCount
         /\ k \in Nat /\ k <= Rows /\ Lines(i) \in Nat
         /\ pc \in {"rows", "spin"} => i \in 0 .. GlyphCount - 1
  <1>1. Len(text) \in Nat
    BY DEF FontTypeOK
  <1>2. /\ pos \in Nat /\ i \in Nat /\ i <= GlyphCount /\ k \in Nat /\ k <= Rows
        /\ pc \in {"rows", "spin"} => i \in 0 .. GlyphCount - 1
    BY Sizes DEF FontTypeOK
  <1>3. Lines(i) \in Nat
    BY <1>2, LinesFacts
  <1>4. QED
    BY <1>1, <1>2, <1>3

(* The line of a row that is well formed.                                  *)
LEMMA LineOfRow ==
  ASSUME FontTypeOK, WellFormed, NEW g \in 0 .. GlyphCount - 1, NEW r \in 0 .. Rows - 1
  PROVE  /\ LineOf(g, r) = Lines(g) + 2 + r /\ LineOf(g, r) \in 1 .. Len(text)
         /\ text[LineOf(g, r)] \in Row
  <1>1. LineOf(g, r) = Lines(g) + 2 + r
    BY DEF LineOf, Lines
  <1>2. /\ Lines(g) \in Nat /\ Lines(g) + Rows + 1 <= Lines(GlyphCount)
        /\ Lines(GlyphCount) \in Nat
    <2>1. g \in Nat /\ GlyphCount \in Nat /\ g < GlyphCount
      BY Sizes
    <2>2. QED
      BY <2>1, LinesFacts
  <1>3. Lines(GlyphCount) <= Len(text) /\ Len(text) \in Nat
    BY Counters DEF WellFormed, Lines
  <1>4. r \in Nat /\ r + 1 <= Rows /\ Rows \in Nat
    BY Sizes
  <1>5. LineOf(g, r) \in 1 .. Len(text)
    BY <1>1, <1>2, <1>3, <1>4
  <1>6. text[LineOf(g, r)] \in Row \cup {Header} /\ text[LineOf(g, r)] # Header
    BY <1>5 DEF FontTypeOK, WellFormed
  <1>7. QED
    BY <1>1, <1>5, <1>6

-------------------------------------------------------------------------------
(* Nothing is read at first.                                               *)
LEMMA FontInitInv == FontInit => FontInv
  <1> SUFFICES ASSUME FontInit PROVE FontInv
    OBVIOUS
  <1>1. /\ text \in Texts /\ pos = 1 /\ pc = "header" /\ i = 0 /\ k = 0
        /\ line = [x \in Columns |-> FALSE]
        /\ font = [g \in 0 .. GlyphCount - 1 |-> [r \in 0 .. Rows - 1 |-> -1]]
    BY DEF FontInit
  <1>2. FontTypeOK
    <2>1. text \in Seq(Row \cup {Header})
      BY <1>1, TextAssumption
    <2>2. line \in Row
      BY <1>1 DEF Row
    <2>3. font \in [0 .. GlyphCount - 1 -> [0 .. Rows - 1 -> Int]]
      BY <1>1
    <2>4. i \in 0 .. GlyphCount /\ k \in 0 .. Rows /\ pos \in Nat
      BY <1>1, LinesFacts
    <2>5. QED
      BY <1>1, <2>1, <2>2, <2>3, <2>4 DEF FontTypeOK
  <1>3. Position
    <2>1. Asked = 0 /\ Len(text) \in Nat
      BY <1>1, <1>2, LinesFacts, Counters DEF Asked
    <2>2. QED
      BY <1>1, <2>1 DEF Position
  <1>4. HeadersRead /\ FileAsFont /\ GlyphsAsFont
    BY <1>1 DEF HeadersRead, FileAsFont, GlyphsAsFont
  <1>5. RowsEncoded
    BY <1>1 DEF RowsEncoded, Converted
  <1>6. QED
    BY <1>2, <1>3, <1>4, <1>5 DEF FontInv

(* A header is passed, or the text has ended before it.                    *)
LEMMA ReadHeaderInv == FontInv /\ ReadHeader => FontInv'
  <1> SUFFICES ASSUME FontInv, ReadHeader PROVE FontInv'
    OBVIOUS
  <1>1. /\ FontTypeOK /\ Position /\ HeadersRead /\ RowsEncoded
        /\ pc = "header" /\ i < GlyphCount
        /\ text' = text /\ i' = i /\ line' = line /\ font' = font
    BY DEF FontInv, ReadHeader
  <1>2. Len(text) \in Nat /\ Lines(i) \in Nat /\ pos \in Nat /\ Rows \in Nat
    BY <1>1, Counters, Sizes
  <1>3. pos = IF Lines(i) <= Len(text) THEN Lines(i) + 1 ELSE Len(text) + 1
    BY <1>1, <1>2 DEF Position, Asked
  <1>4. /\ \/ pc' = "spin" /\ pos' = pos /\ k' = k /\ Len(text) <= Lines(i)
           \/ pc' = "rows" /\ pos' = Lines(i) + 2 /\ k' = 0 /\ Len(text) > Lines(i)
    <2>1. CASE AtEof
      BY <1>1, <1>2, <1>3, <2>1 DEF ReadHeader, AtEof
    <2>2. CASE ~AtEof
      BY <1>1, <1>2, <1>3, <2>2 DEF ReadHeader, AtEof, AfterHeader
    <2>3. QED
      BY <2>1, <2>2
  <1>5. FontTypeOK'
    BY <1>1, <1>2, <1>4 DEF FontTypeOK
  <1>6. Position'
    <2>1. CASE pc' = "rows"
      <3>1. Asked' = Lines(i) + 1
        BY <1>1, <1>2, <1>4, <2>1 DEF Asked, Lines
      <3>2. QED
        BY <1>1, <1>2, <1>4, <2>1, <3>1 DEF Position
    <2>2. CASE pc' = "spin"
      BY <2>2 DEF Position
    <2>3. QED
      BY <1>4, <2>1, <2>2
  <1>7. HeadersRead' /\ FileAsFont' /\ GlyphsAsFont'
    BY <1>1, <1>4 DEF HeadersRead, FileAsFont, GlyphsAsFont, Lines
  <1>8. RowsEncoded'
    <2>1. WellFormed' = WellFormed
      BY <1>1 DEF WellFormed, LineOf
    <2>2. \A g \in 0 .. GlyphCount - 1, r \in 0 .. Rows - 1 :
            Converted(g, r)' => Converted(g, r)
      BY <1>1, <1>4 DEF Converted
    <2>3. QED
      BY <1>1, <2>1, <2>2 DEF RowsEncoded, LineOf
  <1>9. QED
    BY <1>5, <1>6, <1>7, <1>8 DEF FontInv

(* A row is read and converted.                                            *)
LEMMA ReadRowInv == FontInv /\ ReadRow => FontInv'
  <1> SUFFICES ASSUME FontInv, ReadRow PROVE FontInv'
    OBVIOUS
  <1>1. /\ FontTypeOK /\ Position /\ HeadersRead /\ RowsEncoded
        /\ pc = "rows" /\ pc' = "rows" /\ k < Rows
        /\ text' = text /\ i' = i /\ k' = k + 1
    BY DEF FontInv, ReadRow, NextRow
  <1>2. /\ Len(text) \in Nat /\ Lines(i) \in Nat /\ pos \in Nat
        /\ i \in 0 .. GlyphCount - 1 /\ k \in 0 .. Rows - 1 /\ k + 1 \in 0 .. Rows
    BY <1>1, Counters, Sizes
  <1>3. /\ pos = IF Lines(i) + 1 + k <= Len(text) THEN Lines(i) + 2 + k ELSE Len(text) + 1
        /\ pos' = IF pos > Len(text) THEN pos ELSE pos + 1
    BY <1>1, <1>2 DEF Position, Asked, ReadRow, AfterRow, AtEof
  <1>4. line' \in Row /\ Encode(line') \in Nat
    <2>1. line' = Scanned /\ line \in Row
      BY <1>1 DEF ReadRow, FontTypeOK
    <2>2. Scanned \in Row
      <3>1. CASE AtEof
        BY <2>1, <3>1 DEF Scanned
      <3>2. CASE ~AtEof
        <4>1. pos \in 1 .. Len(text)
          BY <1>2, <1>3, <3>2 DEF AtEof
        <4>2. text[pos] \in Row \cup {Header}
          BY <1>1, <4>1 DEF FontTypeOK
        <4>3. [x \in Columns |-> x > 4 /\ line[x]] \in Row
          BY DEF Row
        <4>4. QED
          BY <3>2, <4>2, <4>3 DEF Scanned
      <3>3. QED
        BY <3>1, <3>2
    <2>3. QED
      BY <2>1, <2>2, EncodeNat
  <1>5. font' = [font EXCEPT ![i] = [font[i] EXCEPT ![k] = Encode(line')]]
    BY DEF ReadRow
  <1>6. FontTypeOK'
    <2>1. font' \in [0 .. GlyphCount - 1 -> [0 .. Rows - 1 -> Int]]
      <3>1. font[i] \in [0 .. Rows - 1 -> Int] /\ Encode(line') \in Int
        BY <1>1, <1>2, <1>4 DEF FontTypeOK
      <3>2. [font[i] EXCEPT ![k] = Encode(line')] \in [0 .. Rows - 1 -> Int]
        BY <3>1
      <3>3. QED
        BY <1>1, <1>5, <3>2 DEF FontTypeOK
    <2>2. pos' \in Nat
      BY <1>2, <1>3
    <2>3. QED
      BY <1>1, <1>2, <1>4, <2>1, <2>2 DEF FontTypeOK
  <1>7. Position'
    <2>1. Asked' = Lines(i) + 2 + k
      BY <1>1, <1>2 DEF Asked, Lines
    <2>2. QED
      BY <1>1, <1>2, <1>3, <2>1 DEF Position
  <1>8. HeadersRead' /\ FileAsFont' /\ GlyphsAsFont'
    BY <1>1 DEF HeadersRead, FileAsFont, GlyphsAsFont, Lines
  <1>9. RowsEncoded'
    <2>1. SUFFICES ASSUME WellFormed,
                          NEW g \in 0 .. GlyphCount - 1, NEW r \in 0 .. Rows - 1,
                          Converted(g, r)'
                   PROVE  font'[g][r] = Encode(text[LineOf(g, r)])
      BY <1>1 DEF RowsEncoded, WellFormed, LineOf
    <2>2. CASE g = i /\ r = k
      <3>1. LineOf(i, k) = Lines(i) + 2 + k /\ LineOf(i, k) \in 1 .. Len(text)
        BY <1>1, <1>2, <2>1, LineOfRow
      <3>2. pos = LineOf(i, k) /\ ~AtEof
        BY <1>2, <1>3, <3>1 DEF AtEof
      <3>3. line' = text[LineOf(i, k)]
        BY <1>1, <1>2, <2>1, <3>2 DEF ReadRow, Scanned, WellFormed
      <3>4. font'[i][k] = Encode(line')
        BY <1>1, <1>2, <1>5 DEF FontTypeOK
      <3>5. QED
        BY <2>2, <3>3, <3>4
    <2>3. CASE ~(g = i /\ r = k)
      <3>1. Converted(g, r)
        BY <1>1, <1>2, <2>1, <2>3 DEF Converted
      <3>2. font'[g][r] = font[g][r]
        BY <1>1, <1>5, <2>3 DEF FontTypeOK
      <3>3. QED
        BY <1>1, <2>1, <3>1, <3>2 DEF RowsEncoded
    <2>4. QED
      BY <2>2, <2>3
  <1>10. QED
    BY <1>6, <1>7, <1>8, <1>9 DEF FontInv

(* A glyph is complete.                                                    *)
LEMMA EndGlyphInv == FontInv /\ EndGlyph => FontInv'
  <1> SUFFICES ASSUME FontInv, EndGlyph PROVE FontInv'
    OBVIOUS
  <1>1. /\ FontTypeOK /\ Position /\ HeadersRead /\ RowsEncoded
        /\ pc = "rows" /\ pc' = "header" /\ k = Rows
        /\ text' = text /\ i' = i + 1 /\ k' = k /\ pos' = pos /\ line' = line /\ font' = font
    BY DEF FontInv, EndGlyph
  <1>2. /\ Len(text) \in Nat /\ Lines(i) \in Nat /\ i \in Nat /\ i + 1 \in 0 .. GlyphCount
        /\ Rows \in Nat
    BY <1>1, Counters, Sizes
  <1>3. Lines(i + 1) = Lines(i) + Rows + 1
    BY <1>2, LinesFacts
  <1>4. FontTypeOK'
    BY <1>1, <1>2 DEF FontTypeOK
  <1>5. Position'
    <2>1. Asked = Lines(i) + (1 + Rows)
      BY <1>1 DEF Asked
    <2>2. Asked' = Lines(i) + Rows + 1
      BY <1>1, <1>2, <1>3 DEF Asked
    <2>3. QED
      BY <1>1, <1>2, <2>1, <2>2 DEF Position
  <1>6. HeadersRead' /\ FileAsFont' /\ GlyphsAsFont'
    <2>1. (i + 1) - 1 = i
      BY <1>2
    <2>2. QED
      BY <1>1, <2>1 DEF HeadersRead, FileAsFont, GlyphsAsFont, Lines
  <1>7. RowsEncoded'
    <2>1. WellFormed' = WellFormed
      BY <1>1 DEF WellFormed, LineOf
    <2>2. \A g \in 0 .. GlyphCount - 1, r \in 0 .. Rows - 1 :
            Converted(g, r)' => Converted(g, r)
      BY <1>1, <1>2 DEF Converted
    <2>3. QED
      BY <1>1, <2>1, <2>2 DEF RowsEncoded, LineOf
  <1>8. QED
    BY <1>4, <1>5, <1>6, <1>7 DEF FontInv

(* The file is the array, row behind row.                                  *)
LEMMA WriteFileInv == FontInv /\ WriteFile => FontInv'
  <1> SUFFICES ASSUME FontInv, WriteFile PROVE FontInv'
    OBVIOUS
  <1>1. /\ FontTypeOK /\ HeadersRead /\ RowsEncoded
        /\ pc = "header" /\ pc' = "written" /\ i = GlyphCount
        /\ text' = text /\ i' = i /\ k' = k /\ pos' = pos /\ line' = line /\ font' = font
        /\ hankaku' = [b \in 0 .. GlyphCount * Rows - 1 |-> font[b \div Rows][b % Rows]]
    BY DEF FontInv, WriteFile
  <1>2. FontTypeOK' /\ Position' /\ HeadersRead' /\ GlyphsAsFont'
    BY <1>1 DEF FontTypeOK, Position, HeadersRead, GlyphsAsFont, Lines
  <1>3. RowsEncoded'
    <2>1. WellFormed' = WellFormed
      BY <1>1 DEF WellFormed, LineOf
    <2>2. QED
      BY <1>1, <2>1 DEF RowsEncoded, LineOf, Converted
  <1>4. FileAsFont'
    <2>1. ASSUME NEW g \in 0 .. GlyphCount - 1, NEW r \in 0 .. Rows - 1
          PROVE  hankaku'[g * Rows + r] = font[g][r]
      BY <1>1, IndexFacts
    <2>2. QED
      BY <1>1, <2>1 DEF FileAsFont
  <1>5. QED
    BY <1>2, <1>3, <1>4 DEF FontInv

(* The kernel takes the first glyphs of the file.                          *)
LEMMA NewAsciiFontInv == FontInv /\ NewAsciiFont => FontInv'
  <1> SUFFICES ASSUME FontInv, NewAsciiFont PROVE FontInv'
    OBVIOUS
  <1>1. /\ FontTypeOK /\ HeadersRead /\ RowsEncoded /\ FileAsFont
        /\ pc = "written" /\ pc' = "loaded"
        /\ text' = text /\ i' = i /\ k' = k /\ pos' = pos /\ line' = line /\ font' = font
        /\ hankaku' = hankaku
        /\ glyphs' = [g \in 0 .. FontNum - 1 |-> NewMonoAsciiFont(g * 2 * WordBytes)]
    BY DEF FontInv, NewAsciiFont
  <1>2. FontTypeOK' /\ Position' /\ HeadersRead' /\ FileAsFont'
    BY <1>1 DEF FontTypeOK, Position, HeadersRead, FileAsFont, Lines
  <1>3. RowsEncoded'
    <2>1. WellFormed' = WellFormed
      BY <1>1 DEF WellFormed, LineOf
    <2>2. QED
      BY <1>1, <2>1 DEF RowsEncoded, LineOf, Converted
  <1>4. GlyphsAsFont'
    <2>1. ASSUME NEW g \in 0 .. FontNum - 1, NEW r \in 0 .. Rows - 1
          PROVE  glyphs'[g][r] = font[g][r]
      <3>1. g \in 0 .. GlyphCount - 1 /\ g * 2 * WordBytes = g * Rows
        BY FontAssumption DEF Rows
      <3>2. glyphs'[g][r] = hankaku[g * 2 * WordBytes + r]
        BY <1>1 DEF NewMonoAsciiFont
      <3>3. QED
        BY <1>1, <3>1, <3>2 DEF FileAsFont
    <2>2. QED
      BY <1>1, <2>1 DEF GlyphsAsFont
  <1>5. QED
    BY <1>2, <1>3, <1>4 DEF FontInv

LEMMA FontInvStep == FontInv /\ [FontNext]_fontVars => FontInv'
  <1> SUFFICES ASSUME FontInv, [FontNext]_fontVars PROVE FontInv'
    OBVIOUS
  <1>1. CASE ReadHeader
    BY <1>1, ReadHeaderInv
  <1>2. CASE ReadRow
    BY <1>2, ReadRowInv
  <1>3. CASE EndGlyph
    BY <1>3, EndGlyphInv
  <1>4. CASE WriteFile
    BY <1>4, WriteFileInv
  <1>5. CASE NewAsciiFont
    BY <1>5, NewAsciiFontInv
  <1>6. CASE UNCHANGED fontVars
    BY <1>6
    DEF fontVars, FontInv, FontTypeOK, Position, Asked, Lines, HeadersRead, RowsEncoded,
        WellFormed, LineOf, Converted, FileAsFont, GlyphsAsFont
  <1>7. QED
    BY <1>1, <1>2, <1>3, <1>4, <1>5, <1>6 DEF FontNext

LEMMA FontInvariant == FontSpec => []FontInv
  <1>1. FontInit => FontInv
    BY FontInitInv
  <1>2. FontInv /\ [FontNext]_fontVars => FontInv'
    BY FontInvStep
  <1>3. QED
    BY <1>1, <1>2, PTL DEF FontSpec

-------------------------------------------------------------------------------
(* For a text of any length and any lines, the tool hangs if the text ends *)
(* before the header of the last glyph, and for no other text.             *)
THEOREM HangsIfShort == FontSpec => []HangsForShortText
  <1>1. FontInv => HangsForShortText
    <2> SUFFICES ASSUME FontInv PROVE HangsForShortText
      OBVIOUS
    <2>1. FontTypeOK /\ HeadersRead
      BY DEF FontInv
    <2>2. /\ GlyphCount - 1 \in Nat /\ Len(text) \in Nat /\ i \in Nat /\ Lines(i) \in Nat
          /\ Lines(GlyphCount - 1) \in Nat
      <3>1. GlyphCount - 1 \in Nat
        BY Sizes
      <3>2. QED
        BY <2>1, <3>1, LinesFacts, Counters
    <2>3. pc = "spin" => Len(text) <= Lines(GlyphCount - 1)
      <3>1. CASE i = GlyphCount - 1
        BY <2>1, <3>1 DEF HeadersRead
      <3>2. CASE i # GlyphCount - 1
        <4>1. pc = "spin" => i < GlyphCount - 1
          BY <2>1, <2>2, <3>2, Sizes DEF FontTypeOK
        <4>2. pc = "spin" => Lines(i) <= Lines(GlyphCount - 1)
          BY <2>2, <4>1, LinesFacts
        <4>3. QED
          BY <2>1, <2>2, <4>2 DEF HeadersRead
      <3>3. QED
        BY <3>1, <3>2
    <2>4. pc \in {"written", "loaded"} => Len(text) > Lines(GlyphCount - 1)
      BY <2>1, LinesFacts DEF HeadersRead, FontTypeOK
    <2>5. QED
      BY <2>2, <2>3, <2>4 DEF HangsForShortText, Lines
  <1>2. QED
    BY <1>1, FontInvariant, PTL

(* For any number of glyphs, rows and columns, the kernel draws the pixels *)
(* that are @ in the text, and testfont shows them.                        *)
THEOREM DrawnAsWritten == FontSpec => []GlyphsDrawn
  <1>1. FontInv => GlyphsDrawn
    <2> SUFFICES ASSUME FontInv, WellFormed, pc = "loaded",
                        NEW g \in 0 .. FontNum - 1, NEW x \in Columns, NEW y \in 0 .. Rows - 1
                 PROVE  /\ IsDraw(g, x, y) = text[LineOf(g, y)][x]
                        /\ Shown(g, x, y) = text[LineOf(g, y)][x]
      BY DEF GlyphsDrawn
    <2> DEFINE l == text[LineOf(g, y)]
    <2>1. FontTypeOK /\ RowsEncoded /\ FileAsFont /\ GlyphsAsFont
      BY DEF FontInv
    <2>2. g \in 0 .. GlyphCount - 1
      BY FontAssumption
    <2>3. l \in Row
      BY <2>1, <2>2, LineOfRow
    <2>4. font[g][y] = Encode(l)
      <3>1. Converted(g, y)
        BY <2>1, <2>2 DEF Converted, FontTypeOK
      <3>2. QED
        BY <2>1, <2>2, <3>1 DEF RowsEncoded
    <2>5. GetFont(g)[y] = Encode(l) /\ hankaku[g * Rows + y] = Encode(l)
      BY <2>1, <2>2, <2>4 DEF GetFont, GlyphsAsFont, FileAsFont
    <2> HIDE DEF l
    <2>6. \A c \in {0, 1} :
            (((Encode(l) - c * Bit[Cols]) \div Bit[Cols - 1 - x]) % 2 = 1) = l[x]
      BY <2>3, Decode
    <2>7. Encode(l) \in Nat /\ Bit[Cols] \in Nat
      BY <2>3, EncodeNat, BitFacts, FontAssumption
    <2>8. Encode(l) - 0 * Bit[Cols] = Encode(l) /\ Encode(l) - 1 * Bit[Cols] = Encode(l) - Bit[Cols]
      BY <2>7
    <2>9. /\ ((Encode(l) \div Bit[Cols - 1 - x]) % 2 = 1) = l[x]
          /\ (((Encode(l) - Bit[Cols]) \div Bit[Cols - 1 - x]) % 2 = 1) = l[x]
      BY <2>6, <2>8
    <2>10. IsDraw(g, x, y) = l[x]
      <3>1. x < Cols /\ y < Rows
        BY FontAssumption DEF Columns, Rows
      <3>2. QED
        BY <2>5, <2>9, <3>1 DEF IsDraw
    <2>11. Shown(g, x, y) = l[x]
      BY <2>5, <2>9 DEF Shown, Signed
    <2>12. QED
      BY <2>10, <2>11 DEF l
  <1>2. QED
    BY <1>1, FontInvariant, PTL
===============================================================================
