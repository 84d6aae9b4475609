---------------------------- MODULE BootChainProofs ----------------------------
(***************************************************************************)
(* Proofs about SegmentLoader, Loader and BootChain, for every memory      *)
(* size, page size, image, initial owner of the pages, bitmap and heap     *)
(* size.                                                                   *)
(*                                                                         *)
(* First LoadKernel alone: a refused request moves its start up by a page  *)
(* and its size down by one, so that its end stays where the segment's     *)
(* count of pages ends (Asking), and the page that was not free lies       *)
(* between the start given up and that end (TriesSound).  When the loop    *)
(* ends without a grant, its start has come to the end, or the size was so *)
(* large that the end lies beyond memory: every page of the count was      *)
(* obtained, or blocked at or behind it (Kept).  The headers behind the    *)
(* one at hand are the file's until a segment has been copied onto a page  *)
(* it did not get (ImageRead).                                             *)
(*                                                                         *)
(* Then UefiMain: the kernel is entered prepared, the memory map it walks  *)
(* is the true one, and in that map the image's pages are the loader's.    *)
(* Every change of a page's owner makes a new key, so a map whose key is   *)
(* the firmware's is the map of now (MapFaithful), and the only way into   *)
(* the kernel is an ExitBootServices that accepted the key.  A failed      *)
(* GetMemoryMap may store a good key without a map; it leaves the map      *)
(* untaken because UefiMain asks only once (NotTakenYet).  The steps of    *)
(* LoadKernel keep its own invariant, and so do callbacks and AllocatePool *)
(* (ImageIInv).                                                            *)
(*                                                                         *)
(* Then the loader and the kernel: what the loader and the firmware put    *)
(* into the memory map keeps the kernel off its own image and off memory   *)
(* in use.  The argument joins the invariants of the two programs.  Until  *)
(* it is entered the kernel has not moved (Started); from then on the      *)
(* loader does not move, and if the map was taken, every page that it      *)
(* calls available is nobody's, or one of the firmware's that boot         *)
(* services left behind (HandedTrue).  The kernel allocates nothing but    *)
(* such pages (KernelMemoryProofs), and the pages Allocate obtained are    *)
(* not among them (KernelImageKept).                                       *)
(***************************************************************************)
EXTENDS BootChain, FiniteSetTheorems, WellFoundedInduction, TLAPS

(* The headers LoadKernel has allocated pages for.                         *)
Through == IF at = "copy" THEN seg ELSE seg - 1

AtSegment ==
  /\ seg <= PhNum + 1
  /\ at \in {"allocating", "copy", "halted"} => seg <= PhNum /\ table[seg].load
  /\ at = "loaded" => seg > PhNum

Asking ==
  at = "allocating" =>
    /\ call.tmp < MaxTries
    /\ call.num_pages = PagesFor(call.size)
    /\ PageOf(call.ret) = PageOf(table[seg].vaddr) + call.tmp
    /\ PageOf(call.ret) + call.num_pages = CountEnd(table[seg])

Counted(h) == PageOf(h.vaddr) .. CountEnd(h) - 1

(* Page p of the count of segment k was obtained, or given up for a reason.*)
Settled(p, k) == <<k, p>> \in got \/ BlockedFrom(k, p)

Kept ==
  \A k \in 1 .. Through :
    table[k].load => \A p \in Counted(table[k]) : Settled(p, k)

Copied(n) == UNION {Bytes(table[k]) : k \in {j \in 1 .. n : table[j].load}}

WrittenSoFar == written = Copied(seg - 1)

(* The headers in memory are the file's, or there is a reason why not.     *)
ImageRead ==
  /\ Len(table) = Len(image)
  /\ \/ table = image
     \/ kernel_program = "null"
     \/ \E k \in 1 .. Len(image) - 1 : k < seg /\ LandsAstray(k)

SegIInv ==
  /\ SegTypeOK
  /\ GotKept
  /\ AtSegment
  /\ Asking
  /\ TriesSound
  /\ Kept
  /\ WrittenSoFar
  /\ ImageRead
  /\ HaltsOnlyForHugeSegment

-------------------------------------------------------------------------------
(* Arithmetic of pages.                                                    *)
(* The page of an address, and the first address of a page.                *)
LEMMA PageOfFacts ==
  ASSUME NEW a \in Nat
  PROVE  /\ PageOf(a) \in Nat
         /\ NextRet(a) \in Nat
         /\ PageOf(NextRet(a)) = PageOf(a) + 1
         /\ PageOf(a) * PageBytes \in Nat
  <1>1. PageOf(a) \in Nat
    BY PageAssumption DEF PageOf
  <1>2. \A n \in Nat : n * PageBytes \in Nat /\ (n * PageBytes) \div PageBytes = n
    BY PageAssumption
  <1>3. QED
    BY <1>1, <1>2 DEF PageOf, NextRet

(* The bytes a copy touches lie on pages of memory's addresses, from the   *)
(* first byte's page on.                                                   *)
LEMMA TouchedFacts ==
  ASSUME NEW a \in Nat, NEW n \in Nat, NEW p \in Touched(a, n)
  PROVE  p \in Nat /\ p >= PageOf(a)
  BY PageOfFacts DEF Touched

(* A count of pages is a number.                                           *)
LEMMA PagesForType ==
  ASSUME NEW size \in 0 .. Word - 1
  PROVE  PagesFor(size) \in Nat
  <1>1. (size + PageBytes - 1) % Word \in Nat
    BY PageAssumption, WordAssumption
  <1>2. QED
    BY <1>1, PageAssumption DEF PagesFor

(* The size after a refusal: below the limit only when a whole page was    *)
(* taken off and nothing wrapped, and then it needs a page less.           *)
LEMMA SmallerFacts ==
  ASSUME NEW size \in 0 .. Word - 1
  PROVE  /\ Smaller(size) \in 0 .. Word - 1
         /\ Smaller(size) < SizeLimit => PagesFor(size) = PagesFor(Smaller(size)) + 1
         /\ Smaller(size) >= SizeLimit => PagesFor(size) <= 1 \/ PagesFor(size) > PageCount
  <1> DEFINE b == PageBytes
             s == Smaller(size)
  <1>a. /\ PageCount \in Nat /\ b \in Nat \ {0} /\ Word \in Nat /\ SizeLimit \in 1 .. Word - 1
        /\ SizeLimit + b + b <= Word
    BY PageAssumption, WordAssumption
  <1>b. \A n, c \in Nat : c * b <= n => c <= n \div b
    BY <1>a
  <1>c. \A n \in Nat : n >= SizeLimit => PageCount <= n \div b
    <2>1. PageCount * b \in Nat /\ PageCount * b <= SizeLimit
      BY PageAssumption, WordAssumption
    <2>2. QED
      BY <1>a, <1>b, <2>1
  <1> HIDE DEF b
  <1>1. s \in 0 .. Word - 1
    BY <1>a DEF Smaller, b
  <1>2. CASE size < b
    <2>1. s = size - b + Word
      BY <1>2, <1>a DEF Smaller, b
    <2>2. (size + b - 1) % Word = size + b - 1
      BY <1>2, <1>a
    <2>3. (size + b - 1) \div b <= 1
      BY <1>2, <1>a
    <2>4. QED
      BY <1>1, <1>2, <2>1, <2>2, <2>3, <1>a DEF PagesFor, b
  <1>3. CASE size >= b /\ size + b - 1 >= Word
    <2>1. s = size - b /\ s >= SizeLimit
      BY <1>3, <1>a DEF Smaller, b
    <2>2. (size + b - 1) % Word = size + b - 1 - Word
      BY <1>3, <1>a
    <2>3. (size + b - 1 - Word) \div b = 0
      BY <1>3, <1>a
    <2>4. QED
      BY <1>1, <2>1, <2>2, <2>3, <1>a DEF PagesFor, b
  <1>4. CASE size >= b /\ size + b - 1 < Word
    <2>1. s = size - b
      BY <1>4, <1>a DEF Smaller, b
    <2>2. (size + b - 1) % Word = size + b - 1 /\ (s + b - 1) % Word = s + b - 1
      BY <1>4, <2>1, <1>a
    <2>3. s + b - 1 \in Nat /\ size + b - 1 = (s + b - 1) + b
      BY <1>1, <1>4, <2>1, <1>a
    <2>4. \A n \in Nat : (n + b) \div b = n \div b + 1
      BY <1>a
    <2>5. PagesFor(size) = PagesFor(s) + 1
      BY <2>2, <2>3, <2>4 DEF PagesFor, b
    <2>6. s >= SizeLimit => PagesFor(size) > PageCount
      <3>1. s >= SizeLimit => PageCount <= PagesFor(s)
        BY <1>1, <1>a, <1>c, <2>2, <2>3 DEF PagesFor, b
      <3>2. PagesFor(s) \in Nat
        BY <1>1, PagesForType
      <3>3. QED
        BY <1>a, <2>5, <3>1, <3>2
    <2>7. QED
      BY <1>1, <2>5, <2>6, <1>a
  <1>5. QED
    BY <1>2, <1>3, <1>4, <1>a

-------------------------------------------------------------------------------
(* What the type invariant says of the headers.                            *)
LEMMA HeaderFacts ==
  ASSUME SegTypeOK
  PROVE  /\ PhNum \in Nat /\ PhNum <= Len(table)
         /\ \A k \in 1 .. PhNum :
              /\ table[k].vaddr \in Nat
              /\ table[k].memsz \in 0 .. Word - 1
              /\ table[k].filesz \in 0 .. Word - 1
              /\ PageOf(table[k].vaddr) \in Nat
              /\ PagesFor(table[k].memsz) \in Nat
              /\ CountEnd(table[k]) \in Nat
              /\ CountEnd(table[k]) = PageOf(table[k].vaddr) + PagesFor(table[k].memsz)
  <1>1. PhNum \in Nat /\ PhNum <= Len(table)
    <2>1. Len(table) \in Nat
      BY DEF SegTypeOK
    <2>2. CASE Len(table) < PhNumRange
      BY <2>1, <2>2, TriesAssumption DEF PhNum
    <2>3. CASE Len(table) >= PhNumRange
      BY <2>1, <2>3, TriesAssumption DEF PhNum
    <2>4. QED
      BY <2>1, <2>2, <2>3, TriesAssumption
  <1>2. ASSUME NEW k \in 1 .. PhNum PROVE table[k] \in Header
    BY <1>1, <1>2 DEF SegTypeOK
  <1>3. QED
    <2>1. ASSUME NEW k \in 1 .. PhNum
          PROVE  /\ table[k].vaddr \in Nat
                 /\ table[k].memsz \in 0 .. Word - 1
                 /\ table[k].filesz \in 0 .. Word - 1
      BY <1>2 DEF Header
    <2>2. ASSUME NEW k \in 1 .. PhNum
          PROVE  /\ PageOf(table[k].vaddr) \in Nat
                 /\ PagesFor(table[k].memsz) \in Nat
      BY <2>1, PageOfFacts, PagesForType
    <2>3. QED
      BY <1>1, <2>1, <2>2 DEF CountEnd

(* The pages of a segment's bytes are numbers.                             *)
LEMMA BytesFacts ==
  ASSUME SegTypeOK, NEW k \in 1 .. PhNum
  PROVE  Bytes(table[k]) \subseteq Nat
  BY HeaderFacts, TouchedFacts DEF Bytes

(* A reason for giving a page up stays one, as the history only grows.     *)
LEMMA BlockedStays ==
  ASSUME NEW k, NEW p, BlockedFrom(k, p), blocked \subseteq blocked',
         table'[k] = table[k]
  PROVE  BlockedFrom(k, p)'
  BY DEF BlockedFrom, CountEnd

LEMMA SettledStays ==
  ASSUME NEW k, NEW p, Settled(p, k), blocked \subseteq blocked', got \subseteq got',
         table'[k] = table[k]
  PROVE  Settled(p, k)'
  BY BlockedStays DEF Settled

(* What a refused request records: a page that was not free, no further    *)
(* than the end of the count.                                              *)
LEMMA RefusalWitness ==
  ASSUME SegIInv, AllocateRefused, call.num_pages > 0
  PROVE  \E q \in PageOf(call.ret) .. CountEnd(table[seg]) - 1 : <<seg, q>> \in blocked'
  <1>1. PageOf(call.ret) + call.num_pages = CountEnd(table[seg])
    BY DEF SegIInv, Asking, AllocateRefused
  <1>2. PageOf(call.ret) \in Nat /\ call.num_pages \in Nat
    BY PageOfFacts DEF SegIInv, SegTypeOK
  <1>3. Wanted # {}
    BY <1>2 DEF Wanted
  <1>4. PICK q \in InTheWay : TRUE
    BY <1>3 DEF Granted, AllocateRefused
  <1>5. q \in PageOf(call.ret) .. CountEnd(table[seg]) - 1
    BY <1>1, <1>2, <1>4 DEF InTheWay, Wanted
  <1>6. <<seg, q>> \in blocked'
    BY <1>4 DEF AllocateRefused, ForSegment
  <1>7. QED
    BY <1>5, <1>6

(* The pages given up so far are accounted for.                            *)
LEMMA GivenUpAccounted ==
  ASSUME SegIInv, at = "allocating",
         NEW p \in Counted(table[seg]), p < PageOf(call.ret)
  PROVE  Settled(p, seg)
  <1>1. PageOf(call.ret) \in Nat /\ seg \in 1 .. PhNum
    <2>1. call.ret \in Nat /\ seg \in Nat \ {0}
      BY DEF SegIInv, SegTypeOK
    <2>2. PhNum \in Nat /\ seg <= PhNum
      BY HeaderFacts DEF SegIInv, AtSegment
    <2>3. QED
      BY <2>1, <2>2, PageOfFacts
  <1>2. PageOf(table[seg].vaddr) \in Nat /\ CountEnd(table[seg]) \in Nat
    BY <1>1, HeaderFacts DEF SegIInv
  <1>3. p \in PageOf(table[seg].vaddr) .. PageOf(call.ret) - 1
    BY <1>1, <1>2 DEF Counted
  <1>4. QED
    BY <1>3 DEF SegIInv, TriesSound, Settled

-------------------------------------------------------------------------------
(* At the start no page was obtained and no header has been looked at.     *)
LEMMA SegInitIInv == SegInit => SegIInv
  <1> SUFFICES ASSUME SegInit PROVE SegIInv
    OBVIOUS
  <1>1. SegTypeOK
    <2>1. table \in Seq(Header) /\ image \in Seq(Header)
      BY TableAssumption DEF SegInit
    <2>2. call \in [ret : Nat, size : 0 .. Word - 1, num_pages : Nat, tmp : 0 .. MaxTries]
      BY WordAssumption, TriesAssumption DEF SegInit, NoCall
    <2>3. QED
      BY <2>1, <2>2 DEF SegInit, SegTypeOK
  <1>2. PhNum \in Nat
    BY <1>1, HeaderFacts
  <1>3. GotKept /\ ImageRead
    BY DEF SegInit, GotKept, ImageRead
  <1>4. AtSegment /\ Asking /\ TriesSound /\ HaltsOnlyForHugeSegment
    BY <1>2 DEF SegInit, AtSegment, Asking, TriesSound, HaltsOnlyForHugeSegment
  <1>5. Through = 0 /\ seg - 1 = 0
    BY DEF SegInit, Through
  <1>6. Kept
    BY <1>5 DEF Kept
  <1>7. WrittenSoFar
    BY <1>5 DEF WrittenSoFar, Copied, SegInit
  <1>8. QED
    BY <1>1, <1>3, <1>4, <1>6, <1>7 DEF SegIInv

(* A gift of pages that were not the loader's, between two steps of        *)
(* LoadKernel: a callback, or a call that takes pages for another use.     *)
LEMMA GiftKeepsIInv ==
  ASSUME SegIInv,
         NEW pages \in SUBSET Page, NEW who \in {"free", "firmware", "loader"},
         GivePages(pages, who),
         \A p \in pages : owner[p] # "loader",
         UNCHANGED <<table, image, at, seg, call, gotVars, written>>,
         kernel_program' \in {"pool", "null"},
         kernel_program' = kernel_program \/ table = image
  PROVE  SegIInv'
  <1> USE DEF gotVars
  <1>1. /\ owner' \in [Page -> {"free", "firmware", "loader"}]
        /\ map_key' \in Nat
    BY DEF SegIInv, SegTypeOK, GivePages
  <1>2. SegTypeOK'
    BY <1>1 DEF SegIInv, SegTypeOK
  <1>3. \A p \in Page : owner[p] = "loader" => owner'[p] = "loader"
    BY DEF GivePages
  <1>4. GotKept'
    <2>1. \A g \in got : g[2] \in Page
      BY DEF SegIInv, SegTypeOK
    <2>2. QED
      BY <1>3, <2>1 DEF SegIInv, GotKept
  <1>5. ImageRead'
    BY DEF SegIInv, ImageRead, LandsAstray, Bytes
  <1>6. AtSegment' /\ Asking' /\ WrittenSoFar' /\ HaltsOnlyForHugeSegment'
    BY DEF SegIInv, AtSegment, PhNum, Asking, CountEnd, WrittenSoFar, Copied, Bytes,
           HaltsOnlyForHugeSegment
  <1>7. TriesSound'
    BY DEF SegIInv, TriesSound, CountEnd, BlockedFrom
  <1>8. Kept'
    BY DEF SegIInv, Kept, Through, Counted, CountEnd, Settled, BlockedFrom
  <1>9. QED
    BY <1>2, <1>4, <1>5, <1>6, <1>7, <1>8 DEF SegIInv

LEMMA CallbackKeepsIInv ==
  ASSUME SegIInv, FirmwareCallback
  PROVE  SegIInv'
  <1>1. PICK p \in Page :
          \/ owner[p] = "free" /\ GivePages({p}, "firmware")
          \/ owner[p] = "firmware" /\ GivePages({p}, "free")
    BY DEF FirmwareCallback
  <1>2. {p} \in SUBSET Page /\ \A q \in {p} : owner[q] # "loader"
    BY <1>1
  <1>3. UNCHANGED <<fileVars, at, seg, call, gotVars, written>>
    BY DEF FirmwareCallback
  <1>4. /\ UNCHANGED <<table, image, at, seg, call, gotVars, written>>
        /\ kernel_program' = kernel_program /\ kernel_program \in {"pool", "null"}
    BY <1>3 DEF fileVars, SegIInv, SegTypeOK
  <1>5. QED
    BY <1>1, <1>2, <1>4, GiftKeepsIInv

LEMMA StutterKeepsIInv ==
  ASSUME SegIInv, UNCHANGED segVars
  PROVE  SegIInv'
  <1> USE DEF segVars, pageVars, fileVars, gotVars
  <1>1. SegTypeOK' /\ GotKept' /\ ImageRead'
    BY DEF SegIInv, SegTypeOK, GotKept, ImageRead, LandsAstray, Bytes
  <1>2. AtSegment' /\ Asking' /\ WrittenSoFar' /\ HaltsOnlyForHugeSegment'
    BY DEF SegIInv, AtSegment, PhNum, Asking, CountEnd, WrittenSoFar, Copied, Bytes,
           HaltsOnlyForHugeSegment
  <1>3. TriesSound' /\ Kept'
    BY DEF SegIInv, TriesSound, CountEnd, BlockedFrom, Kept, Through, Counted, Settled
  <1>4. QED
    BY <1>1, <1>2, <1>3 DEF SegIInv

-------------------------------------------------------------------------------
(* A step of the loader that leaves the pages alone: only the headers it   *)
(* gets through now have to be accounted for.                              *)
LEMMA QuietStepKeeps ==
  ASSUME SegIInv, UNCHANGED <<owner, got>>, blocked \subseteq blocked',
         Through' \in Nat, Through <= Through',
         \A k \in 1 .. Through' : table'[k] = table[k],
         \A k \in 1 .. Through' :
           k > Through /\ table[k].load => \A p \in Counted(table[k]) : Settled(p, k)'
  PROVE  GotKept' /\ Kept'
  <1>1. Through \in Nat
    BY DEF SegIInv, SegTypeOK, Through
  <1>2. GotKept'
    BY DEF SegIInv, GotKept
  <1>3. ASSUME NEW k \in 1 .. Through', table[k].load, NEW p \in Counted(table[k])
        PROVE  Settled(p, k)'
    <2>1. CASE k > Through
      BY <1>3, <2>1
    <2>2. CASE ~(k > Through)
      <3>1. Settled(p, k)
        BY <1>1, <1>3, <2>2 DEF SegIInv, Kept
      <3>2. QED
        BY <3>1, SettledStays
    <2>3. QED
      BY <2>1, <2>2
  <1>4. Kept'
    BY <1>3 DEF Kept, Counted, CountEnd
  <1>5. QED
    BY <1>2, <1>4

(* The file's headers are what they were, and what was copied astray.      *)
LEMMA QuietRead ==
  ASSUME SegIInv, UNCHANGED <<fileVars, got>>, seg' \in Nat, seg <= seg'
  PROVE  ImageRead'
  <1>1. seg \in Nat
    BY DEF SegIInv, SegTypeOK
  <1>2. QED
    BY <1>1 DEF SegIInv, ImageRead, fileVars, LandsAstray, Bytes

(* One more header makes one more segment copied, if it is one to load.    *)
LEMMA CopiedNext ==
  ASSUME NEW n \in Nat
  PROVE  Copied(n + 1) =
           Copied(n) \cup (IF table[n + 1].load THEN Bytes(table[n + 1]) ELSE {})
  <1>1. 1 .. n + 1 = (1 .. n) \cup {n + 1}
    OBVIOUS
  <1>2. QED
    BY <1>1 DEF Copied

LEMMA SkipKeepsIInv ==
  ASSUME SegIInv, SkipHeader
  PROVE  SegIInv'
  <1>1. /\ at = "header" /\ at' = "header"
        /\ seg \in Nat \ {0} /\ seg' = seg + 1 /\ seg <= PhNum
        /\ ~table[seg].load
        /\ UNCHANGED <<owner, map_key, kernel_program, table, image, got, blocked, call,
                       written>>
    BY DEF SkipHeader, Advance, SegIInv, SegTypeOK, pageVars, fileVars, gotVars
  <1>2. Through = seg - 1 /\ Through' = seg
    BY <1>1 DEF Through
  <1>3. GotKept' /\ Kept' /\ ImageRead'
    BY <1>1, <1>2, QuietStepKeeps, QuietRead DEF fileVars
  <1>4. SegTypeOK'
    BY <1>1 DEF SegIInv, SegTypeOK
  <1>5. AtSegment' /\ Asking' /\ TriesSound' /\ HaltsOnlyForHugeSegment'
    BY <1>1, HeaderFacts
    DEF SegIInv, AtSegment, PhNum, Asking, TriesSound, HaltsOnlyForHugeSegment
  <1>6. WrittenSoFar'
    <2>1. seg - 1 \in Nat /\ (seg - 1) + 1 = seg
      BY <1>1
    <2>2. Copied(seg) = Copied(seg - 1)
      BY <1>1, <2>1, CopiedNext
    <2>3. (seg - 1)' = seg
      BY <1>1
    <2>4. QED
      BY <1>1, <2>2, <2>3 DEF SegIInv, WrittenSoFar, Copied, Bytes
  <1>7. QED
    BY <1>3, <1>4, <1>5, <1>6 DEF SegIInv

LEMMA CallKeepsIInv ==
  ASSUME SegIInv, CallAllocatePages
  PROVE  SegIInv'
  <1>1. /\ at = "header" /\ at' = "allocating"
        /\ seg \in 1 .. PhNum /\ seg' = seg
        /\ table[seg].load
        /\ UNCHANGED <<owner, map_key, kernel_program, table, image, got, blocked, written>>
        /\ call' = [ret |-> table[seg].vaddr, size |-> table[seg].memsz,
                    num_pages |-> PagesFor(table[seg].memsz), tmp |-> 0]
    BY HeaderFacts DEF CallAllocatePages, SegIInv, SegTypeOK, pageVars, fileVars, gotVars
  <1>2. Through \in Nat /\ Through' = Through /\ seg \in Nat
    BY <1>1, HeaderFacts DEF Through, SegIInv
  <1>3. GotKept' /\ Kept' /\ ImageRead'
    BY <1>1, <1>2, QuietStepKeeps, QuietRead DEF fileVars
  <1>4. /\ table[seg].vaddr \in Nat /\ table[seg].memsz \in 0 .. Word - 1
        /\ PageOf(table[seg].vaddr) \in Nat /\ PagesFor(table[seg].memsz) \in Nat
    BY <1>1, HeaderFacts DEF SegIInv
  <1>5. SegTypeOK'
    BY <1>1, <1>4, TriesAssumption DEF SegIInv, SegTypeOK
  <1>6. AtSegment' /\ HaltsOnlyForHugeSegment' /\ WrittenSoFar'
    BY <1>1, HeaderFacts
    DEF SegIInv, AtSegment, PhNum, HaltsOnlyForHugeSegment, WrittenSoFar, Copied, Bytes
  <1>7. Asking' /\ TriesSound'
    BY <1>1, <1>4, TriesAssumption DEF Asking, TriesSound, CountEnd
  <1>8. QED
    BY <1>3, <1>5, <1>6, <1>7 DEF SegIInv

LEMMA ReturnKeepsIInv ==
  ASSUME SegIInv, LoadReturns
  PROVE  SegIInv'
  <1>1. /\ at = "header" /\ at' = "loaded" /\ seg > PhNum /\ seg \in Nat
        /\ UNCHANGED <<owner, map_key, kernel_program, table, image, got, blocked, seg,
                       call, written>>
    BY DEF LoadReturns, pageVars, fileVars, gotVars, SegIInv, SegTypeOK
  <1>2. Through \in Nat /\ Through' = Through
    BY <1>1 DEF Through, SegIInv, SegTypeOK
  <1>3. GotKept' /\ Kept' /\ ImageRead'
    BY <1>1, <1>2, QuietStepKeeps, QuietRead DEF fileVars
  <1>4. SegTypeOK'
    BY <1>1 DEF SegIInv, SegTypeOK
  <1>5. AtSegment' /\ Asking' /\ TriesSound' /\ HaltsOnlyForHugeSegment' /\ WrittenSoFar'
    BY <1>1
    DEF SegIInv, AtSegment, PhNum, Asking, TriesSound, HaltsOnlyForHugeSegment,
        WrittenSoFar, Copied, Bytes
  <1>6. QED
    BY <1>3, <1>4, <1>5 DEF SegIInv

(* A copy changes no header but those behind, and these only when it hit   *)
(* pages that were not obtained, or the file lies at address 0.            *)
LEMMA CopyTable ==
  ASSUME SegIInv, CopySegment
  PROVE  /\ table' \in Seq(Header) /\ Len(table') = Len(table)
         /\ \A k \in 1 .. seg : table'[k] = table[k]
         /\ table' # table =>
              ~SparesFile(table[seg]) /\ seg \in 1 .. Len(table) - 1
  <1>1. /\ table \in Seq(Header) /\ Len(table) \in Nat /\ seg \in 1 .. Len(table)
        /\ DOMAIN table = 1 .. Len(table)
    BY HeaderFacts DEF SegIInv, SegTypeOK, AtSegment, CopySegment
  <1>2. CASE UNCHANGED table
    BY <1>1, <1>2
  <1>3. CASE ~SparesFile(table[seg]) /\ Overwritten
    <2>1. PICK rest \in [seg + 1 .. Len(table) -> Headers] :
            table' = [k \in 1 .. Len(table) |-> IF k <= seg THEN table[k] ELSE rest[k]]
      BY <1>1, <1>3 DEF Overwritten
    <2>2. \A k \in 1 .. Len(table) : k > seg => k \in seg + 1 .. Len(table)
      BY <1>1
    <2>3. \A k \in 1 .. Len(table) : table'[k] \in Header
      BY <1>1, <2>1, <2>2, TableAssumption
    <2>4. table' = [k \in 1 .. Len(table) |-> table'[k]]
      BY <2>1
    <2>5. table' \in Seq(Header) /\ Len(table') = Len(table)
      BY <1>1, <2>3, <2>4
    <2>6. \A k \in 1 .. seg : table'[k] = table[k]
      BY <1>1, <2>1
    <2>7. seg = Len(table) => table' = table
      <3>1. SUFFICES ASSUME seg = Len(table) PROVE table' = table
        OBVIOUS
      <3>2. \A k \in 1 .. Len(table) : table'[k] = table[k]
        BY <2>6, <3>1
      <3>3. table = [k \in 1 .. Len(table) |-> table[k]]
        BY <1>1
      <3>4. QED
        BY <2>4, <3>2, <3>3
    <2>8. seg # Len(table) => seg \in 1 .. Len(table) - 1
      <3>1. Len(table) \in Nat /\ seg \in 1 .. Len(table)
        BY <1>1
      <3>2. QED
        BY <3>1
    <2>9. QED
      BY <1>3, <2>5, <2>6, <2>7, <2>8
  <1>4. QED
    BY <1>2, <1>3 DEF CopySegment

LEMMA CopyRead ==
  ASSUME SegIInv, CopySegment
  PROVE  ImageRead'
  <1>1. /\ Len(table') = Len(table)
        /\ table' # table => ~SparesFile(table[seg]) /\ seg \in 1 .. Len(table) - 1
        /\ Len(table) = Len(image)
        /\ seg \in Nat /\ seg' = seg + 1 /\ table[seg].load
        /\ UNCHANGED <<kernel_program, image, got>>
        /\ kernel_program \in {"pool", "null"} /\ got \subseteq Nat \X Page
    BY CopyTable
    DEF SegIInv, ImageRead, CopySegment, Advance, SegTypeOK, AtSegment, gotVars
  <1>2. CASE kernel_program = "null"
    BY <1>1, <1>2 DEF ImageRead
  <1>3. CASE \E k \in 1 .. Len(image) - 1 : k < seg /\ LandsAstray(k)
    BY <1>1, <1>3 DEF ImageRead, LandsAstray, Bytes
  <1>4. CASE table = image /\ table' = table
    BY <1>1, <1>4 DEF ImageRead
  <1>5. CASE table = image /\ table' # table /\ kernel_program = "pool"
    <2>1. PICK p \in Bytes(image[seg]) : p \notin Obtained
      BY <1>1, <1>5 DEF SparesFile
    <2>2. ASSUME NEW j \in 1 .. seg, <<j, p>> \in got PROVE FALSE
      <3>1. p \in Page
        BY <1>1, <2>2
      <3>2. QED
        BY <2>1, <2>2, <3>1 DEF Obtained
    <2>3. PICK k : k = seg
      OBVIOUS
    <2>4. LandsAstray(k)
      BY <1>1, <1>5, <2>1, <2>2, <2>3 DEF LandsAstray
    <2>5. k \in 1 .. Len(image) - 1 /\ k < seg'
      BY <1>1, <1>5, <2>3
    <2>6. QED
      BY <1>1, <2>4, <2>5 DEF ImageRead, LandsAstray, Bytes
  <1>6. QED
    BY <1>1, <1>2, <1>3, <1>4, <1>5 DEF SegIInv, ImageRead

LEMMA CopyKeepsIInv ==
  ASSUME SegIInv, CopySegment
  PROVE  SegIInv'
  <1>1. /\ at = "copy" /\ at' = "header"
        /\ seg \in 1 .. PhNum /\ seg' = seg + 1 /\ seg \in Nat \ {0}
        /\ table[seg].load
        /\ UNCHANGED <<owner, map_key, kernel_program, image, got, blocked>>
        /\ call' = NoCall
        /\ written' = written \cup Bytes(table[seg])
    BY HeaderFacts
    DEF CopySegment, Advance, SegIInv, SegTypeOK, AtSegment, pageVars, gotVars
  <1>2. /\ table' \in Seq(Header) /\ Len(table') = Len(table)
        /\ \A k \in 1 .. seg : table'[k] = table[k]
    BY CopyTable
  <1>3. Through = seg /\ Through' = seg
    BY <1>1 DEF Through
  <1>4. GotKept' /\ Kept'
    BY <1>1, <1>2, <1>3, QuietStepKeeps
  <1>5. ImageRead'
    BY CopyRead
  <1>6. SegTypeOK'
    <2>1. written' \subseteq Nat
      BY <1>1, BytesFacts DEF SegIInv, SegTypeOK
    <2>2. call' \in [ret : Nat, size : 0 .. Word - 1, num_pages : Nat, tmp : 0 .. MaxTries]
      BY <1>1, WordAssumption, TriesAssumption DEF NoCall
    <2>3. QED
      BY <1>1, <1>2, <2>1, <2>2 DEF SegIInv, SegTypeOK
  <1>7. AtSegment' /\ Asking' /\ TriesSound' /\ HaltsOnlyForHugeSegment'
    <2>1. PhNum' = PhNum /\ PhNum \in Nat
      BY <1>2, HeaderFacts DEF PhNum, SegIInv
    <2>2. QED
      BY <1>1, <2>1 DEF AtSegment, Asking, TriesSound, HaltsOnlyForHugeSegment
  <1>8. WrittenSoFar'
    <2>1. seg - 1 \in Nat /\ (seg - 1) + 1 = seg
      BY <1>1
    <2>2. Copied(seg) = Copied(seg - 1) \cup Bytes(table[seg])
      BY <1>1, <2>1, CopiedNext
    <2>3. (seg - 1)' = seg
      BY <1>1
    <2>4. UNION {Bytes(table'[k]) : k \in {j \in 1 .. seg : table'[j].load}} = Copied(seg)
      BY <1>2 DEF Copied
    <2>5. written' = Copied(seg)
      BY <1>1, <2>2 DEF SegIInv, WrittenSoFar
    <2>6. QED
      BY <1>1, <2>3, <2>4, <2>5 DEF WrittenSoFar, Copied, Bytes
  <1>9. QED
    BY <1>4, <1>5, <1>6, <1>7, <1>8 DEF SegIInv

(* A granted request covers the count from its start to its end; the start *)
(* had moved over pages that are accounted for.                            *)
LEMMA GrantKeepsIInv ==
  ASSUME SegIInv, AllocateGranted
  PROVE  SegIInv'
  <1>1. /\ at = "allocating" /\ at' = "copy"
        /\ seg \in 1 .. PhNum /\ seg' = seg /\ seg \in Nat
        /\ table[seg].load
        /\ UNCHANGED <<kernel_program, table, image, blocked, written>>
        /\ Granted /\ GivePages(Wanted, "loader")
        /\ got' = got \cup ForSegment(Wanted)
        /\ call' = [call EXCEPT !.ret = PageOf(call.ret) * PageBytes, !.tmp = call.tmp + 1]
    BY HeaderFacts DEF AllocateGranted, SegIInv, SegTypeOK, AtSegment, fileVars
  <1>2. /\ call.ret \in Nat /\ call.size \in 0 .. Word - 1 /\ call.num_pages \in Nat
        /\ call.tmp \in 0 .. MaxTries
        /\ call \in [ret : Nat, size : 0 .. Word - 1, num_pages : Nat, tmp : 0 .. MaxTries]
    BY DEF SegIInv, SegTypeOK
  <1>3. /\ PageOf(call.ret) \in Nat /\ CountEnd(table[seg]) \in Nat
        /\ PageOf(table[seg].vaddr) \in Nat
        /\ PageOf(call.ret) * PageBytes \in Nat
    BY <1>1, <1>2, PageOfFacts, HeaderFacts DEF SegIInv
  <1>4. /\ call.tmp < MaxTries
        /\ PageOf(call.ret) >= PageOf(table[seg].vaddr)
        /\ PageOf(call.ret) + call.num_pages = CountEnd(table[seg])
    BY <1>1, <1>2, <1>3 DEF SegIInv, Asking
  <1>5. /\ Wanted = PageOf(call.ret) .. CountEnd(table[seg]) - 1
        /\ Wanted \in SUBSET Page
        /\ \A p \in Wanted : owner[p] = "free"
    BY <1>1, <1>2, <1>3, <1>4 DEF Wanted, Granted, InTheWay
  <1>6. /\ owner' \in [Page -> {"free", "firmware", "loader"}]
        /\ map_key' \in Nat
        /\ \A p \in Page : owner[p] = "loader" => owner'[p] = "loader"
        /\ \A p \in Wanted : owner'[p] = "loader"
    BY <1>1, <1>5 DEF SegIInv, SegTypeOK, GivePages
  <1>7. got \subseteq Nat \X Page /\ got' \subseteq Nat \X Page
    BY <1>1, <1>5 DEF SegIInv, SegTypeOK, ForSegment
  <1>8. SegTypeOK'
    <2>1. call.tmp + 1 \in 0 .. MaxTries
      BY <1>2, <1>4, TriesAssumption
    <2>2. call' \in [ret : Nat, size : 0 .. Word - 1, num_pages : Nat, tmp : 0 .. MaxTries]
      BY <1>1, <1>2, <1>3, <2>1
    <2>3. QED
      BY <1>1, <1>6, <1>7, <2>2 DEF SegIInv, SegTypeOK
  <1>9. GotKept'
    <2>1. ASSUME NEW g \in got' PROVE owner'[g[2]] = "loader"
      <3>1. CASE g \in got
        BY <1>6, <1>7, <3>1 DEF SegIInv, GotKept
      <3>2. CASE g \in ForSegment(Wanted)
        BY <1>6, <3>2 DEF ForSegment
      <3>3. QED
        BY <1>1, <2>1, <3>1, <3>2
    <2>2. QED
      BY <2>1 DEF GotKept
  <1>10. Through = seg - 1 /\ Through' = seg /\ seg \in 1 .. seg
    BY <1>1, HeaderFacts DEF Through, SegIInv
  <1>11. AtSegment' /\ Asking' /\ TriesSound' /\ HaltsOnlyForHugeSegment' /\ WrittenSoFar'
    BY <1>1, HeaderFacts
    DEF SegIInv, AtSegment, PhNum, Asking, TriesSound, HaltsOnlyForHugeSegment,
        WrittenSoFar, Copied, Bytes
  <1>12. ImageRead'
    <2>1. \A k \in Nat : k < seg /\ LandsAstray(k) => LandsAstray(k)'
      <3>1. SUFFICES ASSUME NEW k \in Nat, k < seg, LandsAstray(k) PROVE LandsAstray(k)'
        OBVIOUS
      <3>2. ASSUME NEW j \in 1 .. k, NEW p, <<j, p>> \notin got PROVE <<j, p>> \notin got'
        BY <1>1, <3>1, <3>2 DEF ForSegment
      <3>3. QED
        BY <1>1, <3>1, <3>2 DEF LandsAstray, Bytes
    <2>2. Len(image) - 1 \in Int
      BY DEF SegIInv, SegTypeOK
    <2>3. QED
      BY <1>1, <2>1, <2>2 DEF SegIInv, ImageRead
  <1>13. Kept'
    <2>1. ASSUME NEW k \in 1 .. seg, table[k].load, NEW p \in Counted(table[k])
          PROVE  Settled(p, k)'
      <3>1. CASE Settled(p, k)
        BY <1>1, <3>1, SettledStays
      <3>2. CASE k # seg
        <4>1. k \in 1 .. Through
          BY <1>1, <1>10, <3>2
        <4>2. Settled(p, k)
          BY <2>1, <4>1 DEF SegIInv, Kept
        <4>3. QED
          BY <3>1, <4>2
      <3>3. CASE k = seg
        <4>1. CASE p < PageOf(call.ret)
          BY <1>1, <2>1, <3>1, <3>3, <4>1, GivenUpAccounted
        <4>2. CASE ~(p < PageOf(call.ret))
          <5>1. p \in Wanted
            BY <1>3, <1>5, <2>1, <3>3, <4>2 DEF Counted
          <5>2. <<k, p>> \in got'
            BY <1>1, <3>3, <5>1 DEF ForSegment
          <5>3. QED
            BY <5>2 DEF Settled
        <4>3. QED
          BY <4>1, <4>2
      <3>4. QED
        BY <3>2, <3>3
    <2>2. QED
      BY <1>1, <1>10, <2>1 DEF Kept, Counted, CountEnd
  <1>14. QED
    BY <1>8, <1>9, <1>11, <1>12, <1>13 DEF SegIInv

(* When the loop ends without a grant, nothing of the count is left to ask *)
(* for, or just a page that was refused, or the count ends beyond memory.  *)
LEMMA GivingUpAccounted ==
  ASSUME SegIInv, AllocateRefused, Smaller(call.size) >= SizeLimit,
         NEW k, k = seg, NEW p \in Counted(table[k])
  PROVE  Settled(p, k)'
  <1>1. /\ PageOf(call.ret) \in Nat /\ call.num_pages \in Nat
        /\ call.size \in 0 .. Word - 1 /\ call.num_pages = PagesFor(call.size)
        /\ PageOf(call.ret) + call.num_pages = CountEnd(table[seg])
        /\ at = "allocating"
    BY PageOfFacts DEF SegIInv, SegTypeOK, Asking, AllocateRefused
  <1>2. PageCount \in Nat
    BY PageAssumption
  <1>3. /\ CountEnd(table[seg]) \in Nat /\ p \in Nat
        /\ p < CountEnd(table[seg])
    <2>1. seg \in 1 .. PhNum
      BY <1>1, HeaderFacts DEF SegIInv, SegTypeOK, AtSegment
    <2>2. CountEnd(table[seg]) \in Nat /\ PageOf(table[seg].vaddr) \in Nat
      BY <2>1, HeaderFacts DEF SegIInv
    <2>3. QED
      BY <2>2 DEF Counted
  <1>4. /\ table' = table /\ got' = got
        /\ blocked' = blocked \cup ForSegment(InTheWay)
    BY DEF AllocateRefused, fileVars
  <1>5. (\E q \in p .. CountEnd(table[k]) - 1 : <<k, q>> \in blocked') => Settled(p, k)'
    BY <1>4 DEF Settled, BlockedFrom, CountEnd
  <1>6. CASE p < PageOf(call.ret)
    <2>1. Settled(p, k)
      BY <1>1, <1>6, GivenUpAccounted
    <2>2. QED
      BY <1>4, <2>1, SettledStays
  <1>7. CASE p >= PageOf(call.ret) /\ call.num_pages <= 1
    <2>1. p = PageOf(call.ret) /\ call.num_pages > 0
      BY <1>1, <1>3, <1>7
    <2>2. \E q \in p .. CountEnd(table[seg]) - 1 : <<seg, q>> \in blocked'
      BY <2>1, RefusalWitness
    <2>3. QED
      BY <1>5, <2>2
  <1>8. CASE p >= PageOf(call.ret) /\ call.num_pages > PageCount
    <2> DEFINE last == CountEnd(table[seg]) - 1
    <2>1. last \notin Page /\ last \in Wanted /\ last \in p .. CountEnd(table[seg]) - 1
      BY <1>1, <1>2, <1>3, <1>8 DEF Page, Wanted
    <2>2. <<seg, last>> \in blocked'
      BY <1>4, <2>1 DEF InTheWay, ForSegment
    <2>3. QED
      BY <1>5, <2>1, <2>2
  <1>9. QED
    BY <1>1, <1>2, <1>3, <1>6, <1>7, <1>8, SmallerFacts

LEMMA RefusalKeepsIInv ==
  ASSUME SegIInv, AllocateRefused
  PROVE  SegIInv'
  <1> DEFINE size == Smaller(call.size)
  <1>1. /\ at = "allocating"
        /\ seg \in 1 .. PhNum /\ seg' = seg /\ seg \in Nat \ {0}
        /\ table[seg].load
        /\ UNCHANGED <<owner, map_key, kernel_program, table, image, got, written>>
        /\ blocked' = blocked \cup ForSegment(InTheWay)
        /\ call' = [ret |-> NextRet(call.ret), size |-> size,
                    num_pages |-> PagesFor(size), tmp |-> call.tmp + 1]
        /\ at' = CASE call.tmp + 1 = MaxTries -> "halted"
                   [] call.tmp + 1 # MaxTries /\ size < SizeLimit -> "allocating"
                   [] OTHER -> "copy"
    BY HeaderFacts DEF AllocateRefused, SegIInv, SegTypeOK, AtSegment, pageVars, fileVars
  <1>2. /\ call.ret \in Nat /\ call.size \in 0 .. Word - 1 /\ call.num_pages \in Nat
        /\ call.tmp \in 0 .. MaxTries
    BY DEF SegIInv, SegTypeOK
  <1>3. /\ PageOf(call.ret) \in Nat /\ NextRet(call.ret) \in Nat
        /\ PageOf(NextRet(call.ret)) = PageOf(call.ret) + 1
        /\ CountEnd(table[seg]) \in Nat /\ PageOf(table[seg].vaddr) \in Nat
    BY <1>1, <1>2, PageOfFacts, HeaderFacts DEF SegIInv
  <1>4. /\ call.tmp < MaxTries
        /\ call.num_pages = PagesFor(call.size)
        /\ PageOf(call.ret) = PageOf(table[seg].vaddr) + call.tmp
        /\ PageOf(call.ret) + call.num_pages = CountEnd(table[seg])
    BY <1>1 DEF SegIInv, Asking
  <1>5. /\ size \in 0 .. Word - 1 /\ PagesFor(size) \in Nat
        /\ size < SizeLimit => call.num_pages = PagesFor(size) + 1
    BY <1>2, <1>4, SmallerFacts, PagesForType
  <1>6. SizeLimit \in Nat /\ MaxTries \in Nat
    BY WordAssumption, TriesAssumption
  <1> HIDE DEF size
  <1>7. at' \in {"halted", "allocating", "copy"}
    BY <1>1
  <1>8. SegTypeOK'
    <2>1. call.tmp + 1 \in 0 .. MaxTries
      BY <1>2, <1>4, <1>6
    <2>2. call' \in [ret : Nat, size : 0 .. Word - 1, num_pages : Nat, tmp : 0 .. MaxTries]
      BY <1>1, <1>3, <1>5, <2>1
    <2>3. blocked' \subseteq Nat \X Nat
      <3>1. InTheWay \subseteq Nat
        BY <1>2, <1>3 DEF InTheWay, Wanted
      <3>2. QED
        BY <1>1, <3>1 DEF ForSegment, SegIInv, SegTypeOK
    <2>4. QED
      BY <1>1, <1>7, <2>2, <2>3 DEF SegIInv, SegTypeOK
  <1>9. GotKept' /\ Kept'
    <2>1. Through = seg - 1
      BY <1>1 DEF Through
    <2>2. CASE at' = "copy"
      <3>1. size >= SizeLimit
        BY <1>1, <1>5, <1>6, <2>2
      <3>2. \A k : k = seg => \A p \in Counted(table[k]) : Settled(p, k)'
        BY <3>1, GivingUpAccounted DEF size
      <3>3. Through' = seg
        BY <1>1, <2>2 DEF Through
      <3>4. \A k \in 1 .. seg : k > seg - 1 => k = seg
        BY <1>1
      <3>5. QED
        BY <1>1, <2>1, <3>2, <3>3, <3>4, QuietStepKeeps
    <2>3. CASE at' # "copy"
      <3>1. Through' = Through /\ Through \in Nat
        BY <1>1, <2>1, <2>3 DEF Through
      <3>2. QED
        BY <1>1, <3>1, QuietStepKeeps
    <2>4. QED
      BY <2>2, <2>3
  <1>10. AtSegment' /\ WrittenSoFar' /\ ImageRead'
    BY <1>1, <1>7, HeaderFacts, QuietRead
    DEF SegIInv, AtSegment, PhNum, WrittenSoFar, Copied, Bytes, fileVars
  <1>11. Asking' /\ TriesSound'
    <2>1. SUFFICES ASSUME at' = "allocating" PROVE Asking' /\ TriesSound'
      BY DEF Asking, TriesSound
    <2>2. call.tmp + 1 # MaxTries /\ size < SizeLimit
      BY <1>1, <2>1
    <2>3. /\ call'.tmp < MaxTries
          /\ call'.num_pages = PagesFor(call'.size)
          /\ PageOf(call'.ret) = PageOf(table[seg].vaddr) + call'.tmp
          /\ PageOf(call'.ret) + call'.num_pages = CountEnd(table[seg])
      BY <1>1, <1>2, <1>3, <1>4, <1>5, <1>6, <2>2
    <2>4. ASSUME NEW s \in PageOf(table[seg].vaddr) .. PageOf(call'.ret) - 1
          PROVE  BlockedFrom(seg, s)'
      <3>1. PageOf(call'.ret) - 1 = PageOf(call.ret)
        BY <1>1, <1>3
      <3>2. CASE s = PageOf(call.ret)
        <4>1. call.num_pages > 0
          BY <1>5, <2>2
        <4>2. \E q \in s .. CountEnd(table[seg]) - 1 : <<seg, q>> \in blocked'
          BY <3>2, <4>1, RefusalWitness
        <4>3. QED
          BY <1>1, <4>2 DEF BlockedFrom, CountEnd
      <3>3. CASE s # PageOf(call.ret)
        <4>1. s \in PageOf(table[seg].vaddr) .. PageOf(call.ret) - 1
          BY <1>3, <2>4, <3>1, <3>3
        <4>2. BlockedFrom(seg, s)
          BY <1>1, <4>1 DEF SegIInv, TriesSound
        <4>3. QED
          BY <1>1, <4>2, BlockedStays
      <3>4. QED
        BY <3>2, <3>3
    <2>5. QED
      BY <1>1, <2>3, <2>4 DEF Asking, TriesSound, CountEnd
  <1>12. HaltsOnlyForHugeSegment'
    <2>1. SUFFICES ASSUME at' = "halted" PROVE PagesFor(table[seg].memsz) + 1 >= MaxTries
      BY <1>1 DEF HaltsOnlyForHugeSegment
    <2>2. call.tmp + 1 = MaxTries
      BY <1>1, <2>1
    <2>3. PagesFor(table[seg].memsz) \in Nat
      BY <1>1, HeaderFacts DEF SegIInv
    <2>4. PagesFor(table[seg].memsz) = call.tmp + call.num_pages
      BY <1>2, <1>3, <1>4, <2>3 DEF CountEnd
    <2>5. QED
      BY <1>2, <2>2, <2>3, <2>4
  <1>13. QED
    BY <1>8, <1>9, <1>10, <1>11, <1>12 DEF SegIInv

LEMMA LoadStepKeepsIInv ==
  ASSUME SegIInv, LoadStep
  PROVE  SegIInv'
  BY SkipKeepsIInv, CallKeepsIInv, GrantKeepsIInv, RefusalKeepsIInv, CopyKeepsIInv,
     ReturnKeepsIInv DEF LoadStep

-------------------------------------------------------------------------------
(* What the invariant says once the image is loaded.                       *)
LEMMA IInvOwned ==
  ASSUME SegIInv
  PROVE  ImageOwned
  <1> SUFFICES ASSUME at = "loaded", NEW k \in 1 .. PhNum, table[k].load,
                      NEW p \in Touched(table[k].vaddr, table[k].memsz),
                      ~(p >= CountEnd(table[k]))
               PROVE  Settled(p, k)
    BY DEF ImageOwned, SegmentsOwned, Settled, SegIInv
  <1>1. k \in 1 .. Through
    BY HeaderFacts DEF SegIInv, SegTypeOK, AtSegment, Through
  <1>2. /\ table[k].vaddr \in Nat /\ table[k].memsz \in Nat
        /\ PageOf(table[k].vaddr) \in Nat /\ CountEnd(table[k]) \in Nat
    BY HeaderFacts DEF SegIInv
  <1>3. p \in Nat /\ p >= PageOf(table[k].vaddr)
    BY <1>2, TouchedFacts
  <1>4. p \in Counted(table[k])
    BY <1>2, <1>3 DEF Counted
  <1>5. QED
    BY <1>1, <1>4 DEF SegIInv, Kept

LEMMA IInvCopied ==
  ASSUME SegIInv
  PROVE  ImageCopied
  <1> SUFFICES ASSUME at = "loaded", Len(image) < PhNumRange, table = image
               PROVE  written = UNION {Bytes(image[k]) :
                                         k \in {j \in DOMAIN image : image[j].load}}
    BY DEF ImageCopied, SegIInv, ImageRead
  <1>1. Len(table) \in Nat /\ DOMAIN table = 1 .. Len(table)
    BY DEF SegIInv, SegTypeOK
  <1>2. PhNum = Len(table)
    <2>1. \A n \in Nat : n < PhNumRange => n % PhNumRange = n
      BY TriesAssumption
    <2>2. QED
      BY <1>1, <2>1 DEF PhNum
  <1>3. seg - 1 = Len(table)
    BY <1>1, <1>2 DEF SegIInv, SegTypeOK, AtSegment
  <1>4. written = Copied(Len(table))
    BY <1>3 DEF SegIInv, WrittenSoFar
  <1>5. QED
    BY <1>1, <1>4 DEF Copied

(* The inductive invariant holds in every behaviour.                       *)
THEOREM SegmentInvariant == SegSpec => []SegIInv
  <1>1. SegIInv /\ [SegNext]_segVars => SegIInv'
    BY LoadStepKeepsIInv, CallbackKeepsIInv, StutterKeepsIInv DEF SegNext
  <1>2. QED
    BY <1>1, SegInitIInv, PTL DEF SegSpec

(* The locals of LoadKernel and Allocate stay within their types; sizes    *)
(* wrap at the width of a UINT64, and the count of tries never passes the  *)
(* number at which Allocate stops the machine.                             *)
THEOREM SegTypeCorrect == SegSpec => []SegTypeOK
  <1>1. SegIInv => SegTypeOK
    BY DEF SegIInv
  <1>2. QED
    BY <1>1, SegmentInvariant, PTL

(* Allocate's retries give up only starts that were hopeless, as a page    *)
(* from there on was not free when it was asked for, and never move the    *)
(* end of the request.                                                     *)
THEOREM RetriesSound == SegSpec => []TriesSound
  <1>1. SegIInv => TriesSound
    BY DEF SegIInv
  <1>2. QED
    BY <1>1, SegmentInvariant, PTL

(* Pages that Allocate obtained stay the loader's.  After LoadKernel every *)
(* page of a segment was obtained; or it, or a page of the count behind    *)
(* it, was not free when it was asked for; or Allocate did not count it.   *)
THEOREM LoadedImageOwned == SegSpec => []ImageOwned
  <1>1. SegIInv => ImageOwned
    BY IInvOwned
  <1>2. QED
    BY <1>1, SegmentInvariant, PTL

(* After LoadKernel, exactly the pages of the segments' file bytes have    *)
(* been written, for an image whose headers ph_num can count and that was  *)
(* read into pool memory, unless a segment was copied onto a page that     *)
(* Allocate had not obtained.                                              *)
THEOREM LoadedImageCopied == SegSpec => []ImageCopied
  <1>1. SegIInv => ImageCopied
    BY IInvCopied
  <1>2. QED
    BY <1>1, SegmentInvariant, PTL

(* Allocate stops the machine only over a segment of about as many pages   *)
(* as it makes tries.                                                      *)
THEOREM HaltNeedsHugeSegment == SegSpec => []HaltsOnlyForHugeSegment
  <1>1. SegIInv => HaltsOnlyForHugeSegment
    BY DEF SegIInv
  <1>2. QED
    BY <1>1, SegmentInvariant, PTL

-------------------------------------------------------------------------------
(* How far LoadKernel is from its end: the headers ahead, and the turns of *)
(* the one it is at.                                                       *)
HeadersLeft == PhNum + 1 - seg

TurnsLeft ==
  CASE at = "header" -> MaxTries + 3
    [] at = "allocating" -> MaxTries + 2 - call.tmp
    [] at = "copy" -> 1
    [] OTHER -> 0

LoadNearer ==
  \/ HeadersLeft \in Nat /\ HeadersLeft' \in Nat /\ HeadersLeft' < HeadersLeft
  \/ HeadersLeft' = HeadersLeft /\ TurnsLeft \in Nat /\ TurnsLeft' \in Nat
     /\ TurnsLeft' < TurnsLeft

LEMMA LoadStepNears ==
  ASSUME SegIInv, LoadStep
  PROVE  LoadNearer
  <1>1. /\ PhNum \in Nat /\ MaxTries \in Nat \ {0} /\ seg \in Nat \ {0} /\ seg <= PhNum + 1
        /\ call.tmp \in 0 .. MaxTries
    BY HeaderFacts, TriesAssumption DEF SegIInv, SegTypeOK, AtSegment
  <1>2. PhNum' = PhNum
    <2>1. CASE CopySegment
      BY <2>1, CopyTable DEF PhNum
    <2>2. CASE ~CopySegment
      BY <2>2 DEF LoadStep, SkipHeader, CallAllocatePages, AllocateGranted,
                  AllocateRefused, LoadReturns, fileVars, PhNum
    <2>3. QED
      BY <2>1, <2>2
  <1>3. HeadersLeft \in Nat
    BY <1>1 DEF HeadersLeft
  <1>4. CASE seg' = seg + 1 /\ seg <= PhNum
    BY <1>1, <1>2, <1>3, <1>4 DEF LoadNearer, HeadersLeft
  <1>5. CASE seg' = seg /\ TurnsLeft \in Nat /\ TurnsLeft' \in Nat /\ TurnsLeft' < TurnsLeft
    BY <1>2, <1>5 DEF LoadNearer, HeadersLeft
  <1>6. CASE SkipHeader
    BY <1>4, <1>6 DEF SkipHeader, Advance
  <1>7. CASE CopySegment
    BY <1>4, <1>7 DEF CopySegment, Advance, SegIInv, AtSegment
  <1>8. CASE LoadReturns
    BY <1>1, <1>5, <1>8 DEF LoadReturns, TurnsLeft
  <1>9. CASE CallAllocatePages
    <2>1. TurnsLeft = MaxTries + 3 /\ seg' = seg
      BY <1>9 DEF CallAllocatePages, TurnsLeft
    <2>2. TurnsLeft' = MaxTries + 2 - 0
      BY <1>9 DEF CallAllocatePages, TurnsLeft
    <2>3. QED
      BY <1>1, <1>5, <2>1, <2>2
  <1>10. CASE AllocateGranted
    <2>1. TurnsLeft = MaxTries + 2 - call.tmp /\ seg' = seg
      BY <1>10 DEF AllocateGranted, TurnsLeft
    <2>2. TurnsLeft' = 1
      BY <1>10 DEF AllocateGranted, TurnsLeft
    <2>3. QED
      BY <1>1, <1>5, <2>1, <2>2
  <1>11. CASE AllocateRefused
    <2>1. TurnsLeft = MaxTries + 2 - call.tmp /\ seg' = seg /\ call.tmp < MaxTries
      BY <1>11 DEF AllocateRefused, TurnsLeft, SegIInv, Asking
    <2>2. call'.tmp = call.tmp + 1 /\ at' \in {"halted", "allocating", "copy"}
      BY <1>11 DEF AllocateRefused
    <2>3. TurnsLeft' \in {0, 1, MaxTries + 2 - (call.tmp + 1)}
      BY <2>2 DEF TurnsLeft
    <2>4. QED
      BY <1>1, <1>5, <2>1, <2>3
  <1>12. QED
    BY <1>6, <1>7, <1>8, <1>9, <1>10, <1>11 DEF LoadStep

(* Every step of LoadKernel and Allocate brings it nearer to its end: the  *)
(* next header, or one try less.  A callback between two steps changes     *)
(* nothing that this depends on.                                           *)
LoadNears ==
  [][IF LoadStep THEN LoadNearer ELSE UNCHANGED <<table, at, seg, call>>]_segVars

(* LoadKernel and the retries of Allocate come to an end, for every image  *)
(* and whatever the firmware answers.                                      *)
THEOREM LoadNearsEnd == SegSpec => LoadNears
  <1> DEFINE Nears == IF LoadStep THEN LoadNearer ELSE UNCHANGED <<table, at, seg, call>>
  <1>1. SegIInv /\ [SegNext]_segVars => [Nears]_segVars
    <2> SUFFICES ASSUME SegIInv, SegNext PROVE Nears
      OBVIOUS
    <2>1. CASE LoadStep
      BY <2>1, LoadStepNears
    <2>2. CASE ~LoadStep
      BY <2>2 DEF SegNext, FirmwareCallback, fileVars
    <2>3. QED
      BY <2>1, <2>2
  <1>2. QED
    BY <1>1, SegmentInvariant, PTL DEF SegSpec, LoadNears

-------------------------------------------------------------------------------
(* UefiMain.                                                               *)
MapTyped ==
  /\ map_key \in Nat
  /\ mmap \in [taken : BOOLEAN, pages : [Page -> {"free", "firmware", "loader"}],
               key : Nat]
  /\ mmap.key <= map_key
  /\ owner \in [Page -> {"free", "firmware", "loader"}]

MapFaithful == mmap.taken /\ mmap.key = map_key => mmap.pages = owner

NotTakenYet == stage \notin {"exit", "kernel", "stopped"} => ~mmap.taken

RootOpen ==
  stage \in {"info", "pool", "read", "load", "map", "exit", "kernel"} => root

KernelRead == stage \in {"load", "map", "exit", "kernel"} => "kernel" \in filled

KernelLoaded == stage \in {"map", "exit", "kernel"} => at = "loaded"

KernelExited == stage = "kernel" => exited /\ mmap.key = map_key

LoaderIInv ==
  /\ MapTyped
  /\ MapFaithful
  /\ NotTakenYet
  /\ RootOpen
  /\ KernelRead
  /\ KernelLoaded
  /\ KernelExited

-------------------------------------------------------------------------------
LEMMA LoaderInitIInv == LoaderInit => LoaderIInv
  <1> SUFFICES ASSUME LoaderInit PROVE LoaderIInv
    OBVIOUS
  <1>1. MapTyped
    BY DEF LoaderInit, SegInit, MapTyped, NoMap, NoKey
  <1>2. ~mmap.taken
    BY DEF LoaderInit, NoMap
  <1>3. QED
    BY <1>1, <1>2 DEF LoaderInit, LoaderIInv, MapFaithful, NotTakenYet, RootOpen,
                      KernelRead, KernelLoaded, KernelExited

(* A step leaves the pages alone or makes a new key, of a greater number.  *)
PagesStep ==
  \/ UNCHANGED pageVars
  \/ /\ map_key' = map_key + 1
     /\ owner' \in [Page -> {"free", "firmware", "loader"}]

LEMMA GiveIsPagesStep ==
  ASSUME MapTyped, NEW pages, NEW who \in {"free", "firmware", "loader"},
         GivePages(pages, who)
  PROVE  PagesStep
  BY DEF MapTyped, GivePages, PagesStep

LEMMA LoadIsPagesStep ==
  ASSUME MapTyped, LoadStep
  PROVE  PagesStep
  <1>1. CASE AllocateGranted
    BY <1>1, GiveIsPagesStep DEF AllocateGranted
  <1>2. CASE ~AllocateGranted
    BY <1>2 DEF LoadStep, SkipHeader, CallAllocatePages, AllocateRefused,
                CopySegment, LoadReturns, PagesStep
  <1>3. QED
    BY <1>1, <1>2

(* A step of the pages keeps a map faithful that was: a new key is above   *)
(* the map's, and with the old key no page has changed.                    *)
LEMMA PagesKeepMap ==
  ASSUME MapTyped, MapFaithful, PagesStep, UNCHANGED mmap
  PROVE  MapTyped' /\ MapFaithful'
  <1>1. CASE UNCHANGED pageVars
    BY <1>1 DEF pageVars, MapTyped, MapFaithful
  <1>2. CASE /\ map_key' = map_key + 1
             /\ owner' \in [Page -> {"free", "firmware", "loader"}]
    <2>1. MapTyped' /\ mmap'.key # map_key'
      BY <1>2 DEF MapTyped
    <2>2. QED
      BY <2>1 DEF MapFaithful
  <1>3. QED
    BY <1>1, <1>2 DEF PagesStep

LEMMA UefiIInv ==
  ASSUME LoaderIInv, UefiMain
  PROVE  LoaderIInv'
  <1> USE DEF LoaderIInv, NotTakenYet, RootOpen, KernelRead, KernelLoaded,
              KernelExited, Checked
  <1>1. ASSUME NEW st \in Status,
               LocateGop(st) \/ LocateSfsp(st) \/ OpenVolume(st) \/ OpenFile(st)
                 \/ GetFileInfo(st)
        PROVE  LoaderIInv'
    <2>1. UNCHANGED <<owner, map_key, mmap>>
      BY <1>1 DEF LocateGop, LocateSfsp, OpenVolume, OpenFile, GetFileInfo,
                  segVars, pageVars
    <2>2. MapTyped' /\ MapFaithful'
      BY <2>1 DEF MapTyped, MapFaithful
    <2>3. QED
      BY <1>1, <2>1, <2>2
      DEF LocateGop, LocateSfsp, OpenVolume, OpenFile, GetFileInfo
  <1>2. ASSUME NEW st \in Status, AllocatePool(st)
        PROVE  LoaderIInv'
    <2>1. PagesStep /\ UNCHANGED mmap
      BY <1>2, GiveIsPagesStep DEF AllocatePool, PagesStep
    <2>2. MapTyped' /\ MapFaithful'
      BY <2>1, PagesKeepMap
    <2>3. QED
      BY <1>2, <2>1, <2>2 DEF AllocatePool
  <1>3. ASSUME NEW st \in Status, ReadFile(st)
        PROVE  LoaderIInv'
    <2>1. UNCHANGED <<owner, map_key, mmap>> /\ root' = root
      BY <1>3 DEF ReadFile, segVars, pageVars
    <2>2. MapTyped' /\ MapFaithful'
      BY <2>1 DEF MapTyped, MapFaithful
    <2>3. stage' = "load" => "kernel" \in filled'
      BY <1>3 DEF ReadFile, AfterRead
    <2>4. stage' \in {"open", "load", "stopped"}
      BY <1>3 DEF ReadFile, AfterRead
    <2>5. root' /\ ~mmap'.taken
      BY <1>3, <2>1 DEF ReadFile
    <2>6. QED
      BY <2>2, <2>3, <2>4, <2>5
  <1>4. ASSUME NEW st \in Status, GetMemoryMap(st)
        PROVE  LoaderIInv'
    <2>1. UNCHANGED <<owner, map_key>> /\ ~mmap.taken
      BY <1>4 DEF GetMemoryMap, segVars, pageVars
    <2>2. MapTyped' /\ MapFaithful'
      <3>1. CASE mmap' = [taken |-> TRUE, pages |-> owner, key |-> map_key]
        BY <2>1, <3>1 DEF MapTyped, MapFaithful
      <3>2. ASSUME NEW k \in {NoKey, map_key}, mmap' = [mmap EXCEPT !.key = k]
            PROVE  MapTyped' /\ MapFaithful'
        <4>1. k \in Nat /\ k <= map_key
          BY DEF MapTyped, NoKey
        <4>2. mmap'.key = k /\ ~mmap'.taken
          BY <2>1, <3>2 DEF MapTyped
        <4>3. QED
          BY <2>1, <3>2, <4>1, <4>2 DEF MapTyped, MapFaithful
      <3>3. QED
        BY <1>4, <3>1, <3>2 DEF GetMemoryMap
    <2>3. QED
      BY <1>4, <2>2 DEF GetMemoryMap, segVars
  <1>5. CASE LoadKernel
    <2>1. PagesStep /\ UNCHANGED mmap
      BY <1>5, LoadIsPagesStep DEF LoadKernel
    <2>2. MapTyped' /\ MapFaithful'
      BY <2>1, PagesKeepMap
    <2>3. QED
      BY <1>5, <2>1, <2>2 DEF LoadKernel
  <1>6. CASE ExitBootServices
    <2>1. UNCHANGED <<owner, map_key, mmap>>
      BY <1>6 DEF ExitBootServices, segVars, pageVars
    <2>2. MapTyped' /\ MapFaithful'
      BY <2>1 DEF MapTyped, MapFaithful
    <2>3. QED
      BY <1>6, <2>1, <2>2 DEF ExitBootServices, ExitStatus, segVars
  <1>7. QED
    BY <1>1, <1>2, <1>3, <1>4, <1>5, <1>6 DEF UefiMain

LEMMA LoaderNextIInv == LoaderIInv /\ [LoaderNext]_loaderVars => LoaderIInv'
  <1> SUFFICES ASSUME LoaderIInv, [LoaderNext]_loaderVars PROVE LoaderIInv'
    OBVIOUS
  <1>1. CASE UefiMain
    BY <1>1, UefiIInv
  <1>2. CASE Callback
    <2>1. PagesStep /\ UNCHANGED <<mmap, uefiVars, at>>
      BY <1>2, GiveIsPagesStep
      DEF Callback, FirmwareCallback, uefiVars, LoaderIInv
    <2>2. MapTyped' /\ MapFaithful'
      BY <2>1, PagesKeepMap DEF LoaderIInv
    <2>3. QED
      BY <1>2, <2>1, <2>2
      DEF Callback, uefiVars, LoaderIInv, NotTakenYet, RootOpen, KernelRead,
          KernelLoaded, KernelExited
  <1>3. CASE UNCHANGED loaderVars
    BY <1>3
    DEF loaderVars, segVars, pageVars, uefiVars, LoaderIInv, MapTyped, MapFaithful,
        NotTakenYet, RootOpen, KernelRead, KernelLoaded, KernelExited
  <1>4. QED
    BY <1>1, <1>2, <1>3 DEF LoaderNext

(* The inductive invariant holds in every behaviour of the loader.         *)
THEOREM LoaderInvariant == LoaderSpec => []LoaderIInv
  BY LoaderInitIInv, LoaderNextIInv, PTL DEF LoaderSpec

-------------------------------------------------------------------------------
(* Whatever calls fail and whatever the firmware does meanwhile, the       *)
(* kernel is entered only after boot services are over, with its file read *)
(* and its headers gone through.                                           *)
THEOREM EntryPrepared == LoaderSpec => []KernelEntry
  <1>1. LoaderIInv => KernelEntry
    BY DEF LoaderIInv, RootOpen, KernelRead, KernelLoaded, KernelExited, KernelEntry
  <1>2. QED
    BY <1>1, LoaderInvariant, PTL

(* A memory map that could be taken is, when the kernel is entered, the    *)
(* map of the moment.                                                      *)
THEOREM MapIsTrue == LoaderSpec => []KernelSeesTrueMap
  <1>1. LoaderIInv => KernelSeesTrueMap
    BY DEF LoaderIInv, MapFaithful, KernelExited, KernelSeesTrueMap
  <1>2. QED
    BY <1>1, LoaderInvariant, PTL
-------------------------------------------------------------------------------
(* The invariant of the segments.  Until LoadKernel starts, the headers    *)
(* are the file's.                                                         *)
NotLoadedYet ==
  stage \in {"gop", "sfsp", "volume", "open", "info", "pool", "read"} => table = image

ImageIInv ==
  /\ LoaderTypeOK
  /\ NotLoadedYet
  /\ SegIInv

LEMMA ImageInitIInv == LoaderInit => ImageIInv
  <1> SUFFICES ASSUME LoaderInit PROVE ImageIInv
    OBVIOUS
  <1>1. SegIInv /\ NotLoadedYet
    BY SegInitIInv DEF LoaderInit, SegInit, NotLoadedYet
  <1>2. LoaderTypeOK
    BY <1>1 DEF LoaderInit, LoaderTypeOK, NoMap, NoKey, File, Status, SegIInv
  <1>3. QED
    BY <1>1, <1>2 DEF ImageIInv

(* A call of UefiMain that leaves the segments' variables alone.           *)
LEMMA CallKeepsImage ==
  ASSUME ImageIInv, UNCHANGED segVars
  PROVE  SegTypeOK' /\ SegIInv' /\ table' = table /\ image' = image
  BY StutterKeepsIInv DEF ImageIInv, SegIInv, segVars, fileVars

(* AllocatePool takes a page or none, before LoadKernel starts.            *)
LEMMA PoolKeepsImage ==
  ASSUME ImageIInv, NEW st \in Status, AllocatePool(st)
  PROVE  SegTypeOK' /\ SegIInv' /\ table' = table /\ image' = image
  <1>1. /\ UNCHANGED <<table, image, at, seg, call, gotVars, written>>
        /\ kernel_program' \in {"pool", "null"} /\ table = image /\ SegIInv
    BY DEF AllocatePool, ImageIInv, NotLoadedYet, SegIInv, SegTypeOK
  <1>2. CASE UNCHANGED pageVars
    <2>1. GotKept' /\ SegTypeOK' /\ ImageRead'
      BY <1>1, <1>2 DEF SegIInv, SegTypeOK, GotKept, ImageRead, pageVars, gotVars
    <2>2. AtSegment' /\ Asking' /\ WrittenSoFar' /\ HaltsOnlyForHugeSegment'
      BY <1>1 DEF SegIInv, AtSegment, PhNum, Asking, CountEnd, WrittenSoFar, Copied,
                  Bytes, HaltsOnlyForHugeSegment
    <2>3. TriesSound' /\ Kept'
      BY <1>1 DEF SegIInv, TriesSound, CountEnd, BlockedFrom, Kept, Through, Counted,
                  Settled, gotVars
    <2>4. QED
      BY <1>1, <2>1, <2>2, <2>3 DEF SegIInv
  <1>3. ASSUME NEW p \in Page, owner[p] = "free", GivePages({p}, "loader")
        PROVE  SegIInv'
    <2>1. {p} \in SUBSET Page /\ \A q \in {p} : owner[q] # "loader"
      BY <1>3
    <2>2. QED
      BY <1>1, <1>3, <2>1, GiftKeepsIInv
  <1>4. QED
    BY <1>1, <1>2, <1>3 DEF AllocatePool, SegIInv

LEMMA UefiKeepsImage ==
  ASSUME ImageIInv, UefiMain
  PROVE  ImageIInv'
  <1> DEFINE Segments == SegTypeOK' /\ SegIInv' /\ table' = table /\ image' = image
  <1>1. LoaderTypeOK /\ NotLoadedYet
    BY DEF ImageIInv
  <1>2. ASSUME NEW st \in Status,
               LocateGop(st) \/ LocateSfsp(st) \/ OpenVolume(st) \/ OpenFile(st)
                 \/ GetFileInfo(st)
        PROVE  ImageIInv'
    <2>1. Segments
      BY <1>2, CallKeepsImage
      DEF LocateGop, LocateSfsp, OpenVolume, OpenFile, GetFileInfo
    <2>2. LoaderTypeOK'
      BY <1>1, <1>2, <2>1
      DEF LocateGop, LocateSfsp, OpenVolume, OpenFile, GetFileInfo, Checked,
          LoaderTypeOK, Status
    <2>3. NotLoadedYet'
      BY <1>1, <1>2, <2>1
      DEF LocateGop, LocateSfsp, OpenVolume, OpenFile, GetFileInfo, NotLoadedYet
    <2>4. QED
      BY <2>1, <2>2, <2>3 DEF ImageIInv
  <1>3. ASSUME NEW st \in Status, AllocatePool(st)
        PROVE  ImageIInv'
    <2>1. Segments
      BY <1>3, PoolKeepsImage
    <2>2. LoaderTypeOK' /\ NotLoadedYet'
      BY <1>1, <1>3, <2>1 DEF AllocatePool, LoaderTypeOK, NotLoadedYet
    <2>3. QED
      BY <2>1, <2>2 DEF ImageIInv
  <1>4. ASSUME NEW st \in Status, ReadFile(st)
        PROVE  ImageIInv'
    <2>1. Segments
      BY <1>4, CallKeepsImage DEF ReadFile
    <2>2. file' \in File /\ filled' \subseteq File
      BY <1>1, <1>4 DEF ReadFile, LoaderTypeOK, File, NextFile
    <2>3. stage' \in {"open", "load", "stopped"}
      BY <1>4 DEF ReadFile, AfterRead
    <2>4. LoaderTypeOK'
      BY <1>1, <1>4, <2>1, <2>2, <2>3 DEF ReadFile, LoaderTypeOK
    <2>5. NotLoadedYet'
      BY <1>1, <1>4, <2>1 DEF ReadFile, NotLoadedYet
    <2>6. QED
      BY <2>1, <2>4, <2>5 DEF ImageIInv
  <1>5. CASE LoadKernel
    <2>1. SegIInv'
      BY <1>5, LoadStepKeepsIInv DEF LoadKernel, ImageIInv
    <2>2. LoaderTypeOK' /\ NotLoadedYet'
      BY <1>1, <1>5, <2>1 DEF LoadKernel, LoaderTypeOK, SegIInv, NotLoadedYet
    <2>3. QED
      BY <2>1, <2>2 DEF ImageIInv
  <1>6. ASSUME NEW st \in Status, GetMemoryMap(st)
        PROVE  ImageIInv'
    <2>1. Segments
      BY <1>6, CallKeepsImage DEF GetMemoryMap
    <2>2. mmap' \in [taken : BOOLEAN, pages : [Page -> {"free", "firmware", "loader"}],
                     key : Nat]
      <3>1. map_key \in Nat /\ owner \in [Page -> {"free", "firmware", "loader"}]
        BY <1>1 DEF LoaderTypeOK, SegTypeOK
      <3>2. CASE mmap' = [taken |-> TRUE, pages |-> owner, key |-> map_key]
        BY <3>1, <3>2
      <3>3. ASSUME NEW k \in {NoKey, map_key}, mmap' = [mmap EXCEPT !.key = k]
            PROVE  mmap' \in [taken : BOOLEAN,
                              pages : [Page -> {"free", "firmware", "loader"}],
                              key : Nat]
        BY <1>1, <3>1, <3>3 DEF LoaderTypeOK, NoKey
      <3>4. QED
        BY <1>6, <3>2, <3>3 DEF GetMemoryMap
    <2>3. LoaderTypeOK' /\ NotLoadedYet'
      BY <1>1, <1>6, <2>1, <2>2 DEF GetMemoryMap, LoaderTypeOK, NotLoadedYet
    <2>4. QED
      BY <2>1, <2>3 DEF ImageIInv
  <1>7. CASE ExitBootServices
    <2>1. Segments
      BY <1>7, CallKeepsImage DEF ExitBootServices
    <2>2. LoaderTypeOK' /\ NotLoadedYet'
      BY <1>1, <1>7, <2>1
      DEF ExitBootServices, ExitStatus, Checked, LoaderTypeOK, Status, NotLoadedYet
    <2>3. QED
      BY <2>1, <2>2 DEF ImageIInv
  <1>8. QED
    BY <1>2, <1>3, <1>4, <1>5, <1>6, <1>7 DEF UefiMain

LEMMA ImageNextIInv == ImageIInv /\ [LoaderNext]_loaderVars => ImageIInv'
  <1> SUFFICES ASSUME ImageIInv, [LoaderNext]_loaderVars PROVE ImageIInv'
    OBVIOUS
  <1>1. CASE UefiMain
    BY <1>1, UefiKeepsImage
  <1>2. CASE Callback
    <2>1. SegIInv' /\ UNCHANGED uefiVars /\ UNCHANGED fileVars
      BY <1>2, CallbackKeepsIInv DEF Callback, FirmwareCallback, ImageIInv
    <2>2. QED
      BY <2>1 DEF ImageIInv, LoaderTypeOK, SegIInv, uefiVars, fileVars, NotLoadedYet
  <1>3. CASE UNCHANGED loaderVars
    <2>1. SegTypeOK' /\ SegIInv' /\ table' = table /\ image' = image
      BY <1>3, CallKeepsImage DEF loaderVars
    <2>2. QED
      BY <1>3, <2>1 DEF ImageIInv, LoaderTypeOK, loaderVars, uefiVars, NotLoadedYet
  <1>4. QED
    BY <1>1, <1>2, <1>3 DEF LoaderNext

THEOREM ImageInvariant == LoaderSpec => []ImageIInv
  BY ImageInitIInv, ImageNextIInv, PTL DEF LoaderSpec

(* Every variable of the loader keeps its type, the 64-bit sizes of        *)
(* Allocate among them, and the loader is always at one of its calls.      *)
THEOREM LoaderTypeCorrect == LoaderSpec => []LoaderTypeOK
  <1>1. ImageIInv => LoaderTypeOK
    BY DEF ImageIInv
  <1>2. QED
    BY <1>1, ImageInvariant, PTL

(* The image in place is in the map of the moment, if it was taken.        *)
LEMMA LoadedImageKept == LoaderIInv /\ ImageIInv => ImageKept
  <1> SUFFICES ASSUME LoaderIInv, ImageIInv, stage = "kernel"
               PROVE  /\ GotKept /\ SegmentsOwned
                      /\ mmap.taken => \A g \in got : mmap.pages[g[2]] = "loader"
    BY DEF ImageKept
  <1>1. at = "loaded" /\ (mmap.taken => mmap.pages = owner)
    BY DEF LoaderIInv, KernelLoaded, KernelExited, MapFaithful
  <1>2. ImageOwned
    BY IInvOwned DEF ImageIInv
  <1>3. QED
    BY <1>1, <1>2 DEF ImageOwned, GotKept

(* At the jump to the kernel every page that Allocate obtained for its     *)
(* image is still the loader's, whatever was called or called back since,  *)
(* and the memory map says so if it could be taken.  A page of the image   *)
(* that was not obtained was given up because of a page that was not free  *)
(* when Allocate asked for it, or was not counted.                         *)
THEOREM KernelImageKept == LoaderSpec => []ImageKept
  BY LoadedImageKept, LoaderInvariant, ImageInvariant, PTL

-------------------------------------------------------------------------------
(* How far UefiMain is from its end: the calls ahead.                      *)
FilesLeft == IF file = "font" THEN 2 ELSE IF file = "bmp" THEN 1 ELSE 0

CallsLeft ==
  CASE stage = "gop" -> 18
    [] stage = "sfsp" -> 17
    [] stage = "volume" -> 16
    [] stage = "open" -> 4 * FilesLeft + 7
    [] stage = "info" -> 4 * FilesLeft + 6
    [] stage = "pool" -> 4 * FilesLeft + 5
    [] stage = "read" -> 4 * FilesLeft + 4
    [] stage = "load" -> 3
    [] stage = "map" -> 2
    [] stage = "exit" -> 1
    [] OTHER -> 0

UefiNearer == CallsLeft' < CallsLeft \/ (CallsLeft' = CallsLeft /\ LoadNearer)

LEMMA UefiStepNears ==
  ASSUME ImageIInv, UefiMain
  PROVE  UefiNearer
  <1>1. /\ file \in File /\ FilesLeft \in 0 .. 2
        /\ SegIInv
    BY DEF ImageIInv, LoaderTypeOK, FilesLeft
  <1> USE DEF UefiNearer, CallsLeft, Checked
  <1>2. ASSUME NEW st \in Status, LocateGop(st) PROVE UefiNearer
    BY <1>2 DEF LocateGop
  <1>3. ASSUME NEW st \in Status, LocateSfsp(st) PROVE UefiNearer
    BY <1>3 DEF LocateSfsp
  <1>4. ASSUME NEW st \in Status, OpenVolume(st) PROVE UefiNearer
    BY <1>1, <1>4 DEF OpenVolume, FilesLeft
  <1>5. ASSUME NEW st \in Status, OpenFile(st) PROVE UefiNearer
    BY <1>1, <1>5 DEF OpenFile, FilesLeft
  <1>6. ASSUME NEW st \in Status, GetFileInfo(st) PROVE UefiNearer
    BY <1>1, <1>6 DEF GetFileInfo, FilesLeft
  <1>7. ASSUME NEW st \in Status, AllocatePool(st) PROVE UefiNearer
    BY <1>1, <1>7 DEF AllocatePool, FilesLeft
  <1>8. ASSUME NEW st \in Status, ReadFile(st) PROVE UefiNearer
    BY <1>1, <1>8 DEF ReadFile, AfterRead, NextFile, FilesLeft, File
  <1>9. ASSUME NEW st \in Status, GetMemoryMap(st) PROVE UefiNearer
    BY <1>9 DEF GetMemoryMap
  <1>10. CASE ExitBootServices
    BY <1>10 DEF ExitBootServices
  <1>11. CASE LoadKernel
    <2>1. LoadNearer
      BY <1>1, <1>11, LoadStepNears DEF LoadKernel
    <2>2. QED
      BY <1>11, <2>1 DEF LoadKernel
  <1>12. QED
    BY <1>2, <1>3, <1>4, <1>5, <1>6, <1>7, <1>8, <1>9, <1>10, <1>11 DEF UefiMain

(* Every step of UefiMain, whatever call fails in it, brings it nearer to  *)
(* the kernel, a stop or a fault: at most eighteen calls, of which         *)
(* LoadKernel is one.                                                      *)
UefiNears ==
  [][IF UefiMain THEN UefiNearer
     ELSE UNCHANGED <<stage, file, table, at, seg, call>>]_loaderVars

(* UefiMain comes to an end, whatever its calls return and whatever        *)
(* callbacks come between them.                                            *)
THEOREM UefiNearsEnd == LoaderSpec => UefiNears
  <1> DEFINE Nears == IF UefiMain THEN UefiNearer
                      ELSE UNCHANGED <<stage, file, table, at, seg, call>>
  <1>1. ImageIInv /\ [LoaderNext]_loaderVars => [Nears]_loaderVars
    <2> SUFFICES ASSUME ImageIInv, LoaderNext PROVE Nears
      OBVIOUS
    <2>1. CASE UefiMain
      BY <2>1, UefiStepNears
    <2>2. CASE ~UefiMain
      BY <2>2 DEF LoaderNext, Callback, FirmwareCallback, uefiVars, fileVars
    <2>3. QED
      BY <2>1, <2>2
  <1>2. QED
    BY <1>1, ImageInvariant, PTL DEF LoaderSpec, UefiNears

-------------------------------------------------------------------------------
(* The loader and the kernel.                                              *)
KP == INSTANCE KernelMemoryProofs WITH
  FrameCount <- PageCount, MemoryMaps <- {<<>>}, mmap <- handed

-------------------------------------------------------------------------------
(* The constants are such as KernelMemory assumes.                         *)
LEMMA KernelConstants ==
  /\ PageCount \in Nat \ {0} /\ NullFrame \in Nat /\ MaxRequest \in Nat
  /\ GarbageMaps \subseteq SUBSET KP!Frame
  /\ {<<>>} \subseteq Seq(KP!Descriptor)
  /\ HeapFrames \in 1 .. MaxRequest /\ BytesPerFrame \in Nat \ {0}
  /\ MaxIncr \in Nat /\ Addresses \in Nat
  /\ PageCount * BytesPerFrame + MaxIncr <= Addresses
  /\ GarbageBreaks \subseteq 0 .. Addresses - 1
  <1>1. PageCount \in Nat \ {0} /\ GarbageMaps \subseteq SUBSET KP!Frame
    BY PageAssumption, BitmapAssumption DEF Page, KP!Frame
  <1>2. QED
    BY <1>1, FrameAssumption, HeapAssumption, BreakAssumption

(* The kernel that BootChain runs is the one that KernelMemoryProofs is    *)
(* about.                                                                  *)
LEMMA SameStart == Kernel!MainInit => KP!Started
  <1>1. <<>> \in Seq(KP!Descriptor)
    BY KernelConstants
  <1>2. GarbageBreaks \subseteq Nat
    BY KernelConstants
  <1>3. QED
    BY <1>1, <1>2
    DEF Kernel!MainInit, Kernel!Init, Kernel!NoScan, KP!Started, KP!Init, KP!NoScan

LEMMA SameStep ==
  ASSUME Kernel!MainNext
  PROVE  KP!MainNext /\ handed' = handed
  <1> USE DEF Kernel!walkVars, KP!walkVars, Kernel!heapVars, KP!heapVars,
              Kernel!vars, KP!vars
  <1>1. CASE Kernel!WalkDescriptor
    <2>1. KP!WalkDescriptor /\ handed' = handed
      BY <1>1
      DEF Kernel!WalkDescriptor, KP!WalkDescriptor, Kernel!Gap, KP!Gap, Kernel!Own, KP!Own,
          Kernel!IsAvailable, KP!IsAvailable, Kernel!End, KP!End, Kernel!SetBits,
          KP!SetBits, Kernel!Frame, KP!Frame
    <2>2. QED
      BY <2>1 DEF KP!MainNext, KP!KernelStep
  <1>2. CASE Kernel!FinishWalk
    <2>1. KP!FinishWalk /\ handed' = handed
      BY <1>2
      DEF Kernel!FinishWalk, KP!FinishWalk, Kernel!SetMemoryRange, KP!SetMemoryRange,
          Kernel!FirstFrame, KP!FirstFrame
    <2>2. QED
      BY <2>1 DEF KP!MainNext, KP!KernelStep
  <1>3. CASE Kernel!RequestHeap
    <2>1. KP!RequestHeap /\ handed' = handed
      BY <1>3
      DEF Kernel!RequestHeap, KP!RequestHeap, Kernel!CallAllocate, KP!CallAllocate
    <2>2. QED
      BY <2>1 DEF KP!MainNext, KP!KernelStep
  <1>4. CASE Kernel!SearchHeap
    <2>1. KP!SearchHeap /\ handed' = handed
      BY <1>4
      DEF Kernel!SearchHeap, KP!SearchHeap, Kernel!ScanStep, KP!ScanStep,
          Kernel!OutOfRange, KP!OutOfRange, Kernel!FrameTaken, KP!FrameTaken,
          Kernel!FrameClear, KP!FrameClear, Kernel!RunFound, KP!RunFound,
          Kernel!InLoop, KP!InLoop, Kernel!AtEnd, KP!AtEnd, Kernel!Candidate,
          KP!Candidate, Kernel!NextStart, KP!NextStart, Kernel!GetBit, KP!GetBit,
          Kernel!NoScan, KP!NoScan, Kernel!MarkRun, KP!MarkRun, Kernel!SetBits,
          KP!SetBits, Kernel!Run, KP!Run, Kernel!ReadsBit, KP!ReadsBit, Kernel!Frame,
          KP!Frame
    <2>2. QED
      BY <2>1 DEF KP!MainNext, KP!KernelStep
  <1>5. CASE Kernel!HeapReady
    <2>1. KP!HeapReady /\ handed' = handed
      BY <1>5 DEF Kernel!HeapReady, KP!HeapReady
    <2>2. QED
      BY <2>1 DEF KP!MainNext, KP!KernelStep
  <1>6. CASE Kernel!HeapFailed
    <2>1. KP!HeapFailed /\ handed' = handed
      BY <1>6 DEF Kernel!HeapFailed, KP!HeapFailed
    <2>2. QED
      BY <2>1 DEF KP!MainNext, KP!KernelStep
  <1>7. ASSUME NEW incr \in -MaxIncr .. MaxIncr, Kernel!Sbrk(incr)
        PROVE  KP!MainNext /\ handed' = handed
    <2>1. KP!Sbrk(incr) /\ handed' = handed
      BY <1>7
      DEF Kernel!Sbrk, KP!Sbrk, Kernel!NoRoom, KP!NoRoom, Kernel!Grant, KP!Grant,
          Kernel!Granted, KP!Granted, Kernel!Returned, KP!Returned, Kernel!SbrkError,
          KP!SbrkError
    <2>2. QED
      BY <2>1 DEF KP!MainNext
  <1>8. QED
    BY <1>1, <1>2, <1>3, <1>4, <1>5, <1>6, <1>7 DEF Kernel!MainNext, Kernel!KernelStep

(* The kernel's invariant, from the start and from step to step.           *)
LEMMA KernelStarts == KP!Started => KP!MainIInv
  BY KP!StartedIInv, KernelConstants

LEMMA KernelEnters == KP!Started' => KP!MainIInv'
  BY KernelStarts, PTL

LEMMA KernelSteps ==
  ASSUME KP!MainIInv, KP!MainNext \/ UNCHANGED KP!mainVars
  PROVE  KP!MainIInv'
  BY KP!MainNextIInv, KernelConstants

-------------------------------------------------------------------------------
(* A set of numbers that has an element has a smallest one: the intervals  *)
(* below its elements are finite sets, and have a minimal one.             *)
LEMMA SmallestElement ==
  ASSUME NEW X \in SUBSET Nat, X # {}
  PROVE  \E m \in X : \A k \in X : m <= k
  <1> DEFINE T == {0 .. m - 1 : m \in X}
  <1>1. T # {}
    OBVIOUS
  <1>2. T \subseteq FiniteSubsetsOf(Nat)
    <2>1. ASSUME NEW m \in X PROVE 0 .. m - 1 \in FiniteSubsetsOf(Nat)
      <3>1. IsFiniteSet(0 .. m - 1)
        BY FS_Interval
      <3>2. QED
        BY <3>1 DEF FiniteSubsetsOf
    <2>2. QED
      BY <2>1
  <1>3. PICK s \in T : \A t \in T : <<t, s>> \notin StrictSubsetOrdering(Nat)
    BY <1>1, <1>2, FS_StrictSubsetOrderingWellFounded, WFMin
  <1>4. PICK m \in X : s = 0 .. m - 1
    OBVIOUS
  <1>5. ASSUME NEW k \in X, k < m PROVE FALSE
    <2>1. 0 .. k - 1 \in T
      OBVIOUS
    <2>2. 0 .. k - 1 \subseteq s /\ k \in s /\ k \notin 0 .. k - 1
      BY <1>4, <1>5
    <2>3. <<0 .. k - 1, s>> \in StrictSubsetOrdering(Nat)
      BY <1>4, <2>2 DEF StrictSubsetOrdering
    <2>4. QED
      BY <1>3, <2>1, <2>3
  <1>6. QED
    BY <1>5

(* Every run of pages of one type has an end, and is of its type.          *)
LEMMA RunEndFacts ==
  ASSUME NEW type, NEW s \in Page
  PROVE  /\ RunEnd(type, s) \in s + 1 .. PageCount
         /\ \A p \in s .. RunEnd(type, s) - 1 : type[p] = type[s]
  <1> DEFINE Change == {e \in s + 1 .. PageCount : e = PageCount \/ type[e] # type[s]}
  <1>1. PageCount \in Nat /\ s \in Nat /\ s + 1 <= PageCount
    BY PageAssumption DEF Page
  <1>2. Change \in SUBSET Nat /\ PageCount \in Change
    BY <1>1
  <1>3. PICK e \in Change : \A k \in Change : e <= k
    BY <1>2, SmallestElement
  <1>4. ASSUME NEW p \in s .. e - 1 PROVE type[p] = type[s]
    <2>1. CASE p = s
      BY <2>1
    <2>2. CASE p # s
      <3>1. p \in s + 1 .. PageCount /\ p < e
        BY <1>1, <1>3, <2>2
      <3>2. p \notin Change
        BY <1>1, <1>3, <3>1
      <3>3. QED
        BY <3>1, <3>2
    <2>3. QED
      BY <2>1, <2>2
  <1>5. \E x \in s + 1 .. PageCount :
          /\ \A p \in s .. x - 1 : type[p] = type[s]
          /\ x = PageCount \/ type[x] # type[s]
    BY <1>3, <1>4
  <1>6. QED
    BY <1>5 DEF RunEnd

(* The kernel has not moved.                                               *)
Idle == KP!Started

(* An available page of the map is nobody's, or one that boot services     *)
(* have left.                                                              *)
HandedTrue ==
  \A k \in DOMAIN handed :
    KP!IsAvailable(handed[k].type) =>
      \A p \in KP!FramesOf(handed[k]) :
        /\ p \in Page /\ mmap.pages[p] # "loader"
        /\ mmap.pages[p] = "firmware" => handed[k].type = "kEfiBootServicesData"

(* A map that could be taken is handed over well formed and true.          *)
LEMMA HandedOver ==
  ASSUME LoaderTypeOK, EnterKernel, mmap.taken
  PROVE  handed' \in Seq(KP!Descriptor) /\ HandedTrue'
  <1>1. PICK type \in PageTypes(mmap.pages) :
          \E starts \in Orders(RunStarts(type)) : handed' = Descriptors(type, starts)
    BY DEF EnterKernel
  <1>2. PICK starts \in Orders(RunStarts(type)) : handed' = Descriptors(type, starts)
    BY <1>1
  <1>3. /\ type \in [Page -> {"kEfiConventionalMemory", "kEfiLoaderData",
                              "kEfiBootServicesData", "kEfiRuntimeServicesData", Absent}]
        /\ \A p \in Page :
             CASE mmap.pages[p] = "free" -> type[p] = "kEfiConventionalMemory"
               [] mmap.pages[p] = "loader" -> type[p] = "kEfiLoaderData"
               [] OTHER -> type[p] \notin {"kEfiConventionalMemory", "kEfiLoaderData"}
    BY DEF PageTypes
  <1>4. PICK n \in Nat : starts \in [1 .. n -> RunStarts(type)]
    <2>1. PageCount \in Nat /\ RunStarts(type) \subseteq 0 .. PageCount - 1
      BY PageAssumption DEF RunStarts, Page
    <2>2. IsFiniteSet(RunStarts(type))
      <3>1. 0 \in Int /\ PageCount - 1 \in Int
        BY <2>1
      <3>2. IsFiniteSet(0 .. PageCount - 1)
        BY <3>1, FS_Interval
      <3>3. QED
        BY <2>1, <3>2, FS_Subset
    <2>3. Cardinality(RunStarts(type)) \in Nat
      BY <2>2, FS_CardinalityType
    <2>4. starts \in [1 .. Cardinality(RunStarts(type)) -> RunStarts(type)]
      BY <1>2 DEF Orders
    <2>5. QED
      BY <2>3, <2>4
  <1>5. DOMAIN handed' = 1 .. n /\ mmap' = mmap
    BY <1>2, <1>4 DEF Descriptors, EnterKernel, loaderVars, uefiVars
  <1>6. ASSUME NEW k \in 1 .. n
        PROVE  /\ handed'[k] \in KP!Descriptor
               /\ \A p \in KP!FramesOf(handed'[k]) : p \in Page /\ type[p] = handed'[k].type
    <2>1. starts[k] \in Page /\ type[starts[k]] # Absent
      BY <1>4 DEF RunStarts
    <2>2. /\ handed'[k] = [type |-> type[starts[k]], start |-> starts[k],
                           pages |-> RunEnd(type, starts[k]) - starts[k]]
      BY <1>2, <1>4 DEF Descriptors
    <2>3. /\ RunEnd(type, starts[k]) \in starts[k] + 1 .. PageCount
          /\ \A p \in starts[k] .. RunEnd(type, starts[k]) - 1 : type[p] = type[starts[k]]
      BY <2>1, RunEndFacts
    <2>4. PageCount \in Nat /\ starts[k] \in 0 .. PageCount - 1
      BY <2>1, PageAssumption DEF Page
    <2>5. type[starts[k]] \in KP!MemoryType
      BY <1>3, <2>1 DEF KP!MemoryType, Absent
    <2>6. handed'[k] \in KP!Descriptor
      BY <2>2, <2>3, <2>4, <2>5 DEF KP!Descriptor
    <2>7. KP!FramesOf(handed'[k]) = starts[k] .. RunEnd(type, starts[k]) - 1
      BY <2>2, <2>3, <2>4 DEF KP!FramesOf, KP!End
    <2>8. QED
      BY <2>2, <2>3, <2>4, <2>6, <2>7 DEF Page
  <1>7. handed' \in Seq(KP!Descriptor)
    <2>1. handed' = [k \in 1 .. n |-> handed'[k]]
      BY <1>2, <1>4 DEF Descriptors
    <2>2. QED
      BY <1>6, <2>1
  <1>8. ASSUME NEW k \in 1 .. n, KP!IsAvailable(handed'[k].type),
               NEW p \in KP!FramesOf(handed'[k])
        PROVE  /\ p \in Page /\ mmap.pages[p] # "loader"
               /\ mmap.pages[p] = "firmware" => handed'[k].type = "kEfiBootServicesData"
    <2>1. p \in Page /\ type[p] = handed'[k].type
      BY <1>6
    <2>2. type[p] \in {"kEfiBootServicesData", "kEfiConventionalMemory"}
      BY <1>3, <1>8, <2>1 DEF KP!IsAvailable, Absent
    <2>3. QED
      BY <1>3, <2>1, <2>2
  <1>9. HandedTrue'
    BY <1>5, <1>8 DEF HandedTrue, KP!IsAvailable, KP!FramesOf, KP!End
  <1>10. QED
    BY <1>7, <1>9

-------------------------------------------------------------------------------
(* A buffer that was never written holds descriptors all the same.         *)
LEMMA HandedStale ==
  ASSUME EnterKernel, ~mmap.taken
  PROVE  handed' \in Seq(KP!Descriptor)
  BY StaleAssumption
  DEF EnterKernel, Kernel!Descriptor, KP!Descriptor, Kernel!MemoryType, KP!MemoryType

(* Both programs' invariants, and where the two stand to each other.       *)
ChainIInv ==
  /\ LoaderIInv
  /\ ImageIInv
  /\ KP!MainIInv
  /\ entered \in BOOLEAN
  /\ ~entered => Idle
  /\ entered => stage = "kernel" /\ (mmap.taken => HandedTrue)

(* The loader does nothing once it has jumped to the kernel.               *)
LEMMA LoaderOver ==
  ASSUME LoaderNext
  PROVE  stage # "kernel"
  BY DEF LoaderNext, UefiMain, LocateGop, LocateSfsp, OpenVolume, OpenFile, GetFileInfo,
         AllocatePool, ReadFile, GetMemoryMap, LoadKernel, ExitBootServices, Callback

(* The kernel's variables do not change.                                   *)
LEMMA KernelRests ==
  ASSUME UNCHANGED <<handed, kernelVars>>
  PROVE  UNCHANGED KP!mainVars /\ (Idle => Idle')
  BY DEF kernelVars, KP!mainVars, KP!vars, KP!walkVars, KP!heapVars, Idle, KP!Started,
         KP!Init

LEMMA ChainInitIInv == ChainInit => ChainIInv
  <1> SUFFICES ASSUME ChainInit PROVE ChainIInv
    OBVIOUS
  <1>1. LoaderIInv /\ ImageIInv
    BY LoaderInitIInv, ImageInitIInv DEF ChainInit
  <1>2. KP!Started /\ KP!MainIInv
    BY SameStart, KernelStarts DEF ChainInit
  <1>3. QED
    BY <1>1, <1>2 DEF ChainInit, ChainIInv, Idle

LEMMA ChainNextIInv == ChainIInv /\ [ChainNext]_chainVars => ChainIInv'
  <1> SUFFICES ASSUME ChainIInv, [ChainNext]_chainVars PROVE ChainIInv'
    OBVIOUS
  <1>1. CASE LoaderStep(LoaderNext)
    <2>1. LoaderNext /\ UNCHANGED <<entered, handed, kernelVars>>
      BY <1>1 DEF LoaderStep
    <2>2. LoaderIInv' /\ ImageIInv'
      BY <2>1, LoaderNextIInv, ImageNextIInv DEF ChainIInv
    <2>3. KP!MainIInv'
      BY <2>1, KernelRests, KernelSteps DEF ChainIInv
    <2>4. ~entered /\ ~entered' /\ Idle'
      BY <2>1, LoaderOver, KernelRests DEF ChainIInv
    <2>5. QED
      BY <2>1, <2>2, <2>3, <2>4 DEF ChainIInv
  <1>2. CASE EnterKernel
    <2>1. /\ stage = "kernel" /\ ~entered /\ entered'
          /\ UNCHANGED <<loaderVars, kernelVars>>
      BY <1>2 DEF EnterKernel
    <2>2. LoaderIInv' /\ ImageIInv'
      BY <2>1, LoaderNextIInv, ImageNextIInv DEF ChainIInv
    <2>3. handed' \in Seq(KP!Descriptor) /\ (mmap.taken => HandedTrue')
      BY <1>2, HandedOver, HandedStale DEF ChainIInv, ImageIInv
    <2>4. KP!Started'
      BY <2>1, <2>3 DEF ChainIInv, Idle, KP!Started, KP!Init, kernelVars
    <2>5. KP!MainIInv'
      BY <2>4, KernelEnters
    <2>6. entered' = TRUE /\ stage' = stage /\ mmap' = mmap
      BY <1>2 DEF EnterKernel, loaderVars, uefiVars
    <2>7. QED
      BY <2>1, <2>2, <2>3, <2>5, <2>6 DEF ChainIInv
  <1>3. CASE entered /\ Kernel!MainNext /\ UNCHANGED <<loaderVars, entered>>
    <2>1. KP!MainNext /\ handed' = handed
      BY <1>3, SameStep
    <2>2. LoaderIInv' /\ ImageIInv'
      BY <1>3, LoaderNextIInv, ImageNextIInv DEF ChainIInv
    <2>3. KP!MainIInv'
      BY <2>1, KernelSteps DEF ChainIInv
    <2>4. entered' = entered /\ stage' = stage /\ mmap' = mmap
      BY <1>3 DEF loaderVars, uefiVars
    <2>5. mmap.taken => HandedTrue'
      BY <1>3, <2>1, <2>4
      DEF ChainIInv, HandedTrue, KP!IsAvailable, KP!FramesOf, KP!End
    <2>6. QED
      BY <1>3, <2>2, <2>3, <2>4, <2>5 DEF ChainIInv
  <1>4. CASE UNCHANGED chainVars
    <2>1. UNCHANGED <<loaderVars, entered, handed, kernelVars>>
      BY <1>4 DEF chainVars
    <2>2. LoaderIInv' /\ ImageIInv'
      BY <2>1, LoaderNextIInv, ImageNextIInv DEF ChainIInv
    <2>3. KP!MainIInv'
      BY <2>1, KernelRests, KernelSteps DEF ChainIInv
    <2>4. stage' = stage /\ mmap' = mmap
      BY <2>1 DEF loaderVars, uefiVars
    <2>5. HandedTrue => HandedTrue'
      BY <2>1, <2>4 DEF HandedTrue, KP!IsAvailable, KP!FramesOf, KP!End
    <2>6. QED
      BY <2>1, <2>2, <2>3, <2>4, <2>5, KernelRests DEF ChainIInv
  <1>5. QED
    BY <1>1, <1>2, <1>3, <1>4 DEF ChainNext

(* The inductive invariant holds from power-on to the running kernel.      *)
THEOREM ChainInvariant == ChainSpec => []ChainIInv
  BY ChainInitIInv, ChainNextIInv, PTL DEF ChainSpec

-------------------------------------------------------------------------------
(* A frame of available memory, by the map that the kernel was handed, is  *)
(* not the loader's; if it is the firmware's, boot services have left it.  *)
LEMMA AvailableIsUnused ==
  ASSUME ChainIInv, entered, mmap.taken, NEW p \in KP!AvailableFrames
  PROVE  /\ p \in Page /\ mmap.pages[p] # "loader" /\ owner[p] # "loader"
         /\ owner[p] = "firmware" =>
              \E k \in DOMAIN handed :
                handed[k].type = "kEfiBootServicesData" /\ p \in Kernel!FramesOf(handed[k])
  <1>1. PICK k \in DOMAIN handed :
          KP!IsAvailable(handed[k].type) /\ p \in KP!FramesOf(handed[k])
    BY DEF KP!AvailableFrames
  <1>2. mmap.pages = owner
    BY DEF ChainIInv, LoaderIInv, KernelExited, MapFaithful
  <1>3. QED
    BY <1>1, <1>2
    DEF ChainIInv, HandedTrue, KP!FramesOf, KP!End, Kernel!FramesOf, Kernel!End

LEMMA EnteredWhenBooted ==
  ASSUME ChainIInv, Kernel!Booted
  PROVE  entered /\ KP!Booted
  BY DEF ChainIInv, Idle, KP!Started, Kernel!Booted, KP!Booted

(* Once the kernel manages memory by a map that could be taken, it cannot  *)
(* allocate a page that the loader obtained for the kernel's image: for    *)
(* every such map in every order, whatever the walk skipped and whatever   *)
(* alloc_map_ held.  A page of the image that it can allocate was given up *)
(* because of one that was not free when asked for, or was not counted.    *)
THEOREM ImageSafeFromAllocator == ChainSpec => []ImageNeverAllocatable
  <1>1. ASSUME ChainIInv, Kernel!Booted, mmap.taken, NEW p \in Kernel!Allocatable
        PROVE  p \in Page /\ mmap.pages[p] # "loader"
    <2>1. entered /\ KP!Booted
      BY <1>1, EnteredWhenBooted
    <2>2. p \in KP!Allocatable
      BY <1>1 DEF Kernel!Allocatable, KP!Allocatable
    <2>3. KP!OnlyAvailableAllocatable
      BY <1>1, KP!AllocatableAvailable, KernelConstants DEF ChainIInv
    <2>4. p \in KP!AvailableFrames
      BY <2>1, <2>2, <2>3 DEF KP!OnlyAvailableAllocatable
    <2>5. QED
      BY <1>1, <2>1, <2>4, AvailableIsUnused
  <1>2. ChainIInv => ImageNeverAllocatable
    <2> SUFFICES ASSUME ChainIInv, Kernel!Booted, mmap.taken
                 PROVE  /\ \A g \in got : g[2] \notin Kernel!Allocatable
                        /\ \A k \in 1 .. PhNum :
                             table[k].load =>
                               \A p \in Touched(table[k].vaddr, table[k].memsz)
                                         \cap Kernel!Allocatable :
                                 BlockedFrom(k, p) \/ p >= CountEnd(table[k])
      BY DEF ImageNeverAllocatable
    <2>1. ImageKept /\ stage = "kernel"
      BY EnteredWhenBooted, LoadedImageKept DEF ChainIInv
    <2>2. \A g \in got : g[2] \notin Kernel!Allocatable
      BY <1>1, <2>1 DEF ImageKept
    <2>3. ASSUME NEW k \in 1 .. PhNum, table[k].load,
                 NEW p \in Touched(table[k].vaddr, table[k].memsz) \cap Kernel!Allocatable
          PROVE  BlockedFrom(k, p) \/ p >= CountEnd(table[k])
      <3>1. <<k, p>> \notin got
        BY <2>2, <2>3
      <3>2. QED
        BY <2>1, <2>3, <3>1 DEF ImageKept, SegmentsOwned
    <2>4. QED
      BY <2>2, <2>3
  <1>3. QED
    BY <1>2, ChainInvariant, PTL

(* By a map that could be taken the C heap lies on no page of the loader,  *)
(* and on a page of the firmware only when it is boot services memory.     *)
THEOREM HeapSafe == ChainSpec => []HeapOnUnusedMemory
  <1>1. ChainIInv => HeapOnUnusedMemory
    <2> SUFFICES ASSUME ChainIInv, phase = "running", mmap.taken, NEW p \in Kernel!HeapRun
                 PROVE  /\ owner[p] # "loader"
                        /\ owner[p] = "firmware" =>
                             \E k \in DOMAIN handed :
                               /\ handed[k].type = "kEfiBootServicesData"
                               /\ p \in Kernel!FramesOf(handed[k])
      BY DEF HeapOnUnusedMemory
    <2>1. entered
      BY EnteredWhenBooted DEF Kernel!Booted
    <2>2. p \in KP!HeapRun
      BY DEF Kernel!HeapRun, KP!HeapRun
    <2>3. KP!HeapInAvailableMemory
      BY KP!HeapRunAvailable, KernelConstants DEF ChainIInv
    <2>4. p \in KP!AvailableFrames
      BY <2>2, <2>3 DEF KP!HeapInAvailableMemory
    <2>5. QED
      BY <2>1, <2>4, AvailableIsUnused
  <1>2. QED
    BY <1>1, ChainInvariant, PTL
===============================================================================
