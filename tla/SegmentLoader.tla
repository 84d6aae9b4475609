----------------------------- MODULE SegmentLoader -----------------------------
(***************************************************************************)
(* How the boot loader puts the kernel image in place: LoadKernel and      *)
(* Allocate of boot/MosaLoader.c.  LoadKernel goes through the program     *)
(* headers; for each PT_LOAD segment, Allocate asks the firmware for the   *)
(* segment's pages and, while it is refused, gives up one page at the      *)
(* front and asks for the rest; the file's bytes are then copied to the    *)
(* segment's address, whatever Allocate obtained.  A copy onto a page that *)
(* it did not obtain may hit the buffer with the file, and so the program  *)
(* headers that LoadKernel has still to read.                              *)
(*                                                                         *)
(* Addresses and sizes are in bytes, sizes are 64-bit and wrap.  Pages are *)
(* the firmware's; a page belongs to the firmware, to the loader           *)
(* (EfiLoaderData) or to nobody.  The firmware grants pages at an address  *)
(* exactly when all of them are free, and refuses a request for none; its  *)
(* timer callbacks may take and return pages between any two steps.        *)
(***************************************************************************)
EXTENDS Integers, Sequences

CONSTANTS
  PageCount,    \* the pages of memory
  PageBytes,    \* 0x1000
  Word,         \* the number of values of a UINT64
  SizeLimit,    \* 0xffffffffffff0000, where the loop of Allocate gives up
  MaxTries,     \* 10000, where Allocate stops the machine
  MaxKey,       \* bound: map_key above which firmware callbacks take no page
  PhNumRange,   \* the number of values of ph_num, a uint8_t
  Tables,       \* the program header tables of the kernel images considered
  Headers       \* what an overwritten header may read as

Page == 0 .. PageCount - 1

Header == [load : BOOLEAN, vaddr : Nat, memsz : 0 .. Word - 1, filesz : 0 .. Word - 1]

ASSUME PageAssumption  == PageCount \in Nat /\ PageBytes \in Nat \ {0}
(* In the code 2^16 sizes lie above the limit and a page has 2^12 bytes;   *)
(* no processor's memory reaches up to the limit.                          *)
ASSUME WordAssumption  ==
  /\ Word \in Nat /\ SizeLimit \in 1 .. Word - 1
  /\ SizeLimit + 2 * PageBytes <= Word
  /\ PageCount * PageBytes <= SizeLimit
ASSUME TriesAssumption == MaxTries \in Nat \ {0} /\ PhNumRange \in Nat \ {0}
ASSUME KeyAssumption   == MaxKey \in Nat
ASSUME TableAssumption == Tables \subseteq Seq(Header) /\ Headers \subseteq Header

VARIABLES
  owner,   \* who owns each page
  map_key, \* the firmware's memory map key, new with every change of owner
  kernel_program,  \* where the kernel's file lies: in pool memory, or at NULL
  table,   \* its program headers, as they are in memory now
  at,      \* where the loader is
  seg,     \* the header LoadKernel is at, i + 1
  call,    \* the locals of a running Allocate
  image,   \* history: the headers as the file has them
  got,     \* history: <<k, p>>, Allocate obtained page p for header k
  blocked, \* history: <<k, p>>, p was not free when it was asked for for k
  written  \* history: the pages CopyMem has written

pageVars == <<owner, map_key>>
fileVars == <<kernel_program, table, image>>
gotVars == <<got, blocked>>
segVars == <<pageVars, fileVars, at, seg, call, gotVars, written>>

NoCall == [ret |-> 0, size |-> 0, num_pages |-> 0, tmp |-> 0]

SegInit ==
  /\ owner \in [Page -> {"free", "firmware"}]
  /\ map_key = 1
  /\ kernel_program \in {"pool", "null"}
  /\ table \in Tables /\ image = table
  /\ at = "header"
  /\ seg = 1
  /\ call = NoCall
  /\ got = {} /\ blocked = {}
  /\ written = {}

-------------------------------------------------------------------------------
PageOf(addr) == addr \div PageBytes

PagesFor(size) == ((size + PageBytes - 1) % Word) \div PageBytes

(* The pages that hold the n bytes at addr.                                *)
Touched(addr, n) == IF n = 0 THEN {} ELSE PageOf(addr) .. PageOf(addr + n - 1)

(* ph_num is eight bits wide.                                              *)
PhNum == Len(table) % PhNumRange

(* Mutants of the loop's advance: two headers at a time, or none.          *)
AdvanceTwice == seg' = seg + 2
AdvanceNot == seg' = seg

Advance == seg' = seg + 1

SkipHeader ==
  /\ at = "header" /\ seg <= PhNum /\ ~table[seg].load
  /\ Advance
  /\ UNCHANGED <<pageVars, fileVars, at, call, gotVars, written>>

CallAllocatePages ==
  /\ at = "header" /\ seg <= PhNum /\ table[seg].load
  /\ LET h == table[seg]
     IN  call' = [ret |-> h.vaddr, size |-> h.memsz,
                  num_pages |-> PagesFor(h.memsz), tmp |-> 0]
  /\ at' = "allocating"
  /\ UNCHANGED <<pageVars, fileVars, seg, gotVars, written>>

(* The firmware gives pages to an owner.                                   *)
GivePages(pages, who) ==
  /\ owner' = [p \in Page |-> IF p \in pages THEN who ELSE owner[p]]
  /\ map_key' = map_key + 1

FirmwareCallback ==
  /\ map_key < MaxKey
  /\ \E p \in Page :
       \/ owner[p] = "free" /\ GivePages({p}, "firmware")
       \/ owner[p] = "firmware" /\ GivePages({p}, "free")
  /\ UNCHANGED <<fileVars, at, seg, call, gotVars, written>>

(* One turn of the loop of Allocate.                                       *)
Wanted == PageOf(call.ret) .. PageOf(call.ret) + call.num_pages - 1

InTheWay == {p \in Wanted : p \notin Page \/ owner[p] # "free"}

Granted == Wanted # {} /\ InTheWay = {}

ForSegment(pages) == {seg} \X pages

AllocateGranted ==
  /\ at = "allocating" /\ Granted
  /\ GivePages(Wanted, "loader")
  /\ got' = got \cup ForSegment(Wanted)
  /\ call' = [call EXCEPT !.ret = PageOf(call.ret) * PageBytes, !.tmp = call.tmp + 1]
  /\ at' = "copy"
  /\ UNCHANGED <<fileVars, seg, blocked, written>>

(* Mutants: a size that does not wrap, a size that does not shrink, an     *)
(* address that stays or that skips a page.                                *)
SmallerSigned(size) == size - PageBytes
SmallerNot(size) == size
NextRetStays(ret) == PageOf(ret) * PageBytes
NextRetFar(ret) == (PageOf(ret) + 2) * PageBytes

Smaller(size) == (size - PageBytes) % Word

NextRet(ret) == (PageOf(ret) + 1) * PageBytes

AllocateRefused ==
  /\ at = "allocating" /\ ~Granted
  /\ LET size == Smaller(call.size)
     IN  /\ call' = [ret |-> NextRet(call.ret), size |-> size,
                     num_pages |-> PagesFor(size), tmp |-> call.tmp + 1]
         /\ at' = CASE call.tmp + 1 = MaxTries -> "halted"
                    [] call.tmp + 1 # MaxTries /\ size < SizeLimit -> "allocating"
                    [] OTHER -> "copy"
  /\ blocked' = blocked \cup ForSegment(InTheWay)
  /\ UNCHANGED <<pageVars, fileVars, seg, got, written>>

(* What Allocate returned is not looked at.  A page it obtained was free,  *)
(* so no pool buffer lies there; a file read to address 0 may lie anywhere.*)
(* Firmware that is overwritten is taken to go on as before.               *)
Bytes(h) == Touched(h.vaddr, h.filesz)

Obtained == {p \in Page : \E k \in 1 .. seg : <<k, p>> \in got}

SparesFile(h) == kernel_program = "pool" /\ Bytes(h) \subseteq Obtained

Overwritten ==
  \E rest \in [seg + 1 .. Len(table) -> Headers] :
    table' = [k \in DOMAIN table |-> IF k <= seg THEN table[k] ELSE rest[k]]

CopySegment ==
  /\ at = "copy"
  /\ written' = written \cup Bytes(table[seg])
  /\ \/ UNCHANGED table
     \/ ~SparesFile(table[seg]) /\ Overwritten
  /\ Advance
  /\ at' = "header"
  /\ call' = NoCall
  /\ UNCHANGED <<pageVars, kernel_program, image, gotVars>>

LoadReturns ==
  /\ at = "header" /\ seg > PhNum
  /\ at' = "loaded"
  /\ UNCHANGED <<pageVars, fileVars, seg, call, gotVars, written>>

LoadStep ==
  \/ SkipHeader
  \/ CallAllocatePages
  \/ AllocateGranted
  \/ AllocateRefused
  \/ CopySegment
  \/ LoadReturns

SegNext == LoadStep \/ FirmwareCallback

SegSpec == SegInit /\ [][SegNext]_segVars

(* The loader is one flow of control, and the firmware's callbacks return  *)
(* to it.                                                                  *)
SegFairSpec == SegSpec /\ WF_segVars(LoadStep)

-------------------------------------------------------------------------------
(* Type invariant.                                                         *)
SegTypeOK ==
  /\ owner \in [Page -> {"free", "firmware", "loader"}]
  /\ map_key \in Nat
  /\ kernel_program \in {"pool", "null"}
  /\ table \in Seq(Header) /\ image \in Seq(Header)
  /\ at \in {"header", "allocating", "copy", "loaded", "halted"}
  /\ seg \in Nat \ {0}
  /\ call \in [ret : Nat, size : 0 .. Word - 1, num_pages : Nat, tmp : 0 .. MaxTries]
  /\ got \subseteq Nat \X Page /\ blocked \subseteq Nat \X Nat
  /\ written \subseteq Nat

(* The pages Allocate counts for a segment start at the segment's page but *)
(* number what its size alone calls for; an unaligned segment may reach    *)
(* one page further.                                                       *)
CountEnd(h) == PageOf(h.vaddr) + PagesFor(h.memsz)

(* Page p of segment k lay in a request for k that was refused because of  *)
(* a page from p on that was not free at that moment.                      *)
BlockedFrom(k, p) == \E q \in p .. CountEnd(table[k]) - 1 : <<k, q>> \in blocked

(* Asking for less never moves the end of the request, and every start the *)
(* loop has given up was hopeless: some page from there to the end was not *)
(* free when the loop asked.                                               *)
TriesSound ==
  at = "allocating" =>
    LET h == table[seg]
    IN  /\ call.num_pages > 0 => PageOf(call.ret) + call.num_pages = CountEnd(h)
        /\ \A s \in PageOf(h.vaddr) .. PageOf(call.ret) - 1 : BlockedFrom(seg, s)

(* Every page that Allocate obtained stays the loader's, whatever else is  *)
(* asked for or taken.  Once the image is loaded, each page of a segment   *)
(* was obtained, with two exceptions.  One is a page given up because it,  *)
(* or a page behind it, was not free when asked for.  The other is a page  *)
(* that Allocate does not count: its size computation forgets the          *)
(* segment's offset in its first page.                                     *)
GotKept == \A g \in got : owner[g[2]] = "loader"

SegmentsOwned ==
  \A k \in 1 .. PhNum :
    table[k].load =>
      \A p \in Touched(table[k].vaddr, table[k].memsz) :
        <<k, p>> \in got \/ BlockedFrom(k, p) \/ p >= CountEnd(table[k])

ImageOwned == GotKept /\ (at = "loaded" => SegmentsOwned)

(* The bytes of every segment of the file are copied, unless the table has *)
(* more headers than ph_num can count, or a header may have been           *)
(* overwritten: by a segment copied onto a page that Allocate had not      *)
(* obtained, or because the file had been read to address 0.               *)
LandsAstray(k) ==
  image[k].load /\ \E p \in Bytes(image[k]) : \A j \in 1 .. k : <<j, p>> \notin got

ImageCopied ==
  at = "loaded" /\ Len(image) < PhNumRange =>
    \/ written = UNION {Bytes(image[k]) : k \in {j \in DOMAIN image : image[j].load}}
    \/ kernel_program = "null"
    \/ \E k \in 1 .. Len(image) - 1 : LandsAstray(k)

(* The machine stops for a failed allocation only over a segment of about  *)
(* as many pages as Allocate makes tries.                                  *)
HaltsOnlyForHugeSegment ==
  at = "halted" => PagesFor(table[seg].memsz) + 1 >= MaxTries

(* LoadKernel returns or stops the machine: the size that Allocate counts  *)
(* down passes zero and its wrapped value ends the loop.                   *)
LoadEnds == <>(at \in {"loaded", "halted"})
===============================================================================
