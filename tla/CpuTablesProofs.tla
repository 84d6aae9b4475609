---------------------------- MODULE CpuTablesProofs ----------------------------
(***************************************************************************)
(* Proofs about CpuTables and the page tables it carries along, for every  *)
(* width of the pieces, every selector the firmware may use, every address *)
(* of the handlers and every number of page table entries: the page tables *)
(* in use map each address to itself, and the tables implement KernelBoot. *)
(*                                                                         *)
(* IdentityMap says nothing until CR3 is loaded.  What carries it there is *)
(* Filled: behind the counters of the two loops every entry is the one it  *)
(* has to be, whatever the table held before.  In the same way             *)
(* GdtWritten and GatesWritten say what lies in the GDT and in the IDT     *)
(* behind each step: the refinement needs it where the processor reads     *)
(* them, when SetCSSS loads selectors and when an exception strikes.       *)
(***************************************************************************)
EXTENDS CpuTables, TLAPS

Table(at) == [addr |-> at, flags |-> kTable]
LargePage(d, e) == [addr |-> Page(d, e), flags |-> kLargePage]

(* Directory d is hung up in pdp_table, its first n pages are right.       *)
HasPages(d, n) ==
  /\ pdp_table[d] = Table(DirectoryAt(d))
  /\ \A e \in Index : e < n => page_directory[d][e] = LargePage(d, e)

Filled ==
  /\ pc = "start" => i_pdpt = 0
  /\ pc # "start" => pml4_table[0] = Table(PdpAt)
  /\ \A d \in Directories : d < i_pdpt => HasPages(d, Entries)
  /\ pc = "page" => i_pdpt \in Directories /\ HasPages(i_pdpt, i_pd)

LoadedLast == cr3 = "kernel" => pc = "done" /\ i_pdpt >= kPageDirectoryCount

PageInv == PageTypeOK /\ Filled /\ LoadedLast

-------------------------------------------------------------------------------
(* Addresses of pages are natural numbers.                                 *)
LEMMA PageNat ==
  ASSUME NEW d \in Directories, NEW e \in Index
  PROVE  Page(d, e) \in Nat
  <1>1. ASSUME NEW a \in Nat, NEW b \in Nat PROVE a * b \in Nat
    BY <1>1
  <1>2. Entries \in Nat /\ d \in Nat /\ e \in Nat
    BY TableAssumption DEF Directories, Index
  <1>3. kPageSize2M \in Nat /\ kPageSize1G \in Nat
    BY <1>1, <1>2 DEF kPageSize2M, kPageSize1G
  <1>4. d * kPageSize1G \in Nat /\ e * kPageSize2M \in Nat
    BY <1>1, <1>2, <1>3
  <1>5. QED
    BY <1>4 DEF Page

(* The entries the code writes have their type.                            *)
LEMMA EntryTyped ==
  /\ Table(PdpAt) \in EntryType
  /\ \A d \in Directories : Table(DirectoryAt(d)) \in EntryType
  /\ \A d \in Directories, e \in Index : LargePage(d, e) \in EntryType
  BY PageNat DEF Table, LargePage, EntryType, PdpAt, DirectoryAt, Directories

(* The page directories lie inside the array that holds them.              *)
LEMMA DirectoriesFit ==
  /\ Directories \subseteq Index /\ 0 \in Index
  /\ Entries \in Nat /\ kPageDirectoryCount \in Nat
  BY TableAssumption DEF Directories, Index

(* The tables are Garbage and the loops have not begun.                    *)
LEMMA InitPageInv == PageInit => PageInv
  <1> SUFFICES ASSUME PageInit PROVE PageInv
    OBVIOUS
  <1>1. PageTypeOK
    BY DirectoriesFit DEF PageInit, PageTypeOK, EntryType
  <1>2. Filled /\ LoadedLast
    BY DirectoriesFit DEF PageInit, Filled, LoadedLast, Directories
  <1>3. QED
    BY <1>1, <1>2 DEF PageInv

(* The one entry of the top table is written; the loops begin.             *)
LEMMA SetPml4Inv == PageInv /\ SetPml4 => PageInv'
  <1> SUFFICES ASSUME PageInv, SetPml4 PROVE PageInv'
    OBVIOUS
  <1>1. /\ pml4_table' = [pml4_table EXCEPT ![0] = Table(PdpAt)]
        /\ pc = "start" /\ pc' = "directory"
        /\ UNCHANGED <<pdp_table, page_directory, i_pdpt, i_pd, cr3>>
    BY DEF SetPml4, Table, counters
  <1>2. PageTypeOK'
    BY <1>1, EntryTyped DEF PageInv, PageTypeOK
  <1>3. Filled'
    BY <1>1, DirectoriesFit DEF PageInv, PageTypeOK, Filled, HasPages, Directories
  <1>4. QED
    BY <1>1, <1>2, <1>3 DEF PageInv, LoadedLast

(* An entry of the directory pointer table leads to the next directory.    *)
LEMMA SetDirectoryInv == PageInv /\ SetDirectory => PageInv'
  <1> SUFFICES ASSUME PageInv, SetDirectory PROVE PageInv'
    OBVIOUS
  <1>1. /\ pdp_table' = [pdp_table EXCEPT ![i_pdpt] = Table(DirectoryAt(i_pdpt))]
        /\ i_pd' = 0 /\ pc = "directory" /\ pc' = "page"
        /\ UNCHANGED <<pml4_table, page_directory, i_pdpt, cr3>>
    BY DEF SetDirectory, Table
  <1>2. i_pdpt \in Directories /\ i_pdpt \in Index
    BY DirectoriesFit DEF PageInv, PageTypeOK, SetDirectory, Directories
  <1>3. PageTypeOK'
    BY <1>1, <1>2, EntryTyped, DirectoriesFit DEF PageInv, PageTypeOK
  <1>4. Filled'
    <2>1. \A d \in Directories : d < i_pdpt => HasPages(d, Entries)'
      BY <1>1, <1>2, DirectoriesFit DEF PageInv, PageTypeOK, Filled, HasPages, Directories
    <2>2. HasPages(i_pdpt, i_pd)'
      BY <1>1, <1>2 DEF PageInv, PageTypeOK, HasPages, Index
    <2>3. QED
      BY <1>1, <1>2, <2>1, <2>2 DEF PageInv, Filled
  <1>5. QED
    BY <1>1, <1>3, <1>4 DEF PageInv, LoadedLast

(* One page is entered in the directory of the moment.                     *)
LEMMA SetPageInv == PageInv /\ SetPage => PageInv'
  <1> SUFFICES ASSUME PageInv, SetPage PROVE PageInv'
    OBVIOUS
  <1>1. /\ page_directory' = [page_directory EXCEPT ![i_pdpt][i_pd] = LargePage(i_pdpt, i_pd)]
        /\ i_pd' = i_pd + 1 /\ pc = "page" /\ pc' = "page" /\ i_pd < Entries
        /\ UNCHANGED <<pml4_table, pdp_table, i_pdpt, cr3>>
    BY DEF SetPage, LargePage, MorePages
  <1>2. i_pdpt \in Directories /\ i_pd \in Index
    BY <1>1, DirectoriesFit DEF PageInv, PageTypeOK, Filled, Index
  <1>3. PageTypeOK'
    <2>1. page_directory' \in [Directories -> [Index -> EntryType]]
      BY <1>1, <1>2, EntryTyped DEF PageInv, PageTypeOK
    <2>2. QED
      BY <1>1, <1>2, <2>1, DirectoriesFit DEF PageInv, PageTypeOK, Index
  <1>4. \A d \in Directories, e \in Index :
          page_directory'[d][e] = IF d = i_pdpt /\ e = i_pd THEN LargePage(i_pdpt, i_pd)
                                  ELSE page_directory[d][e]
    BY <1>1, <1>2 DEF PageInv, PageTypeOK
  <1>5. Filled'
    <2>1. \A d \in Directories : d < i_pdpt => HasPages(d, Entries)'
      BY <1>1, <1>4, DirectoriesFit DEF PageInv, PageTypeOK, Filled, HasPages, Directories
    <2>2. HasPages(i_pdpt, i_pd)'
      BY <1>1, <1>2, <1>4, DirectoriesFit DEF PageInv, Filled, HasPages, Index
    <2>3. QED
      BY <1>1, <1>2, <2>1, <2>2 DEF PageInv, Filled
  <1>6. QED
    BY <1>1, <1>3, <1>5 DEF PageInv, LoadedLast

(* A directory is full, and the outer loop goes on.                        *)
LEMMA EndDirectoryInv == PageInv /\ EndDirectory => PageInv'
  <1> SUFFICES ASSUME PageInv, EndDirectory PROVE PageInv'
    OBVIOUS
  <1>1. /\ i_pdpt' = i_pdpt + 1 /\ pc = "page" /\ pc' = "directory" /\ ~(i_pd < Entries)
        /\ UNCHANGED <<pml4_table, pdp_table, page_directory, i_pd, cr3>>
    BY DEF EndDirectory, NextDirectory, MorePages
  <1>2. i_pdpt \in Directories /\ i_pd = Entries
    BY <1>1, DirectoriesFit DEF PageInv, PageTypeOK, Filled
  <1>3. PageTypeOK'
    BY <1>1, <1>2, DirectoriesFit DEF PageInv, PageTypeOK, Directories
  <1>4. Filled'
    <2>1. \A d \in Directories : d < i_pdpt + 1 => HasPages(d, Entries)'
      BY <1>1, <1>2, DirectoriesFit DEF PageInv, Filled, HasPages, Directories
    <2>2. QED
      BY <1>1, <2>1 DEF PageInv, Filled
  <1>5. QED
    BY <1>1, <1>3, <1>4 DEF PageInv, LoadedLast

(* The tables come into use when both loops have ended.                    *)
LEMMA SetCR3Inv == PageInv /\ SetCR3 => PageInv'
  BY DEF PageInv, PageTypeOK, Filled, HasPages, LoadedLast, SetCR3, counters

(* Every step preserves the invariant.                                     *)
LEMMA NextPageInv == PageInv /\ [PageNext]_pageVars => PageInv'
  <1>1. PageInv /\ UNCHANGED pageVars => PageInv'
    BY DEF PageInv, PageTypeOK, Filled, HasPages, LoadedLast, pageVars, counters
  <1>2. QED
    BY <1>1, SetPml4Inv, SetDirectoryInv, SetPageInv, EndDirectoryInv, SetCR3Inv DEF PageNext

(* The invariant holds in every reachable state.                           *)
LEMMA PageInvariant == PageSpec => []PageInv
  BY InitPageInv, NextPageInv, PTL DEF PageSpec

(* Every variable keeps its type; no entry is written outside its table.   *)
THEOREM PageTyped == PageSpec => []PageTypeOK
  <1>1. PageInv => PageTypeOK
    BY DEF PageInv
  <1>2. QED
    BY <1>1, PageInvariant, PTL

(* Once the tables are full the walk of an address ends at that address.   *)
LEMMA WalkIdentity ==
  ASSUME PageInv, cr3 = "kernel", NEW d \in Directories, NEW e \in Index, NEW page \in Index
  PROVE  Walk(0, d, e, page) = d * Entries * Entries + e * Entries + page
  <1>1. pml4_table[0] = Table(PdpAt) /\ pdp_table[d] = Table(d)
        /\ page_directory[d][e] = LargePage(d, e)
    BY DirectoriesFit
    DEF PageInv, PageTypeOK, Filled, LoadedLast, HasPages, Directories, Index, DirectoryAt
  <1>2. Table(PdpAt) # Garbage /\ Table(d) # Garbage /\ LargePage(d, e) # Garbage
    BY TableAssumption, PageNat, DirectoriesFit
    DEF Table, LargePage, PdpAt, kTable, kLargePage, Directories
  <1>3. Walk(0, d, e, page) = Page(d, e) + page
    BY <1>1, <1>2 DEF Walk, Table, LargePage
  <1>4. d * (Entries * Entries) = d * Entries * Entries
    <2>1. d \in Int /\ Entries \in Int
      BY DirectoriesFit DEF Directories
    <2>2. QED
      BY <2>1
  <1>5. QED
    BY <1>3, <1>4 DEF Page, kPageSize1G, kPageSize2M

(* The tables in use map each address they reach to itself.                *)
THEOREM MapsIdentity == PageSpec => []IdentityMap
  <1>1. PageInv => IdentityMap
    BY WalkIdentity DEF IdentityMap
  <1>2. QED
    BY <1>1, PageInvariant, PTL

-------------------------------------------------------------------------------
(* Cutting a number into pieces and putting it together again.             *)
LEMMA Digits ==
  ASSUME NEW a \in Nat, NEW b \in Nat \ {0}
  PROVE  /\ a = b * (a \div b) + (a % b)
         /\ a \div b \in Nat /\ a % b \in Nat /\ a % b < b
  OBVIOUS

(* A number of two digits, taken a times.                                  *)
LEMMA Assoc ==
  ASSUME NEW a \in Nat, NEW b \in Nat, NEW c \in Nat, NEW d \in Nat
  PROVE  a * (b * c + d) = (a * b) * c + a * d
  OBVIOUS

(* A multiple of b that is less than b away from a is b times the quotient. *)
LEMMA Quotient ==
  ASSUME NEW a \in Nat, NEW b \in Nat \ {0}, NEW q \in Nat, NEW r \in Nat, r < b, a = b * q + r
  PROVE  a \div b = q
  <1> DEFINE p == a \div b
  <1>1. p \in Nat /\ b * p <= a /\ a < b * p + b
    BY Digits
  <1> HIDE DEF p
  <1>2. ~(p < q)
    <2> SUFFICES ASSUME p + 1 <= q PROVE FALSE
      BY <1>1
    <2>1. b * (p + 1) <= b * q
      BY <1>1
    <2>2. QED
      BY <1>1, <2>1
  <1>3. ~(q < p)
    <2> SUFFICES ASSUME q + 1 <= p PROVE FALSE
      BY <1>1
    <2>1. b * (q + 1) <= b * p
      BY <1>1
    <2>2. QED
      BY <1>1, <2>1
  <1>4. QED
    BY <1>1, <1>2, <1>3 DEF p

(* Dividing twice is dividing by the square.                               *)
LEMMA DivDiv ==
  ASSUME NEW a \in Nat, NEW b \in Nat \ {0}
  PROVE  a \div (b * b) = (a \div b) \div b
  <1> DEFINE m == a \div b
             q == m \div b
             d == a % b
             e == m % b
  <1>1. /\ m \in Nat /\ q \in Nat /\ d \in Nat /\ e \in Nat
        /\ a = b * m + d /\ m = b * q + e /\ d < b /\ e < b
    BY Digits
  <1> HIDE DEF m, q, d, e
  <1>2. b * b \in Nat \ {0} /\ b * e + d \in Nat
    BY <1>1
  <1>3. b * e + d < b * b
    <2>1. b * e <= b * (b - 1)
      BY <1>1
    <2>2. QED
      BY <1>1, <2>1
  <1>4. a = (b * b) * q + (b * e + d)
    <2>1. b * m = (b * b) * q + b * e
      BY <1>1, Assoc
    <2>2. (b * b) * q \in Nat /\ b * e \in Nat
      BY <1>1
    <2>3. QED
      BY <1>1, <2>1, <2>2
  <1>5. a \div (b * b) = q
    BY <1>1, <1>2, <1>3, <1>4, Quotient
  <1>6. QED
    BY <1>5 DEF m, q

(* The pieces of a gate's offset are the offset.                           *)
LEMMA OffsetOfGate ==
  ASSUME NEW attr, NEW offset \in Nat, NEW selector
  PROVE  Offset(SetIDTEntry(attr, offset, selector)) = offset
  <1> DEFINE m == offset \div Half
             q == m \div Half
             d == offset % Half
             e == m % Half
  <1>1. /\ m \in Nat /\ q \in Nat /\ d \in Nat /\ e \in Nat
        /\ offset = Half * m + d /\ m = Half * q + e
    BY WidthAssumption, Digits
  <1>2. offset \div (Half * Half) = q
    BY WidthAssumption, DivDiv
  <1>3. Offset(SetIDTEntry(attr, offset, selector)) = d + Half * (e + Half * q)
    BY <1>2 DEF Offset, SetIDTEntry
  <1> HIDE DEF m, q, d, e
  <1>4. d + Half * (e + Half * q) = offset
    <2>1. e + Half * q = m
      BY <1>1, WidthAssumption
    <2>2. d + Half * m = offset
      BY <1>1, WidthAssumption
    <2>3. QED
      BY <2>1, <2>2
  <1>5. QED
    BY <1>3, <1>4

-------------------------------------------------------------------------------
BeforeGdt == {"entry", "screen", "gdt"}
BeforeCs == BeforeGdt \cup {"ds", "csss"}
IdtLoaded == {"memory", "heap", "idle", "failed"}

KernelCode == SetCodeSegment(kExecuteRead, 0, 0, MaxLimit)
KernelStack == SetDataSegment(kReadWrite, 0, 0, MaxLimit)
GateTo(address) == SetIDTEntry(Attributes(kInterruptGate, 0), address, kernel_cs)

(* Types; no field of a descriptor or a gate holds more than its bits.     *)
TablesTypeOK ==
  /\ step \in BeforeCs \cup {"paging", "gates", "idt"} \cup IdtLoaded
  /\ i \in 0 .. 20
  /\ table \in [0 .. 2 -> Descriptor \cup {NullDescriptor, Garbage}]
  /\ idt \in [0 .. 255 -> Gate \cup {Garbage}]
  /\ {cs.by, ss.by, ds.by} \subseteq {"firmware", "kernel"}
  /\ cpu \in {"running", "kernel_handler", "firmware_handler", "wild", "reset"}

(* The GDT in use has the kernel's descriptors in it.                      *)
GdtWritten ==
  /\ gdtr = IF step \in BeforeGdt THEN Firmware ELSE GdtLimit
  /\ step \notin BeforeGdt => table[1] = KernelCode /\ table[2] = KernelStack
  /\ step \notin BeforeCs => cs = [selector |-> kernel_cs, by |-> "kernel"]

(* Each gate behind the loop's counter leads to its handler.               *)
GatesWritten ==
  /\ idtr = IF step \in IdtLoaded THEN 16 * 256 - 1 ELSE Firmware
  /\ step \in BeforeCs \cup {"paging"} => i = 0
  /\ step = "gates" => \A v \in 0 .. i - 1 : idt[v] = GateTo(IntDefault)
  /\ step \in {"idt"} \cup IdtLoaded =>
       \A v \in 0 .. 19 : idt[v] = GateTo(IF v = 12 THEN IntSegFault ELSE IntDefault)
  /\ \A v \in 20 .. 255 : idt[v] = Garbage

NothingStruck == cpu = "running" => handler = "none"

TablesInv == PageInv /\ TablesTypeOK /\ GdtWritten /\ GatesWritten /\ NothingStruck

-------------------------------------------------------------------------------
(* The descriptors that SetupSegments writes are what the processor asks   *)
(* of a code and of a stack segment.                                       *)
LEMMA DescriptorFacts ==
  /\ KernelCode \in Descriptor /\ KernelStack \in Descriptor
  /\ IsCode64(KernelCode) /\ IsStack(KernelStack)
  <1>1. /\ 0 % Half \in 0 .. Half - 1 /\ 0 \div Half \in Nat
        /\ MaxLimit \in Nat /\ MaxLimit % Half \in 0 .. Half - 1 /\ MaxLimit \div Half \in Nat
        /\ Half * Quarter \in Nat \ {0}
    BY WidthAssumption DEF MaxLimit
  <1>2. /\ (0 \div Half) % Quarter \in 0 .. Quarter - 1
        /\ (0 \div (Half * Quarter)) % Quarter \in 0 .. Quarter - 1
        /\ (MaxLimit \div Half) % 16 \in 0 .. 15
    BY <1>1, WidthAssumption
  <1>3. KernelCode \in Descriptor
    BY <1>1, <1>2 DEF KernelCode, SetCodeSegment, Descriptor, kExecuteRead
  <1>4. KernelStack \in Descriptor
    <2>1. SetCodeSegment(kReadWrite, 0, 0, MaxLimit) \in Descriptor
      BY <1>1, <1>2 DEF SetCodeSegment, Descriptor, kReadWrite
    <2>2. ASSUME NEW d \in Descriptor
          PROVE  [[d EXCEPT !.long_mode = 0] EXCEPT !.default_operation_size = 1] \in Descriptor
      <3>1. [d EXCEPT !.long_mode = 0] \in Descriptor
        BY DEF Descriptor
      <3>2. \A e \in Descriptor : [e EXCEPT !.default_operation_size = 1] \in Descriptor
        BY DEF Descriptor
      <3>3. QED
        BY <3>1, <3>2
    <2>3. KernelStack =
            [[SetCodeSegment(kReadWrite, 0, 0, MaxLimit) EXCEPT !.long_mode = 0]
               EXCEPT !.default_operation_size = 1]
      BY DEF KernelStack, SetDataSegment
    <2>4. QED
      BY <2>1, <2>2, <2>3
  <1>5. KernelCode # NullDescriptor /\ KernelStack # NullDescriptor
    BY <1>3, <1>4 DEF Descriptor, NullDescriptor
  <1>6. KernelCode # Garbage /\ KernelStack # Garbage
    BY <1>3, <1>4, GarbageAssumption
  <1>7. IsCode64(KernelCode)
    BY <1>5, <1>6 DEF IsCode64, IsSegment, KernelCode, SetCodeSegment
  <1>8. IsStack(KernelStack)
    BY <1>5, <1>6 DEF IsStack, IsSegment, KernelStack, SetDataSegment, SetCodeSegment
  <1>9. QED
    BY <1>3, <1>4, <1>7, <1>8

(* The gates that InitializeInterrupt writes.                              *)
LEMMA GateFacts ==
  ASSUME NEW address \in Nat
  PROVE  /\ GateTo(address) \in Gate /\ GateTo(address) # Garbage
         /\ GateTo(address).attr.present = 1
         /\ GateTo(address).attr.type = kInterruptGate
         /\ GateTo(address).segment_selector = kernel_cs
         /\ Offset(GateTo(address)) = address
  <1>1. /\ address % Half \in 0 .. Half - 1 /\ address \div Half \in Nat
        /\ Half * Half \in Nat \ {0}
    BY WidthAssumption
  <1>2. (address \div Half) % Half \in 0 .. Half - 1 /\ address \div (Half * Half) \in Nat
    BY <1>1, WidthAssumption
  <1>3. GateTo(address) \in Gate
    BY <1>1, <1>2
    DEF GateTo, SetIDTEntry, Attributes, Gate, Attribute, kInterruptGate, kernel_cs
  <1>4. Offset(GateTo(address)) = address
    BY OffsetOfGate DEF GateTo
  <1>5. QED
    BY <1>3, <1>4, GarbageAssumption DEF GateTo, SetIDTEntry, Attributes

(* The tables are Garbage, and everything in use is the firmware's.        *)
LEMMA InitTablesInv == TablesInit => TablesInv
  <1> SUFFICES ASSUME TablesInit PROVE TablesInv
    OBVIOUS
  <1>1. PageInv
    BY InitPageInv DEF TablesInit
  <1>2. TablesTypeOK
    BY DEF TablesInit, TablesTypeOK, BeforeCs, BeforeGdt
  <1>3. GdtWritten /\ GatesWritten /\ NothingStruck
    BY DEF TablesInit, GdtWritten, GatesWritten, NothingStruck, BeforeCs, BeforeGdt, IdtLoaded
  <1>4. QED
    BY <1>1, <1>2, <1>3 DEF TablesInv

(* Steps that leave the page tables alone keep what is known of them.      *)
LEMMA OtherPageInv == PageInv /\ UNCHANGED pageVars => PageInv'
  BY NextPageInv

(* A step that writes no table here.                                       *)
LEMMA OtherStepInv ==
  ASSUME TablesInv,
         NEW s, NEW next, OtherStep(s, next),
         <<s, next>> \in {<<"entry", "screen">>, <<"screen", "gdt">>, <<"memory", "heap">>,
                         <<"heap", "idle">>, <<"heap", "failed">>}
  PROVE  TablesInv'
  <1> USE DEF OtherStep, At, Running, Goto, registers, TablesInv
  <1>1. PageInv'
    BY OtherPageInv
  <1>2. TablesTypeOK'
    BY DEF TablesTypeOK, BeforeCs, BeforeGdt, IdtLoaded
  <1>3. GdtWritten'
    BY DEF GdtWritten, BeforeCs, BeforeGdt
  <1>4. GatesWritten'
    BY DEF GatesWritten, BeforeCs, BeforeGdt, IdtLoaded
  <1>5. NothingStruck'
    BY DEF NothingStruck
  <1>6. QED
    BY <1>1, <1>2, <1>3, <1>4, <1>5

(* The three descriptors are written, and the GDT is the kernel's.         *)
LEMMA SetupSegmentsInv == TablesInv /\ SetupSegments => TablesInv'
  <1> SUFFICES ASSUME TablesInv, SetupSegments PROVE TablesInv'
    OBVIOUS
  <1> USE DEF SetupSegments, At, Running, Goto, LoadGDT, TablesInv
  <1>1. PageInv'
    BY OtherPageInv
  <1>2. table' = [table EXCEPT ![0] = NullDescriptor, ![1] = KernelCode, ![2] = KernelStack]
    BY DEF KernelCode, KernelStack
  <1>3. /\ table' \in [0 .. 2 -> Descriptor \cup {NullDescriptor, Garbage}]
        /\ table'[1] = KernelCode /\ table'[2] = KernelStack
    BY <1>2, DescriptorFacts DEF TablesTypeOK
  <1>4. TablesTypeOK'
    BY <1>3 DEF TablesTypeOK, BeforeCs, BeforeGdt, IdtLoaded
  <1>5. GdtWritten'
    BY <1>3 DEF GdtWritten, BeforeCs, BeforeGdt
  <1>6. GatesWritten'
    BY DEF GatesWritten, BeforeCs, BeforeGdt, IdtLoaded
  <1>7. NothingStruck'
    BY DEF NothingStruck
  <1>8. QED
    BY <1>1, <1>4, <1>5, <1>6, <1>7

(* The null selector in the data segments.                                 *)
LEMMA SetDSAllInv == TablesInv /\ SetDSAll(0) => TablesInv'
  <1> SUFFICES ASSUME TablesInv, SetDSAll(0) PROVE TablesInv'
    OBVIOUS
  <1> USE DEF SetDSAll, At, Running, Goto, TablesInv
  <1>1. PageInv'
    BY OtherPageInv
  <1>2. TablesTypeOK'
    BY DEF TablesTypeOK, BeforeCs, BeforeGdt, IdtLoaded
  <1>3. GdtWritten' /\ GatesWritten' /\ NothingStruck'
    BY DEF GdtWritten, GatesWritten, NothingStruck, BeforeCs, BeforeGdt, IdtLoaded
  <1>4. QED
    BY <1>1, <1>2, <1>3

(* The processor accepts both selectors: the branch that faults is dead.   *)
LEMMA SelectorsAccepted ==
  ASSUME TablesInv, step \notin BeforeGdt
  PROVE  /\ InGdt(kernel_ss) /\ IsStack(table[kernel_ss \div 8])
         /\ EntersCode(kernel_cs)
  <1>1. gdtr = 23 /\ gdtr # Firmware
    BY DEF TablesInv, GdtWritten, GdtLimit, Firmware
  <1>2. kernel_cs = 8 /\ kernel_ss = 16 /\ kernel_cs \div 8 = 1 /\ kernel_ss \div 8 = 2
    BY DEF kernel_cs, kernel_ss
  <1>3. table[1] = KernelCode /\ table[2] = KernelStack
    BY DEF TablesInv, GdtWritten
  <1>4. QED
    BY <1>1, <1>2, <1>3, DescriptorFacts DEF InGdt, EntersCode

(* So SetCSSS always loads both.                                           *)
LEMMA SetCSSSTaken ==
  ASSUME TablesInv, SetCSSS(kernel_cs, kernel_ss)
  PROVE  /\ step = "csss" /\ step' = "paging" /\ cpu = "running" /\ cpu' = "running"
         /\ ss' = [selector |-> kernel_ss, by |-> "kernel"]
         /\ cs' = [selector |-> kernel_cs, by |-> "kernel"]
         /\ UNCHANGED <<i, table, idt, gdtr, idtr, ds, done, firmware_cs, vector, handler, pageVars>>
  <1>1. step \notin BeforeGdt
    BY DEF SetCSSS, At, Running, BeforeGdt
  <1>2. QED
    BY <1>1, SelectorsAccepted DEF SetCSSS, At, Running, Goto

(* The kernel's code selector is the one the gates are made with.          *)
LEMMA SetCSSSInv == TablesInv /\ SetCSSS(kernel_cs, kernel_ss) => TablesInv'
  <1> SUFFICES ASSUME TablesInv, SetCSSS(kernel_cs, kernel_ss) PROVE TablesInv'
    OBVIOUS
  <1> USE SetCSSSTaken DEF TablesInv
  <1>1. PageInv'
    BY OtherPageInv
  <1>2. TablesTypeOK'
    BY DEF TablesTypeOK, BeforeCs, BeforeGdt, IdtLoaded
  <1>3. GdtWritten' /\ GatesWritten' /\ NothingStruck'
    BY DEF GdtWritten, GatesWritten, NothingStruck, BeforeCs, BeforeGdt, IdtLoaded
  <1>4. QED
    BY <1>1, <1>2, <1>3

(* Within the step "paging" only the page tables change.                   *)
LEMMA SetupPagingInv == TablesInv /\ SetupPaging => TablesInv'
  <1> SUFFICES ASSUME TablesInv, SetupPaging PROVE TablesInv'
    OBVIOUS
  <1> USE DEF SetupPaging, Running, Goto, registers, TablesInv
  <1>1. PageInv'
    BY NextPageInv
  <1>2. step = "paging" /\ step' \in {"paging", "gates"}
    OBVIOUS
  <1>3. TablesTypeOK'
    BY <1>2 DEF TablesTypeOK, BeforeCs, BeforeGdt, IdtLoaded
  <1>4. GdtWritten' /\ NothingStruck'
    BY <1>2 DEF GdtWritten, NothingStruck, BeforeCs, BeforeGdt
  <1>5. GatesWritten'
    BY <1>2 DEF GatesWritten, BeforeCs, BeforeGdt, IdtLoaded
  <1>6. QED
    BY <1>1, <1>3, <1>4, <1>5

(* One more gate leads to IntDefault.                                      *)
LEMMA SetGateInv == TablesInv /\ SetGate => TablesInv'
  <1> SUFFICES ASSUME TablesInv, SetGate PROVE TablesInv'
    OBVIOUS
  <1> USE DEF SetGate, At, Running, registers, TablesInv
  <1>1. PageInv'
    BY OtherPageInv
  <1>2. step = "gates" /\ step' = "gates" /\ i \in 0 .. 19 /\ i' = i + 1
    BY DEF TablesTypeOK, GateLoop
  <1>3. idt' = [idt EXCEPT ![i] = GateTo(IntDefault)]
    <2>1. GetCS = kernel_cs
      BY <1>2 DEF GetCS, GdtWritten, BeforeCs, BeforeGdt
    <2>2. idt' = [idt EXCEPT ![i] =
                    SetIDTEntry(Attributes(kInterruptGate, 0), IntDefault, GetCS)]
      OBVIOUS
    <2>3. QED
      BY <2>1, <2>2 DEF GateTo
  <1>4. TablesTypeOK'
    <2>1. GateTo(IntDefault) \in Gate
      BY GateFacts, HandlerAssumption
    <2>2. idt' \in [0 .. 255 -> Gate \cup {Garbage}]
      BY <1>3, <2>1 DEF TablesTypeOK
    <2>3. QED
      BY <1>2, <2>2 DEF TablesTypeOK, BeforeCs, BeforeGdt, IdtLoaded
  <1>5. GdtWritten' /\ NothingStruck'
    BY <1>2 DEF GdtWritten, NothingStruck
  <1>6. \A v \in 0 .. 255 : idt'[v] = IF v = i THEN GateTo(IntDefault) ELSE idt[v]
    BY <1>2, <1>3 DEF TablesTypeOK
  <1>7. GatesWritten'
    <2>1. \A v \in 0 .. i' - 1 : idt'[v] = GateTo(IntDefault)
      BY <1>2, <1>6 DEF GatesWritten
    <2>2. \A v \in 20 .. 255 : idt'[v] = Garbage
      BY <1>2, <1>6 DEF GatesWritten
    <2>3. QED
      BY <1>2, <2>1, <2>2 DEF GatesWritten, BeforeCs, BeforeGdt, IdtLoaded
  <1>8. QED
    BY <1>1, <1>4, <1>5, <1>7

(* Gate 12 gets its own handler, and all twenty are right.                 *)
LEMMA SetFaultGateInv == TablesInv /\ SetFaultGate => TablesInv'
  <1> SUFFICES ASSUME TablesInv, SetFaultGate PROVE TablesInv'
    OBVIOUS
  <1> USE DEF SetFaultGate, At, Running, Goto, registers, TablesInv
  <1>1. PageInv'
    BY OtherPageInv
  <1>2. step = "gates" /\ step' = "idt" /\ i = 20
    BY DEF TablesTypeOK, GateLoop
  <1>3. idt' = [idt EXCEPT ![12] = GateTo(IntSegFault)]
    <2>1. GetCS = kernel_cs
      BY <1>2 DEF GetCS, GdtWritten, BeforeCs, BeforeGdt
    <2>2. idt' = [idt EXCEPT ![12] =
                    SetIDTEntry(Attributes(kInterruptGate, 0), IntSegFault, GetCS)]
      OBVIOUS
    <2>3. QED
      BY <2>1, <2>2 DEF GateTo
  <1>4. TablesTypeOK'
    <2>1. GateTo(IntSegFault) \in Gate
      BY GateFacts, HandlerAssumption
    <2>2. idt' \in [0 .. 255 -> Gate \cup {Garbage}]
      BY <1>3, <2>1 DEF TablesTypeOK
    <2>3. QED
      BY <1>2, <2>2 DEF TablesTypeOK, BeforeCs, BeforeGdt, IdtLoaded
  <1>5. GdtWritten' /\ NothingStruck'
    BY <1>2 DEF GdtWritten, NothingStruck, BeforeCs, BeforeGdt
  <1>6. \A v \in 0 .. 255 : idt'[v] = IF v = 12 THEN GateTo(IntSegFault) ELSE idt[v]
    BY <1>3 DEF TablesTypeOK
  <1>7. GatesWritten'
    BY <1>2, <1>6 DEF GatesWritten, BeforeCs, BeforeGdt, IdtLoaded
  <1>8. QED
    BY <1>1, <1>4, <1>5, <1>7

(* The IDT comes into use with its gates written.                          *)
LEMMA LoadIDTInv == TablesInv /\ LoadIDT => TablesInv'
  <1> SUFFICES ASSUME TablesInv, LoadIDT PROVE TablesInv'
    OBVIOUS
  <1> USE DEF LoadIDT, At, Running, Goto, TablesInv
  <1>1. PageInv'
    BY OtherPageInv
  <1>2. TablesTypeOK'
    BY DEF TablesTypeOK, BeforeCs, BeforeGdt, IdtLoaded
  <1>3. GdtWritten' /\ GatesWritten' /\ NothingStruck'
    BY DEF GdtWritten, GatesWritten, NothingStruck, BeforeCs, BeforeGdt, IdtLoaded
  <1>4. QED
    BY <1>1, <1>2, <1>3

(* What a gate of the kernel's does when an exception goes through it.     *)
LEMMA DeliverFacts ==
  ASSUME TablesInv, idtr # Firmware, NEW v \in 0 .. 255, idt[v] # Garbage, Deliver(v, idt[v])
  PROVE  /\ v < 20
         /\ cpu' = "kernel_handler"
         /\ handler' = IF v = 12 THEN "IntSegFault" ELSE "IntDefault"
  <1> DEFINE address == IF v = 12 THEN IntSegFault ELSE IntDefault
  <1>1. step \in IdtLoaded /\ idtr = 4095
    BY DEF TablesInv, GatesWritten
  <1>2. v \in 0 .. 19
    BY DEF TablesInv, GatesWritten
  <1>3. idt[v] = GateTo(address)
    BY <1>1, <1>2 DEF TablesInv, GatesWritten
  <1>4. address \in Nat
    BY HandlerAssumption
  <1>5. EntersCode(kernel_cs)
    BY <1>1, SelectorsAccepted DEF IdtLoaded, BeforeGdt
  <1>6. /\ idt[v].attr.present = 1 /\ idt[v].attr.type = kInterruptGate
        /\ idt[v].segment_selector = kernel_cs /\ Offset(idt[v]) = address
    BY <1>3, <1>4, GateFacts
  <1>7. 16 * v + 15 <= idtr
    BY <1>1, <1>2
  <1> HIDE DEF address
  <1>8. /\ address = IntDefault => cpu' = "kernel_handler" /\ handler' = "IntDefault"
        /\ address = IntSegFault => cpu' = "kernel_handler" /\ handler' = "IntSegFault"
    BY <1>5, <1>6, <1>7, HandlerAssumption DEF Deliver
  <1>9. QED
    BY <1>2, <1>8, HandlerAssumption DEF address

(* An exception stops the processor and leaves the tables as they are.     *)
LEMMA ExceptionInv ==
  ASSUME TablesInv, NEW v \in Vectors, Exception(v)
  PROVE  TablesInv'
  <1>1. cpu' \in {"kernel_handler", "firmware_handler", "wild", "reset"}
    <2>1. CASE idtr = Firmware
      BY <2>1 DEF Exception
    <2>2. CASE idtr # Firmware /\ idt[v] = Garbage
      BY <2>2 DEF Exception
    <2>3. CASE idtr # Firmware /\ idt[v] # Garbage
      <3>1. Deliver(v, idt[v])
        BY <2>3 DEF Exception
      <3>2. QED
        BY <2>3, <3>1, DeliverFacts, VectorAssumption
    <2>4. QED
      BY <2>1, <2>2, <2>3
  <1>2. UNCHANGED <<step, i, table, idt, gdtr, idtr, cs, ss, ds, firmware_cs, done, pageVars>>
    BY DEF Exception, registers
  <1>3. PageInv'
    BY <1>2, OtherPageInv DEF TablesInv
  <1>4. TablesTypeOK'
    BY <1>1, <1>2 DEF TablesInv, TablesTypeOK
  <1>5. GdtWritten' /\ GatesWritten' /\ NothingStruck'
    BY <1>1, <1>2 DEF TablesInv, GdtWritten, GatesWritten, NothingStruck
  <1>6. QED
    BY <1>3, <1>4, <1>5 DEF TablesInv

(* Each step of KernelMain preserves the invariant.                        *)
LEMMA InitializeInv == TablesInv /\ Initialize => TablesInv'
  <1> SUFFICES ASSUME TablesInv, Initialize PROVE TablesInv'
    OBVIOUS
  <1>1. CASE OtherStep("entry", "screen")
    BY <1>1, OtherStepInv
  <1>2. CASE OtherStep("screen", "gdt")
    BY <1>2, OtherStepInv
  <1>3. CASE OtherStep("memory", "heap")
    BY <1>3, OtherStepInv
  <1>4. CASE OtherStep("heap", "idle")
    BY <1>4, OtherStepInv
  <1>5. CASE OtherStep("heap", "failed")
    BY <1>5, OtherStepInv
  <1>6. QED
    BY <1>1, <1>2, <1>3, <1>4, <1>5, SetupSegmentsInv, SetDSAllInv, SetCSSSInv, SetupPagingInv,
       SetGateInv, SetFaultGateInv, LoadIDTInv
    DEF Initialize

TablesNext == Initialize \/ \E v \in Vectors : Exception(v)

(* A stutter changes nothing the invariant speaks of.                      *)
LEMMA StutterTablesInv == TablesInv /\ UNCHANGED tableVars => TablesInv'
  <1> SUFFICES ASSUME TablesInv, UNCHANGED tableVars PROVE TablesInv'
    OBVIOUS
  <1> USE DEF tableVars, registers, struck, TablesInv
  <1>1. PageInv'
    BY OtherPageInv
  <1>2. TablesTypeOK'
    BY DEF TablesTypeOK
  <1>3. GdtWritten' /\ NothingStruck'
    BY DEF GdtWritten, NothingStruck
  <1>4. GatesWritten'
    BY DEF GatesWritten
  <1>5. QED
    BY <1>1, <1>2, <1>3, <1>4

(* The invariant holds in every reachable state.                           *)
LEMMA TablesInvariant == TablesSpec => []TablesInv
  <1>1. TablesInv /\ [TablesNext]_tableVars => TablesInv'
    BY InitializeInv, ExceptionInv, StutterTablesInv DEF TablesNext
  <1>2. TablesInv /\ [Initialize \/ \E v \in Vectors : Exception(v)]_tableVars => TablesInv'
    BY <1>1 DEF TablesNext
  <1>3. QED
    BY <1>2, InitTablesInv, PTL DEF TablesSpec

(* Every variable keeps its type, and no address, limit or base is too     *)
(* large for the field of a descriptor or gate it is cut for.              *)
THEOREM TablesTyped == TablesSpec => []TablesTypeOK
  <1>1. TablesInv => TablesTypeOK
    BY DEF TablesInv
  <1>2. QED
    BY <1>1, TablesInvariant, PTL

(* Whatever else KernelMain does and whenever an exception strikes, the    *)
(* page tables in use map each address they reach to itself.               *)
THEOREM KernelMapsIdentity == TablesSpec => []IdentityMap
  <1>1. TablesInv => IdentityMap
    BY WalkIdentity DEF TablesInv, IdentityMap
  <1>2. QED
    BY <1>1, TablesInvariant, PTL

-------------------------------------------------------------------------------
(* The tables start as KernelBoot does.                                    *)
LEMMA BootInitially == TablesInit => Boot!BootInit
  BY DEF TablesInit, PageInit, Firmware, Boot!BootInit, Boot!None, Boot!NoVector

(* The order of the steps is KernelBoot's.                                 *)
LEMMA BootOrder ==
  /\ Boot!After["entry"] = "screen" /\ Boot!After["screen"] = "gdt"
  /\ Boot!After["gdt"] = "ds" /\ Boot!After["ds"] = "csss" /\ Boot!After["csss"] = "paging"
  /\ Boot!After["paging"] = "gates" /\ Boot!After["gates"] = "idt"
  /\ Boot!After["idt"] = "memory" /\ Boot!After["memory"] = "heap"
  /\ Boot!After["heap"] = "idle"
  BY DEF Boot!After

(* Each step of the tables is the step of KernelBoot it stands for, and    *)
(* those inside the loops are stutters.                                    *)
LEMMA MainSteps ==
  ASSUME TablesInv, Initialize
  PROVE  Boot!KernelMain \/ UNCHANGED Boot!bootVars
  <1> USE BootOrder
      DEF Boot!Step, Boot!tables, Boot!selectors, Boot!struck, Boot!bootVars, Boot!KernelMain,
          At, Running, Goto, registers, pageVars
  <1>1. CASE OtherStep("entry", "screen")
    <2>1. Boot!EntryPoint
      BY <1>1 DEF OtherStep, Boot!EntryPoint
    <2>2. QED
      BY <2>1
  <1>2. CASE OtherStep("screen", "gdt")
    <2>1. Boot!SetScreen
      BY <1>2 DEF OtherStep, Boot!SetScreen
    <2>2. QED
      BY <2>1
  <1>3. CASE OtherStep("memory", "heap")
    <2>1. Boot!SetMemoryManager
      BY <1>3 DEF OtherStep, Boot!SetMemoryManager
    <2>2. QED
      BY <2>1
  <1>4. CASE OtherStep("heap", "idle") \/ OtherStep("heap", "failed")
    <2>1. Boot!SetHeap
      BY <1>4 DEF OtherStep, Boot!SetHeap
    <2>2. QED
      BY <2>1
  <1>5. CASE SetupSegments
    <2>1. Boot!SetupSegments
      BY <1>5
      DEF SetupSegments, LoadGDT, GdtLimit, Firmware, Boot!SetupSegments
    <2>2. QED
      BY <2>1
  <1>6. CASE SetDSAll(0)
    <2>1. Boot!SetDSAll
      BY <1>6 DEF SetDSAll, Boot!SetDSAll
    <2>2. QED
      BY <2>1
  <1>7. CASE SetCSSS(kernel_cs, kernel_ss)
    <2>1. Boot!SetCSSS
      BY <1>7, SetCSSSTaken DEF Boot!SetCSSS
    <2>2. QED
      BY <2>1
  <1>8. CASE SetupPaging
    <2>1. CASE pc' = "done"
      <3>1. cr3' = "kernel"
        BY <1>8, <2>1
        DEF SetupPaging, PageNext, SetPml4, SetDirectory, SetPage, EndDirectory, SetCR3
      <3>2. Boot!SetupIdentityPageTable
        BY <1>8, <2>1, <3>1 DEF SetupPaging, Boot!SetupIdentityPageTable
      <3>3. QED
        BY <3>2
    <2>2. CASE pc' # "done"
      <3>1. cr3' = cr3
        BY <1>8, <2>2
        DEF SetupPaging, PageNext, SetPml4, SetDirectory, SetPage, EndDirectory, SetCR3
      <3>2. UNCHANGED Boot!bootVars
        BY <1>8, <2>2, <3>1 DEF SetupPaging
      <3>3. QED
        BY <3>2
    <2>3. QED
      BY <2>1, <2>2
  <1>9. CASE SetGate
    <2>1. UNCHANGED Boot!bootVars
      BY <1>9 DEF SetGate
    <2>2. QED
      BY <2>1
  <1>10. CASE SetFaultGate
    <2>1. Boot!SetGates
      BY <1>10 DEF SetFaultGate, Boot!SetGates
    <2>2. QED
      BY <2>1
  <1>11. CASE LoadIDT
    <2>1. Boot!LoadIDT
      BY <1>11 DEF LoadIDT, Firmware, Boot!LoadIDT
    <2>2. QED
      BY <2>1
  <1>12. QED
    BY <1>1, <1>2, <1>3, <1>4, <1>5, <1>6, <1>7, <1>8, <1>9, <1>10, <1>11 DEF Initialize

(* An exception goes through the table in use, and a gate of the kernel's  *)
(* leads to its handler.                                                   *)
LEMMA ExceptionSteps ==
  ASSUME TablesInv, NEW v \in Vectors, Exception(v)
  PROVE  Boot!Exception(v)
  <1> USE DEF Boot!tables, Boot!selectors, Boot!Enter, Boot!None
  <1>1. /\ cpu = "running" /\ vector' = v
        /\ UNCHANGED <<step, gdtr, idtr, cs, ss, ds, done, cr3>>
    BY DEF Exception, registers, pageVars
  <1>2. UNCHANGED <<step, Boot!tables, Boot!selectors, "screen" \in done, "memory" \in done>>
    BY <1>1
  <1>3. CASE idtr = Firmware
    <2>1. /\ cpu' = IF EntersCode(firmware_cs) THEN "firmware_handler" ELSE "reset"
          /\ UNCHANGED handler
      BY <1>3 DEF Exception
    <2>2. gdtr = Firmware => EntersCode(firmware_cs)
      BY DEF EntersCode
    <2>3. Boot!FirmwareException(v)
      BY <1>3, <2>1, <2>2 DEF Boot!FirmwareException
    <2>4. QED
      BY <1>1, <1>2, <2>3 DEF Boot!Exception
  <1>4. CASE idtr # Firmware /\ idt[v] = Garbage
    <2>1. v >= 20
      <3>1. v \in 0 .. 255 /\ step \in IdtLoaded
        BY <1>4, VectorAssumption DEF TablesInv, GatesWritten
      <3>2. \A w \in 0 .. 19 : idt[w] # Garbage
        <4>1. GateTo(IntDefault) # Garbage /\ GateTo(IntSegFault) # Garbage
          BY GateFacts, HandlerAssumption
        <4>2. \A w \in 0 .. 19 :
                idt[w] = GateTo(IF w = 12 THEN IntSegFault ELSE IntDefault)
          BY <3>1 DEF TablesInv, GatesWritten
        <4>3. QED
          BY <4>1, <4>2
      <3>3. QED
        BY <1>4, <3>1, <3>2
    <2>2. handler = "none"
      BY <1>1 DEF TablesInv, NothingStruck
    <2>3. \/ cpu' = "kernel_handler" /\ handler' = "IntDefault"
          \/ cpu' \in {"wild", "reset"} /\ handler' = handler
      BY <1>4, <2>2 DEF Exception
    <2>4. Boot!UnsetGate(v)
      BY <1>4, <2>1, <2>3 DEF Boot!UnsetGate, Boot!GateCount
    <2>5. QED
      BY <1>1, <1>2, <2>4 DEF Boot!Exception
  <1>5. CASE idtr # Firmware /\ idt[v] # Garbage
    <2>1. Deliver(v, idt[v])
      BY <1>5 DEF Exception
    <2>2. /\ v < 20 /\ cpu' = "kernel_handler"
          /\ handler' = IF v = 12 THEN "IntSegFault" ELSE "IntDefault"
      BY <1>5, <2>1, DeliverFacts, VectorAssumption
    <2>3. Boot!KernelException(v)
      BY <1>5, <2>2 DEF Boot!KernelException, Boot!GateCount, Boot!Handler
    <2>4. QED
      BY <1>1, <1>2, <2>3 DEF Boot!Exception
  <1>6. QED
    BY <1>3, <1>4, <1>5

(* The tables as the code writes them and the processor reads them do what *)
(* KernelBoot says of the steps: SetCSSS's selectors are accepted, each    *)
(* gate that InitializeInterrupt set leads to its handler through the code *)
(* segment loaded, and the processor resets where KernelBoot allows it.    *)
THEOREM RefinesKernelBoot == TablesSpec => ImplementsKernelBoot
  <1>1. TablesInv /\ [TablesNext]_tableVars => [Boot!BootNext]_(Boot!bootVars)
    <2> SUFFICES ASSUME TablesInv, [TablesNext]_tableVars
                 PROVE  Boot!BootNext \/ UNCHANGED Boot!bootVars
      OBVIOUS
    <2>1. CASE Initialize
      BY <2>1, MainSteps DEF Boot!BootNext
    <2>2. CASE \E v \in Vectors : Exception(v)
      BY <2>2, ExceptionSteps DEF Boot!BootNext
    <2>3. CASE UNCHANGED tableVars
      BY <2>3
      DEF tableVars, registers, struck, pageVars, Boot!bootVars, Boot!tables,
          Boot!selectors, Boot!struck
    <2>4. QED
      BY <2>1, <2>2, <2>3 DEF TablesNext
  <1>2. TablesInv /\ [Initialize \/ \E v \in Vectors : Exception(v)]_tableVars
          => [Boot!BootNext]_(Boot!bootVars)
    BY <1>1 DEF TablesNext
  <1>3. QED
    BY <1>2, BootInitially, TablesInvariant, PTL DEF TablesSpec, ImplementsKernelBoot

-------------------------------------------------------------------------------
(* What is proved of KernelBoot holds of the tables.  Here KernelBoot's    *)
(* definitions come with its theorems, and are the same as Boot's.         *)
BootProofs == INSTANCE KernelBootProofs WITH
  pc <- step,
  gdt <- IF gdtr = Firmware THEN "firmware" ELSE "kernel",
  idt <- IF idtr = Firmware THEN "firmware" ELSE "kernel",
  cs <- cs.by, ss <- ss.by, ds <- ds.by,
  rsp <- IF "entry" \in done THEN "kernel" ELSE "firmware",
  gate_cs <- IF step \in {"idt", "memory", "heap", "idle", "failed"} THEN cs.by ELSE "none",
  gScreen <- "screen" \in done,
  allocatable <- "memory" \in done

(* The two instances agree.                                                *)
LEMMA SameBoot ==
  /\ Boot!BootInit => BootProofs!BootInit
  /\ [Boot!BootNext]_(Boot!bootVars) => [BootProofs!BootNext]_(BootProofs!bootVars)
  <1> USE DEF Boot!None, BootProofs!None, Boot!tables, BootProofs!tables,
              Boot!selectors, BootProofs!selectors, Boot!struck, BootProofs!struck
  <1>1. Boot!BootInit => BootProofs!BootInit
    BY DEF Boot!BootInit, BootProofs!BootInit, Boot!NoVector, BootProofs!NoVector
  <1>2. Boot!KernelMain => BootProofs!KernelMain
    <2> USE DEF Boot!Step, BootProofs!Step, Boot!After, BootProofs!After
    <2>1. /\ Boot!EntryPoint => BootProofs!EntryPoint
          /\ Boot!SetScreen => BootProofs!SetScreen
          /\ Boot!SetupSegments => BootProofs!SetupSegments
          /\ Boot!SetDSAll => BootProofs!SetDSAll
          /\ Boot!SetCSSS => BootProofs!SetCSSS
      BY DEF Boot!EntryPoint, BootProofs!EntryPoint, Boot!SetScreen, BootProofs!SetScreen,
             Boot!SetupSegments, BootProofs!SetupSegments, Boot!SetDSAll,
             BootProofs!SetDSAll, Boot!SetCSSS, BootProofs!SetCSSS
    <2>2. /\ Boot!SetupIdentityPageTable => BootProofs!SetupIdentityPageTable
          /\ Boot!SetGates => BootProofs!SetGates
          /\ Boot!LoadIDT => BootProofs!LoadIDT
          /\ Boot!SetMemoryManager => BootProofs!SetMemoryManager
          /\ Boot!SetHeap => BootProofs!SetHeap
      BY DEF Boot!SetupIdentityPageTable, BootProofs!SetupIdentityPageTable,
             Boot!SetGates, BootProofs!SetGates, Boot!LoadIDT, BootProofs!LoadIDT,
             Boot!SetMemoryManager, BootProofs!SetMemoryManager, Boot!SetHeap,
             BootProofs!SetHeap
    <2>3. QED
      BY <2>1, <2>2 DEF Boot!KernelMain, BootProofs!KernelMain
  <1>3. ASSUME NEW v \in Vectors, Boot!Exception(v) PROVE BootProofs!Exception(v)
    BY <1>3
    DEF Boot!Exception, BootProofs!Exception, Boot!Enter, BootProofs!Enter,
        Boot!FirmwareException, BootProofs!FirmwareException,
        Boot!KernelException, BootProofs!KernelException,
        Boot!UnsetGate, BootProofs!UnsetGate, Boot!Handler, BootProofs!Handler,
        Boot!GateCount, BootProofs!GateCount
  <1>4. Boot!BootNext => BootProofs!BootNext
    BY <1>2, <1>3 DEF Boot!BootNext, BootProofs!BootNext
  <1>5. UNCHANGED Boot!bootVars => UNCHANGED BootProofs!bootVars
    BY DEF Boot!bootVars, BootProofs!bootVars
  <1>6. QED
    BY <1>1, <1>4, <1>5

(* With the tables as written, the machine resets only between LoadGDT and *)
(* LoadIDT or for a gate never set, a handler always finds what it prints  *)
(* with, and no table of the firmware outlives its memory.                 *)
THEOREM TablesBootSafely ==
  TablesSpec => [](Boot!ResetOnlyInWindow /\ Boot!HandlerCanPrint /\ Boot!FirmwareTablesDropped)
  <1>1. TablesSpec => BootProofs!BootSpec
    BY RefinesKernelBoot, SameBoot, PTL DEF ImplementsKernelBoot, BootProofs!BootSpec
  <1>2. BootProofs!BootSpec =>
          [](BootProofs!ResetOnlyInWindow /\ BootProofs!HandlerCanPrint
               /\ BootProofs!FirmwareTablesDropped)
    BY BootProofs!ResetsOnlyInWindow, BootProofs!HandlersPrint, BootProofs!TablesDropped,
       VectorAssumption, PTL
  <1>3. /\ BootProofs!ResetOnlyInWindow => Boot!ResetOnlyInWindow
        /\ BootProofs!HandlerCanPrint => Boot!HandlerCanPrint
        /\ BootProofs!FirmwareTablesDropped => Boot!FirmwareTablesDropped
    BY DEF Boot!ResetOnlyInWindow, BootProofs!ResetOnlyInWindow, Boot!GateCount,
           BootProofs!GateCount, Boot!HandlerCanPrint, BootProofs!HandlerCanPrint,
           Boot!FirmwareTablesDropped, BootProofs!FirmwareTablesDropped
  <1>4. QED
    BY <1>1, <1>2, <1>3, PTL
===============================================================================
