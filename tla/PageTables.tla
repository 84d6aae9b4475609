------------------------------ MODULE PageTables -------------------------------
(***************************************************************************)
(* SetupIdentityPageTable (kernel/paging.cpp), one entry at a time, and    *)
(* the processor's walk of the tables it leaves.                           *)
(*                                                                         *)
(* Addresses are counted in pages of 4 KiB.  The tables lie in .bss, which *)
(* nobody clears: an entry not written is Garbage.  An address is taken    *)
(* apart into the indices of its tables and the page within 2 MiB.         *)
(***************************************************************************)
EXTENDS Integers

CONSTANTS
  Entries,              \* entries of a table
  kPageDirectoryCount,  \* page directories there are
  Garbage,
  Unmapped

ASSUME TableAssumption ==
  /\ Entries \in Nat \ {0} /\ kPageDirectoryCount \in 1 .. Entries
  /\ Garbage \notin [addr : Nat, flags : Nat]
  /\ Unmapped \notin Nat

VARIABLES
  pml4_table, pdp_table,
  page_directory,  \* an array of tables
  i_pdpt, i_pd,    \* the loops' counters
  pc,
  cr3              \* who provides the tables in use

counters == <<i_pdpt, i_pd>>
pageVars == <<pml4_table, pdp_table, page_directory, counters, pc, cr3>>

kPageSize2M == Entries
kPageSize1G == Entries * kPageSize2M

Index == 0 .. Entries - 1
Directories == 0 .. kPageDirectoryCount - 1

(* What the low bits of an entry say: a table, or a page of 2 MiB.         *)
kTable == 3
kLargePage == 131

(* Where pdp_table and the directories are, in the tables' own terms.      *)
PdpAt == 0
DirectoryAt(d) == d

PageInit ==
  /\ pml4_table = [e \in Index |-> Garbage]
  /\ pdp_table = [e \in Index |-> Garbage]
  /\ page_directory = [d \in Directories |-> [e \in Index |-> Garbage]]
  /\ i_pdpt = 0 /\ i_pd = 0
  /\ pc = "start" /\ cr3 = "firmware"

-------------------------------------------------------------------------------
SetPml4 ==
  /\ pc = "start" /\ pc' = "directory"
  /\ pml4_table' = [pml4_table EXCEPT ![0] = [addr |-> PdpAt, flags |-> kTable]]
  /\ UNCHANGED <<pdp_table, page_directory, counters, cr3>>

SetDirectory ==
  /\ pc = "directory" /\ i_pdpt < kPageDirectoryCount
  /\ pdp_table' = [pdp_table EXCEPT ![i_pdpt] = [addr |-> DirectoryAt(i_pdpt), flags |-> kTable]]
  /\ i_pd' = 0 /\ pc' = "page"
  /\ UNCHANGED <<pml4_table, page_directory, i_pdpt, cr3>>

(* Mutant: directories 2 MiB short of 1 GiB apart.                         *)
PageShort(d, e) == d * (kPageSize1G - kPageSize2M) + e * kPageSize2M

Page(d, e) == d * kPageSize1G + e * kPageSize2M

MorePages == i_pd < Entries

SetPage ==
  /\ pc = "page" /\ MorePages
  /\ page_directory' =
       [page_directory EXCEPT ![i_pdpt][i_pd] =
          [addr |-> Page(i_pdpt, i_pd), flags |-> kLargePage]]
  /\ i_pd' = i_pd + 1
  /\ UNCHANGED <<pml4_table, pdp_table, i_pdpt, pc, cr3>>

NextDirectory == i_pdpt + 1

EndDirectory ==
  /\ pc = "page" /\ ~MorePages
  /\ i_pdpt' = NextDirectory /\ pc' = "directory"
  /\ UNCHANGED <<pml4_table, pdp_table, page_directory, i_pd, cr3>>

SetCR3 ==
  /\ pc = "directory" /\ i_pdpt >= kPageDirectoryCount
  /\ cr3' = "kernel" /\ pc' = "done"
  /\ UNCHANGED <<pml4_table, pdp_table, page_directory, counters>>

PageNext == SetPml4 \/ SetDirectory \/ SetPage \/ EndDirectory \/ SetCR3

PageSpec == PageInit /\ [][PageNext]_pageVars

-------------------------------------------------------------------------------
(* The walk of the processor.  An entry that is Garbage may lead anywhere; *)
(* this is how the walk names it.                                          *)
Walk(i4, i3, i2, page) ==
  LET pml4e == pml4_table[i4]
      pdpe == pdp_table[i3]
      pde == page_directory[pdpe.addr][i2]
  IN IF \/ pml4e = Garbage \/ pml4e # [addr |-> PdpAt, flags |-> kTable]
        \/ pdpe = Garbage \/ pdpe.flags # kTable
        \/ pde = Garbage \/ pde.flags # kLargePage
     THEN Unmapped
     ELSE pde.addr + page

EntryType == [addr : Nat, flags : {kTable, kLargePage}] \cup {Garbage}

(* Type invariant; no entry is written behind the end of a table.          *)
PageTypeOK ==
  /\ pml4_table \in [Index -> EntryType]
  /\ pdp_table \in [Index -> EntryType]
  /\ page_directory \in [Directories -> [Index -> EntryType]]
  /\ i_pdpt \in 0 .. kPageDirectoryCount /\ i_pd \in 0 .. Entries
  /\ pc \in {"start", "directory", "page", "done"}
  /\ cr3 \in {"firmware", "kernel"}

(* While the kernel's tables are in use, each address below the 64 GiB of  *)
(* the directories is its own translation.                                 *)
IdentityMap ==
  cr3 = "kernel" =>
    \A d \in Directories, e \in Index, page \in Index :
      Walk(0, d, e, page) = d * Entries * Entries + e * Entries + page
===============================================================================
