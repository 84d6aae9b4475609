---------------------------- MODULE MCSegmentLoader ----------------------------
(* Instance of SegmentLoader for TLC: images of up to two segments at any  *)
(* byte address, in ascending order as ELF asks of PT_LOAD headers, that   *)
(* may share a page; a header of another type; and tables around the       *)
(* number of headers that ph_num can count.                                *)
EXTENDS SegmentLoader

CONSTANTS Addresses, Sizes

Load == {h \in [load : {TRUE}, vaddr : Addresses, memsz : Sizes, filesz : Sizes] :
           h.filesz \in {0, h.memsz}}

Other == [load |-> FALSE, vaddr |-> 0, memsz |-> 0, filesz |-> 0]

Ascending(a, b) == a.vaddr + a.memsz <= b.vaddr

MCTables ==
  {<<>>} \cup {<<a>> : a \in Load} \cup {<<Other, a>> : a \in Load}
    \cup {<<t[1], t[2]>> : t \in {u \in Load \X Load : Ascending(u[1], u[2])}}
    \cup {<<a, Other, Other>> : a \in Load}
    \cup {<<Other, Other, Other, a, Other>> : a \in Load}

MCHeaders == {Other, [load |-> TRUE, vaddr |-> 3, memsz |-> 2, filesz |-> 5]}
===============================================================================
