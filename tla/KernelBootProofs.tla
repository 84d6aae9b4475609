---------------------------- MODULE KernelBootProofs ----------------------------
(***************************************************************************)
(* What holds while KernelMain replaces the firmware's tables, for every   *)
(* set of exceptions that may strike.  The step KernelMain takes next      *)
(* tells which tables are the kernel's already; an exception freezes it.   *)
(***************************************************************************)
EXTENDS KernelBoot, TLAPS

(* The steps after which each table, register or flag is the kernel's.     *)
Replaced ==
  /\ rsp = "kernel" <=> pc # "entry"
  /\ gScreen <=> pc \notin {"entry", "screen"}
  /\ gdt = "kernel" <=> pc \notin {"entry", "screen", "gdt"}
  /\ ds = "kernel" <=> pc \notin {"entry", "screen", "gdt", "ds"}
  /\ cs = "kernel" <=> pc \notin {"entry", "screen", "gdt", "ds", "csss"}
  /\ ss = "kernel" <=> pc \notin {"entry", "screen", "gdt", "ds", "csss"}
  /\ cr3 = "kernel" <=> pc \notin {"entry", "screen", "gdt", "ds", "csss", "paging"}
  /\ idt = "kernel" => gate_cs = "kernel"
  /\ pc = "idt" => gate_cs = "kernel"
  /\ idt = "kernel" <=> pc \in {"memory", "heap", "idle", "failed"}
  /\ allocatable <=> pc \in {"heap", "idle", "failed"}

(* Only a gate of the kernel's leads to a handler of the kernel's.         *)
StruckOnce ==
  /\ cpu = "running" => handler = None
  /\ cpu = "kernel_handler" => idt = "kernel"

BootInv == BootTypeOK /\ Replaced /\ StruckOnce /\ ResetOnlyInWindow

-------------------------------------------------------------------------------
(* The firmware's tables are in use, and nothing has struck.               *)
LEMMA InitBootInv == BootInit => BootInv
  BY DEF BootInit, BootInv, BootTypeOK, Replaced, StruckOnce, ResetOnlyInWindow,
         Provider, None, NoVector

(* Each step leads to the next.                                            *)
LEMMA Order ==
  /\ After["entry"] = "screen" /\ After["screen"] = "gdt" /\ After["gdt"] = "ds" /\ After["ds"] = "csss"
  /\ After["csss"] = "paging" /\ After["paging"] = "gates" /\ After["gates"] = "idt"
  /\ After["idt"] = "memory" /\ After["memory"] = "heap" /\ After["heap"] = "idle"
  BY DEF After

(* A step of KernelMain replaces what it is there to replace.              *)
LEMMA KernelMainInv == BootInv /\ KernelMain => BootInv'
<1> SUFFICES ASSUME BootInv, KernelMain PROVE BootInv'
    OBVIOUS
<1> USE Order DEF BootInv, BootTypeOK, Replaced, StruckOnce, ResetOnlyInWindow, Provider,
                  None, NoVector, Step, tables, selectors, struck
<1>0. CASE EntryPoint
    BY <1>0 DEF EntryPoint
<1>1. CASE SetScreen
    BY <1>1 DEF SetScreen
<1>2. CASE SetupSegments
    BY <1>2 DEF SetupSegments
<1>3. CASE SetDSAll
    BY <1>3 DEF SetDSAll
<1>4. CASE SetCSSS
    BY <1>4 DEF SetCSSS
<1>5. CASE SetupIdentityPageTable
    BY <1>5 DEF SetupIdentityPageTable
<1>6. CASE SetGates
    BY <1>6 DEF SetGates
<1>7. CASE LoadIDT
    BY <1>7 DEF LoadIDT
<1>8. CASE SetMemoryManager
    BY <1>8 DEF SetMemoryManager
<1>9. CASE SetHeap
    BY <1>9 DEF SetHeap
<1> QED
    BY <1>0, <1>1, <1>2, <1>3, <1>4, <1>5, <1>6, <1>7, <1>8, <1>9 DEF KernelMain

(* An exception goes through the table in use at the moment it strikes.    *)
LEMMA ExceptionInv ==
  ASSUME BootInv, NEW v \in Vectors, Exception(v)
  PROVE  BootInv'
<1> USE DEF BootInv, BootTypeOK, Replaced, StruckOnce, ResetOnlyInWindow, Provider,
            None, NoVector, tables, selectors, Exception, Enter
<1>1. CASE FirmwareException(v)
    BY <1>1 DEF FirmwareException
<1>2. CASE KernelException(v)
    BY <1>2 DEF KernelException, Handler
<1>3. CASE UnsetGate(v)
    BY <1>3 DEF UnsetGate
<1> QED
    BY <1>1, <1>2, <1>3

(* The invariant holds in every reachable state.                           *)
LEMMA BootInvariant == BootSpec => []BootInv
<1>1. BootInv /\ [BootNext]_bootVars => BootInv'
  <2> SUFFICES ASSUME BootInv, [BootNext]_bootVars PROVE BootInv'
      OBVIOUS
  <2>1. CASE BootNext
      BY <2>1, KernelMainInv, ExceptionInv DEF BootNext
  <2>2. CASE UNCHANGED bootVars
      BY <2>2 DEF bootVars, tables, selectors, struck, BootInv, BootTypeOK, Replaced,
                  StruckOnce, ResetOnlyInWindow
  <2> QED
      BY <2>1, <2>2
<1> QED
    BY <1>1, InitBootInv, PTL DEF BootSpec

-------------------------------------------------------------------------------
(* Every variable keeps its type; a handler that runs is one of the two.   *)
THEOREM BootTyped == BootSpec => []BootTypeOK
<1>1. BootInv => BootTypeOK
    BY DEF BootInv
<1> QED
    BY <1>1, BootInvariant, PTL

(* Whatever exceptions strike, and whenever, the machine resets only       *)
(* between LoadGDT and LoadIDT or for a gate that was never set.           *)
THEOREM ResetsOnlyInWindow == BootSpec => []ResetOnlyInWindow
<1>1. BootInv => ResetOnlyInWindow
    BY DEF BootInv
<1> QED
    BY <1>1, BootInvariant, PTL

(* A handler finds the screen, the stack, the segments and the page tables *)
(* it prints with, whenever the exception strikes.                         *)
THEOREM HandlersPrint == BootSpec => []HandlerCanPrint
<1>1. BootInv => HandlerCanPrint
    BY DEF BootInv, BootTypeOK, Provider, Replaced, StruckOnce, HandlerCanPrint
<1> QED
    BY <1>1, BootInvariant, PTL

(* No table of the firmware is in use once its memory can be granted.      *)
THEOREM TablesDropped == BootSpec => []FirmwareTablesDropped
<1>1. BootInv => FirmwareTablesDropped
    BY DEF BootInv, BootTypeOK, Provider, Replaced, FirmwareTablesDropped
<1> QED
    BY <1>1, BootInvariant, PTL
===============================================================================
