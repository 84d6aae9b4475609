------------------------------- MODULE KernelBoot -------------------------------
(***************************************************************************)
(* The order in which entry_point (kernel/asmfunc.asm) and KernelMain      *)
(* (kernel/kernel.cpp) replace what the firmware left in the processor -   *)
(* stack, segments, page tables, interrupt table - and an exception that   *)
(* may strike before any of their steps.                                   *)
(*                                                                         *)
(* A table, a register or a selector is the firmware's or the kernel's.    *)
(* The firmware's tables lie in boot services memory, which the memory     *)
(* manager treats as available.  Whether a code selector of the firmware   *)
(* also names a code segment of the kernel's GDT is left open.  The memory *)
(* manager's set-up, the subject of KernelMemory, is one step here, and    *)
(* steps that only draw are left out.  KernelMain never enables            *)
(* interrupts: what may strike is an exception or an NMI.                  *)
(***************************************************************************)
EXTENDS Integers

CONSTANT Vectors  \* the exceptions considered

ASSUME VectorAssumption == Vectors \subseteq 0 .. 255

VARIABLES
  pc,          \* the step KernelMain takes next
  gdt, cr3,    \* who provides the descriptors, the page tables ...
  idt,         \* ... and the interrupt table the processor uses
  cs, ss, ds,  \* who chose the loaded selectors
  rsp,         \* whose memory the stack is in
  gate_cs,     \* the selector that InitializeInterrupt has put in its gates
  gScreen,     \* gScreen is set
  allocatable, \* the memory manager may hand out boot services memory
  cpu,         \* what the processor does
  vector,      \* the exception that struck
  handler      \* the kernel's handler it entered

tables == <<gdt, cr3, idt, gate_cs>>
selectors == <<cs, ss, ds, rsp>>
struck == <<cpu, vector, handler>>
bootVars == <<pc, tables, selectors, gScreen, allocatable, struck>>

None == "none"
NoVector == -1

BootInit ==
  /\ pc = "entry"
  /\ gdt = "firmware" /\ cr3 = "firmware" /\ idt = "firmware"
  /\ cs = "firmware" /\ ss = "firmware" /\ ds = "firmware"
  /\ rsp = "firmware"
  /\ gate_cs = None
  /\ gScreen = FALSE
  /\ allocatable = FALSE
  /\ cpu = "running" /\ vector = NoVector /\ handler = None

-------------------------------------------------------------------------------
(* The order of KernelMain's steps; each mutant moves one of them.         *)
GatesFirst ==
  [entry |-> "screen",
   screen |-> "gates", gates |-> "gdt", gdt |-> "ds", ds |-> "csss", csss |-> "paging",
   paging |-> "idt", idt |-> "memory", memory |-> "heap", heap |-> "idle"]

IdtFirst ==
  [entry |-> "screen",
   screen |-> "gdt", gdt |-> "ds", ds |-> "gates", gates |-> "idt", idt |-> "csss",
   csss |-> "paging", paging |-> "memory", memory |-> "heap", heap |-> "idle"]

MemoryFirst ==
  [entry |-> "screen",
   screen |-> "gdt", gdt |-> "ds", ds |-> "csss", csss |-> "memory",
   memory |-> "paging", paging |-> "gates", gates |-> "idt", idt |-> "heap",
   heap |-> "idle"]

After ==
  [entry |-> "screen",
   screen |-> "gdt", gdt |-> "ds", ds |-> "csss", csss |-> "paging",
   paging |-> "gates", gates |-> "idt", idt |-> "memory", memory |-> "heap",
   heap |-> "idle"]

Step(s) ==
  /\ cpu = "running" /\ pc = s
  /\ pc' = After[s]
  /\ UNCHANGED struck

(* entry_point takes kernel_main_stack for the stack.                      *)
EntryPoint ==
  /\ Step("entry")
  /\ rsp' = "kernel"
  /\ UNCHANGED <<tables, cs, ss, ds, gScreen, allocatable>>

SetScreen ==
  /\ Step("screen")
  /\ gScreen' = TRUE
  /\ UNCHANGED <<tables, selectors, allocatable>>

SetupSegments ==
  /\ Step("gdt")
  /\ gdt' = "kernel"
  /\ UNCHANGED <<cr3, idt, gate_cs, selectors, gScreen, allocatable>>

(* The null selector.                                                      *)
SetDSAll ==
  /\ Step("ds")
  /\ ds' = "kernel"
  /\ UNCHANGED <<tables, cs, ss, rsp, gScreen, allocatable>>

SetCSSS ==
  /\ Step("csss")
  /\ cs' = "kernel" /\ ss' = "kernel"
  /\ UNCHANGED <<tables, ds, rsp, gScreen, allocatable>>

SetupIdentityPageTable ==
  /\ Step("paging")
  /\ cr3' = "kernel"
  /\ UNCHANGED <<gdt, idt, gate_cs, selectors, gScreen, allocatable>>

(* InitializeInterrupt: GetCS for the gates, then LoadIDT.                 *)
SetGates ==
  /\ Step("gates")
  /\ gate_cs' = cs
  /\ UNCHANGED <<gdt, cr3, idt, selectors, gScreen, allocatable>>

LoadIDT ==
  /\ Step("idt")
  /\ idt' = "kernel"
  /\ UNCHANGED <<gdt, cr3, gate_cs, selectors, gScreen, allocatable>>

SetMemoryManager ==
  /\ Step("memory")
  /\ allocatable' = TRUE
  /\ UNCHANGED <<tables, selectors, gScreen>>

(* InitializeHeap succeeds, and KernelMain goes on to its idle loop, or    *)
(* fails, and KernelMain stays in the loop of the failure.                 *)
SetHeap ==
  /\ \/ Step("heap")
     \/ cpu = "running" /\ pc = "heap" /\ pc' = "failed" /\ UNCHANGED struck
  /\ UNCHANGED <<tables, selectors, gScreen, allocatable>>

KernelMain ==
  \/ EntryPoint
  \/ SetScreen
  \/ SetupSegments
  \/ SetDSAll
  \/ SetCSSS
  \/ SetupIdentityPageTable
  \/ SetGates
  \/ LoadIDT
  \/ SetMemoryManager
  \/ SetHeap

-------------------------------------------------------------------------------
(* The gates InitializeInterrupt sets.                                     *)
GateCount == 20

Handler(v) == IF v = 12 THEN "IntSegFault" ELSE "IntDefault"

(* An exception enters code through a gate's selector, which is good in    *)
(* the GDT it was chosen for and may be good in the kernel's GDT; else the *)
(* exception of the entry fails alike, and the processor resets.           *)
Enter(selector, by) ==
  \/ cpu' = by
  \/ selector # gdt /\ cpu' = "reset"

FirmwareException(v) ==
  /\ idt = "firmware"
  /\ Enter("firmware", "firmware_handler")
  /\ UNCHANGED handler

KernelException(v) ==
  /\ idt = "kernel" /\ v < GateCount
  /\ Enter(gate_cs, "kernel_handler")
  /\ handler' = IF cpu' = "reset" THEN None ELSE Handler(v)

(* idt[20] and above are never written, and the loader does not clear the  *)
(* kernel's .bss: such a gate may hold anything.                           *)
UnsetGate(v) ==
  /\ idt = "kernel" /\ v >= GateCount
  /\ \/ Enter(gate_cs, "kernel_handler") /\ handler' = IF cpu' = "reset" THEN None ELSE "IntDefault"
     \/ cpu' \in {"wild", "reset"} /\ UNCHANGED handler

(* Handlers do not return.                                                 *)
Exception(v) ==
  /\ cpu = "running"
  /\ vector' = v
  /\ FirmwareException(v) \/ KernelException(v) \/ UnsetGate(v)
  /\ UNCHANGED <<pc, tables, selectors, gScreen, allocatable>>

BootNext == KernelMain \/ \E v \in Vectors : Exception(v)

BootSpec == BootInit /\ [][BootNext]_bootVars

-------------------------------------------------------------------------------
Provider == {"firmware", "kernel"}

(* Type invariant; a kernel handler that runs is one of the two.           *)
BootTypeOK ==
  /\ pc \in {"entry", "screen", "gdt", "ds", "csss", "paging", "gates", "idt",
             "memory", "heap", "idle", "failed"}
  /\ {gdt, cr3, idt, cs, ss, ds, rsp} \subseteq Provider
  /\ gate_cs \in Provider \cup {None}
  /\ gScreen \in BOOLEAN /\ allocatable \in BOOLEAN
  /\ cpu \in {"running", "kernel_handler", "firmware_handler", "wild", "reset"}
  /\ vector \in Vectors \cup {NoVector}
  /\ handler \in {"IntDefault", "IntSegFault", None}
  /\ cpu = "kernel_handler" <=> handler # None

(* An exception that has one of the kernel's gates is always handled: the  *)
(* selector in the gate is good in the GDT in use.  The machine resets     *)
(* only in the window between LoadGDT and LoadIDT, where the firmware's    *)
(* gates are used with the kernel's GDT, or for a gate never set.          *)
ResetOnlyInWindow ==
  cpu = "reset" => (gdt = "kernel" /\ idt = "firmware") \/ vector >= GateCount

(* The handlers print, through gScreen, on a stack and in a page table     *)
(* that the kernel owns, with the kernel's own segments loaded.            *)
HandlerCanPrint ==
  cpu = "kernel_handler" =>
    gScreen /\ {gdt, cr3, idt, cs, ss, ds, rsp} = {"kernel"}

(* Before memory that the firmware's tables lie in can be handed out, the  *)
(* processor uses none of them, nor a selector of the firmware's GDT, nor  *)
(* the stack the loader ran on.                                            *)
FirmwareTablesDropped ==
  allocatable => {gdt, cr3, idt, cs, ss, ds, rsp} = {"kernel"}
===============================================================================
