------------------------------- MODULE CpuTables -------------------------------
(***************************************************************************)
(* KernelBoot in the detail of the tables themselves: the descriptors that *)
(* SetupSegments writes (kernel/segment.cpp), the gates InitializeInterrupt*)
(* writes (kernel/interrupt.cpp), the page tables (PageTables), the        *)
(* instructions that load them (kernel/asmfunc.asm), and the processor     *)
(* that looks a selector up in the GDT and an exception in the IDT.  It    *)
(* implements KernelBoot.                                                  *)
(*                                                                         *)
(* A descriptor is a record of its bit fields, addresses are cut into the  *)
(* same pieces as in the code.  The tables lie in .bss, which nobody       *)
(* clears: an entry not yet written is Garbage.  KernelMain's own pc is     *)
(* step; pc is that of SetupIdentityPageTable.                             *)
(***************************************************************************)
EXTENDS PageTables

CONSTANTS
  Half, Quarter,      \* 2^16 and 2^8, the pieces of offsets, limits and bases
  FirmwareSelectors,  \* the code selectors the firmware may use
  IntDefault, IntSegFault,  \* the addresses of the two handlers
  Vectors

(* What a descriptor and a gate can hold.                                  *)
Descriptor ==
  [base_low : 0 .. Half - 1, base_middle : 0 .. Quarter - 1, base_high : 0 .. Quarter - 1,
   limit_low : 0 .. Half - 1, limit_high : 0 .. 15, type : 0 .. 15, system_segment : 0 .. 1,
   descriptor_privilege_level : 0 .. 3, present : 0 .. 1, long_mode : 0 .. 1,
   default_operation_size : 0 .. 1, granularity : 0 .. 1]

Attribute ==
  [type : 0 .. 15, descriptor_privilege_level : 0 .. 3, present : 0 .. 1,
   interrupt_stack_table : 0 .. 7]

Gate ==
  [attr : Attribute, segment_selector : Nat, offset_low : 0 .. Half - 1,
   offset_middle : 0 .. Half - 1, offset_high : Nat]

ASSUME WidthAssumption == Half \in Nat \ {0} /\ Quarter \in Nat \ {0}
ASSUME SelectorAssumption == FirmwareSelectors \subseteq Nat
(* Two functions have two addresses.                                       *)
ASSUME HandlerAssumption == IntDefault \in Nat /\ IntSegFault \in Nat \ {IntDefault}
ASSUME VectorAssumption == Vectors \subseteq 0 .. 255
ASSUME GarbageAssumption == Garbage \notin Descriptor /\ Garbage \notin Gate

VARIABLES
  step,          \* the step KernelMain takes next
  i,             \* the loop of InitializeInterrupt
  table,         \* the array gdt[3]
  idt,           \* the array idt[256]
  gdtr, idtr,    \* the limit of the table the processor uses, or Firmware
  cs, ss, ds,    \* selector in each segment register, and whose choice it is
  firmware_cs,   \* the selector in the firmware's gates
  done,          \* the steps taken that leave these tables alone
  cpu, vector, handler

registers == <<gdtr, idtr, cs, ss, ds>>
struck == <<cpu, vector, handler>>
tableVars == <<step, i, table, idt, registers, firmware_cs, done, struck, pageVars>>

NullDescriptor == [data |-> 0]
Firmware == -1

-------------------------------------------------------------------------------
kReadWrite == 2
kExecuteRead == 10
kInterruptGate == 14

SetCodeSegment(type, dpl, base, limit) ==
  [base_low |-> base % Half, base_middle |-> (base \div Half) % Quarter,
   base_high |-> (base \div (Half * Quarter)) % Quarter,
   limit_low |-> limit % Half, limit_high |-> (limit \div Half) % 16,
   type |-> type, system_segment |-> 1, descriptor_privilege_level |-> dpl,
   present |-> 1, long_mode |-> 1, default_operation_size |-> 0, granularity |-> 1]

SetDataSegment(type, dpl, base, limit) ==
  [SetCodeSegment(type, dpl, base, limit) EXCEPT
     !.long_mode = 0, !.default_operation_size = 1]

MaxLimit == 16 * Half - 1  \* 0xfffff

GdtLimit == 8 * 3 - 1

kernel_cs == 8
kernel_ss == 16

(* What the processor reads a descriptor as.                               *)
IsSegment(d) == d \notin {Garbage, NullDescriptor} /\ d.present = 1 /\ d.system_segment = 1

IsCode64(d) ==
  /\ IsSegment(d) /\ d.type = kExecuteRead
  /\ d.long_mode = 1 /\ d.default_operation_size = 0 /\ d.descriptor_privilege_level = 0

IsStack(d) ==
  IsSegment(d) /\ d.type = kReadWrite /\ d.descriptor_privilege_level = 0

(* The kernel's GDT has a descriptor for a selector.                       *)
InGdt(selector) == selector >= 8 /\ selector + 7 <= gdtr

EntersCode(selector) ==
  IF gdtr = Firmware THEN selector = firmware_cs
  ELSE InGdt(selector) /\ IsCode64(table[selector \div 8])

-------------------------------------------------------------------------------
Attributes(type, dpl) ==
  [type |-> type, descriptor_privilege_level |-> dpl, present |-> 1, interrupt_stack_table |-> 0]

SetIDTEntry(attr, offset, selector) ==
  [attr |-> attr, segment_selector |-> selector,
   offset_low |-> offset % Half, offset_middle |-> (offset \div Half) % Half,
   offset_high |-> offset \div (Half * Half)]

(* Where a gate leads.                                                     *)
Offset(gate) == gate.offset_low + Half * (gate.offset_middle + Half * gate.offset_high)

TablesInit ==
  /\ PageInit
  /\ step = "entry" /\ i = 0
  /\ table = [k \in 0 .. 2 |-> Garbage]
  /\ idt = [v \in 0 .. 255 |-> Garbage]
  /\ gdtr = Firmware /\ idtr = Firmware
  /\ firmware_cs \in FirmwareSelectors
  /\ cs = [selector |-> firmware_cs, by |-> "firmware"]
  /\ ss = cs /\ ds = cs
  /\ done = {}
  /\ cpu = "running" /\ vector = -1 /\ handler = "none"

Running(s) == cpu = "running" /\ step = s /\ UNCHANGED <<firmware_cs, vector, handler>>

At(s) == Running(s) /\ UNCHANGED pageVars

Goto(s) == step' = s /\ UNCHANGED cpu

(* The stack, InitializeScreen, the memory manager and its heap.           *)
OtherStep(s, next) ==
  /\ At(s) /\ Goto(next)
  /\ done' = done \cup {s}
  /\ UNCHANGED <<i, table, idt, registers>>

LoadGDT(limit) == gdtr' = limit

SetupSegments ==
  /\ At("gdt") /\ Goto("ds")
  /\ table' = [table EXCEPT
       ![0] = NullDescriptor,
       ![1] = SetCodeSegment(kExecuteRead, 0, 0, MaxLimit),
       ![2] = SetDataSegment(kReadWrite, 0, 0, MaxLimit)]
  /\ LoadGDT(GdtLimit)
  /\ UNCHANGED <<i, idt, idtr, cs, ss, ds, done>>

SetDSAll(selector) ==
  /\ At("ds") /\ Goto("csss")
  /\ ds' = [selector |-> selector, by |-> "kernel"]
  /\ UNCHANGED <<i, table, idt, gdtr, idtr, cs, ss, done>>

(* mov ss, then a far return; each faults on a selector that does not fit. *)
SetCSSS(code, stack) ==
  /\ At("csss")
  /\ IF InGdt(stack) /\ IsStack(table[stack \div 8]) /\ EntersCode(code)
     THEN /\ ss' = [selector |-> stack, by |-> "kernel"]
          /\ cs' = [selector |-> code, by |-> "kernel"]
          /\ Goto("paging")
     ELSE cpu' = "faulted" /\ UNCHANGED <<step, ss, cs>>
  /\ UNCHANGED <<i, table, idt, gdtr, idtr, ds, done>>

SetupPaging ==
  /\ Running("paging") /\ PageNext
  /\ Goto(IF pc' = "done" THEN "gates" ELSE "paging")
  /\ UNCHANGED <<i, table, idt, registers, done>>

(* Mutant: a gate too few.                                                 *)
GateLoopShort == i < 19

GateLoop == i < 20

GetCS == cs.selector

SetGate ==
  /\ At("gates") /\ GateLoop
  /\ idt' = [idt EXCEPT ![i] = SetIDTEntry(Attributes(kInterruptGate, 0), IntDefault, GetCS)]
  /\ i' = i + 1
  /\ UNCHANGED <<step, table, registers, done, cpu>>

SetFaultGate ==
  /\ At("gates") /\ ~GateLoop /\ Goto("idt")
  /\ idt' = [idt EXCEPT ![12] = SetIDTEntry(Attributes(kInterruptGate, 0), IntSegFault, GetCS)]
  /\ UNCHANGED <<i, table, registers, done>>

LoadIDT ==
  /\ At("idt") /\ Goto("memory")
  /\ idtr' = 16 * 256 - 1
  /\ UNCHANGED <<i, table, idt, gdtr, cs, ss, ds, done>>

Initialize ==
  \/ OtherStep("entry", "screen")
  \/ OtherStep("screen", "gdt")
  \/ SetupSegments
  \/ SetDSAll(0)
  \/ SetCSSS(kernel_cs, kernel_ss)
  \/ SetupPaging
  \/ SetGate
  \/ SetFaultGate
  \/ LoadIDT
  \/ OtherStep("memory", "heap")
  \/ OtherStep("heap", "idle")
  \/ OtherStep("heap", "failed")

-------------------------------------------------------------------------------
(* The processor takes an exception: a gate must be present and of its     *)
(* type, its selector must name 64-bit code, its offset is jumped to.      *)
Deliver(v, gate) ==
  IF /\ 16 * v + 15 <= idtr /\ gate.attr.present = 1 /\ gate.attr.type = kInterruptGate
     /\ EntersCode(gate.segment_selector)
  THEN CASE Offset(gate) = IntDefault -> cpu' = "kernel_handler" /\ handler' = "IntDefault"
         [] Offset(gate) = IntSegFault -> cpu' = "kernel_handler" /\ handler' = "IntSegFault"
         [] OTHER -> cpu' = "wild" /\ handler' = "none"
  ELSE cpu' = "reset" /\ handler' = "none"

Exception(v) ==
  /\ cpu = "running" /\ vector' = v
  /\ CASE idtr = Firmware ->
            /\ cpu' = IF EntersCode(firmware_cs) THEN "firmware_handler" ELSE "reset"
            /\ UNCHANGED handler
       [] idtr # Firmware /\ idt[v] = Garbage ->
            \E r \in {<<"wild", "none">>, <<"reset", "none">>,
                     <<"kernel_handler", "IntDefault">>} :
              cpu' = r[1] /\ handler' = r[2]
       [] OTHER -> Deliver(v, idt[v])
  /\ UNCHANGED <<step, i, table, idt, registers, firmware_cs, done, pageVars>>

TablesSpec ==
  TablesInit /\ [][Initialize \/ \E v \in Vectors : Exception(v)]_tableVars

-------------------------------------------------------------------------------
Boot == INSTANCE KernelBoot WITH
  pc <- step,
  gdt <- IF gdtr = Firmware THEN "firmware" ELSE "kernel",
  idt <- IF idtr = Firmware THEN "firmware" ELSE "kernel",
  cs <- cs.by, ss <- ss.by, ds <- ds.by,
  rsp <- IF "entry" \in done THEN "kernel" ELSE "firmware",
  gate_cs <- IF step \in {"idt", "memory", "heap", "idle", "failed"} THEN cs.by ELSE "none",
  gScreen <- "screen" \in done,
  allocatable <- "memory" \in done

(* The tables do what KernelBoot says of the steps that write them: every  *)
(* gate set leads to its handler through the code segment loaded, and an   *)
(* exception before that is the firmware's or resets the machine.          *)
ImplementsKernelBoot == Boot!BootInit /\ [][Boot!BootNext]_(Boot!bootVars)
===============================================================================
