---------------------------- MODULE BootSequence ----------------------------
(***************************************************************************)
(* _start of src/src/kernel.c: the parts of the kernel brought up one      *)
(* after the other, on machines that differ in what the code relies on and *)
(* does not check.  The allocator and the page tables are those of their   *)
(* own modules, here working together: paging maps the frames of the       *)
(* allocator's array and takes its tables from the allocator's free ones.  *)
(***************************************************************************)
EXTENDS PhysicalMemory

CONSTANTS Machines,                      \* the machines the kernel is started on
          K, LastFrame, Root, Garbage, EntryFrames, PointerFrames,
          PAGE_SZ, FramebufferBase, FramebufferSz, ApicBase, HpetBase, HpetSz, TestPage,
          TestEntry

VARIABLES machine,                       \* what the kernel finds at its start
          step,                          \* what _start does next, or how it ended
          gdt, idt,                      \* whose tables the processor uses
          cr4, efer, apic_base,          \* registers, as the sets of their bits that are 1
          cpu_s, hpet_desc,              \* results kept by _start and HPET_init
          mem, level, table, indexes, paddr, tables, stage, job  \* init_paging

processor == <<gdt, idt, cr4, efer, apic_base>>
results == <<cpu_s, hpet_desc>>
paging == <<mem, level, table, indexes, paddr, tables, stage, job>>
bootvars == <<machine, step, processor, results, paging, vars>>

(***************************************************************************)
(* A machine: the signatures of the tables of its RSDT; whether the APIC   *)
(* is switched on, interrupts are on, the processor checks the reserved    *)
(* bits of cr4, and LA57 is set; and the frames of the firmware's tables.  *)
(***************************************************************************)
ASSUME MachinesAssumption ==
  Machines \subseteq [rsdt : Seq(STRING), apic_on : BOOLEAN, interrupts : BOOLEAN,
                     strict : BOOLEAN, la57 : BOOLEAN, firmware_tables : SUBSET Nat]

(* kernel.pmem->array[k - 1].frame_addr, which the memory map determines. *)
MappedFrames ==
  [k \in 1 .. NumberOfPageFrames |->
     LET d == CHOOSE e \in Entries : k - 1 \in FramesOf(e)
     IN  MemoryDescriptors[d].physical_addr + (k - 1 - FirstFrame[d])]

(* The frames PhysicalMemory__init does not leave free. *)
FramesTaken ==
  FirmwareFrames \cup StackFrames
    \cup {FirstFrame[LargestFreeSegment] + k : k \in 0 .. LockCount - 1}

PG == INSTANCE Paging WITH FrameArray <- MappedFrames,
                           MaxInUse   <- Cardinality(FramesTaken),
                           free       <- {frame_addr[j] : j \in InState(FREE_FRAME)},
                           pc         <- stage

(* The memory the kernel takes frames from. *)
KernelMemory ==
  UNION {Covers(d) : d \in {e \in Entries : KernelMayUse(MemoryDescriptors[e].type)}}

(***************************************************************************)
(* The machine is one that Paging is written for, and the loader has put   *)
(* the kernel, PML4 with it, into memory of a type that the kernel does    *)
(* not use: nothing in the code keeps the allocator from its own frames.   *)
(***************************************************************************)
ASSUME BootAssumption ==
  /\ PG!PagingAssumption /\ PG!MemoryAssumption
  /\ PG!DevicesAssumption /\ PG!PagesAssumption
  /\ Root \notin KernelMemory

-----------------------------------------------------------------------------
(* The order in which _check_cpu_state asks for the features. *)
CpuFeatures == <<"FPU", "MSR", "APIC", "LONG_MODE">>

(* The first feature that is missing, or CPU_SUCCESS. *)
CheckCpuState(features) ==
  LET missing == SelectSeq(CpuFeatures, LAMBDA f : f \notin features)
  IN  IF missing = <<>> THEN "CPU_SUCCESS" ELSE Head(missing)

(* CPUID: a processor that runs the kernel has all but perhaps the APIC, whose *)
(* bit is 0 while the APIC is switched off in its MSR.                         *)
Features == {"FPU", "MSR", "LONG_MODE"} \cup IF 11 \in apic_base THEN {"APIC"} ELSE {}

(* Mutant: the first table of the RSDT is not looked at. *)
GetAcpiStdHeader_FromSecond(rsdt, signature) ==
  LET found == {e \in 2 .. Len(rsdt) : rsdt[e] = signature}
  IN  IF found = {} THEN NULL ELSE CHOOSE e \in found : \A f \in found : e <= f

(* get_acpi_std_header: the first table with the signature, or NULL. *)
GetAcpiStdHeader(rsdt, signature) ==
  LET found == {e \in 1 .. Len(rsdt) : rsdt[e] = signature}
  IN  IF found = {} THEN NULL ELSE CHOOSE e \in found : \A f \in found : e <= f

CR4_PAE  == 5
CR4_LA57 == 12
EFER_LME == 8

(* What _enable_cpu_4_level_paging leaves in cr4: bit 31 set, which the       *)
(* comment calls cr0.PG, PAE set, and bit 57 clear, where the comment has LA57. *)
FourLevelPaging(bits) == (bits \cup {31, CR4_PAE}) \ {57}

-----------------------------------------------------------------------------
BootInit ==
  /\ machine \in Machines
  /\ step = "cpu"
  /\ gdt = "firmware" /\ idt = "firmware"
  /\ cr4 = {CR4_PAE} \cup IF machine.la57 THEN {CR4_LA57} ELSE {}
  /\ efer = {EFER_LME}
  /\ apic_base = IF machine.apic_on THEN {11} ELSE {}
  /\ cpu_s = "none" /\ hpet_desc = NULL
  /\ Init
  /\ PG!NothingMapped /\ stage = "identity" /\ job = 1

(* CPU_init and check_cpu_state; the result is printed and nothing else. *)
CheckCpu ==
  /\ step = "cpu"
  /\ cpu_s' = CheckCpuState(Features)
  /\ step' = "pmem"
  /\ UNCHANGED <<machine, processor, hpet_desc, paging, vars>>

(* Mutant: the kernel goes on before its array of frames is complete. *)
InitPmem_Incomplete ==
  /\ step = "pmem"
  /\ InitPhysicalMemory \/ Initialize
  /\ step' = IF pc' \in {"lock", "ready"} THEN "gdt" ELSE step
  /\ UNCHANGED <<machine, processor, results, paging>>

(* A step of init_physical_memory. *)
InitPmem ==
  /\ step = "pmem"
  /\ InitPhysicalMemory \/ Initialize
  /\ step' = IF pc' = "ready" THEN "gdt" ELSE step
  /\ UNCHANGED <<machine, processor, results, paging>>

InitGdt ==
  /\ step = "gdt"
  /\ gdt' = "kernel"
  /\ step' = "hpet"
  /\ UNCHANGED <<machine, idt, cr4, efer, apic_base, results, paging, vars>>

(* HPET_init enables the counter at the address it reads in the table, even if *)
(* the table is NULL: it then writes to whatever address it finds there.       *)
HpetInit ==
  /\ step = "hpet"
  /\ hpet_desc' = GetAcpiStdHeader(machine.rsdt, "HPET")
  /\ step' = IF hpet_desc' = NULL THEN "wild" ELSE "enable"
  /\ UNCHANGED <<machine, processor, cpu_s, paging, vars>>

(* The start of init_paging.  A processor that checks the reserved bits of cr4 *)
(* faults, and no gate of the firmware's IDT fits the kernel's GDT.            *)
EnablePaging ==
  /\ step = "enable"
  /\ \/ /\ machine.strict
        /\ step' = "dead"
        /\ UNCHANGED <<cr4, efer>>
     \/ /\ ~ machine.strict
        /\ cr4' = FourLevelPaging(cr4)
        /\ efer' = efer \cup {EFER_LME}
        /\ step' = "paging"
  /\ UNCHANGED <<machine, gdt, idt, apic_base, results, paging, vars>>

(* A step of the rest of init_paging, with the allocator's when it requests a  *)
(* frame.  Until cr3 is loaded the processor reads the firmware's tables, and  *)
(* may go astray once one of them is overwritten; with LA57 set it reads one   *)
(* level more than the kernel's tables have.                                   *)
MapMemory ==
  /\ step = "paging"
  /\ UNCHANGED vars \/ PmemRequestFrame
  /\ PG!Next
  /\ step' \in
       CASE stage' \in {"done", "panic"} -> {"idt"}
         [] stage = "identity" /\ stage' = "test" /\ CR4_LA57 \in cr4 -> {"wild"}
         [] stage = "identity" /\ (tables' \ tables) \cap machine.firmware_tables # {}
              -> {"paging", "wild"}
         [] OTHER -> {"paging"}
  /\ UNCHANGED <<machine, processor, results>>

InitIdt ==
  /\ step = "idt"
  /\ idt' = "kernel"
  /\ step' = "acpi"
  /\ UNCHANGED <<machine, gdt, cr4, efer, apic_base, results, paging, vars>>

(* The registers of the APIC and of the HPET are read and printed; the page    *)
(* fault handler, if their pages are not mapped, never returns.                *)
ReadDevices ==
  /\ step = "acpi"
  /\ step' = IF PG!DevicesStayMapped THEN "apic" ELSE "dead"
  /\ UNCHANGED <<machine, processor, results, paging, vars>>

(* APIC_enable, and HTimer_set_one_shot: the end of _start. *)
ApicEnable ==
  /\ step = "apic"
  /\ apic_base' = apic_base \cup {11}
  /\ step' = "loop"
  /\ UNCHANGED <<machine, gdt, idt, cr4, efer, results, paging, vars>>

(* The kernel never masks interrupts, so a loader that leaves them on can be   *)
(* interrupted.  The firmware's gates need the firmware's GDT, and the         *)
(* kernel's IDT has gates for two exceptions only.                             *)
Interrupt ==
  /\ machine.interrupts
  /\ gdt = "kernel"
  /\ step \notin {"dead", "wild"}
  /\ step' = "dead"
  /\ UNCHANGED <<machine, processor, results, paging, vars>>

Start ==
  \/ CheckCpu \/ InitPmem \/ InitGdt \/ HpetInit \/ EnablePaging
  \/ MapMemory \/ InitIdt \/ ReadDevices \/ ApicEnable

BootNext == Start \/ Interrupt

BootSpec == BootInit /\ [][BootNext]_bootvars

(* One processor runs _start, and nothing preempts it for good. *)
BootFairSpec == BootSpec /\ WF_bootvars(Start)

-----------------------------------------------------------------------------
(***************************************************************************)
(* The machines on which nothing the code leaves unchecked goes wrong.     *)
(* That the APIC is switched on is not among it, though check_cpu_state    *)
(* reports its absence as an error.                                        *)
(***************************************************************************)
HasHpetTable == \E e \in 1 .. Len(machine.rsdt) : machine.rsdt[e] = "HPET"

Supported ==
  /\ HasHpetTable
  /\ ~ machine.strict /\ ~ machine.la57 /\ ~ machine.interrupts
  /\ machine.firmware_tables \cap KernelMemory = {}

(***************************************************************************)
(* The memory map has frames enough for the tables of all pages, beside    *)
(* those taken before, and starts with frame 0 if that is in it; and no    *)
(* page to be mapped is where the test of the tables would lose it.        *)
(***************************************************************************)
FitsItsTables == PG!RoomFor(PG!AllPages) /\ PG!FrameZeroFirst /\ PG!TestEntryUnused

(***************************************************************************)
(* The variables have their types, and from the point where the kernel     *)
(* takes the allocator for initialised, it is: each frame of its array has *)
(* the address the memory map gives it, and those it may grant are frames  *)
(* that init_paging maps.                                                  *)
(***************************************************************************)
BootTypeOK ==
  /\ step \in {"cpu", "pmem", "gdt", "hpet", "enable", "paging", "idt", "acpi", "apic",
               "loop", "dead", "wild"}
  /\ {gdt, idt} \subseteq {"firmware", "kernel"}
  /\ TypeOK
  /\ step \notin {"cpu", "pmem"} =>
       /\ pc = "ready"
       /\ \A j \in FrameIds : frame_addr[j] = MappedFrames[j + 1]
       /\ PG!PagingTypeOK

(***************************************************************************)
(* On any machine: a boot that ends in a fault or a dereference that       *)
(* nothing handles has met one of five things the code does not check, and *)
(* at the point where that matters: an interrupt, once the kernel's GDT is *)
(* loaded; an RSDT without HPET table, or a processor that checks cr4's    *)
(* reserved bits, before any table is built; a table built over one of the *)
(* firmware's, which are in force; LA57, when cr3 is loaded.  Nothing else *)
(* loses a boot, neither the tables nor the allocator nor a switched-off   *)
(* APIC; and but for the interrupt and the firmware's tables, no boot on   *)
(* such a machine gets further.                                            *)
(***************************************************************************)
LostForCause ==
  /\ step \in {"dead", "wild"} =>
       \/ machine.interrupts /\ gdt = "kernel"
       \/ ~ HasHpetTable /\ hpet_desc = NULL /\ tables = {Root}
       \/ machine.strict /\ hpet_desc # NULL /\ tables = {Root}
       \/ machine.firmware_tables \cap (tables \ {Root}) # {} /\ stage = "identity"
       \/ machine.la57 /\ stage = "test"
  /\ tables # {Root} => HasHpetTable /\ ~ machine.strict
  /\ step \in {"idt", "acpi", "apic", "loop"} => ~ machine.la57

(***************************************************************************)
(* On any machine: building the page tables overwrites no frame of the     *)
(* firmware, of the boot loader, of the stack or of the allocator's array; *)
(* but for PML4, a variable of the kernel, and frame 0, which the test of  *)
(* the new tables writes.                                                  *)
(***************************************************************************)
ProtectedIntact ==
  \A j \in ProtectedFrames :
    LET a == MappedFrames[j + 1] IN a \notin {Root, NULL} => mem[a] = Garbage

(* Every boot comes to an end, on any machine: none is stuck in the allocator's *)
(* loops or in building the tables.  On a supported one the end is the last loop. *)
BootCompletes ==
  /\ <>(step \in {"loop", "dead", "wild"})
  /\ [](Supported => <>(step = "loop"))
=============================================================================
