--------------------------- MODULE MCBootSequence ---------------------------
(* Instances of BootSequence for TLC. *)
EXTENDS BootSequence

Region(t, a, p) == [type |-> t, physical_addr |-> a, number_of_pages |-> p]

(* Frame 0 usable and the first to be granted; the kernel, with PML4, in        *)
(* memory of the loader; the stack in memory that the kernel may otherwise use; *)
(* the array in the largest segment; the tables of the firmware in the last two *)
(* regions, of which the kernel may use one.                                    *)
MapOfBoot ==
  << Region("boot_services_code", 0, 2), Region("loader_data", 2, 2),
     Region("acpi_reclaim", 4, 1), Region("conventional", 5, 9),
     Region("boot_services_data", 14, 1), Region("runtime_services_data", 15, 1) >>

MostlyPresent == [j \in 0 .. K-1 |-> [present |-> j # 0, frame |-> 1]]

Variants ==
  [rsdt : {<<"HPET", "FACP">>, <<"FACP", "HPET", "HPET">>, <<"FACP">>},
   apic_on : BOOLEAN, interrupts : BOOLEAN, strict : BOOLEAN, la57 : BOOLEAN,
   firmware_tables : {{14}, {15}, {1}}]

(* The machine of this instance is one that the theorems are about. *)
ASSUME InstanceSupported == FitsItsTables /\ PG!SizesRoundUp
=============================================================================
