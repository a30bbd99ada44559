-------------------------- MODULE MCPhysicalMemory --------------------------
(* Instances of PhysicalMemory for TLC. *)
EXTENDS PhysicalMemory

Region(t, a, p) == [type |-> t, physical_addr |-> a, number_of_pages |-> p]

(* Device memory first; holes; two free segments of the same size, the array *)
(* in the first of them; a descriptor without pages; addresses out of order;  *)
(* the stack in memory that the kernel may otherwise use.                     *)
MapWithHoles ==
  << Region("mapped_io", 9, 1), Region("conventional", 2, 2),
     Region("acpi_reclaim", 4, 0), Region("conventional", 7, 2),
     Region("boot_services_data", 6, 1) >>

(* Frame 0 is ordinary free memory. *)
MapFromZero ==
  << Region("conventional", 0, 1), Region("loader_data", 1, 1),
     Region("conventional", 2, 3) >>
=============================================================================
