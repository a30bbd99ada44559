----------------------------- MODULE MemoryMap -----------------------------
(***************************************************************************)
(* The memory map the boot loader hands over (src/src/memory/mmap.h and    *)
(* mmap.c) and the search for the largest free segment in pmem.c.          *)
(*                                                                         *)
(* Addresses are counted in page frames: the address a of the model is the *)
(* byte address a * FRAME_SZ, and every byte of a frame has the frame's    *)
(* address.  The descriptors of UEFI are page aligned, so nothing is lost. *)
(***************************************************************************)
EXTENDS Naturals, Sequences

CONSTANT MemoryDescriptors    \* kernel.memory: the descriptors, in map order

NULL == 0                     \* the null pointer is also the address of frame 0

EfiMemoryType ==
  { "reserved", "loader_code", "loader_data", "boot_services_code",
    "boot_services_data", "runtime_services_code", "runtime_services_data",
    "conventional", "unusable", "acpi_reclaim", "acpi_nvs",
    "mapped_io", "mapped_io_port_space", "pal_code", "max" }

EfiMemoryDescriptor ==
  [type : EfiMemoryType, physical_addr : Nat, number_of_pages : Nat]

Entries == 1 .. Len(MemoryDescriptors)

(***************************************************************************)
(* FirstFrame[i] is the number of frames the descriptors before i cover:   *)
(* the value of `result` in get_number_of_page_frames, and of `frame_id`   *)
(* in PhysicalMemory__init, when the loop reaches descriptor i.            *)
(***************************************************************************)
FirstFrame[i \in 1 .. Len(MemoryDescriptors) + 1] ==
  IF i = 1 THEN 0
           ELSE FirstFrame[i-1] + MemoryDescriptors[i-1].number_of_pages

NumberOfPageFrames == FirstFrame[Len(MemoryDescriptors) + 1]

FrameIds == 0 .. NumberOfPageFrames - 1

(* The addresses a descriptor covers. *)
Covers(i) ==
  LET d == MemoryDescriptors[i]
  IN  d.physical_addr .. d.physical_addr + d.number_of_pages - 1

(***************************************************************************)
(* __get_largest_free_mem_seg: the first of the longest conventional       *)
(* segments; a segment without pages is never larger than the initial 0.   *)
(***************************************************************************)
FreeSegments ==
  { i \in Entries : /\ MemoryDescriptors[i].type = "conventional"
                    /\ MemoryDescriptors[i].number_of_pages > 0 }

IsLargestFreeSegment(i) ==
  /\ i \in FreeSegments
  /\ \A j \in FreeSegments :
       LET size(k) == MemoryDescriptors[k].number_of_pages
       IN  size(j) < size(i) \/ (size(j) = size(i) /\ i <= j)

LargestFreeSegment == CHOOSE i \in Entries : IsLargestFreeSegment(i)

LargestFreeMemSeg ==
  IF FreeSegments = {} THEN NULL ELSE MemoryDescriptors[LargestFreeSegment].physical_addr

(* What UEFI promises of the map: descriptors of distinct memory. *)
ASSUME MemoryMapAssumption ==
  /\ MemoryDescriptors \in Seq(EfiMemoryDescriptor)
  /\ \A i, j \in Entries :
       i # j => /\ MemoryDescriptors[i].physical_addr # MemoryDescriptors[j].physical_addr
                /\ Covers(i) \cap Covers(j) = {}
=============================================================================
