----------------------------- MODULE PageTables -----------------------------
(***************************************************************************)
(* The 4-level page tables of src/src/memory/paging.c: the walk of         *)
(* map_vaddr_to_paddr, which creates the tables that are missing, the walk *)
(* of is_page_present, and the walk of the processor.                      *)
(*                                                                         *)
(* Memory is a set of frames, and what matters of a frame is what a walk   *)
(* reads there if it takes the frame for a table: for each index whether   *)
(* the entry is present, and the frame number in it.  A page or frame is   *)
(* its number (the address without its 12 offset bits).  The bits rw, us,  *)
(* and the others of an entry are left out: map_vaddr_to_paddr sets rw of  *)
(* every entry it makes present and touches no other.                      *)
(***************************************************************************)
EXTENDS Integers, Sequences, FiniteSets

CONSTANTS K,                  \* entries of a table (512)
          LastFrame,          \* the machine has the frames 0 .. LastFrame
          FrameArray,         \* frame_addr of kernel.pmem->array, in order
          Root,               \* the frame of PML4, a variable of the kernel
          Garbage,            \* what a frame nobody has cleared holds
          EntryFrames,        \* frame numbers an entry's 32 bits can hold
          PointerFrames,      \* frame numbers left by the 32-bit shift (2^20)
          MaxInUse            \* how many frames may be in use at the start

NULL == 0                     \* the null pointer is also the address of frame 0
Unmapped == -1

Physical == 0 .. LastFrame
Managed == {FrameArray[j] : j \in DOMAIN FrameArray}

Index == 0 .. K-1
Level == 1 .. 4               \* 4: PML4, 3: PDPT, 2: PD, 1: PT
Paths == [Level -> Index]     \* VaddrIndexes

Entry == [present : BOOLEAN, frame : Nat]
EmptyTable == [j \in Index |-> [present |-> FALSE, frame |-> 0]]

(***************************************************************************)
(* A frame number is stored in a bit field of 32 bits.  Read back as a     *)
(* pointer, it is shifted left by 12 in 32-bit arithmetic (the type a bit  *)
(* field of 32 bits has in the build), which drops the upper 12 bits.      *)
(***************************************************************************)
Stored(frame) == frame % EntryFrames

(* Mutant: the frame number is not shifted back to the right address. *)
Pointer_Shifted(frame) == 2 * frame

Pointer(frame) == frame % PointerFrames

ASSUME PagingAssumption ==
  /\ K \in Nat \ {0}
  /\ LastFrame \in Nat
  /\ FrameArray \in Seq(Physical)
  /\ Root \in Physical
  /\ Garbage \in [Index -> Entry]
  /\ EntryFrames \in Nat \ {0} /\ PointerFrames \in Nat \ {0}
  /\ MaxInUse \in Nat

(* Memory lies below 4 GiB: beyond, Pointer finds another frame than was stored. *)
ASSUME MemoryAssumption == LastFrame < EntryFrames /\ LastFrame < PointerFrames

VARIABLES mem,                \* the entries in each frame
          free,               \* the frames pmem_request_frame may grant
          level,              \* map_vaddr_to_paddr: the level reached, 0 when no call runs
          table,              \* the frame of the table at that level
          indexes, paddr,     \* the indexes of :vaddr and the frame of :paddr
          tables              \* history: the frames used as tables

call == <<level, table, indexes, paddr>>
vars == <<mem, free, call, tables>>

-----------------------------------------------------------------------------
(* _extract_vaddr_paging_indexes, of a page number: the lowest bits are the *)
(* index of PT, and a shift brings up those of the next level.              *)
Indexes(page) ==
  LET shifted(p) == p \div K
  IN  << page % K, shifted(page) % K, shifted(shifted(page)) % K,
         shifted(shifted(shifted(page))) % K >>

(* The walk of the processor: the frame the entry :j of table :t leads to. *)
Below(t, j) ==
  IF t # Unmapped /\ mem[t][j].present THEN mem[t][j].frame ELSE Unmapped

TablesOf(ix) ==
  LET pdpt == Below(Root, ix[4])
      pd   == Below(pdpt, ix[3])
  IN  <<Below(pd, ix[2]), pd, pdpt, Root>>

Translate(ix) == Below(TablesOf(ix)[1], ix[1])

(* The same walk by is_page_present. *)
SoftBelow(t, j) ==
  IF t # Unmapped /\ mem[t][j].present THEN Pointer(mem[t][j].frame) ELSE Unmapped

(* Mutant: is_page_present does not look at the last entry. *)
IsPagePresent_ThreeLevels(ix) ==
  SoftBelow(SoftBelow(SoftBelow(Root, ix[4]), ix[3]), ix[2]) # Unmapped

IsPagePresent(ix) ==
  SoftBelow(SoftBelow(SoftBelow(SoftBelow(Root, ix[4]), ix[3]), ix[2]), ix[1]) # Unmapped

(* pmem_request_frame: the first free frame of the array, or NULL. *)
Requested ==
  IF free = {}
    THEN {NULL}
    ELSE {FrameArray[j] : j \in {m \in DOMAIN FrameArray :
            /\ FrameArray[m] \in free
            /\ \A k \in DOMAIN FrameArray : FrameArray[k] \in free => m <= k}}

-----------------------------------------------------------------------------
(* PML4 is zero when the kernel starts. *)
NothingMapped ==
  /\ mem = [f \in Physical |-> IF f = Root THEN EmptyTable ELSE Garbage]
  /\ level = 0 /\ table = Root /\ indexes = Indexes(0) /\ paddr = 0
  /\ tables = {Root}

(* The allocator may have given away or withheld some of the frames, PML4's *)
(* among them.                                                              *)
Init ==
  /\ NothingMapped
  /\ free \in SUBSET (Managed \ {Root})
  /\ Cardinality(Managed \ free) <= MaxInUse

MapVaddrToPaddr(vpage, ppage) ==
  /\ level = 0
  /\ level' = 4
  /\ table' = Root
  /\ indexes' = Indexes(vpage)
  /\ paddr' = ppage
  /\ UNCHANGED <<mem, free, tables>>

entry == mem[table][indexes[level]]

(* Mutant: the walk stays where it is. *)
EnterTable_NoDescent ==
  /\ level > 1
  /\ entry.present
  /\ UNCHANGED vars

(* The entry is present: go down to the table it points to. *)
EnterTable ==
  /\ level > 1
  /\ entry.present
  /\ table' = Pointer(entry.frame)
  /\ level' = level - 1
  /\ UNCHANGED <<mem, free, indexes, paddr, tables>>

Reference(frame) == [present |-> TRUE, frame |-> Stored(frame)]

(* Mutant: the new table is not cleared. *)
Linked_NotCleared(new) == [mem EXCEPT ![table][indexes[level]] = Reference(new)]

(* Mutant: the entry is written at the index of the next level. *)
Linked_WrongIndex(new) ==
  [mem EXCEPT ![new] = EmptyTable, ![table][indexes[level-1]] = Reference(new)]

(* Memory with the frame cleared, and then entered into the table. *)
Linked(new) ==
  [mem EXCEPT ![new] = EmptyTable, ![table][indexes[level]] = Reference(new)]

(* Mutant: the frame stays free, as if it had not been locked. *)
FreeWithout_NotLocked(new) == free

FreeWithout(new) == free \ {new}

(* The entry is not present: request a frame, clear it, and enter it.  The *)
(* result of the request is used as it is, NULL included.                  *)
CreateTable ==
  /\ level > 1
  /\ ~ entry.present
  /\ \E new \in Requested :
       /\ mem' = Linked(new)
       /\ free' = FreeWithout(new)
       /\ tables' = tables \cup {new}
       /\ table' = new
  /\ level' = level - 1
  /\ UNCHANGED <<indexes, paddr>>

SetPage ==
  /\ level = 1
  /\ mem' = [mem EXCEPT ![table][indexes[1]] = Reference(paddr)]
  /\ level' = 0
  /\ UNCHANGED <<free, table, indexes, paddr, tables>>

Walk == EnterTable \/ CreateTable \/ SetPage

-----------------------------------------------------------------------------
(***************************************************************************)
(* How many frames are enough: no table is created twice, so that one for  *)
(* each place of the tree where the pages to be mapped need a table will   *)
(* do, beside the frames in use at the start.                              *)
(***************************************************************************)
Place(ix, l) == <<l, [k \in l+1 .. 4 |-> ix[k]]>>

TablePlaces(S) == {Place(Indexes(p), l) : p \in S, l \in 1 .. 3}

RoomFor(S) ==
  /\ IsFiniteSet(TablePlaces(S))
  /\ MaxInUse + Cardinality(TablePlaces(S)) <= Cardinality(Managed)

-----------------------------------------------------------------------------
TypeOK ==
  /\ mem \in [Physical -> [Index -> Entry]]
  /\ free \subseteq Managed
  /\ level \in 0 .. 4
  /\ table \in Physical
  /\ indexes \in Paths
  /\ paddr \in Nat
  /\ tables \subseteq Physical

(***************************************************************************)
(* The tables form a tree: a frame is a table for one level and one range  *)
(* of addresses only, and it is a frame that was requested for a table and *)
(* that no later request can get.  A frame in two places of the tree would *)
(* make a mapping appear in, or vanish from, an unrelated range.           *)
(***************************************************************************)
LinkedTables ==
  {x \in {<<l, [k \in l+1 .. 4 |-> ix[k]], TablesOf(ix)[l]>> : ix \in Paths, l \in Level} :
     x[3] # Unmapped}

TablesDistinct ==
  /\ \A x, y \in LinkedTables : x[3] = y[3] => x = y
  /\ \A x \in LinkedTables : x[3] \in tables /\ x[3] \notin free

(***************************************************************************)
(* is_page_present, which reads frame numbers back with Pointer, answers   *)
(* what the processor would find, at every point of a call.                *)
(***************************************************************************)
PresentAgrees == \A ix \in Paths : IsPagePresent(ix) <=> Translate(ix) # Unmapped

(***************************************************************************)
(* A table that is missing can be had: the walks do not use up the frames  *)
(* before they are through, as they would if a table were not found again, *)
(* and the NULL of pmem_request_frame (paging.c:69) is never made a table. *)
(***************************************************************************)
EnoughFrames == level > 1 /\ ~ entry.present => free # {}

(***************************************************************************)
(* Mapping a page writes to no frame that is not one of the tables: a      *)
(* stale or truncated pointer would write into memory of somebody else.    *)
(***************************************************************************)
OnlyTablesWritten == [][\A f \in Physical \ tables' : mem'[f] = mem[f]]_vars

(* A call of map_vaddr_to_paddr returns. *)
CallsReturn == level # 0 ~> level = 0
=============================================================================
