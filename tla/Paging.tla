------------------------------- MODULE Paging -------------------------------
(***************************************************************************)
(* init_paging of src/src/memory/paging.c: identity mapping of all memory  *)
(* and of three devices, the switch to the new tables, and the test of the *)
(* new tables.  Until the switch the processor runs on the identity map of *)
(* the firmware; after it, an address the kernel uses must be mapped by    *)
(* the kernel's own tables, and there is no page fault handler yet.        *)
(***************************************************************************)
EXTENDS PageTables

CONSTANTS PAGE_SZ,                        \* bytes of a page
          FramebufferBase, FramebufferSz, \* first page, and bytes
          ApicBase,                       \* the page of the APIC's registers
          HpetBase, HpetSz,               \* first page, and bytes
          TestPage,                       \* the page of 0x99999999999
          TestEntry                       \* the entry its offset 0x999 lies in (307)

VARIABLES pc,                 \* init_paging: what comes next
          job                 \* the number of the next page to be mapped

pvars == <<vars, pc, job>>

ASSUME DevicesAssumption ==
  /\ PAGE_SZ \in Nat \ {0}
  /\ FramebufferBase \in Nat /\ FramebufferSz \in Nat \ {0}
  /\ ApicBase \in Nat
  /\ HpetBase \in Nat /\ HpetSz \in Nat \ {0}
  /\ TestPage \in Nat
  /\ TestEntry \in Index

(* Mutant: the number of pages is rounded down. *)
IdentityPaging_RoundDown(addr, n) ==
  [k \in 1 .. n \div PAGE_SZ |-> addr + k - 1]

(* The pages _identity_paging maps for :n bytes at :addr. *)
IdentityPaging(addr, n) ==
  [k \in 1 .. n \div (PAGE_SZ + 1) + 1 |-> addr + k - 1]

(* The pages _identity_paging_memory maps, in its order. *)
IdentityPagingMemory ==
  FrameArray \o IdentityPaging(FramebufferBase, FramebufferSz)
             \o IdentityPaging(ApicBase, PAGE_SZ)
             \o IdentityPaging(HpetBase, HpetSz)

(* The kernel, PML4 with it, is in the memory map, and PML4, a variable, not at *)
(* the null address; the numbers of the pages fit the four indexes and an       *)
(* entry's field; the test's page is no page in use.                            *)
ASSUME PagesAssumption ==
  /\ Root \in Managed \ {NULL}
  /\ \A j \in DOMAIN IdentityPagingMemory :
       /\ IdentityPagingMemory[j] < K * (K * (K * K))
       /\ IdentityPagingMemory[j] < EntryFrames
       /\ IdentityPagingMemory[j] # TestPage
  /\ TestPage < K * (K * (K * K))

InitPaging ==
  /\ Init
  /\ pc = "identity"
  /\ job = 1

(* A step of a call of map_vaddr_to_paddr in progress. *)
WalkTables == Walk /\ UNCHANGED <<pc, job>>

(* Mutant: every second page is skipped. *)
IdentityMapNext_Skip ==
  /\ pc = "identity"
  /\ job <= Len(IdentityPagingMemory)
  /\ MapVaddrToPaddr(IdentityPagingMemory[job], IdentityPagingMemory[job])
  /\ job' = job + 2
  /\ UNCHANGED pc

IdentityMapNext ==
  /\ pc = "identity"
  /\ job <= Len(IdentityPagingMemory)
  /\ MapVaddrToPaddr(IdentityPagingMemory[job], IdentityPagingMemory[job])
  /\ job' = job + 1
  /\ UNCHANGED pc

(* Mutant: the tables are loaded before they are complete. *)
SetCr3Register_Early ==
  /\ pc = "identity"
  /\ level = 0
  /\ pc' = "test"
  /\ UNCHANGED <<vars, job>>

(* set_cr3_register: from here on the new tables translate. *)
SetCr3Register ==
  /\ pc = "identity"
  /\ level = 0
  /\ job > Len(IdentityPagingMemory)
  /\ pc' = "test"
  /\ UNCHANGED <<vars, job>>

(* Mutant: the test's address lies in the memory that is mapped already. *)
MapTestPage_InMemory ==
  /\ pc = "test"
  /\ MapVaddrToPaddr(LastFrame, 0)
  /\ pc' = "write"
  /\ UNCHANGED job

MapTestPage ==
  /\ pc = "test"
  /\ MapVaddrToPaddr(TestPage, 0)
  /\ pc' = "write"
  /\ UNCHANGED job

(***************************************************************************)
(* 123 at offset 0x999 of a frame.  Read as a table, the frame has there   *)
(* the second byte of an entry (0x999 = 8 * 307 + 1): bits that a walk     *)
(* ignores, and in the upper half of the byte the lowest four bits of the  *)
(* frame number.  The bit of present is in another byte.                   *)
(***************************************************************************)
WithTestByte(frame) == 16 * (frame \div 16) + 123 \div 16

(* Mutant: the address of the test lies at the start of its page. *)
TestByteWritten_FirstEntry ==
  [mem EXCEPT ![Translate(Indexes(TestPage))][0].frame = WithTestByte(@)]

TestByteWritten ==
  [mem EXCEPT ![Translate(Indexes(TestPage))][TestEntry].frame = WithTestByte(@)]

(* *test_addr_ptr = 123. *)
WriteTestByte ==
  /\ pc = "write"
  /\ level = 0
  /\ mem' = TestByteWritten
  /\ pc' = "check"
  /\ UNCHANGED <<free, call, tables, job>>

(* Mutant: the test panics if the byte is right. *)
CheckTestByte_Inverted ==
  /\ pc = "check"
  /\ pc' \in IF Translate(Indexes(TestPage)) = 0 THEN {"panic"} ELSE {"done", "panic"}
  /\ UNCHANGED <<vars, job>>

(***************************************************************************)
(* The byte is read back.  If the test's page no longer led to frame 0,    *)
(* the byte would be any frame's, and most likely not 123: kpanic.         *)
(***************************************************************************)
CheckTestByte ==
  /\ pc = "check"
  /\ pc' \in IF Translate(Indexes(TestPage)) = 0 THEN {"done"} ELSE {"done", "panic"}
  /\ UNCHANGED <<vars, job>>

Next == \/ WalkTables \/ IdentityMapNext \/ SetCr3Register
        \/ MapTestPage \/ WriteTestByte \/ CheckTestByte

Spec == InitPaging /\ [][Next]_pvars

(* One processor runs init_paging, and nothing preempts it for good.  (The     *)
(* kernel never masks interrupts; that the loader has is an assumption.)       *)
FairSpec == Spec /\ WF_pvars(Next)

-----------------------------------------------------------------------------
(* What the theorems suppose of a machine beyond the assumptions above. *)

(* The pages that init_paging maps. *)
AllPages ==
  {IdentityPagingMemory[k] : k \in DOMAIN IdentityPagingMemory} \cup {TestPage}

(* Frame 0, if the memory map has it, is its first. *)
FrameZeroFirst == NULL \in Managed => FrameArray # << >> /\ FrameArray[1] = NULL

(***************************************************************************)
(* If frame 0 is a table, of level 3 and on the way to page 0, no page to  *)
(* be mapped is behind the entry that the test's byte falls into: with 512 *)
(* entries, none lies between 307 and 308 GiB.                             *)
(***************************************************************************)
TestEntryUnused ==
  NULL \in Managed =>
    \A p \in AllPages : Indexes(p)[4] = Indexes(0)[4] => Indexes(p)[3] # TestEntry

(* The sizes of which _identity_paging maps the last page. *)
RoundsUp(n) == (n - 1) \div PAGE_SZ <= n \div (PAGE_SZ + 1)

SizesRoundUp == RoundsUp(FramebufferSz) /\ RoundsUp(HpetSz)

-----------------------------------------------------------------------------
PagingOn == pc \in {"test", "write", "check", "done"}

IdentityMapped(pages) == \A p \in pages : Translate(Indexes(p)) = p

(* The pages a device of :n bytes really occupies. *)
DevicePages(addr, n) == addr .. addr + (n - 1) \div PAGE_SZ

PagingTypeOK ==
  /\ TypeOK
  /\ pc \in {"identity", "test", "write", "check", "done", "panic"}
  /\ job \in 1 .. Len(IdentityPagingMemory) + 1

(***************************************************************************)
(* From the switch on, all memory is mapped to itself (the kernel, its     *)
(* stack, the tables): nothing the test does afterwards takes a page away. *)
(***************************************************************************)
MemoryStaysMapped == PagingOn => IdentityMapped(Managed)

(***************************************************************************)
(* So are all the bytes of the devices: "n will be always rounded up to    *)
(* full page size" (paging.c:148).                                         *)
(***************************************************************************)
DevicesStayMapped ==
  PagingOn => IdentityMapped(DevicePages(FramebufferBase, FramebufferSz)
                               \cup DevicePages(ApicBase, PAGE_SZ)
                               \cup DevicePages(HpetBase, HpetSz))

(***************************************************************************)
(* Once the new tables translate, each table the walk is about to touch,   *)
(* the one it is about to create included, is mapped to itself, and the    *)
(* test's page is mapped to frame 0 when it is accessed.                   *)
(***************************************************************************)
NoPageFault ==
  /\ PagingOn /\ level # 0 => IdentityMapped({table})
  /\ PagingOn /\ level > 1 /\ ~ entry.present => IdentityMapped(Requested)
  /\ pc \in {"write", "check"} /\ level = 0 => Translate(Indexes(TestPage)) = 0

(***************************************************************************)
(* The test writes to frame 0, which may be a page table.  The entry whose *)
(* frame number it then overwrites leads nowhere: no table or page that is *)
(* in use is behind it.                                                    *)
(***************************************************************************)
TestHarmless ==
  pc = "write" /\ level = 0 /\ NULL \in tables => ~ mem[NULL][TestEntry].present

(***************************************************************************)
(* Nothing else is mapped: no page outside of memory, the devices and the  *)
(* test's page becomes accessible by accident.                             *)
(***************************************************************************)
NothingElseMapped ==
  \A ix \in Paths :
    Translate(ix) # Unmapped =>
      \/ ix = Indexes(TestPage)
      \/ \E j \in 1 .. Len(IdentityPagingMemory) :
           ix = Indexes(IdentityPagingMemory[j]) /\ Translate(ix) = IdentityPagingMemory[j]

(***************************************************************************)
(* Nothing flushes the translations the processor keeps, or the upper      *)
(* entries it keeps of the tables: map_vaddr_to_paddr has no invlpg after  *)
(* it changes an entry.  From the switch on, a translation or a table the  *)
(* processor may have seen is never changed, so none it keeps is stale.    *)
(***************************************************************************)
SeenByProcessor(ix) ==
  [l \in 0 .. 3 |-> IF l = 0 THEN Translate(ix) ELSE TablesOf(ix)[l]]

NoStaleTranslation ==
  [][PagingOn => \A ix \in Paths, l \in 0 .. 3 :
       SeenByProcessor(ix)[l] # Unmapped => SeenByProcessor(ix)'[l] = SeenByProcessor(ix)[l]]_pvars

(* init_paging returns, and its test has passed. *)
InitPagingReturns == <>(pc = "done")
=============================================================================
