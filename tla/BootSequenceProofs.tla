------------------------- MODULE BootSequenceProofs -------------------------
(***************************************************************************)
(* Theorems about the boot: what is proved of the allocator and of paging  *)
(* by themselves holds when they run together, on every machine that the   *)
(* assumptions of BootSequence allow and whose memory map FitsItsTables.   *)
(***************************************************************************)
EXTENDS BootSequence, PhysicalMemoryProofs

(* The theorems of PagingProofs, about the paging of this machine. *)
PP == INSTANCE PagingProofs WITH FrameArray <- MappedFrames,
                                 MaxInUse   <- Cardinality(FramesTaken),
                                 free       <- {frame_addr[j] : j \in InState(FREE_FRAME)},
                                 pc         <- stage

-----------------------------------------------------------------------------
(* PG and PP are instances of one module: their definitions are the same. *)

LEMMA Assumptions ==
  PP!PagingAssumption /\ PP!MemoryAssumption /\ PP!DevicesAssumption /\ PP!PagesAssumption
BY BootAssumption
   DEF PG!PagingAssumption, PG!MemoryAssumption, PG!DevicesAssumption, PG!PagesAssumption,
       PP!PagingAssumption, PP!MemoryAssumption, PP!DevicesAssumption, PP!PagesAssumption,
       PG!Physical, PP!Physical, PG!Index, PP!Index, PG!Entry, PP!Entry, PG!Managed, PP!Managed,
       PG!IdentityPagingMemory, PP!IdentityPagingMemory, PG!IdentityPaging, PP!IdentityPaging,
       PG!NULL, PP!NULL

LEMMA SameStart == PG!NothingMapped <=> PP!NothingMapped
BY DEF PG!NothingMapped, PP!NothingMapped, PG!Physical, PP!Physical, PG!Index, PP!Index,
       PG!EmptyTable, PP!EmptyTable, PG!Indexes, PP!Indexes

LEMMA SameNext == PG!Next <=> PP!Next
<1>1. PG!WalkTables <=> PP!WalkTables
  <2>1. PG!EnterTable <=> PP!EnterTable
    BY DEF PG!EnterTable, PP!EnterTable, PG!entry, PP!entry, PG!Pointer, PP!Pointer,
       PG!vars, PP!vars, PG!call, PP!call
  <2>2. PG!CreateTable <=> PP!CreateTable
    BY DEF PG!CreateTable, PP!CreateTable, PG!entry, PP!entry, PG!Pointer, PP!Pointer,
       PG!Requested, PP!Requested, PG!Linked, PP!Linked, PG!Reference, PP!Reference,
       PG!Stored, PP!Stored, PG!EmptyTable, PP!EmptyTable, PG!Index, PP!Index,
       PG!FreeWithout, PP!FreeWithout, PG!NULL, PP!NULL
  <2>3. PG!SetPage <=> PP!SetPage
    BY DEF PG!SetPage, PP!SetPage, PG!Reference, PP!Reference, PG!Stored, PP!Stored
  <2>4. QED
    BY <2>1, <2>2, <2>3 DEF PG!WalkTables, PP!WalkTables, PG!Walk, PP!Walk
<1>2. PG!IdentityMapNext <=> PP!IdentityMapNext
  BY DEF PG!IdentityMapNext, PP!IdentityMapNext, PG!MapVaddrToPaddr, PP!MapVaddrToPaddr,
     PG!Indexes, PP!Indexes, PG!IdentityPagingMemory, PP!IdentityPagingMemory,
     PG!IdentityPaging, PP!IdentityPaging
<1>3. PG!SetCr3Register <=> PP!SetCr3Register
  BY DEF PG!SetCr3Register, PP!SetCr3Register, PG!vars, PP!vars, PG!call, PP!call,
     PG!IdentityPagingMemory, PP!IdentityPagingMemory, PG!IdentityPaging, PP!IdentityPaging
<1>4. PG!MapTestPage <=> PP!MapTestPage
  BY DEF PG!MapTestPage, PP!MapTestPage, PG!MapVaddrToPaddr, PP!MapVaddrToPaddr, PG!Indexes,
     PP!Indexes
<1>5. PG!Translate(PG!Indexes(TestPage)) = PP!Translate(PP!Indexes(TestPage))
  BY DEF PG!Translate, PP!Translate, PG!TablesOf, PP!TablesOf, PG!Below, PP!Below,
     PG!Unmapped, PP!Unmapped, PG!Indexes, PP!Indexes
<1>6. PG!WriteTestByte <=> PP!WriteTestByte
  BY <1>5 DEF PG!WriteTestByte, PP!WriteTestByte, PG!TestByteWritten, PP!TestByteWritten,
     PG!WithTestByte, PP!WithTestByte, PG!call, PP!call
<1>7. PG!CheckTestByte <=> PP!CheckTestByte
  BY <1>5 DEF PG!CheckTestByte, PP!CheckTestByte, PG!vars, PP!vars, PG!call, PP!call
<1>8. QED
  BY <1>1, <1>2, <1>3, <1>4, <1>6, <1>7 DEF PG!Next, PP!Next

LEMMA SameType == PG!PagingTypeOK <=> PP!PagingTypeOK
BY DEF PG!PagingTypeOK, PP!PagingTypeOK, PG!TypeOK, PP!TypeOK, PG!Physical, PP!Physical,
       PG!Index, PP!Index, PG!Entry, PP!Entry, PG!Managed, PP!Managed, PG!Paths, PP!Paths,
       PG!Level, PP!Level, PG!IdentityPagingMemory, PP!IdentityPagingMemory,
       PG!IdentityPaging, PP!IdentityPaging

LEMMA SameDevices == PG!DevicesStayMapped <=> PP!DevicesStayMapped
BY DEF PG!DevicesStayMapped, PP!DevicesStayMapped, PG!PagingOn, PP!PagingOn,
       PG!IdentityMapped, PP!IdentityMapped, PG!DevicePages, PP!DevicePages,
       PG!Translate, PP!Translate, PG!TablesOf, PP!TablesOf, PG!Below, PP!Below,
       PG!Unmapped, PP!Unmapped, PG!Indexes, PP!Indexes

LEMMA SameSizes ==
  \A S : /\ PG!IsFiniteSet(S) = IsFiniteSet(S)
        /\ PP!IsFiniteSet(S) = IsFiniteSet(S)
        /\ PG!Cardinality(S) = Cardinality(S)
        /\ PP!Cardinality(S) = Cardinality(S)
BY DEF PG!IsFiniteSet, PP!IsFiniteSet, IsFiniteSet, PG!Cardinality, PP!Cardinality, Cardinality

LEMMA SameHypotheses ==
  /\ FitsItsTables <=> PP!RoomFor(PP!AllPages) /\ PP!FrameZeroFirst /\ PP!TestEntryUnused
  /\ PG!SizesRoundUp <=> PP!SizesRoundUp
<1>1. /\ PG!AllPages = PP!AllPages /\ PG!Managed = PP!Managed
      /\ \A S : PG!TablePlaces(S) = PP!TablePlaces(S)
  BY DEF PG!TablePlaces, PP!TablePlaces, PG!Place, PP!Place, PG!Indexes, PP!Indexes,
         PG!Managed, PP!Managed, PG!AllPages, PP!AllPages, PG!IdentityPagingMemory,
         PP!IdentityPagingMemory, PG!IdentityPaging, PP!IdentityPaging
<1>2. PG!RoomFor(PG!AllPages) <=> PP!RoomFor(PP!AllPages)
  BY <1>1, SameSizes DEF PG!RoomFor, PP!RoomFor
<1>3. PG!FrameZeroFirst <=> PP!FrameZeroFirst
  BY <1>1 DEF PG!FrameZeroFirst, PP!FrameZeroFirst, PG!NULL, PP!NULL
<1>4. PG!SizesRoundUp <=> PP!SizesRoundUp
  BY DEF PG!SizesRoundUp, PP!SizesRoundUp, PG!RoundsUp, PP!RoundsUp
<1>5. PG!TestEntryUnused <=> PP!TestEntryUnused
  BY <1>1 DEF PG!TestEntryUnused, PP!TestEntryUnused, PG!Indexes, PP!Indexes, PG!NULL, PP!NULL
<1>6. QED
  BY <1>2, <1>3, <1>4, <1>5 DEF FitsItsTables

-----------------------------------------------------------------------------
(* The addresses of the frames. *)

LEMMA AddressOfFrame ==
  ASSUME NEW d \in Entries, NEW k \in Nat, k < Pages(d)
  PROVE  MappedFrames[FirstFrame[d] + k + 1] = MemoryDescriptors[d].physical_addr + k
<1> DEFINE j == FirstFrame[d] + k
<1>1. j \in FrameIds /\ j < FirstFrame[d+1] /\ FirstFrame[d] \in Nat
  BY PageIsFrame, FirstFrameType, DescriptorTypes DEF Entries, Last
<1>2. j \in FramesOf(d)
  BY <1>1, FirstFrameType, FirstFrameStep, DescriptorTypes DEF FramesOf
<1>3. ASSUME NEW e \in Entries, j \in FramesOf(e) PROVE e = d
  <2>1. FirstFrame[e] \in Nat /\ FirstFrame[e+1] = FirstFrame[e] + Pages(e) /\ Pages(e) \in Nat
    BY FirstFrameType, FirstFrameStep, DescriptorTypes DEF Entries, Last
  <2>2. j - FirstFrame[e] \in Nat /\ j - FirstFrame[e] < Pages(e)
        /\ FirstFrame[e] + (j - FirstFrame[e]) = FirstFrame[d] + k
    BY <1>1, <1>3, <2>1 DEF FramesOf
  <2>3. QED
    BY <2>2, PageIsUnique
<1>4. (CHOOSE e \in Entries : j \in FramesOf(e)) = d
  BY <1>2, <1>3
<1>5. j + 1 \in 1 .. NumberOfPageFrames /\ (j + 1) - 1 = j
  BY <1>1, FrameCountType DEF FrameIds
<1>6. j - FirstFrame[d] = k
  BY <1>1
<1> HIDE DEF j
<1>7. MappedFrames[j + 1] = MemoryDescriptors[d].physical_addr + (j - FirstFrame[d])
  BY <1>4, <1>5 DEF MappedFrames
<1>8. QED
  BY <1>6, <1>7 DEF j

(* No two frames have one address. *)
LEMMA AddressesDiffer ==
  ASSUME NEW j \in FrameIds, NEW m \in FrameIds, MappedFrames[j + 1] = MappedFrames[m + 1]
  PROVE  j = m
<1>1. PICK d \in Entries : \E k \in Nat : k < Pages(d) /\ j = FirstFrame[d] + k
  BY FrameIsPage
<1>2. PICK k \in Nat : k < Pages(d) /\ j = FirstFrame[d] + k
  BY <1>1
<1>3. PICK e \in Entries : \E l \in Nat : l < Pages(e) /\ m = FirstFrame[e] + l
  BY FrameIsPage
<1>4. PICK l \in Nat : l < Pages(e) /\ m = FirstFrame[e] + l
  BY <1>3
<1>5. MemoryDescriptors[d].physical_addr + k = MemoryDescriptors[e].physical_addr + l
  BY <1>2, <1>4, AddressOfFrame
<1>6. ASSUME NEW f \in Entries, NEW q \in Nat, q < Pages(f)
      PROVE  MemoryDescriptors[f].physical_addr + q \in Covers(f)
  BY <1>6, DescriptorTypes DEF Covers, Pages
<1>7. d = e
  BY <1>2, <1>4, <1>5, <1>6, MemoryMapAssumption
<1>8. k = l
  BY <1>5, <1>7, DescriptorTypes
<1>9. QED
  BY <1>2, <1>4, <1>7, <1>8

LEMMA ArrayAddresses ==
  ASSUME Base, pc \in {"lock", "ready"}
  PROVE  Ids = FrameIds /\ \A j \in FrameIds : frame_addr[j] = MappedFrames[j + 1]
<1>1. Mapped = NumberOfPageFrames /\ Ids = FrameIds
  BY DEF Base, ControlInv, Mapped, Ids, FrameIds
<1>2. ASSUME NEW j \in FrameIds PROVE frame_addr[j] = MappedFrames[j + 1]
  <2>1. PICK d \in Entries : \E k \in Nat : k < Pages(d) /\ j = FirstFrame[d] + k
    BY FrameIsPage
  <2>2. PICK k \in Nat : k < Pages(d) /\ j = FirstFrame[d] + k
    BY <2>1
  <2>3. j < NumberOfPageFrames
    BY FrameCountType DEF FrameIds
  <2>4. QED
    BY <1>1, <2>2, <2>3, AddressOfFrame DEF Base, AddressInv
<1>3. QED
  BY <1>1, <1>2
-----------------------------------------------------------------------------
(* The inductive invariant. *)

(* While the array is filled, only frames that are to be taken are. *)
OnlyTaken == \A j \in Ids : state[j] # FREE_FRAME => j \in FramesTaken

BeforePaging == PP!NothingMapped /\ stage = "identity" /\ job = 1

ProtectedAddresses == {MappedFrames[j + 1] : j \in ProtectedFrames}

(* Outside of the tables nothing is written but frame 0. *)
OthersIntact ==
  /\ tables \cap ProtectedAddresses \subseteq {Root}
  /\ \A f \in PP!Physical \ tables : f # NULL => mem[f] = Garbage

StepInv ==
  /\ step \in {"cpu", "pmem", "gdt", "hpet", "enable", "paging", "idt", "acpi", "apic",
               "loop", "dead", "wild"}
  /\ {gdt, idt} \subseteq {"firmware", "kernel"}
  /\ step = "cpu" => pc = "boot"
  /\ step \in {"cpu", "pmem"} => gdt = "firmware"
  /\ step \in {"cpu", "pmem"} <=> pc # "ready"
  /\ released = {}

PagingInv ==
  IF pc = "ready" THEN PP!BInv ELSE OnlyTaken /\ BeforePaging

BootInv == Base /\ Safe /\ StepInv /\ PagingInv /\ OthersIntact

-----------------------------------------------------------------------------
(* The allocator beside the rest. *)

(* Every step of the boot is one of the allocator, or none. *)
LEMMA AllocatorStep == ASSUME [BootNext]_bootvars PROVE [Next]_vars
BY DEF BootNext, Start, CheckCpu, InitPmem, InitGdt, HpetInit, EnablePaging, MapMemory, InitIdt,
       ReadDevices, ApicEnable, Interrupt, bootvars, Next, Operate

(* What the allocator has to grant is memory for the kernel, and not protected. *)
LEMMA FreeFrames ==
  ASSUME Base, Safe, released = {}, pc \in {"lock", "ready"},
         pc = "lock" => n = LockCount,
         NEW j \in InState(FREE_FRAME)
  PROVE  /\ j \in FrameIds /\ j \notin ProtectedFrames
         /\ frame_addr[j] = MappedFrames[j + 1]
         /\ frame_addr[j] \in KernelMemory
<1>1. j \in FrameIds /\ frame_addr[j] = MappedFrames[j + 1]
  BY ArrayAddresses DEF InState
<1>2. j \notin Secured
  BY DEF Safe, SecuredKept
<1>3. ProtectedFrames \subseteq Secured
  BY ProtectedIsSecured
<1>4. PICK d \in Entries : \E k \in Nat : k < Pages(d) /\ j = FirstFrame[d] + k
  BY <1>1, FrameIsPage
<1>5. PICK k \in Nat : k < Pages(d) /\ j = FirstFrame[d] + k
  BY <1>4
<1>6. KernelMayUse(MemoryDescriptors[d].type)
  <2>1. j \in FramesOf(d)
    <3>1. FirstFrame[d] \in Nat /\ FirstFrame[d+1] = FirstFrame[d] + Pages(d) /\ Pages(d) \in Nat
      BY FirstFrameType, FirstFrameStep, DescriptorTypes DEF Entries, Last
    <3>2. QED
      BY <1>5, <3>1 DEF FramesOf
  <2>2. j \notin FirmwareFrames
    BY <1>2, <1>3 DEF ProtectedFrames
  <2>3. QED
    BY <2>1, <2>2 DEF FirmwareFrames
<1>7. MemoryDescriptors[d].physical_addr + k \in Covers(d)
  BY <1>5, DescriptorTypes DEF Covers, Pages
<1>8. frame_addr[j] = MemoryDescriptors[d].physical_addr + k
  BY <1>1, <1>5, AddressOfFrame
<1>9. QED
  BY <1>1, <1>2, <1>3, <1>6, <1>7, <1>8 DEF KernelMemory

LEMMA StackFrameInMap ==
  ASSUME Base, pc = "region", i \notin Entries
  PROVE  FrameIndexByPtr(Stack) \in StackFrames
<1> DEFINE c == FrameIndexByPtr(Stack)
<1>1. c \in FrameIds /\ frame_addr[c] = Stack /\ Mapped = NumberOfPageFrames
  <2>1. i = Last /\ Last \in 1 .. Last
    BY DescriptorTypes DEF Base, ControlInv, Entries, Last
  <2>2. Mapped = NumberOfPageFrames /\ Ids = FrameIds
    BY <2>1 DEF Base, ControlInv, Mapped, NumberOfPageFrames, Last, Ids, FrameIds
  <2>3. QED
    BY <2>2, StackFrameFound
<1> HIDE DEF c
<1>2. PICK d \in Entries : \E k \in Nat : k < Pages(d) /\ c = FirstFrame[d] + k
  BY <1>1, FrameIsPage
<1>3. PICK k \in Nat : k < Pages(d) /\ c = FirstFrame[d] + k
  BY <1>2
<1>4. MemoryDescriptors[d].physical_addr + k = Stack
  <2>1. c < Mapped
    BY <1>1, FrameCountType DEF FrameIds
  <2>2. QED
    BY <1>1, <1>3, <2>1 DEF Base, AddressInv
<1>5. FirstFrame[d] \in Nat /\ FirstFrame[d+1] = FirstFrame[d] + Pages(d) /\ Pages(d) \in Nat
  BY FirstFrameType, FirstFrameStep, DescriptorTypes DEF Entries, Last
<1>6. c \in FramesOf(d) /\ c - FirstFrame[d] = k
  BY <1>3, <1>5 DEF FramesOf
<1>7. QED
  BY <1>1, <1>4, <1>6 DEF StackFrames, c

LEMMA StartTakes == InitPhysicalMemory /\ ~ initialized => OnlyTaken'
BY DEF InitPhysicalMemory, OnlyTaken, Ids, FrameIds

LEMMA InitializeTakes ==
  ASSUME Base, OnlyTaken, Initialize
  PROVE  OnlyTaken'
<1>1. state \in [Ids -> FrameState]
  BY DEF Base, TypeOK
<1>2. ASSUME NEW j \in Ids, NEW to \in {LOCKED_FRAME, RESERVED_FRAME}, j \in FramesTaken,
             frames' = frames, Move(j, FREE_FRAME, to)
      PROVE  OnlyTaken'
  BY <1>1, <1>2 DEF Move, memory, OnlyTaken, Ids
<1>3. CASE state' = state /\ frames' = frames
  BY <1>3 DEF OnlyTaken, Ids
<1>4. CASE MapPage
  <2>1. /\ i \in Entries /\ n \in Nat /\ n < Pages(i) /\ frame_id = FirstFrame[i] + n
        /\ frames = NumberOfPageFrames /\ frames' = frames
    BY <1>4 DEF MapPage, Base, ControlInv, TypeOK, Pages
  <2>2. frame_id \in Ids /\ frame_id < FirstFrame[i+1]
    BY <2>1, PageIsFrame DEF Ids, FrameIds
  <2>3. CASE KernelMayUse(MemoryDescriptors[i].type)
    BY <1>3, <1>4, <2>1, <2>3 DEF MapPage, memory
  <2>4. CASE ~ KernelMayUse(MemoryDescriptors[i].type)
    <3>1. FirstFrame[i] \in Nat /\ FirstFrame[i+1] \in Nat
      BY <2>1, FirstFrameType, DescriptorTypes DEF Entries, Last
    <3>2. frame_id \in FramesOf(i)
      BY <2>1, <2>2, <3>1 DEF FramesOf
    <3>3. frame_id \in FramesTaken
      BY <2>1, <2>4, <3>2 DEF FramesTaken, FirmwareFrames
    <3>4. QED
      BY <1>2, <1>4, <2>1, <2>2, <2>4, <3>3 DEF MapPage, ReserveFrame
  <2>5. QED
    BY <2>3, <2>4
<1>5. CASE ReserveStackFrame
  <2>1. FrameIndexByPtr(Stack) \in Ids /\ frame_addr[FrameIndexByPtr(Stack)] = Stack
    BY <1>5, StackFrameFound DEF ReserveStackFrame
  <2>2. FrameIndexByPtr(Stack) \in StackFrames
    BY <1>5, <2>1, StackFrameInMap DEF ReserveStackFrame
  <2>3. QED
    BY <1>2, <1>5, <2>1, <2>2 DEF ReserveStackFrame, ReserveFrame, FramesTaken
<1>6. CASE LockArrayFrame
  <2>1. /\ array_frame_id + n \in Ids /\ array_frame_id = FirstFrame[LargestFreeSegment]
        /\ n \in 0 .. LockCount - 1
    BY <1>6, NextArrayFrame, LockLoopBound, ArrayFramesVisited DEF LockArrayFrame, Base, TypeOK, ControlInv
  <2>2. QED
    BY <1>2, <1>6, <2>1 DEF LockArrayFrame, LockFrame, FramesTaken
<1>7. QED
  BY <1>3, <1>4, <1>5, <1>6 DEF Initialize, EnterRegion, LeaveRegion, FinishInit, memory
-----------------------------------------------------------------------------
(* The allocator hands over to paging. *)

LEMMA ProtectedAreFrames == ProtectedFrames \subseteq FrameIds
<1>1. FirstFrame[LargestFreeSegment] \in Nat
  BY LargestSegment, FirstFrameType, DescriptorTypes DEF Entries, Last
<1>2. ASSUME NEW j \in ArrayFrames PROVE j \in FrameIds
  <2>1. /\ j - FirstFrame[LargestFreeSegment] \in Nat
        /\ j - FirstFrame[LargestFreeSegment] < LockCount
        /\ j = FirstFrame[LargestFreeSegment] + (j - FirstFrame[LargestFreeSegment])
    BY <1>1, ArrayFramesVisited DEF ArrayFrames
  <2>2. QED
    BY <2>1, ArrayFramesExist
<1>3. QED
  BY <1>2, FirmwareFrameIsPage DEF ProtectedFrames, StackFrames

(* Of the frames that paging maps, only those of FramesTaken are not free. *)
LEMMA FreeAtStart ==
  ASSUME Base, Safe, OnlyTaken, released = {}, pc = "lock", n = LockCount
  PROVE  LET free == {frame_addr[j] : j \in InState(FREE_FRAME)}
         IN  /\ free \in SUBSET (PP!Managed \ {Root})
             /\ PP!Cardinality(PP!Managed \ free) <= Cardinality(FramesTaken)
<1> DEFINE free == {frame_addr[j] : j \in InState(FREE_FRAME)}
           Address(j) == MappedFrames[j + 1]
           image == {Address(j) : j \in FramesTaken}
<1>1. /\ Ids = FrameIds /\ \A j \in FrameIds : frame_addr[j] = Address(j)
      /\ \A j \in InState(FREE_FRAME) : j \in FrameIds /\ frame_addr[j] \in KernelMemory
  BY ArrayAddresses, FreeFrames
<1>2. /\ \A j \in FrameIds : j + 1 \in DOMAIN MappedFrames
      /\ \A k \in DOMAIN MappedFrames : k - 1 \in FrameIds /\ k = (k - 1) + 1
  BY FrameCountType DEF MappedFrames, FrameIds
<1>3. PP!Managed = {Address(j) : j \in FrameIds}
  BY <1>2 DEF PP!Managed
<1>4. free \subseteq PP!Managed /\ Root \notin free
  BY <1>1, <1>3, BootAssumption
<1>5. PP!Managed \ free \subseteq image
  <2> SUFFICES ASSUME NEW j \in FrameIds, Address(j) \notin free
               PROVE  j \in FramesTaken
    BY <1>3
  <2>1. j \notin InState(FREE_FRAME)
    BY <1>1
  <2>2. QED
    BY <1>1, <2>1 DEF InState, OnlyTaken
<1>6. IsFiniteSet(FramesTaken)
  <2>1. FramesTaken \subseteq FrameIds
    <3>1. ASSUME NEW k \in 0 .. LockCount - 1 PROVE FirstFrame[LargestFreeSegment] + k \in FrameIds
      BY ArrayFramesExist, ArrayFramesVisited
    <3>2. QED
      BY <3>1, FirmwareFrameIsPage DEF FramesTaken, StackFrames
  <2>2. IsFiniteSet(FrameIds)
    BY FrameCountType, FS_Interval DEF FrameIds
  <2>3. QED
    BY <2>1, <2>2, FS_Subset
<1>7. IsFiniteSet(image) /\ Cardinality(image) <= Cardinality(FramesTaken)
  <2> DEFINE f == [j \in FramesTaken |-> Address(j)]
  <2>1. f \in Surjection(FramesTaken, image)
    <3> HIDE DEF Address
    <3>1. QED
      BY DEF Surjection
  <2>2. QED
    BY <1>6, <2>1, FS_Surjection
<1>8. /\ Cardinality(PP!Managed \ free) <= Cardinality(image)
      /\ Cardinality(PP!Managed \ free) \in Nat
  BY <1>5, <1>7, FS_Subset, FS_CardinalityType
<1>9. Cardinality(image) \in Nat /\ Cardinality(FramesTaken) \in Nat
  BY <1>6, <1>7, FS_CardinalityType
<1>10. PP!Cardinality(PP!Managed \ free) = Cardinality(PP!Managed \ free)
  BY SameSizes
<1>11. QED
  <2> HIDE DEF free, image
  <2>1. PP!Cardinality(PP!Managed \ free) <= Cardinality(FramesTaken)
    BY <1>7, <1>8, <1>9, <1>10
  <2>2. QED
    BY <1>4, <2>1 DEF free

LEMMA PagingStarts ==
  ASSUME FitsItsTables, Base, Safe, OnlyTaken, BeforePaging, released = {},
         pc = "lock", n = LockCount
  PROVE  PP!BInv
<1>1. PP!InitPaging
  BY FreeAtStart DEF BeforePaging, PP!InitPaging, PP!Init
<1>2. QED
  BY <1>1, PP!BInvInit, SameHypotheses, Assumptions
-----------------------------------------------------------------------------
(* The invariant holds at the start, and every step keeps it. *)

LEMMA BootInvInit == BootInit => BootInv
<1> SUFFICES ASSUME BootInit PROVE BootInv
  OBVIOUS
<1>1. Init /\ PP!NothingMapped /\ stage = "identity" /\ job = 1 /\ step = "cpu"
      /\ gdt = "firmware" /\ idt = "firmware"
  BY SameStart DEF BootInit
<1>2. Base /\ Safe
  BY <1>1, BaseInit, SafeInit
<1>3. pc = "boot" /\ Ids = {} /\ released = {}
  BY <1>1 DEF Init, Ids
<1>4. StepInv
  BY <1>1, <1>3 DEF StepInv
<1>5. PagingInv
  BY <1>1, <1>3 DEF PagingInv, OnlyTaken, BeforePaging
<1>6. OthersIntact
  BY <1>1 DEF OthersIntact, PP!NothingMapped
<1>7. QED
  BY <1>2, <1>4, <1>5, <1>6 DEF BootInv

(* A step of some other part of the kernel. *)
LEMMA PagingKept ==
  ASSUME FitsItsTables, PP!BInv, UNCHANGED <<paging, state, frame_addr, frames>>
  PROVE  PP!BInv'
<1>1. {frame_addr[j] : j \in InState(FREE_FRAME)}' = {frame_addr[j] : j \in InState(FREE_FRAME)}
  BY DEF InState, Ids
<1>2. UNCHANGED PP!pvars
  BY <1>1 DEF PP!pvars, PP!vars, PP!call, paging
<1>3. QED
  BY <1>2, PP!BInvNext, SameHypotheses, Assumptions

LEMMA OthersKept == OthersIntact /\ UNCHANGED paging => OthersIntact'
BY DEF OthersIntact, paging

LEMMA BeforeKept == BeforePaging /\ UNCHANGED paging => BeforePaging'
BY DEF BeforePaging, PP!NothingMapped, paging

LEMMA InvInitPmem ==
  ASSUME FitsItsTables, BootInv, InitPmem
  PROVE  StepInv' /\ PagingInv' /\ OthersIntact'
<1>1. /\ step = "pmem" /\ pc # "ready" /\ ~ initialized /\ released = {} /\ gdt = "firmware"
      /\ idt \in {"firmware", "kernel"} /\ Base /\ Safe /\ OnlyTaken /\ BeforePaging
      /\ UNCHANGED <<paging, gdt, idt>> /\ OthersIntact
      /\ step' = IF pc' = "ready" THEN "gdt" ELSE "pmem"
  BY DEF InitPmem, BootInv, StepInv, PagingInv, Base, ControlInv, processor
<1>2. released' = {}
  BY <1>1 DEF InitPmem, InitPhysicalMemory, Initialize, EnterRegion, MapPage, LeaveRegion,
              ReserveStackFrame, LockArrayFrame, FinishInit, history, vars
<1>3. StepInv'
  BY <1>1, <1>2 DEF StepInv
<1>4. PagingInv'
  <2>1. BeforePaging'
    BY <1>1, BeforeKept
  <2>2. CASE InitPhysicalMemory
    BY <1>1, <2>1, <2>2, StartTakes DEF InitPhysicalMemory, PagingInv
  <2>3. CASE Initialize /\ pc' # "ready"
    BY <1>1, <2>1, <2>3, InitializeTakes DEF PagingInv
  <2>4. CASE Initialize /\ pc' = "ready"
    <3>1. FinishInit
      BY <2>4 DEF Initialize, EnterRegion, MapPage, LeaveRegion, ReserveStackFrame,
                  LockArrayFrame
    <3>2. pc = "lock" /\ n = LockCount
      BY <1>1, <3>1, LockLoopBound DEF FinishInit
    <3>3. UNCHANGED <<state, frame_addr, frames>>
      BY <3>1 DEF FinishInit, memory
    <3>4. QED
      BY <1>1, <2>4, <3>2, <3>3, PagingStarts, PagingKept DEF PagingInv
  <2>5. QED
    BY <2>2, <2>3, <2>4 DEF InitPmem
<1>5. QED
  BY <1>1, <1>3, <1>4, OthersKept

LEMMA InvMapMemory ==
  ASSUME FitsItsTables, BootInv, MapMemory
  PROVE  /\ StepInv' /\ PagingInv' /\ OthersIntact'
         /\ tables' \ tables \subseteq KernelMemory
<1>1. /\ step = "paging" /\ pc = "ready" /\ pc' = "ready" /\ released = {} /\ released' = {}
      /\ Base /\ Safe /\ PP!BInv /\ PP!Next /\ UNCHANGED <<gdt, idt>>
      /\ step' \in {"paging", "idt", "wild"}
  <2>1. step = "paging" /\ pc = "ready" /\ released = {} /\ Base /\ Safe /\ PP!BInv
    BY DEF MapMemory, BootInv, StepInv, PagingInv
  <2>2. pc' = pc /\ released' = released
    BY <2>1 DEF MapMemory, PmemRequestFrame, Ready, vars, history
  <2>3. step' \in {"paging", "idt", "wild"} /\ UNCHANGED <<gdt, idt>>
    BY DEF MapMemory, processor
  <2>4. PP!Next
    BY SameNext DEF MapMemory
  <2>5. QED
    BY <2>1, <2>2, <2>3, <2>4
<1>2. StepInv'
  BY <1>1 DEF BootInv, StepInv
<1>3. PP!BInv'
  BY <1>1, PP!BInvNext, SameHypotheses, Assumptions
<1>4. PP!PInv /\ PP!EnoughFrames
  BY <1>1, PP!BInvEnough, SameHypotheses, Assumptions DEF PP!BInv
<1>5. /\ tables \subseteq tables'
      /\ tables' \ tables \subseteq {frame_addr[j] : j \in InState(FREE_FRAME)}
      /\ \A f \in PP!Physical \ tables' : f # PP!NULL => mem'[f] = mem[f]
  BY <1>1, <1>4, PP!StepTables, Assumptions
<1>6. ASSUME NEW f \in tables' \ tables
      PROVE  f \in KernelMemory /\ f \notin ProtectedAddresses
  <2>1. PICK j \in InState(FREE_FRAME) : f = frame_addr[j]
    BY <1>5
  <2>2. j \in FrameIds /\ j \notin ProtectedFrames /\ f = MappedFrames[j + 1] /\ f \in KernelMemory
    BY <1>1, <2>1, FreeFrames
  <2>3. ProtectedFrames \subseteq FrameIds
    BY ProtectedAreFrames
  <2>4. QED
    BY <2>2, <2>3, AddressesDiffer DEF ProtectedAddresses
<1>7. OthersIntact'
  <2>1. tables' \cap ProtectedAddresses \subseteq {Root}
    BY <1>6 DEF BootInv, OthersIntact
  <2>2. \A f \in PP!Physical \ tables' : f # NULL => mem'[f] = Garbage
    BY <1>5 DEF BootInv, OthersIntact, NULL, PP!NULL
  <2>3. QED
    BY <2>1, <2>2 DEF OthersIntact
<1>8. QED
  BY <1>1, <1>2, <1>3, <1>6, <1>7 DEF PagingInv

LEMMA InvOtherSteps ==
  ASSUME FitsItsTables, BootInv, UNCHANGED <<paging, vars>>,
         \/ CheckCpu \/ InitGdt \/ HpetInit \/ EnablePaging \/ InitIdt
         \/ ReadDevices \/ ApicEnable \/ Interrupt \/ UNCHANGED bootvars
  PROVE  StepInv' /\ PagingInv' /\ OthersIntact'
<1>1. StepInv'
  BY DEF BootInv, StepInv, CheckCpu, InitGdt, HpetInit, EnablePaging, InitIdt, ReadDevices,
         ApicEnable, Interrupt, bootvars, processor, vars, history
<1>2. PagingInv'
  <2>1. pc' = pc /\ UNCHANGED <<paging, state, frame_addr, frames>>
    BY DEF vars, memory
  <2>2. OnlyTaken => OnlyTaken'
    BY <2>1 DEF OnlyTaken, Ids
  <2>3. QED
    BY <2>1, <2>2, PagingKept, BeforeKept DEF BootInv, PagingInv
<1>3. QED
  BY <1>1, <1>2, OthersKept DEF BootInv

LEMMA BootInvNext == ASSUME FitsItsTables PROVE BootInv /\ [BootNext]_bootvars => BootInv'
<1> SUFFICES ASSUME BootInv, [BootNext]_bootvars PROVE BootInv'
  OBVIOUS
<1>1. Base' /\ Safe'
  BY AllocatorStep, BaseNext, SafeNext DEF BootInv
<1>2. StepInv' /\ PagingInv' /\ OthersIntact'
  <2>1. CASE InitPmem
    BY <2>1, InvInitPmem
  <2>2. CASE MapMemory
    BY <2>2, InvMapMemory
  <2>3. CASE ~ InitPmem /\ ~ MapMemory
    BY <2>3, InvOtherSteps
    DEF BootNext, Start, CheckCpu, InitGdt, HpetInit, EnablePaging, InitIdt, ReadDevices,
        ApicEnable, Interrupt, bootvars
  <2>4. QED
    BY <2>1, <2>2, <2>3
<1>3. QED
  BY <1>1, <1>2 DEF BootInv

LEMMA BootInvAlways == ASSUME FitsItsTables PROVE BootSpec => []BootInv
<1>1. BootInit => BootInv
  BY BootInvInit
<1>2. BootInv /\ [BootNext]_bootvars => BootInv'
  BY BootInvNext
<1>3. QED
  BY <1>1, <1>2, PTL DEF BootSpec
-----------------------------------------------------------------------------
(* What loses a boot, and what it has passed so far. *)

LostInv ==
  /\ machine \in Machines
  /\ CR4_LA57 \in cr4 <=> machine.la57
  /\ Root \in tables /\ tables \ {Root} \subseteq KernelMemory
  /\ step \in {"cpu", "pmem", "gdt", "hpet", "enable"} => tables = {Root} /\ stage = "identity"
  /\ step = "enable" => HasHpetTable /\ hpet_desc # NULL
  /\ step \in {"paging", "idt", "acpi", "apic", "loop"} => HasHpetTable /\ ~ machine.strict
  /\ step = "paging" /\ stage # "identity" => ~ machine.la57
  /\ LostForCause

LEMMA HpetFound ==
  ASSUME NEW m \in Machines
  PROVE  (\E e \in 1 .. Len(m.rsdt) : m.rsdt[e] = "HPET")
           <=> GetAcpiStdHeader(m.rsdt, "HPET") # NULL
<1> DEFINE found == {e \in 1 .. Len(m.rsdt) : m.rsdt[e] = "HPET"}
<1>1. Len(m.rsdt) \in Nat
  BY MachinesAssumption
<1>2. found \subseteq Nat \ {0} /\ ((\E e \in 1 .. Len(m.rsdt) : m.rsdt[e] = "HPET") <=> found # {})
  BY <1>1
<1>3. GetAcpiStdHeader(m.rsdt, "HPET") =
        IF found = {} THEN NULL ELSE CHOOSE e \in found : \A f \in found : e <= f
  BY DEF GetAcpiStdHeader
<1> HIDE DEF found
<1>4. found # {} => \E e \in found : \A f \in found : e <= f
  BY <1>2, LeastElement
<1>5. QED
  BY <1>2, <1>3, <1>4 DEF NULL

LEMMA LostInit == BootInit => LostInv
<1> SUFFICES ASSUME BootInit PROVE LostInv
  OBVIOUS
<1>1. tables = {Root} /\ machine \in Machines /\ step = "cpu" /\ stage = "identity"
  BY DEF BootInit, PG!NothingMapped
<1>2. CR4_LA57 \in cr4 <=> machine.la57
  BY DEF BootInit, CR4_PAE, CR4_LA57
<1>3. QED
  BY <1>1, <1>2 DEF LostInv, LostForCause

(* What a step of init_paging may do to the phase it is in. *)
LEMMA StageStep ==
  ASSUME PG!Next
  PROVE  /\ stage = "identity" /\ stage' # stage => stage' = "test" /\ tables' = tables
         /\ stage # "identity" => stage' # "identity"
<1>1. PG!SetCr3Register => stage = "identity" /\ stage' = "test" /\ PG!vars' = PG!vars
  BY DEF PG!SetCr3Register
<1>2. PG!vars' = PG!vars => tables' = tables
  BY DEF PG!vars
<1>3. PG!SetCr3Register => stage = "identity" /\ stage' = "test" /\ tables' = tables
  BY <1>1, <1>2
<1>4. PG!WalkTables \/ PG!IdentityMapNext => stage' = stage
  BY DEF PG!WalkTables, PG!IdentityMapNext
<1>5. PG!MapTestPage => stage = "test" /\ stage' = "write"
  BY DEF PG!MapTestPage
<1>6. PG!WriteTestByte => stage = "write" /\ stage' = "check"
  BY DEF PG!WriteTestByte
<1>7. PG!CheckTestByte => stage = "check" /\ stage' \in {"done", "panic"}
  BY DEF PG!CheckTestByte
<1>8. QED
  BY <1>3, <1>4, <1>5, <1>6, <1>7 DEF PG!Next

LEMMA LostMapMemory ==
  ASSUME FitsItsTables, BootInv, LostInv, MapMemory
  PROVE  LostInv'
<1>1. /\ machine' = machine /\ cr4' = cr4 /\ hpet_desc' = hpet_desc /\ step = "paging"
      /\ step' \in {"paging", "idt", "wild"} /\ PG!Next
  BY DEF MapMemory, processor, results
<1>2. HasHpetTable /\ ~ machine.strict /\ HasHpetTable' /\ (stage # "identity" => ~ machine.la57)
  BY <1>1 DEF LostInv, HasHpetTable
<1>3. tables \subseteq tables' /\ tables' \ tables \subseteq KernelMemory
  <2>1. PP!PInv /\ PP!EnoughFrames /\ PP!Next
    <3>1. pc = "ready"
      BY <1>1 DEF BootInv, StepInv
    <3>2. PP!BInv
      BY <3>1 DEF BootInv, PagingInv
    <3>3. QED
      BY <1>1, <3>2, PP!BInvEnough, SameNext, SameHypotheses, Assumptions DEF PP!BInv
  <2>2. tables \subseteq tables'
    BY <2>1, PP!StepTables, Assumptions
  <2>3. QED
    BY <2>2, InvMapMemory
<1>4. Root \in tables' /\ tables' \ {Root} \subseteq KernelMemory
  BY <1>3 DEF LostInv
<1>5. CASE stage' \in {"done", "panic"}
  <2>1. ~ machine.la57 /\ stage # "identity"
    BY <1>1, <1>2, <1>5, StageStep
  <2>2. step' = "idt"
    BY <1>5, <2>1 DEF MapMemory
  <2>3. QED
    BY <1>1, <1>2, <1>4, <2>1, <2>2 DEF LostInv, LostForCause
<1>6. CASE stage = "identity" /\ stage' # stage
  <2>1. stage' = "test" /\ tables' = tables
    BY <1>1, <1>6, StageStep
  <2>2. IF machine.la57 THEN step' = "wild" ELSE step' = "paging"
    BY <1>6, <2>1 DEF MapMemory, LostInv
  <2>3. QED
    BY <1>1, <1>2, <1>4, <2>1, <2>2 DEF LostInv, LostForCause
<1>7. CASE stage = "identity" /\ stage' = stage
  <2>1. \/ step' = "paging"
        \/ step' = "wild" /\ (tables' \ tables) \cap machine.firmware_tables # {}
    BY <1>7 DEF MapMemory
  <2>2. step' = "wild" => machine.firmware_tables \cap (tables' \ {Root}) # {}
    BY <2>1 DEF LostInv
  <2>3. QED
    BY <1>1, <1>2, <1>4, <1>7, <2>1, <2>2 DEF LostInv, LostForCause
<1>8. CASE stage # "identity" /\ stage' \notin {"done", "panic"}
  <2>1. step' = "paging"
    BY <1>8 DEF MapMemory
  <2>2. QED
    BY <1>1, <1>2, <1>4, <1>8, <2>1 DEF LostInv, LostForCause
<1>9. QED
  BY <1>5, <1>6, <1>7, <1>8

LEMMA LostNext ==
  ASSUME FitsItsTables, PG!SizesRoundUp
  PROVE  BootInv /\ LostInv /\ [BootNext]_bootvars => LostInv'
<1> SUFFICES ASSUME BootInv, LostInv, [BootNext]_bootvars PROVE LostInv'
  OBVIOUS
<1>1. machine' = machine /\ machine \in Machines /\ (HasHpetTable' <=> HasHpetTable)
  BY DEF LostInv, BootNext, Start, CheckCpu, InitPmem, InitGdt, HpetInit, EnablePaging, MapMemory,
         InitIdt, ReadDevices, ApicEnable, Interrupt, bootvars, HasHpetTable
<1>2. CASE MapMemory
  BY <1>2, LostMapMemory
<1>3. CASE HpetInit
  <2>1. hpet_desc' # NULL <=> HasHpetTable
    BY <1>1, <1>3, HpetFound DEF HpetInit, HasHpetTable
  <2>2. /\ step = "hpet" /\ UNCHANGED <<cr4, tables, stage>>
        /\ step' = IF hpet_desc' = NULL THEN "wild" ELSE "enable"
    BY <1>3 DEF HpetInit, processor, paging
  <2>3. QED
    BY <1>1, <2>1, <2>2 DEF LostInv, LostForCause
<1>4. CASE EnablePaging
  <2>1. /\ step = "enable" /\ UNCHANGED <<tables, stage, hpet_desc>>
        /\ \/ machine.strict /\ step' = "dead" /\ cr4' = cr4
           \/ ~ machine.strict /\ step' = "paging" /\ cr4' = FourLevelPaging(cr4)
    BY <1>4 DEF EnablePaging, results, paging
  <2>2. CR4_LA57 \in cr4' <=> CR4_LA57 \in cr4
    BY <2>1 DEF FourLevelPaging, CR4_LA57, CR4_PAE
  <2>3. stage = "identity"
    BY <2>1 DEF LostInv
  <2>4. QED
    BY <1>1, <2>1, <2>2, <2>3 DEF LostInv, LostForCause
<1>5. CASE ReadDevices
  <2>1. PP!PInv
    <3>1. pc = "ready"
      BY <1>5 DEF ReadDevices, BootInv, StepInv
    <3>2. QED
      BY <3>1 DEF BootInv, PagingInv, PP!BInv
  <2>2. PG!DevicesStayMapped
    BY <2>1, PP!PInvDevices, SameDevices, SameHypotheses, Assumptions
  <2>3. step = "acpi" /\ step' = "apic" /\ UNCHANGED <<cr4, tables, stage, hpet_desc>>
    BY <1>5, <2>2 DEF ReadDevices, processor, paging, results
  <2>4. QED
    BY <1>1, <2>3 DEF LostInv, LostForCause
<1>6. CASE Interrupt
  <2>1. /\ machine.interrupts /\ gdt' = "kernel" /\ step' = "dead"
        /\ UNCHANGED <<cr4, tables, stage, hpet_desc>>
    BY <1>6 DEF Interrupt, processor, paging, results
  <2>2. QED
    BY <1>1, <2>1 DEF LostInv, LostForCause
<1>7. CASE CheckCpu \/ InitPmem \/ InitGdt \/ InitIdt \/ ApicEnable
  <2>1. /\ UNCHANGED <<cr4, tables, stage, hpet_desc>>
        /\ \/ step = "cpu" /\ step' = "pmem"
           \/ step = "pmem" /\ step' \in {"pmem", "gdt"}
           \/ step = "gdt" /\ step' = "hpet"
           \/ step = "idt" /\ step' = "acpi"
           \/ step = "apic" /\ step' = "loop"
    BY <1>7 DEF CheckCpu, InitPmem, InitGdt, InitIdt, ApicEnable, processor, paging, results
  <2>2. QED
    BY <1>1, <2>1 DEF LostInv, LostForCause
<1>8. CASE UNCHANGED bootvars
  BY <1>1, <1>8 DEF LostInv, LostForCause, bootvars, processor, paging, results
<1>9. QED
  BY <1>2, <1>3, <1>4, <1>5, <1>6, <1>7, <1>8 DEF BootNext, Start

(* None of the causes is one of a supported machine: its tables are built in the *)
(* kernel's memory, where the firmware has none.                                 *)
LEMMA SupportedNotLost == LostInv => (Supported => step \notin {"dead", "wild"})
BY DEF LostInv, LostForCause, Supported

-----------------------------------------------------------------------------
(* The two models of a request agree: the frame that init_paging is given is *)
(* the one that pmem_request_frame finds, or NULL if there is none.          *)
LEMMA RequestsSame ==
  ASSUME Base, pc = "ready"
  PROVE  PG!Requested = {RequestResult}
<1> DEFINE free == {frame_addr[j] : j \in InState(FREE_FRAME)}
<1>1. /\ Ids = FrameIds /\ \A j \in FrameIds : frame_addr[j] = MappedFrames[j + 1]
      /\ InState(FREE_FRAME) \subseteq FrameIds /\ InState(FREE_FRAME) \subseteq Nat
  BY ArrayAddresses, FrameCountType DEF InState, FrameIds
<1>2. CASE InState(FREE_FRAME) = {}
  <2>1. Requested = {}
    BY <1>2 DEF Requested
  <2>2. free = {}
    BY <1>2
  <2>3. QED
    BY <2>1, <2>2 DEF RequestResult, PG!Requested, NULL, PG!NULL
<1>3. CASE InState(FREE_FRAME) # {}
  <2>1. PICK j \in InState(FREE_FRAME) : \A k \in InState(FREE_FRAME) : j <= k
    BY <1>1, <1>3, LeastElement
  <2>2. count[FREE_FRAME] # 0
    <3>1. Cardinality(InState(FREE_FRAME)) # 0
      BY <1>3, InStateFinite, FS_EmptySet DEF Base, TypeOK
    <3>2. QED
      BY <3>1, FrameStates DEF Base, CountersMatch
  <2>3. Requested = {j}
    BY <1>1, <2>1, <2>2 DEF Requested
  <2>4. RequestResult = MappedFrames[j + 1]
    BY <1>1, <2>3 DEF RequestResult
  <2>5. /\ \A k \in FrameIds : k + 1 \in DOMAIN MappedFrames
        /\ \A m \in DOMAIN MappedFrames : m - 1 \in FrameIds /\ m = (m - 1) + 1
    BY FrameCountType DEF MappedFrames, FrameIds
  <2>6. ASSUME NEW k \in FrameIds PROVE MappedFrames[k + 1] \in free <=> k \in InState(FREE_FRAME)
    BY <1>1, AddressesDiffer
  <2>7. ASSUME NEW m \in DOMAIN MappedFrames
        PROVE  /\ MappedFrames[m] \in free
               /\ \A k \in DOMAIN MappedFrames : MappedFrames[k] \in free => m <= k
               <=> m = j + 1
    <3> DEFINE First == /\ MappedFrames[m] \in free
                        /\ \A k \in DOMAIN MappedFrames : MappedFrames[k] \in free => m <= k
    <3> HIDE DEF free
    <3>1. m = j + 1 => First
      <4>1. ASSUME NEW k \in DOMAIN MappedFrames, MappedFrames[k] \in free PROVE j + 1 <= k
        <5>1. k - 1 \in InState(FREE_FRAME)
          BY <2>5, <2>6, <4>1
        <5>2. j <= k - 1 /\ j \in Nat /\ k - 1 \in Nat
          BY <1>1, <2>1, <5>1
        <5>3. QED
          BY <2>5, <4>1, <5>2
      <4>2. MappedFrames[j + 1] \in free
        BY <1>1, <2>1, <2>6
      <4>3. QED
        BY <4>1, <4>2
    <3>2. First => m = j + 1
      <4> SUFFICES ASSUME First PROVE m = j + 1
        OBVIOUS
      <4>1. m - 1 \in InState(FREE_FRAME)
        BY <2>5, <2>6
      <4>2. MappedFrames[j + 1] \in free /\ j + 1 \in DOMAIN MappedFrames
        BY <1>1, <2>1, <2>5, <2>6
      <4>3. m <= j + 1 /\ j <= m - 1 /\ j \in Nat /\ m - 1 \in Nat
        BY <1>1, <2>1, <4>1, <4>2
      <4>4. m \in Int
        BY FrameCountType DEF MappedFrames
      <4>5. QED
        BY <4>3, <4>4
    <3>3. QED
      BY <3>1, <3>2
  <2>8. free # {} /\ j + 1 \in DOMAIN MappedFrames
    BY <1>1, <1>3, <2>1, <2>5
  <2>9. QED
    BY <2>4, <2>7, <2>8 DEF PG!Requested
<1>4. QED
  BY <1>2, <1>3
-----------------------------------------------------------------------------
(***************************************************************************)
(* Whatever the machine, the boot uses the allocator as its module says:   *)
(* all that is proved of the allocator is true of the boot.                *)
(***************************************************************************)
THEOREM BootRunsAllocator == BootSpec => Spec
<1>1. BootInit => Init
  BY DEF BootInit
<1>2. [BootNext]_bootvars => [Next]_vars
  BY AllocatorStep
<1>3. QED
  BY <1>1, <1>2, PTL DEF BootSpec, Spec

(* The parts of the kernel are initialised when others rely on them: when the *)
(* allocator is used its array is complete, and it grants only mapped frames. *)
THEOREM BootTypeCorrect == ASSUME FitsItsTables PROVE BootSpec => []BootTypeOK
<1>1. BootInv => BootTypeOK
  <2> SUFFICES ASSUME BootInv PROVE BootTypeOK
    OBVIOUS
  <2>1. TypeOK
    BY DEF BootInv, Base
  <2>2. CASE step \notin {"cpu", "pmem"}
    <3>1. pc = "ready" /\ PP!BInv
      BY <2>2 DEF BootInv, StepInv, PagingInv
    <3>2. PG!PagingTypeOK
      BY <3>1, PP!PInvType, SameType, Assumptions DEF PP!BInv
    <3>3. \A j \in FrameIds : frame_addr[j] = MappedFrames[j + 1]
      BY <3>1, ArrayAddresses DEF BootInv
    <3>4. QED
      BY <2>1, <3>1, <3>2, <3>3 DEF BootInv, StepInv, BootTypeOK
  <2>3. CASE step \in {"cpu", "pmem"}
    BY <2>1, <2>3 DEF BootInv, StepInv, BootTypeOK
  <2>4. QED
    BY <2>2, <2>3
<1>2. BootSpec => []BootInv
  BY BootInvAlways
<1>3. QED
  BY <1>1, <1>2, PTL

(***************************************************************************)
(* Whatever the machine, the page tables are built in none of the frames   *)
(* that the firmware, the loader, the stack or the allocator's array       *)
(* occupy: these keep what they hold.                                      *)
(***************************************************************************)
THEOREM BootKeepsProtected == ASSUME FitsItsTables PROVE BootSpec => []ProtectedIntact
<1>1. BootInv => ProtectedIntact
  <2> SUFFICES ASSUME BootInv, NEW j \in ProtectedFrames,
                      MappedFrames[j + 1] \notin {Root, NULL}
               PROVE  mem[MappedFrames[j + 1]] = Garbage
    BY DEF ProtectedIntact
  <2>1. MappedFrames[j + 1] \in PP!Physical
    <3>1. j + 1 \in DOMAIN MappedFrames
      BY ProtectedAreFrames, FrameCountType DEF FrameIds, MappedFrames
    <3>2. MappedFrames \in Seq(PP!Physical)
      BY Assumptions DEF PP!PagingAssumption
    <3>3. QED
      BY <3>1, <3>2
  <2>2. MappedFrames[j + 1] \notin tables
    BY DEF BootInv, OthersIntact, ProtectedAddresses
  <2>3. QED
    BY <2>1, <2>2 DEF BootInv, OthersIntact
<1>2. BootSpec => []BootInv
  BY BootInvAlways
<1>3. QED
  BY <1>1, <1>2, PTL

(***************************************************************************)
(* On every machine, a boot that ends in a fault or a wild access has met  *)
(* one of the five things the code does not check, at the point where it   *)
(* matters, and boots that meet one for certain go no further.  So a boot  *)
(* on a supported machine never ends that way.                             *)
(***************************************************************************)
THEOREM BootNeverLost ==
  ASSUME FitsItsTables, PG!SizesRoundUp
  PROVE  BootSpec => /\ []LostForCause
                     /\ [](Supported => step \notin {"dead", "wild"})
<1>1. BootInit => LostInv
  BY LostInit
<1>2. BootInv /\ LostInv /\ [BootNext]_bootvars => LostInv'
  BY LostNext
<1>3. LostInv => LostForCause /\ (Supported => step \notin {"dead", "wild"})
  BY SupportedNotLost DEF LostInv
<1>4. BootSpec => []BootInv
  BY BootInvAlways
<1>5. QED
  BY <1>1, <1>2, <1>3, <1>4, PTL DEF BootSpec

(* The two models of a request agree, so that joining the steps of the two in *)
(* MapMemory forbids none of them.                                            *)
THEOREM BootRequestsAgree ==
  ASSUME FitsItsTables
  PROVE  BootSpec => [](pc = "ready" => PG!Requested = {RequestResult})
<1>1. BootInv => (pc = "ready" => PG!Requested = {RequestResult})
  BY RequestsSame DEF BootInv
<1>2. BootSpec => []BootInv
  BY BootInvAlways
<1>3. QED
  BY <1>1, <1>2, PTL

(* What is proved of init_paging by itself holds when the allocator gives it *)
(* its frames: the tables are a tree, map all memory, and map nothing else.  *)
THEOREM BootPagingCorrect ==
  ASSUME FitsItsTables
  PROVE  BootSpec => [](pc = "ready" => /\ PP!TablesDistinct /\ PP!MemoryStaysMapped
                                        /\ PP!NoPageFault /\ PP!NothingElseMapped)
<1>1. BootInv => (pc = "ready" => /\ PP!TablesDistinct /\ PP!MemoryStaysMapped
                                  /\ PP!NoPageFault /\ PP!NothingElseMapped)
  <2> SUFFICES ASSUME BootInv, pc = "ready"
               PROVE  /\ PP!TablesDistinct /\ PP!MemoryStaysMapped
                      /\ PP!NoPageFault /\ PP!NothingElseMapped
    OBVIOUS
  <2>1. PP!BInv /\ PP!PInv /\ PP!Inv
    BY DEF BootInv, PagingInv, PP!BInv, PP!PInv
  <2>2. PP!EnoughFrames
    BY <2>1, PP!BInvEnough, SameHypotheses, Assumptions
  <2>3. PP!TablesDistinct
    BY <2>1, PP!InvDistinct, Assumptions
  <2>4. PP!MemoryStaysMapped
    BY <2>1, PP!PInvMemory, Assumptions
  <2>5. PP!NoPageFault
    BY <2>1, <2>2, PP!PInvNoPageFault, Assumptions
  <2>6. PP!NothingElseMapped
    BY <2>1, PP!PInvNothingElse, Assumptions
  <2>7. QED
    BY <2>3, <2>4, <2>5, <2>6
<1>2. BootSpec => []BootInv
  BY BootInvAlways
<1>3. QED
  BY <1>1, <1>2, PTL
=============================================================================
