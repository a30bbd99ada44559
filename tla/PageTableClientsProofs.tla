----------------------- MODULE PageTableClientsProofs -----------------------
(***************************************************************************)
(* Theorems about any sequence of calls of map_vaddr_to_paddr, as long as  *)
(* a frame is free whenever a call needs a table (EnoughFrames); and that  *)
(* this is so if the machine has as many frames as the pages have tables.  *)
(***************************************************************************)
EXTENDS PageTableClients, PageTablesProofs

(* The frame of the call in progress fits the field of an entry. *)
IInv == Inv /\ Stored(paddr) = paddr

LEMMA ClientTypes ==
  /\ \A v \in VPages : v \in Nat
  /\ \A p \in PPages : p \in Nat /\ Stored(p) = p
BY PagingAssumption, ClientsAssumption DEF Stored

LEMMA IInvInit == Init => IInv
<1>1. Init => Stored(paddr) = paddr
  BY PagingAssumption DEF Init, NothingMapped, Stored
<1>2. QED
  BY <1>1, InvInit DEF IInv

LEMMA IInvNext == IInv /\ EnoughFrames /\ [Next]_vars => IInv'
<1> SUFFICES ASSUME IInv, EnoughFrames, [Next]_vars PROVE IInv'
  OBVIOUS
<1> USE DEF IInv
<1>1. CASE EnterTable
  BY <1>1, InvEnterTable DEF EnterTable, Stored
<1>2. CASE CreateTable
  BY <1>2, InvCreateTable DEF CreateTable, Stored
<1>3. CASE SetPage
  BY <1>3, InvSetPage DEF SetPage, Stored
<1>4. CASE \E v \in VPages, p \in PPages : MapVaddrToPaddr(v, p)
  <2>1. PICK v \in VPages, p \in PPages : MapVaddrToPaddr(v, p)
    BY <1>4
  <2>2. Inv'
    BY <2>1, ClientTypes, InvMap
  <2>3. paddr' = p
    BY <2>1 DEF MapVaddrToPaddr
  <2>4. QED
    BY <2>2, <2>3, ClientTypes DEF Stored
<1>5. CASE UNCHANGED vars
  <2>1. UNCHANGED <<mem, free, level, table, indexes, paddr, tables>>
    BY <1>5 DEF vars, call
  <2>2. Shape' /\ Known' /\ Tree'
    BY <2>1, SameNodes DEF Inv, Shape, Known, Tree
  <2>3. AtNode'
    BY <2>1, SameNodes DEF Inv, AtNode
  <2>4. QED
    BY <2>1, <2>2, <2>3 DEF Inv, Stored
<1>6. QED
  BY <1>1, <1>2, <1>3, <1>4, <1>5 DEF Next, Walk

LEMMA IInvAlways == Spec /\ []EnoughFrames => []IInv
BY IInvInit, IInvNext, PTL DEF Spec

-----------------------------------------------------------------------------
(* The variables keep their types: no pointer to a table is ever truncated or *)
(* read from a frame that is not one.                                         *)
THEOREM TypeCorrect == Spec /\ []EnoughFrames => []TypeOK
BY IInvAlways, InvType, PTL DEF IInv

(* No frame is a table at two places of the tree, and none that is a table can *)
(* be granted again.                                                           *)
THEOREM TablesStayDistinct == Spec /\ []EnoughFrames => []TablesDistinct
BY IInvAlways, InvDistinct, PTL DEF IInv

(* is_page_present and the processor agree on every address at every moment. *)
THEOREM PresentCorrect == Spec /\ []EnoughFrames => []PresentAgrees
BY IInvAlways, InvPresent, PTL DEF IInv

(* A step of a call changes the contents of tables only. *)
LEMMA StepWritesTables ==
  IInv /\ EnoughFrames /\ [Next]_vars => [\A f \in Physical \ tables' : mem'[f] = mem[f]]_vars
<1> SUFFICES ASSUME IInv, EnoughFrames, Next, NEW f \in Physical \ tables'
             PROVE  mem'[f] = mem[f]
  OBVIOUS
<1>1. CASE EnterTable \/ \E v \in VPages, p \in PPages : MapVaddrToPaddr(v, p)
  BY <1>1 DEF EnterTable, MapVaddrToPaddr
<1>2. CASE CreateTable
  <2>1. table \in tables
    BY <1>2, EntryOfCall DEF CreateTable, IInv
  <2>2. PICK new \in free : mem' = Linked(new) /\ tables' = tables \cup {new}
    BY <1>2, NewTable DEF IInv
  <2>3. f # table /\ f # new
    BY <2>1, <2>2
  <2>4. QED
    BY <2>2, <2>3 DEF Linked, IInv, Inv, Shape
<1>3. CASE SetPage
  <2>1. table \in tables /\ tables' = tables
    BY <1>3, EntryOfCall DEF SetPage, IInv
  <2>2. QED
    BY <1>3, <2>1 DEF SetPage, IInv, Inv, Shape
<1>4. QED
  BY <1>1, <1>2, <1>3 DEF Next, Walk

(* No call writes to a frame that is not one of its tables. *)
THEOREM WritesOnlyTables == Spec /\ []EnoughFrames => OnlyTablesWritten
BY IInvAlways, StepWritesTables, PTL DEF Spec, OnlyTablesWritten

-----------------------------------------------------------------------------
(* The frames do not run out. *)

Counted == IInv /\ FramesCounted(VPages) /\ CallIn(VPages)

LEMMA CountedInit == ASSUME RoomFor(VPages) PROVE Init => Counted
BY IInvInit, CountInit, ClientsAssumption DEF Counted, CallIn, Init, NothingMapped

LEMMA CountedEnough == ASSUME RoomFor(VPages) PROVE Counted => EnoughFrames
BY RoomLeft, ClientsAssumption DEF Counted, IInv

LEMMA CountedNext == ASSUME RoomFor(VPages) PROVE Counted /\ [Next]_vars => Counted'
<1> SUFFICES ASSUME Counted, [Next]_vars PROVE Counted'
  OBVIOUS
<1>1. EnoughFrames /\ Inv /\ VPages \in SUBSET Nat
  BY CountedEnough, ClientsAssumption DEF Counted, IInv
<1>2. IInv'
  BY <1>1, IInvNext DEF Counted
<1>3. CallIn(VPages)'
  <2>1. CASE \E v \in VPages, p \in PPages : MapVaddrToPaddr(v, p)
    BY <2>1 DEF MapVaddrToPaddr, CallIn
  <2>2. CASE Walk \/ UNCHANGED vars
    BY <2>2 DEF Walk, EnterTable, CreateTable, SetPage, vars, call, CallIn, Counted
  <2>3. QED
    BY <2>1, <2>2 DEF Next
<1>4. FramesCounted(VPages)'
  <2>1. CASE CreateTable
    BY <1>1, <2>1, CountCreateTable DEF Counted
  <2>2. CASE SetPage
    <3>1. free' = free /\ \A p \in VPages : Indexes(p) \in Paths
      BY <1>1, <2>2, IndexesType DEF SetPage
    <3>2. \A ix \in Paths, l \in 1 .. 3 : Node(ix, l)' = Node(ix, l)
      BY <2>2, SetPageNodes DEF Counted, IInv
    <3>3. \A p \in VPages, l \in 1 .. 3 : Node(Indexes(p), l)' = Node(Indexes(p), l)
      BY <3>1, <3>2
    <3>4. QED
      BY <1>1, <3>1, <3>3, CountKept DEF Counted
  <2>3. CASE EnterTable \/ UNCHANGED vars \/ \E v \in VPages, p \in PPages : MapVaddrToPaddr(v, p)
    <3>1. mem' = mem /\ free' = free
      BY <2>3 DEF EnterTable, MapVaddrToPaddr, vars
    <3>2. \A p \in VPages, l \in 1 .. 3 : Node(Indexes(p), l)' = Node(Indexes(p), l)
      BY <3>1, SameNodes
    <3>3. QED
      BY <1>1, <3>1, <3>2, CountKept DEF Counted
  <2>4. QED
    BY <2>1, <2>2, <2>3 DEF Next, Walk
<1>5. QED
  BY <1>2, <1>3, <1>4 DEF Counted

(* With a frame for each place of the tree where a page needs a table, beside *)
(* those in use at the start, a call never finds the allocator empty: no table *)
(* is created a second time, and no frame is taken for anything else.          *)
THEOREM FramesSuffice == ASSUME RoomFor(VPages) PROVE Spec => []EnoughFrames
BY CountedInit, CountedNext, CountedEnough, PTL DEF Spec

-----------------------------------------------------------------------------
(* The refinement of AddressSpace. *)

LEMMA SpaceInit == Init => Space!Init
<1> SUFFICES ASSUME Init PROVE Space!Init
  OBVIOUS
<1>1. \A ix \in Paths : Translate(ix) = Unmapped
  BY EmptyNodes DEF Node
<1>2. level = 0
  BY DEF Init, NothingMapped
<1>3. QED
  BY <1>1, <1>2 DEF Space!Init, Space!NoRequest

(* Only the last step of a call changes a translation. *)
LEMMA TranslationsKept ==
  ASSUME IInv, EnoughFrames, EnterTable \/ CreateTable
  PROVE  \A ix \in Paths : Translate(ix)' = Translate(ix)
<1>1. CASE EnterTable
  BY <1>1, SameNodes DEF EnterTable, Node
<1>2. CASE CreateTable
  <2>1. level - 1 # 0
    BY <1>2 DEF CreateTable, IInv, Inv, Shape
  <2>2. \A ix \in Paths : Node(ix, 0)' = Node(ix, 0)
    BY <1>2, <2>1, CreateTableNodes DEF IInv
  <2>3. QED
    BY <2>2 DEF Node
<1>3. QED
  BY <1>1, <1>2

LEMMA SpaceNext == IInv /\ EnoughFrames /\ [Next]_vars => [Space!Next]_Space!vars
<1> DEFINE m == [ix \in Paths |-> Translate(ix)]
           r == IF level = 0 THEN << >> ELSE <<indexes, paddr>>
<1> SUFFICES ASSUME IInv, EnoughFrames, [Next]_vars
             PROVE  Space!Next \/ UNCHANGED <<m, r>>
  BY DEF Space!vars
<1>1. CASE EnterTable \/ CreateTable
  <2>1. m' = m
    BY <1>1, TranslationsKept
  <2>2. r' = r
    BY <1>1 DEF EnterTable, CreateTable, IInv, Inv, Shape
  <2>3. QED
    BY <2>1, <2>2
<1>2. CASE SetPage
  <2>1. r = <<indexes, paddr>> /\ r' = << >>
    BY <1>2 DEF SetPage
  <2>2. \A ix \in Paths : Translate(ix)' = IF ix = indexes THEN paddr ELSE Translate(ix)
    BY <1>2, SetPageNodes DEF IInv, Node
  <2>3. m' = [m EXCEPT ![indexes] = paddr]
    BY <2>2
  <2>4. Space!Serve
    BY <2>1, <2>3 DEF Space!Serve, Space!NoRequest
  <2>5. QED
    BY <2>4 DEF Space!Next
<1>3. CASE \E v \in VPages, p \in PPages : MapVaddrToPaddr(v, p)
  <2>1. PICK v \in VPages, p \in PPages : MapVaddrToPaddr(v, p)
    BY <1>3
  <2>2. r = << >> /\ r' = <<Indexes(v), p>>
    BY <2>1 DEF MapVaddrToPaddr
  <2>3. m' = m
    BY <2>1, SameNodes DEF MapVaddrToPaddr, Node
  <2>4. Indexes(v) \in Paths
    BY ClientTypes, IndexesType
  <2>5. Space!Ask(Indexes(v), p)
    BY <2>2, <2>3 DEF Space!Ask, Space!NoRequest
  <2>6. QED
    BY <2>4, <2>5 DEF Space!Next
<1>4. CASE UNCHANGED vars
  <2>1. UNCHANGED <<mem, level, indexes, paddr>>
    BY <1>4 DEF vars, call
  <2>2. QED
    BY <2>1, SameNodes DEF Node
<1>5. QED
  BY <1>1, <1>2, <1>3, <1>4 DEF Next, Walk

(* Every behaviour of the tables is one of the abstract address space: each   *)
(* call changes the translation of its own page, once, and of no other.       *)
THEOREM TablesImplementSpace == Spec /\ []EnoughFrames => ImplementsAddressSpace
BY IInvAlways, SpaceInit, SpaceNext, PTL DEF Spec, ImplementsAddressSpace, Space!Spec

(* With enough frames, whatever is mapped in whatever order. *)
THEOREM ClientsCorrect ==
  ASSUME RoomFor(VPages)
  PROVE  Spec => /\ [](TablesDistinct /\ PresentAgrees)
                 /\ OnlyTablesWritten /\ ImplementsAddressSpace
<1>1. Spec => []EnoughFrames
  BY FramesSuffice
<1>2. QED
  BY <1>1, TablesStayDistinct, PresentCorrect, WritesOnlyTables, TablesImplementSpace, PTL
=============================================================================
