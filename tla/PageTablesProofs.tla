-------------------------- MODULE PageTablesProofs --------------------------
(***************************************************************************)
(* What the steps of map_vaddr_to_paddr do to the tree of tables, for any  *)
(* number of entries and frames, provided that a frame is free whenever a  *)
(* table is missing.                                                       *)
(***************************************************************************)
EXTENDS PageTables, FiniteSetTheorems, TLAPS

(* The frame the walk of an address has reached at a level: the table of the *)
(* levels 4 to 1, and at 0 the frame of the page.                            *)
Node(ix, l) == IF l = 0 THEN Translate(ix) ELSE TablesOf(ix)[l]

(* Two addresses agree in the indexes of the levels above l. *)
Agree(ix, iy, l) == \A k \in l+1 .. 4 : ix[k] = iy[k]

Shape ==
  /\ mem \in [Physical -> [Index -> Entry]]
  /\ free \subseteq Managed
  /\ level \in 0 .. 4
  /\ table \in Physical
  /\ indexes \in Paths
  /\ paddr \in Nat
  /\ tables \subseteq Physical \ free
  /\ Root \in tables

(* Every table reached was requested for a table. *)
Known == \A ix \in Paths, l \in Level : Node(ix, l) \in tables \cup {Unmapped}

(* No frame is a table at two places. *)
Tree ==
  \A ix, iy \in Paths, l, m \in Level :
    Node(ix, l) # Unmapped /\ Node(ix, l) = Node(iy, m) => l = m /\ Agree(ix, iy, l)

(* The call in progress is at the table its address leads to. *)
AtNode == level # 0 => table = Node(indexes, level)

Inv == Shape /\ Known /\ Tree /\ AtNode

-----------------------------------------------------------------------------
(* The walk one level down. *)

LEMMA NodeTop == \A ix : Node(ix, 4) = Root
BY DEF Node, TablesOf

LEMMA NodeStep ==
  \A ix, l : l \in 0 .. 3 => Node(ix, l) = Below(Node(ix, l+1), ix[l+1])
<1> SUFFICES ASSUME NEW ix, NEW l \in 0 .. 3
             PROVE  Node(ix, l) = Below(Node(ix, l+1), ix[l+1])
  OBVIOUS
<1>1. l = 0 \/ l = 1 \/ l = 2 \/ l = 3
  OBVIOUS
<1>2. CASE l = 0
  BY <1>2 DEF Node, Translate
<1>3. CASE l = 1
  BY <1>3 DEF Node, TablesOf
<1>4. CASE l = 2
  BY <1>4 DEF Node, TablesOf
<1>5. CASE l = 3
  BY <1>5 DEF Node, TablesOf
<1>6. QED
  BY <1>1, <1>2, <1>3, <1>4, <1>5

LEMMA NextNodeTop == \A ix : Node(ix, 4)' = Root
BY DEF Node, TablesOf

LEMMA NextNodeStep ==
  \A ix, l : l \in 0 .. 3 => Node(ix, l)' = Below(Node(ix, l+1), ix[l+1])'
<1> SUFFICES ASSUME NEW ix, NEW l \in 0 .. 3
             PROVE  Node(ix, l)' = Below(Node(ix, l+1), ix[l+1])'
  OBVIOUS
<1>1. l = 0 \/ l = 1 \/ l = 2 \/ l = 3
  OBVIOUS
<1>2. CASE l = 0
  BY <1>2 DEF Node, Translate
<1>3. CASE l = 1
  BY <1>3 DEF Node, TablesOf
<1>4. CASE l = 2
  BY <1>4 DEF Node, TablesOf
<1>5. CASE l = 3
  BY <1>5 DEF Node, TablesOf
<1>6. QED
  BY <1>1, <1>2, <1>3, <1>4, <1>5

(* The tables above an index do not depend on it. *)
LEMMA SameAbove ==
  ASSUME NEW ix \in Paths, NEW iy \in Paths, NEW m \in 0 .. 4, Agree(ix, iy, m)
  PROVE  \A l \in m .. 4 : Node(ix, l) = Node(iy, l)
<1>1. Node(ix, 4) = Node(iy, 4)
  BY NodeTop
<1>2. \A l \in 0 .. 3 : l >= m /\ Node(ix, l+1) = Node(iy, l+1) => Node(ix, l) = Node(iy, l)
  <2> SUFFICES ASSUME NEW l \in 0 .. 3, l >= m, Node(ix, l+1) = Node(iy, l+1)
               PROVE  Node(ix, l) = Node(iy, l)
    OBVIOUS
  <2>1. ix[l+1] = iy[l+1]
    BY DEF Agree
  <2>2. QED
    BY <2>1, NodeStep
<1>3. m <= 3 => Node(ix, 3) = Node(iy, 3)
  BY <1>1, <1>2
<1>4. m <= 2 => Node(ix, 2) = Node(iy, 2)
  BY <1>2, <1>3
<1>5. m <= 1 => Node(ix, 1) = Node(iy, 1)
  BY <1>2, <1>4
<1>6. m <= 0 => Node(ix, 0) = Node(iy, 0)
  BY <1>2, <1>5
<1>7. QED
  BY <1>1, <1>3, <1>4, <1>5, <1>6

(* The frames and entries that occur. *)
LEMMA ConstantTypes ==
  /\ Root \in Physical /\ NULL \in Physical /\ Managed \subseteq Physical
  /\ \A f \in Physical : f \in Nat /\ f # Unmapped /\ Stored(f) = f /\ Pointer(f) = f
  /\ \A f \in Nat : Reference(f) \in Entry
  /\ EmptyTable \in [Index -> Entry]
<1>1. Managed \subseteq Physical /\ Root \in Physical
  BY PagingAssumption DEF Managed
<1>2. NULL \in Physical
  BY PagingAssumption DEF NULL, Physical
<1>3. ASSUME NEW f \in Physical
      PROVE  f \in Nat /\ f # Unmapped /\ Stored(f) = f /\ Pointer(f) = f
  <2>1. f \in Nat /\ f <= LastFrame
    BY PagingAssumption DEF Physical
  <2>2. f < EntryFrames /\ f < PointerFrames
    BY <2>1, PagingAssumption, MemoryAssumption
  <2>3. QED
    BY <2>1, <2>2, PagingAssumption DEF Stored, Pointer, Unmapped
<1>4. ASSUME NEW f \in Nat
      PROVE  Reference(f) \in Entry
  BY PagingAssumption DEF Reference, Entry, Stored
<1>5. EmptyTable \in [Index -> Entry]
  BY DEF EmptyTable, Entry
<1>6. QED
  BY <1>1, <1>2, <1>3, <1>4, <1>5

(* A table reached is a frame of memory. *)
LEMMA NodeIsTable ==
  ASSUME Shape, Known, NEW ix \in Paths, NEW l \in Level, Node(ix, l) # Unmapped
  PROVE  Node(ix, l) \in tables /\ Node(ix, l) \in Physical
BY DEF Shape, Known

(* Of two walks that reach the same entry of a table, both are at the same *)
(* level and agree from the entry's index upwards.                         *)
LEMMA SameEntry ==
  ASSUME Tree, NEW ix \in Paths, NEW iy \in Paths, NEW l \in 0 .. 3, NEW m \in 0 .. 3,
         Node(ix, l+1) # Unmapped, Node(ix, l+1) = Node(iy, m+1), ix[l+1] = iy[m+1]
  PROVE  l = m /\ Agree(ix, iy, l)
<1>1. l+1 \in Level /\ m+1 \in Level
  BY DEF Level
<1>2. l+1 = m+1 /\ Agree(ix, iy, l+1)
  BY <1>1 DEF Tree
<1>3. QED
  BY <1>2 DEF Agree

-----------------------------------------------------------------------------
(* A call changes one entry of the tables; the walks that pass it change. *)

LEMMA EntryOfCall ==
  ASSUME Inv, level # 0
  PROVE  /\ level - 1 \in 0 .. 3 /\ level \in Level
         /\ table = Node(indexes, level) /\ table \in tables
         /\ Node(indexes, level-1) = IF entry.present THEN entry.frame ELSE Unmapped
<1>1. level - 1 \in 0 .. 3 /\ level \in Level
  BY DEF Inv, Shape, Level
<1>2. table = Node(indexes, level)
  BY DEF Inv, AtNode
<1>3. table \in Physical /\ indexes \in Paths /\ table # Unmapped
  BY ConstantTypes DEF Inv, Shape
<1>4. table \in tables
  BY <1>1, <1>2, <1>3, NodeIsTable DEF Inv
<1>5. Node(indexes, level-1) = Below(table, indexes[level])
  <2>1. (level-1) + 1 = level
    BY <1>1
  <2>2. QED
    BY <1>1, <1>2, <2>1, NodeStep
<1>6. QED
  BY <1>1, <1>2, <1>3, <1>4, <1>5 DEF Below, entry

(***************************************************************************)
(* If the entry the call is at is not present, or is the last one, writing *)
(* a reference to it changes the node below it and no other node, provided *)
(* that the frame referred to is not a table, or is an empty one.          *)
(***************************************************************************)
LEMMA WriteEntry ==
  ASSUME Inv, level # 0, NEW f \in Nat, Stored(f) = f,
         \/ level = 1 /\ mem' = [mem EXCEPT ![table][indexes[level]] = Reference(f)]
         \/ level > 1 /\ ~ entry.present /\ f \in Physical \ tables /\ mem' = Linked(f)
  PROVE  \A ix \in Paths, l \in 0 .. 4 :
           Node(ix, l)' = IF l = level - 1 /\ Agree(ix, indexes, l) THEN f ELSE Node(ix, l)
<1> DEFINE N(ix, l) == IF l = level - 1 /\ Agree(ix, indexes, l) THEN f ELSE Node(ix, l)
<1> SUFFICES ASSUME NEW ix \in Paths
             PROVE  \A l \in 0 .. 4 : Node(ix, l)' = N(ix, l)
  OBVIOUS
<1>1. Node(ix, 4)' = N(ix, 4)
  <2>1. 4 # level - 1
    BY DEF Inv, Shape
  <2>2. QED
    BY <2>1, NodeTop, NextNodeTop
<1>2. level - 1 \in 0 .. 3 /\ level \in Level /\ (level - 1) + 1 = level
  BY EntryOfCall DEF Level
<1>3. /\ table = Node(indexes, level) /\ table \in tables /\ table \in Physical
      /\ table # Unmapped /\ indexes \in Paths /\ indexes[level] \in Index
  BY <1>2, EntryOfCall, ConstantTypes DEF Inv, Shape, Paths
<1>4. level > 1 => f # table /\ f \notin tables /\ Node(indexes, level-1) = Unmapped
  BY <1>3, EntryOfCall
<1>5. /\ mem'[table][indexes[level]] = Reference(f)
      /\ level > 1 => mem'[f] = EmptyTable
      /\ \A u \in Physical, k \in Index :
           /\ level > 1 => u # f
           /\ ~ (u = table /\ k = indexes[level])
           => mem'[u][k] = mem[u][k]
  BY <1>3, <1>4 DEF Inv, Shape, Linked
<1>6. ASSUME NEW l \in 0 .. 3, Node(ix, l+1)' = N(ix, l+1)
      PROVE  Node(ix, l)' = N(ix, l)
  <2> DEFINE t == Node(ix, l+1)
             k == ix[l+1]
  <2>1. /\ l+1 \in Level /\ k \in Index
        /\ Node(ix, l) = Below(t, k)
        /\ Node(ix, l)' = Below(Node(ix, l+1), k)'
    BY NodeStep, NextNodeStep DEF Level, Paths
  <2>2. CASE l+1 = level - 1 /\ Agree(ix, indexes, l+1)
    <3>1. level > 1 /\ l # level - 1
      BY <2>2, <1>2
    <3>2. Node(ix, l)' = Unmapped
      <4>1. mem'[f] = EmptyTable /\ Node(ix, l+1)' = f
        BY <1>5, <1>6, <2>2, <3>1
      <4>2. QED
        BY <2>1, <4>1 DEF Below, EmptyTable
    <3>3. t = Unmapped
      <4>1. t = Node(indexes, l+1)
        BY <1>3, <2>2, SameAbove
      <4>2. QED
        BY <1>4, <2>2, <3>1, <4>1
    <3>4. Node(ix, l) = Unmapped
      BY <2>1, <3>3 DEF Below
    <3>5. QED
      BY <3>1, <3>2, <3>4
  <2>3. CASE ~ (l+1 = level - 1 /\ Agree(ix, indexes, l+1))
    <3>1. Node(ix, l+1)' = t
      BY <1>6, <2>3
    <3>2. l = level - 1 /\ Agree(ix, indexes, l) => t = table /\ k = indexes[level]
      <4> SUFFICES ASSUME l = level - 1, Agree(ix, indexes, l)
                   PROVE  t = table /\ k = indexes[level]
        OBVIOUS
      <4>1. l + 1 = level /\ Agree(ix, indexes, l+1) /\ k = indexes[level]
        BY <1>2 DEF Agree
      <4>2. t = Node(indexes, l+1)
        BY <1>3, <4>1, SameAbove
      <4>3. QED
        BY <1>3, <4>1, <4>2
    <3>3. CASE t = Unmapped
      BY <1>3, <2>1, <3>1, <3>2, <3>3 DEF Below
    <3>4. CASE t # Unmapped /\ t = table /\ k = indexes[level]
      <4>1. l = level - 1 /\ Agree(ix, indexes, l)
        BY <1>2, <1>3, <3>4, SameEntry DEF Inv
      <4>2. Node(ix, l)' = Stored(f)
        BY <1>5, <2>1, <3>1, <3>4 DEF Below, Reference
      <4>3. QED
        BY <4>1, <4>2
    <3>5. CASE t # Unmapped /\ ~ (t = table /\ k = indexes[level])
      <4>1. t \in tables /\ t \in Physical
        BY <2>1, <3>5, NodeIsTable DEF Inv
      <4>2. mem'[t][k] = mem[t][k]
        BY <1>4, <1>5, <2>1, <3>5, <4>1
      <4>3. Node(ix, l)' = Node(ix, l)
        BY <2>1, <3>1, <4>2 DEF Below
      <4>4. QED
        BY <3>2, <3>5, <4>3
    <3>6. QED
      BY <3>3, <3>4, <3>5
  <2>4. QED
    BY <2>2, <2>3
<1>7. Node(ix, 3)' = N(ix, 3)
  BY <1>1, <1>6
<1>8. Node(ix, 2)' = N(ix, 2)
  BY <1>6, <1>7
<1>9. Node(ix, 1)' = N(ix, 1)
  BY <1>6, <1>8
<1>10. Node(ix, 0)' = N(ix, 0)
  BY <1>6, <1>9
<1>11. ASSUME NEW l \in 0 .. 4 PROVE l = 0 \/ l = 1 \/ l = 2 \/ l = 3 \/ l = 4
  OBVIOUS
<1>12. QED
  <2> HIDE DEF N
  <2> QED BY <1>1, <1>7, <1>8, <1>9, <1>10, <1>11

-----------------------------------------------------------------------------
(* The invariant holds at the start, and every step of a call keeps it. *)

LEMMA IndexesType == \A page \in Nat : Indexes(page) \in Paths
<1>1. ASSUME NEW p \in Nat PROVE p \div K \in Nat /\ p % K \in Index
  BY PagingAssumption DEF Index
<1>2. QED
  BY <1>1 DEF Indexes, Paths, Level

(* What nothing reaches and nothing writes stays as it is. *)
LEMMA SameNodes ==
  ASSUME mem' = mem
  PROVE  \A ix, l : Node(ix, l)' = Node(ix, l)
BY DEF Node, Translate, TablesOf, Below

LEMMA EmptyNodes ==
  ASSUME Init, NEW ix \in Paths
  PROVE  \A l \in 0 .. 3 : Node(ix, l) = Unmapped
<1>1. Root \in Physical /\ ix[4] \in Index
  BY ConstantTypes DEF Paths, Level
<1>2. Node(ix, 3) = Unmapped
  <2>1. mem[Root] = EmptyTable
    BY <1>1 DEF Init, NothingMapped
  <2>2. Below(Root, ix[4]) = Unmapped
    BY <1>1, <2>1 DEF Below, EmptyTable
  <2>3. QED
    BY <2>2, NodeTop, NodeStep
<1>3. Node(ix, 2) = Unmapped
  BY <1>2, NodeStep DEF Below
<1>4. Node(ix, 1) = Unmapped
  BY <1>3, NodeStep DEF Below
<1>5. Node(ix, 0) = Unmapped
  BY <1>4, NodeStep DEF Below
<1>6. QED
  BY <1>2, <1>3, <1>4, <1>5

LEMMA InvInit == Init => Inv
<1> SUFFICES ASSUME Init PROVE Inv
  OBVIOUS
<1>1. Shape
  <2>1. mem \in [Physical -> [Index -> Entry]]
    BY ConstantTypes, PagingAssumption DEF Init, NothingMapped
  <2>2. indexes \in Paths /\ paddr \in Nat /\ level \in 0 .. 4
    BY IndexesType DEF Init, NothingMapped
  <2>3. QED
    BY <2>1, <2>2, ConstantTypes DEF Init, NothingMapped, Shape
<1>2. ASSUME NEW ix \in Paths, NEW l \in Level
      PROVE  Node(ix, l) = IF l = 4 THEN Root ELSE Unmapped
  BY NodeTop, EmptyNodes DEF Level
<1>3. Known
  BY <1>2 DEF Known, Init, NothingMapped
<1>4. Tree
  <2> SUFFICES ASSUME NEW ix \in Paths, NEW iy \in Paths, NEW l \in Level, NEW m \in Level,
                      Node(ix, l) # Unmapped, Node(ix, l) = Node(iy, m)
               PROVE  l = m /\ Agree(ix, iy, l)
    BY DEF Tree
  <2>1. l = 4 /\ m = 4
    BY <1>2
  <2>2. QED
    BY <2>1 DEF Agree
<1>5. QED
  BY <1>1, <1>3, <1>4 DEF Inv, AtNode, Init, NothingMapped

LEMMA InvMap ==
  ASSUME Inv, NEW vpage \in Nat, NEW ppage \in Nat, MapVaddrToPaddr(vpage, ppage)
  PROVE  Inv'
<1> USE DEF MapVaddrToPaddr
<1>1. Shape'
  BY IndexesType, ConstantTypes DEF Inv, Shape
<1>2. Known' /\ Tree'
  BY SameNodes DEF Inv, Known, Tree
<1>3. AtNode'
  BY NextNodeTop DEF AtNode
<1>4. QED
  BY <1>1, <1>2, <1>3 DEF Inv

LEMMA InvEnterTable == ASSUME Inv, EnterTable PROVE Inv'
<1>1. level # 0 /\ level > 1 /\ entry.present /\ mem' = mem
  BY DEF EnterTable
<1>2. level - 1 \in Level /\ level - 1 # 0 /\ Node(indexes, level-1) = entry.frame
  BY <1>1, EntryOfCall DEF Level
<1>3. entry.frame # Unmapped
  <2>1. table \in Physical /\ indexes[level] \in Index
    BY <1>1, EntryOfCall DEF Inv, Shape, Paths
  <2>2. entry \in Entry
    BY <2>1 DEF entry, Inv, Shape
  <2>3. QED
    BY <2>2 DEF Entry, Unmapped
<1>4. entry.frame \in Physical /\ indexes \in Paths
  BY <1>2, <1>3, NodeIsTable DEF Inv, Shape
<1>5. table' = Node(indexes, level-1) /\ table' \in Physical
  BY <1>2, <1>4, ConstantTypes DEF EnterTable
<1>6. Shape'
  BY <1>2, <1>5 DEF EnterTable, Inv, Shape, Level
<1>7. Known' /\ Tree'
  BY <1>1, SameNodes DEF EnterTable, Inv, Known, Tree
<1>8. AtNode'
  BY <1>1, <1>2, <1>5, SameNodes DEF EnterTable, AtNode
<1>9. QED
  BY <1>6, <1>7, <1>8 DEF Inv

(* With EnoughFrames the frame of a new table is a free one. *)
LEMMA NewTable ==
  ASSUME Inv, EnoughFrames, CreateTable
  PROVE  \E new \in free :
           /\ new \in Physical \ tables
           /\ mem' = Linked(new) /\ free' = free \ {new}
           /\ tables' = tables \cup {new} /\ table' = new
<1>1. free # {} /\ free \cap tables = {} /\ free \subseteq Physical
  BY ConstantTypes DEF EnoughFrames, CreateTable, Inv, Shape
<1>2. Requested \subseteq free
  BY <1>1 DEF Requested
<1>3. QED
  BY <1>1, <1>2 DEF CreateTable, FreeWithout

LEMMA CreateTableNodes ==
  ASSUME Inv, EnoughFrames, CreateTable
  PROVE  \A ix \in Paths, l \in 0 .. 4 :
           Node(ix, l)' = IF l = level - 1 /\ Agree(ix, indexes, l) THEN table' ELSE Node(ix, l)
<1>1. PICK new \in free : /\ new \in Physical \ tables
                          /\ mem' = Linked(new) /\ table' = new
  BY NewTable
<1>2. level # 0 /\ level > 1 /\ ~ entry.present
  BY DEF CreateTable
<1>3. new \in Nat /\ Stored(new) = new
  BY <1>1, ConstantTypes
<1>4. QED
  BY <1>1, <1>2, <1>3, WriteEntry

LEMMA InvCreateTable == ASSUME Inv, EnoughFrames, CreateTable PROVE Inv'
<1>1. PICK new \in free : /\ new \in Physical \ tables
                          /\ mem' = Linked(new) /\ free' = free \ {new}
                          /\ tables' = tables \cup {new} /\ table' = new
  BY NewTable
<1>2. /\ level > 1 /\ level' = level - 1 /\ level - 1 \in Level /\ level - 1 \in 0 .. 4
      /\ level \in Level
      /\ UNCHANGED <<indexes, paddr>>
  BY EntryOfCall DEF CreateTable, Level
<1>3. \A ix \in Paths, l \in Level :
        Node(ix, l)' = IF l = level - 1 /\ Agree(ix, indexes, l) THEN new ELSE Node(ix, l)
  <2>1. \A l \in Level : l \in 0 .. 4
    BY DEF Level
  <2>2. QED
    BY <1>1, <2>1, CreateTableNodes
<1>4. new # Unmapped /\ Reference(new) \in Entry
  BY <1>1, ConstantTypes
<1>5. Shape'
  <2>1. Linked(new) \in [Physical -> [Index -> Entry]]
    BY <1>4, ConstantTypes DEF Inv, Shape, Linked
  <2>2. QED
    BY <1>1, <1>2, <2>1 DEF Inv, Shape
<1>6. Known'
  BY <1>1, <1>3 DEF Known, Inv
<1>7. Tree'
  <2> SUFFICES ASSUME NEW ix \in Paths, NEW iy \in Paths, NEW l \in Level, NEW m \in Level,
                      Node(ix, l)' # Unmapped, Node(ix, l)' = Node(iy, m)'
               PROVE  l = m /\ Agree(ix, iy, l)
    BY DEF Tree, Agree
  <2> DEFINE newX == l = level - 1 /\ Agree(ix, indexes, l)
             newY == m = level - 1 /\ Agree(iy, indexes, m)
  <2>1. Node(ix, l) \in tables \cup {Unmapped} /\ Node(iy, m) \in tables \cup {Unmapped}
    BY DEF Inv, Known
  <2>2. CASE newX /\ newY
    BY <2>2 DEF Agree
  <2>3. CASE newX /\ ~ newY
    BY <1>1, <1>3, <1>4, <2>1, <2>3
  <2>4. CASE ~ newX /\ newY
    BY <1>1, <1>3, <1>4, <2>1, <2>4
  <2>5. CASE ~ newX /\ ~ newY
    <3>1. Node(ix, l) # Unmapped /\ Node(ix, l) = Node(iy, m)
      BY <1>3, <2>5
    <3>2. QED
      BY <3>1 DEF Inv, Tree
  <2>6. QED
    BY <2>2, <2>3, <2>4, <2>5
<1>8. AtNode'
  <2>1. indexes \in Paths /\ Agree(indexes, indexes, level - 1)
    BY DEF Inv, Shape, Agree
  <2>2. \A ix \in Paths, l \in Level : ix = indexes /\ l = level - 1 => Node(ix, l)' = new
    BY <1>3, <2>1
  <2>3. QED
    BY <1>1, <1>2, <2>1, <2>2 DEF AtNode
<1>9. QED
  BY <1>5, <1>6, <1>7, <1>8 DEF Inv

LEMMA SetPageNodes ==
  ASSUME Inv, SetPage, Stored(paddr) = paddr
  PROVE  \A ix \in Paths, l \in 0 .. 4 :
           Node(ix, l)' = IF l = 0 /\ ix = indexes THEN paddr ELSE Node(ix, l)
<1>1. level # 0 /\ level = 1 /\ paddr \in Nat /\ level - 1 = 0 /\ indexes \in Paths
  BY DEF SetPage, Inv, Shape
<1>2. mem' = [mem EXCEPT ![table][indexes[level]] = Reference(paddr)]
  BY <1>1 DEF SetPage
<1>3. \A ix \in Paths : Agree(ix, indexes, 0) <=> ix = indexes
  BY <1>1 DEF Agree, Paths, Level
<1>4. QED
  BY <1>1, <1>2, <1>3, WriteEntry

LEMMA InvSetPage == ASSUME Inv, SetPage, Stored(paddr) = paddr PROVE Inv'
<1>1. \A ix \in Paths, l \in Level : Node(ix, l)' = Node(ix, l)
  BY SetPageNodes DEF Level
<1>2. Shape'
  <2>1. Reference(paddr) \in Entry
    BY ConstantTypes DEF Inv, Shape
  <2>2. mem' \in [Physical -> [Index -> Entry]]
    BY <2>1 DEF SetPage, Inv, Shape
  <2>3. QED
    BY <2>2 DEF SetPage, Inv, Shape
<1>3. Known'
  BY <1>1 DEF SetPage, Known, Inv
<1>4. Tree'
  BY <1>1 DEF Tree, Inv, Agree
<1>5. AtNode'
  BY DEF SetPage, AtNode
<1>6. QED
  BY <1>2, <1>3, <1>4, <1>5 DEF Inv

-----------------------------------------------------------------------------
(* What the invariant says of the properties of PageTables. *)

LEMMA InvType == Inv => TypeOK
BY DEF Inv, Shape, TypeOK

LEMMA InvDistinct == Inv => TablesDistinct
<1> SUFFICES ASSUME Inv PROVE TablesDistinct
  OBVIOUS
<1>1. \A ix \in Paths, l \in Level : TablesOf(ix)[l] = Node(ix, l)
  BY DEF Node, Level
<1>2. ASSUME NEW x \in LinkedTables
      PROVE  \E ix \in Paths, l \in Level :
               x = <<l, [k \in l+1 .. 4 |-> ix[k]], Node(ix, l)>> /\ Node(ix, l) # Unmapped
  BY <1>1 DEF LinkedTables
<1>3. ASSUME NEW x \in LinkedTables, NEW y \in LinkedTables, x[3] = y[3]
      PROVE  x = y
  <2>1. PICK ix \in Paths, l \in Level :
          x = <<l, [k \in l+1 .. 4 |-> ix[k]], Node(ix, l)>> /\ Node(ix, l) # Unmapped
    BY <1>2
  <2>2. PICK iy \in Paths, m \in Level :
          y = <<m, [k \in m+1 .. 4 |-> iy[k]], Node(iy, m)>> /\ Node(iy, m) # Unmapped
    BY <1>2
  <2>3. l = m /\ Agree(ix, iy, l)
    BY <1>3, <2>1, <2>2 DEF Inv, Tree
  <2>4. [k \in l+1 .. 4 |-> ix[k]] = [k \in m+1 .. 4 |-> iy[k]]
    BY <2>3 DEF Agree
  <2>5. QED
    BY <1>3, <2>1, <2>2, <2>3, <2>4
<1>4. ASSUME NEW x \in LinkedTables
      PROVE  x[3] \in tables /\ x[3] \notin free
  <2>1. PICK ix \in Paths, l \in Level :
          x = <<l, [k \in l+1 .. 4 |-> ix[k]], Node(ix, l)>> /\ Node(ix, l) # Unmapped
    BY <1>2
  <2>2. Node(ix, l) \in tables
    BY <2>1, NodeIsTable DEF Inv
  <2>3. QED
    BY <2>1, <2>2 DEF Inv, Shape
<1>5. QED
  BY <1>3, <1>4 DEF TablesDistinct

LEMMA InvPresent == Inv => PresentAgrees
<1> SUFFICES ASSUME Inv, NEW ix \in Paths
             PROVE  IsPagePresent(ix) <=> Translate(ix) # Unmapped
  BY DEF PresentAgrees
<1>1. ASSUME NEW l \in 1 .. 3
      PROVE  SoftBelow(Node(ix, l+1), ix[l+1]) = Node(ix, l)
  <2>1. l \in Level /\ Node(ix, l) = Below(Node(ix, l+1), ix[l+1])
    BY NodeStep DEF Level
  <2>2. Node(ix, l) # Unmapped => Pointer(Node(ix, l)) = Node(ix, l)
    BY <2>1, NodeIsTable, ConstantTypes DEF Inv
  <2>3. Node(ix, l+1) # Unmapped /\ mem[Node(ix, l+1)][ix[l+1]].present
          => mem[Node(ix, l+1)][ix[l+1]].frame # Unmapped
    <3>1. l+1 \in Level /\ ix[l+1] \in Index
      BY DEF Level, Paths
    <3>2. Node(ix, l+1) # Unmapped => Node(ix, l+1) \in Physical
      BY <3>1, NodeIsTable DEF Inv
    <3>3. QED
      BY <3>1, <3>2 DEF Inv, Shape, Entry, Unmapped
  <2>4. QED
    BY <2>1, <2>2, <2>3 DEF Below, SoftBelow
<1>2. IsPagePresent(ix) <=> SoftBelow(Node(ix, 1), ix[1]) # Unmapped
  BY <1>1, NodeTop DEF IsPagePresent
<1>3. Translate(ix) = Below(Node(ix, 1), ix[1])
  BY NodeStep DEF Node
<1>4. Node(ix, 1) # Unmapped =>
        mem[Node(ix, 1)][ix[1]].frame # Unmapped /\ Pointer(mem[Node(ix, 1)][ix[1]].frame) # Unmapped
  <2>1. 1 \in Level /\ ix[1] \in Index
    BY DEF Level, Paths
  <2>2. Node(ix, 1) # Unmapped => mem[Node(ix, 1)][ix[1]].frame \in Nat
    BY <2>1, NodeIsTable DEF Inv, Shape, Entry
  <2>3. QED
    BY <2>2, PagingAssumption DEF Pointer, Unmapped
<1>5. QED
  BY <1>2, <1>3, <1>4 DEF Below, SoftBelow

-----------------------------------------------------------------------------
(* Of the places where the pages of S need a table, those that have one. *)
Filled(S) ==
  {x \in TablePlaces(S) :
     \E p \in S, l \in 1 .. 3 : x = Place(Indexes(p), l) /\ Node(Indexes(p), l) # Unmapped}

(* Every frame taken since is the table of a place. *)
FramesCounted(S) == Cardinality(Managed \ free) <= MaxInUse + Cardinality(Filled(S))

CallIn(S) == level # 0 => \E p \in S : indexes = Indexes(p)

LEMMA ManagedFinite ==
  /\ IsFiniteSet(Managed) /\ Cardinality(Managed) \in Nat
  /\ \A U : IsFiniteSet(Managed \ U) /\ Cardinality(Managed \ U) \in Nat
<1>1. IsFiniteSet(Physical)
  BY PagingAssumption, FS_Interval DEF Physical
<1>2. IsFiniteSet(Managed)
  BY <1>1, ConstantTypes, FS_Subset
<1>3. ASSUME NEW U PROVE IsFiniteSet(Managed \ U)
  BY <1>2, FS_Subset
<1>4. QED
  BY <1>2, <1>3, FS_CardinalityType

LEMMA FilledFinite ==
  ASSUME NEW S, IsFiniteSet(TablePlaces(S))
  PROVE  /\ Filled(S) \subseteq TablePlaces(S) /\ IsFiniteSet(Filled(S))
         /\ Cardinality(Filled(S)) \in Nat /\ Cardinality(TablePlaces(S)) \in Nat
<1>1. Filled(S) \subseteq TablePlaces(S)
  BY DEF Filled
<1>2. QED
  BY <1>1, FS_Subset, FS_CardinalityType

(* Equal places are reached by the same walk. *)
LEMMA SamePlace ==
  ASSUME NEW ix \in Paths, NEW iy \in Paths, NEW l \in 1 .. 3, NEW m \in 1 .. 3,
         Place(ix, l) = Place(iy, m)
  PROVE  l = m /\ Node(ix, l) = Node(iy, l)
<1>1. l = m /\ [k \in l+1 .. 4 |-> ix[k]] = [k \in m+1 .. 4 |-> iy[k]]
  BY DEF Place
<1>2. ASSUME NEW k \in l+1 .. 4 PROVE ix[k] = iy[k]
  <2>1. [j \in l+1 .. 4 |-> ix[j]][k] = [j \in l+1 .. 4 |-> iy[j]][k]
    BY <1>1
  <2>2. QED
    BY <2>1
<1>3. Agree(ix, iy, l)
  BY <1>2 DEF Agree
<1>4. QED
  BY <1>1, <1>3, SameAbove

(* The table that a call misses has a place, which is not filled. *)
LEMMA PlaceMissing ==
  ASSUME NEW S \in SUBSET Nat, Inv, CallIn(S), level > 1, ~ entry.present
  PROVE  /\ level - 1 \in 1 .. 3
         /\ Place(indexes, level-1) \in TablePlaces(S)
         /\ Place(indexes, level-1) \notin Filled(S)
<1>1. level - 1 \in 1 .. 3 /\ indexes \in Paths
  BY DEF Inv, Shape
<1>2. PICK q \in S : indexes = Indexes(q)
  BY DEF CallIn
<1>3. Node(indexes, level-1) = Unmapped
  BY EntryOfCall
<1>4. Place(indexes, level-1) \in TablePlaces(S)
  BY <1>1, <1>2 DEF TablePlaces
<1>5. ASSUME NEW p \in S, NEW l \in 1 .. 3, Place(indexes, level-1) = Place(Indexes(p), l)
      PROVE  Node(Indexes(p), l) = Unmapped
  <2>1. Indexes(p) \in Paths
    BY IndexesType
  <2>2. QED
    BY <1>1, <1>3, <1>5, <2>1, SamePlace
<1>6. QED
  BY <1>1, <1>4, <1>5 DEF Filled

LEMMA RoomLeft ==
  ASSUME NEW S \in SUBSET Nat, RoomFor(S), Inv, CallIn(S), FramesCounted(S)
  PROVE  EnoughFrames
<1> SUFFICES ASSUME level > 1, ~ entry.present, free = {} PROVE FALSE
  BY DEF EnoughFrames
<1> DEFINE place == Place(indexes, level-1)
<1>1. place \in TablePlaces(S) /\ place \notin Filled(S)
  BY PlaceMissing
<1> HIDE DEF place
<1>2. /\ Filled(S) \subseteq TablePlaces(S) /\ IsFiniteSet(TablePlaces(S))
      /\ Cardinality(Filled(S)) \in Nat /\ Cardinality(TablePlaces(S)) \in Nat
  BY FilledFinite DEF RoomFor
<1>3. Cardinality(Filled(S)) < Cardinality(TablePlaces(S))
  <2>1. /\ Cardinality(Filled(S)) <= Cardinality(TablePlaces(S))
        /\ Cardinality(TablePlaces(S)) = Cardinality(Filled(S)) => TablePlaces(S) = Filled(S)
    BY <1>2, FS_Subset
  <2>2. TablePlaces(S) # Filled(S)
    BY <1>1
  <2>3. QED
    BY <1>2, <2>1, <2>2
<1>4. Managed \ free = Managed
  OBVIOUS
<1>5. QED
  BY <1>2, <1>3, <1>4, ManagedFinite, PagingAssumption DEF RoomFor, FramesCounted

LEMMA CountInit ==
  ASSUME NEW S \in SUBSET Nat, RoomFor(S), Init
  PROVE  FramesCounted(S)
<1>1. Cardinality(Filled(S)) \in Nat
  BY FilledFinite DEF RoomFor
<1>2. Cardinality(Managed \ free) \in Nat /\ Cardinality(Managed \ free) <= MaxInUse
  BY ManagedFinite DEF Init, NothingMapped
<1>3. QED
  BY <1>1, <1>2, PagingAssumption DEF FramesCounted

(* A step that takes no frame and removes no table. *)
LEMMA CountKept ==
  ASSUME NEW S \in SUBSET Nat, RoomFor(S), FramesCounted(S), free' = free,
         \A p \in S, l \in 1 .. 3 :
           Node(Indexes(p), l) # Unmapped => Node(Indexes(p), l)' # Unmapped
  PROVE  FramesCounted(S)'
<1>1. Filled(S) \subseteq Filled(S)'
  BY DEF Filled
<1>2. IsFiniteSet(Filled(S)')
  <2>1. Filled(S)' \subseteq TablePlaces(S)
    BY DEF Filled
  <2>2. QED
    BY <2>1, FS_Subset DEF RoomFor
<1>3. Cardinality(Filled(S)) <= Cardinality(Filled(S)')
  BY <1>1, <1>2, FS_Subset
<1>4. Cardinality(Filled(S)) \in Nat /\ Cardinality(Filled(S)') \in Nat
  BY <1>2, FilledFinite, FS_CardinalityType DEF RoomFor
<1>5. Cardinality(Managed \ free) \in Nat /\ Managed' = Managed
  BY ManagedFinite DEF Managed
<1>6. Cardinality(Managed \ free') <= MaxInUse + Cardinality(Filled(S)')
  BY <1>3, <1>4, <1>5, PagingAssumption DEF FramesCounted
<1>7. QED
  BY <1>5, <1>6 DEF FramesCounted

(* A table that is created takes a frame, and fills a place. *)
LEMMA CountCreateTable ==
  ASSUME NEW S \in SUBSET Nat, RoomFor(S), Inv, CallIn(S), FramesCounted(S), EnoughFrames,
         CreateTable
  PROVE  FramesCounted(S)'
<1> DEFINE place == Place(indexes, level-1)
<1>1. /\ level > 1 /\ ~ entry.present /\ level - 1 \in 1 .. 3
      /\ place \in TablePlaces(S) /\ place \notin Filled(S)
  BY PlaceMissing DEF CreateTable
<1>2. PICK new \in free : new \in Physical /\ free' = free \ {new} /\ table' = new
  BY NewTable
<1>3. \A ix \in Paths, l \in 1 .. 3 :
        Node(ix, l)' = IF l = level - 1 /\ Agree(ix, indexes, l) THEN new ELSE Node(ix, l)
  <2>1. \A l \in 1 .. 3 : l \in 0 .. 4
    OBVIOUS
  <2>2. QED
    BY <1>2, <2>1, CreateTableNodes
<1>4. new # Unmapped
  BY <1>2, ConstantTypes
<1>5. place \in Filled(S)'
  <2>1. PICK q \in S : indexes = Indexes(q)
    BY <1>1 DEF CallIn
  <2>2. PICK l \in 1 .. 3 : l = level - 1
    BY <1>1
  <2>3. Indexes(q) \in Paths /\ Agree(Indexes(q), indexes, l)
    BY <2>1, IndexesType DEF Agree
  <2>4. Node(Indexes(q), l)' = new
    BY <1>3, <2>2, <2>3
  <2>5. place = Place(Indexes(q), l)
    BY <2>1, <2>2
  <2> HIDE DEF place
  <2>6. place \in TablePlaces(S)
    BY <1>1
  <2>7. \E p \in S, k \in 1 .. 3 : place = Place(Indexes(p), k) /\ Node(Indexes(p), k)' # Unmapped
    BY <1>4, <2>4, <2>5
  <2>8. Filled(S)' = {x \in TablePlaces(S) :
           \E p \in S, k \in 1 .. 3 : x = Place(Indexes(p), k) /\ Node(Indexes(p), k)' # Unmapped}
    BY DEF Filled
  <2>9. QED
    BY <2>6, <2>7, <2>8
<1>6. Filled(S) \cup {place} \subseteq Filled(S)'
  <2>1. Filled(S) \subseteq Filled(S)'
    <3>1. \A p \in S : Indexes(p) \in Paths
      BY IndexesType
    <3>2. \A p \in S, l \in 1 .. 3 :
            Node(Indexes(p), l) # Unmapped => Node(Indexes(p), l)' # Unmapped
      BY <1>3, <1>4, <3>1
    <3>3. QED
      BY <3>2 DEF Filled
  <2>2. QED
    BY <1>5, <2>1
<1> HIDE DEF place
<1>7. IsFiniteSet(Filled(S)) /\ IsFiniteSet(Filled(S)')
  <2>1. Filled(S)' \subseteq TablePlaces(S)
    BY DEF Filled
  <2>2. QED
    BY <2>1, FilledFinite, FS_Subset DEF RoomFor
<1>8. /\ Cardinality(Filled(S)) \in Nat /\ Cardinality(Filled(S)') \in Nat
      /\ Cardinality(Filled(S)) + 1 <= Cardinality(Filled(S)')
  <2>1. Cardinality(Filled(S) \cup {place}) = Cardinality(Filled(S)) + 1
    BY <1>1, <1>7, FS_AddElement
  <2>2. Cardinality(Filled(S) \cup {place}) <= Cardinality(Filled(S)')
    BY <1>6, <1>7, FS_Subset
  <2>3. QED
    BY <1>7, <2>1, <2>2, FS_CardinalityType
<1>9. Cardinality(Managed \ free') <= Cardinality(Managed \ free) + 1
  <2>1. new \in Managed /\ Managed \ free' = (Managed \ free) \cup {new}
    BY <1>2 DEF Inv, Shape
  <2>2. new \notin Managed \ free
    OBVIOUS
  <2>3. IsFiniteSet(Managed \ free) /\ Cardinality(Managed \ free) \in Nat
    BY ManagedFinite
  <2>4. Cardinality((Managed \ free) \cup {new}) = Cardinality(Managed \ free) + 1
    BY <2>2, <2>3, FS_AddElement
  <2>5. QED
    BY <2>1, <2>3, <2>4
<1>10. Cardinality(Managed \ free) \in Nat /\ Cardinality(Managed \ free') \in Nat
  BY ManagedFinite
<1>11. Cardinality(Managed \ free') <= MaxInUse + Cardinality(Filled(S)')
  BY <1>8, <1>9, <1>10, PagingAssumption DEF FramesCounted
<1>12. Managed' = Managed
  BY DEF Managed
<1>13. QED
  BY <1>11, <1>12 DEF FramesCounted
=============================================================================
