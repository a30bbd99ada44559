---------------------------- MODULE PagingProofs ----------------------------
(***************************************************************************)
(* Theorems about init_paging, for every machine that Paging's assumptions *)
(* allow.  First it is supposed that a frame is free whenever a table is   *)
(* missing (EnoughFrames), and that the byte the test of the new tables    *)
(* writes to frame 0 hits no table, or an entry that is not present        *)
(* (TestHarmless); then both follow from the number of frames (RoomFor),   *)
(* from the place of frame 0 (FrameZeroFirst), and from there being no     *)
(* device where that entry would lead (TestEntryUnused).                   *)
(***************************************************************************)
EXTENDS Paging, PageTablesProofs, SequenceTheorems

(* Facts about division. *)

LEMMA Quotient ==
  ASSUME NEW a \in Nat, NEW k \in Nat, k # 0
  PROVE  a \div k \in Nat
OBVIOUS

LEMMA QuotientBound ==
  ASSUME NEW a \in Nat, NEW k \in Nat, NEW b \in Nat, k # 0, a < k * b
  PROVE  a \div k < b
OBVIOUS

LEMMA QuotientAndRest ==
  ASSUME NEW a \in Nat, NEW b \in Nat, NEW k \in Nat, k # 0,
         a % k = b % k, a \div k = b \div k
  PROVE  a = b
OBVIOUS

(* A number less than k is its own remainder. *)
LEMMA OwnRest ==
  ASSUME NEW a \in Nat, NEW k \in Nat, a < k
  PROVE  a % k = a
OBVIOUS

(* Two pages below the limit of four indexes that have the same indexes. *)
LEMMA IndexesInjective ==
  ASSUME NEW p \in Nat, NEW q \in Nat, p < K * (K * (K * K)), q < K * (K * (K * K)),
         Indexes(p) = Indexes(q)
  PROVE  p = q
<1> DEFINE s(a) == a \div K
<1>1. K \in Nat /\ K # 0 /\ K * K \in Nat /\ K * (K * K) \in Nat
  BY PagingAssumption
<1>2. ASSUME NEW a \in Nat, a < K * (K * (K * K))
      PROVE  /\ s(a) \in Nat /\ s(s(a)) \in Nat /\ s(s(s(a))) \in Nat
             /\ s(s(s(a))) < K
  <2>1. s(a) \in Nat /\ s(a) < K * (K * K)
    BY <1>1, <1>2, QuotientBound, Quotient
  <2>2. s(s(a)) \in Nat /\ s(s(a)) < K * K
    <3> HIDE DEF s
    <3>1. ASSUME NEW b \in Nat, b < K * (K * K) PROVE s(b) \in Nat /\ s(b) < K * K
      BY <1>1, <3>1, QuotientBound, Quotient DEF s
    <3>2. QED
      BY <2>1, <3>1
  <2>3. s(s(s(a))) \in Nat /\ s(s(s(a))) < K
    <3> HIDE DEF s
    <3>1. ASSUME NEW b \in Nat, b < K * K PROVE s(b) \in Nat /\ s(b) < K
      BY <1>1, <3>1, QuotientBound, Quotient DEF s
    <3>2. QED
      BY <2>2, <3>1
  <2>4. QED
    BY <2>1, <2>2, <2>3
<1>3. /\ p % K = q % K /\ s(p) % K = s(q) % K /\ s(s(p)) % K = s(s(q)) % K
      /\ s(s(s(p))) % K = s(s(s(q))) % K
  BY DEF Indexes
<1>4. ASSUME NEW a \in Nat, NEW b \in Nat, a % K = b % K, s(a) = s(b)
      PROVE  a = b
  BY <1>1, <1>4, QuotientAndRest
<1>5. ASSUME NEW a \in Nat, a < K PROVE a % K = a
  BY <1>1, <1>5, OwnRest
<1>6. QED
  <2> HIDE DEF s
  <2>1. s(s(s(p))) = s(s(s(q)))
    BY <1>2, <1>3, <1>5
  <2>2. s(s(p)) = s(s(q))
    BY <1>2, <1>3, <1>4, <2>1
  <2>3. s(p) = s(q)
    BY <1>2, <1>3, <1>4, <2>2
  <2>4. QED
    BY <1>2, <1>3, <1>4, <2>3

-----------------------------------------------------------------------------
(* The pages to be mapped. *)

Jobs == DOMAIN IdentityPagingMemory
Page(k) == IdentityPagingMemory[k]

LEMMA DeviceSeq ==
  ASSUME NEW a \in Nat, NEW n \in Nat
  PROVE  /\ IdentityPaging(a, n) \in Seq(Nat)
         /\ Len(IdentityPaging(a, n)) = n \div (PAGE_SZ + 1) + 1
         /\ \A k \in 1 .. n \div (PAGE_SZ + 1) + 1 : IdentityPaging(a, n)[k] = a + k - 1
<1> DEFINE len == n \div (PAGE_SZ + 1) + 1
<1>1. len \in Nat
  <2>1. PAGE_SZ + 1 \in Nat /\ PAGE_SZ + 1 # 0
    BY DevicesAssumption
  <2>2. QED
    BY <2>1, Quotient
<1>2. IdentityPaging(a, n) = [k \in 1 .. len |-> a + k - 1]
  BY DEF IdentityPaging
<1> HIDE DEF len
<1>3. \A k \in 1 .. len : a + k - 1 \in Nat
  BY <1>1
<1>4. IdentityPaging(a, n) \in Seq(Nat) /\ Len(IdentityPaging(a, n)) = len
  BY <1>1, <1>2, <1>3
<1>5. QED
  BY <1>2, <1>4 DEF len

(* All pages of memory and of the devices are among them. *)
LEMMA JobTypes ==
  /\ IdentityPagingMemory \in Seq(Nat)
  /\ Jobs = 1 .. Len(IdentityPagingMemory)
  /\ \A f \in Managed : \E k \in Jobs : Page(k) = f
  /\ \A k \in 1 .. FramebufferSz \div (PAGE_SZ + 1) + 1 :
       \E j \in Jobs : Page(j) = FramebufferBase + k - 1
  /\ \A k \in 1 .. PAGE_SZ \div (PAGE_SZ + 1) + 1 : \E j \in Jobs : Page(j) = ApicBase + k - 1
  /\ \A k \in 1 .. HpetSz \div (PAGE_SZ + 1) + 1 : \E j \in Jobs : Page(j) = HpetBase + k - 1
<1> DEFINE fb   == IdentityPaging(FramebufferBase, FramebufferSz)
           apic == IdentityPaging(ApicBase, PAGE_SZ)
           hpet == IdentityPaging(HpetBase, HpetSz)
<1>1. FrameArray \in Seq(Nat)
  BY PagingAssumption DEF Physical
<1>2. fb \in Seq(Nat) /\ apic \in Seq(Nat) /\ hpet \in Seq(Nat)
  BY DeviceSeq, DevicesAssumption
<1>3. IdentityPagingMemory = ((FrameArray \o fb) \o apic) \o hpet
  BY DEF IdentityPagingMemory
<1> HIDE DEF fb, apic, hpet
<1>4. ASSUME NEW s \in Seq(Nat), NEW r \in Seq(Nat)
      PROVE  /\ s \o r \in Seq(Nat)
             /\ \A k \in DOMAIN s : \E j \in DOMAIN (s \o r) : (s \o r)[j] = s[k]
             /\ \A k \in DOMAIN r : \E j \in DOMAIN (s \o r) : (s \o r)[j] = r[k]
  <2>1. /\ s \o r \in Seq(Nat) /\ Len(s \o r) = Len(s) + Len(r)
        /\ Len(s) \in Nat /\ Len(r) \in Nat
        /\ DOMAIN s = 1 .. Len(s) /\ DOMAIN r = 1 .. Len(r)
        /\ DOMAIN (s \o r) = 1 .. Len(s) + Len(r)
    OBVIOUS
  <2>2. ASSUME NEW k \in DOMAIN s PROVE k \in DOMAIN (s \o r) /\ (s \o r)[k] = s[k]
    BY <2>1, <2>2
  <2>3. ASSUME NEW k \in DOMAIN r
        PROVE  Len(s) + k \in DOMAIN (s \o r) /\ (s \o r)[Len(s) + k] = r[k]
    BY <2>1, <2>3
  <2>4. QED
    BY <2>1, <2>2, <2>3
<1>5. /\ IdentityPagingMemory \in Seq(Nat)
      /\ \A k \in DOMAIN FrameArray : \E j \in Jobs : Page(j) = FrameArray[k]
      /\ \A k \in DOMAIN fb : \E j \in Jobs : Page(j) = fb[k]
      /\ \A k \in DOMAIN apic : \E j \in Jobs : Page(j) = apic[k]
      /\ \A k \in DOMAIN hpet : \E j \in Jobs : Page(j) = hpet[k]
  <2> DEFINE two == FrameArray \o fb
             three == two \o apic
  <2>1. /\ two \in Seq(Nat)
        /\ \A k \in DOMAIN FrameArray : \E j \in DOMAIN two : two[j] = FrameArray[k]
        /\ \A k \in DOMAIN fb : \E j \in DOMAIN two : two[j] = fb[k]
    BY <1>1, <1>2, <1>4
  <2> HIDE DEF two
  <2>2. /\ three \in Seq(Nat)
        /\ \A k \in DOMAIN two : \E j \in DOMAIN three : three[j] = two[k]
        /\ \A k \in DOMAIN apic : \E j \in DOMAIN three : three[j] = apic[k]
    BY <1>2, <1>4, <2>1
  <2> HIDE DEF three
  <2>3. IdentityPagingMemory = three \o hpet
    BY <1>3 DEF two, three
  <2>4. /\ IdentityPagingMemory \in Seq(Nat)
        /\ \A k \in DOMAIN three : \E j \in Jobs : Page(j) = three[k]
        /\ \A k \in DOMAIN hpet : \E j \in Jobs : Page(j) = hpet[k]
    <3>1. /\ three \o hpet \in Seq(Nat)
          /\ \A k \in DOMAIN three : \E j \in DOMAIN (three \o hpet) : (three \o hpet)[j] = three[k]
          /\ \A k \in DOMAIN hpet : \E j \in DOMAIN (three \o hpet) : (three \o hpet)[j] = hpet[k]
      BY <1>2, <1>4, <2>2
    <3>2. \A j : j \in Jobs <=> j \in DOMAIN (three \o hpet)
      BY <2>3 DEF Jobs
    <3>3. \A j : Page(j) = (three \o hpet)[j]
      BY <2>3 DEF Page
    <3>4. QED
      BY <2>3, <3>1, <3>2, <3>3
  <2>5. QED
    BY <2>1, <2>2, <2>4
<1>6. Jobs = 1 .. Len(IdentityPagingMemory)
  BY <1>5 DEF Jobs
<1>7. \A f \in Managed : \E k \in Jobs : Page(k) = f
  BY <1>5 DEF Managed
<1>8. ASSUME NEW a \in Nat, NEW n \in Nat,
             \A k \in DOMAIN IdentityPaging(a, n) : \E j \in Jobs : Page(j) = IdentityPaging(a, n)[k]
      PROVE  \A k \in 1 .. n \div (PAGE_SZ + 1) + 1 : \E j \in Jobs : Page(j) = a + k - 1
  <2>1. DOMAIN IdentityPaging(a, n) = 1 .. n \div (PAGE_SZ + 1) + 1
    BY DEF IdentityPaging
  <2>2. QED
    BY <1>8, <2>1, DeviceSeq
<1>9. QED
  <2>1. FramebufferBase \in Nat /\ FramebufferSz \in Nat /\ ApicBase \in Nat /\ PAGE_SZ \in Nat
        /\ HpetBase \in Nat /\ HpetSz \in Nat
    BY DevicesAssumption
  <2>2. QED
    BY <1>5, <1>6, <1>7, <1>8, <2>1 DEF fb, apic, hpet

(* No two jobs share an index of a table with different pages, nor with the test. *)
LEMMA JobIndexes ==
  /\ \A k \in Jobs : Page(k) \in Nat /\ Stored(Page(k)) = Page(k) /\ Indexes(Page(k)) \in Paths
  /\ \A k, j \in Jobs : Indexes(Page(k)) = Indexes(Page(j)) => Page(k) = Page(j)
  /\ \A k \in Jobs : Indexes(Page(k)) # Indexes(TestPage)
  /\ Indexes(TestPage) \in Paths /\ Stored(0) = 0
<1>1. TestPage \in Nat /\ TestPage < K * (K * (K * K)) /\ Indexes(TestPage) \in Paths
  BY DevicesAssumption, PagesAssumption, IndexesType
<1>2. ASSUME NEW k \in Jobs
      PROVE  /\ Page(k) \in Nat /\ Page(k) < K * (K * (K * K))
             /\ Page(k) < EntryFrames /\ Page(k) # TestPage
  BY JobTypes, PagesAssumption DEF Jobs, Page
<1>3. \A f \in Nat : f < EntryFrames => Stored(f) = f
  BY PagingAssumption DEF Stored
<1>4. QED
  BY <1>1, <1>2, <1>3, IndexesType, IndexesInjective, PagingAssumption

-----------------------------------------------------------------------------
(* The inductive invariant. *)

(* The pages whose mapping is complete. *)
Finished(k) == k \in Jobs /\ k < job /\ ~ (pc = "identity" /\ level # 0 /\ k = job - 1)

TestMapped == (pc = "write" /\ level = 0) \/ pc \in {"check", "done"}

(* The call in progress is that of the last page, or that of the test. *)
CallInv ==
  /\ level # 0 => pc \in {"identity", "write"}
  /\ level # 0 /\ pc = "identity" =>
       job - 1 \in Jobs /\ indexes = Indexes(Page(job - 1)) /\ paddr = Page(job - 1)
  /\ level # 0 /\ pc = "write" => indexes = Indexes(TestPage) /\ paddr = 0

ProgressInv ==
  /\ pc \in {"identity", "test", "write", "check", "done"}
  /\ job \in 1 .. Len(IdentityPagingMemory) + 1
  /\ pc # "identity" => job = Len(IdentityPagingMemory) + 1
  /\ Stored(paddr) = paddr
  /\ tables \subseteq Managed

MappedInv ==
  /\ \A k \in Jobs : Finished(k) => Translate(Indexes(Page(k))) = Page(k)
  /\ TestMapped => Translate(Indexes(TestPage)) = 0

NothingElse ==
  \A ix \in Paths : Translate(ix) # Unmapped =>
    \/ ix = Indexes(TestPage) /\ TestMapped
    \/ \E k \in Jobs : ix = Indexes(Page(k)) /\ Translate(ix) = Page(k)

PInv == Inv /\ CallInv /\ ProgressInv /\ MappedInv /\ NothingElse

LEMMA PInvInit == InitPaging => PInv
<1> SUFFICES ASSUME InitPaging PROVE PInv
  OBVIOUS
<1>1. Inv /\ Init /\ level = 0 /\ pc = "identity" /\ job = 1 /\ paddr = 0 /\ tables = {Root}
  BY InvInit DEF InitPaging, Init, NothingMapped
<1>2. Len(IdentityPagingMemory) \in Nat
  BY JobTypes
<1>3. CallInv /\ ProgressInv
  BY <1>1, <1>2, JobIndexes, PagesAssumption DEF CallInv, ProgressInv
<1>4. \A ix \in Paths : Translate(ix) = Unmapped
  BY <1>1, EmptyNodes DEF Node
<1>5. MappedInv
  BY <1>1, <1>2, JobTypes DEF MappedInv, Finished, TestMapped
<1>6. NothingElse
  BY <1>4 DEF NothingElse
<1>7. QED
  BY <1>1, <1>3, <1>5, <1>6 DEF PInv

(* What a walk reads of the entries of a table is as it was. *)
ReadsAlike(u) ==
  \A j \in Index : /\ mem'[u][j].present = mem[u][j].present
                   /\ mem[u][j].present => mem'[u][j].frame = mem[u][j].frame

(* Writing what no walk reads changes no translation. *)
LEMMA WriteUnseen ==
  ASSUME Inv, \A u \in tables : ReadsAlike(u)
  PROVE  \A ix \in Paths, l \in 0 .. 4 : Node(ix, l)' = Node(ix, l)
<1> SUFFICES ASSUME NEW ix \in Paths
             PROVE  \A l \in 0 .. 4 : Node(ix, l)' = Node(ix, l)
  OBVIOUS
<1>1. Node(ix, 4)' = Node(ix, 4)
  BY NodeTop, NextNodeTop
<1>2. ASSUME NEW l \in 0 .. 3, Node(ix, l+1)' = Node(ix, l+1)
      PROVE  Node(ix, l)' = Node(ix, l)
  <2>1. l+1 \in Level
    BY DEF Level
  <2>2. Node(ix, l+1) # Unmapped => ReadsAlike(Node(ix, l+1))
    BY <2>1, NodeIsTable DEF Inv
  <2>3. /\ Node(ix, l) = Below(Node(ix, l+1), ix[l+1])
        /\ Node(ix, l)' = Below(Node(ix, l+1), ix[l+1])'
    BY NodeStep, NextNodeStep
  <2>4. ix[l+1] \in Index
    BY <2>1 DEF Paths
  <2>5. QED
    BY <1>2, <2>2, <2>3, <2>4 DEF Below, ReadsAlike
<1>3. Node(ix, 3)' = Node(ix, 3)
  BY <1>1, <1>2
<1>4. Node(ix, 2)' = Node(ix, 2)
  BY <1>2, <1>3
<1>5. Node(ix, 1)' = Node(ix, 1)
  BY <1>2, <1>4
<1>6. Node(ix, 0)' = Node(ix, 0)
  BY <1>2, <1>5
<1>7. ASSUME NEW l \in 0 .. 4 PROVE l = 0 \/ l = 1 \/ l = 2 \/ l = 3 \/ l = 4
  OBVIOUS
<1>8. QED
  BY <1>1, <1>3, <1>4, <1>5, <1>6, <1>7

(* What a step that changes no translation has to show of the progress. *)
LEMMA KeepsTranslations ==
  ASSUME PInv, \A ix \in Paths : Translate(ix)' = Translate(ix),
         TestMapped' <=> TestMapped, \A k \in Jobs : Finished(k)' => Finished(k)
  PROVE  MappedInv' /\ NothingElse'
<1>1. \A k \in Jobs : Translate(Indexes(Page(k)))' = Translate(Indexes(Page(k)))
  BY JobIndexes
<1>2. Translate(Indexes(TestPage))' = Translate(Indexes(TestPage))
  BY JobIndexes
<1>3. MappedInv'
  BY <1>1, <1>2 DEF PInv, MappedInv
<1>4. NothingElse'
  BY DEF PInv, NothingElse
<1>5. QED
  BY <1>3, <1>4

LEMMA PInvDescend ==
  ASSUME PInv, EnoughFrames, EnterTable \/ CreateTable, UNCHANGED <<pc, job>>
  PROVE  PInv'
<1>1. Inv /\ Inv'
  BY InvEnterTable, InvCreateTable DEF PInv
<1>2. level # 0 /\ level' # 0 /\ UNCHANGED <<indexes, paddr>>
  BY <1>1 DEF EnterTable, CreateTable, Inv, Shape
<1>3. CallInv'
  BY <1>2 DEF PInv, CallInv
<1>4. tables' \subseteq Managed
  <2>1. CASE EnterTable
    BY <2>1 DEF EnterTable, PInv, ProgressInv
  <2>2. CASE CreateTable
    BY <2>2, <1>1, NewTable DEF PInv, ProgressInv, Inv, Shape
  <2>3. QED
    BY <2>1, <2>2
<1>5. ProgressInv'
  BY <1>2, <1>4 DEF PInv, ProgressInv, Stored
<1>6. \A ix \in Paths : Translate(ix)' = Translate(ix)
  <2>1. CASE EnterTable
    BY <2>1, SameNodes DEF EnterTable, Node
  <2>2. CASE CreateTable
    BY <2>2, <1>1, <1>2, CreateTableNodes DEF CreateTable, Node, Inv, Shape
  <2>3. QED
    BY <2>1, <2>2
<1>7. MappedInv' /\ NothingElse'
  <2>1. TestMapped' <=> TestMapped
    BY <1>2 DEF TestMapped
  <2>2. \A k \in Jobs : Finished(k)' => Finished(k)
    BY <1>2 DEF Finished
  <2>3. QED
    BY <1>6, <2>1, <2>2, KeepsTranslations
<1>8. QED
  BY <1>1, <1>3, <1>5, <1>7 DEF PInv

LEMMA PInvSetPage ==
  ASSUME PInv, SetPage, UNCHANGED <<pc, job>>
  PROVE  PInv'
<1>1. Stored(paddr) = paddr /\ level = 1 /\ level' = 0 /\ indexes \in Paths
      /\ UNCHANGED <<free, indexes, paddr, tables>>
  BY DEF PInv, ProgressInv, SetPage, Inv, Shape
<1>2. Inv'
  BY <1>1, InvSetPage DEF PInv
<1>3. \A ix \in Paths : Translate(ix)' = IF ix = indexes THEN paddr ELSE Translate(ix)
  BY <1>1, SetPageNodes DEF PInv, Node
<1>4. CallInv' /\ ProgressInv'
  BY <1>1 DEF PInv, CallInv, ProgressInv, Stored
<1>5. CASE pc = "identity"
  <2>1. /\ job - 1 \in Jobs /\ indexes = Indexes(Page(job - 1)) /\ paddr = Page(job - 1)
        /\ ~ TestMapped /\ ~ TestMapped'
    BY <1>1, <1>5 DEF PInv, CallInv, TestMapped
  <2>2. ASSUME NEW k \in Jobs, Finished(k)'
        PROVE  Translate(Indexes(Page(k)))' = Page(k)
    <3>1. CASE Indexes(Page(k)) = indexes
      BY <1>3, <2>1, <3>1, JobIndexes
    <3>2. CASE Indexes(Page(k)) # indexes
      <4>1. Finished(k)
        BY <2>1, <2>2, <3>2 DEF Finished
      <4>2. QED
        BY <1>3, <3>2, <4>1, JobIndexes DEF PInv, MappedInv
    <3>3. QED
      BY <3>1, <3>2
  <2>3. MappedInv'
    BY <2>1, <2>2 DEF MappedInv
  <2>4. NothingElse'
    BY <1>3, <2>1 DEF PInv, NothingElse
  <2>5. QED
    BY <1>2, <1>4, <2>3, <2>4 DEF PInv
<1>6. CASE pc = "write"
  <2>1. indexes = Indexes(TestPage) /\ paddr = 0 /\ TestMapped'
    BY <1>1, <1>6 DEF PInv, CallInv, TestMapped
  <2>2. ASSUME NEW k \in Jobs, Finished(k)'
        PROVE  Translate(Indexes(Page(k)))' = Page(k)
    <3>1. Finished(k)
      BY <1>6, <2>2 DEF Finished
    <3>2. QED
      BY <1>3, <2>1, <3>1, JobIndexes DEF PInv, MappedInv
  <2>3. MappedInv'
    BY <1>3, <2>1, <2>2, JobIndexes DEF MappedInv
  <2>4. NothingElse'
    BY <1>3, <2>1 DEF PInv, NothingElse
  <2>5. QED
    BY <1>2, <1>4, <2>3, <2>4 DEF PInv
<1>7. QED
  BY <1>1, <1>5, <1>6 DEF PInv, CallInv

LEMMA PInvIdentityMapNext == ASSUME PInv, IdentityMapNext PROVE PInv'
<1>1. /\ pc = "identity" /\ pc' = pc /\ job' = job + 1 /\ level = 0 /\ level' = 4
      /\ job \in Jobs /\ job \in Nat /\ mem' = mem /\ tables' = tables
      /\ indexes' = Indexes(Page(job)) /\ paddr' = Page(job)
  BY JobTypes DEF IdentityMapNext, MapVaddrToPaddr, PInv, ProgressInv, Page
<1>2. Inv'
  <2>1. Page(job) \in Nat /\ MapVaddrToPaddr(Page(job), Page(job))
    BY <1>1, JobIndexes DEF IdentityMapNext, Page
  <2>2. QED
    BY <2>1, InvMap DEF PInv
<1>3. CallInv'
  <2>1. job' - 1 = job
    BY <1>1
  <2>2. QED
    BY <1>1, <2>1 DEF CallInv
<1>4. ProgressInv'
  <2>1. job' \in 1 .. Len(IdentityPagingMemory) + 1
    BY <1>1, JobTypes
  <2>2. Stored(paddr') = paddr'
    BY <1>1, JobIndexes
  <2>3. QED
    BY <1>1, <2>1, <2>2 DEF PInv, ProgressInv, Stored
<1>5. \A ix \in Paths : Translate(ix)' = Translate(ix)
  BY <1>1, SameNodes DEF Node
<1>6. \A k \in Jobs : Finished(k)' => Finished(k)
  BY <1>1, JobTypes DEF Finished
<1>7. MappedInv' /\ NothingElse'
  BY <1>1, <1>5, <1>6, KeepsTranslations DEF TestMapped
<1>8. QED
  BY <1>2, <1>3, <1>4, <1>7 DEF PInv

LEMMA PInvSetCr3Register == ASSUME PInv, SetCr3Register PROVE PInv'
<1>1. /\ pc = "identity" /\ pc' = "test" /\ level = 0 /\ job' = job
      /\ job = Len(IdentityPagingMemory) + 1
      /\ UNCHANGED <<mem, free, level, table, indexes, paddr, tables>>
  BY JobTypes DEF SetCr3Register, PInv, ProgressInv, vars, call
<1>2. Inv'
  BY <1>1, SameNodes DEF PInv, Inv, Shape, Known, Tree, AtNode
<1>3. CallInv' /\ ProgressInv'
  BY <1>1 DEF PInv, CallInv, ProgressInv, Stored
<1>4. \A ix \in Paths : Translate(ix)' = Translate(ix)
  BY <1>1, SameNodes DEF Node
<1>5. MappedInv' /\ NothingElse'
  BY <1>1, <1>4, KeepsTranslations DEF TestMapped, Finished
<1>6. QED
  BY <1>2, <1>3, <1>5 DEF PInv

LEMMA PInvMapTestPage == ASSUME PInv, MapTestPage PROVE PInv'
<1>1. /\ pc = "test" /\ pc' = "write" /\ level = 0 /\ level' = 4 /\ job' = job
      /\ mem' = mem /\ tables' = tables
      /\ indexes' = Indexes(TestPage) /\ paddr' = 0
  BY DEF MapTestPage, MapVaddrToPaddr
<1>2. Inv'
  BY InvMap, DevicesAssumption DEF MapTestPage, PInv
<1>3. CallInv' /\ ProgressInv'
  BY <1>1, JobIndexes DEF PInv, CallInv, ProgressInv, Stored
<1>4. \A ix \in Paths : Translate(ix)' = Translate(ix)
  BY <1>1, SameNodes DEF Node
<1>5. MappedInv' /\ NothingElse'
  BY <1>1, <1>4, KeepsTranslations DEF TestMapped, Finished
<1>6. QED
  BY <1>2, <1>3, <1>5 DEF PInv

(* The byte of the test changes the frame number of one entry of frame 0. *)
LEMMA TestWrites ==
  ASSUME PInv, WriteTestByte
  PROVE  /\ DOMAIN mem' = Physical /\ \A f \in Physical : DOMAIN mem'[f] = Index
         /\ mem' = [f \in Physical |-> mem'[f]]
         /\ \A f \in Physical : mem'[f] = [j \in Index |-> mem'[f][j]]
         /\ \A f \in Physical, j \in Index :
              IF f = NULL /\ j = TestEntry
                THEN /\ mem'[f][j] = [mem[f][j] EXCEPT !.frame = WithTestByte(@)]
                     /\ mem'[f][j].present = mem[f][j].present
                     /\ mem'[f][j] \in Entry
                ELSE mem'[f][j] = mem[f][j]
<1>1. mem \in [Physical -> [Index -> Entry]]
  BY DEF PInv, Inv, Shape
<1>2. Translate(Indexes(TestPage)) = NULL
  BY DEF WriteTestByte, PInv, MappedInv, TestMapped, NULL
<1>3. mem' = [mem EXCEPT ![NULL][TestEntry].frame = WithTestByte(@)]
  BY <1>2 DEF WriteTestByte, TestByteWritten
<1>4. NULL \in Physical /\ TestEntry \in Index
  BY ConstantTypes, DevicesAssumption
<1>5. ASSUME NEW f \in Physical, NEW j \in Index
      PROVE  mem'[f][j] = IF f = NULL /\ j = TestEntry
                            THEN [mem[f][j] EXCEPT !.frame = WithTestByte(@)] ELSE mem[f][j]
  BY <1>1, <1>3, <1>4
<1>6. ASSUME NEW e \in Entry
      PROVE  /\ [e EXCEPT !.frame = WithTestByte(@)] \in Entry
             /\ [e EXCEPT !.frame = WithTestByte(@)].present = e.present
  <2>1. WithTestByte(e.frame) \in Nat
    BY DEF WithTestByte, Entry
  <2>2. QED
    BY <2>1 DEF Entry
<1>7. mem[NULL][TestEntry] \in Entry
  BY <1>1, <1>4
<1>8. /\ DOMAIN mem' = Physical /\ \A f \in Physical : DOMAIN mem'[f] = Index
      /\ mem' = [f \in Physical |-> mem'[f]]
      /\ \A f \in Physical : mem'[f] = [j \in Index |-> mem'[f][j]]
  BY <1>1, <1>3
<1>9. ASSUME NEW f \in Physical, NEW j \in Index, f = NULL, j = TestEntry
      PROVE  /\ mem'[f][j] = [mem[f][j] EXCEPT !.frame = WithTestByte(@)]
             /\ mem'[f][j].present = mem[f][j].present
             /\ mem'[f][j] \in Entry
  <2> DEFINE e == mem[f][j]
  <2>1. mem'[f][j] = [e EXCEPT !.frame = WithTestByte(@)] /\ e \in Entry
    BY <1>5, <1>7, <1>9
  <2> HIDE DEF e
  <2>2. mem'[f][j] \in Entry /\ mem'[f][j].present = e.present
    BY <1>6, <2>1
  <2>3. QED
    BY <2>1, <2>2 DEF e
<1>10. ASSUME NEW f \in Physical, NEW j \in Index, ~ (f = NULL /\ j = TestEntry)
       PROVE  mem'[f][j] = mem[f][j]
  BY <1>5, <1>10
<1>11. QED
  BY <1>8, <1>9, <1>10

(* If it is harmless, no walk reads what it changes. *)
LEMMA TestUnseen ==
  ASSUME PInv, TestHarmless, WriteTestByte
  PROVE  \A u \in tables : ReadsAlike(u)
<1> SUFFICES ASSUME NEW u \in tables, NEW j \in Index
             PROVE  /\ mem'[u][j].present = mem[u][j].present
                    /\ mem[u][j].present => mem'[u][j].frame = mem[u][j].frame
  BY DEF ReadsAlike
<1>1. u \in Physical
  BY DEF PInv, Inv, Shape
<1>2. CASE u = NULL /\ j = TestEntry
  BY <1>1, <1>2, TestWrites DEF TestHarmless, WriteTestByte
<1>3. CASE ~ (u = NULL /\ j = TestEntry)
  BY <1>1, <1>3, TestWrites
<1>4. QED
  BY <1>2, <1>3

LEMMA PInvWriteTestByte ==
  ASSUME PInv, TestHarmless, WriteTestByte
  PROVE  PInv'
<1>1. /\ pc = "write" /\ pc' = "check" /\ level = 0 /\ job' = job
      /\ UNCHANGED <<free, level, table, indexes, paddr, tables>>
  BY DEF WriteTestByte, call
<1>2. \A u \in tables : ReadsAlike(u)
  BY TestUnseen
<1>4. \A ix \in Paths, l \in 0 .. 4 : Node(ix, l)' = Node(ix, l)
  BY <1>2, WriteUnseen DEF PInv
<1>5. \A ix \in Paths : Translate(ix)' = Translate(ix)
  BY <1>4 DEF Node
<1>6. Inv'
  <2>1. mem' \in [Physical -> [Index -> Entry]]
    <3>1. mem \in [Physical -> [Index -> Entry]]
      BY DEF PInv, Inv, Shape
    <3>2. ASSUME NEW f \in Physical, NEW j \in Index PROVE mem'[f][j] \in Entry
      BY <3>1, TestWrites
    <3>3. \A f \in Physical : mem'[f] \in [Index -> Entry]
      <4> SUFFICES ASSUME NEW f \in Physical PROVE mem'[f] \in [Index -> Entry]
        OBVIOUS
      <4>1. \A j \in Index : mem'[f][j] \in Entry
        BY <3>2
      <4>2. mem'[f] = [j \in Index |-> mem'[f][j]]
        BY TestWrites
      <4> DEFINE row == mem'[f]
      <4> HIDE DEF row
      <4>3. [j \in Index |-> row[j]] \in [Index -> Entry]
        BY <4>1 DEF row
      <4>4. QED
        BY <4>2, <4>3 DEF row
    <3>4. QED
      BY <3>3, TestWrites
  <2>2. Shape'
    BY <1>1, <2>1 DEF PInv, Inv, Shape
  <2>3. Known' /\ Tree'
    <3>1. \A ix \in Paths, l \in Level : Node(ix, l)' = Node(ix, l)
      BY <1>4 DEF Level
    <3>2. QED
      BY <1>1, <3>1 DEF PInv, Inv, Known, Tree, Agree
  <2>4. QED
    BY <1>1, <2>2, <2>3 DEF Inv, AtNode
<1>7. CallInv' /\ ProgressInv'
  BY <1>1 DEF PInv, CallInv, ProgressInv, Stored
<1>8. MappedInv' /\ NothingElse'
  BY <1>1, <1>5, KeepsTranslations DEF TestMapped, Finished
<1>9. QED
  BY <1>6, <1>7, <1>8 DEF PInv

LEMMA PInvCheckTestByte == ASSUME PInv, CheckTestByte PROVE PInv'
<1>1. /\ pc = "check" /\ pc' = "done" /\ job' = job /\ level = 0
      /\ UNCHANGED <<mem, free, level, table, indexes, paddr, tables>>
  <2>1. pc = "check" /\ Translate(Indexes(TestPage)) = 0 /\ level = 0
    BY DEF CheckTestByte, PInv, MappedInv, TestMapped, CallInv
  <2>2. QED
    BY <2>1 DEF CheckTestByte, vars, call
<1>2. Inv'
  BY <1>1, SameNodes DEF PInv, Inv, Shape, Known, Tree, AtNode
<1>3. CallInv' /\ ProgressInv'
  BY <1>1 DEF PInv, CallInv, ProgressInv, Stored
<1>4. \A ix \in Paths : Translate(ix)' = Translate(ix)
  BY <1>1, SameNodes DEF Node
<1>5. MappedInv' /\ NothingElse'
  BY <1>1, <1>4, KeepsTranslations DEF TestMapped, Finished
<1>6. QED
  BY <1>2, <1>3, <1>5 DEF PInv

LEMMA PInvNext ==
  PInv /\ EnoughFrames /\ TestHarmless /\ [Next]_pvars => PInv'
<1> SUFFICES ASSUME PInv, EnoughFrames, TestHarmless, [Next]_pvars PROVE PInv'
  OBVIOUS
<1>1. CASE WalkTables
  <2>1. CASE EnterTable \/ CreateTable
    BY <1>1, <2>1, PInvDescend DEF WalkTables
  <2>2. CASE SetPage
    BY <1>1, <2>2, PInvSetPage DEF WalkTables
  <2>3. QED
    BY <1>1, <2>1, <2>2 DEF WalkTables, Walk
<1>2. CASE IdentityMapNext
  BY <1>2, PInvIdentityMapNext
<1>3. CASE SetCr3Register
  BY <1>3, PInvSetCr3Register
<1>4. CASE MapTestPage
  BY <1>4, PInvMapTestPage
<1>5. CASE WriteTestByte
  BY <1>5, PInvWriteTestByte
<1>6. CASE CheckTestByte
  BY <1>6, PInvCheckTestByte
<1>7. CASE UNCHANGED pvars
  <2>1. UNCHANGED <<mem, free, level, table, indexes, paddr, tables, pc, job>>
    BY <1>7 DEF pvars, vars, call
  <2>2. Inv'
    BY <2>1, SameNodes DEF PInv, Inv, Shape, Known, Tree, AtNode
  <2>3. CallInv' /\ ProgressInv'
    BY <2>1 DEF PInv, CallInv, ProgressInv, Stored
  <2>4. \A ix \in Paths : Translate(ix)' = Translate(ix)
    BY <2>1, SameNodes DEF Node
  <2>5. MappedInv' /\ NothingElse'
    BY <2>1, <2>4, KeepsTranslations DEF TestMapped, Finished
  <2>6. QED
    BY <2>2, <2>3, <2>5 DEF PInv
<1>8. QED
  BY <1>1, <1>2, <1>3, <1>4, <1>5, <1>6, <1>7 DEF Next

LEMMA PInvAlways == Spec /\ []EnoughFrames /\ []TestHarmless => []PInv
BY PInvInit, PInvNext, PTL DEF Spec

-----------------------------------------------------------------------------
(* What a step of init_paging writes, and where its tables come from. *)

LEMMA StepTables ==
  ASSUME PInv, EnoughFrames, [Next]_pvars
  PROVE  /\ tables \subseteq tables'
         /\ tables' \ tables \subseteq free
         /\ \A f \in Physical \ tables' : f # NULL => mem'[f] = mem[f]
<1>1. mem \in [Physical -> [Index -> Entry]] /\ Inv
  BY DEF PInv, Inv, Shape
<1>2. CASE CreateTable
  <2>1. PICK new \in free : /\ new \in Physical \ tables
                           /\ mem' = Linked(new) /\ tables' = tables \cup {new}
    BY <1>1, <1>2, NewTable
  <2>2. level # 0 /\ table \in tables
    BY <1>1, <1>2, EntryOfCall DEF CreateTable
  <2>3. \A f \in Physical : f # new /\ f # table => mem'[f] = mem[f]
    BY <1>1, <2>1 DEF Linked
  <2>4. QED
    BY <2>1, <2>2, <2>3
<1>3. CASE SetPage
  <2>1. level # 0 /\ table \in tables /\ tables' = tables
    BY <1>1, <1>3, EntryOfCall DEF SetPage
  <2>2. \A f \in Physical : f # table => mem'[f] = mem[f]
    BY <1>1, <1>3 DEF SetPage
  <2>3. QED
    BY <2>1, <2>2
<1>4. CASE WriteTestByte
  <2>1. Translate(Indexes(TestPage)) = NULL
    BY <1>4 DEF WriteTestByte, PInv, MappedInv, TestMapped, NULL
  <2>2. \A f \in Physical : f # NULL => mem'[f] = mem[f]
    BY <1>1, <1>4, <2>1 DEF WriteTestByte, TestByteWritten
  <2>3. QED
    BY <1>4, <2>2 DEF WriteTestByte
<1>5. CASE mem' = mem /\ tables' = tables
  BY <1>5
<1>6. QED
  BY <1>2, <1>3, <1>4, <1>5
  DEF Next, WalkTables, Walk, EnterTable, IdentityMapNext, SetCr3Register, MapTestPage,
      MapVaddrToPaddr, CheckTestByte, vars, pvars

-----------------------------------------------------------------------------
(* What the invariant says of the properties of Paging. *)

LEMMA PInvType == PInv => PagingTypeOK
BY InvType DEF PInv, ProgressInv, PagingTypeOK

(* After the switch every job is finished. *)
LEMMA JobsMapped ==
  ASSUME PInv, PagingOn, NEW k \in Jobs
  PROVE  Translate(Indexes(Page(k))) = Page(k)
<1>1. pc # "identity" /\ job = Len(IdentityPagingMemory) + 1
  BY DEF PInv, ProgressInv, PagingOn
<1>2. k < job
  BY <1>1, JobTypes
<1>3. QED
  BY <1>1, <1>2 DEF PInv, MappedInv, Finished

LEMMA PInvMemory == PInv => MemoryStaysMapped
BY JobsMapped, JobTypes DEF MemoryStaysMapped, IdentityMapped

LEMMA PInvDevices == SizesRoundUp /\ PInv => DevicesStayMapped
<1> SUFFICES ASSUME SizesRoundUp, PInv, PagingOn
             PROVE  /\ IdentityMapped(DevicePages(FramebufferBase, FramebufferSz))
                    /\ IdentityMapped(DevicePages(ApicBase, PAGE_SZ))
                    /\ IdentityMapped(DevicePages(HpetBase, HpetSz))
  BY DEF DevicesStayMapped, IdentityMapped
<1>1. ASSUME NEW a \in Nat, NEW n \in Nat, n # 0, RoundsUp(n),
             \A k \in 1 .. n \div (PAGE_SZ + 1) + 1 : \E j \in Jobs : Page(j) = a + k - 1
      PROVE  IdentityMapped(DevicePages(a, n))
  <2> SUFFICES ASSUME NEW p \in DevicePages(a, n) PROVE Translate(Indexes(p)) = p
    BY DEF IdentityMapped
  <2>1. n - 1 \in Nat /\ PAGE_SZ \in Nat /\ PAGE_SZ # 0 /\ PAGE_SZ + 1 \in Nat /\ PAGE_SZ + 1 # 0
    BY <1>1, DevicesAssumption
  <2>2. (n - 1) \div PAGE_SZ \in Nat /\ n \div (PAGE_SZ + 1) \in Nat
    BY <2>1, Quotient
  <2>3. p \in a .. a + n \div (PAGE_SZ + 1)
    BY <1>1, <2>2 DEF DevicePages, RoundsUp
  <2>4. (p - a) + 1 \in 1 .. n \div (PAGE_SZ + 1) + 1 /\ a + ((p - a) + 1) - 1 = p
    BY <2>2, <2>3
  <2>5. PICK j \in Jobs : Page(j) = p
    BY <1>1, <2>4
  <2>6. QED
    BY <2>5, JobsMapped
<1>2. RoundsUp(PAGE_SZ)
  <2>1. PAGE_SZ \in Nat /\ PAGE_SZ # 0
    BY DevicesAssumption
  <2>2. (PAGE_SZ - 1) \div PAGE_SZ = 0 /\ PAGE_SZ \div (PAGE_SZ + 1) = 0
    BY <2>1
  <2>3. QED
    BY <2>2 DEF RoundsUp
<1>3. QED
  BY <1>1, <1>2, JobTypes, DevicesAssumption DEF SizesRoundUp

LEMMA PInvNoPageFault == PInv /\ EnoughFrames => NoPageFault
<1> SUFFICES ASSUME PInv, EnoughFrames PROVE NoPageFault
  OBVIOUS
<1>1. PagingOn => IdentityMapped(Managed)
  BY PInvMemory DEF MemoryStaysMapped
<1>2. level # 0 => table \in Managed
  BY EntryOfCall DEF PInv, ProgressInv
<1>3. level > 1 /\ ~ entry.present => Requested \subseteq Managed
  BY DEF EnoughFrames, Requested, PInv, Inv, Shape
<1>4. pc \in {"write", "check"} /\ level = 0 => Translate(Indexes(TestPage)) = 0
  BY DEF PInv, MappedInv, TestMapped
<1>5. QED
  BY <1>1, <1>2, <1>3, <1>4 DEF NoPageFault, IdentityMapped

LEMMA PInvNothingElse == PInv => NothingElseMapped
<1> SUFFICES ASSUME PInv, NEW ix \in Paths, Translate(ix) # Unmapped
             PROVE  \/ ix = Indexes(TestPage)
                    \/ \E j \in Jobs : ix = Indexes(Page(j)) /\ Translate(ix) = Page(j)
  BY JobTypes DEF NothingElseMapped, Page
<1>1. QED
  BY DEF PInv, NothingElse

(* After the switch a step changes only what no walk has found yet. *)
LEMMA PInvNoStale ==
  PInv /\ EnoughFrames /\ TestHarmless /\ [Next]_pvars =>
    [PagingOn => \A ix \in Paths, l \in 0 .. 3 :
       SeenByProcessor(ix)[l] # Unmapped => SeenByProcessor(ix)'[l] = SeenByProcessor(ix)[l]]_pvars
<1>1. \A ix, l : l \in 0 .. 3 => SeenByProcessor(ix)[l] = Node(ix, l)
  BY DEF SeenByProcessor, Node
<1>2. \A ix, l : l \in 0 .. 3 => SeenByProcessor(ix)'[l] = Node(ix, l)'
  BY DEF SeenByProcessor, Node
<1> SUFFICES ASSUME PInv, EnoughFrames, TestHarmless, Next, PagingOn,
                    NEW ix \in Paths, NEW l \in 0 .. 3, Node(ix, l) # Unmapped
             PROVE  Node(ix, l)' = Node(ix, l)
  BY <1>1, <1>2
<1>3. l \in 0 .. 4
  OBVIOUS
<1>4. CASE CreateTable
  <2>1. l = level - 1 /\ Agree(ix, indexes, l) => Node(ix, l) = Unmapped
    <3> SUFFICES ASSUME l = level - 1, Agree(ix, indexes, l) PROVE Node(ix, l) = Unmapped
      OBVIOUS
    <3>1. Node(indexes, l) = Unmapped
      BY <1>4, EntryOfCall DEF CreateTable, PInv
    <3>2. indexes \in Paths
      BY DEF PInv, Inv, Shape
    <3>3. Node(ix, l) = Node(indexes, l)
      BY <1>3, <3>2, SameAbove
    <3>4. QED
      BY <3>1, <3>3
  <2>2. QED
    BY <1>3, <1>4, <2>1, CreateTableNodes DEF PInv
<1>5. CASE SetPage
  <2>1. pc = "write" /\ indexes = Indexes(TestPage) /\ ~ TestMapped
    BY <1>5 DEF SetPage, PInv, CallInv, PagingOn, TestMapped
  <2>2. Translate(Indexes(TestPage)) = Unmapped
    BY <2>1, JobIndexes DEF PInv, NothingElse
  <2>3. ~ (l = 0 /\ ix = indexes)
    BY <2>1, <2>2 DEF Node
  <2>4. QED
    BY <1>3, <1>5, <2>3, SetPageNodes DEF PInv, ProgressInv
<1>6. CASE WriteTestByte
  BY <1>3, <1>6, TestUnseen, WriteUnseen DEF PInv
<1>7. CASE mem' = mem
  BY <1>7, SameNodes
<1>8. QED
  BY <1>4, <1>5, <1>6, <1>7
  DEF Next, WalkTables, Walk, EnterTable, IdentityMapNext, SetCr3Register, MapTestPage,
      MapVaddrToPaddr, CheckTestByte, vars

-----------------------------------------------------------------------------
(* The variables keep their types, and the test of the tables never panics into *)
(* a state of its own: the control is always at one of the steps of init_paging. *)
THEOREM PagingTypeCorrect ==
  Spec /\ []EnoughFrames /\ []TestHarmless => []PagingTypeOK
BY PInvAlways, PInvType, PTL

(* The tables of the kernel stay a tree while init_paging runs. *)
THEOREM PagingTablesDistinct ==
  Spec /\ []EnoughFrames /\ []TestHarmless => []TablesDistinct
BY PInvAlways, InvDistinct, PTL DEF PInv

(* When the new tables translate, every frame of the memory map is mapped to *)
(* itself, and stays so.                                                     *)
THEOREM MemoryIsMapped ==
  Spec /\ []EnoughFrames /\ []TestHarmless => []MemoryStaysMapped
BY PInvAlways, PInvMemory, PTL

(* So are the devices, on machines where _identity_paging rounds up the sizes *)
(* of the framebuffer and of the HPET.                                        *)
THEOREM DevicesAreMapped ==
  ASSUME SizesRoundUp
  PROVE  Spec /\ []EnoughFrames /\ []TestHarmless => []DevicesStayMapped
<1>1. PInv => DevicesStayMapped
  BY PInvDevices
<1>2. QED
  BY <1>1, PInvAlways, PTL

(* init_paging touches no page that its own tables do not map. *)
THEOREM PagingTakesNoFault ==
  Spec /\ []EnoughFrames /\ []TestHarmless => []NoPageFault
BY PInvAlways, PInvNoPageFault, PTL

(* No page is mapped but those of memory, of the devices and of the test. *)
THEOREM OnlyJobsMapped ==
  Spec /\ []EnoughFrames /\ []TestHarmless => []NothingElseMapped
BY PInvAlways, PInvNothingElse, PTL

(* No translation and no table the processor may have kept is ever changed, so *)
(* that the missing invlpg does no harm.                                       *)
THEOREM NothingGoesStale ==
  Spec /\ []EnoughFrames /\ []TestHarmless => NoStaleTranslation
BY PInvAlways, PInvNoStale, PTL DEF Spec, NoStaleTranslation

-----------------------------------------------------------------------------
(***************************************************************************)
(* What the theorems above suppose of a run follows from what is known of the  *)
(* machine when it starts: EnoughFrames if there are as many frames as     *)
(* tables are needed (RoomFor), and TestHarmless if frame 0 is the first   *)
(* one of the frame array or none of it (FrameZeroFirst) and no page to be *)
(* mapped is behind the entry the byte falls into (TestEntryUnused).       *)
(***************************************************************************)

(* Frame 0 can only be the first table created, that of the first page of all; *)
(* as the first request gets it, it is free only until then.                   *)
ZeroInv ==
  /\ NULL \in tables => NULL = Node(Indexes(0), 3)
  /\ NULL \in free => tables = {Root}

(* Every table of level 2 is on the way to some page that is to be mapped. *)
TablesUsed ==
  \A ix \in Paths : Node(ix, 2) # Unmapped => \E p \in AllPages : Agree(ix, Indexes(p), 2)

BInv == PInv /\ FramesCounted(AllPages) /\ ZeroInv /\ TablesUsed

-----------------------------------------------------------------------------
LEMMA AllPagesType == AllPages \in SUBSET Nat
BY JobIndexes, DevicesAssumption DEF AllPages, Page, Jobs

LEMMA PInvCallIn == PInv => CallIn(AllPages)
BY DEF PInv, CallInv, CallIn, AllPages, Page, Jobs

LEMMA ZeroPath == Indexes(0) \in Paths /\ \A l \in Level : Indexes(0)[l] = 0
<1>1. 0 \div K = 0 /\ 0 % K = 0
  BY PagingAssumption
<1>2. Indexes(0) = <<0, 0, 0, 0>>
  BY <1>1 DEF Indexes
<1>3. QED
  BY <1>2, IndexesType DEF Level

(* If the frame array starts with frame 0, page 0 is the first to be mapped. *)
LEMMA FirstJob ==
  ASSUME FrameArray # << >>, FrameArray[1] = NULL
  PROVE  1 \in Jobs /\ Page(1) = 0
<1> DEFINE fb   == IdentityPaging(FramebufferBase, FramebufferSz)
           apic == IdentityPaging(ApicBase, PAGE_SZ)
           hpet == IdentityPaging(HpetBase, HpetSz)
<1>1. FrameArray \in Seq(Nat)
  BY PagingAssumption DEF Physical
<1>2. fb \in Seq(Nat) /\ apic \in Seq(Nat) /\ hpet \in Seq(Nat)
  BY DeviceSeq, DevicesAssumption
<1>3. IdentityPagingMemory = ((FrameArray \o fb) \o apic) \o hpet
  BY DEF IdentityPagingMemory
<1> HIDE DEF fb, apic, hpet
<1>4. ASSUME NEW s \in Seq(Nat), NEW r \in Seq(Nat), 1 \in DOMAIN s, s[1] = 0
      PROVE  s \o r \in Seq(Nat) /\ 1 \in DOMAIN (s \o r) /\ (s \o r)[1] = 0
  BY <1>4
<1>5. 1 \in DOMAIN FrameArray /\ FrameArray[1] = 0
  BY <1>1 DEF NULL
<1> DEFINE two == FrameArray \o fb
           three == two \o apic
<1>6. two \in Seq(Nat) /\ 1 \in DOMAIN two /\ two[1] = 0
  BY <1>1, <1>2, <1>4, <1>5
<1> HIDE DEF two
<1>7. three \in Seq(Nat) /\ 1 \in DOMAIN three /\ three[1] = 0
  BY <1>2, <1>4, <1>6
<1> HIDE DEF three
<1>8. 1 \in DOMAIN (three \o hpet) /\ (three \o hpet)[1] = 0
  BY <1>2, <1>4, <1>7
<1>9. QED
  BY <1>3, <1>8 DEF Jobs, Page, two, three

(* A page that is mapped has a table of each level. *)
LEMMA TablesAbove ==
  ASSUME NEW ix \in Paths, Translate(ix) # Unmapped
  PROVE  /\ Node(ix, 3) # Unmapped /\ Node(ix, 2) # Unmapped
<1>1. \A l \in 0 .. 3 : Node(ix, l) # Unmapped => Node(ix, l+1) # Unmapped
  BY NodeStep DEF Below
<1>2. Node(ix, 0) # Unmapped
  BY DEF Node
<1>3. Node(ix, 1) # Unmapped
  BY <1>1, <1>2
<1>4. Node(ix, 2) # Unmapped
  BY <1>1, <1>3
<1>5. Node(ix, 3) # Unmapped
  BY <1>1, <1>4
<1>6. QED
  BY <1>4, <1>5

(* Once the call for page 0 is over, page 0 has its tables. *)
LEMMA ZeroMapped ==
  ASSUME PInv, FrameArray # << >>, FrameArray[1] = NULL,
         pc = "identity" => job # 1 /\ (level = 0 \/ job # 2)
  PROVE  Node(Indexes(0), 3) # Unmapped /\ Node(Indexes(0), 2) # Unmapped
<1>1. 1 \in Jobs /\ Page(1) = 0 /\ Jobs = 1 .. Len(IdentityPagingMemory)
  BY FirstJob, JobTypes
<1>2. /\ job \in 1 .. Len(IdentityPagingMemory) + 1 /\ Len(IdentityPagingMemory) \in Nat
      /\ pc # "identity" => job = Len(IdentityPagingMemory) + 1
  BY JobTypes DEF PInv, ProgressInv
<1>3. 1 < job /\ (job - 1 = 1 => job = 2)
  BY <1>1, <1>2
<1>4. Finished(1)
  BY <1>1, <1>3 DEF Finished
<1>5. Translate(Indexes(0)) = 0
  BY <1>1, <1>4 DEF PInv, MappedInv
<1>6. Translate(Indexes(0)) # Unmapped
  BY <1>5 DEF Unmapped
<1>7. QED
  BY <1>6, TablesAbove, ZeroPath

(* A call at a time when there is no table but PML4 is that for page 0, at PML4. *)
LEMMA FirstCall ==
  ASSUME PInv, FrameArray # << >>, FrameArray[1] = NULL, tables = {Root}, level # 0
  PROVE  indexes = Indexes(0) /\ level = 4
<1>1. level = 4
  <2>1. level \in Level /\ Node(indexes, level) = Root /\ indexes \in Paths
    BY EntryOfCall DEF PInv, Inv, Shape
  <2>2. Root # Unmapped /\ Node(indexes, 4) = Root /\ 4 \in Level
    BY ConstantTypes, NodeTop DEF Level
  <2>3. QED
    BY <2>1, <2>2 DEF PInv, Inv, Tree
<1>2. Node(Indexes(0), 3) = Unmapped
  <2> SUFFICES ASSUME Node(Indexes(0), 3) # Unmapped PROVE FALSE
    OBVIOUS
  <2>1. 3 \in Level /\ 4 \in Level /\ Indexes(0) \in Paths
    BY ZeroPath DEF Level
  <2>2. Node(Indexes(0), 3) = Root /\ Node(Indexes(0), 4) = Root
    BY <2>1, NodeTop, NodeIsTable DEF PInv, Inv
  <2>3. 3 = 4
    BY <2>1, <2>2 DEF PInv, Inv, Tree
  <2>4. QED
    BY <2>3
<1>3. pc = "identity" /\ (job = 1 \/ job = 2)
  BY <1>2, ZeroMapped
<1>4. job - 1 \in Jobs /\ indexes = Indexes(Page(job - 1))
  BY <1>3 DEF PInv, CallInv
<1>5. job - 1 = 1
  BY <1>3, <1>4, JobTypes
<1>6. QED
  BY <1>1, <1>4, <1>5, FirstJob

-----------------------------------------------------------------------------
LEMMA BInvEnough == ASSUME RoomFor(AllPages) PROVE BInv => EnoughFrames
BY RoomLeft, AllPagesType, PInvCallIn DEF BInv, PInv

(* Behind the entry that the byte falls into there would be a table of level 2, *)
(* and so a page to be mapped.                                                  *)
LEMMA BInvHarmless == ASSUME TestEntryUnused PROVE BInv => TestHarmless
<1> SUFFICES ASSUME BInv, NULL \in tables, mem[NULL][TestEntry].present
             PROVE  FALSE
  BY DEF TestHarmless
<1> DEFINE ix == [Indexes(0) EXCEPT ![3] = TestEntry]
<1>1. /\ NULL \in Managed /\ NULL = Node(Indexes(0), 3)
      /\ mem \in [Physical -> [Index -> Entry]] /\ NULL \in Physical
  BY ConstantTypes DEF BInv, ZeroInv, PInv, ProgressInv, Inv, Shape
<1>2. Indexes(0) \in Paths /\ TestEntry \in Index
  BY ZeroPath, DevicesAssumption
<1>3. ix \in Paths /\ ix[3] = TestEntry /\ ix[4] = Indexes(0)[4]
  BY <1>2 DEF Paths, Level
<1> HIDE DEF ix
<1>4. Node(ix, 3) = NULL
  <2>1. Agree(ix, Indexes(0), 3)
    BY <1>3 DEF Agree
  <2>2. 3 \in 0 .. 4 /\ 3 \in 3 .. 4
    OBVIOUS
  <2>3. QED
    BY <1>1, <1>2, <1>3, <2>1, <2>2, SameAbove
<1>5. Node(ix, 2) # Unmapped
  <2>1. Node(ix, 2) = Below(Node(ix, 3), ix[3])
    <3>1. 2 \in 0 .. 3 /\ 2 + 1 = 3
      OBVIOUS
    <3>2. QED
      BY <3>1, NodeStep
  <2>2. mem[NULL][TestEntry].frame \in Nat
    BY <1>1, <1>2 DEF Entry
  <2>3. QED
    BY <1>3, <1>4, <2>1, <2>2 DEF Below, NULL, Unmapped
<1>6. PICK p \in AllPages : Agree(ix, Indexes(p), 2)
  BY <1>3, <1>5 DEF BInv, TablesUsed
<1>7. Indexes(p)[3] = TestEntry /\ Indexes(p)[4] = Indexes(0)[4]
  <2>1. 3 \in 2+1 .. 4 /\ 4 \in 2+1 .. 4
    OBVIOUS
  <2>2. QED
    BY <1>3, <1>6, <2>1 DEF Agree
<1>8. QED
  BY <1>1, <1>6, <1>7 DEF TestEntryUnused

(* The first request gets frame 0, if it is free. *)
LEMMA ZeroRequested ==
  ASSUME FrameArray # << >>, FrameArray[1] = NULL, NULL \in free
  PROVE  Requested = {NULL}
<1>1. 1 \in DOMAIN FrameArray /\ DOMAIN FrameArray \subseteq Nat \ {0}
  BY PagingAssumption
<1>2. \A j \in DOMAIN FrameArray :
        (FrameArray[j] \in free /\ \A k \in DOMAIN FrameArray : FrameArray[k] \in free => j <= k)
          <=> j = 1
  BY <1>1
<1>3. {j \in DOMAIN FrameArray :
         FrameArray[j] \in free /\ \A k \in DOMAIN FrameArray : FrameArray[k] \in free => j <= k} = {1}
  BY <1>1, <1>2
<1>4. QED
  BY <1>3 DEF Requested

LEMMA ZeroCreateTable ==
  ASSUME FrameZeroFirst, PInv, EnoughFrames, ZeroInv, CreateTable
  PROVE  ZeroInv'
<1>1. Inv /\ indexes \in Paths /\ free \subseteq Managed
  BY DEF PInv, Inv, Shape
<1>2. /\ Indexes(0) \in Paths /\ 3 \in 0 .. 4 /\ level # 0 /\ ~ entry.present
      /\ Node(indexes, level-1) = Unmapped
  BY <1>1, ZeroPath, EntryOfCall DEF CreateTable
<1>3. PICK new \in free :
        /\ new \notin tables /\ free' = free \ {new} /\ tables' = tables \cup {new} /\ table' = new
  BY <1>1, NewTable
<1>4. CASE NULL \in free
  <2>1. FrameArray # << >> /\ FrameArray[1] = NULL /\ tables = {Root}
    BY <1>1, <1>4 DEF FrameZeroFirst, ZeroInv
  <2>2. table' = NULL
    BY <1>4, <2>1, ZeroRequested DEF CreateTable
  <2>3. indexes = Indexes(0) /\ level = 4
    BY <1>2, <2>1, FirstCall
  <2>4. Node(Indexes(0), 3)' = NULL
    <3>1. Agree(Indexes(0), indexes, 3)
      BY <2>3 DEF Agree
    <3>2. QED
      BY <1>1, <1>2, <2>2, <2>3, <3>1, CreateTableNodes
  <2>5. QED
    BY <1>3, <2>2, <2>4 DEF ZeroInv
<1>5. CASE NULL \notin free
  <2>1. NULL \notin free' /\ new # NULL
    BY <1>3, <1>5
  <2>2. NULL \in tables' => NULL = Node(Indexes(0), 3)
    BY <1>3, <2>1 DEF ZeroInv
  <2>3. Node(Indexes(0), 3) # Unmapped => Node(Indexes(0), 3)' = Node(Indexes(0), 3)
    <3> SUFFICES ASSUME 3 = level - 1, Agree(Indexes(0), indexes, 3)
                 PROVE  Node(Indexes(0), 3) = Unmapped
      BY <1>1, <1>2, CreateTableNodes
    <3>1. Node(Indexes(0), 3) = Node(indexes, 3)
      BY <1>1, <1>2, SameAbove
    <3>2. QED
      BY <1>2, <3>1
  <2>4. NULL # Unmapped
    BY DEF NULL, Unmapped
  <2>5. QED
    BY <2>1, <2>2, <2>3, <2>4 DEF ZeroInv
<1>6. QED
  BY <1>4, <1>5

(* A new table is on the way to the page of the call. *)
LEMMA UsedCreateTable ==
  ASSUME PInv, EnoughFrames, TablesUsed, CreateTable
  PROVE  TablesUsed'
<1> SUFFICES ASSUME NEW ix \in Paths, Node(ix, 2)' # Unmapped
             PROVE  \E p \in AllPages : Agree(ix, Indexes(p), 2)
  BY DEF TablesUsed, Agree
<1>1. Inv /\ level # 0 /\ 2 \in 0 .. 4
  BY DEF PInv, CreateTable
<1>2. CASE 2 = level - 1 /\ Agree(ix, indexes, 2)
  <2>1. PICK p \in AllPages : indexes = Indexes(p)
    BY <1>1, PInvCallIn DEF CallIn
  <2>2. QED
    BY <1>2, <2>1
<1>3. CASE ~ (2 = level - 1 /\ Agree(ix, indexes, 2))
  <2>1. Node(ix, 2)' = Node(ix, 2)
    BY <1>1, <1>3, CreateTableNodes
  <2>2. QED
    BY <2>1 DEF TablesUsed
<1>4. QED
  BY <1>2, <1>3

LEMMA BInvInit == ASSUME RoomFor(AllPages) PROVE InitPaging => BInv
<1> SUFFICES ASSUME InitPaging PROVE BInv
  OBVIOUS
<1>1. FramesCounted(AllPages)
  BY CountInit, AllPagesType DEF InitPaging
<1>2. ZeroInv
  BY PagesAssumption DEF InitPaging, Init, NothingMapped, ZeroInv
<1>3. TablesUsed
  <2>1. 2 \in 0 .. 3
    OBVIOUS
  <2>2. QED
    BY <2>1, EmptyNodes DEF InitPaging, TablesUsed
<1>4. QED
  BY <1>1, <1>2, <1>3, PInvInit DEF BInv

LEMMA BInvNext ==
  ASSUME RoomFor(AllPages), FrameZeroFirst, TestEntryUnused
  PROVE  BInv /\ [Next]_pvars => BInv'
<1> SUFFICES ASSUME BInv, [Next]_pvars PROVE BInv'
  OBVIOUS
<1>1. /\ EnoughFrames /\ TestHarmless /\ PInv /\ Inv /\ AllPages \in SUBSET Nat
      /\ CallIn(AllPages) /\ FramesCounted(AllPages) /\ ZeroInv /\ TablesUsed
  BY BInvEnough, BInvHarmless, AllPagesType, PInvCallIn DEF BInv, PInv
<1>2. PInv'
  BY <1>1, PInvNext
<1>3. \A p \in AllPages : Indexes(p) \in Paths
  BY <1>1, IndexesType
<1>4. ASSUME free' = free, tables' = tables,
             \A ix \in Paths, l \in 1 .. 3 : Node(ix, l)' = Node(ix, l)
      PROVE  FramesCounted(AllPages)' /\ ZeroInv' /\ TablesUsed'
  <2>1. \A p \in AllPages, l \in 1 .. 3 : Node(Indexes(p), l)' = Node(Indexes(p), l)
    BY <1>3, <1>4
  <2>2. FramesCounted(AllPages)'
    BY <1>1, <1>4, <2>1, CountKept
  <2>3. Node(Indexes(0), 3)' = Node(Indexes(0), 3)
    BY <1>4, ZeroPath
  <2>4. TablesUsed'
    <3>1. \A ix \in Paths : Node(ix, 2)' = Node(ix, 2)
      BY <1>4
    <3>2. QED
      BY <1>1, <3>1 DEF TablesUsed, Agree
  <2>5. QED
    BY <1>1, <1>4, <2>2, <2>3, <2>4 DEF ZeroInv
<1>5. CASE CreateTable
  BY <1>1, <1>2, <1>5, CountCreateTable, ZeroCreateTable, UsedCreateTable DEF BInv
<1>6. CASE SetPage
  <2>1. \A ix \in Paths, l \in 1 .. 3 : Node(ix, l)' = Node(ix, l)
    BY <1>1, <1>6, SetPageNodes DEF PInv, ProgressInv
  <2>2. QED
    BY <1>2, <1>4, <1>6, <2>1 DEF SetPage, BInv
<1>7. CASE WriteTestByte
  <2>1. \A u \in tables : ReadsAlike(u)
    BY <1>1, <1>7, TestUnseen
  <2>2. \A ix \in Paths, l \in 1 .. 3 : Node(ix, l)' = Node(ix, l)
    BY <1>1, <2>1, WriteUnseen
  <2>3. QED
    BY <1>2, <1>4, <1>7, <2>2 DEF WriteTestByte, BInv
<1>8. CASE mem' = mem /\ free' = free /\ tables' = tables
  BY <1>2, <1>4, <1>8, SameNodes DEF BInv
<1>9. QED
  BY <1>5, <1>6, <1>7, <1>8
  DEF Next, WalkTables, Walk, EnterTable, IdentityMapNext, SetCr3Register, MapTestPage,
      MapVaddrToPaddr, CheckTestByte, vars, pvars

-----------------------------------------------------------------------------
(* While init_paging runs, the allocator has a frame for every table that is *)
(* missing: no table is made of the NULL that pmem_request_frame may return. *)
THEOREM PagingFramesSuffice ==
  ASSUME RoomFor(AllPages), FrameZeroFirst, TestEntryUnused
  PROVE  Spec => []EnoughFrames
<1>1. InitPaging => BInv
  BY BInvInit
<1>2. BInv /\ [Next]_pvars => BInv'
  BY BInvNext
<1>3. BInv => EnoughFrames
  BY BInvEnough
<1>4. QED
  BY <1>1, <1>2, <1>3, PTL DEF Spec

(* The byte that the test of the new tables writes to frame 0 changes no          *)
(* translation: if frame 0 is a table, the entry it falls into is not present.     *)
THEOREM TestIsHarmless ==
  ASSUME RoomFor(AllPages), FrameZeroFirst, TestEntryUnused
  PROVE  Spec => []TestHarmless
<1>1. InitPaging => BInv
  BY BInvInit
<1>2. BInv /\ [Next]_pvars => BInv'
  BY BInvNext
<1>3. BInv => TestHarmless
  BY BInvHarmless
<1>4. QED
  BY <1>1, <1>2, <1>3, PTL DEF Spec

(* So the theorems of PagingProofs hold of every run on such a machine: all the *)
(* memory is mapped and stays so, the devices too if their sizes are rounded up, *)
(* nothing else is, no access faults, and nothing the processor keeps goes stale. *)
THEOREM InitPagingCorrect ==
  ASSUME RoomFor(AllPages), FrameZeroFirst, TestEntryUnused
  PROVE  Spec => /\ [](TablesDistinct /\ MemoryStaysMapped /\ NoPageFault /\ NothingElseMapped)
                 /\ SizesRoundUp => []DevicesStayMapped
                 /\ NoStaleTranslation
<1>1. Spec => []EnoughFrames /\ []TestHarmless
  <2>1. Spec => []EnoughFrames
    BY PagingFramesSuffice
  <2>2. Spec => []TestHarmless
    BY TestIsHarmless
  <2>3. QED
    BY <2>1, <2>2, PTL
<1>2. QED
  <2>1. SizesRoundUp => (Spec => []DevicesStayMapped)
    <3>1. ASSUME SizesRoundUp PROVE Spec => []DevicesStayMapped
      <4>1. Spec /\ []EnoughFrames /\ []TestHarmless => []DevicesStayMapped
        BY <3>1, DevicesAreMapped
      <4>2. QED
        BY <1>1, <4>1, PTL
    <3>2. QED
      BY <3>1
  <2>2. QED
    BY <1>1, <2>1, PagingTablesDistinct, MemoryIsMapped, PagingTakesNoFault, OnlyJobsMapped,
       NothingGoesStale, PTL
=============================================================================
