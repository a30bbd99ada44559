------------------------ MODULE PhysicalMemoryProofs ------------------------
(***************************************************************************)
(* Proofs about the physical memory allocator, for every memory map and    *)
(* every machine that MemoryMapAssumption and MachineAssumption allow.     *)
(***************************************************************************)
EXTENDS PhysicalMemory, FiniteSetTheorems, TLAPS, WellFoundedInduction

-----------------------------------------------------------------------------
(* Facts about FirstFrame, the prefix sums of the memory map: the ids of     *)
(* the frames of one descriptor follow those of the descriptors before it,   *)
(* and every frame id belongs to some descriptor.                            *)

Last == Len(MemoryDescriptors) + 1
Pages(d) == MemoryDescriptors[d].number_of_pages

(* Every non-empty set of natural numbers has a least element. *)
LEMMA LeastElement ==
  ASSUME NEW T, T \subseteq Nat, T # {}
  PROVE  \E x \in T : \A y \in T : x <= y
<1>1. PICK x \in T : \A y \in T : ~ (<<y, x>> \in OpToRel(<, Nat))
  BY NatLessThanWellFounded, WFMin
<1>2. \A y \in T : ~ (y < x)
  BY <1>1 DEF OpToRel
<1>3. QED
  BY <1>2

(* The descriptors have the types their record says. *)
LEMMA DescriptorTypes ==
  /\ Len(MemoryDescriptors) \in Nat
  /\ \A d \in Entries : /\ MemoryDescriptors[d].physical_addr \in Nat
                        /\ Pages(d) \in Nat
<1>1. Len(MemoryDescriptors) \in Nat
  BY MemoryMapAssumption
<1>2. \A d \in Entries : MemoryDescriptors[d] \in EfiMemoryDescriptor
  BY MemoryMapAssumption DEF Entries
<1>3. QED
  BY <1>1, <1>2 DEF EfiMemoryDescriptor, Pages

(* The recursive definition of FirstFrame defines a function. *)
LEMMA FirstFrameDef ==
  FirstFrame = [d \in 1 .. Last |->
                  IF d = 1 THEN 0 ELSE FirstFrame[d-1] + Pages(d-1)]
<1> DEFINE Solves(f, m) ==
             f = [d \in 1 .. m |-> IF d = 1 THEN 0 ELSE f[d-1] + Pages(d-1)]
           T == {m \in Nat : m # 0 /\ ~ \E f : Solves(f, m)}
<1>1. T = {}
  <2>1. SUFFICES ASSUME T # {} PROVE FALSE
    OBVIOUS
  <2>2. PICK m \in T : \A y \in T : m <= y
    <3> HIDE DEF Solves
    <3> QED BY <2>1, LeastElement
  <2>3. CASE m = 1
    <3>1. Solves([d \in 1 .. 1 |-> 0], 1)
      OBVIOUS
    <3>2. QED BY <2>3, <3>1
  <2>4. CASE m # 1
    <3>1. m-1 \in Nat /\ m-1 # 0 /\ m-1 \notin T
      <4> HIDE DEF Solves
      <4> QED BY <2>4, <2>2
    <3>2. PICK f : Solves(f, m-1)
      BY <3>1
    <3> DEFINE g == [d \in 1 .. m |-> IF d = 1 THEN 0 ELSE f[d-1] + Pages(d-1)]
    <3>3. \A d \in 1 .. m-1 : g[d] = f[d]
      BY <3>1, <3>2
    <3>4. \A d \in 1 .. m : d # 1 => d-1 \in 1 .. m-1
      BY <3>1
    <3>5. Solves(g, m)
      BY <3>1, <3>3, <3>4
    <3>6. QED BY <3>5
  <2>5. QED BY <2>3, <2>4
<1>2. Last \in Nat /\ Last # 0
  BY DescriptorTypes DEF Last
<1>3. PICK h : Solves(h, Last)
  BY <1>1, <1>2
<1>4. FirstFrame = CHOOSE f : Solves(f, Last)
  BY DEF FirstFrame, Last, Pages
<1>5. Solves(FirstFrame, Last)
  <2> HIDE DEF Solves
  <2> QED BY <1>3, <1>4
<1>6. QED BY <1>5

(* FirstFrame starts at 0 and grows by the pages of each descriptor. *)
LEMMA FirstFrameStep ==
  /\ FirstFrame[1] = 0
  /\ \A d \in Entries : FirstFrame[d+1] = FirstFrame[d] + Pages(d)
<1>1. Last \in Nat /\ 1 \in 1 .. Last
  BY DescriptorTypes DEF Last
<1>2. \A d \in Entries : d+1 \in 1 .. Last /\ d+1 # 1 /\ (d+1)-1 = d
  BY DescriptorTypes DEF Last, Entries
<1>3. QED
  BY <1>1, <1>2, FirstFrameDef

LEMMA FirstFrameType == \A d \in 1 .. Last : FirstFrame[d] \in Nat
<1> DEFINE T == {d \in 1 .. Last : FirstFrame[d] \notin Nat}
<1>1. SUFFICES ASSUME T # {} PROVE FALSE
  OBVIOUS
<1>2. T \subseteq Nat
  BY DescriptorTypes DEF Last
<1>3. PICK d \in T : \A e \in T : d <= e
  BY <1>1, <1>2, LeastElement
<1>4. d # 1
  BY <1>3, FirstFrameStep
<1>5. d-1 \in Entries /\ d-1 \in 1 .. Last /\ d-1 \notin T /\ d = (d-1)+1
  BY <1>3, <1>4, DescriptorTypes DEF Last, Entries
<1>6. FirstFrame[d-1] \in Nat /\ Pages(d-1) \in Nat
  BY <1>5, DescriptorTypes
<1>7. QED
  BY <1>5, <1>6, FirstFrameStep

(* FirstFrame never decreases. *)
LEMMA FirstFrameMonotone ==
  ASSUME NEW d \in 1 .. Last, NEW e \in 1 .. Last, d <= e
  PROVE  FirstFrame[d] <= FirstFrame[e]
<1> DEFINE T == {x \in 1 .. Last : d <= x /\ ~ (FirstFrame[d] <= FirstFrame[x])}
<1>1. SUFFICES ASSUME T # {} PROVE FALSE
  OBVIOUS
<1>2. T \subseteq Nat
  BY DescriptorTypes DEF Last
<1>3. PICK x \in T : \A y \in T : x <= y
  BY <1>1, <1>2, LeastElement
<1>4. x # d /\ d < x
  BY <1>3, FirstFrameType
<1>5. x-1 \in Entries /\ x-1 \in 1 .. Last /\ d <= x-1 /\ x-1 \notin T /\ x = (x-1)+1
  BY <1>3, <1>4, DescriptorTypes DEF Last, Entries
<1>6. FirstFrame[d] <= FirstFrame[x-1]
  BY <1>5
<1>7. FirstFrame[x] = FirstFrame[x-1] + Pages(x-1)
  BY <1>5, FirstFrameStep
<1>8. QED
  BY <1>3, <1>5, <1>6, <1>7, FirstFrameType, DescriptorTypes

(* The ids of the pages of a descriptor are ids of frames. *)
LEMMA PageIsFrame ==
  ASSUME NEW d \in Entries, NEW k \in Nat, k < Pages(d)
  PROVE  /\ FirstFrame[d] + k \in FrameIds
         /\ FirstFrame[d] + k < FirstFrame[d+1]
<1>1. d \in 1 .. Last /\ d+1 \in 1 .. Last /\ Last \in 1 .. Last /\ d+1 <= Last
  BY DescriptorTypes DEF Last, Entries
<1>2. FirstFrame[d+1] <= FirstFrame[Last]
  BY <1>1, FirstFrameMonotone
<1>3. FirstFrame[d+1] = FirstFrame[d] + Pages(d)
  BY FirstFrameStep
<1>4. QED
  BY <1>1, <1>2, <1>3, FirstFrameType, DescriptorTypes DEF FrameIds, NumberOfPageFrames, Last

(* Every frame id is that of a page of some descriptor. *)
LEMMA FrameIsPage ==
  ASSUME NEW j \in FrameIds
  PROVE  \E d \in Entries : \E k \in Nat : k < Pages(d) /\ j = FirstFrame[d] + k
<1> DEFINE T == {d \in 1 .. Last : j < FirstFrame[d]}
<1>1. Last \in 1 .. Last /\ Last \in T /\ j \in Nat
  BY DescriptorTypes, FirstFrameType DEF Last, FrameIds, NumberOfPageFrames
<1>2. T \subseteq Nat
  BY DescriptorTypes DEF Last
<1>3. PICK d \in T : \A e \in T : d <= e
  BY <1>1, <1>2, LeastElement
<1>4. d # 1
  BY <1>1, <1>3, FirstFrameStep
<1>5. d-1 \in Entries /\ d-1 \in 1 .. Last /\ d-1 \notin T /\ d = (d-1)+1
  BY <1>3, <1>4, DescriptorTypes DEF Last, Entries
<1>6. FirstFrame[d] = FirstFrame[d-1] + Pages(d-1)
  BY <1>5, FirstFrameStep
<1>7. FirstFrame[d-1] <= j /\ j < FirstFrame[d] /\ FirstFrame[d-1] \in Nat /\ Pages(d-1) \in Nat
  BY <1>1, <1>3, <1>5, FirstFrameType, DescriptorTypes
<1>8. LET k == j - FirstFrame[d-1]
      IN  k \in Nat /\ k < Pages(d-1) /\ j = FirstFrame[d-1] + k
  BY <1>1, <1>6, <1>7
<1>9. QED
  BY <1>5, <1>8

-----------------------------------------------------------------------------
(* Facts about the constants. *)

LEMMA FrameCountType == NumberOfPageFrames \in Nat
<1>1. Last \in 1 .. Last
  BY DescriptorTypes DEF Last
<1>2. QED
  BY <1>1, FirstFrameType DEF NumberOfPageFrames, Last

LEMMA DivLowerBound ==
  ASSUME NEW a \in Nat, NEW b \in Nat, NEW c \in Nat, c # 0, a * c <= b
  PROVE  a <= b \div c
OBVIOUS

LEMMA DivUpperBound ==
  ASSUME NEW b \in Nat, NEW c \in Nat, c # 0
  PROVE  /\ b \div c \in Nat
         /\ (b \div c) * c <= b
OBVIOUS

(* Every frame the array occupies is among those the loop visits. *)
LEMMA ArrayFramesVisited ==
  /\ LockCount \in Nat
  /\ ArrayFrameCount \in Nat
  /\ ArrayFrameCount <= LockCount
<1> DEFINE bytes == NumberOfPageFrames * PageFrameSz
           top   == NumberOfPageFrames * 8 * PageFrameSz
           up    == bytes + FRAME_SZ - 1
<1>1. /\ FRAME_SZ \in Nat /\ FRAME_SZ # 0
      /\ PageFrameSz \in Nat
      /\ top >= FRAME_SZ
  BY MachineAssumption
<1>2. bytes \in Nat /\ top \in Nat /\ top = 8 * bytes /\ up \in Nat
  BY <1>1, FrameCountType
<1>3. ArrayFrameCount = up \div FRAME_SZ /\ LockCount = top \div FRAME_SZ
  BY DEF ArrayFrameCount, LockCount
<1>4. /\ ArrayFrameCount \in Nat
      /\ ArrayFrameCount * FRAME_SZ <= up
  <2> HIDE DEF up
  <2> QED BY <1>1, <1>2, <1>3, DivUpperBound
<1>5. LockCount \in Nat
  <2> HIDE DEF top
  <2> QED BY <1>1, <1>2, <1>3, DivUpperBound
<1>6. ArrayFrameCount * FRAME_SZ <= top
  <2> HIDE DEF bytes, top
  <2>1. CASE bytes >= FRAME_SZ
    <3>1. up <= top
      BY <1>1, <1>2, <2>1
    <3>2. ArrayFrameCount * FRAME_SZ \in Nat /\ up \in Nat /\ top \in Nat
      BY <1>1, <1>2, <1>4
    <3> HIDE DEF up
    <3>3. QED BY <1>4, <3>1, <3>2
  <2>2. CASE bytes < FRAME_SZ
    <3>1. up < 2 * FRAME_SZ
      BY <1>1, <1>2, <2>2
    <3>2. ArrayFrameCount * FRAME_SZ < 2 * FRAME_SZ
      BY <1>1, <1>2, <1>4, <3>1
    <3>3. ArrayFrameCount <= 1
      BY <1>1, <1>4, <3>2
    <3>4. ArrayFrameCount * FRAME_SZ <= FRAME_SZ
      BY <1>1, <1>4, <3>3
    <3>5. QED BY <1>1, <1>2, <1>4, <3>4
  <2>3. QED BY <1>1, <1>2, <2>1, <2>2
<1>7. ArrayFrameCount <= LockCount
  <2> HIDE DEF top
  <2> QED BY <1>1, <1>2, <1>3, <1>4, <1>6, DivLowerBound
<1>8. QED BY <1>4, <1>5, <1>7

(* A frame is the page of only one descriptor. *)
LEMMA PageIsUnique ==
  ASSUME NEW d \in Entries, NEW k \in Nat, k < Pages(d),
         NEW e \in Entries, NEW m \in Nat, m < Pages(e),
         FirstFrame[d] + k = FirstFrame[e] + m
  PROVE  d = e /\ k = m
<1>1. d \in 1 .. Last /\ d+1 \in 1 .. Last /\ e \in 1 .. Last /\ e+1 \in 1 .. Last
  BY DescriptorTypes DEF Entries, Last
<1>2. FirstFrame[d] \in Nat /\ FirstFrame[d+1] \in Nat /\ FirstFrame[e] \in Nat /\ FirstFrame[e+1] \in Nat
  BY <1>1, FirstFrameType
<1>3. FirstFrame[d] + k < FirstFrame[d+1] /\ FirstFrame[e] + m < FirstFrame[e+1]
  BY PageIsFrame
<1>4. ~ (d < e)
  <2>1. SUFFICES ASSUME d < e PROVE FALSE
    OBVIOUS
  <2>2. d+1 <= e
    BY <2>1, <1>1
  <2>3. FirstFrame[d+1] <= FirstFrame[e]
    BY <2>2, <1>1, FirstFrameMonotone
  <2>4. QED BY <2>3, <1>2, <1>3
<1>5. ~ (e < d)
  <2>1. SUFFICES ASSUME e < d PROVE FALSE
    OBVIOUS
  <2>2. e+1 <= d
    BY <2>1, <1>1
  <2>3. FirstFrame[e+1] <= FirstFrame[d]
    BY <2>2, <1>1, FirstFrameMonotone
  <2>4. QED BY <2>3, <1>2, <1>3
<1>6. d = e
  BY <1>1, <1>4, <1>5
<1>7. QED BY <1>6, <1>2

(* There is a largest free segment, and only its base is the array's address. *)
LEMMA LargestSegment ==
  /\ LargestFreeSegment \in FreeSegments
  /\ LargestFreeSegment \in Entries
  /\ \A d \in Entries : MemoryDescriptors[d].physical_addr = LargestFreeMemSeg
                          <=> d = LargestFreeSegment
<1>1. FreeSegments # {} /\ FreeSegments \subseteq Entries
  BY MachineAssumption DEF FreeSegments
<1>2. \A d \in Entries : d \in Nat /\ Pages(d) \in Nat
  BY DescriptorTypes DEF Entries
<1> DEFINE bound == NumberOfPageFrames
           Gap == {y \in Nat : \E d \in FreeSegments : Pages(d) + y = bound}
<1>3. \A d \in Entries : Pages(d) <= bound
  <2>1. SUFFICES ASSUME NEW d \in Entries PROVE Pages(d) <= bound
    OBVIOUS
  <2>2. d \in 1 .. Last /\ d+1 \in 1 .. Last /\ Last \in 1 .. Last /\ d+1 <= Last
    BY DescriptorTypes DEF Entries, Last
  <2>3. FirstFrame[d+1] <= FirstFrame[Last]
    BY <2>2, FirstFrameMonotone
  <2>4. FirstFrame[d+1] = FirstFrame[d] + Pages(d)
    BY FirstFrameStep
  <2>5. bound = FirstFrame[Last]
    BY DEF NumberOfPageFrames, Last
  <2>6. QED BY <2>2, <2>3, <2>4, <2>5, <1>2, FirstFrameType
<1>4. \A d \in FreeSegments : bound - Pages(d) \in Gap
  BY <1>1, <1>2, <1>3, FrameCountType
<1>5. PICK g \in Gap : \A y \in Gap : g <= y
  <2>1. Gap # {}
    BY <1>1, <1>4
  <2> HIDE DEF Gap
  <2>2. Gap \subseteq Nat
    BY DEF Gap
  <2>3. QED BY <2>1, <2>2, LeastElement
<1>6. PICK e \in FreeSegments : Pages(e) + g = bound
  BY <1>5
<1>7. \A d \in FreeSegments : Pages(d) <= Pages(e)
  <2>1. SUFFICES ASSUME NEW d \in FreeSegments PROVE Pages(d) <= Pages(e)
    OBVIOUS
  <2>2. g <= bound - Pages(d)
    BY <1>4, <1>5
  <2>3. Pages(d) \in Nat /\ Pages(e) \in Nat /\ g \in Nat
    BY <1>1, <1>2, <1>5
  <2>4. Pages(e) + g = bound
    BY <1>6
  <2> HIDE DEF bound, Gap
  <2>5. bound \in Nat
    BY FrameCountType DEF bound
  <2>6. QED BY <2>2, <2>3, <2>4, <2>5
<1> DEFINE Ties == {d \in FreeSegments : Pages(d) = Pages(e)}
<1>8. PICK f \in Ties : \A y \in Ties : f <= y
  <2>1. Ties # {} /\ Ties \subseteq Nat
    BY <1>1, <1>2, <1>6
  <2> HIDE DEF Ties
  <2>2. QED BY <2>1, LeastElement
<1>9. IsLargestFreeSegment(f)
  <2>1. SUFFICES ASSUME NEW y \in FreeSegments
                 PROVE  Pages(y) < Pages(f) \/ (Pages(y) = Pages(f) /\ f <= y)
    BY <1>8 DEF IsLargestFreeSegment, Pages
  <2>2. CASE Pages(y) = Pages(e)
    BY <2>2, <1>8
  <2>3. CASE Pages(y) # Pages(e)
    BY <2>3, <1>1, <1>2, <1>7, <1>8
  <2>4. QED BY <2>2, <2>3
<1>10. f \in Entries
  BY <1>1, <1>8
<1>11. IsLargestFreeSegment(LargestFreeSegment) /\ LargestFreeSegment \in Entries
  <2> HIDE DEF Ties
  <2> QED BY <1>9, <1>10 DEF LargestFreeSegment
<1>12. LargestFreeMemSeg = MemoryDescriptors[LargestFreeSegment].physical_addr
  BY <1>1 DEF LargestFreeMemSeg
<1>13. \A d \in Entries : MemoryDescriptors[d].physical_addr = LargestFreeMemSeg
                            <=> d = LargestFreeSegment
  BY <1>11, <1>12, MemoryMapAssumption
<1>14. QED BY <1>11, <1>13 DEF IsLargestFreeSegment

(* The frames the array's loop visits are frames of the array. *)
LEMMA ArrayFramesExist ==
  ASSUME NEW k \in Nat, k < LockCount
  PROVE  FirstFrame[LargestFreeSegment] + k \in FrameIds
<1>1. FirstFrame[LargestFreeSegment] + LockCount <= NumberOfPageFrames
  BY MachineAssumption DEF LockCount
<1>2. LargestFreeSegment \in 1 .. Last
  BY LargestSegment, DescriptorTypes DEF Entries, Last
<1>3. FirstFrame[LargestFreeSegment] \in Nat
  BY <1>2, FirstFrameType
<1>4. QED BY <1>1, <1>3, ArrayFramesVisited, FrameCountType DEF FrameIds

-----------------------------------------------------------------------------
(* The inductive invariant. *)

(* The frames below this one have their address. *)
Mapped == IF pc = "boot" THEN 0
          ELSE IF pc \in {"region", "page"} THEN frame_id
          ELSE NumberOfPageFrames

(* The loop variables count what they should. *)
ControlInv ==
  /\ initialized <=> pc = "ready"
  /\ frames = IF pc = "boot" THEN 0 ELSE NumberOfPageFrames
  /\ pc = "region" => i \in 1 .. Last /\ frame_id = FirstFrame[i]
  /\ pc = "page" => i \in Entries /\ n <= Pages(i) /\ frame_id = FirstFrame[i] + n
  /\ pc = "lock" => n <= LockCount
  /\ pc # "ready" => held = {} /\ released = {}

AddressInv ==
  \A d \in Entries : \A k \in Nat :
    k < Pages(d) /\ FirstFrame[d] + k < Mapped =>
      frame_addr[FirstFrame[d] + k] = MemoryDescriptors[d].physical_addr + k

(* Once the loop has passed the largest free segment, array_frame_id is right. *)
ArrayInv ==
  \/ pc = "region" /\ LargestFreeSegment < i
  \/ pc = "page" /\ LargestFreeSegment <= i
  \/ pc \in {"lock", "ready"}
  => array_frame_id = FirstFrame[LargestFreeSegment]

Base == TypeOK /\ CountersMatch /\ ControlInv /\ AddressInv /\ ArrayInv

-----------------------------------------------------------------------------
(* What the four operations on a frame do. *)

(* A move takes a frame out of one set and puts it into another, or does nothing. *)
LEMMA MoveSets ==
  ASSUME NEW j \in Ids, NEW from \in FrameState, NEW to \in FrameState, from # to,
         state \in [Ids -> FrameState], frames' = frames,
         Move(j, from, to)
  PROVE  \/ /\ j \in InState(from)
            /\ InState(from)' = InState(from) \ {j}
            /\ InState(to)' = InState(to) \cup {j}
            /\ \A s \in FrameState \ {from, to} : InState(s)' = InState(s)
         \/ /\ j \notin InState(from)
            /\ UNCHANGED memory
            /\ \A s \in FrameState : InState(s)' = InState(s)
<1>1. Ids' = Ids
  BY DEF Ids
<1>2. CASE state[j] = from /\ state' = [state EXCEPT ![j] = to]
  BY <1>1, <1>2 DEF InState
<1>3. CASE state[j] # from /\ UNCHANGED memory
  BY <1>1, <1>3 DEF InState, memory
<1>4. QED
  BY <1>2, <1>3 DEF Move

LEMMA InStateFinite ==
  ASSUME frames \in Nat, NEW s
  PROVE  IsFiniteSet(InState(s)) /\ Cardinality(InState(s)) \in Nat
<1>1. IsFiniteSet(Ids)
  BY FS_Interval DEF Ids
<1>2. InState(s) \subseteq Ids
  BY DEF InState
<1>3. QED
  BY <1>1, <1>2, FS_Subset, FS_CardinalityType

(* A move keeps the types of the array and the counters, and the counters exact. *)
LEMMA MoveKeepsCounts ==
  ASSUME NEW j \in Ids, NEW from \in FrameState, NEW to \in FrameState, from # to,
         frames \in Nat, state \in [Ids -> FrameState], count \in [FrameState -> Nat],
         CountersMatch, frames' = frames,
         Move(j, from, to)
  PROVE  /\ state' \in [Ids -> FrameState]
         /\ count' \in [FrameState -> Nat]
         /\ CountersMatch'
<1>1. CASE /\ j \in InState(from)
           /\ InState(from)' = InState(from) \ {j}
           /\ InState(to)' = InState(to) \cup {j}
           /\ \A s \in FrameState \ {from, to} : InState(s)' = InState(s)
  <2>1. /\ state' = [state EXCEPT ![j] = to]
        /\ count' = [count EXCEPT ![from] = @ - 1, ![to] = @ + 1]
    <3>1. state[j] = from
      BY <1>1 DEF InState
    <3>2. QED BY <3>1 DEF Move
  <2>2. j \notin InState(to)
    BY <1>1 DEF InState
  <2>3. /\ Cardinality(InState(from) \ {j}) = Cardinality(InState(from)) - 1
        /\ Cardinality(InState(to) \cup {j}) = Cardinality(InState(to)) + 1
    BY <1>1, <2>2, InStateFinite, FS_RemoveElement, FS_AddElement
  <2>4. Cardinality(InState(from) \ {j}) \in Nat
    <3>1. IsFiniteSet(InState(from) \ {j})
      BY InStateFinite, FS_RemoveElement
    <3>2. QED BY <3>1, FS_CardinalityType
  <2>5. /\ count[from] = Cardinality(InState(from))
        /\ count[to] = Cardinality(InState(to))
    BY DEF CountersMatch
  <2>6. /\ count'[from] = Cardinality(InState(from)')
        /\ count'[to] = Cardinality(InState(to)')
        /\ \A s \in FrameState \ {from, to} : count'[s] = count[s]
    BY <1>1, <2>1, <2>3, <2>5
  <2>7. \A s \in FrameState \ {from, to} : count'[s] = Cardinality(InState(s)')
    BY <1>1, <2>6 DEF CountersMatch
  <2>8. CountersMatch'
    BY <2>6, <2>7 DEF CountersMatch
  <2>9. count[from] - 1 \in Nat
    BY <2>3, <2>4, <2>5
  <2>10. QED
    BY <2>1, <2>8, <2>9
<1>2. CASE UNCHANGED memory /\ \A s \in FrameState : InState(s)' = InState(s)
  BY <1>2 DEF memory, CountersMatch
<1>3. QED
  BY <1>1, <1>2, MoveSets

LEMMA FrameStates ==
  /\ {FREE_FRAME, LOCKED_FRAME, RESERVED_FRAME} = FrameState
  /\ FREE_FRAME # LOCKED_FRAME /\ FREE_FRAME # RESERVED_FRAME /\ LOCKED_FRAME # RESERVED_FRAME
BY DEF FrameState, FREE_FRAME, LOCKED_FRAME, RESERVED_FRAME

(* The frame the stack is looked up in. *)
LEMMA StackFrameFound ==
  ASSUME Base, pc = "region", i \notin Entries
  PROVE  /\ FrameIndexByPtr(Stack) \in Ids
         /\ frame_addr[FrameIndexByPtr(Stack)] = Stack
<1>1. i = Last /\ Last \in 1 .. Last
  BY DescriptorTypes DEF Base, ControlInv, Entries, Last
<1>2. Mapped = NumberOfPageFrames /\ frames = NumberOfPageFrames /\ Ids = FrameIds
  BY <1>1 DEF Base, ControlInv, Mapped, NumberOfPageFrames, Last, Ids, FrameIds
<1>3. PICK d \in Entries : Stack \in Covers(d)
  BY MachineAssumption
<1> DEFINE k == Stack - MemoryDescriptors[d].physical_addr
           T == {j \in Ids : frame_addr[j] = Stack}
<1>4. k \in Nat /\ k < Pages(d) /\ MemoryDescriptors[d].physical_addr + k = Stack
  BY <1>3, DescriptorTypes DEF Covers, Pages
<1>5. FirstFrame[d] + k \in FrameIds
  BY <1>4, PageIsFrame
<1>6. FirstFrame[d] + k < Mapped
  BY <1>2, <1>5, FrameCountType DEF FrameIds
<1>7. FirstFrame[d] + k \in T
  BY <1>2, <1>4, <1>5, <1>6 DEF Base, AddressInv
<1>8. PICK j \in T : \A y \in T : j <= y
  <2>1. T # {} /\ T \subseteq Nat
    BY <1>2, <1>7, FrameCountType DEF FrameIds
  <2> HIDE DEF T
  <2>2. QED BY <2>1, LeastElement
<1>9. \E c \in Ids : frame_addr[c] = Stack /\ \A y \in Ids : frame_addr[y] = Stack => c <= y
  BY <1>8
<1>10. QED
  BY <1>9 DEF FrameIndexByPtr

-----------------------------------------------------------------------------
(* The invariant is inductive: one lemma per kind of step. *)

LEMMA BaseInit == Init => Base
<1> SUFFICES ASSUME Init PROVE Base
  OBVIOUS
<1>1. Ids = {}
  BY DEF Init, Ids
<1>2. TypeOK
  BY <1>1, FrameStates DEF Init, TypeOK, NULL
<1>3. CountersMatch
  <2>1. \A s \in FrameState : InState(s) = {}
    BY <1>1 DEF InState
  <2>2. QED BY <2>1, FS_EmptySet DEF CountersMatch, Init
<1>4. ControlInv /\ ArrayInv
  BY DEF Init, ControlInv, ArrayInv
<1>5. AddressInv
  <2>1. Mapped = 0
    BY DEF Init, Mapped
  <2>2. \A d \in Entries : FirstFrame[d] \in Nat
    BY FirstFrameType, DescriptorTypes DEF Entries, Last
  <2>3. QED BY <2>1, <2>2 DEF AddressInv
<1>6. QED BY <1>2, <1>3, <1>4, <1>5 DEF Base

LEMMA BaseInitPhysicalMemory == Base /\ InitPhysicalMemory => Base'
<1> SUFFICES ASSUME Base, InitPhysicalMemory PROVE Base'
  OBVIOUS
<1>1. CASE UNCHANGED vars
  BY <1>1 DEF vars, memory, locals, history, Base, TypeOK, CountersMatch, ControlInv,
     AddressInv, ArrayInv, Ids, InState, Mapped
<1>2. CASE ~ UNCHANGED vars
  <2>1. /\ ~ initialized /\ pc = "boot" /\ held = {} /\ released = {}
        /\ frames' = NumberOfPageFrames
        /\ state' = [j \in FrameIds |-> FREE_FRAME]
        /\ frame_addr' = [j \in FrameIds |-> NULL]
        /\ count' = [s \in FrameState |-> IF s = FREE_FRAME THEN frames' ELSE 0]
        /\ i' = 1 /\ n' = 0 /\ frame_id' = 0 /\ array_frame_id' = 0
        /\ pc' = "region"
        /\ initialized' = initialized /\ held' = held /\ released' = released
    BY <1>2 DEF InitPhysicalMemory, Base, ControlInv, TypeOK, history
  <2>2. Ids' = FrameIds
    BY <2>1 DEF Ids, FrameIds
  <2>3. TypeOK'
    <3>1. state' \in [FrameIds -> FrameState] /\ frame_addr' \in [FrameIds -> Nat]
      BY <2>1, FrameStates DEF NULL
    <3>2. count' \in [FrameState -> Nat]
      BY <2>1, FrameCountType
    <3>3. initialized' \in BOOLEAN
      BY <2>1 DEF Base, TypeOK
    <3>4. QED BY <2>1, <2>2, <3>1, <3>2, <3>3, FrameCountType DEF TypeOK
  <2>4. CountersMatch'
    <3>1. InState(FREE_FRAME)' = FrameIds
      BY <2>1, <2>2 DEF InState
    <3>2. \A s \in FrameState : s # FREE_FRAME => InState(s)' = {}
      BY <2>1, <2>2 DEF InState
    <3>3. Cardinality(FrameIds) = NumberOfPageFrames
      BY FrameCountType, FS_Interval DEF FrameIds
    <3>4. \A s \in FrameState : count'[s] = Cardinality(InState(s)')
      BY <2>1, <3>1, <3>2, <3>3, FS_EmptySet
    <3>5. QED BY <3>4 DEF CountersMatch
  <2>5. ControlInv'
    BY <2>1, FirstFrameStep, DescriptorTypes DEF ControlInv, Last
  <2>6. AddressInv'
    <3>1. Mapped' = 0
      BY <2>1 DEF Mapped
    <3>2. \A d \in Entries : FirstFrame[d] \in Nat
      BY FirstFrameType, DescriptorTypes DEF Entries, Last
    <3>3. QED BY <3>1, <3>2 DEF AddressInv
  <2>7. ArrayInv'
    BY <2>1, LargestSegment DEF ArrayInv, Entries
  <2>8. QED BY <2>3, <2>4, <2>5, <2>6, <2>7 DEF Base
<1>3. QED BY <1>1, <1>2

LEMMA BaseEnterRegion == Base /\ EnterRegion => Base'
<1> SUFFICES ASSUME Base, EnterRegion PROVE Base'
  OBVIOUS
<1> USE DEF Base, EnterRegion, ArrayFrameId
<1>1. TypeOK'
  BY DEF TypeOK, memory, history, Ids
<1>2. CountersMatch'
  BY DEF CountersMatch, memory, InState, Ids
<1>3. ControlInv'
  <2>1. n' <= Pages(i) /\ frame_id' = FirstFrame[i] + n'
    BY DescriptorTypes, FirstFrameType DEF ControlInv
  <2>2. QED BY <2>1 DEF ControlInv, history
<1>4. AddressInv'
  <2>1. Mapped' = Mapped
    BY DEF Mapped
  <2>2. QED BY <2>1 DEF AddressInv
<1>5. ArrayInv'
  <2>1. CASE i = LargestFreeSegment
    BY <2>1, LargestSegment DEF ArrayInv, ControlInv
  <2>2. CASE i # LargestFreeSegment
    <3>1. array_frame_id' = array_frame_id
      BY <2>2, LargestSegment
    <3>2. LargestFreeSegment <= i => LargestFreeSegment < i
      BY <2>2, LargestSegment DEF Entries
    <3>3. QED BY <3>1, <3>2 DEF ArrayInv
  <2>3. QED BY <2>1, <2>2
<1>6. QED BY <1>1, <1>2, <1>3, <1>4, <1>5

LEMMA BaseMapPage == Base /\ MapPage => Base'
<1> SUFFICES ASSUME Base, MapPage PROVE Base'
  OBVIOUS
<1> USE DEF Base, MapPage
<1>1. /\ i \in Entries /\ n \in Nat /\ n < Pages(i) /\ frame_id = FirstFrame[i] + n
      /\ frames = NumberOfPageFrames
  BY DEF ControlInv, TypeOK, Pages
<1>2. frame_id \in Ids /\ Ids = FrameIds /\ Ids' = Ids
  BY <1>1, PageIsFrame DEF Ids, FrameIds
<1>3. /\ state' \in [Ids -> FrameState]
      /\ count' \in [FrameState -> Nat]
      /\ CountersMatch'
  <2>1. CASE UNCHANGED memory
    BY <2>1, <1>2 DEF TypeOK, CountersMatch, memory, InState
  <2>2. CASE ReserveFrame(frame_id)
    <3>1. Move(frame_id, FREE_FRAME, RESERVED_FRAME)
      BY <2>2 DEF ReserveFrame
    <3>2. frames' = frames /\ frames \in Nat /\ state \in [Ids -> FrameState] /\ count \in [FrameState -> Nat]
      BY DEF TypeOK
    <3>3. QED BY <1>2, <3>1, <3>2, FrameStates, MoveKeepsCounts
  <2>3. QED BY <2>1, <2>2
<1>4. TypeOK'
  <2>1. frame_addr' \in [Ids -> Nat]
    BY <1>1, <1>2, DescriptorTypes DEF TypeOK
  <2>2. frame_id' \in Nat /\ n' \in Nat
    BY DEF TypeOK
  <2>3. QED BY <1>2, <1>3, <2>1, <2>2 DEF TypeOK, history
<1>5. ControlInv'
  <2>1. Pages(i) \in Nat /\ FirstFrame[i] \in Nat
    BY <1>1, DescriptorTypes, FirstFrameType DEF Entries, Last
  <2>2. n' <= Pages(i) /\ frame_id' = FirstFrame[i] + n'
    BY <1>1, <2>1
  <2>3. QED BY <1>1, <2>2 DEF ControlInv, history
<1>6. AddressInv'
  <2>1. SUFFICES ASSUME NEW d \in Entries, NEW k \in Nat, k < Pages(d),
                        FirstFrame[d] + k < Mapped'
                 PROVE  frame_addr'[FirstFrame[d] + k] = MemoryDescriptors[d].physical_addr + k
    BY DEF AddressInv
  <2>2. Mapped = frame_id /\ Mapped' = frame_id + 1
    BY DEF Mapped
  <2>3. FirstFrame[d] + k \in Ids
    BY <1>2, <2>1, PageIsFrame
  <2>4. CASE FirstFrame[d] + k = frame_id
    <3>1. d = i /\ k = n
      BY <1>1, <2>1, <2>4, PageIsUnique
    <3>2. QED BY <2>4, <3>1, <1>2 DEF TypeOK
  <2>5. CASE FirstFrame[d] + k # frame_id
    <3>1. FirstFrame[d] + k < Mapped
      <4>1. FirstFrame[d] + k \in Nat /\ frame_id \in Nat
        BY <2>3, <1>2, FrameCountType DEF FrameIds
      <4>2. QED BY <2>1, <2>2, <2>5, <4>1
    <3>2. QED BY <2>1, <2>5, <3>1, <2>3 DEF AddressInv, TypeOK
  <2>6. QED BY <2>4, <2>5
<1>7. ArrayInv'
  BY DEF ArrayInv
<1>8. QED BY <1>3, <1>4, <1>5, <1>6, <1>7

LEMMA BaseLeaveRegion == Base /\ LeaveRegion => Base'
<1> SUFFICES ASSUME Base, LeaveRegion PROVE Base'
  OBVIOUS
<1> USE DEF Base, LeaveRegion
<1>1. i \in Entries /\ n = Pages(i) /\ frame_id = FirstFrame[i] + Pages(i)
  BY DEF ControlInv, Pages
<1>2. TypeOK'
  BY DEF TypeOK, memory, history, Ids
<1>3. CountersMatch'
  BY DEF CountersMatch, memory, InState, Ids
<1>4. ControlInv'
  <2>1. i' \in 1 .. Last /\ frame_id' = FirstFrame[i']
    BY <1>1, FirstFrameStep, DescriptorTypes DEF Entries, Last
  <2>2. QED BY <2>1 DEF ControlInv, history
<1>5. AddressInv'
  <2>1. Mapped' = Mapped
    BY DEF Mapped
  <2>2. QED BY <2>1 DEF AddressInv
<1>6. ArrayInv'
  BY <1>1, LargestSegment DEF ArrayInv, Entries
<1>7. QED BY <1>2, <1>3, <1>4, <1>5, <1>6

LEMMA BaseReserveStackFrame == Base /\ ReserveStackFrame => Base'
<1> SUFFICES ASSUME Base, ReserveStackFrame PROVE Base'
  OBVIOUS
<1> USE DEF Base, ReserveStackFrame
<1>1. i = Last /\ Last \in 1 .. Last /\ frame_id = NumberOfPageFrames
  BY DescriptorTypes DEF ControlInv, Entries, Last, NumberOfPageFrames
<1>2. /\ state' \in [Ids -> FrameState]
      /\ count' \in [FrameState -> Nat]
      /\ CountersMatch'
  <2>1. FrameIndexByPtr(Stack) \in Ids
    BY StackFrameFound
  <2>2. Move(FrameIndexByPtr(Stack), FREE_FRAME, RESERVED_FRAME)
    BY DEF ReserveFrame
  <2>3. frames' = frames /\ frames \in Nat /\ state \in [Ids -> FrameState] /\ count \in [FrameState -> Nat]
    BY DEF TypeOK
  <2> HIDE DEF ReserveStackFrame
  <2>4. QED BY <2>1, <2>2, <2>3, FrameStates, MoveKeepsCounts
<1>3. TypeOK'
  BY <1>2 DEF TypeOK, history, Ids
<1>4. ControlInv'
  BY ArrayFramesVisited DEF ControlInv, history
<1>5. AddressInv'
  <2>1. Mapped' = Mapped
    BY <1>1 DEF Mapped
  <2>2. QED BY <2>1 DEF AddressInv
<1>6. ArrayInv'
  BY <1>1, LargestSegment DEF ArrayInv, Entries, Last
<1>7. QED BY <1>2, <1>3, <1>4, <1>5, <1>6

(* The frame the loop for the array is about to lock. *)
LEMMA NextArrayFrame ==
  ASSUME Base, pc = "lock", n < LockCount
  PROVE  /\ array_frame_id = FirstFrame[LargestFreeSegment]
         /\ array_frame_id + n \in Ids
<1>1. array_frame_id = FirstFrame[LargestFreeSegment] /\ n \in Nat
  BY DEF Base, ArrayInv, TypeOK
<1>2. Ids = FrameIds
  BY DEF Base, ControlInv, Ids, FrameIds
<1>3. QED
  BY <1>1, <1>2, ArrayFramesExist

LEMMA LockLoopBound ==
  ASSUME Base, pc # "boot"
  PROVE  FramesArraySz \div FRAME_SZ = LockCount
BY DEF Base, ControlInv, FramesArraySz, LockCount

LEMMA BaseLockArrayFrame == Base /\ LockArrayFrame => Base'
<1> SUFFICES ASSUME Base, LockArrayFrame PROVE Base'
  OBVIOUS
<1> USE DEF Base, LockArrayFrame
<1>1. n < LockCount /\ n \in Nat
  BY LockLoopBound DEF TypeOK
<1>2. /\ state' \in [Ids -> FrameState]
      /\ count' \in [FrameState -> Nat]
      /\ CountersMatch'
  <2>1. array_frame_id + n \in Ids
    BY <1>1, NextArrayFrame
  <2>2. Move(array_frame_id + n, FREE_FRAME, LOCKED_FRAME)
    BY DEF LockFrame
  <2>3. frames' = frames /\ frames \in Nat /\ state \in [Ids -> FrameState] /\ count \in [FrameState -> Nat]
    BY DEF TypeOK
  <2> HIDE DEF LockArrayFrame
  <2>4. QED BY <2>1, <2>2, <2>3, FrameStates, MoveKeepsCounts
<1>3. TypeOK'
  <2>1. /\ n' = n + 1
        /\ UNCHANGED <<frame_addr, frames, initialized, pc, i, frame_id, array_frame_id,
                       held, released>>
    BY DEF history
  <2>2. TypeOK
    OBVIOUS
  <2>3. Ids' = Ids
    BY <2>1 DEF Ids
  <2> HIDE DEF Base, LockArrayFrame
  <2>4. QED BY <1>1, <1>2, <2>1, <2>2, <2>3 DEF TypeOK
<1>4. ControlInv'
  BY <1>1, ArrayFramesVisited DEF ControlInv, history
<1>5. AddressInv'
  <2>1. Mapped' = Mapped
    BY DEF Mapped
  <2>2. QED BY <2>1 DEF AddressInv
<1>6. ArrayInv'
  BY DEF ArrayInv
<1>7. QED BY <1>2, <1>3, <1>4, <1>5, <1>6

LEMMA BaseFinishInit == Base /\ FinishInit => Base'
<1> SUFFICES ASSUME Base, FinishInit PROVE Base'
  OBVIOUS
<1> USE DEF Base, FinishInit
<1>1. TypeOK'
  <2>1. initialized' \in BOOLEAN
    OBVIOUS
  <2>2. QED BY <2>1 DEF TypeOK, memory, locals, history, Ids
<1>2. CountersMatch'
  BY DEF CountersMatch, memory, InState, Ids
<1>3. ControlInv'
  BY DEF ControlInv
<1>4. AddressInv'
  <2>1. Mapped' = Mapped
    BY DEF Mapped
  <2>2. QED BY <2>1 DEF AddressInv
<1>5. ArrayInv'
  BY DEF ArrayInv, locals
<1>6. QED BY <1>1, <1>2, <1>3, <1>4, <1>5

(* A step of a client changes only the states, the counters and the history. *)
LEMMA BaseReady ==
  ASSUME Base, Ready,
         state' \in [Ids -> FrameState], count' \in [FrameState -> Nat], CountersMatch',
         held' \subseteq Ids, released' \subseteq Ids
  PROVE  Base'
<1> USE DEF Base, Ready
<1>1. TypeOK'
  BY DEF TypeOK, locals, Ids
<1>2. ControlInv'
  BY DEF ControlInv
<1>3. AddressInv'
  <2>1. Mapped' = Mapped
    BY DEF Mapped
  <2>2. QED BY <2>1 DEF AddressInv
<1>4. ArrayInv'
  BY DEF ArrayInv, locals
<1>5. QED BY <1>1, <1>2, <1>3, <1>4

LEMMA BaseOperate == Base /\ Operate => Base'
<1> SUFFICES ASSUME Base, Operate PROVE Base'
  OBVIOUS
<1>1. /\ frames \in Nat /\ state \in [Ids -> FrameState] /\ count \in [FrameState -> Nat]
      /\ CountersMatch /\ held \subseteq Ids /\ released \subseteq Ids
  BY DEF Base, TypeOK
<1>2. ASSUME NEW j \in Ids, CallLockFrame(j) PROVE Base'
  BY <1>1, <1>2, FrameStates, MoveKeepsCounts, BaseReady DEF CallLockFrame, LockFrame, Ready, history
<1>3. ASSUME NEW j \in Ids, CallFreeFrame(j) PROVE Base'
  BY <1>1, <1>3, FrameStates, MoveKeepsCounts, BaseReady DEF CallFreeFrame, FreeFrame, Ready
<1>4. ASSUME NEW j \in Ids, CallReserveFrame(j) PROVE Base'
  BY <1>1, <1>4, FrameStates, MoveKeepsCounts, BaseReady DEF CallReserveFrame, ReserveFrame, Ready, history
<1>5. ASSUME NEW j \in Ids, CallUnreserveFrame(j) PROVE Base'
  BY <1>1, <1>5, FrameStates, MoveKeepsCounts, BaseReady DEF CallUnreserveFrame, UnreserveFrame, Ready
<1>6. ASSUME PmemRequestFrame PROVE Base'
  <2>1. CASE Requested = {} /\ UNCHANGED <<memory, history>>
    <3>1. CountersMatch'
      BY <2>1, <1>6, <1>1 DEF PmemRequestFrame, Ready, memory, CountersMatch, InState, Ids
    <3>2. QED BY <3>1, <2>1, <1>6, <1>1, BaseReady DEF PmemRequestFrame, memory, history
  <2>2. ASSUME NEW j \in Requested, LockFrame(j), held' = held \cup {j}, UNCHANGED released
        PROVE  Base'
    <3>1. j \in Ids
      BY <2>2 DEF Requested, InState
    <3>2. QED
      BY <1>1, <1>6, <2>2, <3>1, FrameStates, MoveKeepsCounts, BaseReady
         DEF PmemRequestFrame, LockFrame, Ready
  <2>3. QED BY <1>6, <2>1, <2>2 DEF PmemRequestFrame
<1>7. QED BY <1>2, <1>3, <1>4, <1>5, <1>6 DEF Operate

LEMMA BaseStutter == Base /\ UNCHANGED vars => Base'
BY DEF vars, memory, locals, history, Base, TypeOK, CountersMatch, ControlInv,
       AddressInv, ArrayInv, Ids, InState, Mapped

LEMMA BaseNext == Base /\ [Next]_vars => Base'
BY BaseInitPhysicalMemory, BaseEnterRegion, BaseMapPage, BaseLeaveRegion,
   BaseReserveStackFrame, BaseLockArrayFrame, BaseFinishInit, BaseOperate, BaseStutter
   DEF Next, Initialize

LEMMA BaseInvariant == Spec => []Base
BY BaseInit, BaseNext, PTL DEF Spec

(***************************************************************************)
(* The fields of physical_memory and the locals of PhysicalMemory__init    *)
(* keep their types; no counter becomes negative.                          *)
(***************************************************************************)
THEOREM TypeCorrect == Spec => []TypeOK
<1>1. Base => TypeOK
  BY DEF Base
<1>2. QED
  BY <1>1, BaseInvariant, PTL

(***************************************************************************)
(* The counters are the numbers of frames in each state, at every step of  *)
(* initialisation and after every call.                                    *)
(***************************************************************************)
THEOREM CountersCorrect == Spec => []CountersMatch
<1>1. Base => CountersMatch
  BY DEF Base
<1>2. QED
  BY <1>1, BaseInvariant, PTL

-----------------------------------------------------------------------------
(* What is granted: the frames initialisation has secured are not free unless *)
(* a caller gave them up, and only a free frame is granted.                   *)

ArrayDone == IF pc = "lock" THEN n ELSE IF pc = "ready" THEN LockCount ELSE 0

Secured ==
  {j \in FirmwareFrames : j < Mapped}
    \cup (IF pc \in {"lock", "ready"} THEN StackFrames ELSE {})
    \cup {FirstFrame[LargestFreeSegment] + k : k \in 0 .. ArrayDone - 1}

SecuredKept == Secured \cap InState(FREE_FRAME) \subseteq released

Safe == SecuredKept /\ HeldFramesLocked /\ NoProtectedFrameGranted

LEMMA FirmwareFrameIsPage ==
  ASSUME NEW j \in FirmwareFrames
  PROVE  /\ j \in FrameIds
         /\ \E d \in Entries : \E k \in Nat : /\ ~ KernelMayUse(MemoryDescriptors[d].type)
                                              /\ k < Pages(d)
                                              /\ j = FirstFrame[d] + k
<1>1. PICK d \in Entries : ~ KernelMayUse(MemoryDescriptors[d].type) /\ j \in FramesOf(d)
  BY DEF FirmwareFrames
<1>2. FirstFrame[d] \in Nat /\ Pages(d) \in Nat /\ FirstFrame[d+1] = FirstFrame[d] + Pages(d)
  BY FirstFrameStep, FirstFrameType, DescriptorTypes DEF Entries, Last
<1> DEFINE k == j - FirstFrame[d]
<1>3. k \in Nat /\ k < Pages(d) /\ j = FirstFrame[d] + k
  BY <1>1, <1>2 DEF FramesOf
<1>4. QED
  BY <1>1, <1>3, PageIsFrame

(* The stack's frame is the one that is looked up, and there is no other. *)
LEMMA StackFrameUnique ==
  ASSUME Base, pc = "region", i \notin Entries, NEW j \in StackFrames
  PROVE  j = FrameIndexByPtr(Stack)
<1> DEFINE c == FrameIndexByPtr(Stack)
<1>1. c \in FrameIds /\ frame_addr[c] = Stack /\ Mapped = NumberOfPageFrames
  <2>1. i = Last /\ Last \in 1 .. Last
    BY DescriptorTypes DEF Base, ControlInv, Entries, Last
  <2>2. Mapped = NumberOfPageFrames /\ Ids = FrameIds
    BY <2>1 DEF Base, ControlInv, Mapped, NumberOfPageFrames, Last, Ids, FrameIds
  <2>3. QED BY <2>2, StackFrameFound
<1> HIDE DEF c
<1>2. PICK e \in Entries : \E m \in Nat : m < Pages(e) /\ c = FirstFrame[e] + m
  BY <1>1, FrameIsPage
<1>3. PICK m \in Nat : m < Pages(e) /\ c = FirstFrame[e] + m
  BY <1>2
<1>4. MemoryDescriptors[e].physical_addr + m = Stack
  <2>1. c < Mapped
    BY <1>1, FrameCountType DEF FrameIds
  <2>2. QED BY <1>1, <1>3, <2>1 DEF Base, AddressInv
<1>5. PICK d \in Entries : /\ j \in FramesOf(d)
                           /\ MemoryDescriptors[d].physical_addr + (j - FirstFrame[d]) = Stack
  BY DEF StackFrames
<1>6. FirstFrame[d] \in Nat /\ Pages(d) \in Nat /\ FirstFrame[d+1] = FirstFrame[d] + Pages(d)
  BY FirstFrameStep, FirstFrameType, DescriptorTypes DEF Entries, Last
<1> DEFINE k == j - FirstFrame[d]
<1>7. k \in Nat /\ k < Pages(d) /\ j = FirstFrame[d] + k
  BY <1>5, <1>6 DEF FramesOf
<1>8. Stack \in Covers(d) /\ Stack \in Covers(e)
  <2> HIDE DEF k
  <2>1. MemoryDescriptors[d].physical_addr + k = Stack
    BY <1>5 DEF k
  <2>2. \A x \in Entries : \A y \in Nat :
          y < Pages(x) => MemoryDescriptors[x].physical_addr + y \in Covers(x)
    BY DescriptorTypes DEF Covers, Pages
  <2>3. QED BY <1>3, <1>4, <1>7, <2>1, <2>2
<1>9. d = e
  BY <1>8, MemoryMapAssumption
<1>10. MemoryDescriptors[d].physical_addr + k = MemoryDescriptors[d].physical_addr + m
  BY <1>4, <1>5, <1>9
<1>11. k = m
  <2> HIDE DEF k
  <2>1. MemoryDescriptors[d].physical_addr \in Nat
    BY DescriptorTypes
  <2>2. QED BY <1>3, <1>7, <1>10, <2>1
<1>12. QED
  BY <1>3, <1>7, <1>9, <1>11 DEF c

(* After initialisation every protected frame is secured. *)
LEMMA ProtectedIsSecured ==
  ASSUME pc = "ready" \/ (pc = "lock" /\ n = LockCount)
  PROVE  ProtectedFrames \subseteq Secured
<1>1. FirmwareFrames \subseteq Secured
  BY FirmwareFrameIsPage, FrameCountType DEF Secured, Mapped, FrameIds
<1>2. StackFrames \subseteq Secured
  BY DEF Secured
<1>3. ArrayFrames \subseteq Secured
  <2>1. SUFFICES ASSUME NEW j \in ArrayFrames PROVE j \in Secured
    OBVIOUS
  <2>2. FirstFrame[LargestFreeSegment] \in Nat
    BY LargestSegment, FirstFrameType, DescriptorTypes DEF Entries, Last
  <2> DEFINE k == j - FirstFrame[LargestFreeSegment]
  <2>3. k \in 0 .. LockCount - 1 /\ j = FirstFrame[LargestFreeSegment] + k
    BY <2>2, ArrayFramesVisited DEF ArrayFrames
  <2>4. QED
    BY <2>3 DEF Secured, ArrayDone
<1>4. QED
  BY <1>1, <1>2, <1>3 DEF ProtectedFrames

(* Locking or reserving a frame. *)
LEMMA TakeFrame ==
  ASSUME NEW j \in Ids, NEW to \in {LOCKED_FRAME, RESERVED_FRAME},
         state \in [Ids -> FrameState], frames' = frames,
         Move(j, FREE_FRAME, to)
  PROVE  /\ InState(FREE_FRAME)' = InState(FREE_FRAME) \ {j}
         /\ InState(LOCKED_FRAME) \subseteq InState(LOCKED_FRAME)'
<1>1. to \in FrameState /\ FREE_FRAME \in FrameState /\ LOCKED_FRAME \in FrameState /\ to # FREE_FRAME
  BY FrameStates
<1>2. \/ /\ InState(FREE_FRAME)' = InState(FREE_FRAME) \ {j}
         /\ InState(to)' = InState(to) \cup {j}
         /\ \A s \in FrameState \ {FREE_FRAME, to} : InState(s)' = InState(s)
      \/ /\ j \notin InState(FREE_FRAME)
         /\ \A s \in FrameState : InState(s)' = InState(s)
  BY <1>1, MoveSets
<1>3. QED
  BY <1>1, <1>2, FrameStates

(* Freeing or unreserving a frame. *)
LEMMA GiveFrame ==
  ASSUME NEW j \in Ids, NEW from \in {LOCKED_FRAME, RESERVED_FRAME},
         state \in [Ids -> FrameState], frames' = frames,
         Move(j, from, FREE_FRAME)
  PROVE  /\ InState(FREE_FRAME)' = InState(FREE_FRAME) \cup ({j} \cap InState(from))
         /\ InState(from)' = InState(from) \ {j}
         /\ \A s \in {LOCKED_FRAME, RESERVED_FRAME} \ {from} : InState(s)' = InState(s)
<1>1. from \in FrameState /\ FREE_FRAME \in FrameState /\ from # FREE_FRAME
      /\ {LOCKED_FRAME, RESERVED_FRAME} \subseteq FrameState \ {FREE_FRAME}
  BY FrameStates
<1>2. \/ /\ j \in InState(from)
         /\ InState(from)' = InState(from) \ {j}
         /\ InState(FREE_FRAME)' = InState(FREE_FRAME) \cup {j}
         /\ \A s \in FrameState \ {from, FREE_FRAME} : InState(s)' = InState(s)
      \/ /\ j \notin InState(from)
         /\ \A s \in FrameState : InState(s)' = InState(s)
  BY <1>1, MoveSets
<1>3. QED
  BY <1>1, <1>2

LEMMA SafeInit == Init => Safe
<1> SUFFICES ASSUME Init PROVE Safe
  OBVIOUS
<1>1. InState(FREE_FRAME) = {} /\ held = {}
  BY DEF Init, InState, Ids
<1>2. QED
  BY <1>1 DEF Safe, SecuredKept, HeldFramesLocked, NoProtectedFrameGranted

LEMMA SafeInitPhysicalMemory == Base /\ Safe /\ InitPhysicalMemory => Safe'
<1> SUFFICES ASSUME Base, Safe, InitPhysicalMemory PROVE Safe'
  OBVIOUS
<1>1. CASE UNCHANGED vars
  BY <1>1 DEF vars, memory, locals, history, Safe, SecuredKept, HeldFramesLocked,
     NoProtectedFrameGranted, Secured, Mapped, ArrayDone, InState, Ids
<1>2. CASE ~ UNCHANGED vars
  <2>1. pc' = "region" /\ frame_id' = 0 /\ held' = held /\ held = {}
    BY <1>2 DEF InitPhysicalMemory, Base, ControlInv, TypeOK, history
  <2>2. Mapped' = 0 /\ ArrayDone' = 0
    BY <2>1 DEF Mapped, ArrayDone
  <2>3. Secured' = {}
    BY <2>1, <2>2, FirmwareFrameIsPage, FrameCountType DEF Secured, FrameIds
  <2>4. QED BY <2>1, <2>3 DEF Safe, SecuredKept, HeldFramesLocked, NoProtectedFrameGranted
<1>3. QED BY <1>1, <1>2

LEMMA SafeEnterRegion == Base /\ Safe /\ EnterRegion => Safe'
<1> SUFFICES ASSUME Base, Safe, EnterRegion PROVE Safe'
  OBVIOUS
<1>1. Secured' = Secured
  BY DEF EnterRegion, Secured, Mapped, ArrayDone
<1>2. InState(FREE_FRAME)' = InState(FREE_FRAME) /\ InState(LOCKED_FRAME)' = InState(LOCKED_FRAME)
  BY DEF EnterRegion, memory, InState, Ids
<1>3. QED
  BY <1>1, <1>2 DEF EnterRegion, history, Safe, SecuredKept, HeldFramesLocked, NoProtectedFrameGranted

LEMMA SafeMapPage == Base /\ Safe /\ MapPage => Safe'
<1> SUFFICES ASSUME Base, Safe, MapPage PROVE Safe'
  OBVIOUS
<1>1. /\ i \in Entries /\ n \in Nat /\ n < Pages(i) /\ frame_id = FirstFrame[i] + n
      /\ frames = NumberOfPageFrames /\ state \in [Ids -> FrameState]
      /\ held = {} /\ held' = {} /\ released' = released
  BY DEF MapPage, Base, ControlInv, TypeOK, Pages, history
<1>2. frame_id \in Ids /\ Ids = FrameIds /\ Ids' = Ids
  BY <1>1, PageIsFrame DEF MapPage, Ids, FrameIds
<1>3. InState(FREE_FRAME)' \subseteq InState(FREE_FRAME)
  <2>1. CASE UNCHANGED memory
    BY <2>1, <1>2 DEF memory, InState
  <2>2. CASE ReserveFrame(frame_id)
    BY <1>1, <1>2, <2>2, TakeFrame DEF ReserveFrame, MapPage
  <2>3. QED BY <2>1, <2>2 DEF MapPage
<1>4. \A j \in Secured' : j \in Secured \/ j \notin InState(FREE_FRAME)'
  <2>1. SUFFICES ASSUME NEW j \in Secured', j \notin Secured
                 PROVE  j \notin InState(FREE_FRAME)'
    OBVIOUS
  <2>2. /\ Mapped = frame_id /\ Mapped' = frame_id + 1
        /\ ArrayDone = 0 /\ ArrayDone' = 0
        /\ pc = "page" /\ pc' = "page"
    BY DEF MapPage, Mapped, ArrayDone
  <2>3. j \in FirmwareFrames /\ j < frame_id + 1 /\ ~ (j < frame_id)
    BY <2>1, <2>2 DEF Secured
  <2>4. j \in FrameIds
    BY <2>3, FirmwareFrameIsPage
  <2>5. j = frame_id
    BY <2>3, <2>4, <1>2, FrameCountType DEF FrameIds
  <2>6. PICK d \in Entries : \E k \in Nat : /\ ~ KernelMayUse(MemoryDescriptors[d].type)
                                            /\ k < Pages(d)
                                            /\ j = FirstFrame[d] + k
    BY <2>3, FirmwareFrameIsPage
  <2>7. d = i
    BY <1>1, <2>5, <2>6, PageIsUnique
  <2>8. ReserveFrame(frame_id)
    BY <2>6, <2>7 DEF MapPage
  <2>9. QED
    BY <1>1, <1>2, <2>5, <2>8, TakeFrame DEF ReserveFrame, MapPage
<1>5. SecuredKept'
  BY <1>1, <1>3, <1>4 DEF Safe, SecuredKept
<1>6. QED
  BY <1>1, <1>5 DEF Safe, HeldFramesLocked, NoProtectedFrameGranted

LEMMA SafeLeaveRegion == Base /\ Safe /\ LeaveRegion => Safe'
<1> SUFFICES ASSUME Base, Safe, LeaveRegion PROVE Safe'
  OBVIOUS
<1>1. Secured' = Secured
  BY DEF LeaveRegion, Secured, Mapped, ArrayDone
<1>2. InState(FREE_FRAME)' = InState(FREE_FRAME) /\ InState(LOCKED_FRAME)' = InState(LOCKED_FRAME)
  BY DEF LeaveRegion, memory, InState, Ids
<1>3. QED
  BY <1>1, <1>2 DEF LeaveRegion, history, Safe, SecuredKept, HeldFramesLocked, NoProtectedFrameGranted

LEMMA SafeReserveStackFrame == Base /\ Safe /\ ReserveStackFrame => Safe'
<1> SUFFICES ASSUME Base, Safe, ReserveStackFrame PROVE Safe'
  OBVIOUS
<1>1. /\ pc = "region" /\ pc' = "lock" /\ i \notin Entries /\ n' = 0
      /\ held = {} /\ held' = {} /\ released' = released /\ frames' = frames
      /\ state \in [Ids -> FrameState]
  BY DEF ReserveStackFrame, Base, ControlInv, TypeOK, history
<1>2. Mapped = NumberOfPageFrames /\ Mapped' = NumberOfPageFrames
  BY <1>1, DescriptorTypes DEF Base, ControlInv, Entries, Last, Mapped, NumberOfPageFrames
<1>3. FrameIndexByPtr(Stack) \in Ids
  BY <1>1, StackFrameFound
<1>4. InState(FREE_FRAME)' = InState(FREE_FRAME) \ {FrameIndexByPtr(Stack)}
  <2>1. Move(FrameIndexByPtr(Stack), FREE_FRAME, RESERVED_FRAME)
    BY DEF ReserveStackFrame, ReserveFrame
  <2>2. QED BY <1>1, <1>3, <2>1, TakeFrame
<1>5. ArrayDone = 0 /\ ArrayDone' = 0
  BY <1>1 DEF ArrayDone
<1>6. Secured' = Secured \cup StackFrames
  BY <1>1, <1>2, <1>5 DEF Secured
<1>7. StackFrames \subseteq {FrameIndexByPtr(Stack)}
  BY <1>1, StackFrameUnique
<1>8. SecuredKept'
  BY <1>1, <1>4, <1>6, <1>7 DEF Safe, SecuredKept
<1>9. QED
  BY <1>1, <1>8 DEF Safe, HeldFramesLocked, NoProtectedFrameGranted

LEMMA SafeLockArrayFrame == Base /\ Safe /\ LockArrayFrame => Safe'
<1> SUFFICES ASSUME Base, Safe, LockArrayFrame PROVE Safe'
  OBVIOUS
<1>1. /\ pc = "lock" /\ pc' = "lock" /\ n \in Nat /\ n' = n + 1 /\ n < LockCount
      /\ held = {} /\ held' = {} /\ released' = released /\ frames' = frames
      /\ state \in [Ids -> FrameState]
  BY LockLoopBound DEF LockArrayFrame, Base, ControlInv, TypeOK, history
<1>2. array_frame_id + n \in Ids /\ array_frame_id = FirstFrame[LargestFreeSegment]
  BY <1>1, NextArrayFrame
<1>3. InState(FREE_FRAME)' = InState(FREE_FRAME) \ {array_frame_id + n}
  <2>1. Move(array_frame_id + n, FREE_FRAME, LOCKED_FRAME)
    BY DEF LockArrayFrame, LockFrame
  <2>2. QED BY <1>1, <1>2, <2>1, TakeFrame
<1>4. Secured' \subseteq Secured \cup {array_frame_id + n}
  <2>1. Mapped' = Mapped
    BY <1>1 DEF Mapped
  <2>2. ArrayDone = n /\ ArrayDone' = n + 1
    BY <1>1 DEF ArrayDone
  <2>3. 0 .. (n + 1) - 1 = (0 .. n - 1) \cup {n}
    BY <1>1
  <2>4. QED BY <1>1, <1>2, <2>1, <2>2, <2>3 DEF Secured
<1>5. SecuredKept'
  BY <1>1, <1>3, <1>4 DEF Safe, SecuredKept
<1>6. QED
  BY <1>1, <1>5 DEF Safe, HeldFramesLocked, NoProtectedFrameGranted

LEMMA SafeFinishInit == Base /\ Safe /\ FinishInit => Safe'
<1> SUFFICES ASSUME Base, Safe, FinishInit PROVE Safe'
  OBVIOUS
<1>1. n = LockCount /\ pc = "lock" /\ pc' = "ready"
  BY LockLoopBound DEF FinishInit
<1>2. Mapped' = Mapped /\ ArrayDone' = ArrayDone
  BY <1>1 DEF Mapped, ArrayDone
<1>3. Secured' = Secured
  BY <1>1, <1>2 DEF Secured
<1>4. InState(FREE_FRAME)' = InState(FREE_FRAME) /\ InState(LOCKED_FRAME)' = InState(LOCKED_FRAME)
  BY DEF FinishInit, memory, InState, Ids
<1>5. QED
  BY <1>3, <1>4 DEF FinishInit, history, Safe, SecuredKept, HeldFramesLocked, NoProtectedFrameGranted

(* The secured frames stay the same after initialisation. *)
LEMMA SecuredConstant == Ready => Secured' = Secured
BY DEF Ready, Secured, Mapped, ArrayDone

LEMMA SafeOperate == Base /\ Safe /\ Operate => Safe'
<1> SUFFICES ASSUME Base, Safe, Operate PROVE Safe'
  OBVIOUS
<1> USE DEF Safe
<1>1. /\ frames \in Nat /\ state \in [Ids -> FrameState]
      /\ held \subseteq Ids /\ released \subseteq Ids
  BY DEF Base, TypeOK
<1>2. LOCKED_FRAME # FREE_FRAME /\ LOCKED_FRAME # RESERVED_FRAME
  BY FrameStates
<1>3. ASSUME NEW j \in Ids, CallLockFrame(j) \/ CallReserveFrame(j) PROVE Safe'
  <2>1. Ready /\ UNCHANGED history /\ frames' = frames
    BY <1>3 DEF CallLockFrame, CallReserveFrame, Ready
  <2>2. /\ InState(FREE_FRAME)' = InState(FREE_FRAME) \ {j}
        /\ InState(LOCKED_FRAME) \subseteq InState(LOCKED_FRAME)'
    BY <1>1, <1>3, <2>1, TakeFrame DEF CallLockFrame, CallReserveFrame, LockFrame, ReserveFrame
  <2>3. QED
    BY <2>1, <2>2, SecuredConstant
       DEF history, SecuredKept, HeldFramesLocked, NoProtectedFrameGranted
<1>4. ASSUME NEW j \in Ids, CallFreeFrame(j) PROVE Safe'
  <2>1. /\ Ready /\ frames' = frames /\ held' = held \ {j}
        /\ released' = released \cup ({j} \cap InState(LOCKED_FRAME))
    BY <1>4 DEF CallFreeFrame, Ready
  <2>2. /\ InState(FREE_FRAME)' = InState(FREE_FRAME) \cup ({j} \cap InState(LOCKED_FRAME))
        /\ InState(LOCKED_FRAME)' = InState(LOCKED_FRAME) \ {j}
    BY <1>1, <1>4, <2>1, GiveFrame DEF CallFreeFrame, FreeFrame
  <2>3. SecuredKept'
    BY <2>1, <2>2, SecuredConstant DEF SecuredKept
  <2>4. QED
    BY <2>1, <2>2, <2>3 DEF HeldFramesLocked, NoProtectedFrameGranted
<1>5. ASSUME NEW j \in Ids, CallUnreserveFrame(j) PROVE Safe'
  <2>1. /\ Ready /\ frames' = frames /\ held' = held
        /\ released' = released \cup ({j} \cap InState(RESERVED_FRAME))
    BY <1>5 DEF CallUnreserveFrame, Ready
  <2>2. /\ InState(FREE_FRAME)' = InState(FREE_FRAME) \cup ({j} \cap InState(RESERVED_FRAME))
        /\ InState(LOCKED_FRAME)' = InState(LOCKED_FRAME)
    BY <1>1, <1>2, <1>5, <2>1, GiveFrame DEF CallUnreserveFrame, UnreserveFrame
  <2>3. SecuredKept'
    BY <2>1, <2>2, SecuredConstant DEF SecuredKept
  <2>4. QED
    BY <2>1, <2>2, <2>3 DEF HeldFramesLocked, NoProtectedFrameGranted
<1>6. ASSUME PmemRequestFrame PROVE Safe'
  <2>1. CASE Requested = {} /\ UNCHANGED <<memory, history>>
    <3>1. InState(FREE_FRAME)' = InState(FREE_FRAME) /\ InState(LOCKED_FRAME)' = InState(LOCKED_FRAME)
      BY <1>6, <2>1 DEF PmemRequestFrame, Ready, memory, InState, Ids
    <3>2. Secured' = Secured
      BY <1>6, SecuredConstant DEF PmemRequestFrame
    <3>3. QED
      BY <2>1, <3>1, <3>2 DEF history, SecuredKept, HeldFramesLocked, NoProtectedFrameGranted
  <2>2. ASSUME NEW j \in Requested, LockFrame(j), held' = held \cup {j}, UNCHANGED released
        PROVE  Safe'
    <3>1. j \in Ids /\ j \in InState(FREE_FRAME) /\ Ready /\ frames' = frames /\ pc = "ready"
      BY <1>6, <2>2 DEF Requested, InState, PmemRequestFrame, Ready
    <3>2. InState(FREE_FRAME)' = InState(FREE_FRAME) \ {j}
      BY <1>1, <2>2, <3>1, TakeFrame DEF LockFrame
    <3>3. InState(LOCKED_FRAME)' = InState(LOCKED_FRAME) \cup {j}
      <4>1. Move(j, FREE_FRAME, LOCKED_FRAME)
        BY <2>2 DEF LockFrame
      <4>2. QED BY <1>1, <3>1, <4>1, FrameStates, MoveSets
    <3>4. Secured' = Secured
      BY <3>1, SecuredConstant
    <3>5. j \in ProtectedFrames => j \in released
      BY <3>1, ProtectedIsSecured DEF SecuredKept
    <3>6. QED
      BY <2>2, <3>2, <3>3, <3>4, <3>5 DEF SecuredKept, HeldFramesLocked, NoProtectedFrameGranted
  <2>3. QED BY <1>6, <2>1, <2>2 DEF PmemRequestFrame
<1>7. QED BY <1>3, <1>4, <1>5, <1>6 DEF Operate

LEMMA SafeStutter == Safe /\ UNCHANGED vars => Safe'
BY DEF vars, memory, locals, history, Safe, SecuredKept, HeldFramesLocked,
       NoProtectedFrameGranted, Secured, Mapped, ArrayDone, InState, Ids

LEMMA SafeNext == Base /\ Safe /\ [Next]_vars => Safe'
BY SafeInitPhysicalMemory, SafeEnterRegion, SafeMapPage, SafeLeaveRegion,
   SafeReserveStackFrame, SafeLockArrayFrame, SafeFinishInit, SafeOperate, SafeStutter
   DEF Next, Initialize

LEMMA SafeInvariant == Spec => []Safe
BY SafeInit, SafeNext, BaseInvariant, PTL DEF Spec

(***************************************************************************)
(* A frame that was granted stays locked until it is freed, so that no     *)
(* later request can be granted it.                                        *)
(***************************************************************************)
THEOREM GrantedStaysLocked == Spec => []HeldFramesLocked
<1>1. Safe => HeldFramesLocked
  BY DEF Safe
<1>2. QED
  BY <1>1, SafeInvariant, PTL

(***************************************************************************)
(* No request is granted a frame of the firmware, of the stack or of the   *)
(* allocator's own array that no caller has given up.                      *)
(***************************************************************************)
THEOREM ProtectedNotGranted == Spec => []NoProtectedFrameGranted
<1>1. Safe => NoProtectedFrameGranted
  BY DEF Safe
<1>2. QED
  BY <1>1, SafeInvariant, PTL

-----------------------------------------------------------------------------
(* The result of pmem_request_frame. *)

(* The memory map does not contain the frame whose address is the null pointer. *)
NullIsNoFrame == \A d \in Entries : NULL \notin Covers(d)

LEMMA NullResult == NullIsNoFrame /\ Base => NullMeansExhausted
<1> SUFFICES ASSUME NullIsNoFrame, Base, pc = "ready", InState(FREE_FRAME) # {}
             PROVE  RequestResult # NULL
  BY DEF NullMeansExhausted
<1>1. frames = NumberOfPageFrames /\ Mapped = NumberOfPageFrames /\ Ids = FrameIds
  BY DEF Base, ControlInv, Mapped, Ids, FrameIds
<1>2. InState(FREE_FRAME) \subseteq Nat /\ InState(FREE_FRAME) \subseteq FrameIds
  BY <1>1, FrameCountType DEF InState, FrameIds
<1>3. count[FREE_FRAME] # 0
  <2>1. IsFiniteSet(InState(FREE_FRAME)) /\ count[FREE_FRAME] = Cardinality(InState(FREE_FRAME))
    <3>1. frames \in Nat /\ FREE_FRAME \in FrameState
      BY <1>1, FrameCountType, FrameStates
    <3>2. QED
      BY <3>1, InStateFinite DEF Base, CountersMatch
  <2>2. QED
    BY <2>1, FS_EmptySet
<1>4. Requested # {}
  <2>1. PICK j \in InState(FREE_FRAME) : \A k \in InState(FREE_FRAME) : j <= k
    BY <1>2, LeastElement
  <2>2. QED
    BY <1>3, <2>1 DEF Requested
<1>5. ASSUME NEW j \in Requested PROVE frame_addr[j] # NULL
  <2>1. j \in FrameIds
    BY <1>2, <1>3 DEF Requested
  <2>2. PICK d \in Entries : \E k \in Nat : k < Pages(d) /\ j = FirstFrame[d] + k
    BY <2>1, FrameIsPage
  <2>3. PICK k \in Nat : k < Pages(d) /\ j = FirstFrame[d] + k
    BY <2>2
  <2>4. frame_addr[j] = MemoryDescriptors[d].physical_addr + k
    BY <1>1, <2>1, <2>3, FrameCountType DEF Base, AddressInv, FrameIds
  <2>5. MemoryDescriptors[d].physical_addr + k \in Covers(d)
    BY <2>3, DescriptorTypes DEF Covers, Pages
  <2>6. QED
    BY <2>4, <2>5 DEF NullIsNoFrame
<1>6. QED
  BY <1>4, <1>5 DEF RequestResult

(***************************************************************************)
(* NULL means that no frame is free, on machines where frame 0 is not in   *)
(* the map; where it is, the frame itself is mistaken for NULL.            *)
(***************************************************************************)
THEOREM NullOnlyWhenExhausted == ASSUME NullIsNoFrame PROVE Spec => []NullMeansExhausted
<1>1. Base => NullMeansExhausted
  BY NullResult
<1>2. QED
  BY <1>1, BaseInvariant, PTL

-----------------------------------------------------------------------------
(* The allocator implements the abstract pool. *)

(* What a frame's change of state is for the pool. *)
LEMMA MovePool ==
  ASSUME NEW j \in Ids, frames = NumberOfPageFrames, frames' = frames,
         state \in [Ids -> FrameState]
  PROVE  /\ Move(j, FREE_FRAME, LOCKED_FRAME) /\ held' = held
              => [Pool!Next]_(Pool!vars)
         /\ j \in InState(FREE_FRAME) /\ Move(j, FREE_FRAME, LOCKED_FRAME) /\ held' = held \cup {j}
              => Pool!Next
         /\ Move(j, FREE_FRAME, RESERVED_FRAME) /\ held' = held
              => [Pool!Next]_(Pool!vars)
         /\ Move(j, RESERVED_FRAME, FREE_FRAME) /\ held' = held
              => [Pool!Next]_(Pool!vars)
         /\ held \subseteq InState(LOCKED_FRAME) /\ Move(j, LOCKED_FRAME, FREE_FRAME) /\ held' = held \ {j}
              => [Pool!Next]_(Pool!vars)
<1>1. j \in FrameIds /\ FREE_FRAME \in FrameState /\ LOCKED_FRAME \in FrameState /\ RESERVED_FRAME \in FrameState
  BY FrameStates DEF Ids, FrameIds
<1> USE DEF Pool!Next, Pool!vars, Pool!Pin, Pool!Grant, Pool!Release, Pool!Withhold, Pool!Restore
<1>2. ASSUME Move(j, FREE_FRAME, LOCKED_FRAME)
      PROVE  \/ /\ j \in InState(FREE_FRAME)
                /\ InState(FREE_FRAME)' = InState(FREE_FRAME) \ {j}
                /\ InState(LOCKED_FRAME)' = InState(LOCKED_FRAME) \cup {j}
                /\ InState(RESERVED_FRAME)' = InState(RESERVED_FRAME)
             \/ /\ j \notin InState(FREE_FRAME)
                /\ \A s \in FrameState : InState(s)' = InState(s)
  BY <1>1, <1>2, FrameStates, MoveSets
<1>3. ASSUME Move(j, FREE_FRAME, RESERVED_FRAME)
      PROVE  \/ /\ j \in InState(FREE_FRAME)
                /\ InState(FREE_FRAME)' = InState(FREE_FRAME) \ {j}
                /\ InState(RESERVED_FRAME)' = InState(RESERVED_FRAME) \cup {j}
                /\ InState(LOCKED_FRAME)' = InState(LOCKED_FRAME)
             \/ \A s \in FrameState : InState(s)' = InState(s)
  BY <1>1, <1>3, FrameStates, MoveSets
<1>4. ASSUME Move(j, RESERVED_FRAME, FREE_FRAME)
      PROVE  \/ /\ j \in InState(RESERVED_FRAME)
                /\ InState(RESERVED_FRAME)' = InState(RESERVED_FRAME) \ {j}
                /\ InState(FREE_FRAME)' = InState(FREE_FRAME) \cup {j}
                /\ InState(LOCKED_FRAME)' = InState(LOCKED_FRAME)
             \/ \A s \in FrameState : InState(s)' = InState(s)
  BY <1>1, <1>4, FrameStates, MoveSets
<1>5. ASSUME Move(j, LOCKED_FRAME, FREE_FRAME)
      PROVE  \/ /\ j \in InState(LOCKED_FRAME)
                /\ InState(LOCKED_FRAME)' = InState(LOCKED_FRAME) \ {j}
                /\ InState(FREE_FRAME)' = InState(FREE_FRAME) \cup {j}
                /\ InState(RESERVED_FRAME)' = InState(RESERVED_FRAME)
             \/ /\ j \notin InState(LOCKED_FRAME)
                /\ \A s \in FrameState : InState(s)' = InState(s)
  BY <1>1, <1>5, FrameStates, MoveSets
<1>6. Move(j, FREE_FRAME, LOCKED_FRAME) /\ held' = held => [Pool!Next]_(Pool!vars)
  BY <1>1, <1>2
<1>7. j \in InState(FREE_FRAME) /\ Move(j, FREE_FRAME, LOCKED_FRAME) /\ held' = held \cup {j} => Pool!Next
  BY <1>1, <1>2
<1>8. Move(j, FREE_FRAME, RESERVED_FRAME) /\ held' = held => [Pool!Next]_(Pool!vars)
  BY <1>1, <1>3
<1>9. Move(j, RESERVED_FRAME, FREE_FRAME) /\ held' = held => [Pool!Next]_(Pool!vars)
  BY <1>1, <1>4
<1>10. held \subseteq InState(LOCKED_FRAME) /\ Move(j, LOCKED_FRAME, FREE_FRAME) /\ held' = held \ {j}
         => [Pool!Next]_(Pool!vars)
  BY <1>1, <1>5
<1>11. QED
  BY <1>6, <1>7, <1>8, <1>9, <1>10

LEMMA PoolInit == Init => Pool!Init
<1> SUFFICES ASSUME Init PROVE Pool!Init
  OBVIOUS
<1>1. \A s : InState(s) = {}
  BY DEF Init, InState, Ids
<1>2. QED
  BY <1>1 DEF Init, Pool!Init

LEMMA PoolUnchanged ==
  ASSUME UNCHANGED memory, frames' = frames, held' = held
  PROVE  UNCHANGED Pool!vars
BY DEF memory, InState, Ids, Pool!vars

(* Filling the array is the pool's first step. *)
LEMMA PoolPopulate ==
  ASSUME Base, InitPhysicalMemory
  PROVE  [Pool!Next]_(Pool!vars)
<1>1. CASE UNCHANGED vars
  BY <1>1, PoolUnchanged DEF vars, memory, history
<1>2. CASE ~ UNCHANGED vars
  <2>1. /\ frames = 0 /\ frames' = NumberOfPageFrames /\ held' = held
        /\ state' = [j \in FrameIds |-> FREE_FRAME]
    BY <1>2 DEF InitPhysicalMemory, Base, ControlInv, TypeOK, history
  <2>2. Ids = {} /\ Ids' = FrameIds
    BY <2>1 DEF Ids, FrameIds
  <2>3. \A s : InState(s) = {}
    BY <2>2 DEF InState
  <2>4. /\ InState(FREE_FRAME)' = FrameIds
        /\ InState(LOCKED_FRAME)' = {}
        /\ InState(RESERVED_FRAME)' = {}
    BY <2>1, <2>2, FrameStates DEF InState
  <2>5. Pool!Populate
    BY <2>1, <2>3, <2>4 DEF Pool!Populate
  <2>6. QED BY <2>5 DEF Pool!Next
<1>3. QED BY <1>1, <1>2

LEMMA PoolInitialize ==
  ASSUME Base, Initialize
  PROVE  [Pool!Next]_(Pool!vars)
<1>1. state \in [Ids -> FrameState]
  BY DEF Base, TypeOK
<1>2. CASE EnterRegion \/ LeaveRegion \/ FinishInit
  <2>1. UNCHANGED memory /\ frames' = frames /\ held' = held
    BY <1>2 DEF EnterRegion, LeaveRegion, FinishInit, history
  <2>2. QED BY <2>1, PoolUnchanged
<1>3. CASE MapPage
  <2>1. /\ frames = NumberOfPageFrames /\ frames' = frames /\ held' = held
        /\ i \in Entries /\ n \in Nat /\ n < Pages(i) /\ frame_id = FirstFrame[i] + n
    BY <1>3 DEF MapPage, history, Base, ControlInv, TypeOK, Pages
  <2>2. frame_id \in Ids
    BY <2>1, PageIsFrame DEF Ids, FrameIds
  <2>3. CASE UNCHANGED memory
    BY <2>1, <2>3, PoolUnchanged
  <2>4. CASE ReserveFrame(frame_id)
    BY <1>1, <2>1, <2>2, <2>4, MovePool DEF ReserveFrame
  <2>5. QED BY <1>3, <2>3, <2>4 DEF MapPage
<1>4. CASE ReserveStackFrame
  <2>1. frames = NumberOfPageFrames /\ frames' = frames /\ held' = held
    BY <1>4 DEF ReserveStackFrame, history, Base, ControlInv
  <2>2. FrameIndexByPtr(Stack) \in Ids
    BY <1>4, StackFrameFound DEF ReserveStackFrame
  <2>3. Move(FrameIndexByPtr(Stack), FREE_FRAME, RESERVED_FRAME)
    BY <1>4 DEF ReserveStackFrame, ReserveFrame
  <2>4. QED BY <1>1, <2>1, <2>2, <2>3, MovePool
<1>5. CASE LockArrayFrame
  <2>1. /\ frames = NumberOfPageFrames /\ frames' = frames /\ held' = held
        /\ pc = "lock" /\ n < LockCount
    BY <1>5, LockLoopBound DEF LockArrayFrame, history, Base, ControlInv
  <2>2. array_frame_id + n \in Ids
    BY <2>1, NextArrayFrame
  <2>3. Move(array_frame_id + n, FREE_FRAME, LOCKED_FRAME)
    BY <1>5 DEF LockArrayFrame, LockFrame
  <2>4. QED BY <1>1, <2>1, <2>2, <2>3, MovePool
<1>6. QED
  BY <1>2, <1>3, <1>4, <1>5 DEF Initialize

LEMMA PoolOperate ==
  ASSUME Base, Safe, Operate
  PROVE  [Pool!Next]_(Pool!vars)
<1>1. /\ frames = NumberOfPageFrames /\ frames' = frames
      /\ state \in [Ids -> FrameState] /\ held \subseteq InState(LOCKED_FRAME)
  <2>1. Ready
    BY DEF Operate, CallLockFrame, CallFreeFrame, CallReserveFrame, CallUnreserveFrame, PmemRequestFrame
  <2>2. QED BY <2>1 DEF Ready, Base, ControlInv, TypeOK, Safe, HeldFramesLocked
<1>2. ASSUME NEW j \in Ids, \/ CallLockFrame(j) \/ CallFreeFrame(j)
                            \/ CallReserveFrame(j) \/ CallUnreserveFrame(j)
      PROVE  [Pool!Next]_(Pool!vars)
  BY <1>1, <1>2, MovePool
     DEF CallLockFrame, CallFreeFrame, CallReserveFrame, CallUnreserveFrame,
         LockFrame, FreeFrame, ReserveFrame, UnreserveFrame, history
<1>3. CASE PmemRequestFrame
  <2>1. CASE Requested = {} /\ UNCHANGED <<memory, history>>
    BY <1>1, <2>1, PoolUnchanged DEF history
  <2>2. ASSUME NEW j \in Requested, LockFrame(j), held' = held \cup {j}
        PROVE  [Pool!Next]_(Pool!vars)
    <3>1. j \in Ids /\ j \in InState(FREE_FRAME)
      BY <2>2 DEF Requested, InState
    <3>2. QED BY <1>1, <2>2, <3>1, MovePool DEF LockFrame
  <2>3. QED BY <1>3, <2>1, <2>2 DEF PmemRequestFrame
<1>4. QED
  BY <1>2, <1>3 DEF Operate

(***************************************************************************)
(* Every behaviour of the allocator is a behaviour of the abstract pool.   *)
(***************************************************************************)
THEOREM AllocatorImplementsPool == Spec => ImplementsPool
<1>1. Base /\ Safe /\ [Next]_vars => [Pool!Next]_(Pool!vars)
  <2> SUFFICES ASSUME Base, Safe, [Next]_vars PROVE [Pool!Next]_(Pool!vars)
    OBVIOUS
  <2>1. CASE UNCHANGED vars
    BY <2>1, PoolUnchanged DEF vars, memory, history
  <2>2. CASE InitPhysicalMemory
    BY <2>2, PoolPopulate
  <2>3. CASE Initialize
    BY <2>3, PoolInitialize
  <2>4. CASE Operate
    BY <2>4, PoolOperate
  <2>5. QED
    BY <2>1, <2>2, <2>3, <2>4 DEF Next
<1>2. QED
  BY <1>1, PoolInit, BaseInvariant, SafeInvariant, PTL DEF Spec, ImplementsPool, Pool!Spec
=============================================================================
