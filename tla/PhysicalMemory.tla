-------------------------- MODULE PhysicalMemory --------------------------
(***************************************************************************)
(* The physical memory allocator, src/src/memory/pmem.c.                   *)
(*                                                                         *)
(* PhysicalMemory__init runs once, one loop iteration per step; afterwards *)
(* the kernel may call the five operations of pmem.h in any order on any   *)
(* frame of the array.  The C array of PageFrame is kept as one function   *)
(* per field, and the three counters as one function of the frame state:   *)
(*    state[j], frame_addr[j]   physical_memory.array[j]                   *)
(*    count[FREE_FRAME]         physical_memory.free_frames                *)
(*    count[LOCKED_FRAME]       physical_memory.locked_frames              *)
(*    count[RESERVED_FRAME]     physical_memory.reserved_frames            *)
(***************************************************************************)
EXTENDS MemoryMap, Integers, FiniteSets

CONSTANTS FRAME_SZ,           \* bytes in a frame (4096)
          PageFrameSz,        \* sizeof(PageFrame) (16)
          Stack               \* the frame of kernel.stack

FREE_FRAME     == "free"
LOCKED_FRAME   == "locked"
RESERVED_FRAME == "reserved"

FrameState == {FREE_FRAME, LOCKED_FRAME, RESERVED_FRAME}

VARIABLES state, frame_addr, count, frames, initialized, \* physical_memory
          pc, i, n, frame_id, array_frame_id,            \* PhysicalMemory__init
          held,               \* history: frames granted and not freed since
          released            \* history: frames some caller freed or unreserved

memory == <<state, count>>
locals == <<i, n, frame_id, array_frame_id>>
history == <<held, released>>
vars == <<state, frame_addr, count, frames, initialized, pc, locals, history>>

Ids == 0 .. frames - 1
InState(s) == {j \in Ids : state[j] = s}

(* The memory a type of descriptor describes may be used by the kernel. *)
KernelMayUse(type) ==
  type \in {"conventional", "boot_services_code", "boot_services_data"}

(* The size of the array as the code computes it, eight times the real one. *)
FramesArraySz == frames * 8 * PageFrameSz

(* How many frames PhysicalMemory__init locks for it. *)
LockCount == (NumberOfPageFrames * 8 * PageFrameSz) \div FRAME_SZ

(* The first frame of the array with the address of :mem_ptr. *)
FrameIndexByPtr(mem_ptr) ==
  CHOOSE j \in Ids : /\ frame_addr[j] = mem_ptr
                     /\ \A k \in Ids : frame_addr[k] = mem_ptr => j <= k

-----------------------------------------------------------------------------
(* The four operations that move a frame from one state to another do so only *)
(* if the frame is in the state they expect; otherwise they return silently.  *)
Move(j, from, to) ==
  \/ /\ state[j] = from
     /\ state' = [state EXCEPT ![j] = to]
     /\ count' = [count EXCEPT ![from] = @ - 1, ![to] = @ + 1]
  \/ /\ state[j] # from
     /\ UNCHANGED memory

(* Mutant: FreeFrame does not look at the state of the frame. *)
FreeFrame_Unchecked(j) ==
  /\ state' = [state EXCEPT ![j] = FREE_FRAME]
  /\ count' = [count EXCEPT ![LOCKED_FRAME] = @ - 1, ![FREE_FRAME] = @ + 1]

(* Mutant: FreeFrame leaves the number of locked frames alone. *)
FreeFrame_OneCounter(j) ==
  \/ /\ state[j] = LOCKED_FRAME
     /\ state' = [state EXCEPT ![j] = FREE_FRAME]
     /\ count' = [count EXCEPT ![FREE_FRAME] = @ + 1]
  \/ state[j] # LOCKED_FRAME /\ UNCHANGED memory

(* Mutant: a frame in use can be reserved. *)
ReserveFrame_EvenLocked(j) ==
  Move(j, IF state[j] = LOCKED_FRAME THEN LOCKED_FRAME ELSE FREE_FRAME, RESERVED_FRAME)

(* Mutant: unreserving frees a frame in any state. *)
UnreserveFrame_AnyState(j) == Move(j, state[j], FREE_FRAME)

LockFrame(j)      == Move(j, FREE_FRAME, LOCKED_FRAME)
FreeFrame(j)      == Move(j, LOCKED_FRAME, FREE_FRAME)
ReserveFrame(j)   == Move(j, FREE_FRAME, RESERVED_FRAME)
UnreserveFrame(j) == Move(j, RESERVED_FRAME, FREE_FRAME)

(* Mutant: the search gives up one frame early. *)
Requested_OneLeft ==
  IF count[FREE_FRAME] <= 1
    THEN {}
    ELSE {j \in InState(FREE_FRAME) : \A k \in InState(FREE_FRAME) : j <= k}

(* The frame pmem_request_frame finds: none if the counter says so. *)
Requested ==
  IF count[FREE_FRAME] = 0
    THEN {}
    ELSE {j \in InState(FREE_FRAME) : \A k \in InState(FREE_FRAME) : j <= k}

(* What pmem_request_frame returns. *)
RequestResult ==
  IF Requested = {} THEN NULL ELSE frame_addr[CHOOSE j \in Requested : TRUE]

-----------------------------------------------------------------------------
Init ==
  /\ frames = 0
  /\ state = [j \in Ids |-> FREE_FRAME]
  /\ frame_addr = [j \in Ids |-> NULL]
  /\ count = [s \in FrameState |-> 0]
  /\ initialized = FALSE
  /\ pc = "boot"
  /\ i = 1 /\ n = 0 /\ frame_id = 0 /\ array_frame_id = 0
  /\ held = {} /\ released = {}

(***************************************************************************)
(* PhysicalMemory__init up to its loop over the map: every frame is free.  *)
(* A call after the first returns at once.                                 *)
(***************************************************************************)
InitPhysicalMemory ==
  /\ pc \in {"boot", "ready"}
  /\ \/ /\ initialized
        /\ UNCHANGED vars
     \/ /\ ~ initialized
        /\ frames' = NumberOfPageFrames
        /\ state' = [j \in FrameIds |-> FREE_FRAME]
        /\ frame_addr' = [j \in FrameIds |-> NULL]
        /\ count' = [s \in FrameState |-> IF s = FREE_FRAME THEN frames' ELSE 0]
        /\ i' = 1 /\ n' = 0 /\ frame_id' = 0 /\ array_frame_id' = 0
        /\ pc' = "region"
        /\ UNCHANGED <<initialized, history>>

(* Mutant: the array is looked for one frame too late. *)
ArrayFrameId_OffByOne ==
  IF MemoryDescriptors[i].physical_addr = LargestFreeMemSeg THEN frame_id + 1 ELSE array_frame_id

(* The first frame of the array, when its region is reached. *)
ArrayFrameId ==
  IF MemoryDescriptors[i].physical_addr = LargestFreeMemSeg THEN frame_id ELSE array_frame_id

(* The head of the outer loop. *)
EnterRegion ==
  /\ pc = "region"
  /\ i \in Entries
  /\ array_frame_id' = ArrayFrameId
  /\ n' = 0
  /\ pc' = "page"
  /\ UNCHANGED <<memory, frame_addr, frames, initialized, i, frame_id, history>>

(* One iteration of the inner loop: one page of the region. *)
MapPage ==
  /\ pc = "page"
  /\ n < MemoryDescriptors[i].number_of_pages
  /\ frame_addr' = [frame_addr EXCEPT ![frame_id] = MemoryDescriptors[i].physical_addr + n]
  /\ IF KernelMayUse(MemoryDescriptors[i].type)
       THEN UNCHANGED memory
       ELSE ReserveFrame(frame_id)
  /\ frame_id' = frame_id + 1
  /\ n' = n + 1
  /\ UNCHANGED <<frames, initialized, pc, i, array_frame_id, history>>

LeaveRegion ==
  /\ pc = "page"
  /\ n = MemoryDescriptors[i].number_of_pages
  /\ i' = i + 1
  /\ pc' = "region"
  /\ UNCHANGED <<memory, frame_addr, frames, initialized, n, frame_id,
                 array_frame_id, history>>

ReserveStackFrame ==
  /\ pc = "region"
  /\ i \notin Entries
  /\ ReserveFrame(FrameIndexByPtr(Stack))
  /\ n' = 0
  /\ pc' = "lock"
  /\ UNCHANGED <<frame_addr, frames, initialized, i, frame_id, array_frame_id, history>>

(* Mutant: the loop over the array's frames does not advance. *)
LockArrayFrame_SameFrame ==
  /\ pc = "lock"
  /\ n < FramesArraySz \div FRAME_SZ
  /\ LockFrame(array_frame_id + n)
  /\ UNCHANGED <<frame_addr, frames, initialized, pc, locals, history>>

(* The loop that locks the frames of the array, n is its counter. *)
LockArrayFrame ==
  /\ pc = "lock"
  /\ n < FramesArraySz \div FRAME_SZ
  /\ LockFrame(array_frame_id + n)
  /\ n' = n + 1
  /\ UNCHANGED <<frame_addr, frames, initialized, pc, i, frame_id, array_frame_id, history>>

FinishInit ==
  /\ pc = "lock"
  /\ n = FramesArraySz \div FRAME_SZ
  /\ initialized' = TRUE
  /\ pc' = "ready"
  /\ UNCHANGED <<memory, frame_addr, frames, locals, history>>

-----------------------------------------------------------------------------
(* The operations of pmem.h, called by the rest of the kernel. *)
Ready == pc = "ready" /\ UNCHANGED <<frame_addr, frames, initialized, pc, locals>>

CallLockFrame(j)    == Ready /\ LockFrame(j) /\ UNCHANGED history
CallReserveFrame(j) == Ready /\ ReserveFrame(j) /\ UNCHANGED history

CallFreeFrame(j) ==
  /\ Ready
  /\ FreeFrame(j)
  /\ held' = held \ {j}
  /\ released' = released \cup ({j} \cap InState(LOCKED_FRAME))

CallUnreserveFrame(j) ==
  /\ Ready
  /\ UnreserveFrame(j)
  /\ released' = released \cup ({j} \cap InState(RESERVED_FRAME))
  /\ UNCHANGED held

PmemRequestFrame ==
  /\ Ready
  /\ \/ /\ Requested = {}
        /\ UNCHANGED <<memory, history>>
     \/ \E j \in Requested :
          /\ LockFrame(j)
          /\ held' = held \cup {j}
          /\ UNCHANGED released

Initialize ==
  \/ EnterRegion \/ MapPage \/ LeaveRegion
  \/ ReserveStackFrame \/ LockArrayFrame \/ FinishInit

Operate ==
  \/ \E j \in Ids : \/ CallLockFrame(j) \/ CallFreeFrame(j)
                    \/ CallReserveFrame(j) \/ CallUnreserveFrame(j)
  \/ PmemRequestFrame

Next == InitPhysicalMemory \/ Initialize \/ Operate

(* The kernel runs on one processor and nothing preempts _start. *)
Spec == Init /\ [][Next]_vars
FairSpec == Spec /\ WF_vars(InitPhysicalMemory \/ Initialize)
-----------------------------------------------------------------------------
(* What must not be handed out, told from the memory map alone. *)
FramesOf(d) == FirstFrame[d] .. FirstFrame[d+1] - 1

FirmwareFrames ==
  UNION {FramesOf(d) : d \in {e \in Entries : ~ KernelMayUse(MemoryDescriptors[e].type)}}

StackFrames ==
  {j \in FrameIds : \E d \in Entries :
     /\ j \in FramesOf(d)
     /\ MemoryDescriptors[d].physical_addr + (j - FirstFrame[d]) = Stack}

(* The frames the array of PageFrame really occupies. *)
ArrayFrameCount == (NumberOfPageFrames * PageFrameSz + FRAME_SZ - 1) \div FRAME_SZ

ArrayFrames ==
  FirstFrame[LargestFreeSegment] .. FirstFrame[LargestFreeSegment] + ArrayFrameCount - 1

(***************************************************************************)
(* The machines the code is written for; it checks none of this.  The      *)
(* stack is in the map and some memory is free; the array fits into the    *)
(* largest free segment; its (overestimated) size is at least one frame,   *)
(* and locking that many frames stays within the array.                    *)
(***************************************************************************)
ASSUME MachineAssumption ==
  /\ FRAME_SZ \in Nat \ {0}
  /\ PageFrameSz \in Nat \ {0}
  /\ Stack \in UNION {Covers(d) : d \in Entries}
  /\ FreeSegments # {}
  /\ ArrayFrameCount <= MemoryDescriptors[LargestFreeSegment].number_of_pages
  /\ NumberOfPageFrames * 8 * PageFrameSz >= FRAME_SZ
  /\ FirstFrame[LargestFreeSegment] + LockCount <= NumberOfPageFrames

-----------------------------------------------------------------------------
TypeOK ==
  /\ frames \in Nat
  /\ state \in [Ids -> FrameState]
  /\ frame_addr \in [Ids -> Nat]
  /\ count \in [FrameState -> Nat]
  /\ initialized \in BOOLEAN
  /\ pc \in {"boot", "region", "page", "lock", "ready"}
  /\ i \in Nat /\ n \in Nat /\ frame_id \in Nat /\ array_frame_id \in Nat
  /\ held \subseteq Ids
  /\ released \subseteq Ids

(***************************************************************************)
(* pmem.h calls the counters the numbers of free, reserved and locked      *)
(* frames.  They are kept beside the array by five functions and trusted   *)
(* by pmem_request_frame, which gives up when free_frames is 0.            *)
(***************************************************************************)
CountersMatch == \A s \in FrameState : count[s] = Cardinality(InState(s))

(***************************************************************************)
(* A frame that pmem_request_frame returned stays locked, whatever the     *)
(* rest of the kernel calls, until it is freed: it is not granted twice.   *)
(***************************************************************************)
HeldFramesLocked == held \subseteq InState(LOCKED_FRAME)

(***************************************************************************)
(* No request is granted a frame of the firmware or the loader, the frame  *)
(* of the stack, or a frame of the allocator's own array, unless some      *)
(* caller explicitly freed or unreserved that frame before.                *)
(***************************************************************************)
ProtectedFrames == FirmwareFrames \cup StackFrames \cup ArrayFrames

NoProtectedFrameGranted == held \cap ProtectedFrames \subseteq released

(***************************************************************************)
(* pmem_request_frame returns NULL only if no frame is free, as its        *)
(* comment says (pmem.c:178-181).                                          *)
(***************************************************************************)
NullMeansExhausted ==
  pc = "ready" /\ RequestResult = NULL => InState(FREE_FRAME) = {}

(* The allocator's array seen as the abstract pool of frames. *)
Pool == INSTANCE FramePool WITH Frames   <- FrameIds,
                                free     <- InState(FREE_FRAME),
                                used     <- InState(LOCKED_FRAME),
                                withheld <- InState(RESERVED_FRAME)

(***************************************************************************)
(* Every step of the allocator is one step of the abstract pool, or none:  *)
(* a frame is granted only when free, and no operation moves a frame       *)
(* between in use and withheld without freeing it in between.              *)
(***************************************************************************)
ImplementsPool == Pool!Spec

(* PhysicalMemory__init reaches the end of its three loops. *)
InitializationEnds == <>(pc = "ready")
=============================================================================
