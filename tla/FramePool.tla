----------------------------- MODULE FramePool -----------------------------
(***************************************************************************)
(* What the physical memory allocator promises its callers, without the    *)
(* array, the counters or the memory map: every frame is free, used or     *)
(* withheld, a frame is granted only while it is free, and a granted frame *)
(* stays used until it is released.  Module PhysicalMemory implements it.  *)
(***************************************************************************)
CONSTANT Frames               \* the frames the pool manages

VARIABLES free,               \* frames a request may be granted
          used,               \* frames in use
          withheld,           \* frames that no request may be granted
          held                \* the used frames that were granted by a request

vars == <<free, used, withheld, held>>

Init == /\ free = {}
        /\ used = {}
        /\ withheld = {}
        /\ held = {}

(* The pool starts empty and is filled once. *)
Populate ==
  /\ free \cup used \cup withheld = {}
  /\ free' = Frames
  /\ UNCHANGED <<used, withheld, held>>

Grant(f) ==
  /\ f \in free
  /\ free' = free \ {f}
  /\ used' = used \cup {f}
  /\ held' = held \cup {f}
  /\ UNCHANGED withheld

Pin(f) ==
  /\ f \in free
  /\ free' = free \ {f}
  /\ used' = used \cup {f}
  /\ UNCHANGED <<withheld, held>>

Release(f) ==
  /\ f \in used
  /\ used' = used \ {f}
  /\ free' = free \cup {f}
  /\ held' = held \ {f}
  /\ UNCHANGED withheld

Withhold(f) ==
  /\ f \in free
  /\ free' = free \ {f}
  /\ withheld' = withheld \cup {f}
  /\ UNCHANGED <<used, held>>

Restore(f) ==
  /\ f \in withheld
  /\ withheld' = withheld \ {f}
  /\ free' = free \cup {f}
  /\ UNCHANGED <<used, held>>

Next ==
  \/ Populate
  \/ \E f \in Frames : \/ Grant(f) \/ Pin(f) \/ Release(f)
                       \/ Withhold(f) \/ Restore(f)

Spec == Init /\ [][Next]_vars
=============================================================================
