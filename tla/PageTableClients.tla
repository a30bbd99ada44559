-------------------------- MODULE PageTableClients --------------------------
(***************************************************************************)
(* Any sequence of calls of map_vaddr_to_paddr, one after the other: the   *)
(* kernel has one processor and the function is not reentrant.             *)
(***************************************************************************)
EXTENDS PageTables

CONSTANTS VPages,             \* the virtual pages callers map ...
          PPages              \* ... and the frames they map them to

ASSUME ClientsAssumption ==
  /\ VPages \subseteq Nat
  /\ PPages \subseteq 0 .. EntryFrames - 1

Next == Walk \/ \E v \in VPages, p \in PPages : MapVaddrToPaddr(v, p)

Spec == Init /\ [][Next]_vars

(* A call that has begun runs to its end: nothing preempts it. *)
FairSpec == Spec /\ WF_vars(Walk)

(* The tables seen as an address space. *)
Space == INSTANCE AddressSpace WITH
           Pages   <- Paths,
           Frames  <- PPages,
           map     <- [ix \in Paths |-> Translate(ix)],
           request <- IF level = 0 THEN << >> ELSE <<indexes, paddr>>

(***************************************************************************)
(* map_vaddr_to_paddr changes the translation of :vaddr to :paddr, once,   *)
(* in its last step, and the translation of no other page in any step.     *)
(***************************************************************************)
ImplementsAddressSpace == Space!Spec
=============================================================================
