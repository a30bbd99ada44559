---------------------------- MODULE AddressSpace ----------------------------
(***************************************************************************)
(* What map_vaddr_to_paddr promises its callers, without tables: a request *)
(* to map a page is served by changing the translation of that page, and   *)
(* of no other, once.  Module PageTables implements it.                    *)
(***************************************************************************)
CONSTANTS Pages,              \* the virtual pages
          Frames,             \* the frames a caller maps them to
          Unmapped            \* the translation of a page that is not present

VARIABLES map,                \* the translation of every page
          request             \* the call in progress, or NoRequest

vars == <<map, request>>

NoRequest == << >>

Init == /\ map = [v \in Pages |-> Unmapped]
        /\ request = NoRequest

Ask(v, p) ==
  /\ request = NoRequest
  /\ request' = <<v, p>>
  /\ UNCHANGED map

Serve ==
  /\ request # NoRequest
  /\ map' = [map EXCEPT ![request[1]] = request[2]]
  /\ request' = NoRequest

Next == Serve \/ \E v \in Pages, p \in Frames : Ask(v, p)

Spec == Init /\ [][Next]_vars
=============================================================================
