---------------------------- MODULE MCPageTables ----------------------------
(* Instances of PageTableClients for TLC. *)
EXTENDS PageTableClients

Ascending == [j \in 1 .. LastFrame + 1 |-> j - 1]

(* Frames nobody cleared hold entries that look present. *)
PresentGarbage == [j \in Index |-> [present |-> TRUE, frame |-> 1]]
=============================================================================
