------------------------------ MODULE MCPaging ------------------------------
(* Instances of Paging for TLC. *)
EXTENDS Paging

Ascending == [j \in 1 .. LastFrame + 1 |-> j - 1]

(* Frames nobody cleared hold entries most of which look present. *)
MostlyPresent == [j \in Index |-> [present |-> j # 0, frame |-> 1]]

(* The machines of these instances are among those the theorems are about, but *)
(* for TestEntryUnused: PagingTestByte.cfg shows what happens without it.      *)
ASSUME InstanceSupported == RoomFor(AllPages) /\ FrameZeroFirst
=============================================================================
