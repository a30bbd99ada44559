----------------------------- MODULE MCConsole -----------------------------
(* A font of two characters for TLC. *)
EXTENDS Console

SmallFont == [c \in {Blank, "L"} |-> IF c = "L" THEN {<<1, 0>>, <<1, 1>>} ELSE {}]

Message == <<"L", Newline, "L">>
=============================================================================
