------------------------------ MODULE MCPrintf ------------------------------
(* Instances of Printf for TLC. *)
EXTENDS Printf

Token == {<<"s">>, <<"%", "s">>, <<"%", "d">>, <<"%", "p">>, <<"%", "x">>, <<"%", "%">>}

Characters == {Digit[k] : k \in 1 .. 16} \cup {"%", "s", "p", "x"}

(* Up to three tokens, and some with a lone percent sign at the end. *)
ShortFormats == BoundedSeq(Token, 3) \cup {Append(f, <<"%">>) : f \in BoundedSeq(Token, 2)}

(* A long number before a short one, 0, an empty string. *)
Arguments ==
  { <<[str |-> <<"d", "%">>, num |-> 255], [str |-> << >>, num |-> 7],
      [str |-> <<"x">>, num |-> 0]>>,
    <<[str |-> << >>, num |-> 10], [str |-> <<"s", "a", "d">>, num |-> 16],
      [str |-> <<"x">>, num |-> 99]>>,
    <<[str |-> <<"s">>, num |-> 0], [str |-> <<"s">>, num |-> 128],
      [str |-> <<"s">>, num |-> 100]>> }
=============================================================================
