----------------------------- MODULE MCFraming -----------------------------
(***************************************************************************)
(* Instances of Framing for TLC.                                           *)
(***************************************************************************)
EXTENDS Framing

MessageSet == {"short one", "long one"}
Sizes == [m \in MessageSet |-> IF m = "short one" THEN 1 ELSE 3]

\* What Message::write sends, what other good peers send, and bad headers.
HeaderSet ==
    {<<"exact">>, <<"other", "exact">>, <<"exact", "other">>, <<"long", "exact">>,
     <<>>, <<"other">>, <<"exact", "short">>, <<"long">>, <<"exact", "nan">>, <<"bad">>}
============================================================================
