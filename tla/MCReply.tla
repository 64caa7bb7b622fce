------------------------------ MODULE MCReply -------------------------------
(* Every text of up to five letters, and two to ask about: one in two       *)
(* chunks, one with a footnote.                                             *)
EXTENDS Reply

MCAsked == {<<"a", " ", "b", "newline", "b", "a">>, <<"a", "[1", "]">>}

MCText ==
    MCAsked \cup UNION {[1..n -> {"a", "z", " ", "newline", "[1", "]", "path:", "fence"}] : n \in 0..5}
=============================================================================
