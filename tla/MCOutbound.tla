----------------------------- MODULE MCOutbound -----------------------------
(* An instance of Outbound for TLC, and Split against what its tests ask of it. *)
EXTENDS Outbound

\* Nothing to send, and a text that is cut in two.
MCBodies == {<<>>, <<"x", SP, "x", "x">>}

Texts == BoundedSeq(Chars, 6)

\* Split on every text of up to six characters: no piece is longer than the limit or
\* empty (chunk_test.go, fuzz_test.go), only the empty text has none, and what is
\* lost or added is blanks and fences.
ASSUME SplitKeepsText ==
  \A body \in Texts : \A maxLen \in 2..5 :
    LET pieces == Split(body, maxLen) IN
    /\ \A k \in DOMAIN pieces : Len(pieces[k]) \in 1..maxLen
    /\ pieces = <<>> <=> body = <<>>
    /\ Ink(FlattenSeq(pieces)) = Ink(body)
=============================================================================
