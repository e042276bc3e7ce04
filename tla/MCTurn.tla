------------------------------- MODULE MCTurn -------------------------------
(* Instances of Turn for TLC: the messages of a turn and how long they may be. *)
EXTENDS Turn

\* Two parts make a message that can be cut short, two messages an order.
TwoAndOne == <<2, 1>>
One == <<1>>
=============================================================================
