------------------------------- MODULE MCPdu --------------------------------
(***************************************************************************)
(* Instances of Pdu for TLC.                                               *)
(***************************************************************************)
EXTENDS Pdu

Digits(n) == [i \in 1..n |-> i % 10]
As(n) == [i \in 1..n |-> "a"]

(* Numbers of ten to thirteen digits.                                      *)
MCNumbers == {Digits(n) : n \in 10..13}

(* Up to eight characters, then any two: every filling of the last octet   *)
(* with every kind of character before it.  The longest, and one too long, *)
(* of what is sent and of what is received.                                *)
MCTexts ==
  {As(k) \o t : k \in 0..8, t \in BoundedSeq(Chars, 2)} \cup {As(n) : n \in {140, 141, 160, 161}}
=============================================================================
