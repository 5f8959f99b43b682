---------------------------- MODULE MCInitScript ----------------------------
(***************************************************************************)
(* An instance of InitScript for TLC.                                      *)
(***************************************************************************)
EXTENDS InitScript

CONSTANTS c1, p1, p2, p3

OneCaller == {c1}
ThreePids == {p1, p2, p3}

OnlyDeath == {"death"}
=============================================================================
