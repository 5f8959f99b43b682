------------------------------- MODULE MCBoot -------------------------------
(***************************************************************************)
(* Instances of Boot for TLC.                                              *)
(***************************************************************************)
EXTENDS Boot

CONSTANTS u1, u2

MCUsers == {u1, u2}

AllFaults == {"power", "kill", "qmi", "modem", "send", "file", "network"}
=============================================================================
