----------------------------- MODULE MCSmsPort -----------------------------
(***************************************************************************)
(* Instances of SmsPort for TLC.                                           *)
(***************************************************************************)
EXTENDS SmsPort

CONSTANTS m1

OneSms == {m1}

(* A PDU of one cell.                                                      *)
OneBody == [m \in OneSms |-> 1]

NoFault == {}
AllFaults == {"io", "death", "modem"}
=============================================================================
