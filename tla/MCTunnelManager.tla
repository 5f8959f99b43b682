-------------------------- MODULE MCTunnelManager --------------------------
(***************************************************************************)
(* Instances of TunnelManager for TLC.                                     *)
(***************************************************************************)
EXTENDS TunnelManager, TLC

CONSTANTS p1, p2, px, u1, u2, a1, a2, bogus, s1, s2, s3

(* Two configured users and a stranger.                                    *)
MCPhones == {p1, p2, px}
MCUsers == {u1, u2}
MCUserOf == (p1 :> u1) @@ (p2 :> u2) @@ (px :> NoUser)

(* One configured user and a stranger.                                     *)
OnePhone == {p1, px}
OneUser == {u1}
OneUserOf == (p1 :> u1) @@ (px :> NoUser)

MCApps == {a1, a2}
MCAppNames == {a1, a2, bogus}
OneApp == {a1}
OneAppName == {a1, bogus}

(* The references 0 and 1 are given out when two tunnels may be open; 2    *)
(* never is.                                                               *)
MCRefArgs == 0..2
TwoRefArgs == 0..1

ThreeProcs == {s1, s2, s3}
TwoProcs == {s1, s2}

(* Processes and applications are only ever compared with each other.      *)
ThreeProcsTwoApps == Permutations(ThreeProcs) \cup Permutations(MCApps)

NoFault == {}
StopAndClock == {"stop", "clock"}
OnlyStop == {"stop"}
OnlyClock == {"clock"}
=============================================================================
