--------------------------- MODULE TunnelService ---------------------------
(***************************************************************************)
(* What the users of the daemon may count on: each open tunnel has a       *)
(* reference of its own, which stands for that tunnel until it ends; a     *)
(* user has at most one tunnel to an application; and there are never more *)
(* open tunnels than the configured maximum.  In the weaker service where  *)
(* references are Reused, the tunnel that a reference stood for ends when  *)
(* it is given to a new one.                                               *)
(***************************************************************************)
EXTENDS Naturals, FiniteSets

CONSTANTS
  Users, Apps,
  References,      \* what may name a tunnel
  Limit, NoLimit,  \* the maximum number of open tunnels, if any
  Reused           \* whether a reference may be given out while it is in use

VARIABLE open    \* from the references to the owner and the application

Grant == [user : Users, app : Apps]

Init == open = [r \in {} |-> NoLimit]

(* A tunnel is granted to a user, for an application.                      *)
Open ==
  \E r \in References, g \in Grant :
    /\ r \in DOMAIN open => Reused
    /\ \A s \in DOMAIN open : open[s] # g
    /\ Limit # NoLimit => Cardinality(DOMAIN open) < Limit
    /\ open' = [s \in DOMAIN open \cup {r} |-> IF s = r THEN g ELSE open[s]]

(* Tunnels end: on request, when they expire or with the daemon.           *)
End ==
  \E S \in SUBSET DOMAIN open :
    open' = [s \in DOMAIN open \ S |-> open[s]]

Next == Open \/ End

Spec == Init /\ [][Next]_open
=============================================================================
