------------------------------ MODULE PortLeases ------------------------------
(***************************************************************************)
(* What the server promises about the ports of its host, without sessions, *)
(* requests or goroutines: a port is leased to at most one client, only a  *)
(* free port is granted, a client never has more than Quota ports, and a   *)
(* port changes hands only by becoming free first.  ServerTunnels          *)
(* implements this specification.                                          *)
(***************************************************************************)
EXTENDS Integers, FiniteSets

CONSTANTS
  Clients,   \* the sessions
  Ports,
  Quota,     \* max_tunnels_per_client
  None       \* the owner of a free port

VARIABLE owner

Leased(c) == {p \in Ports : owner[p] = c}

Init == owner = [p \in Ports |-> None]

Grant(c, p) ==
  /\ owner[p] = None
  /\ Cardinality(Leased(c)) < Quota
  /\ owner' = [owner EXCEPT ![p] = c]

(* A cancel request frees one port, the end of a session several.          *)
Free(c, S) ==
  /\ S # {}
  /\ S \subseteq Leased(c)
  /\ owner' = [p \in Ports |-> IF p \in S THEN None ELSE owner[p]]

Next == \E c \in Clients : \/ \E p \in Ports : Grant(c, p)
                           \/ \E S \in SUBSET Ports : Free(c, S)

Spec == Init /\ [][Next]_owner

=============================================================================
