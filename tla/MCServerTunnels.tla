--------------------------- MODULE MCServerTunnels ---------------------------
(* Instances of ServerTunnels for TLC.  Ports are model values; those that *)
(* are not in AllowedPorts are reached by asking for AnyPort.              *)
EXTENDS ServerTunnels, TLC

Forward(p, a) == [type |-> "forward", port |-> p, arg |-> a]
Cancel(p)     == [type |-> "cancel", port |-> p, arg |-> "bind"]
Info(p)       == [type |-> "info", port |-> p, arg |-> "local"]
Health(p, st) == [type |-> "health", port |-> p, arg |-> st]

(* Ports opened and closed by several sessions, with and without a choice. *)
PortRequests == {Forward(p, "bind") : p \in Ports \cup {AnyPort}}
                  \cup {Cancel(p) : p \in AllowedPorts}

(* Everything a client sends about one port.                               *)
ClientRequests == {Forward(p, "") : p \in AllowedPorts}
                    \cup {Cancel(p) : p \in AllowedPorts}
                    \cup {Info(p) : p \in AllowedPorts}
                    \cup {Health(p, "error") : p \in AllowedPorts}

(* Requests that open and close a port, as a reload of the client sends.   *)
ReloadRequests == {Forward(p, "bind") : p \in AllowedPorts}
                    \cup {Cancel(p) : p \in AllowedPorts}

(* Forward requests only.                                                  *)
ForwardRequests == {Forward(p, "bind") : p \in AllowedPorts}

(* The ports that only AnyPort reaches are alike, too.                     *)
Symmetry == Permutations(Sessions) \cup Permutations(Users)
              \cup Permutations(Ports \ AllowedPorts)
=============================================================================
