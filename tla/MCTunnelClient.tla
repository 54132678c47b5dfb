---------------------------- MODULE MCTunnelClient ----------------------------
(* Instances of TunnelClient for TLC.                                      *)
EXTENDS TunnelClient, TLC

CONSTANTS a, b, p1, p2, x, y

To(port, l) == [RemotePort |-> port, Local |-> l]

(* A tunnel on a port of its own whose local address changes, and one on   *)
(* any port that comes and goes.                                           *)
ReloadConfigs == {a :> To(p1, x), a :> To(p1, y) @@ b :> To(AnyPort, x)}

(* One tunnel that never changes.                                          *)
OneConfig == {a :> To(p1, x)}

=============================================================================
