-------------------------------- MODULE MCHealth --------------------------------
(* Instances of Health for TLC.                                            *)
EXTENDS Health, TLC

CONSTANTS a, b, p1, p2

(* A tunnel on a port of its own and one on any port.                      *)
FixedAndAny == a :> p1 @@ b :> AnyPort

OnlyAny == b :> AnyPort

=============================================================================
