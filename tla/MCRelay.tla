-------------------------------- MODULE MCRelay --------------------------------
(* Instances of Relay for TLC.                                             *)
EXTENDS Relay

Pieces(n, m) == [user |-> n, local |-> m]

(* A request of one piece and an answer of two, without a timeout; with    *)
(* one, an answer of two that the user may leave unread in a full window.  *)
Exchanges == {[timeout |-> 0, pieces |-> Pieces(1, 2)],
              [timeout |-> 1, pieces |-> Pieces(0, 2)]}

(* One piece each way, with a timeout.                                     *)
Idle == {[timeout |-> 1, pieces |-> Pieces(1, 1)]}

=============================================================================
