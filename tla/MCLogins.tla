------------------------------- MODULE MCLogins -------------------------------
(***************************************************************************)
(* The block list with one more history variable: the failures of every IP *)
(* since it last logged in, clearly or not.                                *)
(***************************************************************************)
EXTENDS MCAuthBlocker

VARIABLE run

(* One more for a failure recorded, none after ResetFailure.               *)
Counted(ip) ==
  CASE \E w \in Workers : worker[w].ip = ip /\ Store(w)  -> run[ip] + 1
    [] \E w \in Workers : worker[w].ip = ip /\ Remove(w) -> 0
    [] OTHER                                             -> run[ip]

LoginSpec ==
  /\ Init /\ run = [ip \in IPs |-> 0]
  /\ [][Next /\ run' = [ip \in IPs |-> Counted(ip)]]_<<vars, run>>

(* What README.md:117 says: an IP is blocked after MaxFailures failures in *)
(* a row, a login starting a new row.                                      *)
OnlyInARow ==
  [][\A w \in Workers : RefuseConnection(w) \/ RefusePassword(w) =>
       run[worker[w].ip] >= MaxFailures]_<<vars, run>>

=============================================================================
