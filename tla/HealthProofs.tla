----------------------------- MODULE HealthProofs -----------------------------
(* The bounds on what is under way, and that a tunnel without a port never *)
(* has a state, for any tunnels, ports and number of reconnections.        *)
EXTENDS Health, TLAPS

(* Checks and reports of a tunnel share a bound, and so do its users, who  *)
(* come only to a tunnel with a port.                                      *)
InBounds ==
  \A t \in Tunnels :
    /\ InFlight(t) <= MaxFlight
    /\ opening[t] + refused[t] <= MaxFlight
    /\ port[t] = None => opening[t] = 0 /\ refused[t] = 0

IInv == TypeOK /\ InBounds

LEMMA Reports ==
  ASSUME IInv, NEW t \in Tunnels
  PROVE  /\ checking[t] \in 0..MaxFlight
         /\ reporting[t] \in [Verdicts -> 0..MaxFlight]
         /\ reporting[t]["active"] \in 0..MaxFlight /\ reporting[t]["error"] \in 0..MaxFlight
         /\ checking[t] + reporting[t]["active"] + reporting[t]["error"] <= MaxFlight
BY DEF IInv, TypeOK, InBounds, InFlight, Verdicts

LEMMA CheckedStep ==
  ASSUME IInv, NEW t \in Tunnels, Checked(t)
  PROVE  IInv'
<1> DEFINE r == [v \in Verdicts |-> IF v \in Verdict(t) THEN reporting[t][v] + 1 ELSE reporting[t][v]]
<1>1. MaxFlight \in Nat
  BY HealthAssumption
<1>2. /\ checking[t] > 0 /\ checking' = [checking EXCEPT ![t] = @ - 1]
      /\ reporting' = [reporting EXCEPT ![t] = r]
      /\ UNCHANGED <<service, port, state, opening, refused, losses>>
  BY DEF Checked
<1>3. Verdict(t) = {"active"} \/ Verdict(t) = {"error"}
  BY DEF Verdict
<1>4. /\ r \in [Verdicts -> 0..MaxFlight]
      /\ checking[t] - 1 \in 0..MaxFlight
      /\ checking[t] - 1 + r["active"] + r["error"] <= MaxFlight
  BY <1>1, <1>2, <1>3, Reports DEF Verdicts
<1> HIDE DEF r
<1>5. /\ checking \in [Tunnels -> 0..MaxFlight]
      /\ reporting \in [Tunnels -> [Verdicts -> 0..MaxFlight]]
  BY DEF IInv, TypeOK
<1>6. /\ checking' \in [Tunnels -> 0..MaxFlight]
      /\ reporting' \in [Tunnels -> [Verdicts -> 0..MaxFlight]]
  BY <1>2, <1>4, <1>5
<1>7. \A u \in Tunnels : InFlight(u)' <= MaxFlight
  BY <1>2, <1>4, <1>5, Reports DEF InFlight
<1> QED BY <1>2, <1>6, <1>7 DEF IInv, TypeOK, InBounds

(* A report names a configured port, which is never None.                  *)
LEMMA ReportedStep ==
  ASSUME IInv, NEW t \in Tunnels, NEW v \in Verdicts, Reported(t, v)
  PROVE  IInv'
<1>1. MaxFlight \in Nat /\ RemotePort[t] # None
  BY HealthAssumption
<1>2. /\ reporting[t][v] > 0
      /\ reporting' = [reporting EXCEPT ![t][v] = @ - 1]
      /\ state' = [u \in Tunnels |-> IF port[u] = RemotePort[t] THEN v ELSE state[u]]
      /\ UNCHANGED <<service, port, checking, opening, refused, losses>>
  BY DEF Reported
<1> DEFINE r == [reporting[t] EXCEPT ![v] = @ - 1]
<1>3. reporting' = [reporting EXCEPT ![t] = r]
  BY <1>2
<1>4. /\ r \in [Verdicts -> 0..MaxFlight]
      /\ checking[t] + r["active"] + r["error"] <= MaxFlight
  BY <1>1, <1>2, Reports DEF Verdicts
<1> HIDE DEF r
<1>5. reporting \in [Tunnels -> [Verdicts -> 0..MaxFlight]]
  BY DEF IInv, TypeOK
<1>6. reporting' \in [Tunnels -> [Verdicts -> 0..MaxFlight]]
  BY <1>3, <1>4, <1>5
<1>7. \A u \in Tunnels : InFlight(u)' <= MaxFlight
  BY <1>2, <1>3, <1>4, <1>5, Reports DEF InFlight
<1>8. /\ state' \in [Tunnels -> {"idle", "active", "error"}]
      /\ \A u \in Tunnels : port[u] = None => state'[u] = "idle"
  BY <1>1, <1>2 DEF IInv, TypeOK, Verdicts
<1> QED BY <1>2, <1>6, <1>7, <1>8 DEF IInv, TypeOK, InBounds

LEMMA OtherSteps ==
  ASSUME IInv,
         \/ Reconnect \/ Interval
         \/ \E t \in Tunnels :
              ServiceTurns(t) \/ UserAccepted(t) \/ UserDialled(t) \/ UserRefused(t)
  PROVE  IInv'
<1>1. MaxFlight \in Nat \ {0} /\ MaxLosses \in Nat
  BY HealthAssumption
<1>2. CASE Reconnect
  BY <1>1, <1>2 DEF Reconnect, IInv, TypeOK, InBounds, InFlight, Nothing, NoReports, Verdicts
<1>3. CASE Interval
  <2>1. /\ checking' \in [Tunnels -> 0..MaxFlight]
        /\ \A t \in Tunnels : InFlight(t)' <= MaxFlight
    BY <1>1, <1>3, Reports DEF Interval, InFlight
  <2> QED BY <1>3, <2>1 DEF Interval, IInv, TypeOK, InBounds
<1>4. ASSUME NEW t \in Tunnels, ServiceTurns(t) PROVE IInv'
  BY <1>4 DEF ServiceTurns, IInv, TypeOK, InBounds, InFlight
<1>5. ASSUME NEW t \in Tunnels, UserAccepted(t) PROVE IInv'
  <2>1. /\ opening \in [Tunnels -> 0..MaxFlight] /\ refused \in [Tunnels -> 0..MaxFlight]
        /\ opening[t] + 1 + refused[t] <= MaxFlight /\ opening[t] + 1 \in 0..MaxFlight
    BY <1>1, <1>5 DEF UserAccepted, IInv, TypeOK
  <2>2. /\ opening' = [opening EXCEPT ![t] = @ + 1] /\ port[t] # None
        /\ state' = [state EXCEPT ![t] = "active"]
        /\ UNCHANGED <<service, port, checking, reporting, refused, losses>>
    BY <1>5 DEF UserAccepted
  <2>3. TypeOK'
    BY <2>1, <2>2 DEF IInv, TypeOK
  <2>4. InBounds'
    BY <2>1, <2>2 DEF IInv, InBounds, InFlight
  <2> QED BY <2>3, <2>4 DEF IInv
<1>6. ASSUME NEW t \in Tunnels, UserDialled(t) PROVE IInv'
  BY <1>1, <1>6 DEF UserDialled, IInv, TypeOK, InBounds, InFlight
<1>7. ASSUME NEW t \in Tunnels, UserRefused(t) PROVE IInv'
  <2>1. refused[t] \in Nat /\ refused[t] > 0 /\ port[t] # None
    BY <1>7 DEF UserRefused, IInv, TypeOK, InBounds
  <2> QED BY <1>1, <1>7, <2>1 DEF UserRefused, IInv, TypeOK, InBounds, InFlight
<1> QED BY <1>2, <1>3, <1>4, <1>5, <1>6, <1>7

(* The bounds hold in every reachable state.                               *)
THEOREM HealthInvariant == Spec => []IInv
<1>1. Init => IInv
  <2> SUFFICES ASSUME Init PROVE IInv
    OBVIOUS
  <2>1. MaxFlight \in Nat \ {0} /\ MaxLosses \in Nat
    BY HealthAssumption
  <2> QED BY <2>1 DEF Init, IInv, TypeOK, InBounds, InFlight, Nothing, NoReports, Verdicts
<1>2. IInv /\ [Next]_vars => IInv'
  <2> SUFFICES ASSUME IInv, [Next]_vars PROVE IInv'
    OBVIOUS
  <2>1. CASE UNCHANGED vars
    BY <2>1 DEF vars, IInv, TypeOK, InBounds, InFlight
  <2>2. CASE Next
    BY <2>2, CheckedStep, ReportedStep, OtherSteps DEF Next
  <2> QED BY <2>1, <2>2
<1> QED BY <1>1, <1>2, PTL DEF Spec

(* Every variable has its type, and no report or user gives a state to a   *)
(* tunnel that has no port.                                                *)
THEOREM HealthTypes == Spec => []TypeOK
BY HealthInvariant, PTL DEF IInv

=============================================================================
