-------------------------------- MODULE Health --------------------------------
(***************************************************************************)
(* What the status output says of a tunnel, TunnelInfo.State, and the two  *)
(* sources of it: the health checks of the client (checkTunnelHealth and   *)
(* reportTunnelHealth, one goroutine per tunnel and interval, reported to  *)
(* handleHealthReportRequest) and the user connections themselves          *)
(* (acceptClientConnections, handleClientConnection).                      *)
(*                                                                         *)
(* A check reads the local service, and its report arrives some time       *)
(* later, after that of a younger check if it so happens; a report names   *)
(* the configured port of its tunnel.  The ports are given to the tunnels  *)
(* anew with each SSH connection, in any order; TunnelClient models how.   *)
(***************************************************************************)
EXTENDS Integers, FiniteSets

CONSTANTS
  Tunnels,      \* the tunnels of the client's configuration
  Ports,
  RemotePort,   \* the configured port of each tunnel
  AnyPort,      \* port 0: the server chooses
  MaxFlight,    \* bound on the checks, and the users, of a tunnel at a time
  MaxLosses,    \* bound on the losses of the SSH connection
  None

ASSUME HealthAssumption ==
  /\ RemotePort \in [Tunnels -> Ports \cup {AnyPort}]
  /\ AnyPort \notin Ports /\ None \notin Ports \cup {AnyPort}
  /\ MaxFlight \in Nat \ {0} /\ MaxLosses \in Nat

VARIABLES
  service,    \* whether the local service of a tunnel answers
  port,       \* the port of a tunnel on the server, None if it was refused
  state,      \* TunnelInfo.State
  checking,   \* health checks that are dialling
  reporting,  \* reports on their way, by what they say
  opening,    \* user connections whose channel is being opened
  refused,    \* those the client has failed to connect
  losses

vars == <<service, port, state, checking, reporting, opening, refused, losses>>

Verdicts == {"active", "error"}   \* status 0 and 2 of a health report

(* The ports of a new connection: the one asked for, or any; none if it is *)
(* taken, by another tunnel or by the session before.                      *)
Given == {g \in [Tunnels -> Ports \cup {None}] :
            /\ \A t \in Tunnels : g[t] \in {None, RemotePort[t]} \/ RemotePort[t] = AnyPort
            /\ \A t, u \in Tunnels : t # u => g[t] # g[u] \/ g[t] = None}

Nothing   == [t \in Tunnels |-> 0]
NoReports == [t \in Tunnels |-> [v \in Verdicts |-> 0]]

Init ==
  /\ service = [t \in Tunnels |-> "up"]
  /\ port \in Given
  /\ state = [t \in Tunnels |-> "idle"]
  /\ checking = Nothing /\ reporting = NoReports
  /\ opening = Nothing /\ refused = Nothing
  /\ losses = 0

-----------------------------------------------------------------------------
ServiceTurns(t) ==
  /\ service' = [service EXCEPT ![t] = IF @ = "up" THEN "down" ELSE "up"]
  /\ UNCHANGED <<port, state, checking, reporting, opening, refused, losses>>

(* The connection is lost and made anew: new TunnelInfo objects; checks,   *)
(* reports and users of the old connection change nothing any more.        *)
Reconnect ==
  /\ losses < MaxLosses
  /\ losses' = losses + 1
  /\ port' \in Given
  /\ state' = [t \in Tunnels |-> "idle"]
  /\ checking' = Nothing /\ reporting' = NoReports
  /\ opening' = Nothing /\ refused' = Nothing
  /\ UNCHANGED service

InFlight(t) ==
  checking[t] + reporting[t]["active"] + reporting[t]["error"]

(* A tick of healthCheckLoop: one check for each tunnel, whether or not    *)
(* the previous ones have ended.                                           *)
Interval ==
  /\ \A t \in Tunnels : InFlight(t) < MaxFlight
  /\ checking' = [t \in Tunnels |-> checking[t] + 1]
  /\ UNCHANGED <<service, port, state, reporting, opening, refused, losses>>

(* Variant: only failures are reported.                                    *)
VerdictFailuresOnly(t) == IF service[t] = "up" THEN {} ELSE {"error"}

Verdict(t) == IF service[t] = "up" THEN {"active"} ELSE {"error"}

(* The dial of checkTunnelHealth ends.                                     *)
Checked(t) ==
  /\ checking[t] > 0
  /\ checking' = [checking EXCEPT ![t] = @ - 1]
  /\ reporting' = [reporting EXCEPT ![t] =
                     [v \in Verdicts |-> IF v \in Verdict(t) THEN @[v] + 1 ELSE @[v]]]
  /\ UNCHANGED <<service, port, state, opening, refused, losses>>

(* Variant: without the lookup of the port.                                *)
ReportedAnyway(t, v) ==
  /\ reporting[t][v] > 0
  /\ reporting' = [reporting EXCEPT ![t][v] = @ - 1]
  /\ state' = [state EXCEPT ![t] = v]
  /\ UNCHANGED <<service, port, checking, opening, refused, losses>>

(* handleHealthReportRequest: the tunnel that has the port of the report.  *)
Reported(t, v) ==
  /\ reporting[t][v] > 0
  /\ reporting' = [reporting EXCEPT ![t][v] = @ - 1]
  /\ state' = [u \in Tunnels |-> IF port[u] = RemotePort[t] THEN v ELSE state[u]]
  /\ UNCHANGED <<service, port, checking, opening, refused, losses>>

-----------------------------------------------------------------------------
(* A user is accepted and its channel requested.                           *)
UserAccepted(t) ==
  /\ port[t] # None
  /\ opening[t] + refused[t] < MaxFlight
  /\ state' = [state EXCEPT ![t] = "active"]
  /\ opening' = [opening EXCEPT ![t] = @ + 1]
  /\ UNCHANGED <<service, port, checking, reporting, refused, losses>>

(* The client dials the local service for it.                              *)
UserDialled(t) ==
  /\ opening[t] > 0
  /\ opening' = [opening EXCEPT ![t] = @ - 1]
  /\ refused' = [refused EXCEPT ![t] = IF service[t] = "up" THEN @ ELSE @ + 1]
  /\ UNCHANGED <<service, port, state, checking, reporting, losses>>

(* OpenChannel fails.                                                      *)
UserRefused(t) ==
  /\ refused[t] > 0
  /\ refused' = [refused EXCEPT ![t] = @ - 1]
  /\ state' = [state EXCEPT ![t] = "error"]
  /\ UNCHANGED <<service, port, checking, reporting, opening, losses>>

Next ==
  \/ Reconnect \/ Interval
  \/ \E t \in Tunnels :
       \/ ServiceTurns(t) \/ Checked(t) \/ \E v \in Verdicts : Reported(t, v)
       \/ UserAccepted(t) \/ UserDialled(t) \/ UserRefused(t)

Spec == Init /\ [][Next]_vars

(* The ticker ticks, dials end, requests are served.  Services, users and  *)
(* the network are free.                                                   *)
Fairness ==
  /\ WF_vars(Interval)
  /\ \A t \in Tunnels :
       /\ WF_vars(Checked(t)) /\ WF_vars(UserDialled(t)) /\ WF_vars(UserRefused(t))
       /\ \A v \in Verdicts : WF_vars(Reported(t, v))

FairSpec == Spec /\ Fairness

-----------------------------------------------------------------------------
(* Properties.                                                             *)

(* Every variable has its type, and a tunnel without a port has no state.  *)
TypeOK ==
  /\ service \in [Tunnels -> {"up", "down"}]
  /\ port \in Given
  /\ state \in [Tunnels -> {"idle", "active", "error"}]
  /\ \A t \in Tunnels : port[t] = None => state[t] = "idle"
  /\ checking \in [Tunnels -> 0..MaxFlight]
  /\ reporting \in [Tunnels -> [Verdicts -> 0..MaxFlight]]
  /\ opening \in [Tunnels -> 0..MaxFlight] /\ refused \in [Tunnels -> 0..MaxFlight]
  /\ losses \in 0..MaxLosses

(* "DOWN" is not shown for ever of a service that works, nor is it missing *)
(* for ever of one that does not, in whatever order reports and users      *)
(* arrive: for the tunnels that have the port they ask for.                *)
Settles(t) ==
  /\ <>[](service[t] = "up") => <>[](state[t] # "error")
  /\ <>[](service[t] = "down") => []<>(state[t] = "error")

StateSettles ==
  \A t \in Tunnels : RemotePort[t] # AnyPort => Settles(t) \/ <>[](port[t] = None)

-----------------------------------------------------------------------------
(* What the documentation says and the code does not keep; see README.     *)

(* "When the service behind a tunnel is unavailable its state is updated   *)
(* at once" (README.md:225), with the periodic checks of README.md:221.    *)
AllSettle == \A t \in Tunnels : Settles(t) \/ <>[](port[t] = None)

=============================================================================
