---------------------------- MODULE ServerTunnels ----------------------------
(***************************************************************************)
(* The tbore server after authentication: pkg/server/server.go.            *)
(*                                                                         *)
(* Goroutines of the server and where their position is kept:              *)
(*   handleConnection, one per SSH connection          conn[s]             *)
(*   its request loop (the first "go func", line 271)  worker[s], queue[s] *)
(*   acceptClientConnections, one per tunnel           loop[t]             *)
(*   handleClientConnection, one per user connection   user[u]             *)
(* They share connInfo.Tunnels (a Go map without a lock), the TunnelInfo   *)
(* objects and the port table of the operating system.  A map access that  *)
(* meets a write of another goroutine can end the process ("concurrent map *)
(* read and map write"), and so does Release on an empty semaphore; both   *)
(* set crashed, after which nothing moves.                                 *)
(*                                                                         *)
(* A session, a TunnelInfo and a user connection are used once, so the     *)
(* model ends when the identifiers are used up; every limit named below is *)
(* a limit on what arrives from outside, never on what the server does.    *)
(* Left out: logging, the replies (their content is what the next request  *)
(* of the client depends on, and requests here arrive in any order), the   *)
(* client-info request (it only stores two strings), the bytes relayed.    *)
(***************************************************************************)
EXTENDS Integers, Sequences, FiniteSets

CONSTANTS
  Sessions,            \* SSH connections that may arrive
  Ports,               \* TCP ports of the host
  Users,               \* connections of end users that may arrive
  TunnelIds,           \* TunnelInfo objects; bounds the forward requests
  Requests,            \* global requests that clients send
  AllowedPorts,        \* cfg.MinPort..cfg.MaxPort
  MaxConnections,      \* cfg.MaxConnections
  MaxTunnels,          \* cfg.MaxTunnels
  MaxConnsPerTunnel,   \* cfg.MaxConnsPerTunnel
  QueueLen,            \* bound on requests received and not yet served
  AnyPort,             \* port 0 of a forward request: the kernel chooses
  Nil

States == {"active", "idle", "error"}
Addrs  == {"", "bind", "local"}   \* no address, the bind address, local_ip:port

Request ==
  LET Numbers == Ports \cup {AnyPort}
  IN [type : {"forward", "cancel", "info"}, port : Numbers, arg : Addrs]
       \cup [type : {"health"}, port : Numbers, arg : States]

ASSUME ServerAssumption ==
  /\ TunnelIds \subseteq Nat
  /\ IsFiniteSet(Ports) /\ IsFiniteSet(Sessions)
  /\ AllowedPorts \subseteq Ports
  /\ AnyPort \notin Ports
  /\ Nil \notin Sessions \cup Ports \cup Users \cup TunnelIds
  /\ MaxConnections \in Nat \ {0} /\ MaxTunnels \in Nat \ {0}
  /\ MaxConnsPerTunnel \in Nat
  /\ QueueLen \in Nat \ {0}
  /\ Requests \subseteq Request

VARIABLES
  conn,         \* position of handleConnection
  sweep,        \* what its loop over connInfo.Tunnels has still to visit
  sem,          \* permits taken from Server.sem
  activeConns,  \* sessions registered in Server.activeConns
  queue,        \* global requests buffered by the SSH mux
  worker,       \* position of the request loop and the tunnel in its hands
  tunnels,      \* connInfo.Tunnels
  listener,     \* the open listener of each port, by TunnelInfo
  info,         \* the TunnelInfo objects
  loop,         \* position of acceptClientConnections
  user,         \* end user connections and their handleClientConnection
  crashed       \* "no", or what has ended the process

vars == <<conn, sweep, sem, activeConns, queue, worker, tunnels, listener,
          info, loop, user, crashed>>

sessionVars == <<conn, sweep, sem, activeConns>>
tunnelVars  == <<tunnels, listener, info>>

Unused   == [RemotePort |-> Nil, Owner |-> Nil, LocalAddr |-> "",
             State |-> "idle", ActiveConns |-> 0, connSem |-> 0]
NoLoop   == [pc |-> "off", user |-> Nil, tunnel |-> Nil, count |-> 0]
NoUser   == [pc |-> "away", via |-> Nil, held |-> Nil, tunnel |-> Nil, count |-> 0]
IdleWork == [pc |-> "idle", tunnel |-> Nil]

Init ==
  /\ conn = [s \in Sessions |-> "none"]
  /\ sweep = [s \in Sessions |-> [p \in Ports |-> "may"]]
  /\ sem = 0
  /\ activeConns = {}
  /\ queue = [s \in Sessions |-> <<>>]
  /\ worker = [s \in Sessions |-> IdleWork]
  /\ tunnels = [s \in Sessions |-> [p \in Ports |-> Nil]]
  /\ listener = [p \in Ports |-> Nil]
  /\ info = [t \in TunnelIds |-> Unused]
  /\ loop = [t \in TunnelIds |-> NoLoop]
  /\ user = [u \in Users |-> NoUser]
  /\ crashed = "no"

-----------------------------------------------------------------------------
(* A step the process survives; there is none after a crash.               *)
Alive == crashed = "no" /\ crashed' = "no"

(* connInfo.Tunnels[port] and what the map holds.                          *)
Lookup(s, p) == IF p \in Ports THEN tunnels[s][p] ELSE Nil

Tunnels(s) == {p \in Ports : tunnels[s][p] # Nil}

(* Variant: by port number instead of by tunnel.                           *)
InMapByPort(s, p) == {listener[p]} \ {Nil}

InMap(s, p) == {tunnels[s][p]} \ {Nil}

(* Variant: the listeners are forgotten, not closed.                       *)
CloseNothing(T) == UNCHANGED <<listener, user>>

(* Listener.Close on the listeners of T: the ports are free again and the  *)
(* kernel resets the connections nobody has accepted.                      *)
CloseListeners(T) ==
  /\ listener' = [p \in Ports |-> IF listener[p] \in T THEN Nil ELSE listener[p]]
  /\ user' = [u \in Users |->
                IF user[u].pc = "queued" /\ user[u].via \in T
                THEN [user[u] EXCEPT !.pc = "closed"] ELSE user[u]]

(* The request at the head of the queue of an idle request loop.           *)
Pending(s, type) ==
  /\ worker[s].pc = "idle"
  /\ queue[s] # <<>>
  /\ Head(queue[s]).type = type

Dequeue(s) == queue' = [queue EXCEPT ![s] = Tail(@)]

-----------------------------------------------------------------------------
(* Sessions: Server.Start and handleConnection.                            *)

(* A TCP connection is accepted and gets a permit; without one it is       *)
(* closed at once, which changes nothing here.                             *)
Accept(s) ==
  /\ Alive
  /\ conn[s] = "none"
  /\ sem < MaxConnections
  /\ sem' = sem + 1
  /\ conn' = [conn EXCEPT ![s] = "handshake"]
  /\ UNCHANGED <<sweep, activeConns, queue, worker, tunnelVars, loop, user>>

(* ssh.NewServerConn returns: the session is stored and its loops start.   *)
Establish(s) ==
  /\ Alive
  /\ conn[s] = "handshake"
  /\ conn' = [conn EXCEPT ![s] = "up"]
  /\ activeConns' = activeConns \cup {s}
  /\ UNCHANGED <<sweep, sem, queue, worker, tunnelVars, loop, user>>

(* Variant: an early return that keeps the permit.                         *)
RefuseKeepsPermit(s) ==
  /\ Alive
  /\ conn[s] = "handshake"
  /\ conn' = [conn EXCEPT ![s] = "gone"]
  /\ UNCHANGED <<sweep, sem, activeConns, queue, worker, tunnelVars, loop, user>>

(* The IP is blocked, or the handshake or the authentication fails.        *)
Refuse(s) ==
  /\ Alive
  /\ conn[s] = "handshake"
  /\ conn' = [conn EXCEPT ![s] = "closing"]
  /\ UNCHANGED <<sweep, sem, activeConns, queue, worker, tunnelVars, loop, user>>

(* The SSH connection ends, for any reason: sshConn.Wait returns.          *)
Lose(s) ==
  /\ Alive
  /\ conn[s] = "up"
  /\ conn' = [conn EXCEPT ![s] = "lost"]
  /\ UNCHANGED <<sweep, sem, activeConns, queue, worker, tunnelVars, loop, user>>

(* The loop over connInfo.Tunnels closes the listeners one after another   *)
(* while the request loop may still write the map: "range" visits what was *)
(* there when it began and was not deleted since, once, and may or may not *)
(* visit what is inserted meanwhile.                                       *)
SweepBegin(s) ==
  /\ Alive
  /\ conn[s] = "lost"
  /\ conn' = [conn EXCEPT ![s] = "sweeping"]
  /\ sweep' = [sweep EXCEPT ![s] = [p \in Ports |-> IF p \in Tunnels(s) THEN "must" ELSE "may"]]
  /\ UNCHANGED <<sem, activeConns, queue, worker, tunnelVars, loop, user>>

SweepClose(s, p) ==
  /\ Alive
  /\ conn[s] = "sweeping"
  /\ p \in Tunnels(s) /\ sweep[s][p] # "not"
  /\ CloseListeners(InMap(s, p))
  /\ sweep' = [sweep EXCEPT ![s][p] = "not"]
  /\ UNCHANGED <<conn, sem, activeConns, queue, worker, tunnels, info, loop>>

SweepEnd(s) ==
  /\ Alive
  /\ conn[s] = "sweeping"
  /\ \A p \in Ports : sweep[s][p] # "must"
  /\ conn' = [conn EXCEPT ![s] = "swept"]
  /\ sweep' = [sweep EXCEPT ![s] = [p \in Ports |-> "may"]]
  /\ UNCHANGED <<sem, activeConns, queue, worker, tunnelVars, loop, user>>

Sweep(s) == SweepBegin(s) \/ (\E p \in Ports : SweepClose(s, p)) \/ SweepEnd(s)

(* Variant: the session waits for its relays before it is unregistered.    *)
UnregisterWaits(s) ==
  /\ Alive
  /\ conn[s] = "swept"
  /\ \A u \in Users : user[u].pc = "relay" => info[user[u].via].Owner # s
  /\ conn' = [conn EXCEPT ![s] = "closing"]
  /\ activeConns' = activeConns \ {s}
  /\ UNCHANGED <<sweep, sem, queue, worker, tunnelVars, loop, user>>

(* activeConns.Delete(sessionID).                                          *)
Unregister(s) ==
  /\ Alive
  /\ conn[s] = "swept"
  /\ conn' = [conn EXCEPT ![s] = "closing"]
  /\ activeConns' = activeConns \ {s}
  /\ UNCHANGED <<sweep, sem, queue, worker, tunnelVars, loop, user>>

(* The deferred conn.Close and sem.Release.                                *)
Release(s) ==
  /\ Alive
  /\ conn[s] = "closing"
  /\ conn' = [conn EXCEPT ![s] = "gone"]
  /\ sem' = sem - 1
  /\ UNCHANGED <<sweep, activeConns, queue, worker, tunnelVars, loop, user>>

-----------------------------------------------------------------------------
(* The request loop of a session.  What the mux has buffered when the      *)
(* connection ends is still delivered, so a request can be served after    *)
(* the session is lost, swept or gone.                                     *)

QueuedForwards ==
  {q \in Sessions \X (1..QueueLen) : /\ q[2] \in DOMAIN queue[q[1]]
                                     /\ queue[q[1]][q[2]].type = "forward"}

(* Forward requests are bounded by the TunnelInfo objects left.            *)
RoomForForward ==
  Cardinality(QueuedForwards) < Cardinality({t \in TunnelIds : info[t] = Unused})

Receive(s, r) ==
  /\ Alive
  /\ conn[s] = "up"
  /\ Len(queue[s]) < QueueLen
  /\ r.type = "forward" => RoomForForward
  /\ queue' = [queue EXCEPT ![s] = Append(@, r)]
  /\ UNCHANGED <<sessionVars, worker, tunnelVars, loop, user>>

(* Variant: listeners that share their port.                               *)
BindableShared(port) ==
  {p \in Ports : IF port = AnyPort THEN TRUE ELSE p = port /\ p \in AllowedPorts}

(* The ports a forward request can bind: net.Listen fails on a port with   *)
(* an open listener; port 0 lets the kernel choose any free port.          *)
Bindable(port) ==
  {p \in Ports : /\ listener[p] = Nil
                 /\ IF port = AnyPort THEN TRUE
                    ELSE p = port /\ p \in AllowedPorts}

(* Variant: off by one.                                                    *)
TunnelLimitExceeded(s) == Cardinality(Tunnels(s)) > MaxTunnels

TunnelLimit(s) == Cardinality(Tunnels(s)) >= MaxTunnels

ForwardRefused(s) ==
  /\ Alive
  /\ Pending(s, "forward")
  /\ TunnelLimit(s) \/ Bindable(Head(queue[s]).port) = {}
  /\ Dequeue(s)
  /\ UNCHANGED <<sessionVars, worker, tunnelVars, loop, user>>

(* Variant: the port that was asked for instead of the one bound.          *)
NewTunnelAsAsked(s, p, r) ==
  [Unused EXCEPT !.RemotePort = r.port, !.Owner = s, !.LocalAddr = r.arg]

(* The TunnelInfo of session s on the bound port p for request r.          *)
NewTunnel(s, p, r) ==
  [RemotePort |-> p, Owner |-> s, LocalAddr |-> r.arg,
   State |-> "idle", ActiveConns |-> 0, connSem |-> 0]

(* handleForwardRequest up to net.Listen: the port is bound and the map    *)
(* is about to be written.                                                 *)
ForwardListen(s) ==
  /\ Alive
  /\ Pending(s, "forward")
  /\ ~TunnelLimit(s)
  /\ \E p \in Bindable(Head(queue[s]).port), t \in TunnelIds :
       /\ info[t] = Unused
       /\ \A v \in TunnelIds : v < t => info[v] # Unused
       /\ listener' = [listener EXCEPT ![p] = t]
       /\ info' = [info EXCEPT ![t] = NewTunnel(s, p, Head(queue[s]))]
       /\ worker' = [worker EXCEPT ![s] = [pc |-> "inserting", tunnel |-> t]]
  /\ Dequeue(s)
  /\ UNCHANGED <<sessionVars, tunnels, loop, user>>

(* The map write, the reply and "go s.acceptClientConnections".            *)
ForwardInsert(s) ==
  LET t == worker[s].tunnel
  IN /\ Alive
     /\ worker[s].pc = "inserting"
     /\ tunnels' = [tunnels EXCEPT ![s][info[t].RemotePort] = t]
     /\ loop' = [loop EXCEPT ![t].pc = "wait"]
     /\ worker' = [worker EXCEPT ![s] = IdleWork]
     /\ UNCHANGED <<sessionVars, queue, listener, info, user>>

(* handleCancelForwardRequest for a port the session does not hold.        *)
CancelMiss(s) ==
  /\ Alive
  /\ Pending(s, "cancel")
  /\ Lookup(s, Head(queue[s]).port) = Nil
  /\ Dequeue(s)
  /\ UNCHANGED <<sessionVars, worker, tunnelVars, loop, user>>

(* handleCancelForwardRequest: the listener is closed ...                  *)
CancelClose(s) ==
  LET t == Lookup(s, Head(queue[s]).port)
  IN /\ Alive
     /\ Pending(s, "cancel")
     /\ t # Nil
     /\ CloseListeners({t})
     /\ worker' = [worker EXCEPT ![s] = [pc |-> "deleting", tunnel |-> t]]
     /\ Dequeue(s)
     /\ UNCHANGED <<sessionVars, tunnels, info, loop>>

(* ... and the tunnel is deleted from the map.                             *)
CancelDelete(s) ==
  LET t == worker[s].tunnel
  IN /\ Alive
     /\ worker[s].pc = "deleting"
     /\ tunnels' = [tunnels EXCEPT ![s][info[t].RemotePort] = Nil]
     /\ sweep' = [sweep EXCEPT ![s][info[t].RemotePort] = "may"]
     /\ worker' = [worker EXCEPT ![s] = IdleWork]
     /\ UNCHANGED <<conn, sem, activeConns, queue, listener, info, loop, user>>

(* handleTunnelInfoRequest: name, local address and timeout of a tunnel.   *)
TunnelInfo(s) ==
  LET r == Head(queue[s])
      t == Lookup(s, r.port)
  IN /\ Alive
     /\ Pending(s, "info")
     /\ info' = IF t = Nil THEN info ELSE [info EXCEPT ![t].LocalAddr = r.arg]
     /\ Dequeue(s)
     /\ UNCHANGED <<sessionVars, worker, tunnels, listener, loop, user>>

(* handleHealthReportRequest: the client's verdict on the local service.   *)
HealthReport(s) ==
  LET r == Head(queue[s])
      t == Lookup(s, r.port)
  IN /\ Alive
     /\ Pending(s, "health")
     /\ info' = IF t = Nil THEN info ELSE [info EXCEPT ![t].State = r.arg]
     /\ Dequeue(s)
     /\ UNCHANGED <<sessionVars, worker, tunnels, listener, loop, user>>

Serve(s) ==
  \/ ForwardRefused(s) \/ ForwardListen(s) \/ ForwardInsert(s)
  \/ CancelMiss(s) \/ CancelClose(s) \/ CancelDelete(s)
  \/ TunnelInfo(s) \/ HealthReport(s)

-----------------------------------------------------------------------------
(* A tunnel's accept loop.  It knows its listener, its session and its     *)
(* port, and looks the TunnelInfo up again for every connection.           *)

Current(t) == tunnels[info[t].Owner][info[t].RemotePort]

CloseUser(u) == user' = [user EXCEPT ![u].pc = "closed"]

(* An end user connects to an open port and waits in its backlog.          *)
UserConnect(u, p) ==
  /\ Alive
  /\ user[u].pc = "away"
  /\ listener[p] # Nil
  /\ user' = [user EXCEPT ![u].pc = "queued", ![u].via = listener[p]]
  /\ UNCHANGED <<sessionVars, queue, worker, tunnelVars, loop>>

LoopAccept(t, u) ==
  /\ Alive
  /\ loop[t].pc = "wait"
  /\ user[u].pc = "queued" /\ user[u].via = t
  /\ loop' = [loop EXCEPT ![t].pc = "lookup", ![t].user = u]
  /\ user' = [user EXCEPT ![u].pc = "accepted"]
  /\ UNCHANGED <<sessionVars, queue, worker, tunnelVars>>

(* Accept fails on a closed listener, and the loop returns.                *)
LoopStop(t) ==
  /\ Alive
  /\ loop[t].pc = "wait"
  /\ \A p \in Ports : listener[p] # t
  /\ loop' = [loop EXCEPT ![t].pc = "off"]
  /\ UNCHANGED <<sessionVars, queue, worker, tunnelVars, user>>

(* Variant: a return that leaves the connection open.                      *)
LoopGoneLeaks(t) ==
  /\ Alive
  /\ loop[t].pc = "lookup"
  /\ Current(t) = Nil
  /\ loop' = [loop EXCEPT ![t] = NoLoop]
  /\ UNCHANGED <<sessionVars, queue, worker, tunnelVars, user>>

(* The tunnel is no longer in the map: close the connection and return.    *)
LoopGone(t) ==
  /\ Alive
  /\ loop[t].pc = "lookup"
  /\ Current(t) = Nil
  /\ CloseUser(loop[t].user)
  /\ loop' = [loop EXCEPT ![t] = NoLoop]
  /\ UNCHANGED <<sessionVars, queue, worker, tunnelVars>>

(* connSem.TryAcquire fails: close the connection and go on.               *)
LoopFull(t) ==
  /\ Alive
  /\ loop[t].pc = "lookup"
  /\ Current(t) # Nil
  /\ info[Current(t)].connSem >= MaxConnsPerTunnel
  /\ CloseUser(loop[t].user)
  /\ loop' = [loop EXCEPT ![t] = [NoLoop EXCEPT !.pc = "wait"]]
  /\ UNCHANGED <<sessionVars, queue, worker, tunnelVars>>

(* Variant: a permit that is not counted when it is taken.                 *)
LoopAcquireUncounted(t) ==
  LET c == Current(t)
  IN /\ Alive
     /\ loop[t].pc = "lookup"
     /\ c # Nil
     /\ info[c].connSem < MaxConnsPerTunnel
     /\ info' = [info EXCEPT ![c].State = "active"]
     /\ loop' = [loop EXCEPT ![t].pc = "count", ![t].tunnel = c,
                             ![t].count = info[c].ActiveConns]
     /\ UNCHANGED <<sessionVars, queue, worker, tunnels, listener, user>>

(* A permit is taken, the state set, and ActiveConns loaded for the ++.    *)
LoopAcquire(t) ==
  LET c == Current(t)
  IN /\ Alive
     /\ loop[t].pc = "lookup"
     /\ c # Nil
     /\ info[c].connSem < MaxConnsPerTunnel
     /\ info' = [info EXCEPT ![c].connSem = @ + 1, ![c].State = "active"]
     /\ loop' = [loop EXCEPT ![t].pc = "count", ![t].tunnel = c,
                             ![t].count = info[c].ActiveConns]
     /\ UNCHANGED <<sessionVars, queue, worker, tunnels, listener, user>>

(* ActiveConns is stored and "go s.handleClientConnection" starts.         *)
LoopSpawn(t) ==
  LET c == loop[t].tunnel
  IN /\ Alive
     /\ loop[t].pc = "count"
     /\ info' = [info EXCEPT ![c].ActiveConns = loop[t].count + 1]
     /\ user' = [user EXCEPT ![loop[t].user].pc = "spawned",
                             ![loop[t].user].held = c]
     /\ loop' = [loop EXCEPT ![t] = [NoLoop EXCEPT !.pc = "wait"]]
     /\ UNCHANGED <<sessionVars, queue, worker, tunnels, listener>>

LoopStep(t) ==
  \/ \E u \in Users : LoopAccept(t, u)
  \/ LoopStop(t) \/ LoopGone(t) \/ LoopFull(t) \/ LoopAcquire(t) \/ LoopSpawn(t)

-----------------------------------------------------------------------------
(* handleClientConnection.  Its tunnel is whatever the map holds under the *)
(* port when it starts; the deferred function releases that one.           *)

Session(u) == info[user[u].via].Owner

(* Variant: the early return comes before the deferred release.            *)
AfterStartEarly(c) ==
  IF c = Nil THEN "closed" ELSE IF info[c].LocalAddr = "" THEN "closed" ELSE "open"

(* No tunnel: nothing to release.  No address: release at once.            *)
AfterStart(c) ==
  IF c = Nil THEN "closed" ELSE IF info[c].LocalAddr = "" THEN "release" ELSE "open"

HandlerStart(u) ==
  LET c == Current(user[u].via)
  IN /\ Alive
     /\ user[u].pc = "spawned"
     /\ user' = [user EXCEPT
                   ![u].tunnel = c,
                   ![u].pc = AfterStart(c)]
     /\ UNCHANGED <<sessionVars, queue, worker, tunnelVars, loop>>

(* sshConn.OpenChannel: the client accepts the channel ...                 *)
HandlerOpen(u) ==
  /\ Alive
  /\ user[u].pc = "open"
  /\ conn[Session(u)] = "up"
  /\ user' = [user EXCEPT ![u].pc = "relay"]
  /\ UNCHANGED <<sessionVars, queue, worker, tunnelVars, loop>>

(* ... or refuses it, or the connection is lost.                           *)
HandlerOpenFail(u) ==
  /\ Alive
  /\ user[u].pc = "open"
  /\ info' = [info EXCEPT ![user[u].tunnel].State = "error"]
  /\ user' = [user EXCEPT ![u].pc = "release"]
  /\ UNCHANGED <<sessionVars, queue, worker, tunnels, listener, loop>>

(* Both copies have ended (when they do is the subject of Relay).          *)
HandlerEnd(u) ==
  /\ Alive
  /\ user[u].pc = "relay"
  /\ user' = [user EXCEPT ![u].pc = "release"]
  /\ UNCHANGED <<sessionVars, queue, worker, tunnelVars, loop>>

(* connSem.Release, and ActiveConns is loaded for the --.  Releasing more  *)
(* than is held is a panic of the semaphore package.                       *)
HandlerRelease(u) ==
  LET c == user[u].tunnel
  IN /\ crashed = "no"
     /\ user[u].pc = "release"
     /\ IF info[c].connSem = 0
        THEN /\ crashed' = "overRelease"
             /\ UNCHANGED <<info, user>>
        ELSE /\ info' = [info EXCEPT ![c].connSem = @ - 1]
             /\ user' = [user EXCEPT ![u].pc = "count",
                                     ![u].count = info[c].ActiveConns]
             /\ UNCHANGED crashed
     /\ UNCHANGED <<sessionVars, queue, worker, tunnels, listener, loop>>

HandlerDone(u) ==
  /\ Alive
  /\ user[u].pc = "count"
  /\ info' = [info EXCEPT ![user[u].tunnel].ActiveConns = user[u].count - 1]
  /\ CloseUser(u)
  /\ UNCHANGED <<sessionVars, queue, worker, tunnels, listener, loop>>

HandlerStep(u) ==
  \/ HandlerStart(u) \/ HandlerOpen(u) \/ HandlerOpenFail(u) \/ HandlerEnd(u)
  \/ HandlerRelease(u) \/ HandlerDone(u)

-----------------------------------------------------------------------------
(* The runtime ends the process when it sees an access of a map during a   *)
(* write of another goroutine.  The writes are the steps that follow       *)
(* "inserting" and "deleting"; the other accesses are the loop over the    *)
(* tunnels of a lost session, the lookups of the accept loops and of the   *)
(* handlers, and ServerStatus.String for a session still registered.       *)

Writing(s) == worker[s].pc \in {"inserting", "deleting"}

Reading(s) ==
  \/ conn[s] = "sweeping"
  \/ s \in activeConns
  \/ \E t \in TunnelIds : loop[t].pc = "lookup" /\ info[t].Owner = s
  \/ \E u \in Users : user[u].pc = "spawned" /\ Session(u) = s

MapRace(s) ==
  /\ crashed = "no"
  /\ Writing(s) /\ Reading(s)
  /\ crashed' = "mapRace"
  /\ UNCHANGED <<sessionVars, queue, worker, tunnelVars, loop, user>>

-----------------------------------------------------------------------------
SessionStep(s) ==
  \/ Accept(s) \/ Establish(s) \/ Refuse(s) \/ Lose(s)
  \/ Sweep(s) \/ Unregister(s) \/ Release(s)
  \/ \E r \in Requests : Receive(s, r)
  \/ Serve(s)
  \/ MapRace(s)

UserStep(u) == \/ \E p \in Ports : UserConnect(u, p)
               \/ HandlerStep(u)

Next ==
  \/ \E s \in Sessions : SessionStep(s)
  \/ \E t \in TunnelIds : LoopStep(t)
  \/ \E u \in Users : UserStep(u)

Spec == Init /\ [][Next]_vars

(* The Go scheduler runs every goroutine that can move.  Nothing is        *)
(* assumed of clients, end users and the network: sessions need not be     *)
(* lost, requests and users need not arrive, a channel need not be opened  *)
(* and a relay need not end; OpenChannel fails once the session is lost.   *)
FairSession(s) ==
  /\ WF_vars(Sweep(s)) /\ WF_vars(Unregister(s)) /\ WF_vars(Release(s))
  /\ WF_vars(Serve(s))

FairUser(u) ==
  /\ WF_vars(HandlerStart(u))
  /\ WF_vars(HandlerOpenFail(u) /\ conn[Session(u)] # "up")
  /\ WF_vars(HandlerRelease(u)) /\ WF_vars(HandlerDone(u))

Fairness ==
  /\ \A s \in Sessions : FairSession(s)
  /\ \A t \in TunnelIds : WF_vars(LoopStep(t))
  /\ \A u \in Users : FairUser(u)

FairSpec == Spec /\ Fairness

-----------------------------------------------------------------------------
(* Properties.                                                             *)

ConnStates ==
  {"none", "handshake", "up", "lost", "sweeping", "swept", "closing", "gone"}

TunnelInfos ==
  [RemotePort : Ports \cup {Nil}, Owner : Sessions \cup {Nil}, LocalAddr : Addrs,
   State : States, ActiveConns : Int, connSem : Nat]

Workers == [pc : {"idle", "inserting", "deleting"}, tunnel : TunnelIds \cup {Nil}]

Loops == [pc : {"off", "wait", "lookup", "count"}, user : Users \cup {Nil},
          tunnel : TunnelIds \cup {Nil}, count : Int]

UserConns ==
  [pc : {"away", "queued", "accepted", "spawned", "open",
         "relay", "release", "count", "closed"},
   via : TunnelIds \cup {Nil}, held : TunnelIds \cup {Nil},
   tunnel : TunnelIds \cup {Nil}, count : Int]

(* Every variable has its type; in particular a TunnelInfo holds the port  *)
(* that was bound, never the port 0 that was asked for.                    *)
TypeOK ==
  /\ conn \in [Sessions -> ConnStates]
  /\ sweep \in [Sessions -> [Ports -> {"may", "must", "not"}]]
  /\ sem \in Int
  /\ activeConns \subseteq Sessions
  /\ queue \in [Sessions -> Seq(Requests)]
  /\ worker \in [Sessions -> Workers]
  /\ tunnels \in [Sessions -> [Ports -> TunnelIds \cup {Nil}]]
  /\ listener \in [Ports -> TunnelIds \cup {Nil}]
  /\ info \in [TunnelIds -> TunnelInfos]
  /\ loop \in [TunnelIds -> Loops]
  /\ user \in [Users -> UserConns]
  /\ crashed \in {"no", "mapRace", "overRelease"}

HeldBy(s) == {p \in Ports : listener[p] # Nil /\ info[listener[p]].Owner = s}

(* max_tunnels_per_client: neither the map of a session nor the ports it   *)
(* really has open exceed the limit, also after a lost session's ports     *)
(* were closed and a late forward request is served (line 435).            *)
TunnelQuota ==
  \A s \in Sessions : /\ Cardinality(Tunnels(s)) <= MaxTunnels
                      /\ Cardinality(HeldBy(s)) <= MaxTunnels

(* The clean-up has not come to port p of session s yet.                   *)
Unswept(s, p) == conn[s] \in {"up", "lost"} \/ sweep[s][p] = "must"

(* The map of a session and the ports of the host agree: a tunnel in the   *)
(* map has its port open, until the clean-up comes to it, unless its       *)
(* cancellation is under way, and an open port is in the map of its        *)
(* session or about to be.                                                 *)
PortsAccounted ==
  /\ \A s \in Sessions, p \in Ports :
       tunnels[s][p] # Nil /\ Unswept(s, p) =>
         \/ listener[p] = tunnels[s][p]
         \/ worker[s] = [pc |-> "deleting", tunnel |-> tunnels[s][p]]
  /\ \A p \in Ports : listener[p] # Nil =>
       LET s == info[listener[p]].Owner
       IN \/ tunnels[s][p] = listener[p]
          \/ worker[s] = [pc |-> "inserting", tunnel |-> listener[p]]

(* What the clean-up of lines 303-311 can miss is bounded: the port that   *)
(* the request loop was binding when the loop over the map began, and one  *)
(* port for each request that the mux still had buffered.                  *)
LeftOpenBounded ==
  \A s \in Sessions : conn[s] \in {"swept", "closing", "gone"} =>
    Cardinality(HeldBy(s)) + Len(queue[s]) <= QueueLen + 1

(* The ports as PortLeases sees them: a port belongs to the session whose  *)
(* listener is open on it.                                                 *)
PortOwner == [p \in Ports |-> IF listener[p] = Nil THEN Nil
                             ELSE info[listener[p]].Owner]

Leases == INSTANCE PortLeases
            WITH Clients <- Sessions, Quota <- MaxTunnels, None <- Nil,
                 owner <- PortOwner

(* The server implements the exclusive leases of PortLeases.               *)
ImplementsLeases == Leases!Spec

(* max_connections: a permit is held by exactly the connections between    *)
(* their acceptance and the end of handleConnection, and the status shows  *)
(* exactly the sessions that are established and not yet cleaned up.       *)
Admission ==
  /\ sem = Cardinality({s \in Sessions : conn[s] \notin {"none", "gone"}})
  /\ sem <= MaxConnections
  /\ activeConns = {s \in Sessions : conn[s] \in {"up", "lost", "sweeping", "swept"}}

(* The connections whose handler will return, or holds, a permit of t.     *)
Holders(t) == {u \in Users : \/ user[u].pc = "spawned" /\ user[u].held = t
                            \/ /\ user[u].pc \in {"open", "relay", "release"}
                               /\ user[u].tunnel = t}

Acquiring(t) == {v \in TunnelIds : loop[v].pc = "count" /\ loop[v].tunnel = t}

(* The session has bound the port of t only once.                          *)
Sole(t) == \A v \in TunnelIds \ {t} : \/ info[v].Owner # info[t].Owner
                                      \/ info[v].RemotePort # info[t].RemotePort

(* max_conns_per_tunnel: while its port was bound only once, a tunnel      *)
(* never serves more connections than its semaphore counts nor more than   *)
(* the limit, and while it is in the map no permit is lost on any path.    *)
PermitsMatch ==
  \A t \in TunnelIds : info[t] # Unused /\ Sole(t) =>
    LET inUse == Cardinality(Holders(t)) + Cardinality(Acquiring(t))
    IN /\ inUse <= info[t].connSem
       /\ info[t].connSem <= MaxConnsPerTunnel
       /\ Current(t) = t => inUse = info[t].connSem

(* No connection of an end user is left to nobody (lines 466-495): while   *)
(* it is in a backlog its port is open and an accept loop runs or is about *)
(* to start for it, and an accepted one is in the hands of that loop.      *)
UsersAttended ==
  \A u \in Users :
    LET t == user[u].via
    IN /\ user[u].pc = "queued" =>
            /\ \E p \in Ports : listener[p] = t
            /\ \/ loop[t].pc # "off"
               \/ \E s \in Sessions : worker[s] = [pc |-> "inserting", tunnel |-> t]
       /\ user[u].pc = "accepted" =>
            loop[t].pc \in {"lookup", "count"} /\ loop[t].user = u

(* The semaphore panics (lines 507-510) only where a session has bound a   *)
(* port again: then the handler may look up another tunnel than the one    *)
(* its permit is of.  On every other path a permit is there to return.     *)
PanicsOnlyRebound ==
  crashed = "overRelease" =>
    \E t \in TunnelIds : info[t] # Unused /\ ~Sole(t)

(* A port is never taken from a session: an open listener closes only by   *)
(* the session's own cancel request or when that session is cleaned up.    *)
OnlyOwnerCloses ==
  [][\A p \in Ports : listener[p] # Nil /\ listener'[p] # listener[p] =>
       LET s == info[listener[p]].Owner
       IN /\ listener'[p] = Nil
          /\ \/ conn[s] = "sweeping"
             \/ worker'[s] = [pc |-> "deleting", tunnel |-> listener[p]]]_vars

(* A lost session is swept, unregistered and gives its permit back.        *)
SessionReleased ==
  \A s \in Sessions : conn[s] = "lost" ~> (conn[s] = "gone" \/ crashed # "no")

(* A user connection of a lost session that does not relay yet is closed:  *)
(* none stays in a backlog, at an accept loop or at OpenChannel.           *)
UsersAnswered ==
  \A u \in Users :
    (/\ user[u].pc \in {"queued", "accepted", "spawned", "open"}
     /\ conn[Session(u)] # "up")
      ~> (user[u].pc \in {"relay", "closed"} \/ crashed # "no")

-----------------------------------------------------------------------------
(* What the documentation says and the code does not keep; see README.     *)

(* "The ports of a client that goes offline are released at once"          *)
(* (README.md:13): nothing is left open of a session that is gone and has  *)
(* no request left to serve.                                               *)
PortsReleased ==
  \A s \in Sessions :
    conn[s] = "gone" /\ queue[s] = <<>> /\ worker[s] = IdleWork => HeldBy(s) = {}

(* The deferred function returns the permit of the tunnel on every path    *)
(* (comment at line 507), so no semaphore is released below zero.          *)
PermitsReturned == crashed # "overRelease"

=============================================================================
