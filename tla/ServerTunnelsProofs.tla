-------------------------- MODULE ServerTunnelsProofs --------------------------
(***************************************************************************)
(* Proofs about ServerTunnels: type correctness, the limits on sessions,   *)
(* tunnels and connections per tunnel, the agreement of maps and open      *)
(* ports, that only its owner closes a port, and that the server           *)
(* implements PortLeases; what a clean-up can leave open, that no user is  *)
(* left to nobody, and what a panic of a semaphore shows.                  *)
(***************************************************************************)
EXTENDS ServerTunnels, FiniteSetTheorems, TLAPS

Used(t) == info[t].Owner \in Sessions /\ info[t].RemotePort \in Ports

(* Whatever refers to a TunnelInfo refers to one that was made.            *)
PortRefs ==
  /\ \A p \in Ports : listener[p] # Nil =>
       Used(listener[p]) /\ info[listener[p]].RemotePort = p
  /\ \A s \in Sessions, p \in Ports : tunnels[s][p] # Nil =>
       info[tunnels[s][p]].Owner = s /\ info[tunnels[s][p]].RemotePort = p
  /\ \A s \in Sessions : worker[s].pc # "idle" =>
       /\ worker[s].tunnel \in TunnelIds
       /\ info[worker[s].tunnel].Owner = s
       /\ info[worker[s].tunnel].RemotePort \in Ports

UserRefs ==
  /\ \A t \in TunnelIds : loop[t].pc # "off" => Used(t)
  /\ \A t \in TunnelIds : loop[t].pc \in {"lookup", "count"} =>
       loop[t].user \in Users /\ user[loop[t].user].pc # "away"
  /\ \A t \in TunnelIds : loop[t].pc = "count" => loop[t].tunnel \in TunnelIds
  /\ \A u \in Users : user[u].pc # "away" =>
       user[u].via \in TunnelIds /\ Used(user[u].via)
  /\ \A u \in Users : user[u].pc \in {"open", "relay", "release", "count"} =>
       user[u].tunnel \in TunnelIds

(* The tunnels in the map of a session.                                    *)
Registered(s) == {tunnels[s][p] : p \in Tunnels(s)}

(* What a request loop holds between its two steps.                        *)
WorkerSound ==
  \A s \in Sessions :
    LET t == worker[s].tunnel
    IN /\ worker[s].pc = "inserting" =>
            listener[info[t].RemotePort] = t /\ tunnels[s][info[t].RemotePort] # t
       /\ worker[s].pc = "deleting" =>
            /\ \A p \in Ports : listener[p] # t
            /\ tunnels[s][info[t].RemotePort] = t

(* A session that is not established has asked for nothing.                *)
FreshSession ==
  \A s \in Sessions : conn[s] \in {"none", "handshake"} =>
    /\ queue[s] = <<>>
    /\ worker[s].pc = "idle"
    /\ \A p \in Ports : tunnels[s][p] = Nil

(* The tunnels of a session and the one about to be inserted.              *)
Claims(s) == {p \in Ports : \/ tunnels[s][p] # Nil
                            \/ /\ worker[s].pc = "inserting"
                               /\ info[worker[s].tunnel].RemotePort = p}

ClaimQuota == \A s \in Sessions : Cardinality(Claims(s)) <= MaxTunnels

IInv == /\ TypeOK /\ PortRefs /\ UserRefs
        /\ WorkerSound /\ FreshSession /\ PortsAccounted /\ ClaimQuota

-----------------------------------------------------------------------------
(* Small facts.                                                            *)

(* Serving the head of a queue leaves a queue of requests, and the head is *)
(* a request.                                                              *)
LEMMA QueueHead ==
  ASSUME TypeOK, NEW s \in Sessions, queue[s] # <<>>
  PROVE  /\ Head(queue[s]) \in Requests
         /\ Tail(queue[s]) \in Seq(Requests)
         /\ Head(queue[s]).type \in {"forward", "info"} => Head(queue[s]).arg \in Addrs
         /\ Head(queue[s]).type = "health" => Head(queue[s]).arg \in States
<1>1. queue[s] \in Seq(Requests)
  BY DEF TypeOK
<1>2. Head(queue[s]) \in Requests /\ Tail(queue[s]) \in Seq(Requests)
  BY <1>1
<1>3. Head(queue[s]) \in Request
  BY <1>2, ServerAssumption
<1> QED
  BY <1>2, <1>3 DEF Request

(* The queues keep their type when a request is taken.                     *)
LEMMA DequeueType ==
  ASSUME TypeOK, NEW s \in Sessions, queue[s] # <<>>, Dequeue(s)
  PROVE  queue' \in [Sessions -> Seq(Requests)]
BY QueueHead DEF TypeOK, Dequeue

(* No session, port, user or tunnel is Nil.                                *)
LEMMA NilFresh ==
  Nil \notin Sessions /\ Nil \notin Ports /\ Nil \notin Users /\ Nil \notin TunnelIds
BY ServerAssumption

(* Closing listeners keeps the types and only closes.                      *)
LEMMA CloseListenersType ==
  ASSUME TypeOK, NEW T, CloseListeners(T)
  PROVE  /\ listener' \in [Ports -> TunnelIds \cup {Nil}]
         /\ user' \in [Users -> UserConns]
         /\ \A p \in Ports : listener'[p] = IF listener[p] \in T THEN Nil ELSE listener[p]
         /\ \A u \in Users : /\ user'[u].via = user[u].via
                             /\ user'[u].tunnel = user[u].tunnel
                             /\ user'[u].pc \in {user[u].pc, "closed"}
                             /\ user[u].pc # "queued" => user'[u].pc = user[u].pc
<1>1. \A u \in Users : user[u] \in UserConns
  BY DEF TypeOK
<1>2. \A u \in Users : [user[u] EXCEPT !.pc = "closed"] \in UserConns
  BY <1>1 DEF UserConns
<1>3. user' \in [Users -> UserConns]
  BY <1>1, <1>2 DEF CloseListeners
<1>4. \A p \in Ports : listener'[p] = IF listener[p] \in T THEN Nil ELSE listener[p]
  BY DEF CloseListeners
<1>5. listener' \in [Ports -> TunnelIds \cup {Nil}]
  BY DEF CloseListeners, TypeOK
<1>6. ASSUME NEW u \in Users
      PROVE  /\ user'[u].via = user[u].via
             /\ user'[u].tunnel = user[u].tunnel
             /\ user'[u].pc \in {user[u].pc, "closed"}
             /\ user[u].pc # "queued" => user'[u].pc = user[u].pc
  <2>1. user'[u] = IF user[u].pc = "queued" /\ user[u].via \in T
                   THEN [user[u] EXCEPT !.pc = "closed"] ELSE user[u]
    BY DEF CloseListeners
  <2> QED
    BY <1>1, <2>1 DEF UserConns
<1> QED
  BY <1>3, <1>4, <1>5, <1>6

(* A tunnel that was not made is not in use.                               *)
LEMMA UnusedFresh ==
  ASSUME NEW t, info[t] = Unused
  PROVE  ~Used(t)
<1>1. Unused.Owner = Nil
  BY DEF Unused
<1> QED
  BY <1>1, NilFresh DEF Used

(* Looking a tunnel up yields a tunnel or nothing.                         *)
LEMMA LookupType ==
  ASSUME TypeOK, NEW s \in Sessions, NEW p, Lookup(s, p) # Nil
  PROVE  p \in Ports /\ Lookup(s, p) \in TunnelIds /\ Lookup(s, p) = tunnels[s][p]
BY DEF TypeOK, Lookup

(* The lookup of an accept loop or a handler yields a tunnel or nothing.   *)
LEMMA CurrentType ==
  ASSUME TypeOK, NEW t \in TunnelIds, Used(t)
  PROVE  Current(t) \in TunnelIds \cup {Nil}
BY DEF TypeOK, Used, Current

(* Updates of a TunnelInfo keep its type, its owner and its port.          *)
SameTunnel(i, j) == j \in TunnelInfos /\ j.Owner = i.Owner /\ j.RemotePort = i.RemotePort

(* The updates of TunnelInfos in the model are of this kind.               *)
LEMMA InfoUpdate ==
  ASSUME NEW i \in TunnelInfos
  PROVE  /\ SameTunnel(i, i)
         /\ \A n \in Int : SameTunnel(i, [i EXCEPT !.ActiveConns = n])
         /\ \A n \in Nat : SameTunnel(i, [i EXCEPT !.connSem = n])
         /\ \A n \in Nat, v \in States : SameTunnel(i, [i EXCEPT !.connSem = n, !.State = v])
         /\ \A v \in States : SameTunnel(i, [i EXCEPT !.State = v])
         /\ \A v \in Addrs : SameTunnel(i, [i EXCEPT !.LocalAddr = v])
         /\ i.connSem \in Nat /\ i.ActiveConns \in Int
BY DEF TunnelInfos, SameTunnel

(* A step that only updates TunnelInfos in this way.                       *)
SameTunnels == \A t \in TunnelIds : SameTunnel(info[t], info'[t])

(* A step that leaves info alone is such a step.                           *)
LEMMA SameInfo ==
  ASSUME TypeOK, UNCHANGED info
  PROVE  info' \in [TunnelIds -> TunnelInfos] /\ SameTunnels
BY InfoUpdate DEF TypeOK, SameTunnels

(* So is a step that updates one TunnelInfo in this way.                   *)
LEMMA InfoChange ==
  ASSUME TypeOK, NEW t \in TunnelIds, NEW i, SameTunnel(info[t], i),
         info' = [info EXCEPT ![t] = i]
  PROVE  info' \in [TunnelIds -> TunnelInfos] /\ SameTunnels
<1>1. \A v \in TunnelIds : info'[v] = IF v = t THEN i ELSE info[v]
  BY DEF TypeOK
<1>2. \A v \in TunnelIds : SameTunnel(info[v], info[v])
  BY InfoUpdate DEF TypeOK
<1>3. info' \in [TunnelIds -> TunnelInfos]
  BY DEF TypeOK, SameTunnel
<1> QED
  BY <1>1, <1>2, <1>3 DEF SameTunnels

(* Only ForwardListen makes a tunnel; the other steps keep every TunnelInfo *)
(* the same tunnel.                                                        *)
LEMMA InfoStep ==
  ASSUME TypeOK, PortRefs, UserRefs, [Next]_vars,
         \A s \in Sessions : ~ForwardListen(s)
  PROVE  info' \in [TunnelIds -> TunnelInfos] /\ SameTunnels
<1> DEFINE Goal == info' \in [TunnelIds -> TunnelInfos] /\ SameTunnels
<1>1. ASSUME NEW s \in Sessions, TunnelInfo(s) \/ HealthReport(s)
      PROVE  Goal
  <2> DEFINE r == Head(queue[s])
             t == Lookup(s, r.port)
  <2>1. CASE t = Nil
    BY <1>1, <2>1, SameInfo DEF TunnelInfo, HealthReport
  <2>2. CASE t # Nil
    <3>1. t \in TunnelIds
      BY <2>2, LookupType
    <3>2. info[t] \in TunnelInfos
      BY <3>1 DEF TypeOK
    <3>3. CASE TunnelInfo(s)
      <4>1. r.arg \in Addrs
        BY <3>3, QueueHead DEF TunnelInfo, Pending
      <4>2. info' = [info EXCEPT ![t] = [info[t] EXCEPT !.LocalAddr = r.arg]]
        BY <2>2, <3>3 DEF TunnelInfo
      <4> QED
        BY <3>1, <3>2, <4>1, <4>2, InfoUpdate, InfoChange
    <3>4. CASE HealthReport(s)
      <4>1. r.arg \in States
        BY <3>4, QueueHead DEF HealthReport, Pending
      <4>2. info' = [info EXCEPT ![t] = [info[t] EXCEPT !.State = r.arg]]
        BY <2>2, <3>4 DEF HealthReport
      <4> QED
        BY <3>1, <3>2, <4>1, <4>2, InfoUpdate, InfoChange
    <3> QED
      BY <1>1, <3>3, <3>4
  <2> QED
    BY <2>1, <2>2
<1>2. ASSUME NEW t \in TunnelIds, LoopAcquire(t)
      PROVE  Goal
  <2> DEFINE c == Current(t)
  <2>1. c \in TunnelIds
    BY <1>2, CurrentType DEF LoopAcquire, UserRefs
  <2>2. info[c] \in TunnelInfos /\ info[c].connSem + 1 \in Nat /\ "active" \in States
    <3>1. info[c] \in TunnelInfos
      BY <2>1 DEF TypeOK
    <3>2. info[c].connSem \in Nat
      BY <3>1 DEF TunnelInfos
    <3> QED
      BY <3>1, <3>2 DEF States
  <2> DEFINE new == [info[c] EXCEPT !.connSem = info[c].connSem + 1, !.State = "active"]
  <2>3. info' = [info EXCEPT ![c] = new]
    BY <1>2 DEF LoopAcquire
  <2>4. SameTunnel(info[c], new)
    BY <2>2, InfoUpdate
  <2> QED
    BY <2>1, <2>3, <2>4, InfoChange
<1>3. ASSUME NEW t \in TunnelIds, LoopSpawn(t)
      PROVE  Goal
  <2> DEFINE c == loop[t].tunnel
  <2>1. c \in TunnelIds
    BY <1>3 DEF LoopSpawn, UserRefs
  <2>2. info[c] \in TunnelInfos /\ loop[t].count + 1 \in Int
    BY <2>1 DEF TypeOK, Loops
  <2>3. info' = [info EXCEPT ![c] = [info[c] EXCEPT !.ActiveConns = loop[t].count + 1]]
    BY <1>3 DEF LoopSpawn
  <2> QED
    BY <2>1, <2>2, <2>3, InfoUpdate, InfoChange
<1>4. ASSUME NEW u \in Users, HandlerOpenFail(u) \/ HandlerRelease(u) \/ HandlerDone(u)
      PROVE  Goal
  <2> DEFINE c == user[u].tunnel
  <2>1. c \in TunnelIds
    BY <1>4 DEF HandlerOpenFail, HandlerRelease, HandlerDone, UserRefs
  <2>2. info[c] \in TunnelInfos /\ user[u].count - 1 \in Int /\ "error" \in States
    BY <2>1 DEF TypeOK, UserConns, States
  <2>3. CASE HandlerOpenFail(u)
    <3>1. info' = [info EXCEPT ![c] = [info[c] EXCEPT !.State = "error"]]
      BY <2>3 DEF HandlerOpenFail
    <3> QED
      BY <2>1, <2>2, <3>1, InfoUpdate, InfoChange
  <2>4. CASE HandlerRelease(u)
    <3>1. CASE info[c].connSem = 0
      BY <2>4, <3>1, SameInfo DEF HandlerRelease
    <3>2. CASE info[c].connSem # 0
      <4>1. info' = [info EXCEPT ![c] = [info[c] EXCEPT !.connSem = info[c].connSem - 1]]
        BY <2>4, <3>2 DEF HandlerRelease
      <4>2. info[c].connSem - 1 \in Nat
        BY <2>2, <3>2 DEF TunnelInfos
      <4> QED
        BY <2>1, <2>2, <4>1, <4>2, InfoUpdate, InfoChange
    <3> QED
      BY <3>1, <3>2
  <2>5. CASE HandlerDone(u)
    <3>1. info' = [info EXCEPT ![c] = [info[c] EXCEPT !.ActiveConns = user[u].count - 1]]
      BY <2>5 DEF HandlerDone
    <3> QED
      BY <2>1, <2>2, <3>1, InfoUpdate, InfoChange
  <2> QED
    BY <1>4, <2>3, <2>4, <2>5
<1>5. ASSUME UNCHANGED info
      PROVE  Goal
  BY <1>5, SameInfo
<1> QED
  BY <1>1, <1>2, <1>3, <1>4, <1>5
     DEF Next, SessionStep, Serve, LoopStep, UserStep, HandlerStep, vars, tunnelVars,
         Accept, Establish, Refuse, Lose, Sweep,
         SweepBegin, SweepClose, SweepEnd, Unregister, Release, Receive, MapRace,
         ForwardRefused, ForwardInsert, CancelMiss, CancelClose, CancelDelete,
         LoopAccept, LoopStop, LoopGone, LoopFull, UserConnect,
         HandlerStart, HandlerOpen, HandlerEnd

-----------------------------------------------------------------------------
(* The invariant holds initially.                                          *)

(* Nothing is open, registered or claimed when the server starts.          *)
LEMMA InitInv == Init => IInv
<1> SUFFICES ASSUME Init PROVE IInv
  OBVIOUS
<1> USE NilFresh DEF Init
<1>1. TypeOK
  <2>1. Unused \in TunnelInfos
    <3>1. "idle" \in States /\ "" \in Addrs /\ 0 \in Int /\ 0 \in Nat
      BY DEF States, Addrs
    <3> QED
      BY <3>1, Zenon DEF Unused, TunnelInfos
  <2>2. NoLoop \in Loops
    BY DEF NoLoop, Loops
  <2>3. NoUser \in UserConns
    BY DEF NoUser, UserConns
  <2>4. IdleWork \in Workers
    BY DEF IdleWork, Workers
  <2>5. conn \in [Sessions -> ConnStates]
    BY DEF ConnStates
  <2> QED
    BY <2>1, <2>2, <2>3, <2>4, <2>5 DEF TypeOK
<1>2. PortRefs
  BY DEF PortRefs, IdleWork
<1>3. UserRefs
  BY DEF UserRefs, NoLoop, NoUser
<1>4. WorkerSound /\ FreshSession
  BY DEF WorkerSound, FreshSession, IdleWork
<1>5. PortsAccounted
  BY DEF PortsAccounted
<1>6. ClaimQuota
  <2>1. \A s \in Sessions : Claims(s) = {}
    BY DEF Claims, IdleWork
  <2>2. Cardinality({}) <= MaxTunnels
    BY FS_EmptySet, ServerAssumption
  <2> QED
    BY <2>1, <2>2 DEF ClaimQuota
<1> QED
  BY <1>1, <1>2, <1>3, <1>4, <1>5, <1>6 DEF IInv

-----------------------------------------------------------------------------
(* Type correctness.                                                       *)

(* Every step but ForwardListen keeps the type of info by InfoStep; the    *)
(* lemmas below treat the other variables, one goroutine at a time.        *)
TypeRest ==
  /\ conn' \in [Sessions -> ConnStates] /\ sem' \in Int /\ activeConns' \subseteq Sessions
  /\ sweep' \in [Sessions -> [Ports -> {"may", "must", "not"}]]
  /\ queue' \in [Sessions -> Seq(Requests)] /\ worker' \in [Sessions -> Workers]
  /\ tunnels' \in [Sessions -> [Ports -> TunnelIds \cup {Nil}]]
  /\ listener' \in [Ports -> TunnelIds \cup {Nil}]
  /\ loop' \in [TunnelIds -> Loops] /\ user' \in [Users -> UserConns]
  /\ crashed' \in {"no", "mapRace", "overRelease"}

(* The steps of handleConnection and of the SSH mux keep the types.        *)
LEMMA SessionTypes ==
  ASSUME TypeOK, NEW s \in Sessions,
         \/ Accept(s) \/ Establish(s) \/ Refuse(s) \/ Lose(s) \/ Sweep(s)
         \/ Unregister(s) \/ Release(s) \/ MapRace(s) \/ \E r \in Requests : Receive(s, r)
  PROVE  TypeRest
<1> USE DEF Alive, sessionVars, tunnelVars
<1>1. CASE \/ Accept(s) \/ Establish(s) \/ Refuse(s) \/ Lose(s)
           \/ Unregister(s) \/ Release(s)
  <2>1. conn' \in [Sessions -> ConnStates]
    BY <1>1 DEF TypeOK, Accept, Establish, Refuse, Lose, Unregister, Release, ConnStates
  <2>2. sem' \in Int /\ activeConns' \subseteq Sessions
    BY <1>1 DEF TypeOK, Accept, Establish, Refuse, Lose, Unregister, Release
  <2>3. UNCHANGED <<sweep, queue, worker, tunnels, listener, loop, user>> /\ crashed' = "no"
    BY <1>1 DEF Accept, Establish, Refuse, Lose, Unregister, Release
  <2> QED
    BY <2>1, <2>2, <2>3 DEF TypeOK, TypeRest
<1>2. CASE Sweep(s)
  <2>1. CASE SweepBegin(s)
    BY <2>1 DEF TypeOK, TypeRest, SweepBegin, ConnStates
  <2>2. ASSUME NEW p \in Ports, SweepClose(s, p)
        PROVE  TypeRest
    <3>1. sweep' \in [Sessions -> [Ports -> {"may", "must", "not"}]]
      BY <2>2 DEF TypeOK, SweepClose
    <3>2. listener' \in [Ports -> TunnelIds \cup {Nil}] /\ user' \in [Users -> UserConns]
      BY <2>2, CloseListenersType DEF SweepClose
    <3>3. UNCHANGED <<conn, sem, activeConns, queue, worker, tunnels, loop>> /\ crashed' = "no"
      BY <2>2 DEF SweepClose
    <3> QED
      BY <3>1, <3>2, <3>3 DEF TypeOK, TypeRest
  <2>3. CASE SweepEnd(s)
    BY <2>3 DEF TypeOK, TypeRest, SweepEnd, ConnStates
  <2> QED
    BY <1>2, <2>1, <2>2, <2>3 DEF Sweep
<1>3. CASE MapRace(s)
  BY <1>3 DEF TypeOK, TypeRest, MapRace
<1>4. CASE \E r \in Requests : Receive(s, r)
  BY <1>4 DEF TypeOK, TypeRest, Receive
<1> QED
  BY <1>1, <1>2, <1>3, <1>4

(* The request loop keeps the types.                                       *)
LEMMA ServeTypes ==
  ASSUME TypeOK, PortRefs, NEW s \in Sessions, Serve(s)
  PROVE  TypeRest
<1> USE DEF Alive, sessionVars, tunnelVars
<1>1. CASE ForwardRefused(s) \/ CancelMiss(s) \/ TunnelInfo(s) \/ HealthReport(s)
  BY <1>1, DequeueType
     DEF TypeOK, TypeRest, ForwardRefused, CancelMiss, TunnelInfo, HealthReport, Pending
<1>2. CASE ForwardListen(s)
  <2>1. PICK p \in Ports, t \in TunnelIds :
              /\ listener' = [listener EXCEPT ![p] = t]
              /\ worker' = [worker EXCEPT ![s] = [pc |-> "inserting", tunnel |-> t]]
    BY <1>2 DEF ForwardListen, Bindable
  <2>2. [pc |-> "inserting", tunnel |-> t] \in Workers
    BY DEF Workers
  <2>3. queue' \in [Sessions -> Seq(Requests)]
    BY <1>2, DequeueType DEF ForwardListen, Pending
  <2> QED
    BY <1>2, <2>1, <2>2, <2>3 DEF TypeOK, TypeRest, ForwardListen
<1>3. CASE ForwardInsert(s) \/ CancelDelete(s)
  <2>1. worker[s].tunnel \in TunnelIds
    BY <1>3 DEF ForwardInsert, CancelDelete, PortRefs
  <2>2. IdleWork \in Workers
    BY DEF IdleWork, Workers
  <2>3. [loop[worker[s].tunnel] EXCEPT !.pc = "wait"] \in Loops
    <3>1. loop[worker[s].tunnel] \in Loops
      BY <2>1 DEF TypeOK
    <3>2. \A x \in Loops : [x EXCEPT !.pc = "wait"] \in Loops
      BY DEF Loops
    <3> QED BY <3>1, <3>2
  <2>4. loop' \in [TunnelIds -> Loops]
    BY <1>3, <2>1, <2>3 DEF TypeOK, ForwardInsert, CancelDelete
  <2>5. tunnels' \in [Sessions -> [Ports -> TunnelIds \cup {Nil}]]
    <3> DEFINE t == worker[s].tunnel
               q == info[t].RemotePort
    <3>1. \A v \in TunnelIds \cup {Nil} :
            [tunnels[s] EXCEPT ![q] = v] \in [Ports -> TunnelIds \cup {Nil}]
      BY DEF TypeOK
    <3>2. PICK v \in TunnelIds \cup {Nil} :
            tunnels' = [tunnels EXCEPT ![s] = [tunnels[s] EXCEPT ![q] = v]]
      BY <1>3, <2>1 DEF ForwardInsert, CancelDelete
    <3>3. [tunnels[s] EXCEPT ![q] = v] \in [Ports -> TunnelIds \cup {Nil}]
      BY <3>1
    <3> HIDE DEF t, q
    <3> QED
      BY <3>2, <3>3 DEF TypeOK
  <2>6. worker' \in [Sessions -> Workers]
    BY <1>3, <2>2 DEF TypeOK, ForwardInsert, CancelDelete
  <2>7. UNCHANGED <<conn, sem, activeConns, queue, listener, user>> /\ crashed' = "no"
    BY <1>3 DEF ForwardInsert, CancelDelete
  <2>8. sweep' \in [Sessions -> [Ports -> {"may", "must", "not"}]]
    <3>1. CASE ForwardInsert(s)
      BY <3>1 DEF ForwardInsert, TypeOK
    <3>2. CASE CancelDelete(s)
      <4>1. PICK q : sweep' = [sweep EXCEPT ![s][q] = "may"]
        BY <3>2 DEF CancelDelete
      <4> QED
        BY <4>1 DEF TypeOK
    <3> QED
      BY <1>3, <3>1, <3>2
  <2> QED
    BY <2>4, <2>5, <2>6, <2>7, <2>8 DEF TypeOK, TypeRest
<1>4. CASE CancelClose(s)
  <2> DEFINE t == Lookup(s, Head(queue[s]).port)
  <2>1. t \in TunnelIds
    BY <1>4, LookupType DEF CancelClose
  <2>2. [pc |-> "deleting", tunnel |-> t] \in Workers
    BY <2>1 DEF Workers
  <2>3. worker' \in [Sessions -> Workers]
    BY <1>4, <2>2 DEF TypeOK, CancelClose
  <2>4. queue' \in [Sessions -> Seq(Requests)]
    BY <1>4, DequeueType DEF CancelClose, Pending
  <2>5. listener' \in [Ports -> TunnelIds \cup {Nil}] /\ user' \in [Users -> UserConns]
    BY <1>4, CloseListenersType DEF CancelClose
  <2> QED
    BY <1>4, <2>3, <2>4, <2>5 DEF TypeOK, TypeRest, CancelClose
<1> QED
  BY <1>1, <1>2, <1>3, <1>4 DEF Serve

(* Changing the position of a loop or of a user connection.                *)
LEMMA UserChange ==
  ASSUME TypeOK, NEW u \in Users, NEW r \in UserConns, user' = [user EXCEPT ![u] = r]
  PROVE  user' \in [Users -> UserConns]
BY DEF TypeOK

(* The same for an accept loop.                                            *)
LEMMA LoopChange ==
  ASSUME TypeOK, NEW t \in TunnelIds, NEW r \in Loops, loop' = [loop EXCEPT ![t] = r]
  PROVE  loop' \in [TunnelIds -> Loops]
BY DEF TypeOK

(* Closing a user connection keeps its type.                               *)
LEMMA UserClosed ==
  ASSUME TypeOK, NEW u \in Users, CloseUser(u)
  PROVE  user' \in [Users -> UserConns]
<1>1. [user[u] EXCEPT !.pc = "closed"] \in UserConns
  BY DEF TypeOK, UserConns
<1> QED
  BY <1>1, UserChange DEF CloseUser

(* The accept loops keep the types.                                        *)
LEMMA LoopTypes ==
  ASSUME TypeOK, UserRefs, NEW t \in TunnelIds, LoopStep(t)
  PROVE  TypeRest
<1> USE DEF Alive, sessionVars, tunnelVars
<1>0. loop[t] \in Loops /\ NoLoop \in Loops /\ [NoLoop EXCEPT !.pc = "wait"] \in Loops
  BY DEF TypeOK, NoLoop, Loops
<1>1. ASSUME NEW u \in Users, LoopAccept(t, u)
      PROVE  TypeRest
  <2>1. [loop[t] EXCEPT !.pc = "lookup", !.user = u] \in Loops
    BY <1>0 DEF Loops
  <2>2. loop' \in [TunnelIds -> Loops]
    <3>1. loop' = [loop EXCEPT ![t] = [loop[t] EXCEPT !.pc = "lookup", !.user = u]]
      BY <1>1 DEF LoopAccept
    <3> QED
      BY <2>1, <3>1, LoopChange
  <2>3. [user[u] EXCEPT !.pc = "accepted"] \in UserConns
    BY DEF TypeOK, UserConns
  <2>4. user' \in [Users -> UserConns]
    BY <1>1, <2>3, UserChange DEF LoopAccept
  <2> QED
    BY <1>1, <2>2, <2>4 DEF TypeOK, TypeRest, LoopAccept
<1>2. CASE LoopStop(t)
  <2>1. [loop[t] EXCEPT !.pc = "off"] \in Loops
    BY <1>0 DEF Loops
  <2>2. loop' \in [TunnelIds -> Loops]
    BY <1>2, <2>1, LoopChange DEF LoopStop
  <2> QED
    BY <1>2, <2>2 DEF TypeOK, TypeRest, LoopStop
<1>3. CASE LoopGone(t) \/ LoopFull(t)
  <2>1. loop[t].user \in Users
    BY <1>3 DEF LoopGone, LoopFull, UserRefs
  <2>2. user' \in [Users -> UserConns]
    BY <1>3, <2>1, UserClosed DEF LoopGone, LoopFull
  <2>3. loop' \in [TunnelIds -> Loops]
    BY <1>0, <1>3, LoopChange DEF LoopGone, LoopFull
  <2> QED
    BY <1>3, <2>2, <2>3 DEF TypeOK, TypeRest, LoopGone, LoopFull
<1>4. CASE LoopAcquire(t)
  <2> DEFINE c == Current(t)
             r == [loop[t] EXCEPT !.pc = "count", !.tunnel = c, !.count = info[c].ActiveConns]
  <2>1. c \in TunnelIds
    BY <1>4, CurrentType DEF LoopAcquire, UserRefs
  <2>2. info[c].ActiveConns \in Int
    BY <2>1 DEF TypeOK, TunnelInfos
  <2>3. r \in Loops
    BY <1>0, <2>1, <2>2 DEF Loops
  <2>4. loop' = [loop EXCEPT ![t] = r]
    BY <1>4 DEF LoopAcquire
  <2>5. loop' \in [TunnelIds -> Loops]
    BY <2>3, <2>4, LoopChange
  <2> QED
    BY <1>4, <2>5 DEF TypeOK, TypeRest, LoopAcquire
<1>5. CASE LoopSpawn(t)
  <2> DEFINE u == loop[t].user
             r == [user[u] EXCEPT !.pc = "spawned", !.held = loop[t].tunnel]
  <2>1. u \in Users /\ loop[t].tunnel \in TunnelIds
    BY <1>5 DEF LoopSpawn, UserRefs
  <2>2. r \in UserConns
    <3>1. user[u] \in UserConns
      BY <2>1 DEF TypeOK
    <3> QED
      BY <2>1, <3>1 DEF UserConns
  <2>3. user' \in [Users -> UserConns]
    <3>1. user' = [user EXCEPT ![u] = r]
      BY <1>5 DEF LoopSpawn
    <3> HIDE DEF u, r
    <3> QED
      BY <2>1, <2>2, <3>1, UserChange
  <2>4. loop' \in [TunnelIds -> Loops]
    BY <1>0, <1>5, LoopChange DEF LoopSpawn
  <2> QED
    BY <1>5, <2>3, <2>4 DEF TypeOK, TypeRest, LoopSpawn
<1> QED
  BY <1>1, <1>2, <1>3, <1>4, <1>5 DEF LoopStep

(* User connections and their handlers keep the types.                     *)
LEMMA UserTypes ==
  ASSUME TypeOK, UserRefs, NEW u \in Users, UserStep(u)
  PROVE  TypeRest
<1> USE DEF Alive, sessionVars, tunnelVars
<1>0. user[u] \in UserConns
  BY DEF TypeOK
<1>1. ASSUME NEW p \in Ports, UserConnect(u, p)
      PROVE  TypeRest
  <2>1. [user[u] EXCEPT !.pc = "queued", !.via = listener[p]] \in UserConns
    BY <1>0 DEF TypeOK, UserConns
  <2>2. user' = [user EXCEPT ![u] = [user[u] EXCEPT !.pc = "queued", !.via = listener[p]]]
    BY <1>1 DEF UserConnect
  <2>3. user' \in [Users -> UserConns]
    BY <2>1, <2>2, UserChange
  <2> QED
    BY <1>1, <2>3 DEF TypeOK, TypeRest, UserConnect
<1>2. CASE HandlerStart(u)
  <2> DEFINE c == Current(user[u].via)
  <2>1. c \in TunnelIds \cup {Nil}
    BY <1>2, CurrentType DEF HandlerStart, UserRefs
  <2>2. [user[u] EXCEPT !.tunnel = c, !.pc = AfterStart(c)] \in UserConns
    BY <1>0, <2>1 DEF AfterStart, UserConns
  <2>3. user' \in [Users -> UserConns]
    <3>1. user' = [user EXCEPT ![u] = [user[u] EXCEPT !.tunnel = c, !.pc = AfterStart(c)]]
      BY <1>2 DEF HandlerStart
    <3> HIDE DEF c
    <3> QED
      BY <2>2, <3>1, UserChange
  <2> QED
    BY <1>2, <2>3 DEF TypeOK, TypeRest, HandlerStart
<1>3. CASE HandlerOpen(u) \/ HandlerEnd(u) \/ HandlerOpenFail(u)
  <2>1. /\ [user[u] EXCEPT !.pc = "relay"] \in UserConns
        /\ [user[u] EXCEPT !.pc = "release"] \in UserConns
    BY <1>0 DEF UserConns
  <2>2. user' \in [Users -> UserConns]
    BY <1>3, <2>1, UserChange DEF HandlerOpen, HandlerEnd, HandlerOpenFail
  <2> QED
    BY <1>3, <2>2 DEF TypeOK, TypeRest, HandlerOpen, HandlerEnd, HandlerOpenFail
<1>4. CASE HandlerRelease(u)
  <2> DEFINE c == user[u].tunnel
             r == [user[u] EXCEPT !.pc = "count", !.count = info[c].ActiveConns]
  <2>1. c \in TunnelIds
    BY <1>4 DEF HandlerRelease, UserRefs
  <2>2. info[c].ActiveConns \in Int
    BY <2>1 DEF TypeOK, TunnelInfos
  <2>3. r \in UserConns
    BY <1>0, <2>2 DEF UserConns
  <2>4. user' = user \/ user' = [user EXCEPT ![u] = r]
    BY <1>4 DEF HandlerRelease
  <2>5. user' \in [Users -> UserConns]
    BY <2>3, <2>4, UserChange DEF TypeOK
  <2> QED
    BY <1>4, <2>5 DEF TypeOK, TypeRest, HandlerRelease
<1>5. CASE HandlerDone(u)
  BY <1>5, UserClosed DEF TypeOK, TypeRest, HandlerDone
<1> QED
  BY <1>1, <1>2, <1>3, <1>4, <1>5 DEF UserStep, HandlerStep

(* Every step keeps the types.                                             *)
LEMMA TypeStep ==
  ASSUME TypeOK, PortRefs, UserRefs, [Next]_vars
  PROVE  TypeOK'
<1>1. TypeRest
  <2>1. CASE UNCHANGED vars
    BY <2>1 DEF TypeOK, TypeRest, vars
  <2> QED
    BY <2>1, SessionTypes, ServeTypes, LoopTypes, UserTypes DEF Next, SessionStep
<1>2. info' \in [TunnelIds -> TunnelInfos]
  <2>1. ASSUME NEW s \in Sessions, ForwardListen(s)
        PROVE  info' \in [TunnelIds -> TunnelInfos]
    <3> DEFINE r == Head(queue[s])
    <3>1. PICK p \in Ports, t \in TunnelIds : info' = [info EXCEPT ![t] = NewTunnel(s, p, r)]
      BY <2>1 DEF ForwardListen, Bindable
    <3>2. r.arg \in Addrs /\ "idle" \in States /\ 0 \in Nat /\ 0 \in Int
      BY <2>1, QueueHead DEF ForwardListen, Pending, States
    <3>3. NewTunnel(s, p, r) \in TunnelInfos
      BY <3>2, Zenon DEF NewTunnel, TunnelInfos
    <3> QED
      BY <3>1, <3>3 DEF TypeOK
  <2> QED
    BY <2>1, InfoStep
<1> QED
  BY <1>1, <1>2 DEF TypeOK, TypeRest

-----------------------------------------------------------------------------
(* References.                                                             *)

(* No step changes the owner or the port of a tunnel in use.               *)
Kept == \A t \in TunnelIds : Used(t) =>
          info'[t].Owner = info[t].Owner /\ info'[t].RemotePort = info[t].RemotePort

(* A used TunnelInfo stays used, with its owner and its port.              *)
LEMMA KeptStep ==
  ASSUME TypeOK, PortRefs, UserRefs, [Next]_vars
  PROVE  Kept /\ \A t \in TunnelIds : Used(t) => Used(t)'
<1>1. Kept
  <2>1. ASSUME NEW s \in Sessions, ForwardListen(s)
        PROVE  Kept
    <3>1. PICK t \in TunnelIds :
            info[t] = Unused /\ \E i : info' = [info EXCEPT ![t] = i]
      BY <2>1 DEF ForwardListen
    <3>2. PICK i : info' = [info EXCEPT ![t] = i]
      BY <3>1
    <3> QED
      BY <3>1, <3>2, UnusedFresh DEF Kept, TypeOK
  <2> QED
    BY <2>1, InfoStep DEF SameTunnels, SameTunnel, Kept
<1> QED
  BY <1>1 DEF Kept, Used

(* Every step keeps the references of ports, maps and request loops.       *)
LEMMA PortRefsStep ==
  ASSUME TypeOK, PortRefs, UserRefs, WorkerSound, [Next]_vars
  PROVE  PortRefs'
<1>0. TypeOK' /\ Kept /\ \A t \in TunnelIds : Used(t) => Used(t)'
  BY TypeStep, KeptStep
<1>a. \A p \in Ports : listener[p] # Nil => listener[p] \in TunnelIds
  BY DEF TypeOK
<1>b. \A s \in Sessions, p \in Ports : tunnels[s][p] # Nil =>
        tunnels[s][p] \in TunnelIds /\ Used(tunnels[s][p])
  BY DEF TypeOK, PortRefs, Used
<1>c. \A s \in Sessions : worker[s].pc # "idle" => Used(worker[s].tunnel)
  BY DEF PortRefs, Used
<1>1. CASE /\ UNCHANGED <<tunnels, worker>>
           /\ \A p \in Ports : listener'[p] \in {Nil, listener[p]}
  BY <1>0, <1>1, <1>a, <1>b, <1>c DEF PortRefs, Kept
<1>2. ASSUME NEW s \in Sessions, ForwardListen(s)
      PROVE  PortRefs'
  <2>1. PICK p \in Ports, t \in TunnelIds :
              /\ listener' = [listener EXCEPT ![p] = t]
              /\ info' = [info EXCEPT ![t] = NewTunnel(s, p, Head(queue[s]))]
              /\ worker' = [worker EXCEPT ![s] = [pc |-> "inserting", tunnel |-> t]]
    BY <1>2 DEF ForwardListen, Bindable
  <2>2. info'[t].Owner = s /\ info'[t].RemotePort = p
    BY <2>1 DEF TypeOK, NewTunnel
  <2>3. UNCHANGED tunnels
    BY <1>2 DEF ForwardListen, tunnelVars
  <2>4. \A q \in Ports : listener'[q] = IF q = p THEN t ELSE listener[q]
    BY <2>1 DEF TypeOK
  <2>5. \A v \in Sessions : worker'[v] = IF v = s THEN [pc |-> "inserting", tunnel |-> t]
                                        ELSE worker[v]
    BY <2>1 DEF TypeOK
  <2>6. \A q \in Ports : listener'[q] # Nil =>
          info'[listener'[q]].Owner \in Sessions /\ info'[listener'[q]].RemotePort = q
    BY <1>0, <1>a, <2>2, <2>4 DEF PortRefs, Kept, Used
  <2>7. \A v \in Sessions : worker'[v].pc # "idle" =>
          /\ worker'[v].tunnel \in TunnelIds
          /\ info'[worker'[v].tunnel].Owner = v
          /\ info'[worker'[v].tunnel].RemotePort \in Ports
    BY <1>0, <1>c, <2>2, <2>5 DEF PortRefs, Kept, Used
  <2> QED
    BY <1>0, <1>b, <2>3, <2>6, <2>7 DEF PortRefs, Kept, Used
<1>3. ASSUME NEW s \in Sessions, ForwardInsert(s) \/ CancelDelete(s)
      PROVE  PortRefs'
  <2> DEFINE t == worker[s].tunnel
             p == info[t].RemotePort
  <2>1. t \in TunnelIds /\ info[t].Owner = s /\ p \in Ports
    BY <1>3 DEF ForwardInsert, CancelDelete, PortRefs
  <2>2. UNCHANGED <<listener, info>> /\ worker' = [worker EXCEPT ![s] = IdleWork]
    BY <1>3 DEF ForwardInsert, CancelDelete, tunnelVars
  <2>3. \A v \in Sessions, q \in Ports :
          tunnels'[v][q] # Nil => tunnels'[v][q] = tunnels[v][q] \/ (v = s /\ q = p /\ tunnels'[v][q] = t)
    BY <1>3, <2>1 DEF ForwardInsert, CancelDelete, TypeOK
  <2>4. \A v \in Sessions : worker'[v].pc # "idle" => worker'[v] = worker[v]
    BY <2>2 DEF TypeOK, IdleWork
  <2>5. \A q \in Ports : listener'[q] # Nil =>
          /\ info'[listener'[q]].Owner \in Sessions
          /\ info'[listener'[q]].RemotePort \in Ports /\ info'[listener'[q]].RemotePort = q
    BY <2>2 DEF PortRefs, Used
  <2>6. \A v \in Sessions, q \in Ports : tunnels'[v][q] # Nil =>
          info'[tunnels'[v][q]].Owner = v /\ info'[tunnels'[v][q]].RemotePort = q
    BY <2>1, <2>2, <2>3 DEF PortRefs
  <2>7. \A v \in Sessions : worker'[v].pc # "idle" =>
          /\ worker'[v].tunnel \in TunnelIds
          /\ info'[worker'[v].tunnel].Owner = v
          /\ info'[worker'[v].tunnel].RemotePort \in Ports
    BY <2>2, <2>4 DEF PortRefs
  <2> QED
    BY <2>5, <2>6, <2>7 DEF PortRefs, Used
<1>4. ASSUME NEW s \in Sessions, CancelClose(s)
      PROVE  PortRefs'
  <2> DEFINE t == Lookup(s, Head(queue[s]).port)
  <2>1. t \in TunnelIds /\ info[t].Owner = s /\ info[t].RemotePort \in Ports
    BY <1>4, LookupType DEF CancelClose, PortRefs
  <2>2. /\ UNCHANGED <<tunnels, info>>
        /\ worker' = [worker EXCEPT ![s] = [pc |-> "deleting", tunnel |-> t]]
        /\ \A p \in Ports : listener'[p] \in {Nil, listener[p]}
    BY <1>4, CloseListenersType DEF CancelClose, tunnelVars
  <2>3. \A v \in Sessions : worker'[v] = IF v = s THEN [pc |-> "deleting", tunnel |-> t]
                                        ELSE worker[v]
    BY <2>2 DEF TypeOK
  <2> HIDE DEF t
  <2>4. \A q \in Ports : listener'[q] # Nil =>
          /\ info'[listener'[q]].Owner \in Sessions
          /\ info'[listener'[q]].RemotePort \in Ports /\ info'[listener'[q]].RemotePort = q
    BY <2>2 DEF PortRefs, Used
  <2>5. \A v \in Sessions : worker'[v].pc # "idle" =>
          /\ worker'[v].tunnel \in TunnelIds
          /\ info'[worker'[v].tunnel].Owner = v
          /\ info'[worker'[v].tunnel].RemotePort \in Ports
    BY <2>1, <2>2, <2>3 DEF PortRefs
  <2> QED
    BY <2>2, <2>4, <2>5 DEF PortRefs, Used
<1>5. ASSUME NEW s \in Sessions, Sweep(s)
      PROVE  PortRefs'
  BY <1>1, <1>5, CloseListenersType DEF Sweep, SweepBegin, SweepClose, SweepEnd, tunnelVars
<1>6. CASE UNCHANGED <<tunnels, worker, listener>>
  BY <1>1, <1>6
<1> QED
  BY <1>2, <1>3, <1>4, <1>5, <1>6
     DEF Next, SessionStep, Serve, LoopStep, UserStep, HandlerStep, vars, tunnelVars,
         Accept, Establish, Refuse, Lose, Unregister, Release, Receive, MapRace,
         ForwardRefused, CancelMiss, TunnelInfo, HealthReport,
         LoopAccept, LoopStop, LoopGone, LoopFull, LoopAcquire, LoopSpawn, UserConnect,
         HandlerStart, HandlerOpen, HandlerOpenFail, HandlerEnd, HandlerRelease, HandlerDone

(* Every step keeps the references of accept loops and handlers.           *)
LEMMA UserRefsStep ==
  ASSUME TypeOK, PortRefs, UserRefs, [Next]_vars
  PROVE  UserRefs'
<1>0. Kept /\ \A t \in TunnelIds : Used(t) => Used(t)'
  BY KeptStep
<1>1. CASE /\ UNCHANGED loop
           /\ \A u \in Users : /\ user'[u].via = user[u].via
                               /\ user'[u].tunnel = user[u].tunnel
                               /\ user'[u].pc \in {user[u].pc, "closed"}
                               /\ user[u].pc # "queued" => user'[u].pc = user[u].pc
                               /\ user'[u].pc = "away" => user[u].pc = "away"
                               /\ user[u].pc = "away" => user'[u].pc = "away"
  BY <1>0, <1>1 DEF UserRefs, Used
<1>2. ASSUME NEW s \in Sessions, Sweep(s) \/ CancelClose(s)
      PROVE  UserRefs'
  <2>1. UNCHANGED loop
    BY <1>2 DEF Sweep, SweepBegin, SweepClose, SweepEnd, CancelClose
  <2> QED
    BY <1>1, <1>2, <2>1, CloseListenersType DEF Sweep,
                                                SweepBegin, SweepClose, SweepEnd, CancelClose
<1>3. ASSUME NEW s \in Sessions, ForwardInsert(s)
      PROVE  UserRefs'
  <2> DEFINE t == worker[s].tunnel
  <2>1. t \in TunnelIds /\ Used(t)
    BY <1>3 DEF ForwardInsert, PortRefs, Used
  <2>2. /\ UNCHANGED user
        /\ loop' = [loop EXCEPT ![t].pc = "wait"]
    BY <1>3 DEF ForwardInsert
  <2>3. \A v \in TunnelIds : v # t => loop'[v] = loop[v]
    BY <2>2 DEF TypeOK
  <2>4. loop'[t].pc = "wait"
    BY <2>1, <2>2 DEF TypeOK, Loops
  <2> QED
    BY <1>0, <2>1, <2>2, <2>3, <2>4 DEF UserRefs, Used
<1>4. ASSUME NEW t \in TunnelIds, LoopStep(t)
      PROVE  UserRefs'
  <2>1. \A v \in TunnelIds : v # t => loop'[v] = loop[v]
    BY <1>4 DEF LoopStep, LoopAccept, LoopStop, LoopGone, LoopFull, LoopAcquire, LoopSpawn, TypeOK
  <2>2. ASSUME NEW u \in Users, LoopAccept(t, u)
        PROVE  UserRefs'
    <3>1. loop'[t].pc = "lookup" /\ loop'[t].user = u
      BY <2>2 DEF LoopAccept, TypeOK, Loops
    <3>2. \A v \in Users \ {u} : user'[v] = user[v]
      BY <2>2 DEF LoopAccept, TypeOK
    <3>3. user'[u].pc = "accepted" /\ user'[u].via = user[u].via
      BY <2>2 DEF LoopAccept, TypeOK, UserConns
    <3>4. Used(t) /\ user[u].pc # "away"
      BY <2>2 DEF LoopAccept, UserRefs
    <3> QED
      BY <1>0, <2>1, <3>1, <3>2, <3>3, <3>4 DEF UserRefs, Used
  <2>3. CASE LoopStop(t)
    <3>1. loop'[t].pc = "off" /\ UNCHANGED user
      BY <2>3 DEF LoopStop, TypeOK, Loops
    <3> QED
      BY <1>0, <2>1, <3>1 DEF UserRefs, Used
  <2>4. CASE LoopGone(t) \/ LoopFull(t)
    <3>1. loop'[t].pc \in {"off", "wait"}
      BY <2>4 DEF LoopGone, LoopFull, TypeOK, NoLoop
    <3>2. loop[t].user \in Users /\ Used(t)
      BY <2>4 DEF LoopGone, LoopFull, UserRefs
    <3>3. /\ \A v \in Users \ {loop[t].user} : user'[v] = user[v]
          /\ user'[loop[t].user].pc = "closed"
          /\ user'[loop[t].user].via = user[loop[t].user].via
      <4>1. user' = [user EXCEPT ![loop[t].user].pc = "closed"]
        BY <2>4 DEF LoopGone, LoopFull, CloseUser
      <4> QED
        BY <3>2, <4>1 DEF TypeOK, UserConns
    <3>4. user[loop[t].user].pc # "away"
      BY <2>4 DEF LoopGone, LoopFull, UserRefs
    <3> QED
      BY <1>0, <2>1, <3>1, <3>2, <3>3, <3>4 DEF UserRefs, Used
  <2>5. CASE LoopAcquire(t)
    <3>1. loop'[t].pc = "count" /\ loop'[t].tunnel = Current(t) /\ loop'[t].user = loop[t].user
      BY <2>5 DEF LoopAcquire, TypeOK, Loops
    <3>2. Used(t) /\ Current(t) \in TunnelIds /\ UNCHANGED user
      BY <2>5, CurrentType DEF LoopAcquire, UserRefs
    <3>3. loop[t].user \in Users /\ user[loop[t].user].pc # "away"
      BY <2>5 DEF LoopAcquire, UserRefs
    <3> QED
      BY <1>0, <2>1, <3>1, <3>2, <3>3 DEF UserRefs, Used
  <2>6. CASE LoopSpawn(t)
    <3> DEFINE u == loop[t].user
    <3>1. loop'[t].pc = "wait"
      BY <2>6 DEF LoopSpawn, TypeOK, NoLoop
    <3>2. u \in Users /\ user[u].pc # "away" /\ Used(t)
      BY <2>6 DEF LoopSpawn, UserRefs
    <3>3. /\ \A v \in Users \ {u} : user'[v] = user[v]
          /\ user'[u].pc = "spawned" /\ user'[u].via = user[u].via
      BY <2>6, <3>2 DEF LoopSpawn, TypeOK, UserConns
    <3> QED
      BY <1>0, <2>1, <3>1, <3>2, <3>3 DEF UserRefs, Used
  <2> QED
    BY <1>4, <2>2, <2>3, <2>4, <2>5, <2>6 DEF LoopStep
<1>5. ASSUME NEW u \in Users, NEW p \in Ports, UserConnect(u, p)
      PROVE  UserRefs'
  <2>1. /\ \A v \in Users \ {u} : user'[v] = user[v]
        /\ user'[u].pc = "queued" /\ user'[u].via = listener[p] /\ UNCHANGED loop
    BY <1>5 DEF UserConnect, TypeOK, UserConns
  <2>2. listener[p] \in TunnelIds /\ Used(listener[p])
    BY <1>5 DEF UserConnect, PortRefs, TypeOK
  <2> QED
    BY <1>0, <2>1, <2>2 DEF UserRefs, Used
<1>6. ASSUME NEW u \in Users, HandlerStep(u)
      PROVE  UserRefs'
  <2>1. UNCHANGED loop /\ \A v \in Users \ {u} : user'[v] = user[v]
    BY <1>6 DEF HandlerStep, HandlerStart, HandlerOpen, HandlerOpenFail, HandlerEnd,
                HandlerRelease, HandlerDone, CloseUser, TypeOK
  <2>2. user'[u].via = user[u].via /\ user'[u].pc # "away" /\ user[u].pc # "away"
    <3>1. CASE HandlerStart(u)
      BY <3>1 DEF HandlerStart, AfterStart, TypeOK, UserConns
    <3>2. CASE HandlerRelease(u)
      BY <3>2 DEF HandlerRelease, TypeOK, UserConns
    <3>3. CASE HandlerOpen(u) \/ HandlerOpenFail(u) \/ HandlerEnd(u) \/ HandlerDone(u)
      BY <3>3 DEF HandlerOpen, HandlerOpenFail, HandlerEnd, HandlerDone, CloseUser, TypeOK, UserConns
    <3> QED
      BY <1>6, <3>1, <3>2, <3>3 DEF HandlerStep
  <2>3. user'[u].pc \in {"open", "relay", "release", "count"} => user'[u].tunnel \in TunnelIds
    <3>1. CASE HandlerStart(u)
      <4>1. Current(user[u].via) \in TunnelIds \cup {Nil}
        BY <3>1, CurrentType DEF HandlerStart, UserRefs
      <4>2. /\ user'[u].tunnel = Current(user[u].via)
            /\ user'[u].pc = AfterStart(Current(user[u].via))
        BY <3>1 DEF HandlerStart, TypeOK, UserConns
      <4> QED
        BY <4>1, <4>2 DEF AfterStart
    <3>2. CASE ~HandlerStart(u)
      <4>1. user[u].pc \in {"open", "relay", "release", "count"}
        BY <1>6, <3>2 DEF HandlerStep, HandlerOpen, HandlerOpenFail, HandlerEnd,
                          HandlerRelease, HandlerDone
      <4>2. user'[u].tunnel = user[u].tunnel
        BY <1>6, <3>2 DEF HandlerStep, HandlerOpen, HandlerOpenFail, HandlerEnd,
                          HandlerRelease, HandlerDone, CloseUser, TypeOK, UserConns
      <4> QED
        BY <4>1, <4>2 DEF UserRefs
    <3> QED
      BY <3>1, <3>2
  <2> QED
    BY <1>0, <2>1, <2>2, <2>3 DEF UserRefs, Used
<1>7. CASE UNCHANGED <<loop, user>>
  BY <1>0, <1>7 DEF UserRefs, Used
<1> QED
  BY <1>2, <1>3, <1>4, <1>5, <1>6, <1>7
     DEF Next, SessionStep, Serve, UserStep, vars,
         Accept, Establish, Refuse, Lose, Unregister, Release, Receive, MapRace,
         ForwardRefused, ForwardListen, CancelMiss, CancelDelete, TunnelInfo, HealthReport

-----------------------------------------------------------------------------
(* Ports, maps and request loops.                                          *)

(* Steps that touch none of them.                                          *)
LEMMA PortFrame ==
  ASSUME TypeOK, PortRefs, WorkerSound, PortsAccounted, ClaimQuota, Kept,
         UNCHANGED <<worker, tunnels, listener>>,
         \A s \in Sessions, p \in Ports :
           Unswept(s, p)' => Unswept(s, p) \/ tunnels[s][p] = Nil
  PROVE  WorkerSound' /\ PortsAccounted' /\ ClaimQuota'
<1>1. /\ \A p \in Ports : listener[p] # Nil =>
           listener[p] \in TunnelIds /\ info'[listener[p]].Owner = info[listener[p]].Owner
      /\ \A s \in Sessions : worker[s].pc # "idle" =>
           info'[worker[s].tunnel].RemotePort = info[worker[s].tunnel].RemotePort
  <2>1. \A p \in Ports : listener[p] # Nil => listener[p] \in TunnelIds
    BY DEF TypeOK
  <2> QED
    BY <2>1 DEF PortRefs, Kept, Used
<1>2. WorkerSound'
  BY <1>1 DEF WorkerSound
<1>3. PortsAccounted'
  BY <1>1 DEF PortsAccounted
<1>4. \A s \in Sessions : Claims(s)' = Claims(s)
  BY <1>1 DEF Claims
<1> QED
  BY <1>2, <1>3, <1>4 DEF ClaimQuota

(* The claims of a session are finitely many ports.                        *)
LEMMA ClaimsFinite ==
  \A s \in Sessions : IsFiniteSet(Claims(s))
BY ServerAssumption, FS_Subset DEF Claims

(* handleForwardRequest binds a free port below the limit.                 *)
LEMMA PortForwardListen ==
  ASSUME IInv, NEW s \in Sessions, ForwardListen(s), Kept
  PROVE  WorkerSound' /\ PortsAccounted' /\ ClaimQuota'
<1> USE DEF IInv
<1>1. PICK p \in Ports, t \in TunnelIds :
        /\ listener[p] = Nil /\ info[t] = Unused
        /\ listener' = [listener EXCEPT ![p] = t]
        /\ info' = [info EXCEPT ![t] = NewTunnel(s, p, Head(queue[s]))]
        /\ worker' = [worker EXCEPT ![s] = [pc |-> "inserting", tunnel |-> t]]
  BY DEF ForwardListen, Bindable
<1>2. info'[t].Owner = s /\ info'[t].RemotePort = p
  BY <1>1 DEF TypeOK, NewTunnel
<1>3. UNCHANGED <<conn, sweep, tunnels>> /\ worker[s].pc = "idle" /\ ~TunnelLimit(s)
  BY DEF ForwardListen, sessionVars, tunnelVars, Pending
<1>4. \A q \in Ports : listener'[q] = IF q = p THEN t ELSE listener[q]
  BY <1>1 DEF TypeOK
<1>5. /\ worker'[s] = [pc |-> "inserting", tunnel |-> t]
      /\ \A v \in Sessions \ {s} : worker'[v] = worker[v]
  BY <1>1 DEF TypeOK
<1>6. ~Used(t)
  BY <1>1, UnusedFresh
<1>7. /\ \A q \in Ports : listener[q] # Nil =>
           listener[q] # t /\ info'[listener[q]].Owner = info[listener[q]].Owner
      /\ \A v \in Sessions, q \in Ports : tunnels[v][q] # t
      /\ \A v \in Sessions : worker[v].pc # "idle" =>
           /\ worker[v].tunnel # t
           /\ info'[worker[v].tunnel].RemotePort = info[worker[v].tunnel].RemotePort
           /\ info[worker[v].tunnel].RemotePort \in Ports
  <2>1. \A q \in Ports : listener[q] # Nil =>
          listener[q] # t /\ info'[listener[q]].Owner = info[listener[q]].Owner
    BY <1>6 DEF PortRefs, Kept, TypeOK
  <2>2. ASSUME NEW v \in Sessions, NEW q \in Ports
        PROVE  tunnels[v][q] # t
    <3>1. CASE tunnels[v][q] = Nil
      BY <3>1, NilFresh
    <3>2. CASE tunnels[v][q] # Nil
      BY <3>2, <1>6 DEF PortRefs, Used
    <3> QED
      BY <3>1, <3>2
  <2>3. \A v \in Sessions : worker[v].pc # "idle" =>
          /\ worker[v].tunnel # t
          /\ info'[worker[v].tunnel].RemotePort = info[worker[v].tunnel].RemotePort
          /\ info[worker[v].tunnel].RemotePort \in Ports
    BY <1>6 DEF PortRefs, Kept, Used
  <2> QED
    BY <2>1, <2>2, <2>3
<1>8. WorkerSound'
  <2>1. \A q \in Ports : listener[q] # t
    BY <1>6, <1>7, NilFresh
  <2>2. tunnels'[s][p] # t
    BY <1>3, <1>7
  <2>3. listener'[p] = t
    BY <1>4
  <2>4. ASSUME NEW v \in Sessions \ {s}
        PROVE  LET w == worker'[v].tunnel
               IN /\ worker'[v].pc = "inserting" =>
                       /\ listener'[info'[w].RemotePort] = w
                       /\ tunnels'[v][info'[w].RemotePort] # w
                  /\ worker'[v].pc = "deleting" =>
                       /\ \A q \in Ports : listener'[q] # w
                       /\ tunnels'[v][info'[w].RemotePort] = w
    <3>1. PICK w : w = worker[v].tunnel
      OBVIOUS
    <3>2. /\ worker'[v] = worker[v] /\ worker'[v].tunnel = w
          /\ tunnels' = tunnels /\ \A q \in Ports : listener'[q] \in {t, listener[q]}
      BY <1>3, <1>4, <1>5, <2>4, <3>1
    <3>3. worker[v].pc # "idle" =>
            w # t /\ info'[w].RemotePort = info[w].RemotePort /\ info[w].RemotePort \in Ports
      BY <1>7, <3>1
    <3>4. worker[v].pc = "inserting" => listener[info[w].RemotePort] = w
      BY <3>1 DEF WorkerSound
    <3>5. worker[v].pc = "inserting" => tunnels[v][info[w].RemotePort] # w
      BY <3>1 DEF WorkerSound
    <3>6. worker[v].pc = "deleting" =>
            (\A q \in Ports : listener[q] # w) /\ tunnels[v][info[w].RemotePort] = w
      BY <3>1 DEF WorkerSound
    <3>7. worker[v].pc = "inserting" => listener'[info[w].RemotePort] = w
      <4>1. CASE info[w].RemotePort = p
        <5>1. worker[v].pc = "inserting" => w = Nil
          BY <1>1, <3>4, <4>1
        <5>2. worker[v].pc # "idle" => w \in TunnelIds
          BY <3>1 DEF PortRefs
        <5> QED
          BY <5>1, <5>2, NilFresh
      <4>2. CASE info[w].RemotePort # p
        BY <1>4, <3>3, <3>4, <4>2
      <4> QED
        BY <4>1, <4>2
    <3> QED
      BY <3>2, <3>3, <3>5, <3>6, <3>7
  <2> QED
    <3>1. LET w == worker'[s].tunnel
          IN /\ worker'[s].pc = "inserting" =>
                  listener'[info'[w].RemotePort] = w /\ tunnels'[s][info'[w].RemotePort] # w
             /\ worker'[s].pc # "deleting"
      BY <1>2, <1>5, <2>2, <2>3
    <3> QED
      BY <2>4, <3>1 DEF WorkerSound
<1>9. PortsAccounted'
  <2>1. ASSUME NEW v \in Sessions, NEW q \in Ports,
               tunnels'[v][q] # Nil, Unswept(v, q)'
        PROVE  \/ listener'[q] = tunnels'[v][q]
               \/ worker'[v] = [pc |-> "deleting", tunnel |-> tunnels'[v][q]]
    <3>1. \/ listener[q] = tunnels[v][q]
          \/ v # s /\ worker[v] = [pc |-> "deleting", tunnel |-> tunnels[v][q]]
      BY <1>3, <2>1 DEF PortsAccounted, Unswept
    <3> QED
      BY <1>1, <1>3, <1>4, <1>5, <2>1, <3>1
  <2>2. ASSUME NEW q \in Ports, listener'[q] # Nil
        PROVE  LET v == info'[listener'[q]].Owner
               IN \/ tunnels'[v][q] = listener'[q]
                  \/ worker'[v] = [pc |-> "inserting", tunnel |-> listener'[q]]
    <3>1. CASE q = p
      BY <1>2, <1>4, <1>5, <3>1
    <3>2. CASE q # p
      <4> DEFINE v == info[listener[q]].Owner
      <4>1. v \in Sessions /\ info'[listener'[q]].Owner = v /\ listener'[q] = listener[q]
        BY <1>4, <1>7, <2>2, <3>2 DEF PortRefs, Used
      <4>2. \/ tunnels[v][q] = listener[q]
            \/ v # s /\ worker[v] = [pc |-> "inserting", tunnel |-> listener[q]]
        BY <1>3, <2>2, <4>1 DEF PortsAccounted
      <4> QED
        BY <1>3, <1>5, <4>1, <4>2
    <3> QED
      BY <3>1, <3>2
  <2> QED
    BY <2>1, <2>2 DEF PortsAccounted
<1>10. ClaimQuota'
  <2>1. \A v \in Sessions \ {s} : Claims(v)' = Claims(v)
    BY <1>3, <1>5, <1>7 DEF Claims
  <2>2. Claims(s) = Tunnels(s) /\ Claims(s)' = Claims(s) \cup {p}
    BY <1>2, <1>3, <1>5 DEF Claims, Tunnels
  <2>3. Cardinality(Claims(s)) \in Nat /\ ~(Cardinality(Claims(s)) >= MaxTunnels)
    BY <1>3, <2>2, ClaimsFinite, FS_CardinalityType DEF TunnelLimit
  <2>4. Cardinality(Claims(s) \cup {p}) <= Cardinality(Claims(s)) + 1
    <3>1. Cardinality(Claims(s) \cup {p}) = IF p \in Claims(s) THEN Cardinality(Claims(s))
                                             ELSE Cardinality(Claims(s)) + 1
      BY ClaimsFinite, FS_AddElement
    <3> HIDE DEF IInv
    <3> QED
      BY <2>3, <3>1
  <2>5. Cardinality(Claims(s) \cup {p}) <= MaxTunnels
    <3>1. Cardinality(Claims(s) \cup {p}) \in Nat
      BY ClaimsFinite, FS_AddElement, FS_CardinalityType
    <3> QED
      BY <2>3, <2>4, <3>1, ServerAssumption
  <2> QED
    BY <2>1, <2>2, <2>5 DEF ClaimQuota
<1> QED
  BY <1>8, <1>9, <1>10

(* A step of the request loop of s after which the loop is idle.           *)
LEMMA OtherWorkers ==
  ASSUME WorkerSound, NEW s \in Sessions, UNCHANGED <<listener, info>>,
         worker'[s].pc = "idle",
         \A v \in Sessions \ {s} : worker'[v] = worker[v] /\ tunnels'[v] = tunnels[v]
  PROVE  WorkerSound'
<1>1. ASSUME NEW v \in Sessions \ {s}
      PROVE  LET w == worker'[v].tunnel
             IN /\ worker'[v].pc = "inserting" =>
                     /\ listener'[info'[w].RemotePort] = w
                     /\ tunnels'[v][info'[w].RemotePort] # w
                /\ worker'[v].pc = "deleting" =>
                     /\ \A p \in Ports : listener'[p] # w
                     /\ tunnels'[v][info'[w].RemotePort] = w
  <2>1. worker'[v] = worker[v] /\ tunnels'[v] = tunnels[v] /\ listener' = listener /\ info' = info
    BY <1>1
  <2>2. PICK w : w = worker[v].tunnel
    OBVIOUS
  <2>3. /\ worker[v].pc = "inserting" =>
             listener[info[w].RemotePort] = w /\ tunnels[v][info[w].RemotePort] # w
        /\ worker[v].pc = "deleting" =>
             /\ \A p \in Ports : listener[p] # w
             /\ tunnels[v][info[w].RemotePort] = w
    BY <2>2 DEF WorkerSound
  <2> QED
    BY <2>1, <2>2, <2>3
<1> QED
  BY <1>1 DEF WorkerSound

(* handleForwardRequest writes the map; the port was claimed already.      *)
LEMMA PortForwardInsert ==
  ASSUME IInv, NEW s \in Sessions, ForwardInsert(s)
  PROVE  WorkerSound' /\ PortsAccounted' /\ ClaimQuota'
<1> USE DEF IInv
<1> DEFINE t == worker[s].tunnel
           p == info[t].RemotePort
<1>1. t \in TunnelIds /\ info[t].Owner = s /\ p \in Ports /\ listener[p] = t
  BY DEF ForwardInsert, PortRefs, WorkerSound
<1>2. UNCHANGED <<conn, sweep, listener, info>> /\ worker[s].pc = "inserting"
  BY DEF ForwardInsert, sessionVars, tunnelVars
<1>3. /\ worker'[s] = IdleWork
      /\ \A v \in Sessions \ {s} : worker'[v] = worker[v]
  BY DEF ForwardInsert, TypeOK
<1>4. /\ \A v \in Sessions \ {s} : tunnels'[v] = tunnels[v]
      /\ \A q \in Ports : tunnels'[s][q] = IF q = p THEN t ELSE tunnels[s][q]
  BY <1>1 DEF ForwardInsert, TypeOK
<1>5. worker'[s].pc = "idle"
  BY <1>3 DEF IdleWork
<1>6. WorkerSound'
  BY <1>2, <1>3, <1>4, <1>5, OtherWorkers
<1>7. PortsAccounted'
  <2>1. ASSUME NEW v \in Sessions, NEW q \in Ports,
               tunnels'[v][q] # Nil, Unswept(v, q)'
        PROVE  \/ listener'[q] = tunnels'[v][q]
               \/ worker'[v] = [pc |-> "deleting", tunnel |-> tunnels'[v][q]]
    <3>1. CASE v = s /\ q = p
      BY <1>1, <1>2, <1>4, <3>1
    <3>2. CASE ~(v = s /\ q = p)
      <4>1. tunnels'[v][q] = tunnels[v][q]
        BY <1>4, <3>2
      <4>2. \/ listener[q] = tunnels[v][q]
            \/ v # s /\ worker[v] = [pc |-> "deleting", tunnel |-> tunnels[v][q]]
        BY <1>2, <2>1, <4>1 DEF PortsAccounted, Unswept
      <4> QED
        BY <1>2, <1>3, <4>1, <4>2
    <3> QED
      BY <3>1, <3>2
  <2>2. ASSUME NEW q \in Ports, listener'[q] # Nil
        PROVE  LET v == info'[listener'[q]].Owner
               IN \/ tunnels'[v][q] = listener'[q]
                  \/ worker'[v] = [pc |-> "inserting", tunnel |-> listener'[q]]
    <3> DEFINE v == info[listener[q]].Owner
    <3>1. /\ v \in Sessions /\ info[listener[q]].RemotePort = q
          /\ \/ tunnels[v][q] = listener[q]
             \/ worker[v] = [pc |-> "inserting", tunnel |-> listener[q]]
      BY <1>2, <2>2 DEF PortRefs, Used, PortsAccounted
    <3>2. CASE v # s
      BY <1>2, <1>3, <1>4, <3>1, <3>2
    <3>3. CASE v = s /\ q = p
      BY <1>1, <1>2, <1>4, <3>3
    <3>4. CASE v = s /\ q # p
      <4>1. worker[v] # [pc |-> "inserting", tunnel |-> listener[q]]
        BY <3>1, <3>4
      <4> QED
        BY <1>2, <1>4, <3>1, <3>4, <4>1
    <3> QED
      BY <3>2, <3>3, <3>4
  <2> QED
    BY <2>1, <2>2 DEF PortsAccounted
<1>8. ClaimQuota'
  <2>1. \A v \in Sessions : Claims(v)' = Claims(v)
    BY <1>1, <1>2, <1>3, <1>4, <1>5, NilFresh DEF Claims
  <2> QED
    BY <2>1 DEF ClaimQuota
<1> QED
  BY <1>6, <1>7, <1>8

(* handleCancelForwardRequest deletes the tunnel it has closed.            *)
LEMMA PortCancelDelete ==
  ASSUME IInv, NEW s \in Sessions, CancelDelete(s)
  PROVE  WorkerSound' /\ PortsAccounted' /\ ClaimQuota'
<1> USE DEF IInv
<1> DEFINE t == worker[s].tunnel
           p == info[t].RemotePort
<1>1. /\ t \in TunnelIds /\ info[t].Owner = s /\ p \in Ports
      /\ tunnels[s][p] = t /\ \A q \in Ports : listener[q] # t
  BY DEF CancelDelete, PortRefs, WorkerSound
<1>2. /\ UNCHANGED <<conn, listener, info>> /\ worker[s].pc = "deleting"
      /\ \A v \in Sessions, q \in Ports : Unswept(v, q)' => Unswept(v, q)
  <2>1. UNCHANGED <<conn, listener, info>> /\ worker[s].pc = "deleting"
    BY DEF CancelDelete
  <2>2. \A v \in Sessions, q \in Ports : sweep'[v][q] \in {"may", sweep[v][q]}
    BY DEF CancelDelete, TypeOK
  <2> QED
    BY <2>1, <2>2 DEF Unswept
<1>3. /\ worker'[s] = IdleWork
      /\ \A v \in Sessions \ {s} : worker'[v] = worker[v]
  BY DEF CancelDelete, TypeOK
<1>4. /\ \A v \in Sessions \ {s} : tunnels'[v] = tunnels[v]
      /\ \A q \in Ports : tunnels'[s][q] = IF q = p THEN Nil ELSE tunnels[s][q]
  BY <1>1 DEF CancelDelete, TypeOK
<1>5. worker'[s].pc = "idle"
  BY <1>3 DEF IdleWork
<1>6. WorkerSound'
  BY <1>2, <1>3, <1>4, <1>5, OtherWorkers
<1>7. PortsAccounted'
  <2>1. ASSUME NEW v \in Sessions, NEW q \in Ports,
               tunnels'[v][q] # Nil, Unswept(v, q)'
        PROVE  \/ listener'[q] = tunnels'[v][q]
               \/ worker'[v] = [pc |-> "deleting", tunnel |-> tunnels'[v][q]]
    <3>1. tunnels'[v][q] = tunnels[v][q] /\ ~(v = s /\ q = p)
      BY <1>4, <2>1
    <3>2. \/ listener[q] = tunnels[v][q]
          \/ worker[v] = [pc |-> "deleting", tunnel |-> tunnels[v][q]]
      BY <1>2, <2>1, <3>1 DEF PortsAccounted
    <3>3. CASE v = s
      <4>1. info[tunnels[v][q]].RemotePort = q
        BY <2>1, <3>1 DEF PortRefs
      <4>2. worker[v] # [pc |-> "deleting", tunnel |-> tunnels[v][q]]
        BY <3>1, <3>3, <4>1
      <4> QED
        BY <1>2, <3>1, <3>2, <4>2
    <3> QED
      BY <1>2, <1>3, <3>1, <3>2, <3>3
  <2>2. ASSUME NEW q \in Ports, listener'[q] # Nil
        PROVE  LET v == info'[listener'[q]].Owner
               IN \/ tunnels'[v][q] = listener'[q]
                  \/ worker'[v] = [pc |-> "inserting", tunnel |-> listener'[q]]
    <3> DEFINE v == info[listener[q]].Owner
    <3>1. /\ v \in Sessions
          /\ \/ tunnels[v][q] = listener[q]
             \/ worker[v] = [pc |-> "inserting", tunnel |-> listener[q]]
      BY <1>2, <2>2 DEF PortRefs, Used, PortsAccounted
    <3>2. CASE v # s
      BY <1>2, <1>3, <1>4, <3>1, <3>2
    <3>3. CASE v = s
      <4>1. tunnels[v][q] = listener[q]
        BY <1>2, <3>1, <3>3
      <4>2. q # p
        BY <1>1, <3>3, <4>1
      <4> QED
        BY <1>2, <1>4, <3>3, <4>1, <4>2
    <3> QED
      BY <3>2, <3>3
  <2> QED
    BY <2>1, <2>2 DEF PortsAccounted
<1>8. ClaimQuota'
  <2>1. \A v \in Sessions \ {s} : Claims(v)' = Claims(v)
    BY <1>2, <1>3, <1>4 DEF Claims
  <2>2. Claims(s)' \subseteq Claims(s)
    BY <1>2, <1>4, <1>5 DEF Claims
  <2>3. Cardinality(Claims(s)') <= Cardinality(Claims(s))
    BY <2>2, ClaimsFinite, FS_Subset
  <2>4. Cardinality(Claims(s)') \in Nat /\ Cardinality(Claims(s)) \in Nat
    BY <2>2, ClaimsFinite, FS_Subset, FS_CardinalityType
  <2>5. Cardinality(Claims(s)') <= MaxTunnels
    BY <2>3, <2>4, ServerAssumption DEF ClaimQuota
  <2> QED
    BY <2>1, <2>5 DEF ClaimQuota
<1> QED
  BY <1>6, <1>7, <1>8

(* Closing the listeners of T, which all belong to session s.              *)
LEMMA PortClose ==
  ASSUME IInv, NEW s \in Sessions, NEW T, CloseListeners(T), T \subseteq Registered(s),
         UNCHANGED <<tunnels, info>>,
         \A v \in Sessions \ {s} : worker'[v] = worker[v],
         \A v \in Sessions, p \in Ports : Unswept(v, p)' => Unswept(v, p),
         worker'[s].pc = "inserting" => worker'[s] = worker[s],
         worker[s].pc = "inserting" => worker'[s] = worker[s],
         worker'[s].pc = "deleting" =>
           \/ worker'[s] = worker[s]
           \/ \E p \in Ports : T = {tunnels[s][p]} /\ tunnels[s][p] = worker'[s].tunnel,
         \A p \in Ports : tunnels[s][p] \in T =>
           \/ ~Unswept(s, p)'
           \/ worker'[s] = [pc |-> "deleting", tunnel |-> tunnels[s][p]],
         worker[s].pc = "deleting" => worker'[s] = worker[s]
  PROVE  WorkerSound' /\ PortsAccounted' /\ ClaimQuota'
<1> USE DEF IInv
<1>1. \A q \in Ports : listener'[q] = IF listener[q] \in T THEN Nil ELSE listener[q]
  BY CloseListenersType
<1>2. \A t \in T : /\ t \in TunnelIds /\ info[t].Owner = s
                   /\ info[t].RemotePort \in Ports /\ tunnels[s][info[t].RemotePort] = t
  BY DEF Registered, Tunnels, PortRefs, TypeOK
<1>3. \A v \in Sessions : worker[v].pc = "inserting" => worker[v].tunnel \notin T
  <2> SUFFICES ASSUME NEW v \in Sessions, worker[v].pc = "inserting", worker[v].tunnel \in T
               PROVE  FALSE
    OBVIOUS
  <2>1. PICK w : w = worker[v].tunnel
    OBVIOUS
  <2>2. info[w].Owner = v /\ tunnels[v][info[w].RemotePort] # w
    BY <2>1 DEF WorkerSound, PortRefs
  <2>3. info[w].Owner = s /\ tunnels[s][info[w].RemotePort] = w
    BY <1>2, <2>1
  <2> QED
    BY <2>2, <2>3
<1>4. WorkerSound'
  <2>1. ASSUME NEW v \in Sessions, worker'[v] = worker[v]
        PROVE  LET w == worker'[v].tunnel
               IN /\ worker'[v].pc = "inserting" =>
                       /\ listener'[info'[w].RemotePort] = w
                       /\ tunnels'[v][info'[w].RemotePort] # w
                  /\ worker'[v].pc = "deleting" =>
                       /\ \A q \in Ports : listener'[q] # w
                       /\ tunnels'[v][info'[w].RemotePort] = w
    <3>1. PICK w : w = worker[v].tunnel
      OBVIOUS
    <3>2. worker[v].pc = "inserting" =>
            /\ info[w].RemotePort \in Ports /\ listener[info[w].RemotePort] = w
            /\ tunnels[v][info[w].RemotePort] # w /\ w \notin T
      BY <1>3, <3>1 DEF WorkerSound, PortRefs
    <3>3. worker[v].pc = "inserting" => listener'[info[w].RemotePort] = w
      BY <1>1, <3>2
    <3>4. worker[v].pc = "deleting" =>
            /\ w # Nil /\ \A q \in Ports : listener[q] # w
            /\ tunnels[v][info[w].RemotePort] = w
      BY <3>1, NilFresh DEF WorkerSound, PortRefs
    <3>5. worker[v].pc = "deleting" => \A q \in Ports : listener'[q] # w
      BY <1>1, <3>4
    <3> QED
      BY <2>1, <3>1, <3>2, <3>3, <3>4, <3>5
  <2>2. ASSUME worker'[s].pc = "deleting", NEW q \in Ports,
               T = {tunnels[s][q]}, tunnels[s][q] = worker'[s].tunnel
        PROVE  LET w == worker'[s].tunnel
               IN /\ \A r \in Ports : listener'[r] # w
                  /\ tunnels'[s][info'[w].RemotePort] = w
    BY <1>1, <1>2, <2>2, NilFresh
  <2> QED
    BY <2>1, <2>2 DEF WorkerSound
<1>5. PortsAccounted'
  <2>1. ASSUME NEW v \in Sessions, NEW q \in Ports,
               tunnels'[v][q] # Nil, Unswept(v, q)'
        PROVE  \/ listener'[q] = tunnels'[v][q]
               \/ worker'[v] = [pc |-> "deleting", tunnel |-> tunnels'[v][q]]
    <3>1. \/ listener[q] = tunnels[v][q]
          \/ worker[v] = [pc |-> "deleting", tunnel |-> tunnels[v][q]]
      BY <2>1 DEF PortsAccounted
    <3>2. CASE v # s
      <4>1. tunnels[v][q] \notin T
        BY <1>2, <2>1, <3>2 DEF PortRefs
      <4> QED
        BY <1>1, <3>1, <3>2, <4>1
    <3>3. CASE v = s /\ listener[q] = tunnels[v][q]
      BY <1>1, <2>1, <3>3
    <3>4. CASE v = s /\ worker[v] = [pc |-> "deleting", tunnel |-> tunnels[v][q]]
      BY <2>1, <3>4
    <3> QED
      BY <3>1, <3>2, <3>3, <3>4
  <2>2. ASSUME NEW q \in Ports, listener'[q] # Nil
        PROVE  LET v == info'[listener'[q]].Owner
               IN \/ tunnels'[v][q] = listener'[q]
                  \/ worker'[v] = [pc |-> "inserting", tunnel |-> listener'[q]]
    <3> DEFINE v == info[listener[q]].Owner
    <3>1. /\ v \in Sessions /\ listener'[q] = listener[q]
          /\ \/ tunnels[v][q] = listener[q]
             \/ worker[v] = [pc |-> "inserting", tunnel |-> listener[q]]
      BY <1>1, <2>2 DEF PortRefs, Used, PortsAccounted
    <3> QED
      BY <3>1
  <2> QED
    BY <2>1, <2>2 DEF PortsAccounted
<1>6. ClaimQuota'
  <2>1. \A v \in Sessions : Claims(v)' = Claims(v)
    BY DEF Claims
  <2> QED
    BY <2>1 DEF ClaimQuota
<1> QED
  BY <1>4, <1>5, <1>6

(* The clean-up of a lost session closes only its own listeners.           *)
LEMMA PortSweep ==
  ASSUME IInv, NEW s \in Sessions, NEW p \in Ports, SweepClose(s, p)
  PROVE  WorkerSound' /\ PortsAccounted' /\ ClaimQuota'
<1> DEFINE T == InMap(s, p)
<1>1. CloseListeners(T) /\ UNCHANGED <<tunnels, info, worker, conn>> /\ conn[s] = "sweeping"
  BY DEF SweepClose
<1>2. T = {tunnels[s][p]} /\ T \subseteq Registered(s)
  BY DEF SweepClose, InMap, Registered, Tunnels
<1>3. \A v \in Sessions, q \in Ports :
        sweep'[v][q] = IF v = s /\ q = p THEN "not" ELSE sweep[v][q]
  BY DEF SweepClose, IInv, TypeOK
<1>4. \A v \in Sessions, q \in Ports : Unswept(v, q)' => Unswept(v, q)
  BY <1>1, <1>3 DEF Unswept
<1>5. ASSUME NEW q \in Ports, tunnels[s][q] \in T
      PROVE  ~Unswept(s, q)'
  <2>1. tunnels[s][q] = tunnels[s][p] /\ tunnels[s][p] # Nil
    BY <1>2, <1>5 DEF SweepClose, Tunnels
  <2>2. q = p
    BY <2>1 DEF IInv, PortRefs
  <2> QED
    BY <1>1, <1>3, <2>2 DEF Unswept
<1> HIDE DEF T
<1> QED
  BY <1>1, <1>2, <1>4, <1>5, PortClose

(* A cancel request closes a listener of its own session.                  *)
LEMMA PortCancelClose ==
  ASSUME IInv, NEW s \in Sessions, CancelClose(s)
  PROVE  WorkerSound' /\ PortsAccounted' /\ ClaimQuota'
<1> DEFINE p == Head(queue[s]).port
           t == Lookup(s, p)
<1>1. /\ CloseListeners({t}) /\ UNCHANGED <<tunnels, info, conn, sweep>>
      /\ worker' = [worker EXCEPT ![s] = [pc |-> "deleting", tunnel |-> t]]
      /\ worker[s].pc = "idle" /\ t # Nil
  BY DEF CancelClose, Pending, sessionVars
<1>2. /\ worker'[s] = [pc |-> "deleting", tunnel |-> t]
      /\ \A v \in Sessions \ {s} : worker'[v] = worker[v]
  BY <1>1 DEF IInv, TypeOK
<1>3. p \in Ports /\ t = tunnels[s][p] /\ t \in Registered(s)
  BY <1>1, LookupType DEF IInv, Registered, Tunnels
<1>4. worker'[s].pc = "deleting" /\ worker'[s].tunnel = t
  BY <1>2
<1>5. \A v \in Sessions, q \in Ports : Unswept(v, q)' => Unswept(v, q)
  BY <1>1 DEF Unswept
<1> HIDE DEF p, t
<1> QED
  BY <1>1, <1>2, <1>3, <1>4, <1>5, PortClose

(* A session gets requests and tunnels only once it is established.        *)
LEMMA FreshStep ==
  ASSUME IInv, [Next]_vars
  PROVE  FreshSession'
<1> USE DEF IInv
<1>1. ASSUME NEW s \in Sessions,
             \/ Accept(s) \/ Establish(s) \/ Refuse(s) \/ Lose(s) \/ Sweep(s)
             \/ Unregister(s) \/ Release(s)
      PROVE  FreshSession'
  <2>1. \A v \in Sessions : conn'[v] \in {"none", "handshake"} => conn[v] \in {"none", "handshake"}
    BY <1>1 DEF Accept, Establish, Refuse, Lose, Sweep, SweepBegin,
                SweepClose, SweepEnd, Unregister, Release, TypeOK
  <2>2. UNCHANGED <<queue, worker, tunnels>>
    BY <1>1 DEF Accept, Establish, Refuse, Lose, Sweep, SweepBegin,
                SweepClose, SweepEnd, Unregister, Release, tunnelVars
  <2> QED
    BY <2>1, <2>2 DEF FreshSession
<1>2. ASSUME NEW s \in Sessions, Serve(s) \/ \E r \in Requests : Receive(s, r)
      PROVE  FreshSession'
  <2>1. conn[s] \notin {"none", "handshake"}
    BY <1>2 DEF FreshSession, Serve, ForwardRefused, ForwardListen, ForwardInsert, CancelMiss,
                CancelClose, CancelDelete, TunnelInfo, HealthReport, Pending, Receive
  <2>2. UNCHANGED conn
    BY <1>2 DEF Serve, ForwardRefused, ForwardListen, ForwardInsert, CancelMiss,
                CancelClose, CancelDelete, TunnelInfo, HealthReport, Receive, sessionVars
  <2>3. \A v \in Sessions \ {s} :
          queue'[v] = queue[v] /\ worker'[v] = worker[v] /\ tunnels'[v] = tunnels[v]
    BY <1>2 DEF TypeOK, Serve, ForwardRefused, ForwardListen, ForwardInsert, CancelMiss,
                CancelClose, CancelDelete, TunnelInfo, HealthReport, Receive, Dequeue, tunnelVars
  <2> QED
    BY <2>1, <2>2, <2>3 DEF FreshSession
<1>3. CASE UNCHANGED <<conn, queue, worker, tunnels>>
  BY <1>3 DEF FreshSession
<1> QED
  BY <1>1, <1>2, <1>3
     DEF Next, SessionStep, LoopStep, UserStep, HandlerStep, vars, sessionVars, tunnelVars, MapRace,
         LoopAccept, LoopStop, LoopGone, LoopFull, LoopAcquire, LoopSpawn, UserConnect,
         HandlerStart, HandlerOpen, HandlerOpenFail, HandlerEnd, HandlerRelease, HandlerDone

(* Every step keeps the agreement of ports and maps and the limit.         *)
LEMMA PortStep ==
  ASSUME IInv, [Next]_vars
  PROVE  WorkerSound' /\ PortsAccounted' /\ ClaimQuota'
<1>1. Kept
  BY KeptStep DEF IInv
<1>2. CASE /\ UNCHANGED <<worker, tunnels, listener>>
           /\ \A s \in Sessions, p \in Ports :
                Unswept(s, p)' => Unswept(s, p) \/ tunnels[s][p] = Nil
  BY <1>1, <1>2, PortFrame DEF IInv
<1>3. ASSUME NEW s \in Sessions,
             \/ Accept(s) \/ Establish(s) \/ Refuse(s) \/ Lose(s) \/ Unregister(s) \/ Release(s)
      PROVE  WorkerSound' /\ PortsAccounted' /\ ClaimQuota'
  <2>1. UNCHANGED <<sweep, worker, tunnels, listener>>
    BY <1>3 DEF Accept, Establish, Refuse, Lose, Unregister, Release, tunnelVars
  <2>2. \A v \in Sessions : conn'[v] \in {"up", "lost"} =>
          conn[v] \in {"up", "lost"} \/ conn[v] = "handshake"
    BY <1>3 DEF Accept, Establish, Refuse, Lose, Unregister, Release, IInv, TypeOK
  <2> QED
    BY <1>2, <2>1, <2>2 DEF IInv, FreshSession, Unswept
<1>4. CASE UNCHANGED <<conn, sweep, worker, tunnels, listener>>
  BY <1>2, <1>4 DEF Unswept
<1>5. ASSUME NEW s \in Sessions, Serve(s)
      PROVE  WorkerSound' /\ PortsAccounted' /\ ClaimQuota'
  BY <1>1, <1>4, <1>5, PortForwardListen, PortForwardInsert, PortCancelClose, PortCancelDelete
     DEF Serve, ForwardRefused, CancelMiss, TunnelInfo, HealthReport, sessionVars, tunnelVars
<1>6. ASSUME NEW s \in Sessions, Sweep(s)
      PROVE  WorkerSound' /\ PortsAccounted' /\ ClaimQuota'
  <2>1. CASE SweepBegin(s)
    <3>1. UNCHANGED <<worker, tunnels, listener>> /\ conn[s] = "lost"
      BY <2>1 DEF SweepBegin, tunnelVars
    <3>2. \A v \in Sessions \ {s} : conn'[v] = conn[v] /\ sweep'[v] = sweep[v]
      BY <2>1 DEF SweepBegin, IInv, TypeOK
    <3> QED
      BY <1>2, <3>1, <3>2 DEF Unswept
  <2>2. CASE SweepEnd(s)
    <3>1. UNCHANGED <<worker, tunnels, listener>>
      BY <2>2 DEF SweepEnd, tunnelVars
    <3>2. \A v \in Sessions \ {s} : conn'[v] = conn[v] /\ sweep'[v] = sweep[v]
      BY <2>2 DEF SweepEnd, IInv, TypeOK
    <3>3. conn'[s] = "swept" /\ \A p \in Ports : sweep'[s][p] = "may"
      BY <2>2 DEF SweepEnd, IInv, TypeOK
    <3> QED
      BY <1>2, <3>1, <3>2, <3>3 DEF Unswept
  <2> QED
    BY <1>6, <2>1, <2>2, PortSweep DEF Sweep
<1> QED
  BY <1>3, <1>4, <1>5, <1>6
     DEF Next, SessionStep, LoopStep, UserStep, HandlerStep, vars, sessionVars, tunnelVars,
         MapRace, Receive,
         LoopAccept, LoopStop, LoopGone, LoopFull, LoopAcquire, LoopSpawn, UserConnect,
         HandlerStart, HandlerOpen, HandlerOpenFail, HandlerEnd, HandlerRelease, HandlerDone

(* IInv is inductive.                                                      *)
LEMMA InvStep == IInv /\ [Next]_vars => IInv'
<1> SUFFICES ASSUME IInv, [Next]_vars PROVE IInv'
  OBVIOUS
<1>1. TypeOK' /\ PortRefs' /\ UserRefs'
  BY TypeStep, PortRefsStep, UserRefsStep DEF IInv
<1>2. WorkerSound' /\ PortsAccounted' /\ ClaimQuota'
  BY PortStep
<1> QED
  BY <1>1, <1>2, FreshStep DEF IInv

(* IInv holds in every reachable state of the server.                      *)
THEOREM Invariance == Spec => []IInv
<1>1. IInv /\ UNCHANGED vars => IInv'
  BY InvStep
<1> QED
  BY InitInv, InvStep, PTL DEF Spec

-----------------------------------------------------------------------------
(* What the invariant gives.                                               *)

(* Every variable keeps its type, for all instances of the server.         *)
THEOREM TypeCorrect == Spec => []TypeOK
<1>1. IInv => TypeOK
  BY DEF IInv
<1> QED
  BY <1>1, Invariance, PTL

(* The maps of live sessions and the open ports of the host agree.         *)
THEOREM PortsAgree == Spec => []PortsAccounted
<1>1. IInv => PortsAccounted
  BY DEF IInv
<1> QED
  BY <1>1, Invariance, PTL

(* Open ports and registered tunnels of a session are claims of it.        *)
LEMMA HeldClaims ==
  ASSUME IInv, NEW s \in Sessions
  PROVE  HeldBy(s) \subseteq Claims(s) /\ Tunnels(s) \subseteq Claims(s)
<1>1. ASSUME NEW p \in Ports, listener[p] # Nil, info[listener[p]].Owner = s
      PROVE  p \in Claims(s)
  <2>1. info[listener[p]].RemotePort = p
    BY <1>1 DEF IInv, PortRefs
  <2>2. \/ tunnels[s][p] = listener[p]
        \/ worker[s] = [pc |-> "inserting", tunnel |-> listener[p]]
    BY <1>1 DEF IInv, PortsAccounted
  <2> QED
    BY <1>1, <2>1, <2>2 DEF Claims
<1> QED
  BY <1>1 DEF HeldBy, Tunnels, Claims

(* No session exceeds max_tunnels_per_client, in its map or in the ports   *)
(* it holds, whatever it requests and whenever its session ends.           *)
THEOREM QuotaKept == Spec => []TunnelQuota
<1>1. ASSUME IInv, NEW s \in Sessions, NEW S, S \subseteq Claims(s)
      PROVE  Cardinality(S) <= MaxTunnels
  <2>1. IsFiniteSet(Claims(s)) /\ Cardinality(Claims(s)) <= MaxTunnels
    BY <1>1, ClaimsFinite DEF IInv, ClaimQuota
  <2>2. IsFiniteSet(S) /\ Cardinality(S) <= Cardinality(Claims(s))
    BY <1>1, <2>1, FS_Subset
  <2>3. Cardinality(S) \in Nat /\ Cardinality(Claims(s)) \in Nat
    BY <2>1, <2>2, FS_CardinalityType
  <2> QED
    BY <2>1, <2>2, <2>3, ServerAssumption
<1>2. IInv => TunnelQuota
  BY <1>1, HeldClaims DEF TunnelQuota
<1> QED
  BY <1>2, Invariance, PTL

(* The steps that close listeners close those of one session, which is     *)
(* being cleaned up or has asked for it.                                   *)
Closes(s, T) ==
  /\ CloseListeners(T) /\ UNCHANGED info
  /\ \A t \in T : t \in TunnelIds /\ info[t].Owner = s
  /\ \/ conn[s] = "sweeping"
     \/ \A t \in T : worker'[s] = [pc |-> "deleting", tunnel |-> t]

(* A step opens one port, closes ports of one session, or leaves them.     *)
LEMMA PortCases ==
  ASSUME IInv, [Next]_vars
  PROVE  \/ UNCHANGED listener
         \/ \E s \in Sessions : ForwardListen(s)
         \/ \E s \in Sessions, T \in SUBSET TunnelIds : Closes(s, T)
<1>1. ASSUME NEW s \in Sessions, Sweep(s)
      PROVE  UNCHANGED listener \/ \E T \in SUBSET TunnelIds : Closes(s, T)
  <2>1. SweepBegin(s) \/ SweepEnd(s) => UNCHANGED listener
    BY DEF SweepBegin, SweepEnd, tunnelVars
  <2>2. ASSUME NEW p \in Ports, SweepClose(s, p)
        PROVE  \E T \in SUBSET TunnelIds : Closes(s, T)
    <3>1. CloseListeners(InMap(s, p)) /\ UNCHANGED info /\ conn[s] = "sweeping"
      BY <2>2 DEF SweepClose
    <3>2. \A t \in InMap(s, p) : t \in TunnelIds /\ info[t].Owner = s
      BY DEF IInv, TypeOK, PortRefs, InMap
    <3> QED
      BY <3>1, <3>2 DEF Closes
  <2> QED
    BY <1>1, <2>1, <2>2 DEF Sweep
<1>2. ASSUME NEW s \in Sessions, CancelClose(s)
      PROVE  \E T \in SUBSET TunnelIds : Closes(s, T)
  <2> DEFINE p == Head(queue[s]).port
             t == Lookup(s, p)
  <2>1. /\ CloseListeners({t}) /\ UNCHANGED info /\ t # Nil
        /\ worker' = [worker EXCEPT ![s] = [pc |-> "deleting", tunnel |-> t]]
    BY <1>2 DEF CancelClose
  <2>2. p \in Ports /\ t \in TunnelIds /\ t = tunnels[s][p]
    BY <2>1, LookupType DEF IInv
  <2>3. info[t].Owner = s
    BY <2>1, <2>2 DEF IInv, PortRefs
  <2>4. worker'[s] = [pc |-> "deleting", tunnel |-> t]
    BY <2>1 DEF IInv, TypeOK
  <2> HIDE DEF t
  <2>5. PICK T : T = {t}
    OBVIOUS
  <2>6. T \in SUBSET TunnelIds /\ \A x \in T : x = t
    BY <2>2, <2>5
  <2>7. Closes(s, T)
    BY <2>1, <2>2, <2>3, <2>4, <2>5, <2>6 DEF Closes
  <2> QED
    BY <2>6, <2>7
<1> QED
  BY <1>1, <1>2
     DEF Next, SessionStep, Serve, LoopStep, UserStep, HandlerStep, vars, sessionVars, tunnelVars,
         Accept, Establish, Refuse, Lose, Unregister, Release, MapRace, Receive,
         ForwardRefused, ForwardInsert, CancelMiss, CancelDelete, TunnelInfo, HealthReport,
         LoopAccept, LoopStop, LoopGone, LoopFull, LoopAcquire, LoopSpawn, UserConnect,
         HandlerStart, HandlerOpen, HandlerOpenFail, HandlerEnd, HandlerRelease, HandlerDone

(* An open port closes only by its own session's request or clean-up,      *)
(* although cancelling and binding interleave across sessions.             *)
THEOREM OwnerCloses == Spec => OnlyOwnerCloses
<1> DEFINE Closed(p) == LET s == info[listener[p]].Owner
                        IN /\ listener'[p] = Nil
                           /\ \/ conn[s] = "sweeping"
                              \/ worker'[s] = [pc |-> "deleting", tunnel |-> listener[p]]
<1>1. ASSUME IInv, [Next]_vars, NEW p \in Ports, listener[p] # Nil, listener'[p] # listener[p]
      PROVE  Closed(p)
  <2>1. ASSUME NEW s \in Sessions, ForwardListen(s)
        PROVE  FALSE
    <3>1. \E q \in Ports, t \in TunnelIds :
            listener[q] = Nil /\ listener' = [listener EXCEPT ![q] = t]
      BY <2>1 DEF ForwardListen, Bindable
    <3> QED
      BY <1>1, <3>1 DEF IInv, TypeOK
  <2>2. ASSUME NEW s \in Sessions, NEW T \in SUBSET TunnelIds, Closes(s, T)
        PROVE  Closed(p)
    <3>1. listener'[p] = IF listener[p] \in T THEN Nil ELSE listener[p]
      BY <2>2 DEF Closes, CloseListeners
    <3>2. listener[p] \in T /\ listener'[p] = Nil
      BY <1>1, <3>1
    <3> QED
      BY <2>2, <3>2 DEF Closes
  <2> QED
    BY <1>1, <2>1, <2>2, PortCases
<1>2. IInv /\ [Next]_vars =>
        [\A p \in Ports : listener[p] # Nil /\ listener'[p] # listener[p] => Closed(p)]_vars
  BY <1>1
<1> QED
  BY <1>2, Invariance, PTL DEF OnlyOwnerCloses, Spec

-----------------------------------------------------------------------------
(* Admission.                                                              *)

(* The connections that hold a permit of max_connections.                  *)
Admitted == {s \in Sessions : conn[s] \notin {"none", "gone"}}

(* The other steps leave the sessions alone.                               *)
LEMMA SessionCases ==
  ASSUME [Next]_vars
  PROVE  \/ UNCHANGED sessionVars
         \/ \E s \in Sessions :
              \/ Accept(s) \/ Establish(s) \/ Refuse(s) \/ Lose(s)
              \/ Sweep(s) \/ Unregister(s) \/ Release(s) \/ CancelDelete(s)
<1>1. ASSUME NEW s \in Sessions, Serve(s) \/ (\E r \in Requests : Receive(s, r)) \/ MapRace(s)
      PROVE  UNCHANGED sessionVars \/ CancelDelete(s)
  BY <1>1 DEF Serve, sessionVars, MapRace, Receive, ForwardRefused, ForwardListen, ForwardInsert,
              CancelMiss, CancelClose, TunnelInfo, HealthReport
<1>2. ASSUME NEW t \in TunnelIds, LoopStep(t)
      PROVE  UNCHANGED sessionVars
  BY <1>2 DEF LoopStep, sessionVars,
              LoopAccept, LoopStop, LoopGone, LoopFull, LoopAcquire, LoopSpawn
<1>3. ASSUME NEW u \in Users, UserStep(u)
      PROVE  UNCHANGED sessionVars
  BY <1>3 DEF UserStep, HandlerStep, sessionVars, UserConnect, HandlerStart, HandlerOpen,
              HandlerOpenFail, HandlerEnd, HandlerRelease, HandlerDone
<1>4. UNCHANGED vars => UNCHANGED sessionVars
  BY DEF vars, sessionVars
<1> QED
  BY <1>1, <1>2, <1>3, <1>4 DEF Next, SessionStep

(* A session that is accepted takes the permit, one that ends returns it;  *)
(* in between the permits and the list of sessions follow its position.    *)
LEMMA AdmissionStep ==
  ASSUME TypeOK, Admission, [Next]_vars
  PROVE  Admission'
<1>1. IsFiniteSet(Admitted) /\ sem = Cardinality(Admitted)
  BY ServerAssumption, FS_Subset DEF Admission, Admitted
<1>2. CASE UNCHANGED <<conn, sem, activeConns>>
  BY <1>2 DEF Admission
<1>3. ASSUME NEW s \in Sessions, Accept(s)
      PROVE  Admission'
  <2>1. conn' = [conn EXCEPT ![s] = "handshake"] /\ conn[s] = "none"
        /\ sem < MaxConnections /\ sem' = sem + 1 /\ activeConns' = activeConns
    BY <1>3 DEF Accept
  <2>2. Admitted' = Admitted \cup {s} /\ s \notin Admitted
    BY <2>1 DEF Admitted, TypeOK
  <2>3. Cardinality(Admitted') = Cardinality(Admitted) + 1
    BY <1>1, <2>2, FS_AddElement
  <2>4. activeConns' = {v \in Sessions : conn'[v] \in {"up", "lost", "sweeping", "swept"}}
    BY <2>1 DEF Admission, TypeOK
  <2>5. sem' <= MaxConnections
    BY <2>1, ServerAssumption DEF TypeOK
  <2> QED
    BY <1>1, <2>1, <2>3, <2>4, <2>5 DEF Admission, Admitted
<1>4. ASSUME NEW s \in Sessions, Release(s)
      PROVE  Admission'
  <2>1. conn' = [conn EXCEPT ![s] = "gone"] /\ conn[s] = "closing"
        /\ sem' = sem - 1 /\ activeConns' = activeConns
    BY <1>4 DEF Release
  <2>2. Admitted' = Admitted \ {s} /\ s \in Admitted
    BY <2>1 DEF Admitted, TypeOK
  <2>3. Cardinality(Admitted') = Cardinality(Admitted) - 1
    BY <1>1, <2>2, FS_RemoveElement
  <2>4. activeConns' = {v \in Sessions : conn'[v] \in {"up", "lost", "sweeping", "swept"}}
    BY <2>1 DEF Admission, TypeOK
  <2>5. sem' <= MaxConnections
    BY <2>1, ServerAssumption DEF Admission, TypeOK
  <2> QED
    BY <1>1, <2>1, <2>3, <2>4, <2>5 DEF Admission, Admitted
<1>5. ASSUME NEW s \in Sessions,
             Establish(s) \/ Refuse(s) \/ Lose(s) \/ Sweep(s) \/ Unregister(s)
      PROVE  Admission'
  <2>1. sem' = sem /\ Admitted' = Admitted
    BY <1>5 DEF Establish, Refuse, Lose, Sweep, SweepBegin, SweepClose, SweepEnd, Unregister,
                Admitted, TypeOK
  <2>2. activeConns' = {v \in Sessions : conn'[v] \in {"up", "lost", "sweeping", "swept"}}
    <3>1. CASE Establish(s)
      <4>1. conn' = [conn EXCEPT ![s] = "up"] /\ activeConns' = activeConns \cup {s}
        BY <3>1 DEF Establish
      <4> QED
        BY <4>1 DEF Admission, TypeOK
    <3>2. CASE Unregister(s)
      <4>1. conn' = [conn EXCEPT ![s] = "closing"] /\ activeConns' = activeConns \ {s}
        BY <3>2 DEF Unregister
      <4> QED
        BY <4>1 DEF Admission, TypeOK
    <3>3. CASE Refuse(s) \/ Lose(s) \/ Sweep(s)
      BY <3>3 DEF Refuse, Lose, Sweep, SweepBegin, SweepClose, SweepEnd, Admission, TypeOK
    <3> QED
      BY <1>5, <3>1, <3>2, <3>3
  <2> QED
    BY <1>1, <2>1, <2>2 DEF Admission, Admitted
<1> QED
  BY <1>2, <1>3, <1>4, <1>5, SessionCases DEF sessionVars, CancelDelete

(* max_connections: for any number of sessions and any limit, a permit is  *)
(* held exactly from the acceptance of a connection to the end of its      *)
(* handler, and the status lists the sessions that are up or being cleaned *)
(* up, on every path through handshake, loss and clean-up.                 *)
THEOREM AdmissionKept == Spec => []Admission
<1>1. Init => Admission
  <2>1. ASSUME Init
        PROVE  Admission
    <3>1. {s \in Sessions : conn[s] \notin {"none", "gone"}} = {}
      BY <2>1 DEF Init
    <3>2. activeConns = {s \in Sessions : conn[s] \in {"up", "lost", "sweeping", "swept"}} /\ sem = 0
      BY <2>1 DEF Init
    <3> QED
      BY <3>1, <3>2, FS_EmptySet, ServerAssumption DEF Admission
  <2> QED
    BY <2>1
<1>2. Admission /\ TypeOK /\ [Next]_vars => Admission'
  BY AdmissionStep
<1> QED
  BY <1>1, <1>2, TypeCorrect, PTL DEF Spec

-----------------------------------------------------------------------------
(* Permits: the invariant behind PermitsMatch.                             *)

SameKey(t, v) == /\ info[t].Owner = info[v].Owner
                 /\ info[t].RemotePort = info[v].RemotePort

(* The tunnel whose permit the handler of u holds or will return.          *)
Held(u) == IF user[u].pc = "spawned" THEN user[u].held
           ELSE IF user[u].pc \in {"open", "relay", "release"} THEN user[u].tunnel
           ELSE Nil

(* A permit is one of a tunnel of the session and port that were accepted  *)
(* on, though perhaps not of the tunnel whose listener accepted.           *)
SameKeys ==
  /\ \A t \in TunnelIds : loop[t].pc = "count" => SameKey(loop[t].tunnel, t)
  /\ \A u \in Users : user[u].pc = "spawned" => user[u].held \in TunnelIds
  /\ \A u \in Users : Held(u) # Nil => SameKey(Held(u), user[u].via)

(* A connection is in the hands of the loop that accepted it, and of no    *)
(* other.                                                                  *)
OneLoop ==
  \A t \in TunnelIds : loop[t].pc \in {"lookup", "count"} =>
    user[loop[t].user].pc = "accepted" /\ user[loop[t].user].via = t

(* Nothing has happened on a tunnel that is not yet in the map.            *)
Inserting(t) == \E s \in Sessions : worker[s] = [pc |-> "inserting", tunnel |-> t]

Untouched(t) == /\ loop[t].pc = "off" /\ info[t].connSem = 0
                /\ Holders(t) = {} /\ Acquiring(t) = {}

NotStarted == \A t \in TunnelIds : ~Used(t) \/ Inserting(t) => Untouched(t)

(* What PermitsMatch says of a tunnel, with the finiteness of what it      *)
(* counts: there may be any number of users and tunnels.                   *)
InUse(t) == Cardinality(Holders(t)) + Cardinality(Acquiring(t))

Counted(t) ==
  /\ IsFiniteSet(Holders(t)) /\ IsFiniteSet(Acquiring(t))
  /\ info[t].connSem <= MaxConnsPerTunnel
  /\ Sole(t) => /\ InUse(t) <= info[t].connSem
                /\ Current(t) = t => InUse(t) = info[t].connSem

PInv == /\ SameKeys /\ OneLoop /\ NotStarted
        /\ \A t \in TunnelIds : Used(t) => Counted(t)

(* The holders of a tunnel, by what each user holds.                       *)
LEMMA HoldersHeld ==
  ASSUME NEW t \in TunnelIds
  PROVE  /\ Holders(t) = {u \in Users : Held(u) = t}
         /\ Holders(t)' = {u \in Users : Held(u)' = t}
BY NilFresh DEF Holders, Held

(* A tunnel in the map is one that was made, has the session and port it   *)
(* was looked up under, and is not about to be inserted.                   *)
LEMMA CurrentStarted ==
  ASSUME IInv, NEW t \in TunnelIds, Used(t), Current(t) # Nil
  PROVE  /\ Current(t) \in TunnelIds /\ Used(Current(t)) /\ ~Inserting(Current(t))
         /\ SameKey(Current(t), t) /\ Current(Current(t)) = Current(t)
<1> DEFINE c == Current(t)
           p == info[t].RemotePort
<1>1. /\ info[t].Owner \in Sessions /\ p \in Ports /\ c = tunnels[info[t].Owner][p]
      /\ c \in TunnelIds
  BY CurrentType DEF Used, Current, IInv
<1>2. info[c].Owner = info[t].Owner /\ info[c].RemotePort = p
  <2>1. \A s \in Sessions, q \in Ports : tunnels[s][q] # Nil =>
          info[tunnels[s][q]].Owner = s /\ info[tunnels[s][q]].RemotePort = q
    BY DEF IInv, PortRefs
  <2>2. info[t].Owner \in Sessions /\ tunnels[info[t].Owner][p] # Nil
    BY <1>1 DEF Used
  <2> HIDE DEF c, p
  <2> QED
    BY <1>1, <2>1, <2>2
<1>3. ASSUME NEW s \in Sessions, worker[s] = [pc |-> "inserting", tunnel |-> c]
      PROVE  FALSE
  <2>1. worker[s].pc = "inserting" /\ worker[s].tunnel = c
    BY <1>3
  <2>2. info[c].Owner = s
    BY <2>1 DEF IInv, PortRefs
  <2>3. tunnels[s][info[c].RemotePort] # c
    BY <2>1 DEF IInv, WorkerSound
  <2> QED
    BY <1>1, <1>2, <2>2, <2>3
<1> HIDE DEF c, p
<1>4. Used(c) /\ SameKey(c, t) /\ ~Inserting(c)
  BY <1>1, <1>2, <1>3 DEF Used, SameKey, Inserting, p
<1>5. Current(c) = c
  BY <1>1, <1>2 DEF Current, p
<1> QED
  BY <1>1, <1>4, <1>5 DEF c

(* A tunnel whose port was bound only once was so before the step.         *)
LEMMA SoleStep ==
  ASSUME IInv, [Next]_vars, NEW t \in TunnelIds, Used(t), Sole(t)'
  PROVE  Sole(t)
<1>1. Kept
  BY KeptStep DEF IInv
<1>2. ASSUME NEW v \in TunnelIds \ {t}, SameKey(v, t)
      PROVE  FALSE
  <2>1. Used(v)
    BY <1>2 DEF Used, SameKey
  <2> QED
    BY <1>1, <1>2, <2>1 DEF Kept, SameKey, Sole
<1> QED
  BY <1>2 DEF Sole, SameKey

(* Only an insertion puts a tunnel in the map.                             *)
LEMMA CurrentStep ==
  ASSUME IInv, [Next]_vars, NEW t \in TunnelIds, Used(t), (Current(t) = t)',
         \A s \in Sessions : ForwardInsert(s) => worker[s].tunnel # t
  PROVE  Current(t) = t
<1>0. t # Nil
  BY NilFresh
<1>1. Kept
  BY KeptStep DEF IInv
<1>2. Current(t)' = tunnels'[info[t].Owner][info[t].RemotePort]
  BY <1>1 DEF Kept, Current
<1>3. ASSUME NEW s \in Sessions, ForwardInsert(s)
      PROVE  Current(t) = t
  <2> DEFINE v == worker[s].tunnel
  <2>1. tunnels' = [tunnels EXCEPT ![s][info[v].RemotePort] = v] /\ v # t
    BY <1>3 DEF ForwardInsert
  <2> HIDE DEF v
  <2> QED
    BY <1>2, <2>1 DEF Current, Used, IInv, TypeOK
<1>4. ASSUME NEW s \in Sessions, CancelDelete(s)
      PROVE  Current(t) = t
  <2> DEFINE v == worker[s].tunnel
  <2>1. tunnels' = [tunnels EXCEPT ![s][info[v].RemotePort] = Nil]
    BY <1>4 DEF CancelDelete
  <2> HIDE DEF v
  <2> QED
    BY <1>0, <1>2, <2>1 DEF Current, Used, IInv, TypeOK
<1>5. CASE UNCHANGED tunnels
  BY <1>2, <1>5 DEF Current
<1> QED
  BY <1>3, <1>4, <1>5
     DEF Next, SessionStep, Serve, LoopStep, UserStep, HandlerStep, vars, tunnelVars,
         Accept, Establish, Refuse, Lose, Sweep,
         SweepBegin, SweepClose, SweepEnd, Unregister, Release, Receive, MapRace,
         ForwardRefused, ForwardListen, CancelMiss, CancelClose, TunnelInfo, HealthReport,
         LoopAccept, LoopStop, LoopGone, LoopFull, LoopAcquire, LoopSpawn, UserConnect,
         HandlerStart, HandlerOpen, HandlerOpenFail, HandlerEnd, HandlerRelease, HandlerDone

(* What the steps change of it: most change no permit, no holder and no    *)
(* loop that is about to hand one over.                                    *)
Quiet ==
  /\ \A t \in TunnelIds :
       /\ loop[t].pc = "count" <=> loop'[t].pc = "count"
       /\ loop'[t].pc = "count" => loop'[t].tunnel = loop[t].tunnel
       /\ info'[t].connSem = info[t].connSem
  /\ \A u \in Users :
       /\ user'[u].pc = "spawned" => user[u].pc = "spawned" /\ user'[u].held = user[u].held
       /\ Held(u)' = Held(u)
       /\ Held(u) # Nil => user'[u].via = user[u].via

(* A user connection that holds no permit and gets none.                   *)
Idle(u) == user[u].pc \notin {"spawned", "open", "relay", "release"}

(* A step that moves only such connections is quiet.                       *)
LEMMA IdleQuiet ==
  ASSUME UNCHANGED <<loop, info>>, NEW U \in SUBSET Users,
         \A u \in U : Idle(u) /\ Idle(u)',
         \A u \in Users \ U : user'[u] = user[u]
  PROVE  Quiet
BY DEF Quiet, Idle, Held

(* The session steps and the request loops.                                *)
LEMMA SessionQuiet ==
  ASSUME IInv, NotStarted, NEW s \in Sessions, SessionStep(s)
  PROVE  Quiet
<1>1. ASSUME NEW T, CloseListeners(T), UNCHANGED <<loop, info>>
      PROVE  Quiet
  <2> DEFINE U == {u \in Users : user[u].pc = "queued"}
  <2>1. \A u \in Users \ U : user'[u] = user[u]
    BY <1>1 DEF CloseListeners
  <2>2. \A u \in U : user'[u].pc \in {"queued", "closed"}
    BY <1>1, CloseListenersType DEF IInv
  <2>3. \A u \in U : Idle(u) /\ Idle(u)'
    BY <2>2 DEF Idle
  <2> HIDE DEF U
  <2>4. U \in SUBSET Users
    BY DEF U
  <2> QED
    BY <1>1, <2>1, <2>3, <2>4, IdleQuiet
<1>2. CASE ForwardListen(s)
  <2>1. PICK p \in Ports, t \in TunnelIds :
          info[t] = Unused /\ info' = [info EXCEPT ![t] = NewTunnel(s, p, Head(queue[s]))]
    BY <1>2 DEF ForwardListen, Bindable
  <2>2. info'[t].connSem = 0 /\ info[t].connSem = 0
    <3>1. NewTunnel(s, p, Head(queue[s])).connSem = 0 /\ Unused.connSem = 0
      BY DEF NewTunnel, Unused
    <3>2. info'[t] = NewTunnel(s, p, Head(queue[s]))
      BY <2>1 DEF IInv, TypeOK
    <3> QED
      BY <2>1, <3>1, <3>2
  <2>3. \A v \in TunnelIds : info'[v].connSem = info[v].connSem
    BY <2>1, <2>2 DEF IInv, TypeOK
  <2>4. UNCHANGED <<loop, user>>
    BY <1>2 DEF ForwardListen
  <2> QED
    BY <2>3, <2>4 DEF Quiet, Held
<1>3. CASE ForwardInsert(s)
  <2> DEFINE t == worker[s].tunnel
  <2>1. loop' = [loop EXCEPT ![t].pc = "wait"] /\ UNCHANGED <<info, user>>
    BY <1>3 DEF ForwardInsert
  <2>2. t \in TunnelIds /\ worker[s] = [pc |-> "inserting", tunnel |-> t]
    BY <1>3 DEF ForwardInsert, IInv, TypeOK, Workers, PortRefs
  <2>3. loop[t].pc = "off"
    BY <2>2 DEF NotStarted, Inserting, Untouched
  <2> HIDE DEF t
  <2>4. loop'[t].pc = "wait" /\ \A v \in TunnelIds \ {t} : loop'[v] = loop[v]
    BY <2>1, <2>2 DEF IInv, TypeOK, Loops
  <2> QED
    BY <2>1, <2>3, <2>4 DEF Quiet, Held
<1>4. CASE TunnelInfo(s) \/ HealthReport(s)
  <2> DEFINE t == Lookup(s, Head(queue[s]).port)
  <2>1. UNCHANGED <<loop, user>>
    BY <1>4 DEF TunnelInfo, HealthReport
  <2>2. CASE t = Nil
    <3>1. UNCHANGED info
      BY <1>4, <2>2 DEF TunnelInfo, HealthReport
    <3> QED
      BY <2>1, <3>1 DEF Quiet, Held
  <2>3. CASE t # Nil
    <3>1. \E v : \/ info' = [info EXCEPT ![t].LocalAddr = v]
                 \/ info' = [info EXCEPT ![t].State = v]
      BY <1>4, <2>3 DEF TunnelInfo, HealthReport
    <3>2. t \in TunnelIds
      BY <2>3, LookupType DEF IInv
    <3>3. info[t] \in TunnelInfos
      BY <3>2 DEF IInv, TypeOK
    <3>4. info'[t].connSem = info[t].connSem
      BY <3>1, <3>2, <3>3 DEF IInv, TypeOK, TunnelInfos
    <3>5. \A v \in TunnelIds \ {t} : info'[v] = info[v]
      BY <3>1, <3>2 DEF IInv, TypeOK
    <3> HIDE DEF t
    <3> QED
      BY <2>1, <3>4, <3>5 DEF Quiet, Held
  <2> QED
    BY <2>2, <2>3
<1>5. CASE UNCHANGED <<loop, info, user>>
  BY <1>5 DEF Quiet, Held
<1> QED
  BY <1>1, <1>2, <1>3, <1>4, <1>5
     DEF SessionStep, Serve, vars, tunnelVars, Accept, Establish, Refuse, Lose, Sweep,
         SweepBegin, SweepClose, SweepEnd, Unregister,
         Release, Receive, MapRace, ForwardRefused, CancelMiss, CancelClose, CancelDelete

(* The accept loops, but for the two steps that handle a permit.           *)
LEMMA LoopQuiet ==
  ASSUME IInv, OneLoop, NEW t \in TunnelIds,
         LoopStep(t), ~LoopAcquire(t), ~LoopSpawn(t)
  PROVE  Quiet
<1>1. loop[t].pc # "count" /\ loop'[t].pc # "count"
  BY DEF LoopStep, LoopAccept, LoopStop, LoopGone, LoopFull, IInv, TypeOK, Loops, NoLoop
<1>2. UNCHANGED info /\ \A v \in TunnelIds \ {t} : loop'[v] = loop[v]
  BY DEF LoopStep, LoopAccept, LoopStop, LoopGone, LoopFull, tunnelVars, IInv, TypeOK
<1>3. ASSUME NEW u \in Users, Idle(u), Idle(u)', \A v \in Users \ {u} : user'[v] = user[v]
      PROVE  Quiet
  BY <1>1, <1>2, <1>3 DEF Quiet, Idle, Held
<1>4. ASSUME NEW u \in Users, LoopAccept(t, u)
      PROVE  Quiet
  <2>1. /\ \A v \in Users \ {u} : user'[v] = user[v]
        /\ user[u].pc = "queued" /\ user'[u].pc = "accepted"
    BY <1>4 DEF LoopAccept, IInv, TypeOK, UserConns
  <2> QED
    BY <1>3, <2>1 DEF Idle
<1>5. CASE LoopGone(t) \/ LoopFull(t)
  <2> DEFINE u == loop[t].user
  <2>1. u \in Users /\ user[u].pc = "accepted"
    BY <1>5 DEF LoopGone, LoopFull, IInv, UserRefs, OneLoop
  <2>2. (\A v \in Users \ {u} : user'[v] = user[v]) /\ user'[u].pc = "closed"
    BY <1>5, <2>1 DEF LoopGone, LoopFull, CloseUser, IInv, TypeOK, UserConns
  <2> HIDE DEF u
  <2> QED
    BY <1>3, <2>1, <2>2 DEF Idle
<1>6. CASE LoopStop(t)
  <2>1. UNCHANGED user
    BY <1>6 DEF LoopStop
  <2> QED
    BY <1>1, <1>2, <2>1 DEF Quiet, Held
<1> QED
  BY <1>4, <1>5, <1>6 DEF LoopStep

(* The handlers, but for the start and the release.                        *)
LEMMA UserQuiet ==
  ASSUME IInv, NEW u \in Users, UserStep(u), ~HandlerStart(u),
         HandlerRelease(u) => crashed' # "no"
  PROVE  Quiet
<1> USE DEF IInv, TypeOK
<1>1. ASSUME NEW p \in Ports, UserConnect(u, p)
      PROVE  Quiet
  <2>1. /\ \A v \in Users \ {u} : user'[v] = user[v]
        /\ user[u].pc = "away" /\ user'[u].pc = "queued"
        /\ UNCHANGED <<loop, info>>
    BY <1>1 DEF UserConnect, tunnelVars, UserConns
  <2>2. /\ {u} \in SUBSET Users
        /\ \A v \in {u} : Idle(v) /\ Idle(v)'
    BY <2>1 DEF Idle
  <2> QED
    BY <2>1, <2>2, IdleQuiet
<1>2. CASE HandlerOpen(u) \/ HandlerOpenFail(u) \/ HandlerEnd(u)
  <2>1. /\ \A v \in Users \ {u} : user'[v] = user[v]
        /\ user[u].pc \in {"open", "relay"} /\ user'[u].pc \in {"relay", "release"}
        /\ user'[u].tunnel = user[u].tunnel /\ user'[u].via = user[u].via
        /\ UNCHANGED loop
    BY <1>2 DEF HandlerOpen, HandlerOpenFail, HandlerEnd, UserConns
  <2>2. \A t \in TunnelIds : info'[t].connSem = info[t].connSem
    <3>1. CASE HandlerOpenFail(u)
      BY <3>1 DEF HandlerOpenFail, TunnelInfos
    <3>2. CASE HandlerOpen(u) \/ HandlerEnd(u)
      BY <3>2 DEF HandlerOpen, HandlerEnd, tunnelVars
    <3> QED
      BY <1>2, <3>1, <3>2
  <2> QED
    BY <2>1, <2>2 DEF Quiet, Held
<1>3. CASE HandlerDone(u)
  <2>1. /\ \A v \in Users \ {u} : user'[v] = user[v]
        /\ user[u].pc = "count" /\ user'[u].pc = "closed"
        /\ UNCHANGED loop
    BY <1>3 DEF HandlerDone, CloseUser, UserConns
  <2>2. \A t \in TunnelIds : info'[t].connSem = info[t].connSem
    BY <1>3 DEF HandlerDone, TunnelInfos
  <2> QED
    BY <2>1, <2>2 DEF Quiet, Held
<1>4. CASE HandlerRelease(u)
  <2>1. UNCHANGED <<loop, info, user>>
    BY <1>4 DEF HandlerRelease
  <2> QED
    BY <2>1 DEF Quiet, Held
<1> QED
  BY <1>1, <1>2, <1>3, <1>4 DEF UserStep, HandlerStep

(* A quiet step changes no count.                                          *)
LEMMA QuietSame ==
  ASSUME Quiet, NEW t \in TunnelIds
  PROVE  /\ Holders(t)' = Holders(t) /\ Acquiring(t)' = Acquiring(t)
         /\ info'[t].connSem = info[t].connSem
<1>1. Holders(t)' = Holders(t)
  <2>1. \A u \in Users : Held(u)' = Held(u)
    BY DEF Quiet
  <2>2. {u \in Users : Held(u)' = t} = {u \in Users : Held(u) = t}
    BY <2>1
  <2> QED
    BY <2>2, HoldersHeld
<1>2. Acquiring(t)' = Acquiring(t)
  BY DEF Quiet, Acquiring
<1> QED
  BY <1>1, <1>2 DEF Quiet

(* The permit that an accept loop takes is one of the tunnel in the map.   *)
LEMMA AcquireEffect ==
  ASSUME IInv, PInv, NEW t \in TunnelIds, LoopAcquire(t)
  PROVE  \E c \in TunnelIds :
           /\ Used(c) /\ ~Inserting(c) /\ SameKey(c, t) /\ Current(c) = c
           /\ info[c].connSem < MaxConnsPerTunnel
           /\ info'[c].connSem = info[c].connSem + 1
           /\ \A v \in TunnelIds \ {c} : info'[v].connSem = info[v].connSem
           /\ \A v \in TunnelIds : Holders(v)' = Holders(v)
           /\ t \notin Acquiring(c) /\ Acquiring(c)' = Acquiring(c) \cup {t}
           /\ \A v \in TunnelIds \ {c} : Acquiring(v)' = Acquiring(v)
           /\ \A v \in TunnelIds \ {t} : loop'[v] = loop[v]
           /\ loop[t].pc = "lookup" /\ loop'[t].pc = "count"
           /\ loop'[t].tunnel = c /\ loop'[t].user = loop[t].user
<1>1. Used(t) /\ Current(t) # Nil /\ loop[t].pc = "lookup"
  BY DEF LoopAcquire, IInv, UserRefs
<1>2. PICK c \in TunnelIds : c = Current(t)
  BY <1>1, CurrentType DEF IInv
<1>3. Used(c) /\ ~Inserting(c) /\ SameKey(c, t) /\ Current(c) = c
  BY <1>1, <1>2, CurrentStarted
<1>4. /\ info[c].connSem < MaxConnsPerTunnel
      /\ info' = [info EXCEPT ![c].connSem = @ + 1, ![c].State = "active"]
      /\ loop' = [loop EXCEPT ![t].pc = "count", ![t].tunnel = c,
                              ![t].count = info[c].ActiveConns]
      /\ UNCHANGED user
  BY <1>2 DEF LoopAcquire
<1>5. /\ info'[c].connSem = info[c].connSem + 1
      /\ \A v \in TunnelIds \ {c} : info'[v].connSem = info[v].connSem
  BY <1>4 DEF IInv, TypeOK, TunnelInfos
<1>6. /\ \A v \in TunnelIds \ {t} : loop'[v] = loop[v]
      /\ loop'[t].pc = "count" /\ loop'[t].tunnel = c /\ loop'[t].user = loop[t].user
  BY <1>4 DEF IInv, TypeOK, Loops
<1>7. \A v \in TunnelIds : Holders(v)' = Holders(v)
  BY <1>4 DEF Holders
<1>8. /\ t \notin Acquiring(c) /\ Acquiring(c)' = Acquiring(c) \cup {t}
      /\ \A v \in TunnelIds \ {c} : Acquiring(v)' = Acquiring(v)
  BY <1>1, <1>6 DEF Acquiring
<1> QED
  BY <1>1, <1>3, <1>4, <1>5, <1>6, <1>7, <1>8

(* The loop hands the permit to the handler.                               *)
LEMMA SpawnEffect ==
  ASSUME IInv, PInv, NEW t \in TunnelIds, LoopSpawn(t)
  PROVE  \E c \in TunnelIds, u \in Users :
           /\ SameKey(c, t) /\ user[u].via = t /\ user[u].pc = "accepted"
           /\ \A v \in TunnelIds : info'[v].connSem = info[v].connSem
           /\ t \in Acquiring(c) /\ Acquiring(c)' = Acquiring(c) \ {t}
           /\ u \notin Holders(c) /\ Holders(c)' = Holders(c) \cup {u}
           /\ \A v \in TunnelIds \ {c} :
                Acquiring(v)' = Acquiring(v) /\ Holders(v)' = Holders(v)
           /\ \A v \in TunnelIds \ {t} : loop'[v] = loop[v]
           /\ \A v \in Users \ {u} : user'[v] = user[v]
           /\ loop'[t].pc = "wait" /\ u = loop[t].user
           /\ user'[u].pc = "spawned" /\ user'[u].held = c /\ user'[u].via = t
<1>1. loop[t].pc = "count"
  BY DEF LoopSpawn
<1>2. /\ loop[t].tunnel \in TunnelIds /\ loop[t].user \in Users
      /\ SameKey(loop[t].tunnel, t)
      /\ user[loop[t].user].pc = "accepted" /\ user[loop[t].user].via = t
  BY <1>1 DEF IInv, UserRefs, PInv, SameKeys, OneLoop
<1>3. PICK c \in TunnelIds, u \in Users : c = loop[t].tunnel /\ u = loop[t].user
  BY <1>2
<1>4. /\ info' = [info EXCEPT ![c].ActiveConns = loop[t].count + 1]
      /\ user' = [user EXCEPT ![u].pc = "spawned", ![u].held = c]
      /\ loop' = [loop EXCEPT ![t] = [NoLoop EXCEPT !.pc = "wait"]]
  BY <1>3 DEF LoopSpawn
<1>5. \A v \in TunnelIds : info'[v].connSem = info[v].connSem
  BY <1>4 DEF IInv, TypeOK, TunnelInfos
<1>6. /\ \A v \in TunnelIds \ {t} : loop'[v] = loop[v]
      /\ loop'[t].pc = "wait"
  BY <1>4 DEF IInv, TypeOK, NoLoop
<1>7. /\ \A v \in Users \ {u} : user'[v] = user[v]
      /\ user'[u].pc = "spawned" /\ user'[u].held = c /\ user'[u].via = t
  BY <1>2, <1>3, <1>4 DEF IInv, TypeOK, UserConns
<1>8. /\ t \in Acquiring(c) /\ Acquiring(c)' = Acquiring(c) \ {t}
      /\ \A v \in TunnelIds \ {c} : Acquiring(v)' = Acquiring(v)
  BY <1>1, <1>3, <1>6 DEF Acquiring
<1>9. /\ u \notin Holders(c) /\ Holders(c)' = Holders(c) \cup {u}
      /\ \A v \in TunnelIds \ {c} : Holders(v)' = Holders(v)
  BY <1>2, <1>3, <1>7 DEF Holders
<1> QED
  BY <1>2, <1>3, <1>5, <1>6, <1>7, <1>8, <1>9

(* The handler keeps the permit it was given, or takes over another of the *)
(* same session and port, or finds no tunnel and holds none.               *)
LEMMA StartEffect ==
  ASSUME IInv, PInv, NEW u \in Users, HandlerStart(u)
  PROVE  \E h \in TunnelIds, c \in TunnelIds \cup {Nil} :
           /\ SameKey(h, user[u].via) /\ c = Current(user[u].via) /\ c = Current(h)
           /\ c # Nil => /\ Used(c) /\ ~Inserting(c)
                         /\ SameKey(c, user[u].via) /\ SameKey(c, h)
           /\ user[u].pc = "spawned" /\ u \in Holders(h)
           /\ \A v \in TunnelIds :
                Holders(v)' = IF v = c THEN Holders(v) \cup {u} ELSE Holders(v) \ {u}
           /\ \A v \in TunnelIds : v # h => u \notin Holders(v)
           /\ \A v \in TunnelIds : Acquiring(v)' = Acquiring(v)
           /\ UNCHANGED <<info, loop>>
           /\ \A v \in Users \ {u} : user'[v] = user[v]
           /\ user'[u].via = user[u].via /\ user'[u].pc \in {"open", "release", "closed"}
           /\ Held(u)' = c
<1>1. user[u].pc = "spawned"
  BY DEF HandlerStart
<1>2. /\ user[u].held \in TunnelIds /\ Held(u) = user[u].held
      /\ SameKey(user[u].held, user[u].via)
      /\ user[u].via \in TunnelIds /\ Used(user[u].via)
  BY <1>1, NilFresh DEF Held, PInv, SameKeys, IInv, UserRefs
<1>3. PICK h \in TunnelIds, c \in TunnelIds \cup {Nil} :
        h = user[u].held /\ c = Current(user[u].via)
  BY <1>2, CurrentType DEF IInv
<1>4. c = Current(h)
  BY <1>2, <1>3 DEF Current, SameKey
<1>5. c # Nil => /\ Used(c) /\ ~Inserting(c)
                 /\ SameKey(c, user[u].via) /\ SameKey(c, h)
  BY <1>2, <1>3, CurrentStarted DEF SameKey
<1>6. /\ user' = [user EXCEPT ![u].tunnel = c, ![u].pc = AfterStart(c)]
      /\ UNCHANGED <<info, loop>>
  BY <1>3 DEF HandlerStart, tunnelVars
<1>7. /\ \A v \in Users \ {u} : user'[v] = user[v]
      /\ user'[u].via = user[u].via /\ user'[u].tunnel = c /\ user'[u].pc = AfterStart(c)
  BY <1>6 DEF IInv, TypeOK, UserConns
<1>8. /\ AfterStart(c) \in {"open", "release", "closed"}
      /\ c = Nil <=> AfterStart(c) = "closed"
  BY DEF AfterStart
<1>9. Held(u)' = c
  BY <1>7, <1>8 DEF Held
<1>10. \A v \in Users \ {u} : Held(v)' = Held(v)
  BY <1>7 DEF Held
<1>11. Held(u) = h
  BY <1>2, <1>3
<1>12. /\ u \in Holders(h) /\ \A v \in TunnelIds : v # h => u \notin Holders(v)
       /\ \A v \in TunnelIds :
            Holders(v)' = IF v = c THEN Holders(v) \cup {u} ELSE Holders(v) \ {u}
  BY <1>9, <1>10, <1>11, HoldersHeld
<1>13. \A v \in TunnelIds : Acquiring(v)' = Acquiring(v)
  BY <1>6 DEF Acquiring
<1> QED
  BY <1>1, <1>2, <1>3, <1>4, <1>5, <1>6, <1>7, <1>8, <1>9, <1>12, <1>13

(* The handler returns the permit of the tunnel it holds.                  *)
LEMMA ReleaseEffect ==
  ASSUME IInv, NEW u \in Users, HandlerRelease(u), crashed' = "no"
  PROVE  \E c \in TunnelIds :
           /\ info[c].connSem # 0 /\ info'[c].connSem = info[c].connSem - 1
           /\ \A v \in TunnelIds \ {c} : info'[v].connSem = info[v].connSem
           /\ u \in Holders(c) /\ Holders(c)' = Holders(c) \ {u}
           /\ \A v \in TunnelIds \ {c} : Holders(v)' = Holders(v)
           /\ \A v \in TunnelIds : Acquiring(v)' = Acquiring(v)
           /\ UNCHANGED loop
           /\ \A v \in Users \ {u} : user'[v] = user[v]
           /\ user[u].pc = "release" /\ user'[u].pc = "count"
<1>1. user[u].pc = "release" /\ user[u].tunnel \in TunnelIds
  BY DEF HandlerRelease, IInv, UserRefs
<1>2. PICK c \in TunnelIds : c = user[u].tunnel
  BY <1>1
<1>3. /\ info[c].connSem # 0
      /\ info' = [info EXCEPT ![c].connSem = @ - 1]
      /\ user' = [user EXCEPT ![u].pc = "count", ![u].count = info[c].ActiveConns]
      /\ UNCHANGED loop
  BY <1>2 DEF HandlerRelease
<1>4. /\ info'[c].connSem = info[c].connSem - 1
      /\ \A v \in TunnelIds \ {c} : info'[v].connSem = info[v].connSem
  BY <1>3 DEF IInv, TypeOK, TunnelInfos
<1>5. /\ \A v \in Users \ {u} : user'[v] = user[v]
      /\ user'[u].pc = "count"
  BY <1>3 DEF IInv, TypeOK, UserConns
<1>6. /\ u \in Holders(c) /\ Holders(c)' = Holders(c) \ {u}
      /\ \A v \in TunnelIds \ {c} : Holders(v)' = Holders(v)
  BY <1>1, <1>2, <1>5 DEF Holders
<1>7. \A v \in TunnelIds : Acquiring(v)' = Acquiring(v)
  BY <1>3 DEF Acquiring
<1> QED
  BY <1>1, <1>3, <1>4, <1>5, <1>6, <1>7

(* Each step does one of these.                                            *)
LEMMA PermitCases ==
  ASSUME IInv, PInv, [Next]_vars
  PROVE  \/ Quiet
         \/ \E t \in TunnelIds : LoopAcquire(t) \/ LoopSpawn(t)
         \/ \E u \in Users : HandlerStart(u) \/ (HandlerRelease(u) /\ crashed' = "no")
<1>1. CASE UNCHANGED vars
  BY <1>1 DEF vars, Quiet, Held
<1> QED
  BY <1>1, SessionQuiet, LoopQuiet, UserQuiet DEF Next, PInv

(* The steps keep SameKeys: what a loop or a handler holds is one of the   *)
(* keys it was looked up under, and keys do not change.                    *)
LEMMA SameKeysStep ==
  ASSUME IInv, PInv, [Next]_vars
  PROVE  SameKeys'
<1>1. Kept /\ \A t \in TunnelIds : Used(t) => Used(t)'
  BY KeptStep DEF IInv
<1>2. ASSUME NEW t \in TunnelIds, NEW v \in TunnelIds, SameKey(t, v), Used(v)
      PROVE  SameKey(t, v)'
  BY <1>1, <1>2 DEF Kept, SameKey, Used
<1>3. ASSUME NEW u \in Users, Held(u) # Nil
      PROVE  Held(u) \in TunnelIds /\ user[u].via \in TunnelIds /\ Used(user[u].via)
  <2>1. user[u].pc \in {"spawned", "open", "relay", "release"}
    BY <1>3 DEF Held
  <2> QED
    BY <1>3, <2>1 DEF Held, PInv, SameKeys, IInv, UserRefs
<1>4. ASSUME NEW u \in Users, user'[u] = user[u]
      PROVE  /\ user'[u].pc = "spawned" => user'[u].held \in TunnelIds
             /\ Held(u)' # Nil => SameKey(Held(u), user[u].via)'
  <2>1. Held(u)' = Held(u)
    BY <1>4 DEF Held
  <2>2. Held(u) # Nil => SameKey(Held(u), user[u].via)'
    <3>1. Held(u) # Nil => SameKey(Held(u), user[u].via)
      BY DEF PInv, SameKeys
    <3>2. PICK h, v : h = Held(u) /\ v = user[u].via
      OBVIOUS
    <3>3. h # Nil => SameKey(h, v)'
      BY <1>2, <1>3, <3>1, <3>2
    <3>4. h = Held(u)' /\ v = user'[u].via
      BY <1>4, <2>1, <3>2
    <3> QED
      BY <3>2, <3>3, <3>4 DEF SameKey
  <2> QED
    BY <1>4, <2>1, <2>2 DEF PInv, SameKeys
<1>5. ASSUME NEW t \in TunnelIds, loop'[t].pc = "count", loop[t].pc = "count",
             loop'[t].tunnel = loop[t].tunnel
      PROVE  SameKey(loop[t].tunnel, t)'
  <2>1. PICK c \in TunnelIds : c = loop[t].tunnel
    BY <1>5 DEF IInv, UserRefs
  <2>2. SameKey(c, t) /\ Used(t)
    BY <1>5, <2>1 DEF PInv, SameKeys, IInv, UserRefs
  <2>3. SameKey(c, t)'
    BY <1>2, <2>2
  <2> QED
    BY <1>5, <2>1, <2>3 DEF SameKey
<1>6. CASE Quiet
  <2>1. \A t \in TunnelIds : loop'[t].pc = "count" => SameKey(loop[t].tunnel, t)'
    BY <1>5, <1>6 DEF Quiet
  <2>2. \A u \in Users : user'[u].pc = "spawned" => user'[u].held \in TunnelIds
    BY <1>6 DEF Quiet, PInv, SameKeys
  <2>3. ASSUME NEW u \in Users, Held(u)' # Nil
        PROVE  SameKey(Held(u), user[u].via)'
    <3>1. PICK h, v : h = Held(u) /\ v = user[u].via
      OBVIOUS
    <3>2. h = Held(u)' /\ v = user'[u].via /\ Held(u) # Nil
      BY <1>6, <2>3, <3>1 DEF Quiet
    <3>3. SameKey(h, v)
      BY <3>1, <3>2 DEF PInv, SameKeys
    <3>4. SameKey(h, v)'
      BY <1>2, <1>3, <3>1, <3>2, <3>3
    <3> QED
      BY <3>2, <3>4 DEF SameKey
  <2> QED
    BY <2>1, <2>2, <2>3 DEF SameKeys
<1>7. ASSUME NEW t \in TunnelIds, LoopAcquire(t)
      PROVE  SameKeys'
  <2>1. PICK c \in TunnelIds :
          /\ SameKey(c, t) /\ \A v \in TunnelIds \ {t} : loop'[v] = loop[v]
          /\ loop[t].pc = "lookup" /\ loop'[t].pc = "count" /\ loop'[t].tunnel = c
    BY <1>7, AcquireEffect
  <2>2. UNCHANGED user
    BY <1>7 DEF LoopAcquire
  <2>3. SameKey(c, t)'
    BY <1>2, <2>1 DEF IInv, UserRefs
  <2>4. SameKey(loop[t].tunnel, t)'
    BY <2>1, <2>3 DEF SameKey
  <2>5. \A v \in TunnelIds : loop'[v].pc = "count" => SameKey(loop[v].tunnel, v)'
    BY <1>5, <2>1, <2>4
  <2> QED
    BY <1>4, <2>2, <2>5 DEF SameKeys
<1>8. ASSUME NEW t \in TunnelIds, LoopSpawn(t)
      PROVE  SameKeys'
  <2>1. PICK c \in TunnelIds, u \in Users :
          /\ SameKey(c, t) /\ \A v \in TunnelIds \ {t} : loop'[v] = loop[v]
          /\ \A v \in Users \ {u} : user'[v] = user[v]
          /\ loop'[t].pc = "wait"
          /\ user'[u].pc = "spawned" /\ user'[u].held = c /\ user'[u].via = t
    BY <1>8, SpawnEffect
  <2>2. Used(t)
    BY <1>8 DEF LoopSpawn, IInv, UserRefs
  <2>3. SameKey(c, t)'
    BY <1>2, <2>1, <2>2
  <2>4. Held(u)' = c
    BY <2>1 DEF Held
  <2>5. SameKey(Held(u), user[u].via)'
    BY <2>1, <2>3, <2>4 DEF SameKey
  <2>6. \A v \in TunnelIds : loop'[v].pc = "count" => SameKey(loop[v].tunnel, v)'
    BY <1>5, <2>1
  <2>7. \A v \in Users : /\ user'[v].pc = "spawned" => user'[v].held \in TunnelIds
                         /\ Held(v)' # Nil => SameKey(Held(v), user[v].via)'
    BY <1>4, <2>1, <2>5
  <2> QED
    BY <2>6, <2>7 DEF SameKeys
<1>9. ASSUME NEW u \in Users, HandlerStart(u)
      PROVE  SameKeys'
  <2>1. PICK c \in TunnelIds \cup {Nil} :
          /\ c # Nil => SameKey(c, user[u].via)
          /\ UNCHANGED <<info, loop>> /\ \A v \in Users \ {u} : user'[v] = user[v]
          /\ user'[u].via = user[u].via /\ user'[u].pc \in {"open", "release", "closed"}
          /\ Held(u)' = c
    BY <1>9, StartEffect
  <2>2. Held(u)' # Nil => SameKey(Held(u), user[u].via)'
    BY <2>1 DEF SameKey
  <2>3. \A v \in TunnelIds : loop'[v].pc = "count" => SameKey(loop[v].tunnel, v)'
    BY <1>5, <2>1
  <2>4. \A v \in Users : /\ user'[v].pc = "spawned" => user'[v].held \in TunnelIds
                         /\ Held(v)' # Nil => SameKey(Held(v), user[v].via)'
    BY <1>4, <2>1, <2>2
  <2> QED
    BY <2>3, <2>4 DEF SameKeys
<1>10. ASSUME NEW u \in Users, HandlerRelease(u), crashed' = "no"
       PROVE  SameKeys'
  <2>1. /\ UNCHANGED loop /\ \A v \in Users \ {u} : user'[v] = user[v]
        /\ user'[u].pc = "count"
    BY <1>10, ReleaseEffect
  <2>2. Held(u)' = Nil
    BY <2>1 DEF Held
  <2>3. \A v \in TunnelIds : loop'[v].pc = "count" => SameKey(loop[v].tunnel, v)'
    BY <1>5, <2>1
  <2>4. \A v \in Users : /\ user'[v].pc = "spawned" => user'[v].held \in TunnelIds
                         /\ Held(v)' # Nil => SameKey(Held(v), user[v].via)'
    BY <1>4, <2>1, <2>2
  <2> QED
    BY <2>3, <2>4 DEF SameKeys
<1> QED
  BY <1>6, <1>7, <1>8, <1>9, <1>10, PermitCases

(* The steps keep OneLoop: a loop takes only connections of its own        *)
(* listener, and those it holds are moved by no other goroutine.           *)
LEMMA OneLoopStep ==
  ASSUME IInv, PInv, [Next]_vars
  PROVE  OneLoop'
<1> USE DEF IInv, PInv
<1>1. ASSUME NEW t \in TunnelIds, LoopStep(t)
      PROVE  OneLoop'
  <2>1. \A v \in TunnelIds \ {t} : loop'[v] = loop[v]
    BY <1>1 DEF LoopStep, LoopAccept, LoopStop, LoopGone, LoopFull, LoopAcquire, LoopSpawn, TypeOK
  <2>2. ASSUME NEW u \in Users, user[u].via = t, \A v \in Users \ {u} : user'[v] = user[v]
        PROVE  \A v \in TunnelIds \ {t} : loop'[v].pc \in {"lookup", "count"} =>
                 user'[loop'[v].user].pc = "accepted" /\ user'[loop'[v].user].via = v
    BY <2>1, <2>2 DEF OneLoop, UserRefs
  <2>3. ASSUME NEW u \in Users, LoopAccept(t, u)
        PROVE  OneLoop'
    <3>1. /\ \A v \in Users \ {u} : user'[v] = user[v]
          /\ user[u].via = t /\ user'[u].pc = "accepted" /\ user'[u].via = t
          /\ loop'[t].user = u
      BY <2>3 DEF LoopAccept, TypeOK, UserConns, Loops
    <3> QED
      BY <2>2, <3>1 DEF OneLoop
  <2>4. CASE LoopGone(t) \/ LoopFull(t) \/ LoopSpawn(t)
    <3>1. PICK u \in Users : u = loop[t].user
      BY <2>4 DEF LoopGone, LoopFull, LoopSpawn, UserRefs
    <3>2. user[u].via = t
      BY <2>4, <3>1 DEF LoopGone, LoopFull, LoopSpawn, OneLoop
    <3>3. \A v \in Users \ {u} : user'[v] = user[v]
      BY <2>4, <3>1 DEF LoopGone, LoopFull, LoopSpawn, CloseUser, TypeOK
    <3>4. loop'[t].pc \in {"off", "wait"}
      BY <2>4 DEF LoopGone, LoopFull, LoopSpawn, NoLoop, TypeOK
    <3> QED
      BY <2>2, <3>2, <3>3, <3>4 DEF OneLoop
  <2>5. CASE LoopAcquire(t)
    <3>1. UNCHANGED user /\ loop[t].pc = "lookup" /\ loop'[t].user = loop[t].user
      BY <2>5 DEF LoopAcquire, TypeOK, Loops
    <3> QED
      BY <2>1, <3>1 DEF OneLoop
  <2>6. CASE LoopStop(t)
    <3>1. UNCHANGED user /\ loop'[t].pc = "off"
      BY <2>6 DEF LoopStop, TypeOK, Loops
    <3> QED
      BY <2>1, <3>1 DEF OneLoop
  <2> QED
    BY <1>1, <2>3, <2>4, <2>5, <2>6 DEF LoopStep
<1>2. ASSUME NEW u \in Users, UserStep(u)
      PROVE  OneLoop'
  <2>1. UNCHANGED loop /\ \A v \in Users \ {u} : user'[v] = user[v]
    BY <1>2 DEF UserStep, UserConnect, HandlerStep, HandlerStart, HandlerOpen, HandlerOpenFail,
                HandlerEnd, HandlerRelease, HandlerDone, CloseUser, TypeOK
  <2>2. user[u].pc # "accepted"
    BY <1>2 DEF UserStep, UserConnect, HandlerStep, HandlerStart, HandlerOpen, HandlerOpenFail,
                HandlerEnd, HandlerRelease, HandlerDone
  <2> QED
    BY <2>1, <2>2 DEF OneLoop, UserRefs
<1>3. ASSUME NEW s \in Sessions, Sweep(s) \/ CancelClose(s)
      PROVE  OneLoop'
  <2>1. UNCHANGED loop /\ (UNCHANGED user \/ \E T : CloseListeners(T))
    BY <1>3 DEF Sweep, SweepBegin, SweepClose, SweepEnd, CancelClose
  <2>2. \A u \in Users : user[u].pc = "accepted" =>
          user'[u].pc = "accepted" /\ user'[u].via = user[u].via
    BY <2>1, CloseListenersType
  <2> QED
    BY <2>1, <2>2 DEF OneLoop, UserRefs
<1>4. ASSUME NEW s \in Sessions, ForwardInsert(s)
      PROVE  OneLoop'
  <2>1. UNCHANGED user /\ \E t \in TunnelIds : loop' = [loop EXCEPT ![t].pc = "wait"]
    BY <1>4 DEF ForwardInsert, PortRefs
  <2> QED
    BY <2>1 DEF OneLoop, TypeOK, Loops
<1>5. CASE UNCHANGED <<loop, user>>
  BY <1>5 DEF OneLoop
<1> QED
  BY <1>1, <1>2, <1>3, <1>4, <1>5
     DEF Next, SessionStep, Serve, vars, Accept, Establish, Refuse, Lose, Unregister, Release,
         Receive, MapRace, ForwardRefused, ForwardListen, CancelMiss, CancelDelete,
         TunnelInfo, HealthReport

(* A tunnel that is not in the map yet was not in it before the step.      *)
LEMMA NotStartedBefore ==
  ASSUME IInv, PInv, [Next]_vars, NEW t \in TunnelIds, (~Used(t) \/ Inserting(t))'
  PROVE  /\ ~Used(t) \/ Inserting(t)
         /\ \A s \in Sessions : ForwardInsert(s) => worker[s].tunnel # t
<1>1. \A v \in TunnelIds : Used(v) => Used(v)'
  BY KeptStep DEF IInv
<1>2. ASSUME NEW s \in Sessions, ForwardInsert(s), worker[s].tunnel = t
      PROVE  FALSE
  <2>1. Used(t) /\ info[t].Owner = s /\ worker[s].pc = "inserting"
    BY <1>2 DEF ForwardInsert, IInv, PortRefs, Used
  <2>2. PICK v \in Sessions : worker'[v] = [pc |-> "inserting", tunnel |-> t]
    BY <1>1, <2>1 DEF Inserting
  <2>3. worker' = [worker EXCEPT ![s] = IdleWork]
    BY <1>2 DEF ForwardInsert
  <2>4. v # s /\ worker[v] = [pc |-> "inserting", tunnel |-> t]
    BY <2>2, <2>3 DEF IInv, TypeOK, IdleWork
  <2>5. info[t].Owner = v
    BY <2>4 DEF IInv, PortRefs
  <2> QED
    BY <2>1, <2>4, <2>5
<1>3. ASSUME Used(t)
      PROVE  Inserting(t)
  <2>1. PICK v \in Sessions : worker'[v] = [pc |-> "inserting", tunnel |-> t]
    BY <1>1, <1>3 DEF Inserting
  <2>2. ASSUME NEW s \in Sessions, ForwardListen(s)
        PROVE  worker[v] = worker'[v]
    <3>1. PICK w \in TunnelIds :
            /\ info[w] = Unused
            /\ worker' = [worker EXCEPT ![s] = [pc |-> "inserting", tunnel |-> w]]
      BY <2>2 DEF ForwardListen
    <3>2. w # t
      BY <1>3, <3>1, UnusedFresh
    <3> QED
      BY <2>1, <3>1, <3>2 DEF IInv, TypeOK
  <2>3. ASSUME NEW s \in Sessions,
               ForwardInsert(s) \/ CancelClose(s) \/ CancelDelete(s)
        PROVE  worker[v] = worker'[v]
    <3>1. worker'[s].pc # "inserting" /\ \A w \in Sessions \ {s} : worker'[w] = worker[w]
      BY <2>3 DEF ForwardInsert, CancelClose, CancelDelete, IInv, TypeOK, IdleWork
    <3> QED
      BY <2>1, <3>1
  <2>4. ASSUME UNCHANGED worker
        PROVE  worker[v] = worker'[v]
    BY <2>4
  <2>5. worker[v] = worker'[v]
    BY <2>2, <2>3, <2>4
       DEF Next, SessionStep, Serve, LoopStep, UserStep, HandlerStep, vars,
           Accept, Establish, Refuse, Lose, Sweep,
           SweepBegin, SweepClose, SweepEnd, Unregister, Release, Receive, MapRace,
           ForwardRefused, CancelMiss, TunnelInfo, HealthReport,
           LoopAccept, LoopStop, LoopGone, LoopFull, LoopAcquire, LoopSpawn, UserConnect,
           HandlerStart, HandlerOpen, HandlerOpenFail, HandlerEnd, HandlerRelease, HandlerDone
  <2> QED
    BY <2>1, <2>5 DEF Inserting
<1> QED
  BY <1>2, <1>3 DEF PInv, NotStarted

(* The steps keep NotStarted: permits, holders and loops are of tunnels    *)
(* that were found in the map.                                             *)
LEMMA NotStartedStep ==
  ASSUME IInv, PInv, [Next]_vars
  PROVE  NotStarted'
<1> SUFFICES ASSUME NEW t \in TunnelIds, (~Used(t) \/ Inserting(t))'
             PROVE  Untouched(t)'
  BY DEF NotStarted
<1>1. /\ ~Used(t) \/ Inserting(t)
      /\ \A s \in Sessions : ForwardInsert(s) => worker[s].tunnel # t
  BY NotStartedBefore
<1>2. Untouched(t)
  BY <1>1 DEF PInv, NotStarted
<1>3. loop'[t].pc = "off"
  <2>1. loop[t].pc = "off"
    BY <1>2 DEF Untouched
  <2>2. ASSUME NEW v \in TunnelIds, LoopStep(v)
        PROVE  loop'[t] = loop[t]
    <3>1. loop[v].pc # "off"
      BY <2>2 DEF LoopStep, LoopAccept, LoopStop, LoopGone, LoopFull, LoopAcquire, LoopSpawn
    <3> QED
      BY <2>1, <2>2, <3>1
         DEF LoopStep, LoopAccept, LoopStop, LoopGone, LoopFull, LoopAcquire, LoopSpawn,
             IInv, TypeOK
  <2>3. ASSUME NEW s \in Sessions, ForwardInsert(s)
        PROVE  loop'[t] = loop[t]
    <3>1. PICK v : v = worker[s].tunnel
      OBVIOUS
    <3>2. loop' = [loop EXCEPT ![v].pc = "wait"] /\ v # t
      BY <1>1, <2>3, <3>1 DEF ForwardInsert
    <3> QED
      BY <3>2 DEF IInv, TypeOK
  <2>4. CASE UNCHANGED loop
    BY <2>1, <2>4
  <2> QED
    BY <2>1, <2>2, <2>3, <2>4
       DEF Next, SessionStep, Serve, UserStep, HandlerStep, vars,
           Accept, Establish, Refuse, Lose, Sweep,
           SweepBegin, SweepClose, SweepEnd, Unregister, Release, Receive, MapRace,
           ForwardRefused, ForwardListen, CancelMiss, CancelClose, CancelDelete,
           TunnelInfo, HealthReport, UserConnect,
           HandlerStart, HandlerOpen, HandlerOpenFail, HandlerEnd, HandlerRelease, HandlerDone
<1>4. info[t].connSem = 0 /\ Holders(t) = {} /\ Acquiring(t) = {}
  BY <1>2 DEF Untouched
<1>5. CASE Quiet
  BY <1>3, <1>4, <1>5, QuietSame DEF Untouched
<1>6. ASSUME NEW v \in TunnelIds, LoopAcquire(v)
      PROVE  Untouched(t)'
  BY <1>1, <1>3, <1>4, <1>6, AcquireEffect DEF Untouched
<1>7. ASSUME NEW v \in TunnelIds, LoopSpawn(v)
      PROVE  Untouched(t)'
  BY <1>3, <1>4, <1>7, SpawnEffect DEF Untouched
<1>8. ASSUME NEW u \in Users, HandlerStart(u)
      PROVE  Untouched(t)'
  <2>1. PICK h \in TunnelIds, c \in TunnelIds \cup {Nil} :
          /\ c # Nil => Used(c) /\ ~Inserting(c)
          /\ \A v \in TunnelIds :
               Holders(v)' = IF v = c THEN Holders(v) \cup {u} ELSE Holders(v) \ {u}
          /\ \A v \in TunnelIds : Acquiring(v)' = Acquiring(v)
          /\ UNCHANGED <<info, loop>>
    BY <1>8, StartEffect
  <2>2. t # c
    BY <1>1, <2>1, NilFresh
  <2>3. Holders(t)' = {} /\ Acquiring(t)' = {} /\ info'[t].connSem = 0
    BY <1>4, <2>1, <2>2
  <2> QED
    BY <1>3, <2>3 DEF Untouched
<1>9. ASSUME NEW u \in Users, HandlerRelease(u), crashed' = "no"
      PROVE  Untouched(t)'
  BY <1>3, <1>4, <1>9, ReleaseEffect DEF Untouched
<1> QED
  BY <1>5, <1>6, <1>7, <1>8, <1>9, PermitCases

(* A tunnel nothing has happened on has all its counts at zero.            *)
LEMMA UntouchedCounted ==
  ASSUME NEW t, Untouched(t)
  PROVE  Counted(t)
<1>1. IsFiniteSet({}) /\ Cardinality({}) = 0
  BY FS_EmptySet
<1>2. /\ Holders(t) = {} /\ Acquiring(t) = {} /\ info[t].connSem = 0
      /\ 0 <= MaxConnsPerTunnel
  BY ServerAssumption DEF Untouched
<1> QED
  BY <1>1, <1>2 DEF Counted, InUse

(* Counts and permits of the tunnel that was there before are kept where   *)
(* they do not change and no insertion brings the tunnel into the map.     *)
LEMMA CountedFrame ==
  ASSUME IInv, PInv, [Next]_vars, NEW t \in TunnelIds, Used(t),
         \A s \in Sessions : ForwardInsert(s) => worker[s].tunnel # t,
         Holders(t)' = Holders(t), Acquiring(t)' = Acquiring(t),
         info'[t].connSem = info[t].connSem
  PROVE  Counted(t)'
<1>1. Counted(t)
  BY DEF PInv
<1>2. Sole(t)' => Sole(t)
  BY SoleStep
<1>3. (Current(t) = t)' => Current(t) = t
  BY CurrentStep
<1>4. InUse(t)' = InUse(t)
  BY DEF InUse
<1> QED
  BY <1>1, <1>2, <1>3, <1>4 DEF Counted

(* One permit is taken and one connection counted, or the other way round, *)
(* or both stay; connections that lose their tunnel are only uncounted     *)
(* once the tunnel is out of the map.                                      *)
LEMMA CountedStep ==
  ASSUME IInv, PInv, [Next]_vars, NEW t \in TunnelIds, Used(t)'
  PROVE  Counted(t)'
<1>1. CASE Quiet
  <2>1. /\ Holders(t)' = Holders(t) /\ Acquiring(t)' = Acquiring(t)
        /\ info'[t].connSem = info[t].connSem
    BY <1>1, QuietSame
  <2>2. CASE ~Used(t) \/ \E s \in Sessions : ForwardInsert(s) /\ worker[s].tunnel = t
    <3>1. (\E s \in Sessions : ForwardInsert(s) /\ worker[s].tunnel = t) => Inserting(t)
      BY DEF ForwardInsert, Inserting, IInv, TypeOK, Workers
    <3>2. Untouched(t)
      BY <2>2, <3>1 DEF PInv, NotStarted
    <3>3. /\ IsFiniteSet({}) /\ Cardinality({}) = 0
          /\ Holders(t)' = {} /\ Acquiring(t)' = {} /\ info'[t].connSem = 0
          /\ 0 <= MaxConnsPerTunnel
      BY <2>1, <3>2, FS_EmptySet, ServerAssumption DEF Untouched
    <3> QED
      BY <3>3 DEF Counted, InUse
  <2>3. CASE Used(t) /\ \A s \in Sessions : ForwardInsert(s) => worker[s].tunnel # t
    BY <2>1, <2>3, CountedFrame
  <2> QED
    BY <2>2, <2>3
<1>2. ASSUME ~Quiet
      PROVE  /\ Used(t) /\ \A v \in Sessions : ~ForwardInsert(v)
             /\ info' \in [TunnelIds -> TunnelInfos]
  <2>1. ASSUME NEW s \in Sessions
        PROVE  ~SessionStep(s)
    BY <1>2, SessionQuiet DEF PInv
  <2>2. \A s \in Sessions : ~ForwardListen(s) /\ ~ForwardInsert(s)
    BY <2>1 DEF SessionStep, Serve
  <2> QED
    BY <2>2, InfoStep DEF IInv, SameTunnels, SameTunnel, Used
<1>3. ASSUME ~Quiet
      PROVE  /\ Counted(t)
             /\ Sole(t)' => Sole(t)
             /\ (Current(t) = t)' => Current(t) = t
  BY <1>2, <1>3, SoleStep, CurrentStep DEF PInv
<1>4. ASSUME ~Quiet
      PROVE  /\ info[t].connSem \in Nat /\ info'[t].connSem \in Nat
             /\ MaxConnsPerTunnel \in Nat
             /\ Cardinality(Holders(t)) \in Nat /\ Cardinality(Acquiring(t)) \in Nat
  BY <1>2, <1>3, <1>4, FS_CardinalityType, ServerAssumption
     DEF IInv, TypeOK, TunnelInfos, Counted
<1>5. ASSUME NEW v \in TunnelIds, LoopAcquire(v), ~Quiet
      PROVE  Counted(t)'
  <2>1. PICK c \in TunnelIds :
          /\ Current(c) = c
          /\ info[c].connSem < MaxConnsPerTunnel
          /\ info'[c].connSem = info[c].connSem + 1
          /\ \A w \in TunnelIds \ {c} : info'[w].connSem = info[w].connSem
          /\ \A w \in TunnelIds : Holders(w)' = Holders(w)
          /\ v \notin Acquiring(c) /\ Acquiring(c)' = Acquiring(c) \cup {v}
          /\ \A w \in TunnelIds \ {c} : Acquiring(w)' = Acquiring(w)
    BY <1>5, AcquireEffect
  <2>2. CASE t # c
    BY <1>2, <1>5, <2>1, <2>2, CountedFrame
  <2>3. CASE t = c
    <3>1. /\ IsFiniteSet(Acquiring(t)')
          /\ Cardinality(Acquiring(t)') = Cardinality(Acquiring(t)) + 1
      BY <1>3, <1>5, <2>1, <2>3, FS_AddElement DEF Counted
    <3>2. InUse(t)' = InUse(t) + 1 /\ InUse(t) \in Nat
      BY <1>4, <1>5, <2>1, <3>1 DEF InUse
    <3>3. /\ info'[t].connSem = info[t].connSem + 1
          /\ info'[t].connSem <= MaxConnsPerTunnel
      BY <1>4, <1>5, <2>1, <2>3
    <3>4. Sole(t)' => InUse(t) = info[t].connSem
      BY <1>3, <1>5, <2>1, <2>3 DEF Counted
    <3>5. Sole(t)' => InUse(t)' = info'[t].connSem
      BY <3>2, <3>3, <3>4
    <3>6. IsFiniteSet(Holders(t)')
      BY <1>3, <1>5, <2>1 DEF Counted
    <3>7. InUse(t)' \in Nat
      BY <3>2
    <3> QED
      BY <1>4, <1>5, <3>1, <3>3, <3>5, <3>6, <3>7 DEF Counted
  <2> QED
    BY <2>2, <2>3
<1>6. ASSUME NEW v \in TunnelIds, LoopSpawn(v), ~Quiet
      PROVE  Counted(t)'
  <2>1. PICK c \in TunnelIds, u \in Users :
           /\ \A w \in TunnelIds : info'[w].connSem = info[w].connSem
           /\ v \in Acquiring(c) /\ Acquiring(c)' = Acquiring(c) \ {v}
           /\ u \notin Holders(c) /\ Holders(c)' = Holders(c) \cup {u}
           /\ \A w \in TunnelIds \ {c} :
                Acquiring(w)' = Acquiring(w) /\ Holders(w)' = Holders(w)
    BY <1>6, SpawnEffect
  <2>2. CASE t # c
    BY <1>2, <1>6, <2>1, <2>2, CountedFrame
  <2>3. CASE t = c
    <3>1. /\ IsFiniteSet(Acquiring(t)')
          /\ Cardinality(Acquiring(t)') = Cardinality(Acquiring(t)) - 1
      BY <1>3, <1>6, <2>1, <2>3, FS_RemoveElement DEF Counted
    <3>2. /\ IsFiniteSet(Holders(t)')
          /\ Cardinality(Holders(t)') = Cardinality(Holders(t)) + 1
      BY <1>3, <1>6, <2>1, <2>3, FS_AddElement DEF Counted
    <3>3. InUse(t)' = InUse(t)
      BY <1>4, <1>6, <3>1, <3>2 DEF InUse
    <3> QED
      BY <1>3, <1>6, <2>1, <3>1, <3>2, <3>3 DEF Counted
  <2> QED
    BY <2>2, <2>3
<1>7. ASSUME NEW u \in Users, HandlerStart(u), ~Quiet
      PROVE  Counted(t)'
  <2>1. PICK h \in TunnelIds, c \in TunnelIds \cup {Nil} :
           /\ c = Current(h) /\ u \in Holders(h)
           /\ c # Nil => SameKey(c, h)
           /\ \A v \in TunnelIds :
                Holders(v)' = IF v = c THEN Holders(v) \cup {u} ELSE Holders(v) \ {u}
           /\ \A v \in TunnelIds : v # h => u \notin Holders(v)
           /\ \A v \in TunnelIds : Acquiring(v)' = Acquiring(v)
           /\ UNCHANGED info
    BY <1>7, StartEffect
  <2>2. Acquiring(t)' = Acquiring(t) /\ info'[t].connSem = info[t].connSem
    BY <2>1
  <2>3. CASE (t = h) <=> (t = c)
    <3>1. Holders(t)' = Holders(t)
      BY <2>1, <2>3
    <3> QED
      BY <1>2, <1>7, <2>2, <3>1, CountedFrame
  <2>4. CASE t = h /\ t # c
    <3>1. Holders(t)' = Holders(t) \ {u} /\ u \in Holders(t)
      BY <2>1, <2>4
    <3>2. /\ IsFiniteSet(Holders(t)')
          /\ Cardinality(Holders(t)') = Cardinality(Holders(t)) - 1
      BY <1>3, <1>7, <3>1, FS_RemoveElement DEF Counted
    <3>3. InUse(t)' = InUse(t) - 1 /\ InUse(t) \in Nat
      BY <1>4, <1>7, <2>2, <3>2 DEF InUse
    <3>4. ~(Current(t) = t)'
      BY <1>3, <1>7, <2>1, <2>4
    <3>5. Sole(t)' => InUse(t)' <= info'[t].connSem
      BY <1>3, <1>4, <1>7, <2>2, <3>3 DEF Counted
    <3> QED
      BY <1>3, <1>7, <2>2, <3>2, <3>4, <3>5 DEF Counted
  <2>5. CASE t # h /\ t = c
    <3>1. Holders(t)' = Holders(t) \cup {u}
      BY <2>1, <2>5
    <3>2. IsFiniteSet(Holders(t)')
      BY <1>3, <1>7, <3>1, FS_AddElement DEF Counted
    <3>3. ~Sole(t)
      BY <2>1, <2>5, NilFresh DEF Sole, SameKey
    <3>4. ~Sole(t)'
      BY <1>3, <1>7, <3>3
    <3> QED
      BY <1>3, <1>7, <2>2, <3>2, <3>4 DEF Counted
  <2> QED
    BY <2>3, <2>4, <2>5
<1>8. ASSUME NEW u \in Users, HandlerRelease(u), crashed' = "no", ~Quiet
      PROVE  Counted(t)'
  <2>1. PICK c \in TunnelIds :
           /\ info[c].connSem # 0 /\ info'[c].connSem = info[c].connSem - 1
           /\ \A v \in TunnelIds \ {c} : info'[v].connSem = info[v].connSem
           /\ u \in Holders(c) /\ Holders(c)' = Holders(c) \ {u}
           /\ \A v \in TunnelIds \ {c} : Holders(v)' = Holders(v)
           /\ \A v \in TunnelIds : Acquiring(v)' = Acquiring(v)
    BY <1>8, ReleaseEffect
  <2>2. CASE t # c
    BY <1>2, <1>8, <2>1, <2>2, CountedFrame
  <2>3. CASE t = c
    <3>1. /\ IsFiniteSet(Holders(t)')
          /\ Cardinality(Holders(t)') = Cardinality(Holders(t)) - 1
      BY <1>3, <1>8, <2>1, <2>3, FS_RemoveElement DEF Counted
    <3>2. InUse(t)' = InUse(t) - 1 /\ InUse(t) \in Nat
      BY <1>4, <1>8, <2>1, <3>1 DEF InUse
    <3>3. info'[t].connSem = info[t].connSem - 1 /\ info'[t].connSem <= MaxConnsPerTunnel
      BY <1>3, <1>4, <1>8, <2>1, <2>3 DEF Counted
    <3>4. Sole(t)' => InUse(t)' <= info'[t].connSem
      BY <1>3, <1>4, <1>8, <3>2, <3>3 DEF Counted
    <3>5. Sole(t)' /\ (Current(t) = t)' => InUse(t)' = info'[t].connSem
      BY <1>3, <1>4, <1>8, <3>2, <3>3 DEF Counted
    <3>6. IsFiniteSet(Acquiring(t)')
      BY <1>3, <1>8, <2>1 DEF Counted
    <3> QED
      BY <3>1, <3>3, <3>4, <3>5, <3>6 DEF Counted
  <2> QED
    BY <2>2, <2>3
<1> QED
  BY <1>1, <1>5, <1>6, <1>7, <1>8, PermitCases

(* PInv holds in every reachable state of the server.                      *)
THEOREM PermitInvariance == Spec => []PInv
<1>1. Init => PInv
  <2> SUFFICES ASSUME Init PROVE PInv
    OBVIOUS
  <2>1. \A t \in TunnelIds : Untouched(t)
    BY DEF Init, Untouched, NoLoop, NoUser, Unused, Holders, Acquiring
  <2>2. \A t \in TunnelIds : Counted(t)
    BY <2>1, UntouchedCounted
  <2>3. SameKeys /\ OneLoop
    BY DEF Init, SameKeys, OneLoop, Held, NoLoop, NoUser
  <2> QED
    BY <2>1, <2>2, <2>3 DEF PInv, NotStarted
<1>2. PInv /\ IInv /\ [Next]_vars => PInv'
  <2> SUFFICES ASSUME PInv, IInv, [Next]_vars PROVE PInv'
    OBVIOUS
  <2>1. \A t \in TunnelIds : Used(t)' => Counted(t)'
    BY CountedStep
  <2> QED
    BY <2>1, SameKeysStep, OneLoopStep, NotStartedStep DEF PInv
<1> QED
  BY <1>1, <1>2, Invariance, PTL DEF Spec

(* max_conns_per_tunnel, for any number of sessions, ports, users and any  *)
(* limit: while its port was bound only once, a tunnel never serves more   *)
(* connections than its semaphore counts nor more than the limit, and      *)
(* while it is in the map no path through accept loop and handler loses a  *)
(* permit.                                                                 *)
THEOREM PermitsKept == Spec => []PermitsMatch
<1>1. ASSUME PInv
      PROVE  PermitsMatch
  <2>1. \A t \in TunnelIds : Counted(t)
    BY <1>1, UntouchedCounted DEF PInv, NotStarted
  <2> QED
    BY <2>1 DEF PermitsMatch, Counted, InUse
<1>2. PInv => PermitsMatch
  BY <1>1
<1> QED
  BY <1>2, PermitInvariance, PTL

(* Nothing moves any more once the process has ended.                      *)
LEMMA Frozen ==
  ASSUME [Next]_vars, crashed # "no"
  PROVE  UNCHANGED vars
<1>1. ASSUME NEW s \in Sessions, SessionStep(s)
      PROVE  FALSE
  BY <1>1 DEF SessionStep, Serve, Alive, Accept, Establish, Refuse, Lose, Sweep,
              SweepBegin, SweepClose, SweepEnd, Unregister,
              Release, Receive, MapRace, ForwardRefused, ForwardListen, ForwardInsert,
              CancelMiss, CancelClose, CancelDelete, TunnelInfo, HealthReport
<1>2. ASSUME NEW t \in TunnelIds, LoopStep(t)
      PROVE  FALSE
  BY <1>2 DEF LoopStep, Alive,
              LoopAccept, LoopStop, LoopGone, LoopFull, LoopAcquire, LoopSpawn
<1>3. ASSUME NEW u \in Users, UserStep(u)
      PROVE  FALSE
  BY <1>3 DEF UserStep, HandlerStep, Alive, UserConnect, HandlerStart, HandlerOpen,
              HandlerOpenFail, HandlerEnd, HandlerRelease, HandlerDone
<1> QED
  BY <1>1, <1>2, <1>3 DEF Next

(* Only a handler that returns a permit can make a semaphore panic.        *)
LEMMA PanicCases ==
  ASSUME [Next]_vars, crashed = "no", crashed' = "overRelease"
  PROVE  \E u \in Users : /\ HandlerRelease(u) /\ UNCHANGED info
                          /\ info[user[u].tunnel].connSem = 0
<1>1. ASSUME NEW s \in Sessions, SessionStep(s)
      PROVE  FALSE
  BY <1>1 DEF SessionStep, Serve, Alive, Accept, Establish, Refuse, Lose, Sweep,
              SweepBegin, SweepClose, SweepEnd, Unregister,
              Release, Receive, MapRace, ForwardRefused, ForwardListen, ForwardInsert,
              CancelMiss, CancelClose, CancelDelete, TunnelInfo, HealthReport
<1>2. ASSUME NEW t \in TunnelIds, LoopStep(t)
      PROVE  FALSE
  BY <1>2 DEF LoopStep, Alive,
              LoopAccept, LoopStop, LoopGone, LoopFull, LoopAcquire, LoopSpawn
<1>3. ASSUME NEW u \in Users, UserStep(u)
      PROVE  /\ HandlerRelease(u) /\ UNCHANGED info
             /\ info[user[u].tunnel].connSem = 0
  <2>1. HandlerRelease(u)
    BY <1>3 DEF UserStep, HandlerStep, Alive, UserConnect, HandlerStart, HandlerOpen,
                HandlerOpenFail, HandlerEnd, HandlerDone
  <2> QED
    BY <2>1 DEF HandlerRelease
<1>4. CASE UNCHANGED vars
  BY <1>4 DEF vars
<1> QED
  BY <1>1, <1>2, <1>3, <1>4 DEF Next

(* A permit that a handler returns to a tunnel whose port was bound once   *)
(* is counted there.                                                       *)
LEMMA ReturnIsCounted ==
  ASSUME IInv, PInv, NEW u \in Users, user[u].pc = "release", Sole(user[u].tunnel)
  PROVE  info[user[u].tunnel].connSem # 0
<1>1. PICK c : c = user[u].tunnel
  OBVIOUS
<1>2. c \in TunnelIds /\ user[u].via \in TunnelIds /\ Used(user[u].via)
  BY <1>1 DEF IInv, UserRefs
<1>3. Held(u) = c /\ c # Nil
  BY <1>1, <1>2, NilFresh DEF Held
<1>4. SameKey(c, user[u].via)
  BY <1>3 DEF PInv, SameKeys
<1>5. Used(c)
  BY <1>2, <1>4 DEF Used, SameKey
<1>6. Counted(c) /\ Sole(c)
  BY <1>1, <1>2, <1>5 DEF PInv
<1>7. PICK S, A : S = Holders(c) /\ A = Acquiring(c)
  OBVIOUS
<1>8. IsFiniteSet(S) /\ IsFiniteSet(A)
      /\ Cardinality(S) + Cardinality(A) <= info[c].connSem
  BY <1>6, <1>7 DEF Counted, InUse
<1>9. u \in S
  BY <1>1, <1>7 DEF Holders
<1>10. Cardinality(S) \in Nat /\ Cardinality(A) \in Nat /\ Cardinality(S) # 0
  BY <1>8, <1>9, FS_CardinalityType, FS_EmptySet
<1>11. info[c].connSem \in Nat
  BY <1>2 DEF IInv, TypeOK, TunnelInfos
<1> QED
  BY <1>1, <1>8, <1>10, <1>11

(* The semaphore of a tunnel panics only where a session bound a port      *)
(* again, for any sessions, ports, users and limits (lines 507-510).       *)
THEOREM PanicsExplained == Spec => []PanicsOnlyRebound
<1>1. Init => PanicsOnlyRebound
  BY DEF Init, PanicsOnlyRebound
<1>2. ASSUME IInv, PInv, PanicsOnlyRebound, [Next]_vars
      PROVE  PanicsOnlyRebound'
  <2>1. CASE crashed # "no"
    <3>1. UNCHANGED <<crashed, info>>
      BY <1>2, <2>1, Frozen DEF vars
    <3> QED
      BY <1>2, <3>1 DEF PanicsOnlyRebound, Sole
  <2>2. CASE crashed = "no" /\ crashed' = "overRelease"
    <3>1. PICK u \in Users : /\ HandlerRelease(u) /\ UNCHANGED info
                             /\ info[user[u].tunnel].connSem = 0
      BY <1>2, <2>2, PanicCases
    <3>2. user[u].pc = "release"
      BY <3>1 DEF HandlerRelease
    <3>3. ~Sole(user[u].tunnel)
      BY <1>2, <3>1, <3>2, ReturnIsCounted
    <3>4. user[u].tunnel \in TunnelIds
      BY <1>2, <3>2 DEF IInv, UserRefs
    <3>5. info[user[u].tunnel] # Unused
      <4>1. PICK c : c = user[u].tunnel
        OBVIOUS
      <4>2. Held(u) = c /\ c # Nil
        BY <3>2, <3>4, <4>1, NilFresh DEF Held
      <4>3. SameKey(c, user[u].via) /\ Used(user[u].via)
        BY <1>2, <3>2, <4>2 DEF PInv, SameKeys, IInv, UserRefs
      <4>4. Used(c)
        BY <4>3 DEF Used, SameKey
      <4> QED
        BY <4>1, <4>4, UnusedFresh
    <3> QED
      BY <3>1, <3>3, <3>4, <3>5 DEF PanicsOnlyRebound, Sole
  <2>3. CASE crashed' # "overRelease"
    BY <2>3 DEF PanicsOnlyRebound
  <2> QED
    BY <2>1, <2>2, <2>3
<1>3. IInv /\ PInv /\ PanicsOnlyRebound /\ [Next]_vars => PanicsOnlyRebound'
  BY <1>2
<1> QED
  BY <1>1, <1>3, Invariance, PermitInvariance, PTL DEF Spec

-----------------------------------------------------------------------------
(* What is left open of a lost session.                                    *)

(* The listeners have been closed.                                         *)
Cleaned(s) == conn[s] \in {"sweeping", "swept", "closing", "gone"}

(* The open ports that the clean-up is not bound to visit any more.        *)
Missed(s) == {p \in HeldBy(s) : conn[s] # "sweeping" \/ sweep[s][p] # "must"}

QueuesBounded == \A s \in Sessions : Len(queue[s]) <= QueueLen

LeftOpen(s) == Cardinality(Missed(s)) + Len(queue[s]) <= QueueLen + 1

(* The ports that the clean-up of a session misses are finitely many.      *)
LEMMA MissedFinite ==
  ASSUME NEW s \in Sessions
  PROVE  /\ IsFiniteSet(Missed(s)) /\ Cardinality(Missed(s)) \in Nat
         /\ IsFiniteSet(Missed(s)') /\ Cardinality(Missed(s)') \in Nat
<1>1. Missed(s) \in SUBSET Ports /\ Missed(s)' \in SUBSET Ports
  BY DEF Missed, HeldBy
<1> QED
  BY <1>1, ServerAssumption, FS_Subset, FS_CardinalityType

(* A queue grows only while its session is up, and serving a request makes *)
(* it shorter.                                                             *)
LEMMA QueueStep ==
  ASSUME TypeOK, [Next]_vars, NEW s \in Sessions
  PROVE  /\ Len(queue[s]) \in Nat /\ Len(queue'[s]) \in Nat
         /\ \/ Len(queue'[s]) <= Len(queue[s])
            \/ conn[s] = "up" /\ conn'[s] = "up" /\ Len(queue'[s]) <= QueueLen
         /\ ForwardListen(s) => Len(queue'[s]) = Len(queue[s]) - 1
<1>1. \A v \in Sessions : queue[v] \in Seq(Requests)
  BY DEF TypeOK
<1>2. ASSUME NEW v \in Sessions, queue[v] # <<>>, Dequeue(v)
      PROVE  /\ Len(queue'[s]) \in Nat /\ Len(queue'[s]) <= Len(queue[s])
             /\ v = s => Len(queue'[s]) = Len(queue[s]) - 1
  <2>1. queue'[s] = IF s = v THEN Tail(queue[v]) ELSE queue[s]
    BY <1>2 DEF Dequeue, TypeOK
  <2>2. Len(Tail(queue[v])) = Len(queue[v]) - 1 /\ Len(queue[v]) \in Nat \ {0}
    BY <1>1, <1>2
  <2>3. Len(queue[s]) \in Nat
    BY <1>1
  <2> QED
    BY <2>1, <2>2, <2>3
<1>3. ASSUME NEW v \in Sessions, NEW r \in Requests, Receive(v, r)
      PROVE  /\ Len(queue'[s]) \in Nat
             /\ \/ Len(queue'[s]) <= Len(queue[s])
                \/ conn[s] = "up" /\ conn'[s] = "up" /\ Len(queue'[s]) <= QueueLen
  <2>1. queue'[s] = IF s = v THEN Append(queue[v], r) ELSE queue[s]
    BY <1>3 DEF Receive, TypeOK
  <2>2. /\ Len(Append(queue[v], r)) = Len(queue[v]) + 1
        /\ Len(queue[v]) \in Nat /\ Len(queue[s]) \in Nat
    BY <1>1
  <2>3. Len(queue[v]) < QueueLen /\ conn[v] = "up" /\ conn' = conn
    BY <1>3 DEF Receive, sessionVars
  <2>4. QueueLen \in Nat
    BY ServerAssumption
  <2> QED
    BY <2>1, <2>2, <2>3, <2>4
<1>4. CASE UNCHANGED queue
  <2>1. ~ForwardListen(s)
    <3> SUFFICES ASSUME ForwardListen(s) PROVE FALSE
      OBVIOUS
    <3>1. queue[s] # <<>> /\ Dequeue(s)
      BY DEF ForwardListen, Pending
    <3>2. Len(queue'[s]) = Len(queue[s]) - 1
      BY <1>2, <3>1
    <3>3. Len(queue[s]) \in Nat
      BY <1>1
    <3> QED
      BY <1>4, <3>2, <3>3
  <2>2. Len(queue[s]) \in Nat
    BY <1>1
  <2> QED
    BY <1>4, <2>1, <2>2
<1>5. \/ UNCHANGED queue
      \/ \E v \in Sessions : queue[v] # <<>> /\ Dequeue(v)
      \/ \E v \in Sessions, r \in Requests : Receive(v, r)
  <2>1. ASSUME NEW v \in Sessions, SessionStep(v)
        PROVE  \/ UNCHANGED queue
               \/ queue[v] # <<>> /\ Dequeue(v)
               \/ \E r \in Requests : Receive(v, r)
    <3>1. CASE Serve(v)
      <4>1. CASE ForwardRefused(v) \/ ForwardListen(v) \/ CancelMiss(v) \/ CancelClose(v)
        BY <4>1 DEF Pending, ForwardRefused, ForwardListen, CancelMiss, CancelClose
      <4>2. CASE TunnelInfo(v) \/ HealthReport(v)
        BY <4>2 DEF Pending, TunnelInfo, HealthReport
      <4>3. CASE ForwardInsert(v) \/ CancelDelete(v)
        BY <4>3 DEF ForwardInsert, CancelDelete, sessionVars
      <4> QED
        BY <3>1, <4>1, <4>2, <4>3 DEF Serve
    <3>2. CASE Accept(v) \/ Establish(v) \/ Refuse(v) \/ Lose(v)
      BY <3>2 DEF Accept, Establish, Refuse, Lose, tunnelVars
    <3>3. CASE Sweep(v) \/ Unregister(v) \/ Release(v) \/ MapRace(v)
      BY <3>3 DEF Sweep,
                  SweepBegin, SweepClose, SweepEnd, Unregister, Release, MapRace, tunnelVars, sessionVars
    <3> QED
      BY <2>1, <3>1, <3>2, <3>3 DEF SessionStep
  <2>2. ASSUME NEW t \in TunnelIds, LoopStep(t)
        PROVE  UNCHANGED queue
    BY <2>2 DEF LoopStep, LoopAccept, LoopStop, LoopGone, LoopFull, LoopAcquire, LoopSpawn
  <2>3. ASSUME NEW u \in Users, UserStep(u)
        PROVE  UNCHANGED queue
    BY <2>3 DEF UserStep, HandlerStep, UserConnect, HandlerStart, HandlerOpen,
                HandlerOpenFail, HandlerEnd, HandlerRelease, HandlerDone
  <2>4. UNCHANGED vars => UNCHANGED queue
    BY DEF vars
  <2> QED
    BY <2>1, <2>2, <2>3, <2>4 DEF Next
<1>6. ASSUME NEW v \in Sessions, NEW r \in Requests, Receive(v, r)
      PROVE  ~ForwardListen(s)
  <2> SUFFICES ASSUME ForwardListen(s) PROVE FALSE
    OBVIOUS
  <2>1. worker' # worker
    <3>1. worker[s].pc = "idle" /\ \E t : worker' = [worker EXCEPT ![s] = [pc |-> "inserting", tunnel |-> t]]
      BY DEF ForwardListen, Pending
    <3> QED
      BY <3>1 DEF TypeOK
  <2> QED
    BY <1>6, <2>1 DEF Receive
<1>7. ASSUME NEW v \in Sessions, queue[v] # <<>>, Dequeue(v), ForwardListen(s)
      PROVE  Len(queue'[s]) = Len(queue[s]) - 1
  <2>1. queue[s] # <<>> /\ Dequeue(s)
    BY <1>7 DEF ForwardListen, Pending
  <2> QED
    BY <1>2, <2>1
<1>8. Len(queue[s]) \in Nat
  BY <1>1
<1> QED
  BY <1>2, <1>3, <1>4, <1>5, <1>6, <1>7, <1>8

(* A step that opens no port for s leaves it no more ports.                *)
LEMMA HeldShrinks ==
  ASSUME IInv, [Next]_vars, NEW s \in Sessions, ~ForwardListen(s)
  PROVE  HeldBy(s)' \subseteq HeldBy(s)
<1>1. Kept
  BY KeptStep DEF IInv
<1>2. ASSUME \A p \in Ports : listener'[p] \in {Nil, listener[p]}
      PROVE  HeldBy(s)' \subseteq HeldBy(s)
  <2>1. \A p \in Ports : listener[p] # Nil =>
          info'[listener[p]].Owner = info[listener[p]].Owner
    BY <1>1 DEF Kept, IInv, PortRefs, TypeOK
  <2> QED
    BY <1>2, <2>1 DEF HeldBy
<1>3. ASSUME NEW v \in Sessions, NEW T \in SUBSET TunnelIds, Closes(v, T)
      PROVE  \A p \in Ports : listener'[p] \in {Nil, listener[p]}
  BY <1>3, CloseListenersType DEF Closes, IInv
<1>4. ASSUME NEW v \in Sessions, ForwardListen(v), v # s
      PROVE  HeldBy(s)' \subseteq HeldBy(s)
  <2>1. PICK p \in Ports, t \in TunnelIds :
          /\ listener[p] = Nil /\ info[t] = Unused
          /\ listener' = [listener EXCEPT ![p] = t]
          /\ info' = [info EXCEPT ![t] = NewTunnel(v, p, Head(queue[v]))]
    BY <1>4 DEF ForwardListen, Bindable
  <2>2. info'[t].Owner = v
    BY <2>1 DEF IInv, TypeOK, NewTunnel
  <2>3. listener'[p] = t /\ \A q \in Ports \ {p} : listener'[q] = listener[q]
    BY <2>1 DEF IInv, TypeOK
  <2>4. \A q \in Ports : listener[q] # Nil =>
          info'[listener[q]].Owner = info[listener[q]].Owner
    BY <1>1 DEF Kept, IInv, PortRefs, TypeOK
  <2> QED
    BY <1>4, <2>2, <2>3, <2>4 DEF HeldBy
<1> QED
  BY <1>2, <1>3, <1>4, PortCases

(* Serving a forward request leaves it at most one more.                   *)
LEMMA HeldGrows ==
  ASSUME IInv, [Next]_vars, NEW s \in Sessions, ForwardListen(s)
  PROVE  \E p : HeldBy(s)' \subseteq HeldBy(s) \cup {p}
<1>1. Kept
  BY KeptStep DEF IInv
<1>2. PICK p \in Ports, t \in TunnelIds :
        listener[p] = Nil /\ listener' = [listener EXCEPT ![p] = t]
  BY DEF ForwardListen, Bindable
<1>3. \A q \in Ports \ {p} : listener'[q] = listener[q]
  BY <1>2 DEF IInv, TypeOK
<1>4. \A q \in Ports : listener[q] # Nil =>
        info'[listener[q]].Owner = info[listener[q]].Owner
  BY <1>1 DEF Kept, IInv, PortRefs, TypeOK
<1>5. HeldBy(s)' \subseteq HeldBy(s) \cup {p}
  BY <1>3, <1>4 DEF HeldBy
<1> QED
  BY <1>5

(* While the tunnels of s are swept, only the loop over the map and the    *)
(* end of a cancel request change what is left to visit.                   *)
LEMMA SweepCases ==
  ASSUME IInv, [Next]_vars, NEW s \in Sessions, conn[s] = "sweeping"
  PROVE  \/ conn'[s] = conn[s] /\ sweep'[s] = sweep[s]
         \/ (\E p \in Ports : SweepClose(s, p)) \/ SweepEnd(s) \/ CancelDelete(s)
<1>1. ASSUME NEW v \in Sessions \ {s},
             \/ Accept(v) \/ Establish(v) \/ Refuse(v) \/ Lose(v)
             \/ Sweep(v) \/ Unregister(v) \/ Release(v) \/ CancelDelete(v)
      PROVE  conn'[s] = conn[s] /\ sweep'[s] = sweep[s]
  <2>1. conn'[s] = conn[s]
    BY <1>1 DEF IInv, TypeOK, Accept, Establish, Refuse, Lose, Sweep, SweepBegin, SweepClose,
                SweepEnd, Unregister, Release, CancelDelete
  <2>2. sweep' = sweep \/ \E f : sweep' = [sweep EXCEPT ![v] = f]
    BY <1>1 DEF Accept, Establish, Refuse, Lose, Sweep, SweepBegin, SweepClose,
                SweepEnd, Unregister, Release, CancelDelete
  <2> QED
    BY <2>1, <2>2 DEF IInv, TypeOK
<1>2. ~(\/ Accept(s) \/ Establish(s) \/ Refuse(s) \/ Lose(s) \/ SweepBegin(s)
        \/ Unregister(s) \/ Release(s))
  BY DEF Accept, Establish, Refuse, Lose, SweepBegin, Unregister, Release
<1>3. UNCHANGED sessionVars => conn'[s] = conn[s] /\ sweep'[s] = sweep[s]
  BY DEF sessionVars
<1> QED
  BY <1>1, <1>2, <1>3, SessionCases DEF Sweep

(* An open port of s is in its map or about to be inserted.                *)
LEMMA HeldKnown ==
  ASSUME IInv, NEW s \in Sessions, NEW q \in HeldBy(s)
  PROVE  /\ q \in Ports /\ listener[q] # Nil
         /\ \/ tunnels[s][q] = listener[q]
            \/ /\ worker[s] = [pc |-> "inserting", tunnel |-> listener[q]]
               /\ info[worker[s].tunnel].RemotePort = q
<1>1. q \in Ports /\ listener[q] # Nil /\ info[listener[q]].Owner = s
  BY DEF HeldBy
<1>2. info[listener[q]].RemotePort = q
  BY <1>1 DEF IInv, PortRefs
<1>3. \/ tunnels[s][q] = listener[q]
      \/ worker[s] = [pc |-> "inserting", tunnel |-> listener[q]]
  BY <1>1 DEF IInv, PortsAccounted
<1> QED
  BY <1>1, <1>2, <1>3

(* A step that opens no port for s leaves no more of its ports to chance:  *)
(* a port crossed off while the tunnels are swept is closed.               *)
LEMMA MissedShrinks ==
  ASSUME IInv, [Next]_vars, NEW s \in Sessions, ~ForwardListen(s), Cleaned(s)
  PROVE  Missed(s)' \subseteq Missed(s)
<1>1. HeldBy(s)' \subseteq HeldBy(s)
  BY HeldShrinks
<1>2. CASE conn[s] # "sweeping"
  BY <1>1, <1>2 DEF Missed
<1>3. CASE conn[s] = "sweeping" /\ conn'[s] = conn[s] /\ sweep'[s] = sweep[s]
  BY <1>1, <1>3 DEF Missed
<1>4. CASE conn[s] = "sweeping" /\ SweepEnd(s)
  <2>1. \A p \in Ports : sweep[s][p] # "must"
    BY <1>4 DEF SweepEnd
  <2> QED
    BY <1>1, <2>1 DEF Missed, HeldBy
<1>5. ASSUME conn[s] = "sweeping", NEW p \in Ports, SweepClose(s, p)
      PROVE  Missed(s)' \subseteq Missed(s)
  <2>1. tunnels[s][p] # Nil /\ CloseListeners(InMap(s, p)) /\ conn' = conn
    BY <1>5 DEF SweepClose, Tunnels
  <2>2. listener'[p] = IF listener[p] \in InMap(s, p) THEN Nil ELSE listener[p]
    BY <2>1, CloseListenersType DEF IInv
  <2>3. \A q \in Ports \ {p} : sweep'[s][q] = sweep[s][q]
    BY <1>5 DEF SweepClose, IInv, TypeOK
  <2>4. ASSUME sweep[s][p] = "must", p \in HeldBy(s)'
        PROVE  FALSE
    <3>1. p \in HeldBy(s) /\ listener'[p] # Nil
      BY <1>1, <2>4 DEF HeldBy
    <3>2. listener[p] # tunnels[s][p]
      BY <2>1, <2>2, <3>1 DEF InMap
    <3>3. worker[s] = [pc |-> "deleting", tunnel |-> tunnels[s][p]]
      BY <2>1, <2>4, <3>2 DEF IInv, PortsAccounted, Unswept
    <3>4. worker[s] = [pc |-> "inserting", tunnel |-> listener[p]]
      BY <3>1, <3>2, HeldKnown
    <3> QED
      BY <3>3, <3>4
  <2> QED
    BY <1>1, <2>1, <2>3, <2>4 DEF Missed, HeldBy
<1>6. CASE conn[s] = "sweeping" /\ CancelDelete(s)
  <2>1. PICK t, p : t = worker[s].tunnel /\ p = info[t].RemotePort
    OBVIOUS
  <2>2. /\ worker[s].pc = "deleting" /\ conn' = conn
        /\ sweep' = [sweep EXCEPT ![s][p] = "may"]
    BY <1>6, <2>1 DEF CancelDelete
  <2>3. tunnels[s][p] = t /\ \A q \in Ports : listener[q] # t
    BY <2>1, <2>2 DEF IInv, WorkerSound
  <2>4. ASSUME p \in HeldBy(s)
        PROVE  FALSE
    <3>1. p \in Ports /\ worker[s] # [pc |-> "inserting", tunnel |-> listener[p]]
      BY <2>2, <2>4 DEF HeldBy
    <3>2. tunnels[s][p] = listener[p]
      BY <2>4, <3>1, HeldKnown
    <3> QED
      BY <2>3, <3>1, <3>2
  <2>5. \A q \in Ports \ {p} : sweep'[s][q] = sweep[s][q]
    BY <2>2 DEF IInv, TypeOK
  <2> QED
    BY <1>1, <2>2, <2>4, <2>5 DEF Missed, HeldBy
<1> QED
  BY <1>2, <1>3, <1>4, <1>5, <1>6, SweepCases

(* Serving a forward request adds at most one.                             *)
LEMMA MissedGrows ==
  ASSUME IInv, [Next]_vars, NEW s \in Sessions, ForwardListen(s)
  PROVE  \E p : Missed(s)' \subseteq Missed(s) \cup {p}
<1>1. PICK p : HeldBy(s)' \subseteq HeldBy(s) \cup {p}
  BY HeldGrows
<1>2. UNCHANGED <<conn, sweep>>
  BY DEF ForwardListen, sessionVars
<1>3. Missed(s)' \subseteq Missed(s) \cup {p}
  BY <1>1, <1>2 DEF Missed
<1> QED
  BY <1>3

(* When the clean-up begins it will visit every open port but the one      *)
(* that is being bound.                                                    *)
LEMMA SweepLeaves ==
  ASSUME IInv, [Next]_vars, NEW s \in Sessions, SweepBegin(s)
  PROVE  \E p : Missed(s)' \subseteq {p}
<1>1. PICK p : p = info[worker[s].tunnel].RemotePort
  OBVIOUS
<1>2. /\ UNCHANGED <<info, listener>> /\ conn'[s] = "sweeping"
      /\ \A q \in Ports : tunnels[s][q] # Nil => sweep'[s][q] = "must"
  BY DEF SweepBegin, Tunnels, tunnelVars, IInv, TypeOK
<1>3. ASSUME NEW q \in Missed(s)'
      PROVE  q = p
  <2>1. q \in HeldBy(s)
    BY <1>2, <1>3 DEF Missed, HeldBy
  <2>2. q \in Ports /\ tunnels[s][q] = Nil
    BY <1>2, <1>3 DEF Missed, HeldBy
  <2> QED
    BY <1>1, <2>1, <2>2, HeldKnown
<1> QED
  BY <1>3

(* A session that is refused has no port and no request.                   *)
LEMMA RefuseLeaves ==
  ASSUME IInv, [Next]_vars, NEW s \in Sessions, Refuse(s)
  PROVE  Missed(s)' = {}
<1>1. conn[s] = "handshake" /\ UNCHANGED <<listener, info>>
  BY DEF Refuse, tunnelVars
<1>2. worker[s].pc = "idle" /\ \A p \in Ports : tunnels[s][p] = Nil
  BY <1>1 DEF IInv, FreshSession
<1>3. HeldBy(s)' = HeldBy(s)
  BY <1>1 DEF HeldBy
<1>4. ASSUME NEW q \in HeldBy(s)
      PROVE  FALSE
  <2>1. /\ q \in Ports /\ listener[q] # Nil
        /\ \/ tunnels[s][q] = listener[q]
           \/ worker[s] = [pc |-> "inserting", tunnel |-> listener[q]]
    BY <1>4, HeldKnown
  <2> QED
    BY <1>2, <2>1
<1> QED
  BY <1>3, <1>4 DEF Missed

(* The bound on what a session leaves open, step by step.                  *)
LEMMA LeftOpenStep ==
  ASSUME IInv, QueuesBounded, [Next]_vars, NEW s \in Sessions,
         Cleaned(s) => LeftOpen(s)
  PROVE  /\ Len(queue'[s]) <= QueueLen
         /\ Cleaned(s)' => LeftOpen(s)'
<1>1. PICK H, K, n, m : H = Missed(s) /\ K = Missed(s)' /\ n = Len(queue[s]) /\ m = Len(queue'[s])
  OBVIOUS
<1>2. /\ IsFiniteSet(H) /\ Cardinality(H) \in Nat /\ IsFiniteSet(K) /\ Cardinality(K) \in Nat
      /\ QueueLen \in Nat /\ n <= QueueLen
  BY <1>1, MissedFinite, ServerAssumption DEF QueuesBounded
<1>3. /\ n \in Nat /\ m \in Nat
      /\ \/ m <= n
         \/ conn[s] = "up" /\ conn'[s] = "up" /\ m <= QueueLen
      /\ ForwardListen(s) => m = n - 1
  <2>1. TypeOK
    BY DEF IInv
  <2>2. /\ Len(queue[s]) \in Nat /\ Len(queue'[s]) \in Nat
        /\ \/ Len(queue'[s]) <= Len(queue[s])
           \/ conn[s] = "up" /\ conn'[s] = "up" /\ Len(queue'[s]) <= QueueLen
        /\ ForwardListen(s) => Len(queue'[s]) = Len(queue[s]) - 1
    BY <2>1, QueueStep
  <2> QED
    BY <1>1, <2>2
<1>4. m <= QueueLen
  BY <1>2, <1>3
<1>5. ASSUME Cleaned(s)'
      PROVE  Cardinality(K) + m <= QueueLen + 1
  <2>1. m <= n
    BY <1>3, <1>5 DEF Cleaned
  <2>2. CASE Cleaned(s) /\ ForwardListen(s)
    <3>1. PICK p : K \subseteq H \cup {p}
      BY <1>1, <2>2, MissedGrows
    <3>2. Cardinality(K) <= Cardinality(H) + 1
      <4>1. IsFiniteSet(H \cup {p}) /\ Cardinality(H \cup {p}) <= Cardinality(H) + 1
        <5>1. /\ IsFiniteSet(H \cup {p})
              /\ Cardinality(H \cup {p}) = IF p \in H THEN Cardinality(H) ELSE Cardinality(H) + 1
          BY <1>2, FS_AddElement
        <5>2. PICK a, b : a = Cardinality(H) /\ b = Cardinality(H \cup {p})
          OBVIOUS
        <5>3. a \in Nat /\ (b = a \/ b = a + 1)
          BY <1>2, <5>1, <5>2
        <5>4. b <= a + 1
          BY <5>3
        <5> QED
          BY <5>1, <5>2, <5>4
      <4>2. Cardinality(K) <= Cardinality(H \cup {p}) /\ Cardinality(H \cup {p}) \in Nat
        BY <3>1, <4>1, FS_Subset, FS_CardinalityType
      <4> QED
        BY <1>2, <4>1, <4>2
    <3>3. Cardinality(H) + n <= QueueLen + 1
      BY <1>1, <2>2 DEF LeftOpen
    <3> QED
      BY <1>2, <1>3, <2>2, <3>2, <3>3
  <2>3. CASE Cleaned(s) /\ ~ForwardListen(s)
    <3>1. K \subseteq H
      BY <1>1, <2>3, MissedShrinks
    <3>2. Cardinality(K) <= Cardinality(H)
      BY <1>2, <3>1, FS_Subset
    <3>3. Cardinality(H) + n <= QueueLen + 1
      BY <1>1, <2>3 DEF LeftOpen
    <3> QED
      BY <1>2, <1>3, <2>1, <3>2, <3>3
  <2>4. CASE ~Cleaned(s)
    <3>1. SweepBegin(s) \/ Refuse(s)
      <4>1. conn' # conn
        BY <1>5, <2>4 DEF Cleaned
      <4>2. PICK v \in Sessions :
              \/ Accept(v) \/ Establish(v) \/ Refuse(v) \/ Lose(v)
              \/ Sweep(v) \/ Unregister(v) \/ Release(v)
        BY <4>1, SessionCases DEF sessionVars, CancelDelete
      <4>3. \A w \in Sessions \ {v} : conn'[w] = conn[w]
        BY <4>2 DEF IInv, TypeOK, Accept, Establish, Refuse, Lose, Sweep,
                    SweepBegin, SweepClose,
                    SweepEnd, Unregister, Release
      <4>4. v = s
        BY <1>5, <2>4, <4>3 DEF Cleaned
      <4>5. Accept(s) \/ Establish(s) \/ Lose(s) => ~Cleaned(s)'
        BY DEF Cleaned, Accept, Establish, Lose, IInv, TypeOK
      <4>6. Unregister(s) \/ Release(s) \/ SweepEnd(s) \/ (\E p \in Ports : SweepClose(s, p))
              => Cleaned(s)
        BY DEF Cleaned, Unregister, Release, SweepEnd, SweepClose
      <4> QED
        BY <1>5, <2>4, <4>2, <4>4, <4>5, <4>6 DEF Sweep
    <3>2. \E p : K \subseteq {p}
      BY <1>1, <3>1, SweepLeaves, RefuseLeaves
    <3>3. Cardinality(K) <= 1
      <4>1. PICK p : K \subseteq {p}
        BY <3>2
      <4>2. IsFiniteSet({p}) /\ Cardinality({p}) = 1
        BY FS_Singleton
      <4> QED
        BY <4>1, <4>2, FS_Subset
    <3> QED
      BY <1>2, <1>3, <2>1, <3>3
  <2> QED
    BY <2>2, <2>3, <2>4
<1> QED
  BY <1>1, <1>4, <1>5 DEF LeftOpen

(* What the clean-up of a session can leave open is bounded by what its    *)
(* mux had buffered (lines 303-311), for any sessions, ports and limits.   *)
THEOREM LeftOvers == Spec => []LeftOpenBounded
<1> DEFINE Inv == QueuesBounded /\ \A s \in Sessions : Cleaned(s) => LeftOpen(s)
<1>1. Init => Inv
  BY ServerAssumption DEF Init, QueuesBounded, Cleaned
<1>2. ASSUME IInv, Inv, [Next]_vars
      PROVE  Inv'
  <2>1. ASSUME NEW s \in Sessions
        PROVE  Len(queue'[s]) <= QueueLen /\ (Cleaned(s)' => LeftOpen(s)')
    BY <1>2, <2>1, LeftOpenStep
  <2> QED
    BY <2>1 DEF QueuesBounded
<1>3. IInv /\ Inv /\ [Next]_vars => Inv'
  BY <1>2
<1>4. ASSUME Inv
      PROVE  LeftOpenBounded
  <2>1. ASSUME NEW s \in Sessions, conn[s] \in {"swept", "closing", "gone"}
        PROVE  LeftOpen(s) /\ Missed(s) = HeldBy(s)
    BY <1>4, <2>1 DEF Cleaned, Missed
  <2> QED
    BY <2>1 DEF LeftOpenBounded, LeftOpen
<1>5. Inv => LeftOpenBounded
  BY <1>4
<1> HIDE DEF Inv
<1> QED
  BY <1>1, <1>3, <1>5, Invariance, PTL DEF Spec

-----------------------------------------------------------------------------
(* No connection is left to nobody: the invariant behind UsersAttended.    *)

(* Whoever listens accepts, or is about to.                                *)
LoopsRun == \A p \in Ports : listener[p] # Nil =>
              loop[listener[p]].pc # "off" \/ Inserting(listener[p])

QueuedOpen == \A u \in Users : user[u].pc = "queued" =>
                \E p \in Ports : listener[p] = user[u].via

AcceptedInHand == \A u \in Users : user[u].pc = "accepted" =>
                    /\ loop[user[u].via].pc \in {"lookup", "count"}
                    /\ loop[user[u].via].user = u

AInv == LoopsRun /\ QueuedOpen /\ AcceptedInHand

(* Which steps change an accept loop.                                      *)
LEMMA LoopCases ==
  ASSUME IInv, [Next]_vars, NEW t \in TunnelIds, loop'[t] # loop[t]
  PROVE  \/ LoopStep(t)
         \/ \E s \in Sessions : ForwardInsert(s) /\ worker[s].tunnel = t
<1>1. ASSUME NEW v \in TunnelIds, LoopStep(v)
      PROVE  v = t
  BY <1>1 DEF LoopStep, LoopAccept, LoopStop, LoopGone, LoopFull, LoopAcquire, LoopSpawn,
              IInv, TypeOK
<1>2. ASSUME NEW s \in Sessions, ForwardInsert(s)
      PROVE  worker[s].tunnel = t
  BY <1>2 DEF ForwardInsert, IInv, TypeOK
<1>3. ASSUME NEW s \in Sessions, SessionStep(s)
      PROVE  ForwardInsert(s)
  <2>1. ~(Accept(s) \/ Establish(s) \/ Refuse(s) \/ Lose(s))
    BY DEF Accept, Establish, Refuse, Lose
  <2>2. ~(Sweep(s) \/ Unregister(s) \/ Release(s) \/ MapRace(s))
    BY DEF Sweep, SweepBegin, SweepClose, SweepEnd, Unregister, Release, MapRace
  <2>3. \A r \in Requests : ~Receive(s, r)
    BY DEF Receive
  <2>4. ~(ForwardRefused(s) \/ ForwardListen(s) \/ CancelMiss(s) \/ CancelClose(s))
    BY DEF ForwardRefused, ForwardListen, CancelMiss, CancelClose
  <2>5. ~(CancelDelete(s) \/ TunnelInfo(s) \/ HealthReport(s))
    BY DEF CancelDelete, TunnelInfo, HealthReport
  <2> QED
    BY <1>3, <2>1, <2>2, <2>3, <2>4, <2>5 DEF SessionStep, Serve
<1>4. ASSUME NEW u \in Users, UserStep(u)
      PROVE  FALSE
  BY <1>4 DEF UserStep, HandlerStep, UserConnect, HandlerStart, HandlerOpen, HandlerOpenFail,
              HandlerEnd, HandlerRelease, HandlerDone
<1>5. ~UNCHANGED vars
  BY DEF vars
<1> QED
  BY <1>1, <1>2, <1>3, <1>4, <1>5 DEF Next

(* Which steps put a connection in a backlog or in the hands of a loop.    *)
LEMMA WaitingCases ==
  ASSUME IInv, [Next]_vars, NEW u \in Users, user'[u].pc \in {"queued", "accepted"}
  PROVE  \/ \E p \in Ports : UserConnect(u, p)
         \/ \E t \in TunnelIds : LoopAccept(t, u)
         \/ user'[u].pc = user[u].pc /\ user'[u].via = user[u].via
<1>1. ASSUME NEW s \in Sessions, Sweep(s) \/ CancelClose(s)
      PROVE  user'[u].pc = user[u].pc /\ user'[u].via = user[u].via
  <2>1. UNCHANGED user \/ \E T : CloseListeners(T)
    BY <1>1 DEF Sweep, SweepBegin, SweepClose, SweepEnd, CancelClose
  <2>2. user'[u].pc \in {user[u].pc, "closed"} /\ user'[u].via = user[u].via
    BY <2>1, CloseListenersType DEF IInv
  <2> QED
    BY <2>2
<1>2. ASSUME NEW s \in Sessions, SessionStep(s)
      PROVE  UNCHANGED user \/ Sweep(s) \/ CancelClose(s)
  <2>1. Accept(s) \/ Establish(s) \/ Refuse(s) \/ Lose(s) => UNCHANGED user
    BY DEF Accept, Establish, Refuse, Lose
  <2>2. Unregister(s) \/ Release(s) \/ MapRace(s) => UNCHANGED user
    BY DEF Unregister, Release, MapRace
  <2>3. \A r \in Requests : Receive(s, r) => UNCHANGED user
    BY DEF Receive
  <2>4. ForwardRefused(s) \/ ForwardListen(s) \/ ForwardInsert(s) => UNCHANGED user
    BY DEF ForwardRefused, ForwardListen, ForwardInsert
  <2>5. CancelMiss(s) \/ CancelDelete(s) \/ TunnelInfo(s) \/ HealthReport(s) => UNCHANGED user
    BY DEF CancelMiss, CancelDelete, TunnelInfo, HealthReport
  <2> QED
    BY <1>2, <2>1, <2>2, <2>3, <2>4, <2>5 DEF SessionStep, Serve
<1>3. ASSUME NEW t \in TunnelIds, LoopStep(t), ~LoopAccept(t, u)
      PROVE  user'[u].pc = user[u].pc /\ user'[u].via = user[u].via
  <2>1. user[u] \in UserConns
    BY DEF IInv, TypeOK
  <2>2. ASSUME NEW v \in Users, LoopAccept(t, v)
        PROVE  user'[u] = user[u]
    BY <1>3, <2>2 DEF LoopAccept, IInv, TypeOK
  <2>3. CASE LoopGone(t) \/ LoopFull(t)
    <3>1. PICK w : w = loop[t].user /\ user' = [user EXCEPT ![w].pc = "closed"]
      BY <2>3 DEF LoopGone, LoopFull, CloseUser
    <3>2. CASE w = u
      BY <2>1, <3>1, <3>2 DEF IInv, TypeOK, UserConns
    <3>3. CASE w # u
      BY <3>1, <3>3 DEF IInv, TypeOK
    <3> QED
      BY <3>2, <3>3
  <2>4. CASE LoopSpawn(t)
    BY <2>1, <2>4 DEF LoopSpawn, IInv, TypeOK, UserConns
  <2>5. CASE LoopStop(t) \/ LoopAcquire(t)
    BY <2>5 DEF LoopStop, LoopAcquire
  <2> QED
    BY <1>3, <2>2, <2>3, <2>4, <2>5 DEF LoopStep
<1>4. ASSUME NEW v \in Users, HandlerStep(v)
      PROVE  user'[u] = user[u]
  <2>1. user[v] \in UserConns /\ user[u] \in UserConns
    BY DEF IInv, TypeOK
  <2>2. \A w \in Users \ {v} : user'[w] = user[w]
    BY <1>4 DEF HandlerStep, HandlerStart, HandlerOpen, HandlerOpenFail,
                HandlerEnd, HandlerRelease, HandlerDone, CloseUser, IInv, TypeOK
  <2>3. CASE HandlerStart(v)
    <3>1. PICK c : /\ c = Current(user[v].via)
                   /\ user' = [user EXCEPT ![v].tunnel = c, ![v].pc = AfterStart(c)]
      BY <2>3 DEF HandlerStart
    <3>2. user'[v].pc = AfterStart(c) /\ AfterStart(c) \in {"closed", "release", "open"}
      BY <2>1, <3>1 DEF IInv, TypeOK, UserConns, AfterStart
    <3> QED
      BY <2>2, <3>2
  <2>4. CASE HandlerOpen(v) \/ HandlerOpenFail(v) \/ HandlerEnd(v)
    <3>1. user'[v].pc \in {"relay", "release"}
      BY <2>1, <2>4 DEF HandlerOpen, HandlerOpenFail, HandlerEnd, IInv, TypeOK, UserConns
    <3> QED
      BY <2>2, <3>1
  <2>5. CASE HandlerRelease(v)
    <3>1. user'[v].pc \in {"release", "count"}
      BY <2>1, <2>5 DEF HandlerRelease, IInv, TypeOK, UserConns
    <3> QED
      BY <2>2, <3>1
  <2>6. CASE HandlerDone(v)
    <3>1. user'[v].pc = "closed"
      BY <2>1, <2>6 DEF HandlerDone, CloseUser, IInv, TypeOK, UserConns
    <3> QED
      BY <2>2, <3>1
  <2> QED
    BY <1>4, <2>3, <2>4, <2>5, <2>6 DEF HandlerStep
<1>5. ASSUME NEW v \in Users, NEW p \in Ports, UserConnect(v, p), v # u
      PROVE  user'[u] = user[u]
  BY <1>5 DEF UserConnect, IInv, TypeOK
<1>6. UNCHANGED vars => UNCHANGED user
  BY DEF vars
<1> QED
  BY <1>1, <1>2, <1>3, <1>4, <1>5, <1>6 DEF Next, UserStep

(* The accept loop of an open port does not return.                        *)
LEMMA LoopStays ==
  ASSUME IInv, PInv, [Next]_vars, NEW p \in Ports, NEW t \in TunnelIds,
         listener[p] = t, loop[t].pc # "off"
  PROVE  loop'[t].pc # "off"
<1>1. loop[t] \in Loops /\ loop \in [TunnelIds -> Loops]
  BY DEF IInv, TypeOK
<1>2. CASE LoopStep(t)
  <2>1. ~LoopStop(t)
    BY DEF LoopStop
  <2>2. ~LoopGone(t)
    <3> SUFFICES ASSUME LoopGone(t) PROVE FALSE
      OBVIOUS
    <3>1. t # Nil /\ loop[t].pc = "lookup" /\ Current(t) = Nil
      BY NilFresh DEF LoopGone
    <3>2. PICK s : s = info[t].Owner
      OBVIOUS
    <3>3. s \in Sessions /\ info[t].RemotePort = p
      BY <3>1, <3>2 DEF IInv, PortRefs, Used
    <3>4. tunnels[s][p] = t \/ worker[s] = [pc |-> "inserting", tunnel |-> t]
      BY <3>1, <3>2 DEF IInv, PortsAccounted
    <3>5. tunnels[s][p] # t
      BY <3>1, <3>2, <3>3 DEF Current
    <3>6. Inserting(t)
      BY <3>3, <3>4, <3>5 DEF Inserting
    <3> QED
      BY <3>1, <3>6 DEF PInv, NotStarted, Untouched
  <2>3. CASE LoopFull(t) \/ LoopSpawn(t)
    BY <1>1, <2>3 DEF LoopFull, LoopSpawn, NoLoop
  <2>4. CASE LoopAcquire(t)
    BY <1>1, <2>4 DEF LoopAcquire, Loops
  <2>5. ASSUME NEW u \in Users, LoopAccept(t, u)
        PROVE  loop'[t].pc # "off"
    BY <1>1, <2>5 DEF LoopAccept, Loops
  <2> QED
    BY <1>2, <2>1, <2>2, <2>3, <2>4, <2>5 DEF LoopStep
<1>3. ASSUME NEW s \in Sessions, ForwardInsert(s), worker[s].tunnel = t
      PROVE  loop'[t].pc # "off"
  BY <1>1, <1>3 DEF ForwardInsert, Loops
<1> QED
  BY <1>2, <1>3, LoopCases

(* A tunnel that is being inserted gets its loop with its place in the map. *)
LEMMA InsertionStarts ==
  ASSUME IInv, [Next]_vars, NEW t \in TunnelIds, Inserting(t)
  PROVE  Inserting(t)' \/ loop'[t].pc # "off"
<1>1. PICK s \in Sessions : worker[s] = [pc |-> "inserting", tunnel |-> t]
  BY DEF Inserting
<1>2. worker[s].pc = "inserting" /\ worker[s].tunnel = t
  BY <1>1
<1>3. CASE ForwardInsert(s)
  BY <1>2, <1>3 DEF ForwardInsert, IInv, TypeOK, Loops
<1>4. CASE worker'[s] = worker[s]
  BY <1>1, <1>4 DEF Inserting
<1>5. ASSUME NEW v \in Sessions, SessionStep(v), worker'[s] # worker[s]
      PROVE  ForwardInsert(s)
  <2>1. ~(Accept(v) \/ Establish(v) \/ Refuse(v) \/ Lose(v))
    BY <1>5 DEF Accept, Establish, Refuse, Lose
  <2>2. ~(Sweep(v) \/ Unregister(v) \/ Release(v) \/ MapRace(v))
    BY <1>5 DEF Sweep, SweepBegin, SweepClose, SweepEnd, Unregister, Release, MapRace
  <2>3. \A r \in Requests : ~Receive(v, r)
    BY <1>5 DEF Receive
  <2>4. ~(ForwardRefused(v) \/ CancelMiss(v) \/ TunnelInfo(v) \/ HealthReport(v))
    BY <1>5 DEF ForwardRefused, CancelMiss, TunnelInfo, HealthReport
  <2>5. ~ForwardListen(v)
    BY <1>2, <1>5 DEF ForwardListen, Pending, IInv, TypeOK
  <2>6. ~CancelClose(v)
    BY <1>2, <1>5 DEF CancelClose, Pending, IInv, TypeOK
  <2>7. ~CancelDelete(v)
    BY <1>2, <1>5 DEF CancelDelete, IInv, TypeOK
  <2>8. ForwardInsert(v) => v = s
    BY <1>5 DEF ForwardInsert, IInv, TypeOK
  <2> QED
    BY <1>5, <2>1, <2>2, <2>3, <2>4, <2>5, <2>6, <2>7, <2>8 DEF SessionStep, Serve
<1>6. ASSUME NEW v \in TunnelIds, LoopStep(v)
      PROVE  UNCHANGED worker
  BY <1>6 DEF LoopStep, LoopAccept, LoopStop, LoopGone, LoopFull, LoopAcquire, LoopSpawn
<1>7. ASSUME NEW u \in Users, UserStep(u)
      PROVE  UNCHANGED worker
  BY <1>7 DEF UserStep, HandlerStep, UserConnect, HandlerStart, HandlerOpen, HandlerOpenFail,
              HandlerEnd, HandlerRelease, HandlerDone
<1>8. UNCHANGED vars => UNCHANGED worker
  BY DEF vars
<1> QED
  BY <1>3, <1>4, <1>5, <1>6, <1>7, <1>8 DEF Next

(* Every open port has its loop, or gets it.                               *)
LEMMA LoopsRunStep ==
  ASSUME IInv, PInv, LoopsRun, [Next]_vars
  PROVE  LoopsRun'
<1> SUFFICES ASSUME NEW p \in Ports, listener'[p] # Nil
             PROVE  (loop[listener[p]].pc # "off" \/ Inserting(listener[p]))'
  BY DEF LoopsRun
<1>1. CASE listener'[p] = listener[p]
  <2>1. PICK t \in TunnelIds : listener[p] = t
    BY <1>1 DEF IInv, TypeOK
  <2>2. loop[t].pc # "off" \/ Inserting(t)
    BY <1>1, <2>1 DEF LoopsRun
  <2>3. loop'[t].pc # "off" \/ Inserting(t)'
    BY <2>1, <2>2, LoopStays, InsertionStarts
  <2> QED
    BY <1>1, <2>1, <2>3
<1>2. ASSUME NEW s \in Sessions, ForwardListen(s), listener'[p] # listener[p]
      PROVE  Inserting(listener[p])'
  <2>1. PICK q \in Ports, t \in TunnelIds :
          /\ listener' = [listener EXCEPT ![q] = t]
          /\ worker' = [worker EXCEPT ![s] = [pc |-> "inserting", tunnel |-> t]]
    BY <1>2 DEF ForwardListen, Bindable
  <2>2. listener'[p] = t /\ worker'[s] = [pc |-> "inserting", tunnel |-> t]
    BY <1>2, <2>1 DEF IInv, TypeOK
  <2> QED
    BY <2>2 DEF Inserting
<1>3. ASSUME NEW s \in Sessions, NEW T \in SUBSET TunnelIds, Closes(s, T)
      PROVE  listener'[p] = listener[p]
  BY <1>3, CloseListenersType DEF Closes, IInv
<1> QED
  BY <1>1, <1>2, <1>3, PortCases

(* A backlog exists as long as its port is open: closing the listener      *)
(* resets what it holds.                                                   *)
LEMMA QueuedOpenStep ==
  ASSUME IInv, QueuedOpen, [Next]_vars
  PROVE  QueuedOpen'
<1> SUFFICES ASSUME NEW u \in Users, user'[u].pc = "queued"
             PROVE  \E p \in Ports : listener'[p] = user'[u].via
  BY DEF QueuedOpen
<1>1. ASSUME NEW p \in Ports, UserConnect(u, p)
      PROVE  listener'[p] = user'[u].via
  BY <1>1 DEF UserConnect, tunnelVars, IInv, TypeOK, UserConns
<1>2. ASSUME NEW t \in TunnelIds, LoopAccept(t, u)
      PROVE  FALSE
  BY <1>2 DEF LoopAccept, IInv, TypeOK, UserConns
<1>3. CASE user[u].pc = "queued" /\ user'[u].via = user[u].via
  <2>1. PICK p \in Ports : listener[p] = user[u].via
    BY <1>3 DEF QueuedOpen
  <2>2. user[u].via # Nil
    BY <1>3, NilFresh DEF IInv, UserRefs
  <2>3. ASSUME NEW s \in Sessions, ForwardListen(s)
        PROVE  listener'[p] = listener[p]
    <3>1. PICK q \in Ports, t \in TunnelIds :
            listener[q] = Nil /\ listener' = [listener EXCEPT ![q] = t]
      BY <2>3 DEF ForwardListen, Bindable
    <3> QED
      BY <2>1, <2>2, <3>1 DEF IInv, TypeOK
  <2>4. ASSUME NEW s \in Sessions, NEW T \in SUBSET TunnelIds, Closes(s, T)
        PROVE  listener'[p] = listener[p]
    <3>1. CloseListeners(T)
      BY <2>4 DEF Closes
    <3>2. user'[u] = IF user[u].pc = "queued" /\ user[u].via \in T
                     THEN [user[u] EXCEPT !.pc = "closed"] ELSE user[u]
      BY <3>1 DEF CloseListeners
    <3>3. user[u] \in UserConns
      BY DEF IInv, TypeOK
    <3>4. user[u].via \notin T
      BY <1>3, <3>2, <3>3 DEF UserConns
    <3> QED
      BY <2>1, <3>1, <3>4, CloseListenersType DEF IInv
  <2>5. listener'[p] = listener[p]
    BY <2>3, <2>4, PortCases
  <2> QED
    BY <1>3, <2>1, <2>5
<1> QED
  BY <1>1, <1>2, <1>3, WaitingCases

(* A loop puts a connection down only by closing it or by handing it to a  *)
(* handler.                                                                *)
LEMMA AcceptedStep ==
  ASSUME IInv, PInv, AcceptedInHand, [Next]_vars
  PROVE  AcceptedInHand'
<1> SUFFICES ASSUME NEW u \in Users, user'[u].pc = "accepted"
             PROVE  /\ loop'[user'[u].via].pc \in {"lookup", "count"}
                    /\ loop'[user'[u].via].user = u
  BY DEF AcceptedInHand
<1>1. ASSUME NEW p \in Ports, UserConnect(u, p)
      PROVE  FALSE
  BY <1>1 DEF UserConnect, IInv, TypeOK, UserConns
<1>2. ASSUME NEW t \in TunnelIds, LoopAccept(t, u)
      PROVE  /\ loop'[user'[u].via].pc \in {"lookup", "count"}
             /\ loop'[user'[u].via].user = u
  <2>1. user'[u].via = t
    BY <1>2 DEF LoopAccept, IInv, TypeOK, UserConns
  <2>2. loop'[t].pc = "lookup" /\ loop'[t].user = u
    BY <1>2 DEF LoopAccept, IInv, TypeOK, Loops
  <2> QED
    BY <2>1, <2>2
<1>3. CASE user[u].pc = "accepted" /\ user'[u].via = user[u].via
  <2>1. PICK t \in TunnelIds : t = user[u].via
    BY <1>3 DEF IInv, UserRefs
  <2>2. loop[t].pc \in {"lookup", "count"} /\ loop[t].user = u
    BY <1>3, <2>1 DEF AcceptedInHand
  <2>3. user[u] \in UserConns /\ loop[t] \in Loops
    BY DEF IInv, TypeOK
  <2>4. ~LoopGone(t) /\ ~LoopFull(t)
    BY <2>2, <2>3 DEF LoopGone, LoopFull, CloseUser, IInv, TypeOK, UserConns
  <2>5. ~LoopSpawn(t)
    BY <2>2, <2>3 DEF LoopSpawn, IInv, TypeOK, UserConns
  <2>6. ~LoopStop(t) /\ \A v \in Users : ~LoopAccept(t, v)
    BY <2>2 DEF LoopStop, LoopAccept
  <2>7. LoopAcquire(t) => loop'[t].pc = "count" /\ loop'[t].user = u
    BY <2>2, <2>3 DEF LoopAcquire, IInv, TypeOK, Loops
  <2>8. ASSUME NEW s \in Sessions, ForwardInsert(s), worker[s].tunnel = t
        PROVE  FALSE
    <3>1. Inserting(t)
      BY <2>8 DEF ForwardInsert, IInv, TypeOK, Workers, Inserting
    <3> QED
      BY <2>2, <3>1 DEF PInv, NotStarted, Untouched
  <2>9. loop'[t].pc \in {"lookup", "count"} /\ loop'[t].user = u
    BY <2>2, <2>4, <2>5, <2>6, <2>7, <2>8, LoopCases DEF LoopStep
  <2> QED
    BY <1>3, <2>1, <2>9
<1> QED
  BY <1>1, <1>2, <1>3, WaitingCases

(* A waiting connection always has somebody to wait for, for any sessions, *)
(* ports and users, whatever is cancelled, lost or bound meanwhile.        *)
THEOREM UsersKept == Spec => []UsersAttended
<1>1. Init => AInv
  BY DEF Init, AInv, LoopsRun, QueuedOpen, AcceptedInHand, NoUser
<1>2. IInv /\ PInv /\ AInv /\ [Next]_vars => AInv'
  BY LoopsRunStep, QueuedOpenStep, AcceptedStep DEF AInv
<1>3. ASSUME IInv, AInv
      PROVE  UsersAttended
  <2> SUFFICES ASSUME NEW u \in Users, NEW t, t = user[u].via
               PROVE  /\ user[u].pc = "queued" =>
                           /\ \E p \in Ports : listener[p] = t
                           /\ loop[t].pc # "off" \/ Inserting(t)
                      /\ user[u].pc = "accepted" =>
                           loop[t].pc \in {"lookup", "count"} /\ loop[t].user = u
    BY DEF UsersAttended, Inserting
  <2>1. CASE user[u].pc = "queued"
    <3>1. PICK p \in Ports : listener[p] = t
      BY <1>3, <2>1 DEF AInv, QueuedOpen
    <3>2. t # Nil
      BY <1>3, <2>1, NilFresh DEF IInv, UserRefs
    <3>3. loop[t].pc # "off" \/ Inserting(t)
      BY <1>3, <3>1, <3>2 DEF AInv, LoopsRun
    <3> QED
      BY <2>1, <3>1, <3>3
  <2>2. CASE user[u].pc = "accepted"
    BY <1>3, <2>2 DEF AInv, AcceptedInHand
  <2> QED
    BY <2>1, <2>2
<1>4. IInv /\ AInv => UsersAttended
  BY <1>3
<1> QED
  BY <1>1, <1>2, <1>4, Invariance, PermitInvariance, PTL DEF Spec

-----------------------------------------------------------------------------
(* Refinement.                                                             *)

(* The owners of the ports do not change with the listeners.               *)
LEMMA OwnerFrame ==
  ASSUME IInv, [Next]_vars, UNCHANGED listener
  PROVE  UNCHANGED PortOwner
<1>1. Kept
  BY KeptStep DEF IInv
<1>2. \A p \in Ports : listener[p] # Nil =>
        listener[p] \in TunnelIds /\ info'[listener[p]].Owner = info[listener[p]].Owner
  BY <1>1 DEF IInv, TypeOK, PortRefs, Kept
<1>3. \A p \in Ports : (IF listener'[p] = Nil THEN Nil ELSE info'[listener'[p]].Owner)
                     = (IF listener[p] = Nil THEN Nil ELSE info[listener[p]].Owner)
  BY <1>2
<1> QED
  BY <1>3 DEF PortOwner

(* Binding a port below the limit is a grant.                              *)
LEMMA ListenGrants ==
  ASSUME IInv, [Next]_vars, NEW s \in Sessions, ForwardListen(s)
  PROVE  \E p \in Ports : Leases!Grant(s, p)
<1>1. PICK p \in Ports, t \in TunnelIds :
        /\ listener[p] = Nil /\ info[t] = Unused
        /\ listener' = [listener EXCEPT ![p] = t]
        /\ info' = [info EXCEPT ![t] = NewTunnel(s, p, Head(queue[s]))]
  BY DEF ForwardListen, Bindable
<1>2. worker[s].pc = "idle" /\ ~TunnelLimit(s)
  BY DEF ForwardListen, Pending
<1>3. listener'[p] = t /\ \A q \in Ports \ {p} : listener'[q] = listener[q]
  BY <1>1 DEF IInv, TypeOK
<1>4. info'[t].Owner = s /\ t # Nil
  BY <1>1, NilFresh DEF IInv, TypeOK, NewTunnel
<1>5. \A q \in Ports : listener[q] # Nil =>
        info'[listener[q]].Owner = info[listener[q]].Owner
  BY KeptStep DEF IInv, TypeOK, PortRefs, Kept
<1>6. /\ PortOwner'[p] = s
      /\ \A q \in Ports \ {p} : PortOwner'[q] = PortOwner[q]
      /\ DOMAIN PortOwner' = Ports
      /\ PortOwner[p] = Nil
  BY <1>1, <1>3, <1>4, <1>5 DEF PortOwner
<1>7. PortOwner' = [PortOwner EXCEPT ![p] = s]
  <2>1. PortOwner' = [q \in Ports |-> PortOwner'[q]]
    BY DEF PortOwner
  <2>2. PortOwner = [q \in Ports |-> PortOwner[q]]
    BY DEF PortOwner
  <2> HIDE DEF PortOwner
  <2> QED
    BY <1>6, <2>1, <2>2
<1>8. Cardinality({q \in Ports : PortOwner[q] = s}) < MaxTunnels
  <2> DEFINE L == {q \in Ports : PortOwner[q] = s}
  <2>1. L \subseteq Tunnels(s)
    <3>1. ASSUME NEW q \in Ports, PortOwner[q] = s
          PROVE  q \in Tunnels(s)
      <4>1. listener[q] # Nil /\ info[listener[q]].Owner = s
        BY <3>1, NilFresh DEF PortOwner
      <4>2. tunnels[s][q] = listener[q]
        <5>1. \/ tunnels[s][q] = listener[q]
              \/ worker[s] = [pc |-> "inserting", tunnel |-> listener[q]]
          BY <3>1, <4>1 DEF IInv, PortsAccounted
        <5> QED
          BY <1>2, <5>1
      <4> QED
        BY <3>1, <4>1, <4>2 DEF Tunnels
    <3> QED
      BY <3>1
  <2>2. IsFiniteSet(Tunnels(s))
    BY ServerAssumption, FS_Subset DEF Tunnels
  <2>3. Cardinality(L) <= Cardinality(Tunnels(s)) /\ IsFiniteSet(L)
    BY <2>1, <2>2, FS_Subset
  <2>4. Cardinality(L) \in Nat /\ Cardinality(Tunnels(s)) \in Nat
    BY <2>2, <2>3, FS_CardinalityType
  <2>5. ~(Cardinality(Tunnels(s)) >= MaxTunnels)
    BY <1>2 DEF TunnelLimit
  <2> HIDE DEF L
  <2>6. Cardinality(L) < MaxTunnels
    BY <2>3, <2>4, <2>5, ServerAssumption
  <2> QED
    BY <2>6 DEF L
<1>9. Leases!Grant(s, p)
  BY <1>6, <1>7, <1>8 DEF Leases!Grant, Leases!Leased, Leases!Cardinality, Cardinality
<1> QED
  BY <1>9

(* Closing listeners of a session frees its ports.                         *)
LEMMA CloseFrees ==
  ASSUME IInv, NEW s \in Sessions, NEW T \in SUBSET TunnelIds, Closes(s, T)
  PROVE  UNCHANGED PortOwner \/ \E S \in SUBSET Ports : Leases!Free(s, S)
<1> DEFINE S == {p \in Ports : listener[p] \in T}
<1>1. /\ listener' = [p \in Ports |-> IF listener[p] \in T THEN Nil ELSE listener[p]]
      /\ info' = info
      /\ \A t \in T : t \in TunnelIds /\ info[t].Owner = s
  BY DEF Closes, CloseListeners
<1>2. PortOwner' = [p \in Ports |-> IF p \in S THEN Nil ELSE PortOwner[p]]
  <2>1. \A p \in Ports : (IF listener'[p] = Nil THEN Nil ELSE info'[listener'[p]].Owner)
                        = (IF p \in S THEN Nil ELSE PortOwner[p])
    BY <1>1 DEF PortOwner
  <2> QED
    BY <2>1 DEF PortOwner
<1>3. S \subseteq {p \in Ports : PortOwner[p] = s}
  BY <1>1, NilFresh DEF PortOwner
<1>4. S = {} => UNCHANGED PortOwner
  BY <1>2 DEF PortOwner
<1> HIDE DEF S
<1>5. S # {} => Leases!Free(s, S)
  BY <1>2, <1>3 DEF Leases!Free, Leases!Leased
<1>6. S \in SUBSET Ports
  BY DEF S
<1> QED
  BY <1>4, <1>5, <1>6

(* The server implements PortLeases: whatever its goroutines do, a port is *)
(* leased to one session at a time and within its quota.                   *)
THEOREM LeasesImplemented == Spec => ImplementsLeases
<1>1. Init => Leases!Init
  BY DEF Init, Leases!Init, PortOwner
<1>2. ASSUME IInv, [Next]_vars
      PROVE  Leases!Next \/ UNCHANGED PortOwner
  <2>1. ASSUME NEW s \in Sessions, NEW T \in SUBSET TunnelIds, Closes(s, T)
        PROVE  Leases!Next \/ UNCHANGED PortOwner
    BY <1>2, <2>1, CloseFrees DEF Leases!Next
  <2>2. ASSUME NEW s \in Sessions, ForwardListen(s)
        PROVE  Leases!Next
    BY <1>2, <2>2, ListenGrants DEF Leases!Next
  <2> QED
    BY <1>2, <2>1, <2>2, PortCases, OwnerFrame
<1>3. IInv /\ [Next]_vars => [Leases!Next]_PortOwner
  BY <1>2
<1> QED
  BY <1>1, <1>3, Invariance, PTL DEF Spec, ImplementsLeases, Leases!Spec

=============================================================================
