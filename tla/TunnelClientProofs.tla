------------------------- MODULE TunnelClientProofs -------------------------
(***************************************************************************)
(* The client for any configurations, any number of connections and any    *)
(* number of reloads: types, that a quiet connection has exactly the       *)
(* tunnels of its configuration, and that a reload closes none that stays  *)
(* as it is.                                                               *)
(*                                                                         *)
(* The argument follows one connection.  When it is dialled, nothing at    *)
(* the server and nothing in the client is of it (Fresh).  While no reload *)
(* holds the lock, each tunnel of the configuration is open, or one        *)
(* goroutine is about to open it, and every port that is leased serves one *)
(* of them (Opening).  A reload that begins when all of that is done finds *)
(* every tunnel open, and until it lets go of the lock each is as before,  *)
(* kept, or closed and noted for opening (Replacing).                      *)
(***************************************************************************)
EXTENDS TunnelClient, FiniteSetTheorems, TLAPS

(* A reload holds the lock, and is closing a tunnel.                       *)
HasLock(c) == At(c, "range") \/ At(c, "cancel") \/ At(c, "close")
Closing(c) == At(c, "cancel") \/ At(c, "close")

(* What a reload loop carries from one step of a request to the next.      *)
LockedStates ==
  [pc : {"range", "cancel", "close"}, batch : 1..MaxReloads, newCfg : Configs,
   left : SUBSET Names, add : SUBSET Names,
   name : Names \cup {Nil}, handle : Handles \cup {Nil}]

LoopStates ==
  {Idle, Ended}
  \cup [pc : {"load"}, batch : 1..MaxReloads]
  \cup [pc : {"lock"}, batch : 1..MaxReloads, newCfg : Configs]
  \cup LockedStates

(* What TypeOK does not tell of the types, and that nothing is of a client *)
(* that has not been dialled yet.                                          *)
LoopShapes ==
  /\ loop \in [Clients -> LoopStates]
  /\ \A c \in Clients : /\ loop[c] # Ended => c <= dials
                        /\ HasLock(c) => loop[c].add \subseteq DOMAIN loop[c].newCfg
                        /\ Closing(c) => /\ loop[c].name \in Names /\ loop[c].handle \in Handles
                                         /\ loop[c].handle.client <= dials

Shapes ==
  /\ LoopShapes
  /\ \A k \in creators : k.client <= dials /\ (k.pc # "listen" => k.port \in Ports)
  /\ \A n \in Names : tunnels[n] # Nil => tunnels[n].client <= dials
  /\ reload => reloads < MaxReloads
  /\ up => main # "dial"
  /\ main # "dial" => dials > 0

Typed == TypeOK /\ Shapes

-----------------------------------------------------------------------------
(* Configurations, loops, creators and handles.                            *)

LEMMA ConfigFacts ==
  ASSUME NEW f \in Configs
  PROVE  DOMAIN f \subseteq Names /\ \A n \in DOMAIN f : f[n] \in Tunnel
BY ClientAssumption

LEMMA Constants ==
  /\ MaxReloads \in Nat /\ MaxDials \in Nat /\ Clients \subseteq Nat
  /\ \A c \in Clients : c > 0 /\ c <= MaxDials
  /\ Nil \notin Handles /\ Nil \notin Names /\ Nil \notin Ports /\ Nil \notin Locals
BY ClientAssumption DEF Clients, Handles

LEMMA LoopFacts ==
  /\ Idle \in LoopStates /\ Ended \in LoopStates /\ Idle.pc = "idle" /\ Ended.pc = "ended"
  /\ Idle # Ended
  /\ \A s \in LoopStates :
       /\ s.pc \in {"idle", "ended", "load", "lock", "range", "cancel", "close"}
       /\ s.pc = "idle" => s = Idle
       /\ s.pc = "ended" => s = Ended
       /\ s.pc = "load" => s.batch \in 1..MaxReloads
       /\ s.pc = "lock" => s.batch \in 1..MaxReloads /\ s.newCfg \in Configs
       /\ s.pc \in {"range", "cancel", "close"} => s \in LockedStates
  /\ \A b \in 1..MaxReloads : /\ [pc |-> "load", batch |-> b] \in LoopStates
                              /\ \A f \in Configs : [pc |-> "lock", batch |-> b, newCfg |-> f] \in LoopStates
  /\ LockedStates \subseteq LoopStates
<1>1. Idle.pc = "idle" /\ Ended.pc = "ended"
  BY DEF Idle, Ended
<1>2. ASSUME NEW s \in LoopStates
      PROVE  /\ s.pc \in {"idle", "ended", "load", "lock", "range", "cancel", "close"}
             /\ s.pc = "idle" => s = Idle
             /\ s.pc = "ended" => s = Ended
             /\ s.pc = "load" => s.batch \in 1..MaxReloads
             /\ s.pc = "lock" => s.batch \in 1..MaxReloads /\ s.newCfg \in Configs
             /\ s.pc \in {"range", "cancel", "close"} => s \in LockedStates
  <2>1. CASE s \in {Idle, Ended}
    BY <1>1, <2>1
  <2>2. CASE s \in [pc : {"load"}, batch : 1..MaxReloads]
    BY <2>2
  <2>3. CASE s \in [pc : {"lock"}, batch : 1..MaxReloads, newCfg : Configs]
    BY <2>3
  <2>4. CASE s \in LockedStates
    <3>1. s.pc \in {"range", "cancel", "close"}
      BY <2>4 DEF LockedStates
    <3> QED BY <2>4, <3>1
  <2> QED BY <1>2, <2>1, <2>2, <2>3, <2>4 DEF LoopStates
<1>3. \A b \in 1..MaxReloads :
        /\ [pc |-> "load", batch |-> b] \in LoopStates
        /\ \A f \in Configs : [pc |-> "lock", batch |-> b, newCfg |-> f] \in LoopStates
  BY DEF LoopStates
<1> QED BY <1>1, <1>2, <1>3 DEF LoopStates

(* The fields of a loop that has the lock, and what the steps change.      *)
LEMMA LockedFacts ==
  ASSUME NEW s \in LockedStates
  PROVE  /\ s.pc \in {"range", "cancel", "close"} /\ s.batch \in 1..MaxReloads /\ s.newCfg \in Configs
         /\ s.left \subseteq Names /\ s.add \subseteq Names
BY DEF LockedStates

LEMMA LockedCloses ==
  ASSUME NEW s \in LockedStates
  PROVE  /\ LET t == [s EXCEPT !.pc = "close"]
            IN /\ t \in LockedStates /\ t.left = s.left /\ t.add = s.add /\ t.pc = "close"
               /\ t.newCfg = s.newCfg /\ t.name = s.name /\ t.handle = s.handle
         /\ LET t == [s EXCEPT !.pc = "range", !.name = Nil, !.handle = Nil]
            IN /\ t \in LockedStates /\ t.left = s.left /\ t.add = s.add /\ t.pc = "range"
               /\ t.newCfg = s.newCfg /\ t.name = Nil
BY DEF LockedStates

(* What a loop has when it gets the lock.                                  *)
LEMMA LockedStart ==
  ASSUME NEW b \in 1..MaxReloads, NEW f \in Configs
  PROVE  LET t == [pc |-> "range", batch |-> b, newCfg |-> f, left |-> Names,
                   add |-> DOMAIN f, name |-> Nil, handle |-> Nil]
         IN t \in LockedStates /\ t.pc = "range" /\ t.left = Names /\ t.add = DOMAIN f
            /\ t.newCfg = f /\ t.name = Nil
BY ConfigFacts DEF LockedStates

(* The goroutines a configuration, or a part of one, starts.               *)
LEMMA SpawnedFacts ==
  ASSUME NEW c \in Clients, NEW b \in 0..MaxReloads, NEW f,
         DOMAIN f \subseteq Names, \A n \in DOMAIN f : f[n] \in Tunnel
  PROVE  LET S == Spawned(c, b, f)
         IN /\ S \subseteq Creators
            /\ \A k \in S : /\ k.client = c /\ k.pc = "listen"
                            /\ k.name \in DOMAIN f /\ k.tunnel = f[k.name]
            /\ \A n \in DOMAIN f : \E k \in S : k.name = n
            /\ \A k, l \in S : k.name = l.name => k = l
<1> DEFINE new(n) == [client |-> c, batch |-> b, name |-> n, tunnel |-> f[n],
                      pc |-> "listen", port |-> Nil]
<1>1. Spawned(c, b, f) = {new(n) : n \in DOMAIN f}
  BY DEF Spawned
<1>2. ASSUME NEW n \in DOMAIN f
      PROVE  /\ new(n) \in Creators /\ new(n).client = c /\ new(n).pc = "listen"
             /\ new(n).name = n /\ new(n).tunnel = f[n]
  BY <1>2 DEF Creators
<1> HIDE DEF new
<1> QED BY <1>1, <1>2

LEMMA CreatorFacts ==
  ASSUME NEW k \in Creators
  PROVE  /\ k.client \in Clients /\ k.name \in Names /\ k.tunnel \in Tunnel
         /\ k.pc \in {"listen", "store", "info"}
         /\ LET t == [k EXCEPT !.pc = "info"]
            IN /\ t \in Creators /\ t.pc = "info" /\ t.port = k.port /\ t.client = k.client
               /\ t.name = k.name /\ t.tunnel = k.tunnel
BY DEF Creators

LEMMA ListenedFacts ==
  ASSUME NEW k \in Creators, NEW p \in Ports
  PROVE  LET t == [k EXCEPT !.pc = "store", !.port = p]
         IN /\ t \in Creators /\ t.pc = "store" /\ t.port = p /\ t.client = k.client
            /\ t.name = k.name /\ t.tunnel = k.tunnel
BY DEF Creators

LEMMA HandleFacts ==
  ASSUME NEW t \in Tunnel, NEW p \in Ports, NEW c \in Clients
  PROVE  LET h == [tunnel |-> t, port |-> p, client |-> c]
         IN h \in Handles /\ h # Nil /\ h.tunnel = t /\ h.port = p /\ h.client = c
<1>1. [tunnel |-> t, port |-> p, client |-> c] \in Handles
  BY DEF Handles
<1> QED BY <1>1, Constants

LEMMA Fields ==
  /\ \A h \in Handles : h.tunnel \in Tunnel /\ h.port \in Ports /\ h.client \in Clients
  /\ \A t \in Tunnel : t.RemotePort \in Ports \cup {AnyPort} /\ t.Local \in Locals
BY DEF Handles, Tunnel

-----------------------------------------------------------------------------
(* What the steps have in common, and the types.                           *)

LEMMA Facts ==
  ASSUME Typed
  PROVE  /\ dials \in Nat /\ dials <= MaxDials /\ reloads \in Nat
         /\ loop \in [Clients -> LoopStates]
         /\ \A c \in Clients : loop[c].pc \in {"idle", "ended", "load", "lock", "range",
                                               "cancel", "close"}
         /\ owner \in [Ports -> 0..dials]
         /\ main # "dial" => dials \in Clients
         /\ up => main # "dial" /\ dials \in Clients
         /\ \A k \in creators : k \in Creators
         /\ \A n \in Names : tunnels[n] # Nil => tunnels[n] \in Handles
BY Constants DEF Typed, TypeOK, Shapes, LoopShapes, Clients

(* A loop goes on to another state.                                        *)
LEMMA GoesOn ==
  ASSUME Typed, NEW c \in Clients, c <= dials, NEW t \in LoopStates, Goes(c, t), dials' = dials,
         t.pc \in {"range", "cancel", "close"} => t.add \subseteq DOMAIN t.newCfg,
         t.pc \in {"cancel", "close"} => /\ t.name \in Names /\ t.handle \in Handles
                                         /\ t.handle.client <= dials
  PROVE  /\ LoopShapes'
         /\ \A d \in Clients : loop'[d].pc \in {"idle", "ended", "load", "lock", "range",
                                                "cancel", "close"}
         /\ loop'[c] = t /\ \A d \in Clients \ {c} : loop'[d] = loop[d]
<1>1. loop' \in [Clients -> LoopStates] /\ loop'[c] = t /\ \A d \in Clients \ {c} : loop'[d] = loop[d]
  BY Facts DEF Goes
<1>2. LoopShapes
  BY DEF Typed, Shapes
<1>3. \A d \in Clients : loop'[d] # Ended => d <= dials'
  BY <1>1, <1>2 DEF LoopShapes
<1>4. ASSUME NEW d \in Clients
      PROVE  /\ HasLock(d)' => loop'[d].add \subseteq DOMAIN loop'[d].newCfg
             /\ Closing(d)' => /\ loop'[d].name \in Names /\ loop'[d].handle \in Handles
                               /\ loop'[d].handle.client <= dials'
  <2>1. CASE d = c
    BY <1>1, <2>1 DEF HasLock, Closing, At
  <2>2. CASE d # c
    BY <1>1, <1>2, <2>2 DEF LoopShapes, HasLock, Closing, At
  <2> QED BY <2>1, <2>2
<1>5. \A d \in Clients : loop'[d].pc \in {"idle", "ended", "load", "lock", "range",
                                          "cancel", "close"}
  BY <1>1, LoopFacts
<1> QED BY <1>1, <1>3, <1>4, <1>5 DEF LoopShapes

(* The server is asked to cancel a forward.                                *)
LEMMA CancelEffect ==
  ASSUME Typed, NEW c \in Clients, NEW p \in Ports, Cancel(c, p)
  PROVE  /\ owner' \in [Ports -> 0..dials] /\ local' \in [Ports -> Locals \cup {Nil}]
         /\ Live(c) /\ owner[p] = c => owner'[p] = 0
         /\ ~(Live(c) /\ owner[p] = c) => owner' = owner /\ local' = local
         /\ \A q \in Ports \ {p} : owner'[q] = owner[q] /\ local'[q] = local[q]
<1>1. owner \in [Ports -> 0..dials] /\ local \in [Ports -> Locals \cup {Nil}] /\ 0 \in 0..dials
  BY Facts DEF Typed, TypeOK
<1>2. CASE Live(c) /\ owner[p] = c
  <2>1. owner' = [q \in Ports |-> IF q \in {p} THEN 0 ELSE owner[q]] /\ local' = [local EXCEPT ![p] = Nil]
    BY <1>2 DEF Cancel, Leases!Free
  <2> QED BY <1>1, <1>2, <2>1
<1>3. CASE ~(Live(c) /\ owner[p] = c)
  BY <1>1, <1>3 DEF Cancel, serverVars
<1> QED BY <1>2, <1>3

(* A goroutine goes on, or is replaced by others.                          *)
LEMMA CreatorsBecome ==
  ASSUME Typed, NEW k \in creators, NEW N, Becomes(k, N),
         \A l \in N : l \in Creators /\ l.client <= dials /\ (l.pc # "listen" => l.port \in Ports)
  PROVE  /\ creators' \subseteq Creators
         /\ \A l \in creators' : l.client <= dials /\ (l.pc # "listen" => l.port \in Ports)
BY DEF Becomes, Typed, TypeOK, Shapes

LEMMA LeaseEffect ==
  ASSUME Typed, NEW c \in Clients, c <= dials, NEW p \in Ports, Leases!Grant(c, p)
  PROVE  /\ owner' \in [Ports -> 0..dials] /\ owner[p] = 0 /\ owner'[p] = c
         /\ \A q \in Ports \ {p} : owner'[q] = owner[q]
<1>1. owner \in [Ports -> 0..dials] /\ c \in 0..dials
  BY Facts, Constants
<1> QED BY <1>1 DEF Leases!Grant

LEMMA StartTypes ==
  ASSUME Typed, Dial \/ StartStep \/ Lose \/ Edit \/ TriggerReload
  PROVE  Typed'
<1>1. /\ TypeOK /\ LoopShapes /\ dials \in Nat /\ dials <= MaxDials /\ MaxDials \in Nat
  BY Facts, Constants DEF Typed, Shapes
<1>2. CASE Dial
  <2>1. /\ dials' = dials + 1 /\ dials < MaxDials /\ up' = TRUE /\ main' = "info" /\ calm' = TRUE
        /\ UNCHANGED <<file, cfg, reload, reloads, loop, tunnels, creators, owner, local>>
    BY <1>2 DEF Dial, serverVars
  <2>2. dials' \in 0..MaxDials /\ dials' > 0 /\ \A x \in Nat : x <= dials => x <= dials'
    BY <1>1, <2>1
  <2>3. owner' \in [Ports -> 0..dials']
    BY <1>1, <2>1 DEF TypeOK
  <2>4. TypeOK'
    BY <1>1, <2>1, <2>2, <2>3 DEF TypeOK
  <2>5. \A h \in Handles : h.client \in Nat
    BY Fields, Constants
  <2>6. \A k \in creators : k.client \in Nat
    BY <1>1, CreatorFacts, Constants DEF TypeOK
  <2>7. LoopShapes'
    BY <1>1, <2>1, <2>2, <2>5, Constants DEF LoopShapes, HasLock, Closing, At
  <2>8. Shapes'
    BY <2>1, <2>2, <2>5, <2>6, <2>7, Facts DEF Shapes, Typed
  <2> QED BY <2>4, <2>8 DEF Typed
<1>3. CASE InfoFails \/ Reconnect
  BY <1>3 DEF InfoFails, Reconnect, Typed, TypeOK, Shapes, LoopShapes, HasLock, Closing, At, serverVars
<1>4. CASE Begin
  <2>1. /\ main = "info" /\ up /\ main' = "open" /\ Goes(dials, Idle)
        /\ UNCHANGED <<file, cfg, reload, reloads, dials, up, tunnels, creators, owner, local, calm>>
    BY <1>4 DEF Begin, serverVars, Goes
  <2>2. dials \in Clients /\ dials > 0
    BY <2>1, Facts, Constants
  <2>3. LoopShapes' /\ \A d \in Clients : loop'[d].pc \in {"idle", "ended", "load", "lock", "range",
                                                           "cancel", "close"}
    BY <1>1, <2>1, <2>2, LoopFacts, GoesOn
  <2> QED BY <2>1, <2>2, <2>3 DEF Typed, TypeOK, Shapes
<1>5. CASE OpenTunnels
  <2>1. /\ main = "open" /\ main' = "wait" /\ creators' = creators \cup Spawned(dials, 0, cfg)
        /\ calm' \in BOOLEAN
        /\ UNCHANGED <<file, cfg, reload, reloads, dials, up, loop, tunnels, owner, local>>
    BY <1>5 DEF OpenTunnels, serverVars
  <2>2. dials \in Clients /\ dials > 0 /\ cfg \in Configs /\ 0 \in 0..MaxReloads
    BY <1>1, <2>1, Facts, Constants DEF TypeOK
  <2>3. /\ Spawned(dials, 0, cfg) \subseteq Creators
        /\ \A k \in Spawned(dials, 0, cfg) : k.client = dials /\ k.pc = "listen"
    BY <2>2, ConfigFacts, SpawnedFacts
  <2>4. TypeOK'
    BY <1>1, <2>1, <2>3 DEF TypeOK
  <2>5. Shapes'
    BY <1>1, <2>1, <2>2, <2>3 DEF Typed, Shapes, LoopShapes, HasLock, Closing, At
  <2> QED BY <2>4, <2>5 DEF Typed
<1>6. CASE Lose
  BY <1>6 DEF Lose, Typed, TypeOK, Shapes, LoopShapes, HasLock, Closing, At, serverVars
<1>7. CASE Edit
  BY <1>7 DEF Edit, Typed, TypeOK, Shapes, LoopShapes, HasLock, Closing, At, serverVars, connVars
<1>8. CASE TriggerReload
  BY <1>8 DEF TriggerReload, Typed, TypeOK, Shapes, LoopShapes, HasLock, Closing, At, serverVars
<1> QED BY <1>2, <1>3, <1>4, <1>5, <1>6, <1>7, <1>8 DEF StartStep

LEMMA SweepEffect ==
  ASSUME Typed, NEW c \in Clients, Sweep(c)
  PROVE  /\ owner' \in [Ports -> 0..dials] /\ local' \in [Ports -> Locals \cup {Nil}]
         /\ \A p \in Ports : IF owner[p] = c THEN owner'[p] = 0
                             ELSE owner'[p] = owner[p] /\ local'[p] = local[p]
<1>1. owner \in [Ports -> 0..dials] /\ local \in [Ports -> Locals \cup {Nil}] /\ 0 \in 0..dials
  BY Facts DEF Typed, TypeOK
<1>2. /\ owner' = [p \in Ports |-> IF p \in Leases!Leased(c) THEN 0 ELSE owner[p]]
      /\ local' = [p \in Ports |-> IF owner[p] = c THEN Nil ELSE local[p]]
  BY DEF Sweep, Leases!Free
<1> QED BY <1>1, <1>2 DEF Leases!Leased

LEMMA SweepTypes ==
  ASSUME Typed, NEW c \in Clients, Sweep(c)
  PROVE  Typed'
<1>1. UNCHANGED <<file, cfg, reload, reloads, dials, up, main, loop, tunnels, creators, calm>>
  BY DEF Sweep, connVars
<1> QED BY <1>1, SweepEffect DEF Typed, TypeOK, Shapes, LoopShapes, HasLock, Closing, At

LEMMA CreateTypes ==
  ASSUME Typed, NEW k \in creators, CreateTunnel(k)
  PROVE  Typed'
<1>1. /\ TypeOK /\ LoopShapes /\ k \in Creators /\ k.client <= dials /\ k.client \in Clients
      /\ k.pc # "listen" => k.port \in Ports
  BY Facts, CreatorFacts DEF Typed, Shapes
<1>2. UNCHANGED <<file, cfg, reload, reloads, dials, up, main, loop>>
  BY DEF CreateTunnel, Listen, ListenFails, Store, SendTunnelInfo, connVars
<1>3. LoopShapes'
  BY <1>1, <1>2 DEF LoopShapes, HasLock, Closing, At
<1>4. CASE Listen(k)
  <2>1. PICK p \in Wanted(k) : /\ Leases!Grant(k.client, p)
                               /\ Becomes(k, {[k EXCEPT !.pc = "store", !.port = p]})
    BY <1>4 DEF Listen
  <2>2. p \in Ports
    <3>1. k.tunnel \in Tunnel
      BY <1>1, CreatorFacts
    <3>2. k.tunnel.RemotePort \in Ports \cup {AnyPort}
      BY <3>1, Fields
    <3> QED BY <2>1, <3>2 DEF Wanted
  <2>3. owner' \in [Ports -> 0..dials]
    BY <1>1, <2>1, <2>2, LeaseEffect
  <2>4. /\ creators' \subseteq Creators
        /\ \A l \in creators' : l.client <= dials /\ (l.pc # "listen" => l.port \in Ports)
    <3> DEFINE t == [k EXCEPT !.pc = "store", !.port = p]
    <3>1. t \in Creators /\ t.client = k.client /\ t.port = p
      <4>1. k \in Creators
        BY <1>1
      <4> QED BY <2>2, <4>1, ListenedFacts
    <3>2. Becomes(k, {t})
      BY <2>1
    <3> HIDE DEF t
    <3> QED BY <1>1, <2>2, <3>1, <3>2, CreatorsBecome
  <2> QED BY <1>2, <1>3, <1>4, <2>3, <2>4 DEF Listen, Typed, TypeOK, Shapes
<1>5. CASE ListenFails(k)
  <2>1. /\ creators' \subseteq Creators
        /\ \A l \in creators' : l.client <= dials /\ (l.pc # "listen" => l.port \in Ports)
    BY <1>5, CreatorsBecome DEF ListenFails
  <2> QED BY <1>2, <1>3, <1>5, <2>1 DEF ListenFails, Typed, TypeOK, Shapes, serverVars
<1>6. CASE Store(k)
  <2>1. /\ tunnels' = [tunnels EXCEPT ![k.name] =
                         [tunnel |-> k.tunnel, port |-> k.port, client |-> k.client]]
        /\ k.pc = "store" /\ Becomes(k, {[k EXCEPT !.pc = "info"]})
        /\ UNCHANGED <<owner, local>> /\ calm' \in BOOLEAN
    BY <1>6 DEF Store, serverVars
  <2> DEFINE h == [tunnel |-> k.tunnel, port |-> k.port, client |-> k.client]
  <2>2. h \in Handles /\ h.client = k.client
    BY <1>1, <2>1, CreatorFacts, HandleFacts
  <2> HIDE DEF h
  <2>3. /\ tunnels' \in [Names -> Handles \cup {Nil}]
        /\ \A n \in Names : tunnels'[n] # Nil => tunnels'[n].client <= dials
    BY <1>1, <2>1, <2>2 DEF Typed, TypeOK, Shapes, h
  <2>4. /\ creators' \subseteq Creators
        /\ \A l \in creators' : l.client <= dials /\ (l.pc # "listen" => l.port \in Ports)
    <3> DEFINE t == [k EXCEPT !.pc = "info"]
    <3>1. t \in Creators /\ t.client = k.client /\ t.port = k.port
      BY <1>1, CreatorFacts
    <3>2. Becomes(k, {t}) /\ k.port \in Ports
      BY <1>1, <2>1
    <3> HIDE DEF t
    <3> QED BY <1>1, <3>1, <3>2, CreatorsBecome
  <2> QED BY <1>2, <1>3, <2>1, <2>3, <2>4 DEF Typed, TypeOK, Shapes
<1>7. CASE SendTunnelInfo(k)
  <2>1. /\ creators' \subseteq Creators
        /\ \A l \in creators' : l.client <= dials /\ (l.pc # "listen" => l.port \in Ports)
    BY <1>7, CreatorsBecome DEF SendTunnelInfo
  <2>2. local' \in [Ports -> Locals \cup {Nil}]
    BY <1>1, <1>7, CreatorFacts, Fields DEF SendTunnelInfo, TypeOK
  <2> QED BY <1>2, <1>3, <1>7, <2>1, <2>2 DEF SendTunnelInfo, Typed, TypeOK, Shapes
<1> QED BY <1>4, <1>5, <1>6, <1>7 DEF CreateTunnel

-----------------------------------------------------------------------------
(* The steps of a reload: types, and what a loop has after each.           *)

(* Steps of a loop outside the lock.                                       *)
LEMMA OutsideEffect ==
  ASSUME Typed, NEW c \in Clients, LoopEnd(c) \/ TakeReload(c) \/ Load(c)
  PROVE  /\ Typed' /\ ~HasLock(c) /\ ~HasLock(c)'
         /\ \A d \in Clients \ {c} : loop'[d] = loop[d]
<1>1. /\ LoopShapes /\ loop[c] \in LoopStates /\ c \in Nat /\ dials \in Nat
      /\ ~HasLock(c) /\ loop[c].pc # "ended"
  <2>1. LoopShapes /\ loop[c] \in LoopStates /\ c \in Nat /\ dials \in Nat
    BY Facts, Constants DEF Typed, Shapes
  <2> QED BY <2>1 DEF LoopEnd, TakeReload, Load, At, HasLock
<1>2. c <= dials
  BY <1>1, LoopFacts DEF LoopShapes
<1>3. CASE LoopEnd(c)
  <2>1. /\ Goes(c, Ended) /\ UNCHANGED <<file, cfg, reload, reloads, dials, up, main,
                                         tunnels, creators, owner, local, calm>>
    BY <1>3 DEF LoopEnd, connVars, serverVars
  <2>2. /\ LoopShapes' /\ loop'[c] = Ended /\ \A d \in Clients \ {c} : loop'[d] = loop[d]
        /\ \A d \in Clients : loop'[d].pc \in {"idle", "ended", "load", "lock", "range",
                                               "cancel", "close"}
    BY <1>2, <2>1, LoopFacts, GoesOn
  <2>3. ~HasLock(c)'
    BY <2>2, LoopFacts DEF HasLock, At
  <2> QED BY <1>1, <2>1, <2>2, <2>3 DEF Typed, TypeOK, Shapes
<1>4. CASE TakeReload(c)
  <2>1. /\ reload /\ reload' = FALSE /\ reloads' = reloads + 1
        /\ Goes(c, [pc |-> "load", batch |-> reloads + 1])
        /\ UNCHANGED <<file, cfg, dials, up, main, tunnels, creators, owner, local, calm>>
    BY <1>4 DEF TakeReload, serverVars
  <2>2. reloads + 1 \in 1..MaxReloads
    BY <2>1, Facts, Constants DEF Typed, Shapes
  <2>3. PICK t : t = [pc |-> "load", batch |-> reloads + 1]
    OBVIOUS
  <2>4. t \in LoopStates /\ t.pc = "load"
    BY <2>2, <2>3, LoopFacts
  <2>5. /\ LoopShapes' /\ loop'[c] = t /\ \A d \in Clients \ {c} : loop'[d] = loop[d]
        /\ \A d \in Clients : loop'[d].pc \in {"idle", "ended", "load", "lock", "range",
                                               "cancel", "close"}
    BY <1>2, <2>1, <2>3, <2>4, GoesOn
  <2>6. ~HasLock(c)'
    BY <2>4, <2>5 DEF HasLock, At
  <2>7. reloads' \in 0..MaxReloads
    BY <2>1, <2>2, Constants
  <2> QED BY <1>1, <2>1, <2>5, <2>6, <2>7 DEF Typed, TypeOK, Shapes
<1>5. CASE Load(c)
  <2>1. /\ At(c, "load")
        /\ Goes(c, IF file = Broken THEN Idle
                   ELSE [pc |-> "lock", batch |-> loop[c].batch, newCfg |-> file])
        /\ UNCHANGED <<file, cfg, reload, reloads, dials, up, main,
                       tunnels, creators, owner, local, calm>>
    BY <1>5 DEF Load, connVars, serverVars
  <2>2. PICK t : t = IF file = Broken THEN Idle
                     ELSE [pc |-> "lock", batch |-> loop[c].batch, newCfg |-> file]
    OBVIOUS
  <2>3. t \in LoopStates /\ t.pc \in {"idle", "lock"}
    <3>1. file \in Configs \cup {Broken} /\ loop[c].batch \in 1..MaxReloads
      BY <1>1, <2>1, LoopFacts DEF Typed, TypeOK, At
    <3> QED BY <2>2, <3>1, LoopFacts
  <2>4. /\ LoopShapes' /\ loop'[c] = t /\ \A d \in Clients \ {c} : loop'[d] = loop[d]
        /\ \A d \in Clients : loop'[d].pc \in {"idle", "ended", "load", "lock", "range",
                                               "cancel", "close"}
    BY <1>2, <2>1, <2>2, <2>3, GoesOn
  <2>5. ~HasLock(c)'
    BY <2>3, <2>4 DEF HasLock, At
  <2> QED BY <1>1, <2>1, <2>4, <2>5 DEF Typed, TypeOK, Shapes
<1> QED BY <1>3, <1>4, <1>5

LEMMA LockEffect ==
  ASSUME Typed, NEW c \in Clients, Lock(c)
  PROVE  /\ Typed' /\ ~HasLock(c) /\ ~Closing(c)' /\ HasLock(c)' /\ loop'[c].left = Names
         /\ loop'[c].add = DOMAIN loop'[c].newCfg /\ loop'[c].name = Nil
         /\ \A d \in Clients \ {c} : loop'[d] = loop[d]
<1>1. /\ LoopShapes /\ loop[c] \in LoopStates /\ At(c, "lock") /\ c \in Nat /\ dials \in Nat
      /\ ~HasLock(c) /\ loop[c].pc # "ended"
  <2>1. LoopShapes /\ loop[c] \in LoopStates /\ c \in Nat /\ dials \in Nat
    BY Facts, Constants DEF Typed, Shapes
  <2> QED BY <2>1 DEF Lock, At, HasLock
<1>2. c <= dials
  BY <1>1, LoopFacts DEF LoopShapes
<1>3. loop[c].batch \in 1..MaxReloads /\ loop[c].newCfg \in Configs
  BY <1>1, LoopFacts DEF At
<1>4. PICK t : t = [pc |-> "range", batch |-> loop[c].batch, newCfg |-> loop[c].newCfg,
                    left |-> Names, add |-> DOMAIN loop[c].newCfg, name |-> Nil, handle |-> Nil]
  OBVIOUS
<1>5. /\ t \in LockedStates /\ t.pc = "range" /\ t.left = Names /\ t.add = DOMAIN t.newCfg
      /\ t.name = Nil
  BY <1>3, <1>4, LockedStart
<1>6. /\ Goes(c, t) /\ calm' \in BOOLEAN
      /\ UNCHANGED <<file, cfg, reload, reloads, dials, up, main, tunnels, creators, owner, local>>
  BY <1>4 DEF Lock, connVars, serverVars
<1>7. t \in LoopStates
  BY <1>5, LoopFacts
<1>8. /\ LoopShapes' /\ loop'[c] = t /\ \A d \in Clients \ {c} : loop'[d] = loop[d]
      /\ \A d \in Clients : loop'[d].pc \in {"idle", "ended", "load", "lock", "range",
                                             "cancel", "close"}
  BY <1>2, <1>5, <1>6, <1>7, GoesOn
<1>9. HasLock(c)' /\ ~Closing(c)'
  BY <1>5, <1>8 DEF HasLock, Closing, At
<1> QED BY <1>1, <1>5, <1>6, <1>8, <1>9 DEF Typed, TypeOK, Shapes

(* A loop that has the lock.                                               *)
LEMMA Locker ==
  ASSUME Typed, NEW c \in Clients, HasLock(c)
  PROVE  /\ loop[c] \in LockedStates /\ c <= dials /\ loop[c].add \subseteq DOMAIN loop[c].newCfg
         /\ loop[c].left \subseteq Names /\ loop[c].add \subseteq Names /\ loop[c].newCfg \in Configs
<1>1. LoopShapes /\ loop[c] \in LoopStates /\ loop[c].pc \in {"range", "cancel", "close"}
  BY Facts DEF Typed, Shapes, HasLock, At
<1> QED BY <1>1, LoopFacts, LockedFacts DEF LoopShapes

LEMMA KeepEffect ==
  ASSUME Typed, NEW c \in Clients, NEW n \in Names, Keep(c, n)
  PROVE  /\ Typed' /\ HasLock(c) /\ HasLock(c)' /\ ~Closing(c) /\ ~Closing(c)'
         /\ loop'[c].left = loop[c].left \ {n}
         /\ loop'[c].add = IF tunnels[n] = Nil THEN loop[c].add ELSE loop[c].add \ {n}
         /\ loop'[c].newCfg = loop[c].newCfg /\ loop'[c].name = loop[c].name
         /\ \A d \in Clients \ {c} : loop'[d] = loop[d]
<1>1. At(c, "range") /\ HasLock(c) /\ ~Closing(c)
  BY DEF Keep, HasLock, Closing, At
<1>2. /\ loop[c] \in LockedStates /\ c <= dials /\ loop[c].add \subseteq DOMAIN loop[c].newCfg
      /\ loop[c].left \subseteq Names /\ loop[c].add \subseteq Names
  BY <1>1, Locker
<1>3. PICK L, A : /\ L = loop[c].left \ {n}
                  /\ A = IF tunnels[n] = Nil THEN loop[c].add ELSE loop[c].add \ {n}
  OBVIOUS
<1>4. PICK t : t = [loop[c] EXCEPT !.left = L, !.add = A]
  OBVIOUS
<1>5. /\ t \in LockedStates /\ t.left = L /\ t.add = A /\ t.pc = loop[c].pc
      /\ t.newCfg = loop[c].newCfg /\ t.name = loop[c].name
  <2>1. PICK s : s = loop[c]
    OBVIOUS
  <2>2. s \in LockedStates /\ L \in SUBSET Names /\ A \in SUBSET Names
    BY <1>2, <1>3, <2>1
  <2>3. t = [s EXCEPT !.left = L, !.add = A]
    BY <1>4, <2>1
  <2>4. t \in LockedStates /\ t.left = L /\ t.add = A /\ t.pc = s.pc /\ t.newCfg = s.newCfg /\ t.name = s.name
    BY <2>2, <2>3 DEF LockedStates
  <2> QED BY <2>1, <2>4
<1>6. /\ Goes(c, t)
      /\ UNCHANGED <<file, cfg, reload, reloads, dials, up, main,
                     tunnels, creators, owner, local, calm>>
  <2>1. loop[c].left = loop[c].left /\ Goes(c, [loop[c] EXCEPT !.left = @ \ {n},
                             !.add = IF tunnels[n] = Nil THEN @ ELSE @ \ {n}])
    BY DEF Keep
  <2>2. [loop[c] EXCEPT !.left = @ \ {n}, !.add = IF tunnels[n] = Nil THEN @ ELSE @ \ {n}] = t
    BY <1>2, <1>3, <1>4 DEF LockedStates
  <2> QED BY <2>1, <2>2 DEF Keep, connVars, serverVars
<1>7. t \in LoopStates /\ t.pc = "range" /\ t.add \subseteq DOMAIN t.newCfg
  BY <1>1, <1>2, <1>3, <1>5, LoopFacts DEF At
<1>8. /\ LoopShapes' /\ loop'[c] = t /\ \A d \in Clients \ {c} : loop'[d] = loop[d]
      /\ \A d \in Clients : loop'[d].pc \in {"idle", "ended", "load", "lock", "range",
                                             "cancel", "close"}
  BY <1>2, <1>6, <1>7, GoesOn
<1>9. HasLock(c)' /\ ~Closing(c)'
  BY <1>7, <1>8 DEF HasLock, Closing, At
<1>10. Typed'
  BY <1>6, <1>8 DEF Typed, TypeOK, Shapes
<1> QED BY <1>1, <1>3, <1>5, <1>8, <1>9, <1>10

LEMMA CancelPortEffect ==
  ASSUME Typed, NEW c \in Clients, NEW n \in Names, CancelPortForward(c, n)
  PROVE  /\ Typed' /\ HasLock(c) /\ HasLock(c)' /\ ~Closing(c) /\ Closing(c)'
         /\ loop'[c].left = loop[c].left \ {n} /\ loop'[c].add = loop[c].add
         /\ loop'[c].newCfg = loop[c].newCfg /\ loop'[c].name = n /\ loop'[c].handle = tunnels[n]
         /\ tunnels[n] \in Handles
         /\ \A d \in Clients \ {c} : loop'[d] = loop[d]
<1>1. At(c, "range") /\ HasLock(c) /\ ~Closing(c)
  BY DEF CancelPortForward, HasLock, Closing, At
<1>2. /\ loop[c] \in LockedStates /\ c <= dials /\ loop[c].add \subseteq DOMAIN loop[c].newCfg
      /\ loop[c].left \subseteq Names
  BY <1>1, Locker
<1>3. tunnels[n] # Nil /\ tunnels[n] \in Handles /\ tunnels[n].client <= dials
  BY Facts DEF CancelPortForward, Typed, Shapes
<1>4. PICK L : L = loop[c].left \ {n}
  OBVIOUS
<1>5. PICK t : t = [loop[c] EXCEPT !.pc = "cancel", !.left = L, !.name = n, !.handle = tunnels[n]]
  OBVIOUS
<1>6. /\ t \in LockedStates /\ t.left = L /\ t.add = loop[c].add /\ t.pc = "cancel"
      /\ t.newCfg = loop[c].newCfg /\ t.name = n /\ t.handle = tunnels[n]
  <2>1. PICK s, h : s = loop[c] /\ h = tunnels[n]
    OBVIOUS
  <2>2. s \in LockedStates /\ L \in SUBSET Names /\ h \in Handles
    BY <1>2, <1>3, <1>4, <2>1
  <2>3. t = [s EXCEPT !.pc = "cancel", !.left = L, !.name = n, !.handle = h]
    BY <1>5, <2>1
  <2>4. /\ t \in LockedStates /\ t.left = L /\ t.add = s.add /\ t.pc = "cancel"
        /\ t.newCfg = s.newCfg /\ t.name = n /\ t.handle = h
    BY <2>2, <2>3 DEF LockedStates
  <2> QED BY <2>1, <2>4
<1>7. /\ Goes(c, t) /\ Cancel(c, tunnels[n].port)
      /\ UNCHANGED <<file, cfg, reload, reloads, dials, up, main, tunnels, creators, calm>>
  <2>1. Goes(c, [loop[c] EXCEPT !.pc = "cancel", !.left = @ \ {n}, !.name = n, !.handle = tunnels[n]])
    BY DEF CancelPortForward
  <2>2. [loop[c] EXCEPT !.pc = "cancel", !.left = @ \ {n}, !.name = n, !.handle = tunnels[n]] = t
    BY <1>2, <1>4, <1>5 DEF LockedStates
  <2> QED BY <2>1, <2>2 DEF CancelPortForward, connVars
<1>8. t \in LoopStates
  BY <1>6, LoopFacts
<1>9. /\ LoopShapes' /\ loop'[c] = t /\ \A d \in Clients \ {c} : loop'[d] = loop[d]
      /\ \A d \in Clients : loop'[d].pc \in {"idle", "ended", "load", "lock", "range",
                                             "cancel", "close"}
  BY <1>2, <1>3, <1>6, <1>7, <1>8, GoesOn
<1>10. HasLock(c)' /\ Closing(c)'
  BY <1>6, <1>9 DEF HasLock, Closing, At
<1>11. owner' \in [Ports -> 0..dials] /\ local' \in [Ports -> Locals \cup {Nil}]
  BY <1>3, <1>7, Fields, CancelEffect
<1>12. Typed'
  BY <1>7, <1>9, <1>11 DEF Typed, TypeOK, Shapes
<1> QED BY <1>1, <1>3, <1>4, <1>6, <1>9, <1>10, <1>12

LEMMA CloseListenerEffect ==
  ASSUME Typed, NEW c \in Clients, CloseListener(c)
  PROVE  /\ Typed' /\ HasLock(c) /\ HasLock(c)' /\ Closing(c) /\ Closing(c)'
         /\ loop[c].handle \in Handles
         /\ loop'[c].left = loop[c].left /\ loop'[c].add = loop[c].add
         /\ loop'[c].newCfg = loop[c].newCfg /\ loop'[c].name = loop[c].name
         /\ loop'[c].handle = loop[c].handle
         /\ \A d \in Clients \ {c} : loop'[d] = loop[d]
<1>1. At(c, "cancel") /\ HasLock(c) /\ Closing(c)
  BY DEF CloseListener, HasLock, Closing, At
<1>2. /\ loop[c] \in LockedStates /\ c <= dials /\ loop[c].add \subseteq DOMAIN loop[c].newCfg
      /\ loop[c].name \in Names /\ loop[c].handle \in Handles /\ loop[c].handle.client <= dials
  BY <1>1, Locker DEF Typed, Shapes, LoopShapes
<1>3. PICK t : t = [loop[c] EXCEPT !.pc = "close"]
  OBVIOUS
<1>4. /\ t \in LockedStates /\ t.left = loop[c].left /\ t.add = loop[c].add /\ t.pc = "close"
      /\ t.newCfg = loop[c].newCfg /\ t.name = loop[c].name /\ t.handle = loop[c].handle
  BY <1>2, <1>3, LockedCloses
<1>5. /\ Goes(c, t) /\ Cancel(loop[c].handle.client, loop[c].handle.port)
      /\ UNCHANGED <<file, cfg, reload, reloads, dials, up, main, tunnels, creators, calm>>
  BY <1>3 DEF CloseListener, connVars
<1>6. t \in LoopStates
  BY <1>4, LoopFacts
<1>7. /\ LoopShapes' /\ loop'[c] = t /\ \A d \in Clients \ {c} : loop'[d] = loop[d]
      /\ \A d \in Clients : loop'[d].pc \in {"idle", "ended", "load", "lock", "range",
                                             "cancel", "close"}
  BY <1>2, <1>4, <1>5, <1>6, GoesOn
<1>8. HasLock(c)' /\ Closing(c)'
  BY <1>4, <1>7 DEF HasLock, Closing, At
<1>9. owner' \in [Ports -> 0..dials] /\ local' \in [Ports -> Locals \cup {Nil}]
  BY <1>2, <1>5, Fields, CancelEffect
<1>10. Typed'
  BY <1>5, <1>7, <1>9 DEF Typed, TypeOK, Shapes
<1> QED BY <1>1, <1>2, <1>4, <1>7, <1>8, <1>10

LEMMA DeleteEffect ==
  ASSUME Typed, NEW c \in Clients, DeleteTunnel(c)
  PROVE  /\ Typed' /\ HasLock(c) /\ HasLock(c)' /\ Closing(c) /\ ~Closing(c)'
         /\ loop[c].name \in Names
         /\ tunnels' = [tunnels EXCEPT ![loop[c].name] = Nil]
         /\ loop'[c].left = loop[c].left /\ loop'[c].add = loop[c].add
         /\ loop'[c].newCfg = loop[c].newCfg /\ loop'[c].name = Nil
         /\ \A d \in Clients \ {c} : loop'[d] = loop[d]
<1>1. At(c, "close") /\ HasLock(c) /\ Closing(c)
  BY DEF DeleteTunnel, HasLock, Closing, At
<1>2. /\ loop[c] \in LockedStates /\ c <= dials /\ loop[c].add \subseteq DOMAIN loop[c].newCfg
      /\ loop[c].name \in Names
  BY <1>1, Locker DEF Typed, Shapes, LoopShapes
<1>3. PICK t : t = [loop[c] EXCEPT !.pc = "range", !.name = Nil, !.handle = Nil]
  OBVIOUS
<1>4. /\ t \in LockedStates /\ t.left = loop[c].left /\ t.add = loop[c].add /\ t.pc = "range"
      /\ t.newCfg = loop[c].newCfg /\ t.name = Nil
  BY <1>2, <1>3, LockedCloses
<1>5. /\ Goes(c, t) /\ tunnels' = [tunnels EXCEPT ![loop[c].name] = Nil]
      /\ UNCHANGED <<file, cfg, reload, reloads, dials, up, main, creators, owner, local, calm>>
  BY <1>3 DEF DeleteTunnel, connVars, serverVars
<1>6. t \in LoopStates
  BY <1>4, LoopFacts
<1>7. /\ LoopShapes' /\ loop'[c] = t /\ \A d \in Clients \ {c} : loop'[d] = loop[d]
      /\ \A d \in Clients : loop'[d].pc \in {"idle", "ended", "load", "lock", "range",
                                             "cancel", "close"}
  BY <1>2, <1>4, <1>5, <1>6, GoesOn
<1>8. HasLock(c)' /\ ~Closing(c)'
  BY <1>4, <1>7 DEF HasLock, Closing, At
<1>9. /\ tunnels' \in [Names -> Handles \cup {Nil}]
      /\ \A n \in Names : tunnels'[n] # Nil => tunnels'[n].client <= dials
  BY <1>2, <1>5 DEF Typed, TypeOK, Shapes
<1>10. Typed'
  BY <1>5, <1>7, <1>9 DEF Typed, TypeOK, Shapes
<1> QED BY <1>1, <1>2, <1>4, <1>5, <1>7, <1>8, <1>10

(* S are the goroutines that a reload starts at its end.                   *)
Starts(c, S) ==
  /\ creators' = creators \cup S
  /\ \A k \in S : /\ k.client = c /\ k.pc = "listen"
                  /\ k.name \in loop[c].add /\ k.tunnel = cfg'[k.name]
  /\ \A n \in loop[c].add : \E k \in S : k.name = n
  /\ \A k, l \in S : k.name = l.name => k = l

LEMMA ApplyEffect ==
  ASSUME Typed, NEW c \in Clients, Apply(c)
  PROVE  /\ Typed' /\ HasLock(c) /\ ~HasLock(c)' /\ ~Closing(c)
         /\ loop[c].left = {} /\ cfg' = loop[c].newCfg /\ cfg' \in Configs
         /\ \A d \in Clients \ {c} : loop'[d] = loop[d]
         /\ \E S : Starts(c, S)
<1>1. At(c, "range") /\ HasLock(c) /\ ~Closing(c) /\ loop[c].left = {}
  BY DEF Apply, HasLock, Closing, At
<1>2. /\ loop[c] \in LockedStates /\ c <= dials /\ loop[c].add \subseteq DOMAIN loop[c].newCfg
      /\ loop[c].add \subseteq Names /\ loop[c].newCfg \in Configs
      /\ loop[c].batch \in 1..MaxReloads
  BY <1>1, Locker, LockedFacts
<1>3. PICK f : f = [n \in loop[c].add |-> loop[c].newCfg[n]]
  OBVIOUS
<1>4. PICK b, S : b = loop[c].batch /\ S = Spawned(c, b, f)
  OBVIOUS
<1>5. DOMAIN f = loop[c].add /\ \A n \in DOMAIN f : f[n] = loop[c].newCfg[n] /\ f[n] \in Tunnel
  BY <1>2, <1>3, ConfigFacts
<1>6. b \in 0..MaxReloads
  BY <1>2, <1>4
<1>7. /\ S \subseteq Creators
      /\ \A k \in S : k.client = c /\ k.pc = "listen" /\ k.name \in DOMAIN f /\ k.tunnel = f[k.name]
      /\ \A n \in DOMAIN f : \E k \in S : k.name = n
      /\ \A k, l \in S : k.name = l.name => k = l
  BY <1>2, <1>4, <1>5, <1>6, SpawnedFacts
<1>8. /\ Goes(c, Idle) /\ cfg' = loop[c].newCfg /\ creators' = creators \cup S
      /\ UNCHANGED <<file, reload, reloads, dials, up, main, tunnels, owner, local, calm>>
  BY <1>3, <1>4 DEF Apply, connVars, serverVars
<1>9. /\ LoopShapes' /\ loop'[c] = Idle /\ \A d \in Clients \ {c} : loop'[d] = loop[d]
      /\ \A d \in Clients : loop'[d].pc \in {"idle", "ended", "load", "lock", "range",
                                             "cancel", "close"}
  BY <1>2, <1>8, LoopFacts, GoesOn
<1>10. ~HasLock(c)'
  BY <1>9, LoopFacts DEF HasLock, At
<1>11. Typed'
  <2>1. \A k \in S : k \in Creators /\ k.client <= dials /\ k.pc = "listen"
    BY <1>2, <1>7
  <2>2. TypeOK'
    BY <1>2, <1>8, <1>9, <2>1 DEF Typed, TypeOK
  <2>3. Shapes'
    BY <1>8, <1>9, <2>1 DEF Typed, Shapes
  <2> QED BY <2>2, <2>3 DEF Typed
<1>12. \A k \in S : k.name \in loop[c].add /\ k.tunnel = cfg'[k.name]
  BY <1>5, <1>7, <1>8
<1>13. Starts(c, S)
  BY <1>5, <1>7, <1>8, <1>12 DEF Starts
<1> QED BY <1>1, <1>2, <1>8, <1>9, <1>10, <1>11, <1>13

LEMMA ReloadTypes ==
  ASSUME Typed, NEW c \in Clients, ReloadStep(c)
  PROVE  Typed'
BY OutsideEffect, LockEffect, KeepEffect, CancelPortEffect, CloseListenerEffect, DeleteEffect,
   ApplyEffect DEF ReloadStep

LEMMA TypedInit == Init => Typed
<1> SUFFICES ASSUME Init PROVE Typed
  OBVIOUS
<1>1. 0 \in 0..MaxReloads /\ 0 \in 0..MaxDials /\ 0 \in 0..0
  BY Constants
<1>2. TypeOK
  BY <1>1, LoopFacts DEF Init, TypeOK, Leases!Init
<1>3. Shapes
  BY LoopFacts DEF Init, Shapes, LoopShapes, HasLock, Closing, At
<1> QED BY <1>2, <1>3 DEF Typed

LEMMA TypedStep == Typed /\ [Next]_vars => Typed'
<1> SUFFICES ASSUME Typed, [Next]_vars PROVE Typed'
  OBVIOUS
<1>1. CASE Dial \/ StartStep \/ Lose \/ Edit \/ TriggerReload
  BY <1>1, StartTypes
<1>2. ASSUME NEW c \in Clients, Sweep(c) \/ ReloadStep(c) PROVE Typed'
  BY <1>2, SweepTypes, ReloadTypes
<1>3. ASSUME NEW k \in creators, CreateTunnel(k) PROVE Typed'
  BY <1>3, CreateTypes
<1>4. CASE UNCHANGED vars
  BY <1>4 DEF vars, connVars, serverVars, Typed, TypeOK, Shapes, LoopShapes, HasLock, Closing, At
<1> QED BY <1>1, <1>2, <1>3, <1>4 DEF Next

(* Every variable of the client and the server stays within its type, and  *)
(* nothing is of an SSH client that has not been dialled: the owner of a   *)
(* port is at most dials.                                                  *)
THEOREM ClientTypes == Spec => []TypeOK
<1>1. Typed => TypeOK
  BY DEF Typed
<1> QED BY <1>1, TypedInit, TypedStep, PTL DEF Spec

-----------------------------------------------------------------------------
(* What is true of the current connection as long as nothing was refused   *)
(* or overlapped.                                                          *)

(* A new connection has nothing yet at the server or in the client.        *)
Fresh ==
  /\ \A p \in Ports : owner[p] # dials
  /\ \A k \in creators : k.client # dials
  /\ \A n \in Names : tunnels[n] # Nil => tunnels[n].client # dials
  /\ \A c \in Clients : Closing(c) => loop[c].handle.client # dials
  /\ ~HasLock(dials)

(* Goroutines and handles of the current connection, and the name that a   *)
(* port of it serves.                                                      *)
Mine(k) == k \in creators /\ k.client = dials
Has(n)  == tunnels[n] # Nil /\ tunnels[n].client = dials
Uses(n, p) == \/ Has(n) /\ tunnels[n].port = p
              \/ \E k \in creators : Mine(k) /\ k.pc = "store" /\ k.name = n /\ k.port = p

Fits(t, p) == t.RemotePort \in {AnyPort, p}

(* While no reload has the lock, every tunnel of the configuration is open *)
(* or about to be, and nothing else is.                                    *)
MineFit ==
  \A k \in creators : Mine(k) =>
    /\ k.name \in DOMAIN cfg /\ k.tunnel = cfg[k.name]
    /\ k.pc = "info" <=> Has(k.name)
    /\ k.pc = "store" => Fits(k.tunnel, k.port)
    /\ k.pc = "info" => tunnels[k.name].port = k.port

HasFit ==
  \A n \in Names : Has(n) =>
    /\ n \in DOMAIN cfg /\ tunnels[n].tunnel = cfg[n] /\ Fits(cfg[n], tunnels[n].port)
    /\ \/ local[tunnels[n].port] = cfg[n].Local
       \/ \E k \in creators : Mine(k) /\ k.name = n

Opening ==
  /\ MineFit /\ HasFit
  /\ \A k, l \in creators : Mine(k) /\ Mine(l) /\ k.name = l.name => k = l
  /\ \A n \in DOMAIN cfg : Has(n) \/ \E k \in creators : Mine(k) /\ k.name = n
  /\ \A p \in Ports : owner[p] = dials <=> \E n \in Names : Uses(n, p)
  /\ \A p \in Ports, n, m \in Names : Uses(n, p) /\ Uses(m, p) => n = m

(* A tunnel that the reload has not closed.                                *)
Alive(n) == tunnels[n] # Nil /\ n # loop[dials].name

(* While a reload has the lock, a tunnel is as the old configuration had   *)
(* it, or kept because the new one has it as well, or closed and, if the   *)
(* new one has it in another form, in newTunnels.                          *)
Noted(n) ==
  LET l == loop[dials]
  IN IF Alive(n) /\ n \notin l.left
     THEN n \notin l.add /\ n \in DOMAIN l.newCfg /\ tunnels[n].tunnel = l.newCfg[n]
     ELSE n \in l.add <=> n \in DOMAIN l.newCfg

Replacing ==
  /\ creators = {}
  /\ \A n \in Names : tunnels[n] # Nil => tunnels[n].client = dials
  /\ \A n \in Names : Alive(n) => /\ Fits(tunnels[n].tunnel, tunnels[n].port)
                                  /\ local[tunnels[n].port] = tunnels[n].tunnel.Local
  /\ \A p \in Ports : owner[p] = dials <=> \E n \in Names : Alive(n) /\ tunnels[n].port = p
  /\ \A n, m \in Names : Alive(n) /\ Alive(m) /\ tunnels[n].port = tunnels[m].port => n = m
  /\ IF Closing(dials) THEN loop[dials].name \notin loop[dials].left /\ owner[loop[dials].handle.port] # dials
                       ELSE loop[dials].name = Nil
  /\ \A n \in Names : Noted(n)

Waiting ==
  /\ \A c \in Clients : HasLock(c) => c = dials
  /\ HasLock(dials) => Replacing
  /\ ~HasLock(dials) => Opening

CalmInv == calm /\ up => IF main = "wait" THEN Waiting ELSE Fresh

CInv == Typed /\ CalmInv

(* A step that leaves the current connection alone.                        *)
LEMMA OpeningKept ==
  ASSUME Opening, UNCHANGED <<cfg, dials, tunnels>>,
         \A k : Mine(k)' <=> Mine(k),
         \A p \in Ports : owner'[p] = dials <=> owner[p] = dials,
         \A p \in Ports : owner[p] = dials => local'[p] = local[p],
         \A n \in Names : tunnels[n] # Nil => tunnels[n] \in Handles
  PROVE  Opening'
<1>1. \A n : Has(n)' <=> Has(n)
  BY DEF Has
<1>2. \A n, p : Uses(n, p)' <=> Uses(n, p)
  BY <1>1 DEF Uses, Mine
<1>3. MineFit'
  BY <1>1 DEF Opening, MineFit, Mine
<1>4. ASSUME NEW n \in Names, Has(n)
      PROVE  local'[tunnels[n].port] = local[tunnels[n].port]
  BY <1>4, Fields DEF Opening, Uses, Has
<1>5. \A n : (\E k \in creators : Mine(k) /\ k.name = n) <=> (\E k \in creators' : Mine(k)' /\ k.name = n)
  BY DEF Mine
<1>6. HasFit'
  BY <1>1, <1>4, <1>5 DEF Opening, HasFit
<1>7. (\A k, l \in creators : Mine(k) /\ Mine(l) /\ k.name = l.name => k = l)'
  BY DEF Opening, Mine
<1>8. (\A n \in DOMAIN cfg : Has(n) \/ \E k \in creators : Mine(k) /\ k.name = n)'
  BY <1>1, <1>5 DEF Opening
<1>9. /\ (\A p \in Ports : owner[p] = dials <=> \E n \in Names : Uses(n, p))'
      /\ (\A p \in Ports, n, m \in Names : Uses(n, p) /\ Uses(m, p) => n = m)'
  BY <1>2 DEF Opening
<1> QED BY <1>3, <1>6, <1>7, <1>8, <1>9 DEF Opening

LEMMA ReplacingKept ==
  ASSUME Replacing, UNCHANGED <<dials, tunnels, creators>>, loop'[dials] = loop[dials], dials \in Clients,
         \A p \in Ports : owner'[p] = dials <=> owner[p] = dials,
         \A p \in Ports : owner[p] = dials => local'[p] = local[p],
         \A n \in Names : tunnels[n] # Nil => tunnels[n] \in Handles,
         Closing(dials) => loop[dials].handle \in Handles
  PROVE  Replacing'
<1>1. \A n : Alive(n)' <=> Alive(n)
  BY DEF Alive
<1>2. \A n \in Names : Noted(n)'
  BY <1>1 DEF Replacing, Noted
<1>3. ASSUME NEW n \in Names, Alive(n)
      PROVE  local'[tunnels[n].port] = local[tunnels[n].port]
  BY <1>3, Fields DEF Replacing, Alive
<1>4. Closing(dials)' <=> Closing(dials)
  BY DEF Closing, At
<1>5. (\A n \in Names : Alive(n) => /\ Fits(tunnels[n].tunnel, tunnels[n].port)
                                    /\ local[tunnels[n].port] = tunnels[n].tunnel.Local)'
  BY <1>1, <1>3 DEF Replacing, Fits
<1>6. (IF Closing(dials) THEN loop[dials].name \notin loop[dials].left /\ owner[loop[dials].handle.port] # dials
                         ELSE loop[dials].name = Nil)'
  BY <1>4, Fields DEF Replacing
<1> QED BY <1>1, <1>2, <1>5, <1>6 DEF Replacing

LEMMA Kept ==
  ASSUME CInv, up' => up, calm' => calm, UNCHANGED <<cfg, dials, main, tunnels>>,
         \A k : Mine(k)' <=> Mine(k), creators' \subseteq creators,
         \A p \in Ports : owner'[p] = dials <=> owner[p] = dials,
         \A p \in Ports : owner[p] = dials => local'[p] = local[p],
         \A c \in Clients : (HasLock(c)' <=> HasLock(c)) /\ (HasLock(c) => loop'[c] = loop[c])
  PROVE  CalmInv'
<1> SUFFICES ASSUME calm', up' PROVE IF main' = "wait" THEN Waiting' ELSE Fresh'
  BY DEF CalmInv
<1>1. /\ calm /\ up /\ dials \in Clients
      /\ \A n \in Names : tunnels[n] # Nil => tunnels[n] \in Handles
  BY Facts DEF CInv
<1>2. HasLock(dials)' <=> HasLock(dials)
  BY <1>1 DEF HasLock, At
<1>3. \A c : Closing(c) => c \in Clients /\ HasLock(c)
  BY DEF Closing, HasLock, At
<1>4. \A c \in Clients : Closing(c)' => Closing(c) /\ loop'[c] = loop[c]
  BY DEF Closing, HasLock, At
<1>5. CASE main = "wait"
  <2>1. Waiting
    BY <1>1, <1>5 DEF CInv, CalmInv
  <2>2. CASE HasLock(dials)
    <3>1. Closing(dials) => loop[dials].handle \in Handles
      BY <1>3 DEF CInv, Typed, Shapes, LoopShapes
    <3>2. Replacing' 
      <4>1. creators = {} /\ creators' = creators /\ Replacing
        BY <2>1, <2>2 DEF Waiting, Replacing
      <4> QED BY <1>1, <2>2, <3>1, <4>1, ReplacingKept
    <3> QED BY <1>1, <1>2, <1>5, <2>1, <2>2, <3>2 DEF Waiting
  <2>3. CASE ~HasLock(dials)
    <3>1. Opening'
      BY <1>1, <2>1, <2>3, OpeningKept DEF Waiting
    <3> QED BY <1>1, <1>2, <1>5, <2>1, <2>3, <3>1 DEF Waiting
  <2> QED BY <2>2, <2>3
<1>6. CASE main # "wait"
  <2>1. Fresh
    BY <1>1, <1>6 DEF CInv, CalmInv
  <2>2. \A k \in creators' : k.client # dials
    BY <2>1 DEF Fresh
  <2>3. Fresh'
    BY <1>2, <1>4, <2>1, <2>2 DEF Fresh
  <2> QED BY <1>6, <2>3
<1> QED BY <1>5, <1>6

LEMMA StartCalm ==
  ASSUME CInv, Dial \/ StartStep \/ Lose \/ Edit \/ TriggerReload
  PROVE  CalmInv'
<1> SUFFICES ASSUME calm', up' PROVE IF main' = "wait" THEN Waiting' ELSE Fresh'
  BY DEF CalmInv
<1>1. /\ Typed /\ LoopShapes /\ dials \in Nat /\ owner \in [Ports -> 0..dials]
  BY Facts DEF CInv, Typed, Shapes
<1>2. CASE Dial
  <2>1. /\ dials' = dials + 1 /\ main' = "info"
        /\ UNCHANGED <<loop, tunnels, creators, owner>>
    BY <1>2 DEF Dial, serverVars
  <2>2. \A x \in Nat : x <= dials => x # dials'
    BY <1>1, <2>1
  <2>3. \A p \in Ports : owner'[p] # dials'
    BY <1>1, <2>1, <2>2
  <2>4. \A k \in creators' : k.client # dials'
    BY <1>1, <2>1, <2>2, CreatorFacts, Constants DEF Typed, TypeOK, Shapes
  <2>5. \A n \in Names : tunnels'[n] # Nil => tunnels'[n].client # dials'
    BY <1>1, <2>1, <2>2, Facts, Fields, Constants DEF Typed, Shapes
  <2>6. \A c \in Clients : Closing(c)' => loop'[c].handle.client # dials'
    BY <1>1, <2>1, <2>2, Fields, Constants DEF LoopShapes, Closing, At
  <2>7. ASSUME HasLock(dials)' PROVE FALSE
    <3>1. dials' \in Clients /\ HasLock(dials')
      BY <2>1, <2>7 DEF HasLock, At
    <3>2. dials' <= dials
      BY <1>1, <3>1, Locker
    <3> QED BY <1>1, <2>2, <3>1, <3>2, Constants
  <2> QED BY <2>1, <2>3, <2>4, <2>5, <2>6, <2>7 DEF Fresh
<1>3. CASE InfoFails \/ Reconnect \/ Lose
  BY <1>3 DEF InfoFails, Reconnect, Lose
<1>4. CASE Begin
  <2>1. /\ main = "info" /\ up /\ main' = "open" /\ Goes(dials, Idle)
        /\ UNCHANGED <<cfg, dials, tunnels, creators, owner, local, calm>>
    BY <1>4 DEF Begin, serverVars, Goes
  <2>2. Fresh /\ dials \in Clients
    BY <1>1, <2>1, Facts DEF CInv, CalmInv
  <2>3. loop'[dials] = Idle /\ \A c \in Clients \ {dials} : loop'[c] = loop[c]
    BY <1>1, <2>1, <2>2 DEF Goes, LoopShapes
  <2>4. \A c \in Clients : Closing(c)' => Closing(c) /\ loop'[c] = loop[c]
    BY <2>3, LoopFacts DEF Closing, At
  <2>5. ~HasLock(dials)'
    BY <2>1, <2>3, LoopFacts DEF HasLock, At
  <2> QED BY <2>1, <2>2, <2>4, <2>5 DEF Fresh
<1>5. CASE OpenTunnels
  <2>1. /\ main = "open" /\ up /\ calm /\ main' = "wait" /\ \A c \in Clients : ~Busy(c)
        /\ creators' = creators \cup Spawned(dials, 0, cfg)
        /\ UNCHANGED <<cfg, dials, loop, tunnels, owner, local>>
    BY <1>5 DEF OpenTunnels, serverVars
  <2>2. Fresh /\ dials \in Clients /\ cfg \in Configs /\ 0 \in 0..MaxReloads /\ dials > 0
    BY <1>1, <2>1, Facts, Constants DEF CInv, CalmInv, Typed, TypeOK
  <2>3. PICK S : S = Spawned(dials, 0, cfg)
    OBVIOUS
  <2>4. /\ \A k \in S : /\ k.client = dials /\ k.pc = "listen"
                        /\ k.name \in DOMAIN cfg /\ k.tunnel = cfg[k.name]
        /\ \A n \in DOMAIN cfg : \E k \in S : k.name = n
        /\ \A k, l \in S : k.name = l.name => k = l
    BY <2>2, <2>3, ConfigFacts, SpawnedFacts
  <2>5. \A c \in Clients : ~HasLock(c)'
    BY <2>1, LoopFacts DEF Busy, HasLock, At
  <2>6. \A n \in Names : ~Has(n)'
    BY <2>1, <2>2 DEF Fresh, Has
  <2>7. \A k \in creators' : Mine(k)' <=> k \in S
    BY <2>1, <2>2, <2>3, <2>4 DEF Fresh, Mine
  <2>8. DOMAIN cfg \subseteq Names
    BY <2>2, ConfigFacts
  <2>9. MineFit'
    BY <2>1, <2>4, <2>6, <2>7, <2>8 DEF MineFit
  <2>10. HasFit'
    BY <2>6 DEF HasFit
  <2>11. (\A k, l \in creators : Mine(k) /\ Mine(l) /\ k.name = l.name => k = l)'
    BY <2>4, <2>7
  <2>12. (\A n \in DOMAIN cfg : Has(n) \/ \E k \in creators : Mine(k) /\ k.name = n)'
    <3>1. \A k \in S : k \in creators' /\ Mine(k)'
      BY <2>1, <2>3, <2>7
    <3> QED BY <2>1, <2>4, <3>1
  <2>13. \A n \in Names, p \in Ports : ~Uses(n, p)'
    BY <2>4, <2>6, <2>7 DEF Uses
  <2>14. Opening'
    BY <2>1, <2>2, <2>9, <2>10, <2>11, <2>12, <2>13 DEF Opening, Fresh
  <2>15. dials' \in Clients
    BY <2>1, <2>2
  <2> QED BY <2>1, <2>5, <2>14, <2>15 DEF Waiting
<1>6. CASE Edit \/ TriggerReload
  <2>1. UNCHANGED <<cfg, dials, up, main, loop, tunnels, creators, owner, local, calm>>
    BY <1>6 DEF Edit, TriggerReload, connVars, serverVars
  <2>2. CalmInv'
    BY <2>1, Kept DEF Mine, HasLock, At
  <2> QED BY <2>2 DEF CalmInv
<1> QED BY <1>2, <1>3, <1>4, <1>5, <1>6 DEF StartStep

LEMMA SweepCalm ==
  ASSUME CInv, NEW c \in Clients, Sweep(c)
  PROVE  CalmInv'
<1> SUFFICES ASSUME up' PROVE CalmInv'
  BY DEF CalmInv
<1>1. /\ ~Live(c) /\ UNCHANGED <<cfg, dials, up, main, loop, tunnels, creators, calm>>
  BY DEF Sweep, connVars
<1>2. /\ c # dials
      /\ \A p \in Ports : IF owner[p] = c THEN owner'[p] = 0
                          ELSE owner'[p] = owner[p] /\ local'[p] = local[p]
  BY <1>1, SweepEffect DEF CInv, Live
<1>3. dials > 0
  BY <1>1, Facts, Constants DEF CInv
<1>4. /\ \A p \in Ports : owner'[p] = dials <=> owner[p] = dials
      /\ \A p \in Ports : owner[p] = dials => local'[p] = local[p]
  BY <1>2, <1>3
<1> QED BY <1>1, <1>4, Kept DEF Mine, HasLock, At

(* A goroutine of a connection that is gone.                               *)
LEMMA LateCreator ==
  ASSUME CInv, NEW k \in creators, CreateTunnel(k), k.client # dials
  PROVE  CalmInv'
<1> SUFFICES ASSUME calm' PROVE CalmInv'
  BY DEF CalmInv
<1>1. ~Live(k.client)
  BY DEF Live
<1>2. ListenFails(k) \/ SendTunnelInfo(k)
  BY <1>1 DEF CreateTunnel, Listen, Store
<1>3. /\ Becomes(k, {}) /\ (calm' => calm) /\ UNCHANGED <<cfg, dials, up, main, loop, tunnels, owner, local>>
  BY <1>1, <1>2 DEF ListenFails, SendTunnelInfo, connVars, serverVars
<1>4. creators' \subseteq creators /\ \A l : Mine(l)' <=> Mine(l)
  BY <1>3 DEF Becomes, Mine
<1> QED BY <1>3, <1>4, Kept DEF HasLock, At

(* A goroutine of the current connection works while no reload does.       *)
LEMMA OwnCreator ==
  ASSUME CInv, calm, up, NEW k \in creators, Mine(k)
  PROVE  /\ main = "wait" /\ Opening /\ dials \in Clients /\ dials > 0
         /\ \A c \in Clients : ~HasLock(c)
<1>1. dials \in Clients /\ dials > 0
  BY Facts, Constants DEF CInv
<1>2. main = "wait"
  BY DEF CInv, CalmInv, Fresh, Mine
<1>3. Waiting
  BY <1>2 DEF CInv, CalmInv
<1>4. ~HasLock(dials)
  BY <1>3 DEF Waiting, Replacing
<1> QED BY <1>1, <1>2, <1>3, <1>4 DEF Waiting

(* It goes on as t, which has the same name.                               *)
LEMMA OneFewer ==
  ASSUME CInv, Opening, NEW k \in creators, Mine(k), NEW t, t.client = k.client, t.name = k.name,
         t.pc # k.pc, Becomes(k, {t}), dials' = dials
  PROVE  /\ \A l : l \in creators' /\ Mine(l)' <=> (l \in creators /\ Mine(l) /\ l # k) \/ l = t
         /\ \A l \in creators : Mine(l) /\ l # k => l.name # k.name
         /\ (\A l, m \in creators : Mine(l) /\ Mine(m) /\ l.name = m.name => l = m)'
         /\ \A n : (\E l \in creators : Mine(l) /\ l.name = n)' <=> \E l \in creators : Mine(l) /\ l.name = n
<1>1. \A l : l \in creators' /\ Mine(l)' <=> (l \in creators /\ Mine(l) /\ l # k) \/ l = t
  BY DEF Becomes, Mine
<1>2. \A l \in creators : Mine(l) /\ l # k => l.name # k.name
  BY DEF Opening
<1>3. (\A l, m \in creators : Mine(l) /\ Mine(m) /\ l.name = m.name => l = m)'
  <2> SUFFICES ASSUME NEW l \in creators', NEW m \in creators', Mine(l)', Mine(m)', l.name = m.name
               PROVE  l = m
    OBVIOUS
  <2> QED BY <1>1, <1>2 DEF Opening
<1>4. \A n : (\E l \in creators : Mine(l) /\ l.name = n)' <=> \E l \in creators : Mine(l) /\ l.name = n
  BY <1>1
<1> QED BY <1>1, <1>2, <1>3, <1>4

LEMMA OwnListen ==
  ASSUME CInv, calm, up, NEW k \in creators, Mine(k), Listen(k)
  PROVE  Opening'
<1>1. /\ Opening /\ dials \in Clients /\ dials > 0 /\ k \in Creators /\ k.tunnel \in Tunnel
      /\ k.pc = "listen" /\ k.client = dials /\ UNCHANGED <<cfg, dials, tunnels, local>>
  BY OwnCreator, Facts, CreatorFacts DEF CInv, Listen, Mine, connVars
<1>2. PICK p \in Wanted(k) : /\ Leases!Grant(k.client, p)
                             /\ Becomes(k, {[k EXCEPT !.pc = "store", !.port = p]})
  BY DEF Listen
<1>3. p \in Ports /\ Fits(k.tunnel, p)
  BY <1>1, Fields DEF Wanted, Fits
<1>4. owner[p] = 0 /\ owner'[p] = dials /\ \A q \in Ports \ {p} : owner'[q] = owner[q]
  <2>1. Typed /\ k.client \in Clients /\ k.client <= dials
    BY <1>1, CreatorFacts, Constants DEF CInv
  <2> QED BY <1>1, <1>2, <1>3, <2>1, LeaseEffect
<1>5. PICK t : t = [k EXCEPT !.pc = "store", !.port = p]
  OBVIOUS
<1>6. t.client = dials /\ t.name = k.name /\ t.tunnel = k.tunnel /\ t.pc = "store" /\ t.port = p
  BY <1>1, <1>3, <1>5, ListenedFacts
<1>7. Becomes(k, {t})
  BY <1>2, <1>5
<1>8. /\ \A l : l \in creators' /\ Mine(l)' <=> (l \in creators /\ Mine(l) /\ l # k) \/ l = t
      /\ \A l \in creators : Mine(l) /\ l # k => l.name # k.name
      /\ (\A l, m \in creators : Mine(l) /\ Mine(m) /\ l.name = m.name => l = m)'
      /\ \A n : (\E l \in creators : Mine(l) /\ l.name = n)' <=> \E l \in creators : Mine(l) /\ l.name = n
  BY <1>1, <1>6, <1>7, OneFewer
<1>9. \A n : Has(n)' <=> Has(n)
  BY <1>1 DEF Has
<1>10. k.name \in DOMAIN cfg /\ k.name \in Names /\ k.tunnel = cfg[k.name] /\ ~Has(k.name)
  BY <1>1, CreatorFacts DEF Opening, MineFit
<1>11. MineFit'
  BY <1>1, <1>3, <1>6, <1>8, <1>9, <1>10 DEF Opening, MineFit
<1>12. HasFit'
  BY <1>1, <1>8, <1>9 DEF Opening, HasFit
<1>13. (\A n \in DOMAIN cfg : Has(n) \/ \E l \in creators : Mine(l) /\ l.name = n)'
  BY <1>1, <1>8, <1>9 DEF Opening
<1>14. \A n \in Names, q \in Ports : Uses(n, q)' <=> Uses(n, q) \/ (n = k.name /\ q = p)
  BY <1>1, <1>6, <1>8, <1>9 DEF Uses
<1>15. /\ \A n \in Names : ~Uses(n, p)
       /\ \A q \in Ports : ~Uses(k.name, q)
  BY <1>1, <1>3, <1>4, <1>8, <1>10 DEF Opening, Uses
<1>16. (\A q \in Ports : owner[q] = dials <=> \E n \in Names : Uses(n, q))'
  BY <1>1, <1>3, <1>4, <1>10, <1>14 DEF Opening
<1>17. (\A q \in Ports, n, m \in Names : Uses(n, q) /\ Uses(m, q) => n = m)'
  BY <1>1, <1>14, <1>15 DEF Opening
<1> QED BY <1>8, <1>11, <1>12, <1>13, <1>16, <1>17 DEF Opening

LEMMA OwnStore ==
  ASSUME CInv, calm, up, NEW k \in creators, Mine(k), Store(k)
  PROVE  Opening'
<1>1. /\ Opening /\ k \in Creators /\ k.tunnel \in Tunnel /\ k.name \in Names /\ dials \in Clients
      /\ k.pc = "store" /\ k.client = dials /\ UNCHANGED <<cfg, dials, owner, local>>
  BY OwnCreator, Facts, CreatorFacts DEF CInv, Store, Mine, connVars, serverVars
<1>2. PICK h : h = [tunnel |-> k.tunnel, port |-> k.port, client |-> k.client]
  OBVIOUS
<1>3. h # Nil /\ h.tunnel = k.tunnel /\ h.port = k.port /\ h.client = dials
  <2>1. k.port \in Ports
    BY <1>1 DEF CInv, Typed, Shapes
  <2> QED BY <1>1, <1>2, <2>1, HandleFacts
<1>4. tunnels'[k.name] = h /\ \A n \in Names \ {k.name} : tunnels'[n] = tunnels[n]
  BY <1>1, <1>2 DEF Store, CInv, Typed, TypeOK
<1>5. PICK t : t = [k EXCEPT !.pc = "info"]
  OBVIOUS
<1>6. /\ t.client = dials /\ t.name = k.name /\ t.tunnel = k.tunnel /\ t.pc = "info"
      /\ t.port = k.port
  BY <1>1, <1>5, CreatorFacts
<1>7. Becomes(k, {t})
  BY <1>5 DEF Store
<1>8. /\ \A l : l \in creators' /\ Mine(l)' <=> (l \in creators /\ Mine(l) /\ l # k) \/ l = t
      /\ \A l \in creators : Mine(l) /\ l # k => l.name # k.name
      /\ (\A l, m \in creators : Mine(l) /\ Mine(m) /\ l.name = m.name => l = m)'
      /\ \A n : (\E l \in creators : Mine(l) /\ l.name = n)' <=> \E l \in creators : Mine(l) /\ l.name = n
  BY <1>1, <1>6, <1>7, OneFewer
<1>9. /\ Has(k.name)' /\ ~Has(k.name)
      /\ \A n \in Names \ {k.name} : (Has(n)' <=> Has(n)) /\ tunnels'[n] = tunnels[n]
  BY <1>1, <1>3, <1>4 DEF Has, Opening, MineFit
<1>10. /\ k.name \in DOMAIN cfg /\ k.tunnel = cfg[k.name] /\ Fits(k.tunnel, k.port)
  BY <1>1 DEF Opening, MineFit
<1>11. \A l \in creators : l.name \in Names
  BY Facts, CreatorFacts DEF CInv
<1>12. MineFit'
  BY <1>1, <1>3, <1>4, <1>6, <1>8, <1>9, <1>10, <1>11 DEF Opening, MineFit
<1>13. HasFit'
  <2> SUFFICES ASSUME NEW n \in Names, Has(n)'
               PROVE  (/\ n \in DOMAIN cfg /\ tunnels[n].tunnel = cfg[n] /\ Fits(cfg[n], tunnels[n].port)
                       /\ \/ local[tunnels[n].port] = cfg[n].Local
                          \/ \E l \in creators : Mine(l) /\ l.name = n)'
    BY DEF HasFit
  <2>1. CASE n = k.name
    BY <1>1, <1>3, <1>4, <1>6, <1>8, <1>10, <2>1
  <2>2. CASE n # k.name
    BY <1>1, <1>8, <1>9, <2>2 DEF Opening, HasFit
  <2> QED BY <2>1, <2>2
<1>14. (\A n \in DOMAIN cfg : Has(n) \/ \E l \in creators : Mine(l) /\ l.name = n)'
  <2>1. DOMAIN cfg \subseteq Names
    BY ConfigFacts DEF CInv, Typed, TypeOK
  <2> QED BY <1>1, <1>8, <1>9, <2>1 DEF Opening
<1>15. \A n \in Names, q \in Ports : Uses(n, q)' <=> Uses(n, q)
  <2> SUFFICES ASSUME NEW n \in Names, NEW q \in Ports PROVE Uses(n, q)' <=> Uses(n, q)
    OBVIOUS
  <2>1. CASE n = k.name
    <3>1. Uses(n, q)' <=> q = k.port
      BY <1>3, <1>4, <1>6, <1>8, <1>9, <2>1 DEF Uses
    <3>2. Uses(n, q) <=> q = k.port
      BY <1>1, <1>8, <1>9, <2>1 DEF Uses
    <3> QED BY <3>1, <3>2
  <2>2. CASE n # k.name
    BY <1>6, <1>8, <1>9, <2>2 DEF Uses
  <2> QED BY <2>1, <2>2
<1>16. /\ (\A q \in Ports : owner[q] = dials <=> \E n \in Names : Uses(n, q))'
       /\ (\A q \in Ports, n, m \in Names : Uses(n, q) /\ Uses(m, q) => n = m)'
  BY <1>1, <1>15 DEF Opening
<1> QED BY <1>8, <1>12, <1>13, <1>14, <1>16 DEF Opening

LEMMA OwnInfo ==
  ASSUME CInv, calm, up, NEW k \in creators, Mine(k), SendTunnelInfo(k)
  PROVE  Opening'
<1>1. /\ Opening /\ k.name \in Names /\ k.pc = "info" /\ k.port \in Ports /\ k.client = dials
      /\ UNCHANGED <<cfg, dials, tunnels, owner>>
  BY OwnCreator, Facts, CreatorFacts DEF CInv, Typed, Shapes, SendTunnelInfo, Mine, connVars
<1>2. /\ k.name \in DOMAIN cfg /\ k.tunnel = cfg[k.name] /\ Has(k.name) /\ tunnels[k.name].port = k.port
  BY <1>1 DEF Opening, MineFit
<1>3. Uses(k.name, k.port) /\ owner[k.port] = dials
  BY <1>1, <1>2 DEF Opening, Uses
<1>4. local'[k.port] = cfg[k.name].Local /\ \A q \in Ports \ {k.port} : local'[q] = local[q]
  BY <1>1, <1>2, <1>3 DEF SendTunnelInfo, Live, CInv, Typed, TypeOK
<1>5. /\ \A l : l \in creators' /\ Mine(l)' <=> l \in creators /\ Mine(l) /\ l # k
      /\ \A l \in creators : Mine(l) /\ l # k => l.name # k.name
  <2>1. Becomes(k, {})
    BY DEF SendTunnelInfo
  <2> QED BY <1>1, <2>1 DEF Becomes, Mine, Opening
<1>6. \A n : Has(n)' <=> Has(n)
  BY <1>1 DEF Has
<1>7. \A n, q : Uses(n, q)' <=> Uses(n, q)
  BY <1>1, <1>5, <1>6 DEF Uses
<1>8. MineFit'
  BY <1>1, <1>5, <1>6 DEF Opening, MineFit
<1>9. HasFit'
  <2> SUFFICES ASSUME NEW n \in Names, Has(n)
               PROVE  /\ n \in DOMAIN cfg /\ tunnels[n].tunnel = cfg[n] /\ Fits(cfg[n], tunnels[n].port)
                      /\ \/ local'[tunnels[n].port] = cfg[n].Local
                         \/ \E l \in creators' : Mine(l)' /\ l.name = n
    BY <1>1, <1>6 DEF HasFit
  <2>1. tunnels[n].port \in Ports
    BY Facts, Fields DEF CInv, Has
  <2>2. CASE n = k.name
    BY <1>1, <1>2, <1>4, <2>2 DEF Opening, HasFit
  <2>3. CASE n # k.name
    <3>1. tunnels[n].port # k.port
      BY <1>1, <1>3, <2>3 DEF Opening, Uses
    <3> QED BY <1>1, <1>4, <1>5, <2>1, <2>3, <3>1 DEF Opening, HasFit
  <2> QED BY <2>2, <2>3
<1>10. (\A l, m \in creators : Mine(l) /\ Mine(m) /\ l.name = m.name => l = m)'
  BY <1>1, <1>5 DEF Opening
<1>11. (\A n \in DOMAIN cfg : Has(n) \/ \E l \in creators : Mine(l) /\ l.name = n)'
  BY <1>1, <1>2, <1>5, <1>6 DEF Opening
<1>12. /\ (\A q \in Ports : owner[q] = dials <=> \E n \in Names : Uses(n, q))'
       /\ (\A q \in Ports, n, m \in Names : Uses(n, q) /\ Uses(m, q) => n = m)'
  BY <1>1, <1>7 DEF Opening
<1> QED BY <1>8, <1>9, <1>10, <1>11, <1>12 DEF Opening

LEMMA CreateCalm ==
  ASSUME CInv, NEW k \in creators, CreateTunnel(k)
  PROVE  CalmInv'
<1> SUFFICES ASSUME calm', up', k.client = dials
             PROVE  IF main' = "wait" THEN Waiting' ELSE Fresh'
  BY LateCreator DEF CalmInv
<1>1. calm /\ up /\ Mine(k) /\ UNCHANGED <<dials, main, loop>>
  BY DEF CreateTunnel, Listen, ListenFails, Store, SendTunnelInfo, connVars, Mine
<1>2. main = "wait" /\ dials \in Clients /\ \A c \in Clients : ~HasLock(c)
  BY <1>1, OwnCreator
<1>3. ~ListenFails(k)
  BY <1>1 DEF ListenFails, Live
<1>4. Opening'
  BY <1>1, <1>3, OwnListen, OwnStore, OwnInfo DEF CreateTunnel
<1>5. \A c \in Clients : ~HasLock(c)'
  BY <1>1, <1>2 DEF HasLock, At
<1> QED BY <1>1, <1>2, <1>4, <1>5 DEF Waiting

-----------------------------------------------------------------------------
(* The steps of a reload.                                                  *)

(* Of a connection that is not the current one, before that has opened its *)
(* tunnels.                                                                *)
LEMMA LateReload ==
  ASSUME CInv, calm, up, main # "wait", NEW c \in Clients, ReloadStep(c), calm'
  PROVE  Fresh'
<1>1. /\ Typed /\ Fresh /\ dials \in Clients /\ main # "wait"
  BY Facts DEF CInv, CalmInv
<1>2. dials' = dials
  BY DEF ReloadStep, LoopEnd, TakeReload, Load, Lock, Keep, CancelPortForward, CloseListener,
         DeleteTunnel, Apply, connVars
<1>3. CASE LoopEnd(c) \/ TakeReload(c) \/ Load(c)
  <2>1. /\ ~HasLock(c)' /\ \A d \in Clients \ {c} : loop'[d] = loop[d]
    BY <1>1, <1>3, OutsideEffect
  <2>2. UNCHANGED <<tunnels, creators, owner>>
    BY <1>3 DEF LoopEnd, TakeReload, Load, serverVars
  <2>3. ~HasLock(dials)'
    BY <1>1, <1>2, <2>1 DEF Fresh, HasLock, At
  <2>4. \A d \in Clients : Closing(d)' => Closing(d) /\ loop'[d] = loop[d]
    BY <2>1 DEF Closing, HasLock, At
  <2> QED BY <1>1, <1>2, <2>2, <2>3, <2>4 DEF Fresh
<1>4. ~Lock(c)
  BY <1>1 DEF Lock, Settled
<1>5. ASSUME HasLock(c), \A d \in Clients \ {c} : loop'[d] = loop[d],
             \A n \in Names : tunnels'[n] # Nil => tunnels'[n] = tunnels[n],
             \A p \in Ports : owner'[p] = dials => owner[p] = dials,
             \A k \in creators' : k \in creators \/ k.client = c,
             Closing(c)' => loop'[c].handle.client # dials
      PROVE  Fresh'
  <2>1. c # dials
    BY <1>1, <1>5 DEF Fresh
  <2>2. ~HasLock(dials)'
    BY <1>1, <1>2, <1>5, <2>1 DEF Fresh, HasLock, At
  <2>3. \A d \in Clients : Closing(d)' => loop'[d].handle.client # dials
    BY <1>1, <1>5 DEF Fresh, Closing, At
  <2>4. /\ \A p \in Ports : owner'[p] # dials
        /\ \A k \in creators' : k.client # dials
        /\ \A n \in Names : tunnels'[n] # Nil => tunnels'[n].client # dials
    BY <1>1, <1>5, <2>1 DEF Fresh
  <2> QED BY <1>2, <2>2, <2>3, <2>4 DEF Fresh
<1>6. ASSUME NEW n \in Names, Keep(c, n) PROVE Fresh'
  <2>1. UNCHANGED <<tunnels, creators, owner>>
    BY <1>6 DEF Keep, serverVars
  <2> QED BY <1>1, <1>5, <1>6, <2>1, KeepEffect
<1>7. ASSUME NEW n \in Names, CancelPortForward(c, n) PROVE Fresh'
  <2>1. UNCHANGED <<tunnels, creators>> /\ Cancel(c, tunnels[n].port) /\ tunnels[n] # Nil
    BY <1>7 DEF CancelPortForward
  <2>2. /\ HasLock(c) /\ loop'[c].handle = tunnels[n] /\ tunnels[n] \in Handles
        /\ \A d \in Clients \ {c} : loop'[d] = loop[d]
    BY <1>1, <1>7, CancelPortEffect
  <2>3. c # dials /\ tunnels[n].client # dials /\ tunnels[n].port \in Ports
    BY <1>1, <2>1, <2>2, Fields DEF Fresh
  <2>4. owner' = owner
    BY <2>1, <2>3 DEF Cancel, Live, serverVars
  <2> QED BY <1>5, <2>1, <2>2, <2>3, <2>4
<1>8. ASSUME CloseListener(c) PROVE Fresh'
  <2>1. UNCHANGED <<tunnels, creators>> /\ Cancel(loop[c].handle.client, loop[c].handle.port)
    BY <1>8 DEF CloseListener
  <2>2. /\ HasLock(c) /\ Closing(c) /\ loop'[c].handle = loop[c].handle
        /\ \A d \in Clients \ {c} : loop'[d] = loop[d]
    BY <1>1, <1>8, CloseListenerEffect
  <2>3. loop[c].handle.client # dials
    BY <1>1, <2>2 DEF Fresh
  <2>4. owner' = owner
    BY <2>1, <2>3 DEF Cancel, Live, serverVars
  <2> QED BY <1>5, <2>1, <2>2, <2>3, <2>4
<1>9. ASSUME DeleteTunnel(c) PROVE Fresh'
  <2>1. UNCHANGED <<creators, owner>>
    BY <1>9 DEF DeleteTunnel, serverVars
  <2>2. /\ HasLock(c) /\ ~Closing(c)' /\ tunnels' = [tunnels EXCEPT ![loop[c].name] = Nil]
        /\ \A d \in Clients \ {c} : loop'[d] = loop[d]
    BY <1>1, <1>9, DeleteEffect
  <2>3. \A n \in Names : tunnels'[n] # Nil => tunnels'[n] = tunnels[n]
    BY <1>1, <2>2 DEF Typed, TypeOK
  <2> QED BY <1>5, <2>1, <2>2, <2>3
<1>10. ASSUME Apply(c) PROVE Fresh'
  <2>1. UNCHANGED <<tunnels, owner>>
    BY <1>10 DEF Apply, serverVars
  <2>2. PICK S : Starts(c, S)
    BY <1>1, <1>10, ApplyEffect
  <2>3. HasLock(c) /\ ~HasLock(c)' /\ \A d \in Clients \ {c} : loop'[d] = loop[d]
    BY <1>1, <1>10, ApplyEffect
  <2>4. ~Closing(c)'
    BY <2>3 DEF HasLock, Closing
  <2> QED BY <1>5, <2>1, <2>2, <2>3, <2>4 DEF Starts
<1> QED BY <1>3, <1>4, <1>6, <1>7, <1>8, <1>9, <1>10 DEF ReloadStep

(* Of the current connection: it gets the lock when its tunnels are open,  *)
LEMMA LockReplaces ==
  ASSUME Typed, Opening, NEW c \in Clients, Lock(c), Settled(c)
  PROVE  Replacing'
<1>1. /\ c = dials /\ creators = {} /\ \A n \in Names : tunnels[n] # Nil => Has(n)
      /\ UNCHANGED <<cfg, dials, tunnels, creators, owner, local>>
  BY DEF Settled, Has, Lock, connVars, serverVars
<1>2. /\ ~Closing(dials)' /\ loop'[dials].left = Names /\ loop'[dials].name = Nil
      /\ loop'[dials].add = DOMAIN loop'[dials].newCfg
  BY <1>1, LockEffect
<1>3. \A n \in Names : (Alive(n)' <=> Has(n)) /\ (tunnels[n] # Nil <=> Has(n))
  BY <1>1, <1>2, Constants DEF Alive, Has
<1>4. \A n \in Names, p \in Ports : Uses(n, p) <=> Has(n) /\ tunnels[n].port = p
  BY <1>1 DEF Uses
<1>5. \A n \in Names : Has(n) => tunnels[n].port \in Ports
  BY Facts, Fields DEF Has
<1>6. \A n \in Names : Noted(n)'
  BY <1>1, <1>2 DEF Noted
<1>7. (\A n \in Names : Alive(n) => /\ Fits(tunnels[n].tunnel, tunnels[n].port)
                                    /\ local[tunnels[n].port] = tunnels[n].tunnel.Local)'
  BY <1>1, <1>3 DEF Opening, HasFit, Fits
<1>8. (\A p \in Ports : owner[p] = dials <=> \E n \in Names : Alive(n) /\ tunnels[n].port = p)'
  BY <1>1, <1>3, <1>4 DEF Opening
<1>9. (\A n, m \in Names : Alive(n) /\ Alive(m) /\ tunnels[n].port = tunnels[m].port => n = m)'
  BY <1>1, <1>3, <1>4, <1>5 DEF Opening
<1>10. (\A n \in Names : tunnels[n] # Nil => tunnels[n].client = dials)'
  BY <1>1 DEF Has
<1> QED BY <1>1, <1>2, <1>6, <1>7, <1>8, <1>9, <1>10 DEF Replacing

(* keeps what is unchanged,                                                *)
LEMMA KeepReplaces ==
  ASSUME Typed, Replacing, NEW n \in Names, NEW c \in Clients, c = dials, Keep(c, n)
  PROVE  Replacing'
<1>1. /\ n \in loop[dials].left /\ (tunnels[n] # Nil => Unchanged(dials, n))
      /\ UNCHANGED <<dials, tunnels, creators, owner, local>>
  BY DEF Keep, connVars, serverVars
<1>2. /\ ~Closing(dials) /\ ~Closing(dials)'
      /\ loop'[dials].left = loop[dials].left \ {n}
      /\ loop'[dials].add = IF tunnels[n] = Nil THEN loop[dials].add ELSE loop[dials].add \ {n}
      /\ loop'[dials].newCfg = loop[dials].newCfg /\ loop'[dials].name = loop[dials].name
  BY <1>1, KeepEffect DEF Closing, At
<1>3. \A m \in Names : (Alive(m)' <=> Alive(m)) /\ (Alive(m) <=> tunnels[m] # Nil)
  BY <1>1, <1>2, Constants DEF Alive, Replacing
<1>4. ASSUME NEW m \in Names PROVE Noted(m)'
  <2>1. CASE m = n /\ tunnels[n] # Nil
    BY <1>1, <1>2, <1>3, <2>1 DEF Noted, Unchanged
  <2>2. CASE m = n /\ tunnels[n] = Nil
    BY <1>1, <1>2, <1>3, <2>2 DEF Noted, Replacing
  <2>3. CASE m # n
    BY <1>1, <1>2, <1>3, <2>3 DEF Noted, Replacing
  <2> QED BY <2>1, <2>2, <2>3
<1>5. (\A m \in Names : Alive(m) => /\ Fits(tunnels[m].tunnel, tunnels[m].port)
                                    /\ local[tunnels[m].port] = tunnels[m].tunnel.Local)'
  BY <1>1, <1>3 DEF Replacing, Fits
<1> QED BY <1>1, <1>2, <1>3, <1>4, <1>5 DEF Replacing

(* cancels the forward of what is not,                                     *)
LEMMA CancelReplaces ==
  ASSUME Typed, up, Replacing, NEW n \in Names, NEW c \in Clients, c = dials, CancelPortForward(c, n)
  PROVE  Replacing'
<1>1. /\ n \in loop[dials].left /\ tunnels[n] # Nil /\ Cancel(dials, tunnels[n].port)
      /\ UNCHANGED <<dials, tunnels, creators>>
  BY DEF CancelPortForward, connVars
<1>2. /\ ~Closing(dials) /\ Closing(dials)' /\ tunnels[n] \in Handles
      /\ loop'[dials].left = loop[dials].left \ {n} /\ loop'[dials].add = loop[dials].add
      /\ loop'[dials].newCfg = loop[dials].newCfg
      /\ loop'[dials].name = n /\ loop'[dials].handle = tunnels[n]
  BY <1>1, CancelPortEffect DEF Closing, At
<1>3. PICK p \in Ports : p = tunnels[n].port
  BY <1>2, Fields
<1>4. /\ \A m \in Names : Alive(m) <=> tunnels[m] # Nil
      /\ \A m \in Names : Alive(m)' <=> Alive(m) /\ m # n
  BY <1>1, <1>2, Constants DEF Alive, Replacing
<1>5. owner[p] = dials
  BY <1>1, <1>3, <1>4 DEF Replacing
<1>6. /\ owner'[p] = 0 /\ dials # 0
      /\ \A q \in Ports \ {p} : owner'[q] = owner[q] /\ local'[q] = local[q]
  BY <1>1, <1>3, <1>5, CancelEffect, Constants DEF Live
<1>7. \A m \in Names : Alive(m)' => tunnels[m].port \in Ports \ {p}
  BY <1>1, <1>3, <1>4, Facts, Fields DEF Replacing
<1>8. ASSUME NEW m \in Names PROVE Noted(m)'
  BY <1>1, <1>2, <1>4 DEF Noted, Replacing
<1>9. (\A m \in Names : Alive(m) => /\ Fits(tunnels[m].tunnel, tunnels[m].port)
                                    /\ local[tunnels[m].port] = tunnels[m].tunnel.Local)'
  BY <1>1, <1>4, <1>6, <1>7 DEF Replacing, Fits
<1>10. (\A q \in Ports : owner[q] = dials <=> \E m \in Names : Alive(m) /\ tunnels[m].port = q)'
  <2> SUFFICES ASSUME NEW q \in Ports
               PROVE  owner'[q] = dials <=> \E m \in Names : Alive(m)' /\ tunnels[m].port = q
    BY <1>1
  <2>1. CASE q = p
    BY <1>6, <1>7, <2>1
  <2>2. CASE q # p
    BY <1>3, <1>4, <1>6, <2>2 DEF Replacing
  <2> QED BY <2>1, <2>2
<1>11. (\A m, l \in Names : Alive(m) /\ Alive(l) /\ tunnels[m].port = tunnels[l].port => m = l)'
  BY <1>1, <1>4 DEF Replacing
<1>12. (loop[dials].name \notin loop[dials].left /\ owner[loop[dials].handle.port] # dials)'
  BY <1>1, <1>2, <1>3, <1>6
<1> QED BY <1>1, <1>2, <1>8, <1>9, <1>10, <1>11, <1>12 DEF Replacing

(* which Listener.Close finds done,                                        *)
LEMMA CloseReplaces ==
  ASSUME Typed, Replacing, NEW c \in Clients, c = dials, CloseListener(c)
  PROVE  Replacing' /\ owner' = owner
<1>1. /\ Cancel(loop[dials].handle.client, loop[dials].handle.port)
      /\ UNCHANGED <<dials, tunnels, creators>>
  BY DEF CloseListener, connVars
<1>2. /\ Closing(dials) /\ Closing(dials)' /\ loop'[dials].left = loop[dials].left
      /\ loop'[dials].add = loop[dials].add /\ loop'[dials].newCfg = loop[dials].newCfg
      /\ loop'[dials].name = loop[dials].name /\ loop'[dials].handle = loop[dials].handle
  BY <1>1, CloseListenerEffect DEF Closing, At
<1>3. owner' = owner /\ local' = local
  BY <1>1, <1>2 DEF Cancel, Live, Replacing, serverVars
<1>4. \A m \in Names : Alive(m)' <=> Alive(m)
  BY <1>1, <1>2 DEF Alive
<1>5. ASSUME NEW m \in Names PROVE Noted(m)'
  BY <1>1, <1>2, <1>4 DEF Noted, Replacing
<1>6. (\A m \in Names : Alive(m) => /\ Fits(tunnels[m].tunnel, tunnels[m].port)
                                    /\ local[tunnels[m].port] = tunnels[m].tunnel.Local)'
  BY <1>1, <1>3, <1>4 DEF Replacing, Fits
<1>7. (loop[dials].name \notin loop[dials].left /\ owner[loop[dials].handle.port] # dials)'
  BY <1>1, <1>2, <1>3 DEF Replacing
<1> QED BY <1>1, <1>2, <1>3, <1>4, <1>5, <1>6, <1>7 DEF Replacing

(* deletes the handle,                                                     *)
LEMMA DeleteReplaces ==
  ASSUME Typed, Replacing, NEW c \in Clients, c = dials, DeleteTunnel(c)
  PROVE  Replacing'
<1>1. UNCHANGED <<dials, creators, owner, local>>
  BY DEF DeleteTunnel, connVars, serverVars
<1>2. /\ Closing(dials) /\ ~Closing(dials)' /\ loop[dials].name \in Names
      /\ tunnels' = [tunnels EXCEPT ![loop[dials].name] = Nil]
      /\ loop'[dials].left = loop[dials].left /\ loop'[dials].add = loop[dials].add
      /\ loop'[dials].newCfg = loop[dials].newCfg /\ loop'[dials].name = Nil
  BY <1>1, DeleteEffect DEF Closing, At
<1>3. /\ tunnels'[loop[dials].name] = Nil
      /\ \A m \in Names \ {loop[dials].name} : tunnels'[m] = tunnels[m]
  BY <1>2 DEF Typed, TypeOK
<1>4. /\ \A m \in Names : Alive(m)' <=> Alive(m)
      /\ \A m \in Names : Alive(m) => tunnels'[m] = tunnels[m]
  BY <1>1, <1>2, <1>3, Constants DEF Alive
<1>5. ASSUME NEW m \in Names PROVE Noted(m)'
  BY <1>1, <1>2, <1>4 DEF Noted, Replacing
<1>6. (\A m \in Names : Alive(m) => /\ Fits(tunnels[m].tunnel, tunnels[m].port)
                                    /\ local[tunnels[m].port] = tunnels[m].tunnel.Local)'
  BY <1>1, <1>4 DEF Replacing, Fits
<1>7. (\A p \in Ports : owner[p] = dials <=> \E m \in Names : Alive(m) /\ tunnels[m].port = p)'
  BY <1>1, <1>4 DEF Replacing
<1>8. (\A m, l \in Names : Alive(m) /\ Alive(l) /\ tunnels[m].port = tunnels[l].port => m = l)'
  BY <1>4 DEF Replacing
<1>9. (\A m \in Names : tunnels[m] # Nil => tunnels[m].client = dials)'
  BY <1>1, <1>3 DEF Replacing
<1> QED BY <1>1, <1>2, <1>5, <1>6, <1>7, <1>8, <1>9 DEF Replacing

(* and starts a goroutine for each tunnel that is left in newTunnels.      *)
LEMMA ApplyOpens ==
  ASSUME Typed, Replacing, NEW c \in Clients, c = dials, Apply(c)
  PROVE  Opening'
<1>1. UNCHANGED <<dials, tunnels, owner, local>>
  BY DEF Apply, connVars, serverVars
<1>2. /\ HasLock(c) /\ ~Closing(c) /\ loop[c].left = {} /\ cfg' = loop[c].newCfg
  BY ApplyEffect
<1>3. PICK add, new : add = loop[c].add /\ new = loop[c].newCfg
  OBVIOUS
<1>4. PICK S : Starts(c, S)
  BY ApplyEffect
<1>5. /\ HasLock(dials) /\ ~Closing(dials) /\ loop[dials].left = {} /\ cfg' = new
      /\ add = loop[dials].add /\ new = loop[dials].newCfg /\ creators' = creators \cup S
      /\ \A k \in S : k.client = dials /\ k.pc = "listen" /\ k.name \in add /\ k.tunnel = cfg'[k.name]
      /\ \A n \in add : \E k \in S : k.name = n
      /\ \A k, l \in S : k.name = l.name => k = l
  BY <1>1, <1>2, <1>3, <1>4 DEF Starts
<1>6. add \subseteq DOMAIN new /\ add \subseteq Names /\ DOMAIN new \subseteq Names
  BY <1>5, Locker, ConfigFacts
<1>7. creators' = S /\ \A k : k \in creators' /\ Mine(k)' <=> k \in S
  BY <1>1, <1>5 DEF Replacing, Mine
<1>8. \A n \in Names : /\ Has(n)' <=> tunnels[n] # Nil
                       /\ Alive(n) <=> tunnels[n] # Nil
                       /\ IF tunnels[n] # Nil
                          THEN n \notin add /\ n \in DOMAIN new /\ tunnels[n].tunnel = new[n]
                          ELSE n \in add <=> n \in DOMAIN new
  <2>1. \A n \in Names : Alive(n) <=> tunnels[n] # Nil
    BY <1>5, Constants DEF Alive, Replacing
  <2>2. \A n \in Names : Has(n)' <=> tunnels[n] # Nil
    BY <1>1 DEF Has, Replacing
  <2> QED BY <1>3, <1>5, <2>1, <2>2 DEF Replacing, Noted
<1>9. MineFit'
  BY <1>5, <1>6, <1>7, <1>8 DEF MineFit
<1>10. HasFit'
  <2>1. \A n \in Names : tunnels[n] # Nil => /\ Fits(tunnels[n].tunnel, tunnels[n].port)
                                             /\ local'[tunnels[n].port] = tunnels[n].tunnel.Local
    BY <1>1, <1>8 DEF Replacing
  <2> QED BY <1>1, <1>5, <1>8, <2>1 DEF HasFit, Fits
<1>11. (\A k, l \in creators : Mine(k) /\ Mine(l) /\ k.name = l.name => k = l)'
  BY <1>5, <1>7
<1>12. (\A n \in DOMAIN cfg : Has(n) \/ \E k \in creators : Mine(k) /\ k.name = n)'
  BY <1>5, <1>6, <1>7, <1>8
<1>13. \A n \in Names, p \in Ports : Uses(n, p)' <=> Alive(n) /\ tunnels[n].port = p
  BY <1>1, <1>5, <1>7, <1>8 DEF Uses
<1>14. /\ (\A p \in Ports : owner[p] = dials <=> \E n \in Names : Uses(n, p))'
       /\ (\A p \in Ports, n, m \in Names : Uses(n, p) /\ Uses(m, p) => n = m)'
  BY <1>1, <1>13 DEF Replacing
<1> QED BY <1>9, <1>10, <1>11, <1>12, <1>14 DEF Opening

LEMMA ReloadCalm ==
  ASSUME CInv, NEW c \in Clients, ReloadStep(c)
  PROVE  CalmInv'
<1> SUFFICES ASSUME calm', up' PROVE IF main' = "wait" THEN Waiting' ELSE Fresh'
  BY DEF CalmInv
<1>1. /\ Typed /\ calm /\ up /\ UNCHANGED <<dials, up, main>>
  BY DEF CInv, ReloadStep, LoopEnd, TakeReload, Load, Lock, Keep, CancelPortForward, CloseListener,
         DeleteTunnel, Apply, connVars
<1>2. CASE main # "wait"
  BY <1>1, <1>2, LateReload
<1>3. CASE main = "wait"
  <2>1. Waiting /\ dials \in Clients
    BY <1>1, <1>3, Facts DEF CInv, CalmInv
  <2>2. CASE LoopEnd(c) \/ TakeReload(c) \/ Load(c)
    <3>1. /\ ~HasLock(c) /\ ~HasLock(c)' /\ \A d \in Clients \ {c} : loop'[d] = loop[d]
      BY <1>1, <2>2, OutsideEffect
    <3>2. UNCHANGED <<cfg, tunnels, creators, owner, local, calm>>
      BY <2>2 DEF LoopEnd, TakeReload, Load, connVars, serverVars
    <3>3. \A d \in Clients : (HasLock(d)' <=> HasLock(d)) /\ (HasLock(d) => loop'[d] = loop[d])
      BY <3>1 DEF HasLock, At
    <3>4. CalmInv'
      BY <1>1, <3>2, <3>3, Kept DEF Mine
    <3> QED BY <3>4 DEF CalmInv
  <2>3. ASSUME c = dials, \A d \in Clients \ {c} : loop'[d] = loop[d],
               \A d \in Clients : HasLock(d) => d = dials,
               HasLock(c)' => Replacing', ~HasLock(c)' => Opening'
        PROVE  Waiting'
    <3>1. \A d \in Clients : HasLock(d)' => d = dials'
      BY <1>1, <2>3 DEF HasLock, At
    <3> QED BY <1>1, <2>3, <3>1 DEF Waiting
  <2>4. ASSUME HasLock(c) PROVE c = dials /\ Replacing /\ \A d \in Clients : HasLock(d) => d = dials
    BY <2>1, <2>4 DEF Waiting
  <2>5. ASSUME Lock(c) PROVE Waiting'
    <3>1. Settled(c) /\ c = dials /\ \A d \in Clients : ~HasLock(d)
      BY <2>5 DEF Lock, Settled, Locked, HasLock
    <3>2. HasLock(c)' /\ \A d \in Clients \ {c} : loop'[d] = loop[d]
      BY <1>1, <2>5, LockEffect
    <3>3. Replacing'
      BY <1>1, <2>1, <2>5, <3>1, LockReplaces DEF Waiting
    <3> QED BY <2>3, <3>1, <3>2, <3>3
  <2>6. ASSUME NEW n \in Names, Keep(c, n) PROVE Waiting'
    <3>1. HasLock(c) /\ HasLock(c)' /\ \A d \in Clients \ {c} : loop'[d] = loop[d]
      BY <1>1, <2>6, KeepEffect
    <3> QED BY <1>1, <2>1, <2>3, <2>4, <2>6, <3>1, KeepReplaces
  <2>7. ASSUME NEW n \in Names, CancelPortForward(c, n) PROVE Waiting'
    <3>1. HasLock(c) /\ HasLock(c)' /\ \A d \in Clients \ {c} : loop'[d] = loop[d]
      BY <1>1, <2>7, CancelPortEffect
    <3> QED BY <1>1, <2>1, <2>3, <2>4, <2>7, <3>1, CancelReplaces
  <2>8. ASSUME CloseListener(c) PROVE Waiting'
    <3>1. HasLock(c) /\ HasLock(c)' /\ \A d \in Clients \ {c} : loop'[d] = loop[d]
      BY <1>1, <2>8, CloseListenerEffect
    <3> QED BY <1>1, <2>1, <2>3, <2>4, <2>8, <3>1, CloseReplaces
  <2>9. ASSUME DeleteTunnel(c) PROVE Waiting'
    <3>1. HasLock(c) /\ HasLock(c)' /\ \A d \in Clients \ {c} : loop'[d] = loop[d]
      BY <1>1, <2>9, DeleteEffect
    <3> QED BY <1>1, <2>1, <2>3, <2>4, <2>9, <3>1, DeleteReplaces
  <2>10. ASSUME Apply(c) PROVE Waiting'
    <3>1. HasLock(c) /\ ~HasLock(c)' /\ \A d \in Clients \ {c} : loop'[d] = loop[d]
      BY <1>1, <2>10, ApplyEffect
    <3> QED BY <1>1, <2>1, <2>3, <2>4, <2>10, <3>1, ApplyOpens
  <2>11. LoopEnd(c) \/ TakeReload(c) \/ Load(c) \/ Waiting'
    BY <2>5, <2>6, <2>7, <2>8, <2>9, <2>10 DEF ReloadStep
  <2> QED BY <1>1, <1>3, <2>2, <2>11
<1> QED BY <1>2, <1>3

-----------------------------------------------------------------------------
(* The theorems.                                                           *)

LEMMA CInit == Init => CInv
BY TypedInit DEF Init, CInv, CalmInv

LEMMA CStep == CInv /\ [Next]_vars => CInv'
<1> SUFFICES ASSUME CInv, [Next]_vars PROVE CalmInv'
  BY TypedStep DEF CInv
<1>1. CASE Dial \/ StartStep \/ Lose \/ Edit \/ TriggerReload
  BY <1>1, StartCalm
<1>2. ASSUME NEW c \in Clients, Sweep(c) \/ ReloadStep(c) PROVE CalmInv'
  BY <1>2, SweepCalm, ReloadCalm
<1>3. ASSUME NEW k \in creators, CreateTunnel(k) PROVE CalmInv'
  BY <1>3, CreateCalm
<1>4. CASE UNCHANGED vars
  <2>1. UNCHANGED <<cfg, dials, up, main, loop, tunnels, creators, owner, local, calm>>
    BY <1>4 DEF vars, connVars, serverVars
  <2> QED BY <2>1, Kept DEF Mine, HasLock, At
<1> QED BY <1>1, <1>2, <1>3, <1>4 DEF Next

(* As long as nothing was refused or overlapped, the current connection is *)
(* in one of the three situations described above: Fresh, Opening or       *)
(* Replacing.                                                              *)
THEOREM ConnectionInvariance == Spec => []CInv
BY CInit, CStep, PTL DEF Spec

(* A quiet connection has the ports of its tunnels, one for each.          *)
LEMMA QuietMatch == CInv => TunnelsMatch
<1> SUFFICES ASSUME CInv, Quiet, calm
             PROVE  /\ \A n \in DOMAIN cfg : Open(n)
                    /\ Cardinality(Leases!Leased(dials)) = Cardinality(DOMAIN cfg)
  BY DEF TunnelsMatch
<1>1. /\ up /\ main = "wait" /\ creators = {} /\ dials \in Clients
      /\ \A n \in Names : tunnels[n] # Nil => tunnels[n] \in Handles
  BY Facts DEF CInv, Quiet
<1>2. ~HasLock(dials)
  BY <1>1, LoopFacts DEF Quiet, Busy, HasLock, At
<1>3. Opening
  BY <1>1, <1>2 DEF CInv, CalmInv, Waiting
<1>4. DOMAIN cfg \subseteq Names
  BY ConfigFacts DEF CInv, Typed, TypeOK
<1>5. \A n \in Names : Has(n) <=> n \in DOMAIN cfg
  BY <1>1, <1>3, <1>4 DEF Opening, HasFit
<1>6. \A n \in Names, p \in Ports : Uses(n, p) <=> n \in DOMAIN cfg /\ tunnels[n].port = p
  BY <1>1, <1>5 DEF Uses
<1>7. \A n \in DOMAIN cfg : tunnels[n].port \in Ports
  BY <1>1, <1>4, <1>5, Fields DEF Has
<1>8. ASSUME NEW n \in DOMAIN cfg PROVE Open(n)
  <2>1. n \in Names /\ Has(n) /\ tunnels[n].port \in Ports
    BY <1>4, <1>5, <1>7
  <2>2. /\ tunnels[n].tunnel = cfg[n] /\ Fits(cfg[n], tunnels[n].port)
        /\ local[tunnels[n].port] = cfg[n].Local
    BY <1>1, <1>3, <2>1 DEF Opening, HasFit
  <2>3. owner[tunnels[n].port] = dials
    BY <1>3, <1>6, <2>1 DEF Opening
  <2> QED BY <2>1, <2>2, <2>3 DEF Open, Has, Fits
<1>9. Cardinality(Leases!Leased(dials)) = Cardinality(DOMAIN cfg)
  <2> DEFINE f == [n \in DOMAIN cfg |-> tunnels[n].port]
             L == Leases!Leased(dials)
  <2>1. \A p \in Ports : p \in L <=> \E n \in DOMAIN cfg : tunnels[n].port = p
    BY <1>3, <1>4, <1>6 DEF Opening, Leases!Leased
  <2>2. L \subseteq Ports
    BY DEF Leases!Leased
  <2>3. \A n, m \in DOMAIN cfg : tunnels[n].port = tunnels[m].port => n = m
    BY <1>3, <1>4, <1>6, <1>7 DEF Opening
  <2> HIDE DEF L
  <2>4. f \in Bijection(DOMAIN cfg, L)
    <3>1. f \in [DOMAIN cfg -> L]
      BY <1>7, <2>1
    <3>2. \A p \in L : \E n \in DOMAIN cfg : f[n] = p
      BY <2>1, <2>2
    <3>3. DOMAIN f = DOMAIN cfg /\ \A n, m \in DOMAIN cfg : f[n] = f[m] => n = m
      BY <2>3
    <3> HIDE DEF f
    <3> QED BY <3>1, <3>2, <3>3 DEF Bijection, Injection, Surjection, IsInjective
  <2>5. IsFiniteSet(DOMAIN cfg)
    BY <1>4, ClientAssumption, FS_Subset
  <2> HIDE DEF f
  <2> QED BY <2>4, <2>5, FS_Bijection DEF L, ExistsBijection
<1> QED BY <1>8, <1>9

(* "All changes of tunnels are detected and applied" (README.md:184), for  *)
(* any configurations: a quiet connection to which nothing was refused and *)
(* whose reloads did not overlap the opening of its tunnels has the        *)
(* tunnels of its configuration open, and no other port.                   *)
THEOREM TunnelsKept == Spec => []TunnelsMatch
BY CInit, CStep, QuietMatch, PTL DEF Spec

(* Only a reload of the current connection takes a port away from it, and  *)
(* of a tunnel that the new configuration does not have as it is: the      *)
(* listener that is closed after the forward was cancelled has no port     *)
(* left to free.                                                           *)
LEMMA OnlyChanged ==
  ASSUME CInv, [Next]_vars, NEW p \in Ports, calm, Live(owner[p]), owner'[p] # owner[p]
  PROVE  \E n \in Names : /\ tunnels[n] # Nil /\ tunnels[n].port = p
                          /\ LET new == loop[dials].newCfg
                             IN n \in DOMAIN new => new[n] # tunnels[n].tunnel
<1> DEFINE Changed == \E n \in Names : /\ tunnels[n] # Nil /\ tunnels[n].port = p
                                       /\ LET new == loop[dials].newCfg
                                          IN n \in DOMAIN new => new[n] # tunnels[n].tunnel
<1>1. /\ Typed /\ up /\ owner[p] = dials /\ dials \in Clients /\ dials > 0
      /\ \A n \in Names : tunnels[n] # Nil => tunnels[n] \in Handles
  BY Facts, Constants DEF CInv, Live
<1>2. ASSUME UNCHANGED owner PROVE FALSE
  BY <1>2
<1>3. ASSUME Dial \/ StartStep \/ Lose \/ Edit \/ TriggerReload \/ UNCHANGED vars PROVE FALSE
  BY <1>2, <1>3 DEF Dial, StartStep, InfoFails, Begin, OpenTunnels, Reconnect, Lose, Edit, TriggerReload,
                    vars, serverVars
<1>4. ASSUME NEW c \in Clients, Sweep(c) PROVE FALSE
  <2>1. owner[p] # c
    BY <1>1, <1>4 DEF Sweep, Live
  <2> QED BY <1>1, <1>4, <2>1, SweepEffect
<1>5. ASSUME NEW k \in creators, CreateTunnel(k) PROVE FALSE
  <2>1. Listen(k)
    BY <1>2, <1>5 DEF CreateTunnel, ListenFails, Store, SendTunnelInfo, serverVars
  <2>2. PICK q \in Wanted(k) : Leases!Grant(k.client, q)
    BY <2>1 DEF Listen
  <2>3. p # q
    BY <1>1, <2>2 DEF Leases!Grant
  <2>4. owner' = [owner EXCEPT ![q] = k.client]
    BY <2>2 DEF Leases!Grant
  <2> QED BY <1>1, <2>3, <2>4, Facts
<1>6. ASSUME NEW c \in Clients, NEW n \in Names, CancelPortForward(c, n) PROVE Changed
  <2>1. /\ tunnels[n] # Nil /\ ~Unchanged(c, n) /\ Cancel(c, tunnels[n].port)
    BY <1>6 DEF CancelPortForward
  <2>2. tunnels[n].port \in Ports
    BY <1>1, <2>1, Fields
  <2>3. c = dials /\ tunnels[n].port = p
    BY <1>1, <2>1, <2>2, CancelEffect DEF Live
  <2> QED BY <2>1, <2>3 DEF Unchanged
<1>7. ASSUME NEW c \in Clients, CloseListener(c) PROVE FALSE
  <2>1. Cancel(loop[c].handle.client, loop[c].handle.port) /\ Closing(c) /\ HasLock(c)
    BY <1>7 DEF CloseListener, Closing, HasLock, At
  <2>2. /\ loop[c].handle.port \in Ports /\ loop[c].handle.client \in Clients
    BY <2>1, Fields DEF CInv, Typed, Shapes, LoopShapes
  <2>3. loop[c].handle.client = dials /\ loop[c].handle.port = p
    BY <1>1, <2>1, <2>2, CancelEffect DEF Live
  <2>4. main = "wait"
    BY <1>1, <2>1, <2>3 DEF CInv, CalmInv, Fresh
  <2>5. c = dials /\ Replacing
    BY <1>1, <2>1, <2>4 DEF CInv, CalmInv, Waiting
  <2> QED BY <1>1, <2>1, <2>3, <2>5 DEF Replacing
<1>8. ASSUME NEW c \in Clients, ReloadStep(c) PROVE Changed
  <2>1. CASE LoopEnd(c) \/ TakeReload(c) \/ Load(c) \/ Lock(c) \/ DeleteTunnel(c) \/ Apply(c)
    BY <1>2, <2>1 DEF LoopEnd, TakeReload, Load, Lock, DeleteTunnel, Apply, serverVars
  <2>2. ASSUME NEW n \in Names, Keep(c, n) PROVE FALSE
    BY <1>2, <2>2 DEF Keep, serverVars
  <2> QED BY <1>6, <1>7, <1>8, <2>1, <2>2 DEF ReloadStep
<1> HIDE DEF Changed
<1>9. Changed
  BY <1>3, <1>4, <1>5, <1>8 DEF Next
<1> QED BY <1>9 DEF Changed

(* "Only changed tunnels are touched" (README.md:216), for any             *)
(* configurations, any number of connections and any number of reloads.    *)
THEOREM UnchangedTunnelsKept == Spec => UnchangedKept
<1>1. CInv /\ [Next]_vars =>
        [\A p \in Ports : calm /\ Live(owner[p]) /\ owner'[p] # owner[p] =>
           \E n \in Names : /\ tunnels[n] # Nil /\ tunnels[n].port = p
                            /\ LET new == loop[dials].newCfg
                               IN n \in DOMAIN new => new[n] # tunnels[n].tunnel]_vars
  BY OnlyChanged
<1> QED BY <1>1, CInit, CStep, PTL DEF Spec, UnchangedKept

=============================================================================
