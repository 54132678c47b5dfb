----------------------------- MODULE TunnelClient -----------------------------
(***************************************************************************)
(* pkg/client/client.go: the connection loop, the goroutine that opens     *)
(* each tunnel, and the reload of the configuration, against a server that *)
(* leases ports as PortLeases says.                                        *)
(*                                                                         *)
(* A global request is one step, taken by the server in the order of       *)
(* ssh.Client's request lock.  A connection that is lost never comes back; *)
(* the server notices later, at a time of its own, and then frees what it  *)
(* had leased to it.                                                       *)
(*                                                                         *)
(* Left out: the authentication, health reports and keepalives (the latter *)
(* only lose the connection), the relay.  The accept loop of createTunnel  *)
(* never gets a connection (handleServerChannels takes the channels) and   *)
(* ends with its listener.  Names of tunnels are taken to be unique.       *)
(***************************************************************************)
EXTENDS Integers, FiniteSets

CONSTANTS
  Names,        \* names of tunnels
  Ports,
  Locals,       \* local address and timeout of a tunnel
  Configs,      \* the valid contents of client.yaml
  MaxTunnels,   \* max_tunnels_per_client of the server
  MaxDials,     \* bound on the SSH connections
  MaxReloads,   \* bound on the reloads
  AnyPort,      \* remote_port: 0
  Broken,       \* client.yaml does not load or is not valid
  Nil

Tunnel  == [RemotePort : Ports \cup {AnyPort}, Local : Locals]
Clients == 1..MaxDials

ASSUME ClientAssumption ==
  /\ IsFiniteSet(Names) /\ IsFiniteSet(Ports)
  /\ AnyPort \notin Ports
  /\ Configs # {}
  /\ Configs \subseteq UNION {[S -> Tunnel] : S \in SUBSET Names}
  /\ Broken \notin Configs
  /\ MaxTunnels \in Nat \ {0} /\ MaxDials \in Nat /\ MaxReloads \in Nat
  /\ Nil \notin Names \cup Ports \cup Locals
  /\ Nil \notin [tunnel : Tunnel, port : Ports, client : Clients]

VARIABLES
  file,      \* client.yaml
  cfg,       \* Client.cfg
  reload,    \* a request is in reloadChan
  reloads,   \* requests taken from it
  dials,     \* the SSH clients so far; the last one is the current
  up,        \* its connection is alive
  main,      \* position of Start
  loop,      \* reloadLoop of each SSH client
  tunnels,   \* Client.tunnels: the handles by name
  creators,  \* createTunnel goroutines under way
  owner,     \* the server: which SSH client a port is leased to, 0 for none
  local,     \* the server: local address it was told for a port
  calm       \* nothing was refused or overlapped (see below)

connVars   == <<reload, reloads, dials, up, main>>
serverVars == <<owner, local>>
vars == <<file, cfg, connVars, loop, tunnels, creators, serverVars, calm>>

Leases == INSTANCE PortLeases WITH Quota <- MaxTunnels, None <- 0

Live(c) == up /\ c = dials

(* The context of c's connection has been cancelled.                       *)
Cancelled(c) == c < dials \/ main = "dial"

(* A reload loop between requests, and one whose goroutine has returned or *)
(* not started.                                                            *)
Idle  == [pc |-> "idle"]
Ended == [pc |-> "ended"]
Busy(c) == loop[c] \notin {Idle, Ended}

(* createTunnel(client c, tunnel) for every name of a configuration.       *)
Spawned(c, batch, config) ==
  {[client |-> c, batch |-> batch, name |-> n, tunnel |-> config[n],
    pc |-> "listen", port |-> Nil] : n \in DOMAIN config}

(* The server frees port p of client c, if it is c's.                      *)
Cancel(c, p) ==
  IF Live(c) /\ owner[p] = c
  THEN Leases!Free(c, {p}) /\ local' = [local EXCEPT ![p] = Nil]
  ELSE UNCHANGED serverVars

Init ==
  /\ file \in Configs /\ cfg = file
  /\ reload = FALSE /\ reloads = 0
  /\ dials = 0 /\ up = FALSE /\ main = "dial"
  /\ loop = [c \in Clients |-> Ended]
  /\ tunnels = [n \in Names |-> Nil]
  /\ creators = {}
  /\ Leases!Init
  /\ local = [p \in Ports |-> Nil]
  /\ calm = TRUE

-----------------------------------------------------------------------------
(* Start, and what happens to its connection.                              *)

(* ssh.Dial succeeds.                                                      *)
Dial ==
  /\ main = "dial" /\ dials < MaxDials
  /\ dials' = dials + 1 /\ up' = TRUE /\ main' = "info"
  /\ calm' = TRUE
  /\ UNCHANGED <<file, cfg, reload, reloads, loop, tunnels, creators, serverVars>>

(* sendClientInfo returns an error: dial again after five seconds.         *)
InfoFails ==
  /\ main = "info" /\ ~up
  /\ main' = "dial"
  /\ UNCHANGED <<file, cfg, reload, reloads, dials, up, loop, tunnels, creators,
                 serverVars, calm>>

(* sendClientInfo succeeds: the reload loop starts ...                     *)
Begin ==
  /\ main = "info" /\ up
  /\ main' = "open"
  /\ loop' = [loop EXCEPT ![dials] = Idle]
  /\ UNCHANGED <<file, cfg, reload, reloads, dials, up, tunnels, creators,
                 serverVars, calm>>

(* ... and one createTunnel for each tunnel of cfg.                        *)
OpenTunnels ==
  /\ main = "open"
  /\ main' = "wait"
  /\ creators' = creators \cup Spawned(dials, 0, cfg)
  /\ calm' = (calm /\ \A c \in Clients : ~Busy(c))
  /\ UNCHANGED <<file, cfg, reload, reloads, dials, up, loop, tunnels, serverVars>>

(* client.Wait returns: connCancel, and dial again after five seconds.     *)
Reconnect ==
  /\ main = "wait" /\ ~up
  /\ main' = "dial"
  /\ UNCHANGED <<file, cfg, reload, reloads, dials, up, loop, tunnels, creators,
                 serverVars, calm>>

(* The network, the server or a failed keepalive ends the connection.      *)
Lose ==
  /\ up /\ up' = FALSE
  /\ UNCHANGED <<file, cfg, reload, reloads, dials, main, loop, tunnels, creators,
                 serverVars, calm>>

(* The server cleans up after a connection that is gone.                   *)
Sweep(c) ==
  /\ ~Live(c)
  /\ Leases!Free(c, Leases!Leased(c))
  /\ local' = [p \in Ports |-> IF owner[p] = c THEN Nil ELSE local[p]]
  /\ UNCHANGED <<file, cfg, connVars, loop, tunnels, creators, calm>>

-----------------------------------------------------------------------------
(* createTunnel.                                                           *)

Becomes(k, new) == creators' = (creators \ {k}) \cup new

Wanted(k) == IF k.tunnel.RemotePort = AnyPort THEN Ports ELSE {k.tunnel.RemotePort}

Grantable(k) == {p \in Wanted(k) : /\ owner[p] = 0
                                   /\ Cardinality(Leases!Leased(k.client)) < MaxTunnels}

(* Variant: the handle gets the configured port, not the actual one.       *)
ListenConfigured(k) ==
  /\ k.pc = "listen" /\ Live(k.client)
  /\ \E p \in Wanted(k) : Leases!Grant(k.client, p)
  /\ Becomes(k, {[k EXCEPT !.pc = "store", !.port = k.tunnel.RemotePort]})
  /\ UNCHANGED <<file, cfg, connVars, loop, tunnels, local, calm>>

(* client.Listen: the server leases the port.                              *)
Listen(k) ==
  /\ k.pc = "listen" /\ Live(k.client)
  /\ \E p \in Wanted(k) :
       /\ Leases!Grant(k.client, p)
       /\ Becomes(k, {[k EXCEPT !.pc = "store", !.port = p]})
  /\ UNCHANGED <<file, cfg, connVars, loop, tunnels, local, calm>>

(* It is refused, or the connection is lost: the goroutine returns.        *)
ListenFails(k) ==
  /\ k.pc = "listen"
  /\ ~Live(k.client) \/ Grantable(k) = {}
  /\ Becomes(k, {})
  /\ calm' = (calm /\ ~Live(k.client))
  /\ UNCHANGED <<file, cfg, connVars, loop, tunnels, serverVars>>

(* c.tunnels.Store                                                         *)
Store(k) ==
  /\ k.pc = "store"
  /\ tunnels' = [tunnels EXCEPT ![k.name] =
                   [tunnel |-> k.tunnel, port |-> k.port, client |-> k.client]]
  /\ Becomes(k, {[k EXCEPT !.pc = "info"]})
  /\ calm' = (calm /\ k.client = dials)
  /\ UNCHANGED <<file, cfg, connVars, loop, serverVars>>

(* sendTunnelInfo, which only the owner of the port can do.                *)
SendTunnelInfo(k) ==
  /\ k.pc = "info"
  /\ local' = IF Live(k.client) /\ owner[k.port] = k.client
              THEN [local EXCEPT ![k.port] = k.tunnel.Local] ELSE local
  /\ Becomes(k, {})
  /\ UNCHANGED <<file, cfg, connVars, loop, tunnels, owner, calm>>

CreateTunnel(k) == Listen(k) \/ ListenFails(k) \/ Store(k) \/ SendTunnelInfo(k)

-----------------------------------------------------------------------------
(* Reload.                                                                 *)

(* The operator changes client.yaml, as long as a reload can still read it *)
(* (MaxReloads) ...                                                        *)
Edit ==
  /\ reload \/ reloads < MaxReloads \/ \E c \in Clients : loop[c].pc = "load"
  /\ \E f \in (Configs \cup {Broken}) \ {file} : file' = f
  /\ UNCHANGED <<cfg, connVars, loop, tunnels, creators, serverVars, calm>>

(* ... and sends SIGHUP or tbore reload.  A request that is already in the *)
(* channel stands for both.                                                *)
TriggerReload ==
  /\ reloads < MaxReloads
  /\ reload' = TRUE
  /\ UNCHANGED <<file, cfg, reloads, dials, up, main, loop, tunnels, creators,
                 serverVars, calm>>

At(c, pc) == c \in Clients /\ loop[c].pc = pc

Goes(c, new) == loop' = [loop EXCEPT ![c] = new]

(* select: both channels may be ready, then either is taken.               *)
LoopEnd(c) ==
  /\ At(c, "idle") /\ Cancelled(c)
  /\ Goes(c, Ended)
  /\ UNCHANGED <<file, cfg, connVars, tunnels, creators, serverVars, calm>>

TakeReload(c) ==
  /\ At(c, "idle") /\ reload
  /\ reload' = FALSE /\ reloads' = reloads + 1
  /\ Goes(c, [pc |-> "load", batch |-> reloads + 1])
  /\ UNCHANGED <<file, cfg, dials, up, main, tunnels, creators, serverVars, calm>>

(* ReloadTunnels: LoadClientConfig and Validate ...                        *)
Load(c) ==
  /\ At(c, "load")
  /\ Goes(c, IF file = Broken THEN Idle
             ELSE [pc |-> "lock", batch |-> loop[c].batch, newCfg |-> file])
  /\ UNCHANGED <<file, cfg, connVars, tunnels, creators, serverVars, calm>>

Locked == \E c \in Clients : At(c, "range") \/ At(c, "cancel") \/ At(c, "close")

(* The connection has opened its tunnels, and has no others' handles.      *)
Settled(c) ==
  /\ main = "wait" /\ c = dials
  /\ creators = {}
  /\ \A n \in Names : tunnels[n] # Nil => tunnels[n].client = c

(* ... tunnelsMutex.Lock; left is what Range has still to visit, add is    *)
(* newTunnels.                                                             *)
Lock(c) ==
  /\ At(c, "lock") /\ ~Locked
  /\ Goes(c, [pc |-> "range", batch |-> loop[c].batch, newCfg |-> loop[c].newCfg,
              left |-> Names, add |-> DOMAIN loop[c].newCfg, name |-> Nil, handle |-> Nil])
  /\ calm' = (calm /\ Settled(c))
  /\ UNCHANGED <<file, cfg, connVars, tunnels, creators, serverVars>>

(* Variant: a change of the local address or the timeout is not seen.      *)
SamePort(c, n) ==
  /\ n \in DOMAIN loop[c].newCfg
  /\ loop[c].newCfg[n].RemotePort = tunnels[n].tunnel.RemotePort

(* The comparison of lines 448-451.                                        *)
Unchanged(c, n) == n \in DOMAIN loop[c].newCfg /\ loop[c].newCfg[n] = tunnels[n].tunnel

(* Range visits each name once, in any order, and sees the handle of that  *)
(* moment: an unchanged tunnel stays, ...                                  *)
Keep(c, n) ==
  /\ At(c, "range") /\ n \in loop[c].left
  /\ tunnels[n] # Nil => Unchanged(c, n)
  /\ Goes(c, [loop[c] EXCEPT !.left = @ \ {n},
                             !.add = IF tunnels[n] = Nil THEN @ ELSE @ \ {n}])
  /\ UNCHANGED <<file, cfg, connVars, tunnels, creators, serverVars, calm>>

(* Variant: every tunnel is closed and opened again.                       *)
CancelEvery(c, n) ==
  /\ At(c, "range") /\ n \in loop[c].left
  /\ tunnels[n] # Nil
  /\ Cancel(c, tunnels[n].port)
  /\ Goes(c, [loop[c] EXCEPT !.pc = "cancel", !.left = @ \ {n},
                             !.name = n, !.handle = tunnels[n]])
  /\ UNCHANGED <<file, cfg, connVars, tunnels, creators, calm>>

(* ... any other is closed: the forward of its port is cancelled through   *)
(* the client of this loop, ...                                            *)
CancelPortForward(c, n) ==
  /\ At(c, "range") /\ n \in loop[c].left
  /\ tunnels[n] # Nil /\ ~Unchanged(c, n)
  /\ Cancel(c, tunnels[n].port)
  /\ Goes(c, [loop[c] EXCEPT !.pc = "cancel", !.left = @ \ {n},
                             !.name = n, !.handle = tunnels[n]])
  /\ UNCHANGED <<file, cfg, connVars, tunnels, creators, calm>>

(* ... and again by Listener.Close, through the client that opened it,     *)
CloseListener(c) ==
  /\ At(c, "cancel")
  /\ Cancel(loop[c].handle.client, loop[c].handle.port)
  /\ Goes(c, [loop[c] EXCEPT !.pc = "close"])
  /\ UNCHANGED <<file, cfg, connVars, tunnels, creators, calm>>

(* and the entry is deleted, whatever handle it has by now.                *)
DeleteTunnel(c) ==
  /\ At(c, "close")
  /\ tunnels' = [tunnels EXCEPT ![loop[c].name] = Nil]
  /\ Goes(c, [loop[c] EXCEPT !.pc = "range", !.name = Nil, !.handle = Nil])
  /\ UNCHANGED <<file, cfg, connVars, creators, serverVars, calm>>

(* Variant: requests that arrived in the meantime are taken as served.     *)
ApplyAndDrain(c) ==
  /\ At(c, "range") /\ loop[c].left = {}
  /\ LET l == loop[c]
     IN /\ creators' = creators \cup
             Spawned(c, l.batch, [n \in l.add |-> l.newCfg[n]])
        /\ cfg' = l.newCfg
  /\ reload' = FALSE
  /\ Goes(c, Idle)
  /\ UNCHANGED <<file, reloads, dials, up, main, tunnels, serverVars, calm>>

(* What is left of newTunnels is created, cfg replaced, the lock released. *)
Apply(c) ==
  /\ At(c, "range") /\ loop[c].left = {}
  /\ LET l == loop[c]
     IN /\ creators' = creators \cup
             Spawned(c, l.batch, [n \in l.add |-> l.newCfg[n]])
        /\ cfg' = l.newCfg
  /\ Goes(c, Idle)
  /\ UNCHANGED <<file, connVars, tunnels, serverVars, calm>>

ReloadStep(c) ==
  \/ LoopEnd(c) \/ TakeReload(c) \/ Load(c) \/ Lock(c)
  \/ \E n \in Names : Keep(c, n) \/ CancelPortForward(c, n)
  \/ CloseListener(c) \/ DeleteTunnel(c) \/ Apply(c)

-----------------------------------------------------------------------------
StartStep == InfoFails \/ Begin \/ OpenTunnels \/ Reconnect

Next ==
  \/ Dial \/ StartStep \/ Lose \/ Edit \/ TriggerReload
  \/ \E c \in Clients : Sweep(c) \/ ReloadStep(c)
  \/ \E k \in creators : CreateTunnel(k)

Spec == Init /\ [][Next]_vars

(* The goroutines of the client go on; nobody else need do anything.       *)
Fairness ==
  /\ WF_vars(StartStep)
  /\ \A c \in Clients : WF_vars(ReloadStep(c))
  /\ WF_vars(\E k \in creators : CreateTunnel(k))

FairSpec == Spec /\ Fairness

-----------------------------------------------------------------------------
(* Properties.                                                             *)

Creators == [client : Clients, batch : 0..MaxReloads, name : Names, tunnel : Tunnel,
             pc : {"listen", "store", "info"}, port : Ports \cup {Nil}]

Handles == [tunnel : Tunnel, port : Ports, client : Clients]

TypeOK ==
  /\ file \in Configs \cup {Broken} /\ cfg \in Configs
  /\ {reload, up, calm} \subseteq BOOLEAN
  /\ reloads \in 0..MaxReloads /\ dials \in 0..MaxDials
  /\ main \in {"dial", "info", "open", "wait"}
  /\ \A c \in Clients : loop[c].pc \in {"idle", "ended", "load", "lock", "range",
                                        "cancel", "close"}
  /\ tunnels \in [Names -> Handles \cup {Nil}]
  /\ creators \subseteq Creators
  /\ owner \in [Ports -> 0..dials]
  /\ local \in [Ports -> Locals \cup {Nil}]

(* The current connection lives and no goroutine is at work.               *)
Quiet == up /\ main = "wait" /\ creators = {} /\ \A c \in Clients : ~Busy(c)

(* Open(n): the tunnel n of the configuration is open at the server, where *)
(* the configuration wants it, and leads to its local address.             *)
Open(n) ==
  LET h == tunnels[n]
  IN /\ h # Nil
     /\ h.tunnel = cfg[n]
     /\ h.tunnel.RemotePort \in {AnyPort, h.port}
     /\ owner[h.port] = dials
     /\ local[h.port] = cfg[n].Local

(* "All changes of tunnels are detected and applied" (README.md:184): once *)
(* a connection is quiet, the tunnels that are open are those of its       *)
(* configuration and no others, unless the server refused one or a reload  *)
(* overlapped the opening of the tunnels before it.                        *)
TunnelsMatch ==
  Quiet /\ calm =>
    /\ \A n \in DOMAIN cfg : Open(n)
    /\ Cardinality(Leases!Leased(dials)) = Cardinality(DOMAIN cfg)

(* "Only changed tunnels are touched" (README.md:216): such a reload never *)
(* closes the port of a tunnel that its configuration has as it is.        *)
UnchangedKept ==
  [][\A p \in Ports : calm /\ Live(owner[p]) /\ owner'[p] # owner[p] =>
       \E n \in Names : /\ tunnels[n] # Nil /\ tunnels[n].port = p
                        /\ LET new == loop[dials].newCfg
                           IN n \in DOMAIN new => new[n] # tunnels[n].tunnel]_vars

(* A reload is not lost, whenever it is asked for: the client gets to the  *)
(* configuration, or it is edited once more, or the connection is lost.    *)
ReloadApplied ==
  \A f \in Configs : reload /\ file = f ~> cfg = f \/ file # f \/ ~up

(* "Reconnects by itself ... tunnels are available in the long run"        *)
(* (README.md:15): the tunnels of a quiet connection are open.             *)
TunnelsAvailable == Quiet => \A n \in DOMAIN cfg : Open(n)

=============================================================================
