# tbore in TLA+

tbore tunnels TCP over SSH: a client behind a NAT opens an SSH connection to a public
server, asks it to listen on ports, and the server relays every connection to such a
port back through the SSH connection to a local service. This directory models the
parts of the program whose correctness depends on what several goroutines, processes
and failures do to each other. All paths are relative to the repository.

## 1. The system

| part | state | operations | called by |
| --- | --- | --- | --- |
| server sessions (`pkg/server/server.go`) | `sem` (connections), `activeConns`, per session a map `Tunnels` port -> `TunnelInfo` (listener, state, counter, semaphore) | accept, handshake, request loop, clean-up, accept loop per tunnel, handler per user connection | SSH mux, the operating system |
| authentication gate (`server.go` 175-205, 244-250) | none of its own | pre-handshake check, password callback | SSH handshake |
| block list (`pkg/auth/blocker.go`) | a bbolt bucket IP -> record, an LRU cache of pointers to records, the records | `IsBlocked`, `RecordFailure`, `ResetFailure`, `cleanExpired` | the gate; its own timer |
| LRU cache (`blocker.go` 342-401) | a map and a doubly linked list under one mutex | `get`, `put`, `remove` | the block list |
| relay (`server.go` 532-662, `client.go` 278-365) | two copy goroutines, a time stamp, pooled buffers | half-close, idle watchdog | handlers on both sides |
| client (`pkg/client/client.go`) | the SSH client, `tunnels` (handles), `cfg`, `reloadChan` | reconnection, `createTunnel`, reload, health reports, keepalive | signals, control socket |
| state of tunnels (`client.go` 224-276, `server.go` 350-374, 498, 537-541) | `TunnelInfo.State`, checks and reports under way | health check, report, user connection | a ticker, the users |
| configuration (`pkg/config`) | - | defaults, validation | start, reload |
| authenticator, keys (`pkg/auth`) | a secret, a key file | HMAC over a random challenge | client, gate |
| status and command line (`status.go`, `tbore.go`) | - | formatting, Unix sockets | the operator |

How they interact. The server accepts a TCP connection, takes a permit, asks the block
list, and runs the SSH handshake, whose password callback asks the block list again
and reports failures and successes to it. An established session has three goroutines:
one waits for the connection to end and cleans up, one serves the client's global
requests, one rejects channels. A forward request opens a listener and starts an
accept loop; each user connection gets a handler that opens a channel to the client
and relays. All of these share the session's `Tunnels` map and the `TunnelInfo`
objects, without a lock, and the status goroutine reads them too. The block list is
called by the goroutines of all connections; only its cache has a mutex, and only for
each single operation.

What is hard about it, and where: the list of hazards in `PROJECT.json`, each at its
line. In short

- the clean-up of a session runs while its request loop still has requests, its accept
  loops still have connections and its handlers still hold tunnels;
- a port is a resource of the host, shared by sessions, and tunnels come and go under
  the same port number;
- read-modify-write sequences of the block list span a cache operation, a transaction
  and unprotected writes to a shared record;
- cache, database and memory may disagree after evictions, failed updates and
  restarts;
- limits (connections, tunnels, connections per tunnel, cache entries) hold only if
  every path returns what it took.

What makes each part correct: no limit is exceeded and no permit lost; a port belongs to
one session, is closed only for that session and is given back; a lost session and its
users come to an end; nobody is refused for less than `auth_max_failures` failures of
his own, nor for longer than the latest of them warrants; failures that nothing overlaps
do block; the cache stays bounded and evicts the least recently used; a client whose
connection is quiet has the tunnels of its configuration, and no reload is lost; a relay
is a stream in both directions, is cut for idleness only when it is idle, and ends when
its ends do; the state shown of a tunnel follows its service; a configuration that is
accepted satisfies the assumptions of the other modules.

## 2. The modules

| module | what it is |
| --- | --- |
| `PortLeases` | abstract: ports are leased exclusively to clients, each within a quota |
| `ServerTunnels` | the server after authentication |
| `MCServerTunnels` | request sets and symmetry for TLC |
| `ServerTunnelsProofs` | theorems about `ServerTunnels` |
| `LRU` | the cache as operators on a value |
| `LRUCache`, `MCLRUCache` | the cache alone, against independent time stamps |
| `LRUProofs` | lemmas about sequences and the operators of `LRU` |
| `LRUCacheProofs` | theorems about `LRUCache` |
| `AuthBlocker` | block list, cleaner and gate, EXTENDS `LRU` |
| `MCAuthBlocker` | sets of addresses and connections for TLC |
| `MCLogins` | the same with one more history variable, for a run that shows a disagreement |
| `AuthBlockerProofs` | theorems about `AuthBlocker` |
| `TunnelClient` | the client, with the actions of `PortLeases` as its server |
| `MCTunnelClient` | configurations for TLC |
| `TunnelClientProofs` | theorems about `TunnelClient` |
| `Stream` | abstract: one direction of a connection, in order or broken |
| `Relay` | both processes' part in one user connection |
| `MCRelay` | amounts of data and timeouts for TLC |
| `RelayProofs` | theorems about `Relay` |
| `Health` | `TunnelInfo.State`: health checks and users |
| `MCHealth` | two tunnels for TLC |
| `HealthProofs` | theorems about `Health` |
| `Config` | defaults and validation, operators without state |
| `ConfigProofs` | theorems about `Config` |

How they fit together: `ServerTunnels` is proved to implement `PortLeases`, and
`TunnelClient` takes the grants and releases of `PortLeases` for its server. The handler
of `ServerTunnels` waits in a position `relay` for what `Relay` does in detail, for one
connection. `AuthBlocker` is the gate before a session of `ServerTunnels`, on the cache
`LRU`. `Health` takes the ports that `TunnelClient` gets as given. `Config` says what
the constants of all of them can be.

A definition marked *Variant* in its comment is the definition after it with a
plausible mistake in it. Specifications never use variants; replacing a definition by
its variant makes the property named with it in `PROJECT.json` fail, which shows that
the property depends on that line of the code.

### ServerTunnels

One operator per goroutine position. `conn[s]` is where `handleConnection` of session
`s` is; `worker[s]` and `queue[s]` are its request loop and what the SSH mux has
buffered for it; `loop[t]` is `acceptClientConnections` of tunnel `t`; `user[u]` is a
user connection from its SYN to the end of its `handleClientConnection`. `tunnels[s]`
is `connInfo.Tunnels`, `listener[p]` the open listener of port `p`, `info[t]` a
`TunnelInfo`. Pointers are kept apart from what they point to, since the code looks a
tunnel up anew at every use.

| code | actions |
| --- | --- |
| `Start`, `handleConnection` | `Accept`, `Establish`, `Refuse`, `Lose`, `Sweep` (`SweepBegin`, `SweepClose`, `SweepEnd`), `Unregister`, `Release` |
| the request goroutine (271-292) | `Receive`, and `Serve` with one action per handler |
| `handleForwardRequest` | `ForwardRefused`; `ForwardListen` (the port is bound), `ForwardInsert` (map write, accept loop) |
| `handleCancelForwardRequest` | `CancelMiss`; `CancelClose`, `CancelDelete` |
| `handleTunnelInfoRequest`, `handleHealthReportRequest` | `TunnelInfo`, `HealthReport` |
| `acceptClientConnections` | `LoopAccept`, `LoopStop`, `LoopGone`, `LoopFull`, `LoopAcquire`, `LoopSpawn` |
| `handleClientConnection` | `HandlerStart`, `HandlerOpen`, `HandlerOpenFail`, `HandlerEnd`, `HandlerRelease`, `HandlerDone` |
| Go runtime | `MapRace`: a map access during a write of another goroutine ends the process |

`ActiveConns++` and `ActiveConns--` are a load and a store, each with its own step. The
clean-up closes the listeners one at a time (`SweepClose`), and the request loop may
write the map meanwhile: `sweep[s]` says of each port whether the `range` over the map
has to visit it (it was there at the beginning and has stayed), may or may not (it was
inserted since), or has done so. `HandlerRelease` panics when the semaphore has nothing
to release; then `crashed` is set and nothing moves any more, as after `MapRace`.

### AuthBlocker

A *worker* is the goroutine of one connection. `heap` holds the record objects, `lru`
the cache with pointers to them, `disk` the bucket. Each load, store and marshalling
of a shared record is a step, as are each cache operation and each transaction,
because that is what other goroutines can come between.

| code | actions |
| --- | --- |
| `handleConnection` 244-256 | `Connect`, `RefuseConnection`, `AdmitConnection`, `HangUp` |
| `PasswordCallback` | `Password`, `RefusePassword`, `WrongPassword`, `RightPassword` |
| `RecordFailure` | `RecordFailure`, `Load`, `Store`, `Judge`, `Cache` |
| `getRecord` | `LookupHit`, `LookupMiss`, `View`, `ViewNothing`, `Backfill`, `Garbled` |
| `putRecord`, `deleteRecord` | `Marshal`, `Commit`; `Delete` (an `Update` may fail: `DiskMayFail`) |
| `ResetFailure` | `Delete`, `Remove` |
| `cleanExpired` | `CleanScan`, `CleanDelete`, `CleanRemove` |
| outside | `Tick`, `Restart` |

bbolt and the Go runtime are external. A View transaction reads one committed state,
an Update is atomic and either commits or not. A slice returned by `Get` is valid
until its transaction ends, and `getRecord` uses it later: `Bytes` says what may be in
it then, and `PageReuse` whether pages are reused that early (two updates must have
gone by). A record nothing points to any more is reused (`Allocate`), so that pointers
need not grow.

`past[ip]` is history, which no action looks at. `row` counts the failures recorded since
the address last logged in *clearly*: with its record gone from the database and no other
connection of it holding what the record was (`Cleared`). `last` is when the latest was
decided. `sure` counts those of them that were recorded one after another while no other
connection of the address and no pass of the cleaner had its record in hand
(`Contended`), with an `Update` that went through; it starts again at zero when one of
these fails, and `fails` counts wrong passwords for the bound `MaxFails`. `misread` says
that bytes of a reused page were taken for the record of the address.

### TunnelClient

`main` is where `Start` is, `loop[c]` the reload loop of the `c`-th SSH client,
`creators` the `createTunnel` goroutines under way (those that have returned or sit in
`Accept` are not in it), `tunnels` the map of handles. `file` is `client.yaml`, which
the operator may change at any time, `cfg` the configuration in memory. A handle is a
value: the code changes it only just before it deletes it.

| code | actions |
| --- | --- |
| `Start` | `Dial`, `InfoFails`, `Begin` (the reload loop starts), `OpenTunnels`, `Reconnect` |
| `createTunnel` | `Listen` or `ListenFails`, `Store`, `SendTunnelInfo` |
| `TriggerReload`, `reloadLoop` | `TriggerReload`, `TakeReload`, `LoopEnd` |
| `ReloadTunnels` | `Load`, `Lock`, then for each name `Keep`, or `CancelPortForward`, `CloseListener`, `DeleteTunnel`; `Apply` |
| `handleForwardRequest`, `handleCancelForwardRequest` of the server | `Leases!Grant`, `Leases!Free` |
| outside | `Lose`, `Sweep` (the server's clean-up, some time after the loss), `Edit` |

The server is `PortLeases`, which `ServerTunnels` is proved to implement: what a
client meets at the other end is a lease or a refusal, never the server's goroutines.
`Range` visits each name once and sees the map as it is at that moment, which is what
`sync.Map` promises. Two reload loops may run at once, the older one for a connection
that is gone; the lock orders their passes.

`calm` records history: it is true from a `Dial` on until the server refuses a port, a
reload starts before the goroutines that open tunnels are done (or tunnels are opened
during one), or a goroutine of an older connection stores a handle.

### Relay

Six wires, one for each direction of the three connections user - server - client -
local service. A wire has the data under way (at most `Window` pieces; a write blocks
when it is full), `fin` (the writer's end of file), `deaf` (the reader has closed) and
`cut` (a reset is on its way). Closing a TCP connection ends the own reads and writes at
once. Closing an SSH channel does not: `Close` only sends a message, and a copy that waits
in `Read`, or in `Write` for a full window, goes on waiting until the other side's close
has come or the connection is lost. `hung[p]` says how far side `p` is with that
exchange. `copy[c]` is where a copy goroutine is and what its
buffer holds.

| code | actions |
| --- | --- |
| `handleServerChannels` 287-301, `OpenChannel` | `Dial`, `DialFails`; `Open`, `OpenFails` |
| `copyBufferWithTimestamp`, `copyBufferRW`, `copyBuffer` | `Read`, `Stamp` (server only), `Write`; `ReadFails` and `WriteFails` return with a `CloseWrite` |
| `wg.Wait` and the deferred closes of both sides | `Finish` |
| the watchdog goroutine (591-621) | `Decide` (the test), `CloseChannel`, `CloseUser`, with the copies free to go on in between |
| x/crypto/ssh, on the close of a channel by the peer | `Hear` |
| outside | `Tick`, `Lose`, and what the two ends do: `EndSends`, `EndFinishes`, `EndCloses`, `EndReads`, `EndSeesEnd`, `EndIsReset` |

Time passes in half seconds, because the code compares two clock readings that were
both cut to whole seconds. `age` is that difference as the code sees it, `idle` the
time that has really passed since the server last read; `idle` is history and no
action looks at it. Both stop counting where no comparison can tell any more. The
watchdog may wake at any time after the timeout, a superset of its ticker.

### Health

`state[t]` is `TunnelInfo.State`. Checks and reports under way are counted, not
ordered: their goroutines are independent, so a report can overtake an older one.
`Reported` finds the tunnel by the configured port, as the code does.

| code | actions |
| --- | --- |
| `healthCheckLoop`, `checkTunnelHealth` | `Interval`, `Checked` |
| `reportTunnelHealth`, `handleHealthReportRequest` | `Reported` |
| `acceptClientConnections`, `handleClientConnection` | `UserAccepted`, `UserRefused` |
| `handleServerChannels` | `UserDialled` |
| outside | `ServiceTurns`, `Reconnect` |

### Config

`SetDefaults`, `ValidServer`, `IsValidPort`, `SetClientDefaults`, `ValidClient` are
`setDefaults` and `Validate` of the two configurations as operators on records.
Nothing in them changes state, so there is no run; `ConfigProofs` is about every file.

## 3. What the runs check

`tlc -config X.cfg M`, with the module and the configuration of the table below.
Deadlock is checked in the runs of the block list, whose clock and whose connections
never run out; it is not in the others, where a finite supply (session identifiers,
`TunnelInfo`s, calls) is used up in the end.

### Runs that pass

| run | question | instance |
| --- | --- | --- |
| `server_ports` | do sessions that come and go with their forwards, cancels and clean-ups keep the accounts of ports and connections, and implement `PortLeases`? | two sessions, a port in the range and two outside it (reachable by asking for port 0), three `TunnelInfo`s, two buffered requests, two tunnels per session |
| `server_users` | do users, accept loops and handlers keep the permits of a tunnel, and is no user forgotten, whatever the request loop does to it? | one session, one port, two users, two `TunnelInfo`s, every kind of request |
| `server_live` | does a lost session give back its permit, and does every user come to an end? | as `server_users` with forwards, cancels and two buffered requests, under `FairSpec` |
| `cache` | does the LRU cache stay bounded and evict what was least recently used? | four keys, two records, capacity two, up to seven calls |
| `blocker_races` | is nobody refused before his threshold, and do failures that are surely counted block, with everything going wrong at once? | two IPs, two connections, the cleaner, a cache of one record, failing updates, restarts, reused pages; records expire |
| `client_reload` | does a reload touch only what changed, and is none lost? | one connection that may be lost, two tunnels, two configurations and an invalid one, two reloads, under `FairSpec` |
| `client_reconnect` | do server, handles and configuration agree once all is quiet? | two connections, one reload, the rest as above |
| `relay` | is a relay a stream in both directions, cut only when idle, and does it end? | one connection: a piece and an answer of two without a timeout, an answer of two alone with a timeout of a second; windows of one piece, every fault, under `FairSpec` |
| `health` | does the state of a tunnel follow its service in the end? | a tunnel on its own port and one on any port, two checks and two users of each at a time, one loss of the connection, under `FairSpec` |

The properties, by run:

- `TypeOK` (one in each module): the type invariant.
- `TunnelQuota`: a session never has more listeners than `max_tunnels_per_client`,
  though the check of line 435 and the map write of line 452 are far apart.
- `PortsAccounted`: an open listener is the one its session's map holds, or the one
  the request loop has just opened, or belongs to a session that is gone.
- `Admission`: `sem` holds one permit for each connection being handled. No path out
  of `handleConnection` loses one or gives one back twice.
- `LeftOpenBounded`: of a session that was lost, the clean-up leaves open at most the
  port its request loop is binding at that moment and one for each request still
  buffered; each request that is served later uses up its share. (That nothing is left
  open is `PortsReleased`, which does not hold, section 6.)
- `OnlyOwnerCloses`: no step closes or replaces a listener of another session;
  clean-ups and cancels of one client leave the other's ports alone.
- `ImplementsLeases`: the server implements `PortLeases`, with the lease of a port
  read off `listener`.
- `PermitsMatch`: as long as its port was bound only once, a tunnel never serves more
  users than its semaphore counts, nor more than the limit, and while it is in the map
  the semaphore counts exactly the users between acquisition and release. What happens
  otherwise is what `stale_permit` is about.
- `PanicsOnlyRebound`: and that is the only cause: the server panics over a semaphore
  only if some session has bound a port twice.
- `UsersAttended`: a user in a backlog has an open port and an accept loop that runs or
  is about to start; one that was accepted is in the hands of that loop, and of one only.
- `SessionReleased`, `UsersAnswered`: liveness, see section 4.
- `CacheBounded`: the map of the cache has exactly the keys of the list, each once,
  and at most the capacity.
- `LeastRecentEvicted`: a key that leaves the cache by a `put` was the one whose last
  `get` or `put` was longest ago. The stamps are kept by the specification beside the
  cache, not read off the list.
- `NeverRefusedEarly`: a connection or a password is refused only if
  `auth_max_failures` failures of that very address were recorded since it last logged in
  clearly, and only for `auth_block_duration` after the latest of them. Lost updates,
  evictions, errors of the database and restarts make the list more lenient, never
  stricter. Two faults do make it stricter: a login while another connection of the
  address has the old record in hand and puts it back (`logins` shows it; such a login is
  not clear), and the page that is read after its transaction, which the property exempts
  (`misread`) for the address it happens to and for no other.
- `BlockEnforced`: the other direction. Once `auth_max_failures` failures of an address
  are sure, no connection of it is admitted and no password of it judged for
  `auth_block_duration` from the latest, whatever the cache evicts, the cleaner deletes, a
  restart forgets, and other connections of it do from then on. Failures recorded while
  two connections, or one and the cleaner, had the record in hand may be counted as one or
  be lost; of these the property says nothing, and the block may come late.
- `UnchangedKept`: a reload of a calm connection never closes the port of a tunnel the
  new configuration has as it was, although it cancels by port number, and twice.
- `ReloadApplied`: a reload that is in the channel is taken and brings the client to
  the configuration that was in the file, unless that is edited again or the
  connection is lost. It holds whatever another reload is doing, and for a loop that
  outlives its connection.
- `TunnelsMatch`: when a calm connection is quiet, the tunnels of the configuration,
  the handles and the leases of the server are the same: each tunnel is open at the
  port and for the local address it should be, and no other port is open. It says nothing
  of a connection that is not calm: there the code may fail, see section 6.
- `ImplementsStreams`: from the user to the local service and back, what is received
  is a prefix of what was sent, in order and once, and a clean end of file comes after
  all of it, unless the SSH connection was lost, the channel refused, the watchdog
  fired or the sender reset. No order in which copies end, half-close and close loses
  data that nobody gave up.
- `ClosesOnlyIdle`: the watchdog decides to close a relay only if at that moment the
  server has read nothing for the timeout less one second - what cutting both clock
  readings costs - or a copy is between a `Read` and the store of its time. It is about the
  test of line 602. What a copy reads between that and the closes of lines 605 and 606 is
  cut off although the relay is no longer idle; nothing in the code prevents that.
- `ServerEnds`: with a timeout the server's part of a relay ends once no data comes,
  whatever the ends do: they may neither read nor close. The network has to deliver the
  close of the channel and its answer, or the connection to be lost.
- `HalfCloseEnds`: if both ends read until the end of file and then close, then an end
  of file of one ends all four copies and both sides, without a timeout too. `README.md`
  176 says within seconds; the property says in the end.
- `StateSettles`: of a tunnel that has the port it asked for, an error is not shown
  for ever when the service works, and shown again and again when it does not, in
  whatever order reports and users arrive.

Bounds and why they suffice. Two sessions are enough for one to take a port another has
just given back, the situation ports can be confused in; three `TunnelInfo`s for a port
to be forwarded, cancelled and forwarded again while another session has one. Two
buffered requests let a cancel and a forward wait behind each other while the session
ends. Two tunnels per session let a clean-up find one port open and have another come
after it, which is what `LeftOpenBounded` counts; in `server_users`, where there is one
port, `MaxTunnels = 1`, and `MaxConnsPerTunnel = 1` puts the limit within reach of two
users. The ports outside the range are interchangeable, and so are sessions and users.
For the block list `MaxFailures = 2` separates "counted" from "blocked"; a `BlockDur` of
two and a `RecordTTL` of one let a block be in force at two times and end, and a record
expire, within a clock of three; `MaxFails = 2` is one row of failures, of one address
or split over two. A cache of one record makes every second address evict the first, and
a second address is what makes "its own failures" mean something. Failures beyond the
second, and a third address, are left to the theorems. For the client, the two
configurations differ by a tunnel that comes or goes, one that keeps its port and
changes its local address, and one that takes any port; the second connection is what
makes handles, goroutines and reload loops of the first stale. Two reloads let one be
asked for during another. A file is edited only while a reload can still read it. A
relay with a window of one piece blocks a copy as soon as its reader is slow; two pieces
from the local service make one wait behind another in each of the two processes, and
let a lost connection drop the second and not the first. With a timeout the user may
leave an answer unread, so that the server's copy towards it blocks in a full window;
the window of the channel is full on the client's side only, since the user sends
nothing there. A timeout of one second is where half a second of error matters most;
`RelayProofs` is about every timeout. Two checks at a time let a report overtake an
older one, and two users let one fail while another is accepted. The theorems of section
5 remove the bounds for the properties they are about.

The larger state spaces have 1,967,949 distinct states (`server_ports`), 2,252,048
(`server_users`), 500,620 (`server_live`) and 341,222 (`relay`); two minutes and a half is the
longest of these.

### Runs that show a disagreement

Each checks one property that a document or comment states and the code does not keep;
TLC gives the shortest history.

| run | property | history |
| --- | --- | --- |
| `stale_permit` | `PermitsReturned`: whichever path returns, the tunnel's permit is released | a user is accepted on a tunnel; the client cancels and forwards the port again; the handler looks the port up, finds the new tunnel and releases a permit that was never taken: the server panics (`PanicsOnlyRebound`: this is the only way to it) |
| `logins` | `OnlyInARow` (`README.md` 117, `TestResetOnSuccess`): an address is blocked after `auth_max_failures` failures in a row, and a login starts a new row | a connection has failed once; another has read the record from the database; the first logs in, which deletes the record from database and cache; the other puts its copy into the cache (`blocker.go` 280); one more failure blocks the address |
| `relay_stuck` | `NoCopyLeftBehind` (`README.md` 206): a direction that is closed does not leave the other one blocked for ever | the user closes, the client's copy to the local service ends and half-closes it; the service says nothing; the copy from it, the goroutine, the buffer and the connection stay for ever, since only the server has a watchdog |

Others are stated in the modules and have no run of their own; section 6 has them.

## 4. Fairness

Only the program's own goroutines are assumed to go on, each by weak fairness, since
the Go scheduler runs a goroutine that stays runnable. On the server these are the
clean-up of a lost session (the steps of `Sweep`, `Unregister`, `Release`), the request loop
(`Serve`), the accept loops, and the handlers once they have started or their relay is
over. `HandlerOpenFail` is fair when the session is lost, since opening a channel on a
dead connection fails; while it lives the client may take its time. Clients, users and
the network owe nothing: `Lose`, new requests, new users, and the end of a relay of a
living session are never forced.

- `SessionReleased`: a session that is lost is unregistered and gives back its permit.
- `UsersAnswered`: a user connection of a lost session that does not relay yet is
  closed, wherever it is: in a backlog, at the accept loop, at `OpenChannel`.
- `ReloadApplied` assumes that `Start`, the reload loops and the goroutines that open
  tunnels go on, and nothing of the network, the server's clean-up, the operator or
  `Dial`.
- `Relay`: the copies, the closes of both sides, the watchdog and the clock go on; a
  dial ends, since it has a timeout of 5 seconds; a channel that is answered or lost
  is opened or fails. Of the network, `Hear` is fair while the connection lives: it
  delivers the close of a channel and the answer to it, as TCP does until it gives the
  connection up, which is `Lose`. Nothing is assumed of the ends for `ServerEnds`. For
  `HalfCloseEnds` the property itself assumes that they read and close (`Polite`), and
  for `NoCopyLeftBehind` nothing, which is its point.
- `Health`: the ticker ticks, dials end and requests are served. Services, users and
  the loss of the connection are free.

Strong fairness is used nowhere. None of the block list's properties is a liveness
property: it has no loops that wait.

## 5. What is proved

All theorems are about every value of the constants that satisfies the module's named
assumption: `ServerAssumption` (finite sets, limits that are natural numbers),
`BlockerAssumption`, `CacheAssumption` (a capacity of at least one), `RelayAssumption`,
`HealthAssumption`, `ClientAssumption` (finite sets of names and ports, configurations
that are functions from names to tunnels). What a theorem needs beyond that is said with
it. That limits are positive is what `Validate` of `config.go` requires; the numbers of
sessions, users, addresses and connections are arbitrary.

### ServerTunnelsProofs

`Invariance` is `Spec => []IInv` with

    IInv == TypeOK, PortRefs, UserRefs, WorkerSound, FreshSession,
            PortsAccounted, ClaimQuota

`TypeOK` and `PortsAccounted` are not inductive alone. A step that closes a listener
knows from its goroutine's local pointer which `TunnelInfo` it means, and that this is
the object behind the port is what `PortRefs` says; `WorkerSound` ties the local
variables of the request loop to the session's map (a request loop between
`ForwardListen` and `ForwardInsert` holds a listener that no map has yet);
`FreshSession` says that an identifier not yet in use owns nothing. `ClaimQuota`
counts the listener that is open but not yet in the map together with the map, which
is what makes the quota check of line 435 hold until line 452. It is a statement about
cardinalities; the lemmas on finite sets are at the head of the module. The proof has
one step per action and under it one step per conjunct the action can disturb.

- `TypeCorrect`, `PortsAgree`, `QuotaKept`: `TypeOK`, `PortsAccounted`, `TunnelQuota`
  follow.
- `OwnerCloses`: the action property `OnlyOwnerCloses`.
- `LeasesImplemented`: `Spec` implements `PortLeases`. Initial states map to initial
  states and every step maps to a grant, a release or a stutter.
- `AdmissionKept`: `Admission` is inductive together with `TypeOK`. The set it counts
  changes by one session at a time, and with it `sem`.

`PermitInvariance` is `Spec => []PInv`, and `PermitsKept`, `PermitsMatch`, follows.

    PInv == SameKeys, OneLoop, NotStarted, Counted(t) for every t that was made

`PermitsMatch` speaks of a tunnel while its port was bound only once, but the code looks
tunnels up by session and port: a permit taken from one `TunnelInfo` may be given back to
another, and a step about one tunnel changes the count of another. `SameKeys` says that
this never leaves the session and port, so it cannot touch a tunnel that is alone under
them. `OneLoop` says that an accepted user is in the hands of the loop that accepted it
and of no other, so nobody is counted twice; `NotStarted` gives a tunnel its empty count
before `ForwardInsert`. The users and tunnels may be infinitely many: `Counted` also
says that what it counts is finite.

- `PanicsExplained`: `PanicsOnlyRebound`. A release finds the tunnel that `Current`
  names; if no port was bound twice that is the tunnel of the permit, whose holder
  `Counted` has in its count, so the semaphore is not at zero. A crash is final, and no
  action makes the tunnels of a crashed server fewer.
- `LeftOvers`: `LeftOpenBounded`, together with the bound on the queues. Once the loop
  over the map has begun it is about the ports it will not visit any more for certain
  (`Missed`): at the beginning at most the one the request loop is binding. Only a step of
  the session's own request loop adds one, and it takes the request that is served off
  the queue, which after the loss of the session nobody fills; `SweepEnd` comes when none
  of the others is open.
- `UsersKept`: `UsersAttended`, with the additions that a tunnel whose port is open has
  its loop or a request loop about to start it, and that an accepted user is the one its
  loop has in hand (`AInv`). A loop ends only by `LoopStop` with its port closed, when
  the backlog is gone, or by `LoopGone`, which closes the user it holds.

### LRUProofs

The four operators keep a cache well formed (`EmptyWellFormed`, `GetWellFormed`,
`PutWellFormed`, `RemoveWellFormed`): map and list agree, no key is twice in the list,
the capacity is kept. They rest on lemmas about taking an element out of a sequence
without repetitions and putting it in front.

### AuthBlockerProofs

`BlockerInvariant` is `Spec => []IInv` with

    IInv == TypeOK, CacheBounded, RecordsSound, CleanerSound

`BlockerTypes` and `BlockerBounded` are its first two parts; the second says that list
and map of the cache stay in step and within `auth_lru_size` (README 163), by the lemmas
of `LRUProofs`, so there is no run for it here.

`RefusedForOwnFailures` is `Spec => NeverRefusedEarly`. `RecordsSound` says that no record
of an address, wherever it is - the bucket, the cache, a pointer held by a goroutine, a
value read or marshalled but not yet written - counts more failures than `row`, and that
it is blocked only if `row` has reached the threshold and no longer than `last` warrants
(`Sound`). Every copy the code makes keeps this, and an increment is paid for by the
failure that caused it. What is delicate is the login, which sets `row` back to zero: no
copy of the old record may be left, and that is what `Cleared` says. Nothing is assumed
of the database, of pages that are reused, of the number of addresses or of restarts.

`SureFailuresBlock` is `Spec => BlockEnforced`, by a second invariant, `Secure(ip)` for
every address with sure failures: only one connection has its record in hand and the
cleaner does not, and every copy - the bucket, the cached record, what that connection
holds in its position (`Hand`) - has all of them and the block they make (`Kept`), except
those it is about to replace (`Writing`, `Caching`). A frame lemma (`FrameStep`) says that
a step for one address leaves the records, cached pointers and goroutines of the others as
they are, evictions and page counts apart; `OwnStep` is for the connection that has the
record. `CleanScan` cannot find the record expired while the block lasts.

### LRUCacheProofs

`CacheInvariant`: the cache is well formed (from `LRUProofs`) and its list is sorted
by the time of the last use, newest first. The second half is what makes the entry at
the back the least recently used: `EvictsLeastRecent` is `LeastRecentEvicted`,
`CacheIsBounded` is `CacheBounded`, for any keys, records and capacity.

### RelayProofs

`RelayInvariant` is `Spec => [](TypeOK /\ Clock)`. `Clock` relates what the code sees
to what is true: unless some copy of the server is between its `Read` and its `Stamp`,
`idle >= 2 * age + half - 1` (up to where `idle` stops counting). After a stamp in the
first or second half of a second, `age` seconds begin no sooner than that. `Decide` needs
`age >= timeout`, and this gives `OnlyIdleIsClosed`, the property `ClosesOnlyIdle`, for any
timeout and phase. The closes are steps of their own, and the theorem says nothing of what
is read before them. `RelayTypes` is `TypeOK`, which says of `watchdog` that a timeout of 0
never closes anything.

`StreamInvariance` is `Spec => [](Endings /\ StreamInv)`, and `StreamsImplemented`, that both
directions implement `Stream`, follows by steps. A direction is a line of three wires and
two buffers, and `Line` reads it from the receiver back to the sender: the pieces on the
wires and in the buffers are, in order and without a gap, those after what was received,
as far back as the line still carries; a wire whose writer closed or whose reader went
deaf cuts the line there, and what is behind it is lost to this stream. An end of file
that the receiver can come to has nothing missing before it unless the stream is broken.
`Plumbing` ties copies, sides and wires together (a copy that is done has left an end of
file; a copy loses its input only with its side or to the watchdog), and `Endings` says
who may have sent the close of the channel: a side that has ended, the watchdog, or one
that answers such a close. That is what shows
that no order of half-closes and closes drops data silently. The proof has one lemma for
each kind of step on a line - a piece enters, moves on, leaves, the line ends or breaks -
and applies it to the step's own direction; the other direction is untouched, or broken.

### TunnelClientProofs

`ClientTypes` is `TypeOK`; the strengthening `Typed` adds that nothing is of a connection
that has not been dialled, and what a reload loop carries in each of its positions.

`ConnectionInvariance` is `Spec => []CInv`. `CInv` follows one connection while it is up
and calm. Until `OpenTunnels` nothing in the client and at the server is of it (`Fresh`).
While no reload has the lock, every tunnel of `cfg` has its handle or exactly one
goroutine about to store one, and the ports leased to the connection are those of these
handles and goroutines, one each (`Opening`). A reload that takes the lock finds all of
them open, and until it lets go of it every tunnel is as before, or kept because the new
configuration has it, or closed and noted in `newTunnels` (`Replacing`, `Noted`); `Apply`
turns that back into `Opening` for the new configuration. The second `Cancel` of a tunnel
goes by port number again: `Replacing` says that the port is nobody's by then, since no
goroutine opens one during the lock.

- `TunnelsKept`: `TunnelsMatch`, which is `Opening` with no goroutine left, and a
  bijection from the tunnels to the leased ports for the count.
- `UnchangedTunnelsKept`: the action property `UnchangedKept`. Only `CancelPortForward`
  can close a port of the current connection, and its guard is the comparison.

### HealthProofs

`HealthInvariant` adds to `TypeOK` that checks and reports under way are together at
most `MaxFlight`, and so are users. `HealthTypes` follows: no report and no user gives
a state to a tunnel that has no port.

### ConfigProofs

No assumption but the types of the fields.

- `DefaultsOnce`: a second pass of the defaults changes nothing, which matters because
  `max_conns_per_tunnel` takes the default of another field.
- `RefusedForCause`: what is refused is refused for something the file says. A
  `max_port` below 1024 without a `min_port` is one such thing: the default of the
  other bound makes it wrong.
- `LimitsUsable`: the limits of a server that starts are positive, its range of ports
  is not empty and does not contain 0, and the durations of the block list are
  positive. These are the assumptions of `ServerTunnels` and `AuthBlocker`. One
  exception is in the theorem: a negative `max_conns_per_tunnel` passes, and gives a
  semaphore that lets no user in.
- `ClientUsable`: the ticker of the health checks starts, and defaults do not touch
  the tunnels, which a reload compares field by field.

### Only model-checked

Every invariant, action property and refinement that a passing run checks has a theorem.
What is left to TLC is liveness: `SessionReleased`, `UsersAnswered`, `ReloadApplied`,
`ServerEnds`, `HalfCloseEnds`, `StateSettles`. Weak fairness is defined by ENABLED, which
the prover does not support. The three properties of the runs that show a disagreement are
false and have none either.

## 6. Divergences without a run, and what is not modelled

### What documents say and the models show to be otherwise

The first three are stated as properties at the end of their modules, with the comment
*what the documentation says and the code does not keep*. To see the history, run TLC
with the property named here in place of those of the `.cfg`.

| property | document | how, and the history |
| --- | --- | --- |
| `PortsReleased` (`ServerTunnels`) | `README.md` 13: the ports of a client that goes offline are released at once | `StalePermit.cfg` with `ForwardRequests`, no users. The client sends a forward and is lost; the clean-up sweeps the map (`server.go` 303); the request loop then serves the buffered request and opens a listener nobody will close. `LeftOpenBounded` is what remains true |
| `TunnelsAvailable` (`TunnelClient`) | `README.md` 15: a client that reconnects has its tunnels | `ClientReconnect.cfg` with `OneConfig`, no reload. The connection is lost; the client reconnects before the server has noticed, its port is refused, and `createTunnel` is not called again (`client.go` 385) |
| `AllSettle` (`Health`) | `README.md` 225: the state is updated at once when a service fails | `HealthStates.cfg` with `OnlyAny` and `Tunnels = {b}`. A report names the configured port (`client.go` 248); that is 0 when the server chose it, and no tunnel has the port 0 |
| - | `README.md` 136: the timeout of a tunnel is 300 by default | `setDefaults` does not look at it and 0 is no timeout: the relay has no watchdog (`Relay` has both cases) |
| - | `README.md` 117: N failures in a row block the IP | two connections of the IP read a count of 0 and both write 1 (`blocker.go` 154): the block comes late. `BlockEnforced` is about the failures that this does not happen to |
| - | `README.md` 165, `blocker.go` 157: a failure during a block extends it | an attempt that begins during a block is refused before `RecordFailure` (`server.go` 179, 246) and does not move the deadline. Only a connection whose password was past that check when another one set the block extends it |

The models also show these, of which no document speaks:

- a forward of port 0 is not checked against `min_port` and `max_port` (`server.go`
  429), and in `server_ports` binds a port outside of them.
- `Tunnels` is written by the request loop while other goroutines read it (`server.go`
  452, 477): `MapRace` ends the process.
- a reload that overlaps the opening of tunnels (`client.go` 119, 436) may leave the
  old and the new port of a tunnel open, or with port 0 two ports.
- a handle of an older connection (`client.go` 458) makes a reload leave a tunnel
  alone that is not open.
- `ActiveConns++` and `ActiveConns--` (`server.go` 492, 514) lose updates, so the
  number shown for a tunnel can stay wrong for ever.
- `cleanExpired` decides in one transaction and deletes in another (`blocker.go`
  223-246); a record renewed in between, even a block, is deleted.
- the closes of the idle watchdog (`server.go` 605, 606) come after its test and cut off
  what a copy has read in between.
- `putRecord` of two connections may commit in the opposite order of their
  marshalling, and a failed `Update` is ignored (`blocker.go` 292): the block is then
  in memory and ends with a restart or an eviction.
- the slice `getRecord` keeps beyond its transaction (`blocker.go` 269) may show
  another address's record once its page has been reused.

### What is not modelled

- TCP and SSH themselves: windows, ends of file, closes and resets are in `Relay` as
  far as a copy can notice them. `Read` returns a piece; splitting a piece over
  several writes and reads is left to the libraries, so is the pool of buffers (a copy
  takes one and returns it).
- HMAC, key files, the SSH handshake: cryptography and I/O. A password is right or
  wrong; a channel opens or fails.
- Command line and control sockets: argument parsing and one-shot requests. What they
  reach is `TriggerReload` and the status output. Of that, the read of the `Tunnels`
  maps is in `MapRace`; formatting, `BlockedCount` and memory figures are not
  modelled, neither are the log lines and the version.
- The `client-info` request only sets a field that is displayed. Requests on a channel
  are refused by goroutines that share nothing.
- The dial of the local service is in the loop that takes channels (`client.go` 288):
  a service that does not answer delays the channels of the others by up to 5 seconds
  each. `Relay` has one connection, whose dial takes any time.
- `handleRemoteConnection` and its copies (`client.go` 513-564). They serve
  `listener.Accept`, but the goroutine of `handleServerChannels` registers for all
  forwarded channels first (line 102), so none reaches a listener. The library is
  outside of this; if it registered first, it would reject the channels.
- Parsing of the files, and addresses and paths in them.
- Names of tunnels are taken to be unique, which `Validate` does not check.
- `Close` of the server and of the block list, which the program never calls. The
  block list without a database file is an LRU cache with the same code paths and no
  disk; only tests use it.
- Deadlines as durations, except for the idle watchdog: a timeout is an event that may
  happen at any time. The product of a timeout with 10^9 overflows only for centuries.

## 7. What could follow

- Proofs: the safety part of the liveness properties, as invariants that say which step
  is possible next (a lost session that is not gone always has a step of its clean-up).
- `Relay` for several connections over one SSH connection, with the loop of dials they
  wait in.
