-------------------------------- MODULE Relay --------------------------------
(***************************************************************************)
(* One user connection relayed to a local service: handleClientConnection  *)
(* of pkg/server/server.go from OpenChannel on, and handleServerChannels   *)
(* of pkg/client/client.go.                                                *)
(*                                                                         *)
(*        user <--TCP--> server <--SSH channel--> client <--TCP--> local   *)
(*                                                                         *)
(* Each arrow is two wires, one per direction.  Server and client run two  *)
(* copies each, goroutines that read one wire and write the next; a copy   *)
(* that ends closes the writing half of its output, and a side whose       *)
(* copies have both ended closes its two connections.  The server also     *)
(* runs the idle watchdog.  User and local service do as they like.        *)
(*                                                                         *)
(* A piece of data is what one Read returns, numbered per direction.  TCP  *)
(* and SSH channels are modelled by what the copies can notice of them:    *)
(* full windows, ends of file, closed and reset connections, the close of  *)
(* a channel and the peer's answer to it, and the loss of the SSH          *)
(* connection with whatever is under way in it.                            *)
(***************************************************************************)
EXTENDS Integers, Sequences

CONSTANTS
  Scenarios,   \* timeouts of the tunnel in seconds (0: none), and bounds on
               \* the pieces that the user and the local service send
  Window       \* pieces a wire holds before a write blocks

Ends == {"user", "local"}

ASSUME RelayAssumption ==
  /\ Scenarios \subseteq [timeout : Nat, pieces : [Ends -> Nat]]
  /\ Window \in Nat \ {0}

Sides  == {"server", "client"}
Copies == {<<"user", "server", "client">>, <<"client", "server", "user">>,
           <<"server", "client", "local">>, <<"local", "client", "server">>}
In(c)  == <<c[1], c[2]>>
Out(c) == <<c[2], c[3]>>
Wires  == {In(c) : c \in Copies} \cup {Out(c) : c \in Copies}
CopiesOf(p) == {c \in Copies : c[2] = p}

Channel  == {<<"server", "client">>, <<"client", "server">>}
Back(w)  == <<w[2], w[1]>>
Near(e)  == IF e = "user" THEN "server" ELSE "client"
Other(e) == IF e = "user" THEN "local" ELSE "user"
Far(p)   == CHOOSE e \in Ends : Near(e) = p
Peer(p)  == IF p = "server" THEN "client" ELSE "server"

VARIABLES
  wire,      \* data under way, ends of file, closed readers, resets
  hung,      \* a side has sent the close of the channel, and got the other's
  copy,      \* position of the copy goroutines and the piece in their buffer
  side,      \* the handler of the server and the goroutine of the client
  timeout,   \* tunnel.ConnTimeout in seconds
  half,      \* half seconds of the clock, 0 or 1
  age,       \* now - lastActivity, in whole seconds of the clock
  idle,      \* half seconds since the server last read anything
  watchdog,  \* what the watchdog has done
  lost,      \* the SSH connection is gone
  left,      \* pieces an end may still send
  sent, got, seen   \* what an end has sent, received and how that ended

sshVars  == <<timeout, lost>>
timeVars == <<half, age, idle, watchdog>>
endVars  == <<left, sent, got, seen>>
vars     == <<wire, hung, copy, side, sshVars, timeVars, endVars>>

Quiet == [data |-> <<>>, fin |-> FALSE, deaf |-> FALSE, cut |-> FALSE]
Off   == [pc |-> "off", item |-> 0]

Init ==
  /\ wire = [w \in Wires |-> Quiet]
  /\ hung = [p \in Sides |-> "no"]
  /\ copy = [c \in Copies |-> Off]
  /\ side = [server |-> "open", client |-> "open"]
  /\ \E s \in Scenarios : timeout = s.timeout /\ left = s.pieces
  /\ half = 0 /\ age = 0 /\ idle = 0
  /\ watchdog = "watching" /\ lost = FALSE
  /\ sent = [e \in Ends |-> 0]
  /\ got = [e \in Ends |-> <<>>]
  /\ seen = [e \in Ends |-> "no"]

-----------------------------------------------------------------------------
(* Connections.                                                            *)

Room(w) == Len(wire[w].data) < Window

(* p closes its TCP connection to q.  With unread data in it it is reset,  *)
(* and q may then lose what is on its way there.                           *)
Closed(W, p, q) ==
  [W EXCEPT ![<<p, q>>].fin = TRUE,
            ![<<p, q>>].cut = @ \/ W[<<q, p>>].data # <<>>,
            ![<<q, p>>].deaf = TRUE,
            ![<<q, p>>].data = <<>>]

(* Close of the channel only sends a message, after what was written.      *)
SendClose(p) == hung' = [hung EXCEPT ![p] = IF @ = "no" THEN "sent" ELSE @]
Hung(W, p)   == [W EXCEPT ![<<p, Peer(p)>>].fin = TRUE]

(* The other side's close arrives and is answered with a close if none was *)
(* sent yet; only now writes that wait for room return.                    *)
Hear(p) ==
  /\ hung[Peer(p)] # "no" /\ hung[p] # "done"
  /\ ~lost
  /\ hung' = [hung EXCEPT ![p] = "done"]
  /\ wire' = Hung(wire, p)
  /\ UNCHANGED <<copy, side, sshVars, timeVars, endVars>>

(* What arrives at a closed TCP connection is dropped and resets it.       *)
Put(w, x) ==
  wire' = IF wire[w].deaf THEN [wire EXCEPT ![Back(w)].cut = TRUE]
          ELSE [wire EXCEPT ![w].data = Append(@, x)]

CanPut(w) == ~wire[w].fin /\ (Room(w) \/ wire[w].deaf)

(* Writing to TCP fails after the own close or a reset; to the channel,    *)
(* after the own close as soon as there is room, and when the other side's *)
(* close has come or the connection is lost.                               *)
PutFails(w) ==
  IF w \in Channel THEN (wire[w].fin /\ Room(w)) \/ hung[w[1]] = "done" \/ lost
  ELSE wire[w].fin \/ wire[Back(w)].cut

CanTake(w) == wire[w].data # <<>> /\ ~wire[w].deaf

(* The end of what was sent, an own close or a reset of TCP: all end a     *)
(* copy alike.                                                             *)
TakeFails(w) == \/ wire[w].fin /\ wire[w].data = <<>>
                \/ wire[w].deaf
                \/ wire[w].cut

-----------------------------------------------------------------------------
(* The two ends: whatever uses the tunnel.                                 *)

Connected(e) == e = "user" \/ side["client"] \in {"relay", "ended"}
OutOf(e) == <<e, Near(e)>>
Into(e)  == <<Near(e), e>>

EndSends(e) ==
  /\ Connected(e)
  /\ left[e] > 0
  /\ CanPut(OutOf(e)) /\ ~wire[OutOf(e)].deaf
  /\ left' = [left EXCEPT ![e] = @ - 1]
  /\ sent' = [sent EXCEPT ![e] = @ + 1]
  /\ Put(OutOf(e), sent[e] + 1)
  /\ UNCHANGED <<hung, copy, side, sshVars, timeVars, got, seen>>

(* Data sent to a side that has closed.                                    *)
EndIsReset(e) ==
  /\ Connected(e)
  /\ wire[OutOf(e)].deaf /\ ~wire[OutOf(e)].fin /\ ~wire[Into(e)].cut
  /\ wire' = [wire EXCEPT ![Into(e)].cut = TRUE]
  /\ UNCHANGED <<hung, copy, side, sshVars, timeVars, endVars>>

EndFinishes(e) ==
  /\ Connected(e)
  /\ ~wire[OutOf(e)].fin
  /\ wire' = [wire EXCEPT ![OutOf(e)].fin = TRUE]
  /\ UNCHANGED <<hung, copy, side, sshVars, timeVars, endVars>>

EndCloses(e) ==
  /\ Connected(e)
  /\ ~wire[Into(e)].deaf
  /\ wire' = Closed(wire, e, Near(e))
  /\ UNCHANGED <<hung, copy, side, sshVars, timeVars, endVars>>

EndReads(e) ==
  /\ seen[e] = "no"
  /\ CanTake(Into(e))
  /\ got' = [got EXCEPT ![e] = Append(@, Head(wire[Into(e)].data))]
  /\ wire' = [wire EXCEPT ![Into(e)].data = Tail(@)]
  /\ UNCHANGED <<hung, copy, side, sshVars, timeVars, left, sent, seen>>

EndSeesEnd(e) ==
  /\ seen[e] = "no"
  /\ Connected(e)
  /\ ~wire[Into(e)].deaf
  /\ TakeFails(Into(e))
  /\ seen' = [seen EXCEPT ![e] = IF wire[Into(e)].cut THEN "error" ELSE "eof"]
  /\ UNCHANGED <<wire, hung, copy, side, sshVars, timeVars, left, sent, got>>

EndStep(e) ==
  \/ EndSends(e) \/ EndIsReset(e) \/ EndFinishes(e) \/ EndCloses(e)
  \/ EndReads(e) \/ EndSeesEnd(e)

-----------------------------------------------------------------------------
(* Opening: the server's OpenChannel and the client's answer to it.        *)

Started(p) == [c \in Copies |-> IF c[2] = p THEN [Off EXCEPT !.pc = "read"] ELSE copy[c]]

(* The local service answers and the channel is accepted.                  *)
Dial ==
  /\ side["client"] = "open" /\ ~lost
  /\ side' = [side EXCEPT !["client"] = "relay"]
  /\ copy' = Started("client")
  /\ UNCHANGED <<wire, hung, sshVars, timeVars, endVars>>

(* It does not answer within 5 seconds, or the connection is lost.         *)
DialFails ==
  /\ side["client"] = "open"
  /\ side' = [side EXCEPT !["client"] = "refused"]
  /\ UNCHANGED <<wire, hung, copy, sshVars, timeVars, endVars>>

(* OpenChannel returns; lastActivity is set at any phase of the clock.     *)
Open ==
  /\ side["server"] = "open"
  /\ side["client"] \in {"relay", "ended"}
  /\ side' = [side EXCEPT !["server"] = "relay"]
  /\ copy' = Started("server")
  /\ half' \in IF timeout > 0 THEN {0, 1} ELSE {0}
  /\ UNCHANGED <<wire, hung, sshVars, age, idle, watchdog, endVars>>

OpenFails ==
  /\ side["server"] = "open"
  /\ side["client"] = "refused" \/ lost
  /\ side' = [side EXCEPT !["server"] = "ended"]
  /\ wire' = Closed(wire, "server", "user")
  /\ UNCHANGED <<hung, copy, sshVars, timeVars, endVars>>

(* The SSH connection ends: what is under way is lost from some piece on,  *)
(* what has arrived is still read, and then both sides read end of file.   *)
Lose ==
  /\ ~lost
  /\ lost' = TRUE
  /\ \E kept \in [Channel -> 0..Window] :
       /\ \A w \in Channel : kept[w] <= Len(wire[w].data)
       /\ wire' = [w \in Wires |->
                     IF w \in Channel
                     THEN [wire[w] EXCEPT !.fin = TRUE, !.data = SubSeq(@, 1, kept[w])]
                     ELSE wire[w]]
  /\ UNCHANGED <<hung, copy, side, timeout, timeVars, endVars>>

-----------------------------------------------------------------------------
(* copyBufferWithTimestamp of the server, copyBufferRW of the client.      *)

At(c, pc) == copy[c].pc = pc

(* Variant: the copy towards the user leaves the time stamp alone.         *)
AfterReadOneWay(c) == IF c[1] = "user" THEN "stamp" ELSE "write"

(* Only the server keeps the time of the last activity.                    *)
AfterRead(c) == IF c[2] = "server" THEN "stamp" ELSE "write"

(* Variant: a TCP connection is closed whole, not its writing half.        *)
ReturnClosing(c) ==
  /\ wire' = IF Out(c) \in Channel THEN Hung(wire, c[2]) ELSE Closed(wire, c[2], c[3])
  /\ copy' = [copy EXCEPT ![c] = [Off EXCEPT !.pc = "done"]]

(* Variant: the end of the input is not passed on.                         *)
ReturnSilently(c) ==
  /\ UNCHANGED wire
  /\ copy' = [copy EXCEPT ![c] = [Off EXCEPT !.pc = "done"]]

(* The copy returns: CloseWrite of its output, the buffer goes back to the *)
(* pool, wg.Done.                                                          *)
Return(c) ==
  /\ wire' = [wire EXCEPT ![Out(c)].fin = TRUE]
  /\ copy' = [copy EXCEPT ![c] = [Off EXCEPT !.pc = "done"]]

Read(c) ==
  /\ At(c, "read")
  /\ CanTake(In(c))
  /\ copy' = [copy EXCEPT ![c] = [pc |-> AfterRead(c), item |-> Head(wire[In(c)].data)]]
  /\ wire' = [wire EXCEPT ![In(c)].data = Tail(@)]
  /\ idle' = IF c[2] = "server" THEN 0 ELSE idle
  /\ UNCHANGED <<hung, side, sshVars, half, age, watchdog, endVars>>

ReadFails(c) ==
  /\ At(c, "read")
  /\ TakeFails(In(c))
  /\ Return(c)
  /\ UNCHANGED <<hung, side, sshVars, timeVars, endVars>>

(* atomic.StoreInt64(lastActivity, time.Now().Unix()).                     *)
Stamp(c) ==
  /\ At(c, "stamp")
  /\ copy' = [copy EXCEPT ![c].pc = "write"]
  /\ age' = 0
  /\ UNCHANGED <<wire, hung, side, sshVars, half, idle, watchdog, endVars>>

Write(c) ==
  /\ At(c, "write")
  /\ CanPut(Out(c))
  /\ Put(Out(c), copy[c].item)
  /\ copy' = [copy EXCEPT ![c] = [Off EXCEPT !.pc = "read"]]
  /\ UNCHANGED <<hung, side, sshVars, timeVars, endVars>>

WriteFails(c) ==
  /\ At(c, "write")
  /\ PutFails(Out(c))
  /\ Return(c)
  /\ UNCHANGED <<hung, side, sshVars, timeVars, endVars>>

CopyStep(c) ==
  \/ Read(c) \/ ReadFails(c) \/ Stamp(c)
  \/ Write(c) \/ WriteFails(c)

(* Without a watchdog time makes no difference.                            *)
StopClock == half' = 0 /\ age' = 0 /\ idle' = 0

(* wg.Wait returns and the deferred functions close both connections.      *)
Finish(p) ==
  /\ side[p] = "relay"
  /\ \A c \in CopiesOf(p) : At(c, "done")
  /\ side' = [side EXCEPT ![p] = "ended"]
  /\ SendClose(p)
  /\ wire' = Closed(Hung(wire, p), p, Far(p))
  /\ IF p = "server" THEN StopClock ELSE UNCHANGED <<half, age, idle>>
  /\ UNCHANGED <<copy, sshVars, watchdog, endVars>>

-----------------------------------------------------------------------------
(* The idle watchdog and the clock.                                        *)

(* Variant: a timeout of 0 is taken for one that is over.                  *)
WatchedAlways == side["server"] = "relay" /\ watchdog = "watching"

Watched == side["server"] = "relay" /\ timeout > 0 /\ watchdog = "watching"

UpTo(limit, n) == IF n > limit THEN limit ELSE n

(* Half a second passes; age counts the seconds of the clock that begin.   *)
Tick ==
  /\ Watched
  /\ half' = 1 - half
  /\ age' = UpTo(timeout, age + half)
  /\ idle' = UpTo(2 * timeout - 1, idle + 1)
  /\ UNCHANGED <<wire, hung, copy, side, sshVars, watchdog, endVars>>

(* The test.  The copies go on: what they read from now on may be cut off. *)
Decide ==
  /\ Watched
  /\ age >= timeout
  /\ watchdog' = "decided"
  /\ StopClock
  /\ UNCHANGED <<wire, hung, copy, side, sshVars, endVars>>

CloseChannel ==
  /\ watchdog = "decided"
  /\ watchdog' = "closing"
  /\ SendClose("server")
  /\ wire' = Hung(wire, "server")
  /\ UNCHANGED <<copy, side, sshVars, half, age, idle, endVars>>

(* Variant: the user's connection is left to the copies.                   *)
KeepUser ==
  /\ watchdog = "closing"
  /\ watchdog' = "done"
  /\ UNCHANGED <<wire, hung, copy, side, sshVars, half, age, idle, endVars>>

CloseUser ==
  /\ watchdog = "closing"
  /\ watchdog' = "done"
  /\ wire' = Closed(wire, "server", "user")
  /\ UNCHANGED <<hung, copy, side, sshVars, half, age, idle, endVars>>

Watchdog == Decide \/ CloseChannel \/ CloseUser

(* The watchdog has closed the channel at least.                           *)
TimedOut == watchdog \in {"closing", "done"}

-----------------------------------------------------------------------------
Next ==
  \/ \E e \in Ends : EndStep(e)
  \/ Dial \/ DialFails \/ Open \/ OpenFails \/ Lose
  \/ \E c \in Copies : CopyStep(c)
  \/ \E p \in Sides : Finish(p) \/ Hear(p)
  \/ Tick \/ Watchdog

Spec == Init /\ [][Next]_vars

(* Goroutines run, time passes, a dial ends and a channel is answered.  Of *)
(* the network: it delivers a close and the answer to it, or is lost.  Of  *)
(* the two ends nothing is assumed.                                        *)
Fairness ==
  /\ WF_vars(Dial \/ DialFails) /\ WF_vars(Open \/ OpenFails)
  /\ \A c \in Copies : WF_vars(CopyStep(c))
  /\ \A p \in Sides : WF_vars(Finish(p)) /\ WF_vars(Hear(p))
  /\ WF_vars(Tick) /\ WF_vars(Watchdog)

FairSpec == Spec /\ Fairness

-----------------------------------------------------------------------------
(* Properties.                                                             *)

WireStates == [data : Seq(Nat), fin : BOOLEAN, deaf : BOOLEAN, cut : BOOLEAN]

CopyStates == [pc : {"off", "read", "stamp", "write", "done"}, item : Nat]

(* Every variable has its type; without a timeout nothing times out.       *)
TypeOK ==
  /\ wire \in [Wires -> WireStates]
  /\ hung \in [Sides -> {"no", "sent", "done"}]
  /\ copy \in [Copies -> CopyStates]
  /\ side \in [server : {"open", "relay", "ended"},
               client : {"open", "relay", "refused", "ended"}]
  /\ timeout \in {s.timeout : s \in Scenarios}
  /\ half \in {0, 1} /\ age \in Nat /\ idle \in Nat
  /\ watchdog \in {"watching", "decided", "closing", "done"} /\ lost \in BOOLEAN
  /\ watchdog # "watching" => timeout > 0
  /\ left \in [Ends -> Nat] /\ sent \in [Ends -> Nat]
  /\ got \in [Ends -> Seq(Nat)]
  /\ seen \in [Ends -> {"no", "eof", "error"}]

(* What may cut the stream to e short of its end: a lost connection, the   *)
(* closes of the watchdog, a refused channel, or a reset by the end that   *)
(* sends it.                                                               *)
Broken(e) ==
  \/ lost \/ TimedOut
  \/ side["client"] = "refused" \/ wire[OutOf(Other(e))].cut

ToUser ==
  INSTANCE Stream
    WITH sent <- sent["local"], closed <- wire[OutOf("local")].fin,
         got <- got["user"], seen <- seen["user"], broken <- Broken("user")

ToLocal ==
  INSTANCE Stream
    WITH sent <- sent["user"], closed <- wire[OutOf("user")].fin,
         got <- got["local"], seen <- seen["local"], broken <- Broken("local")

(* Both directions are streams: the copies, half-closes and closes of the  *)
(* two processes lose, repeat and reorder nothing, and no end of file      *)
(* overtakes data (lines 580-590 of server.go, 332-347 of client.go).      *)
ImplementsStreams == ToUser!Spec /\ ToLocal!Spec

(* The watchdog decides to close a relay only if at that moment the server *)
(* had read nothing for the timeout less one second (the clock is cut to   *)
(* seconds on both sides of the difference, server.go:602), or if a copy   *)
(* had just read something and not yet stored the time of it (line 637).   *)
(* What is read between the decision and the closes (605-606) counts no    *)
(* more: such a relay is closed although it is no longer idle.             *)
ClosesOnlyIdle ==
  [][watchdog = "watching" /\ watchdog' # "watching" =>
       \/ idle >= 2 * timeout - 1
       \/ \E c \in Copies : At(c, "stamp")]_vars

(* "timeout": with one, the server's relay ends whatever the two ends do,  *)
(* full windows included, once no more data comes (server.go:593-612); the *)
(* network has to deliver or to be lost, for the copies at the channel end *)
(* with the peer's answer to the close.                                    *)
ServerEnds ==
  timeout > 0 /\ side["server"] = "relay" ~> side["server"] = "ended"

(* An end that reads what it is sent and closes when that has ended.       *)
Polite(e) == /\ WF_vars(EndReads(e)) /\ WF_vars(EndSeesEnd(e))
             /\ WF_vars(seen[e] # "no" /\ EndCloses(e))

(* README.md:176: when one end closes, its end of file reaches the other   *)
(* one through both processes and, if the ends are polite, all four copies *)
(* and both sides end, also without a timeout.  Within seconds, it says;   *)
(* here it is in the end.                                                  *)
HalfCloseEnds ==
  (\A e \in Ends : Polite(e)) =>
    \A e \in Ends :
      wire[OutOf(e)].fin ~> \A p \in Sides : side[p] \in {"refused", "ended"}

-----------------------------------------------------------------------------
(* What the documentation says and the code does not keep; see README.     *)

(* "Fixed that one direction of a copy that is closed leaves the other one *)
(* blocked for ever" (README.md:206).                                      *)
NoCopyLeftBehind ==
  \A c, d \in CopiesOf("client") : At(c, "done") ~> At(d, "done")

=============================================================================
