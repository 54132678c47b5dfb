----------------------------- MODULE RelayProofs -----------------------------
(***************************************************************************)
(* The relay for any timeout, any amount of data and any window: types,    *)
(* that the watchdog decides to close only what is idle at that moment,    *)
(* and that both directions are streams.                                   *)
(*                                                                         *)
(* Behind the second is how the cut seconds of the clock and real time     *)
(* hang together: after a stamp in phase h0 of a second, age seconds have  *)
(* begun within at least 2 * age + half - h0 halves, and nothing was read. *)
(*                                                                         *)
(* Behind the third is what is on the line to a reader: three wires and    *)
(* the buffers of two copies hold what is between what the reader has and  *)
(* what the writer has sent, in order and without a gap, as far back from  *)
(* the reader as the wires still carry; what is before a wire that has     *)
(* ended or was closed no longer matters.  It is proved for lines apart    *)
(* from the relay first, then for each step on each of the two lines.  A   *)
(* write that fails because the other side has closed the channel needs    *)
(* Endings: that side has passed on or dropped what it had before.         *)
(***************************************************************************)
EXTENDS Relay, TLAPS

Clock ==
  /\ side["server"] = "open" => age = 0
  /\ \A c \in CopiesOf("client") : ~At(c, "stamp")
  /\ (\A c \in Copies : ~At(c, "stamp")) =>
       idle >= 2 * timeout - 1 \/ idle >= 2 * age + half - 1

IInv == TypeOK /\ Clock

-----------------------------------------------------------------------------
(* The wires there are, and what keeps their type.                         *)

LEMMA Topology ==
  /\ \A c \in Copies : In(c) \in Wires /\ Out(c) \in Wires /\ Back(Out(c)) \in Wires
  /\ \A e \in Ends : OutOf(e) \in Wires /\ Into(e) \in Wires /\ Back(OutOf(e)) \in Wires
  /\ \A e \in Ends : <<e, Near(e)>> \in Wires /\ <<Near(e), e>> \in Wires
  /\ <<"server", "client">> \in Wires /\ <<"client", "server">> \in Wires
  /\ Far("server") = "user" /\ Far("client") = "local"
  /\ Peer("server") = "client" /\ Peer("client") = "server"
<1>1. \A c \in Copies : In(c) \in Wires /\ Out(c) \in Wires
  BY DEF Wires
<1>2. Wires = {<<"user", "server">>, <<"server", "user">>, <<"server", "client">>,
               <<"client", "server">>, <<"client", "local">>, <<"local", "client">>}
  BY DEF Wires, Copies, In, Out
<1>3. \A c \in Copies : Back(Out(c)) \in Wires
  BY <1>2 DEF Copies, Out, Back
<1>4. \A e \in Ends : /\ OutOf(e) \in Wires /\ Into(e) \in Wires /\ Back(OutOf(e)) \in Wires
                      /\ <<e, Near(e)>> \in Wires /\ <<Near(e), e>> \in Wires
  BY <1>2 DEF Ends, Near, OutOf, Into, Back
<1>5. Far("server") = "user" /\ Far("client") = "local"
  BY DEF Far, Ends, Near
<1>6. Peer("server") = "client" /\ Peer("client") = "server"
  BY DEF Peer
<1> QED BY <1>1, <1>2, <1>3, <1>4, <1>5, <1>6

LEMMA Data ==
  ASSUME NEW W \in [Wires -> WireStates], NEW w \in Wires, NEW d \in Seq(Nat)
  PROVE  /\ [W EXCEPT ![w].data = d] \in [Wires -> WireStates]
         /\ [W[w] EXCEPT !.fin = TRUE, !.data = d] \in WireStates
<1>1. [W EXCEPT ![w].data = d] \in [Wires -> WireStates]
  BY DEF WireStates
<1> DEFINE s == W[w]
           s1 == [s EXCEPT !.fin = TRUE]
<1>2. s \in WireStates
  OBVIOUS
<1> HIDE DEF s
<1>3. s1 \in WireStates
  BY <1>2 DEF WireStates
<1> HIDE DEF s1
<1>4. [s1 EXCEPT !.data = d] \in WireStates
  BY <1>3 DEF WireStates
<1> QED BY <1>1, <1>4 DEF s1, s

LEMMA Flags ==
  ASSUME NEW W \in [Wires -> WireStates], NEW w \in Wires
  PROVE  /\ [W EXCEPT ![w].fin = TRUE] \in [Wires -> WireStates]
         /\ [W EXCEPT ![w].cut = TRUE] \in [Wires -> WireStates]
         /\ [W EXCEPT ![w].deaf = TRUE] \in [Wires -> WireStates]
         /\ [W EXCEPT ![w].data = <<>>] \in [Wires -> WireStates]
         /\ W[w].fin \in BOOLEAN /\ W[w].cut \in BOOLEAN /\ W[w].deaf \in BOOLEAN
         /\ W[w].data \in Seq(Nat)
<1>1. W[w] \in WireStates
  OBVIOUS
<1>2. /\ W[w].fin \in BOOLEAN /\ W[w].cut \in BOOLEAN /\ W[w].deaf \in BOOLEAN
      /\ W[w].data \in Seq(Nat)
  BY <1>1 DEF WireStates
<1>3. [W EXCEPT ![w].fin = TRUE] \in [Wires -> WireStates]
  BY DEF WireStates
<1>4. [W EXCEPT ![w].cut = TRUE] \in [Wires -> WireStates]
  BY DEF WireStates
<1>5. [W EXCEPT ![w].deaf = TRUE] \in [Wires -> WireStates]
  BY DEF WireStates
<1>6. [W EXCEPT ![w].data = <<>>] \in [Wires -> WireStates]
  <2>1. <<>> \in Seq(Nat)
    OBVIOUS
  <2> QED BY <2>1, Data
<1> QED BY <1>2, <1>3, <1>4, <1>5, <1>6

LEMMA ClosedType ==
  ASSUME NEW W \in [Wires -> WireStates], NEW p, NEW q, <<p, q>> \in Wires, <<q, p>> \in Wires
  PROVE  Closed(W, p, q) \in [Wires -> WireStates]
<1> DEFINE out == <<p, q>>
           in  == <<q, p>>
           cut == W[out].cut \/ W[in].data # <<>>
           W1 == [W EXCEPT ![out].fin = TRUE]
           W2 == [W1 EXCEPT ![out].cut = cut]
           W3 == [W2 EXCEPT ![in].deaf = TRUE]
           W4 == [W3 EXCEPT ![in].data = <<>>]
<1>1. cut \in BOOLEAN
  BY Flags
<1>2. W4 \in [Wires -> WireStates]
  <2>1. W1 \in [Wires -> WireStates] BY Flags
  <2> HIDE DEF W1, cut
  <2>2. W2 \in [Wires -> WireStates] BY <1>1, <2>1 DEF WireStates
  <2> HIDE DEF W2
  <2>3. W3 \in [Wires -> WireStates] BY <2>2, Flags
  <2> HIDE DEF W3
  <2> QED BY <2>3, Flags
<1>3. Closed(W, p, q) = W4
  BY Flags DEF Closed, WireStates
<1> QED BY <1>2, <1>3

LEMMA HungType ==
  ASSUME NEW W \in [Wires -> WireStates], NEW p \in Sides
  PROVE  /\ Hung(W, p) \in [Wires -> WireStates]
         /\ Closed(W, p, Far(p)) \in [Wires -> WireStates]
<1>1. CASE p = "server"
  <2>1. <<"server", "user">> \in Wires /\ <<"user", "server">> \in Wires
    BY Topology DEF Ends, Near
  <2> QED BY <1>1, <2>1, ClosedType, Flags, Topology DEF Hung
<1>2. CASE p = "client"
  <2>1. <<"client", "local">> \in Wires /\ <<"local", "client">> \in Wires
    BY Topology DEF Ends, Near
  <2> QED BY <1>2, <2>1, ClosedType, Flags, Topology DEF Hung
<1> QED BY <1>1, <1>2 DEF Sides

(* What a side sends of its close.                                         *)
LEMMA HungTypes ==
  ASSUME hung \in [Sides -> {"no", "sent", "done"}], NEW p \in Sides
  PROVE  /\ SendClose(p) => /\ hung' \in [Sides -> {"no", "sent", "done"}]
                            /\ \A q \in Sides \ {p} : hung'[q] = hung[q]
         /\ [hung EXCEPT ![p] = "done"] \in [Sides -> {"no", "sent", "done"}]
<1>1. [hung EXCEPT ![p] = "done"] \in [Sides -> {"no", "sent", "done"}]
  OBVIOUS
<1>2. PICK h \in {"no", "sent", "done"} : h = IF hung[p] = "no" THEN "sent" ELSE hung[p]
  OBVIOUS
<1>3. SendClose(p) => hung' = [hung EXCEPT ![p] = h]
  BY <1>2 DEF SendClose
<1> QED BY <1>1, <1>3

LEMMA PutType ==
  ASSUME wire \in [Wires -> WireStates], NEW w \in Wires, Back(w) \in Wires, NEW x \in Nat,
         Put(w, x)
  PROVE  wire' \in [Wires -> WireStates]
<1>1. Append(wire[w].data, x) \in Seq(Nat)
  <2>1. wire[w].data \in Seq(Nat)
    BY Flags
  <2> QED BY <2>1
<1>2. CASE ~wire[w].deaf
  BY <1>1, <1>2, Data DEF Put
<1>3. CASE wire[w].deaf
  BY <1>3, Flags DEF Put
<1> QED BY <1>2, <1>3

-----------------------------------------------------------------------------
(* Taking a piece out of a wire.                                           *)
LEMMA TakeType ==
  ASSUME wire \in [Wires -> WireStates], NEW w \in Wires, CanTake(w)
  PROVE  /\ Head(wire[w].data) \in Nat
         /\ [wire EXCEPT ![w].data = Tail(@)] \in [Wires -> WireStates]
<1> DEFINE d == wire[w].data
<1>1. d \in Seq(Nat) /\ d # <<>>
  BY Flags DEF CanTake
<1> HIDE DEF d
<1>2. Head(d) \in Nat /\ Tail(d) \in Seq(Nat)
  BY <1>1
<1>3. [wire EXCEPT ![w].data = Tail(d)] \in [Wires -> WireStates]
  BY <1>2, Data
<1> QED BY <1>2, <1>3 DEF d

LEMMA CopyTypes ==
  /\ [Off EXCEPT !.pc = "read"] \in CopyStates /\ [Off EXCEPT !.pc = "read"].pc = "read"
  /\ [Off EXCEPT !.pc = "done"] \in CopyStates /\ [Off EXCEPT !.pc = "done"].pc = "done"
  /\ \A s \in CopyStates : s.pc \in {"off", "read", "stamp", "write", "done"} /\ s.item \in Nat
  /\ \A s \in CopyStates : /\ [s EXCEPT !.pc = "write"] \in CopyStates
                           /\ [s EXCEPT !.pc = "write"].pc = "write"
BY DEF Off, CopyStates

LEMMA Started_ ==
  ASSUME copy \in [Copies -> CopyStates], NEW p
  PROVE  /\ Started(p) \in [Copies -> CopyStates]
         /\ \A c \in Copies : Started(p)[c].pc = IF c[2] = p THEN "read" ELSE copy[c].pc
BY CopyTypes DEF Started

LEMMA Types ==
  ASSUME TypeOK
  PROVE  /\ wire \in [Wires -> WireStates] /\ copy \in [Copies -> CopyStates]
         /\ timeout \in Nat /\ half \in {0, 1} /\ age \in Nat /\ idle \in Nat
         /\ hung \in [Sides -> {"no", "sent", "done"}]
BY RelayAssumption DEF TypeOK

(* The clock of a step that neither moves it nor ends a stamp.             *)
LEMMA ClockKept ==
  ASSUME Clock, UNCHANGED <<half, age, idle, timeout>>,
         side'["server"] = "open" => side["server"] = "open",
         \A c \in Copies : copy[c].pc = "stamp" <=> copy'[c].pc = "stamp"
  PROVE  Clock'
BY DEF Clock, At, CopiesOf

LEMMA EndSteps ==
  ASSUME IInv, NEW e \in Ends, EndStep(e)
  PROVE  IInv'
<1>1. UNCHANGED <<hung, copy, side, sshVars, timeVars>>
  BY DEF EndStep, EndSends, EndIsReset, EndFinishes, EndCloses, EndReads, EndSeesEnd, endVars
<1>2. Clock'
  BY <1>1, ClockKept DEF IInv, sshVars, timeVars
<1>3. /\ wire \in [Wires -> WireStates] /\ OutOf(e) \in Wires /\ Into(e) \in Wires
      /\ Back(OutOf(e)) \in Wires
  BY Types, Topology DEF IInv
<1>4. CASE EndSends(e)
  <2>1. /\ left' = [left EXCEPT ![e] = @ - 1] /\ left[e] > 0
        /\ sent' = [sent EXCEPT ![e] = @ + 1] /\ Put(OutOf(e), sent[e] + 1)
        /\ UNCHANGED <<got, seen>>
    BY <1>4 DEF EndSends
  <2>2. left \in [Ends -> Nat] /\ sent \in [Ends -> Nat]
    BY DEF IInv, TypeOK
  <2>3. sent[e] + 1 \in Nat /\ left' \in [Ends -> Nat] /\ sent' \in [Ends -> Nat]
    BY <2>1, <2>2
  <2>4. wire' \in [Wires -> WireStates]
    BY <1>3, <2>1, <2>3, PutType
  <2> QED BY <1>1, <1>2, <2>1, <2>3, <2>4 DEF IInv, TypeOK, sshVars, timeVars
<1>5. CASE EndIsReset(e) \/ EndFinishes(e) \/ EndCloses(e)
  <2>1. wire' \in [Wires -> WireStates]
    <3>1. CASE EndIsReset(e)
      BY <1>3, <3>1, Flags DEF EndIsReset
    <3>2. CASE EndFinishes(e)
      BY <1>3, <3>2, Flags DEF EndFinishes
    <3>3. CASE EndCloses(e)
      BY <1>3, <3>3, ClosedType, Topology DEF EndCloses
    <3> QED BY <1>5, <3>1, <3>2, <3>3
  <2>2. UNCHANGED endVars
    BY <1>5 DEF EndIsReset, EndFinishes, EndCloses
  <2> QED BY <1>1, <1>2, <2>1, <2>2 DEF IInv, TypeOK, sshVars, timeVars, endVars
<1>6. CASE EndReads(e)
  <2>1. /\ CanTake(Into(e)) /\ wire' = [wire EXCEPT ![Into(e)].data = Tail(@)]
        /\ got' = [got EXCEPT ![e] = Append(@, Head(wire[Into(e)].data))]
        /\ UNCHANGED <<left, sent, seen>>
    BY <1>6 DEF EndReads
  <2>2. Head(wire[Into(e)].data) \in Nat /\ wire' \in [Wires -> WireStates]
    BY <1>3, <2>1, TakeType
  <2>3. got' \in [Ends -> Seq(Nat)]
    <3> DEFINE x == Head(wire[Into(e)].data)
    <3>1. got \in [Ends -> Seq(Nat)] /\ x \in Nat /\ got' = [got EXCEPT ![e] = Append(@, x)]
      BY <2>1, <2>2 DEF IInv, TypeOK
    <3> HIDE DEF x
    <3>2. Append(got[e], x) \in Seq(Nat)
      BY <3>1
    <3> QED BY <3>1, <3>2
  <2> QED BY <1>1, <1>2, <2>1, <2>2, <2>3 DEF IInv, TypeOK, sshVars, timeVars
<1>7. CASE EndSeesEnd(e)
  BY <1>1, <1>2, <1>7 DEF EndSeesEnd, IInv, TypeOK, sshVars, timeVars
<1> QED BY <1>4, <1>5, <1>6, <1>7 DEF EndStep

LEMMA Sides_ ==
  ASSUME TypeOK
  PROVE  /\ [side EXCEPT !["client"] = "relay"] \in [server : {"open", "relay", "ended"},
                         client : {"open", "relay", "refused", "ended"}]
         /\ [side EXCEPT !["client"] = "refused"] \in [server : {"open", "relay", "ended"},
                         client : {"open", "relay", "refused", "ended"}]
         /\ [side EXCEPT !["client"] = "ended"] \in [server : {"open", "relay", "ended"},
                         client : {"open", "relay", "refused", "ended"}]
         /\ [side EXCEPT !["server"] = "relay"] \in [server : {"open", "relay", "ended"},
                         client : {"open", "relay", "refused", "ended"}]
         /\ [side EXCEPT !["server"] = "ended"] \in [server : {"open", "relay", "ended"},
                         client : {"open", "relay", "refused", "ended"}]
         /\ \A x : [side EXCEPT !["client"] = x]["server"] = side["server"]
         /\ \A x : [side EXCEPT !["server"] = x]["server"] = x
BY DEF TypeOK

(* Opening takes no time on the clock; the server's starts at age 0.       *)
LEMMA OpenSteps ==
  ASSUME IInv, Dial \/ DialFails \/ Open \/ OpenFails
  PROVE  IInv'
<1>1. CASE Dial
  <2>1. copy' \in [Copies -> CopyStates]
        /\ \A c \in Copies : copy'[c].pc = IF c[2] = "client" THEN "read" ELSE copy[c].pc
    BY <1>1, Started_, Types DEF Dial, IInv
  <2>2. \A c \in Copies : copy[c].pc = "stamp" <=> copy'[c].pc = "stamp"
    BY <2>1 DEF IInv, Clock, At, CopiesOf
  <2>3. Clock'
    BY <1>1, <2>2, ClockKept, Sides_ DEF Dial, IInv, sshVars, timeVars
  <2> QED BY <1>1, <2>1, <2>3, Sides_ DEF Dial, IInv, TypeOK, sshVars, timeVars, endVars
<1>2. CASE DialFails
  <2>1. Clock'
    BY <1>2, ClockKept, Sides_ DEF DialFails, IInv, sshVars, timeVars
  <2> QED BY <1>2, <2>1, Sides_ DEF DialFails, IInv, TypeOK, sshVars, timeVars, endVars
<1>3. CASE Open
  <2>1. copy' \in [Copies -> CopyStates]
        /\ \A c \in Copies : copy'[c].pc = IF c[2] = "server" THEN "read" ELSE copy[c].pc
    BY <1>3, Started_, Types DEF Open, IInv
  <2>2. half' \in {0, 1} /\ age' = 0 /\ idle' = idle /\ idle \in Nat
    BY <1>3, Types DEF Open, IInv, Clock
  <2>3. side'["server"] = "relay"
    BY <1>3, Sides_ DEF Open, IInv
  <2>4. Clock'
    <3>1. idle' >= 2 * age' + half' - 1
      <4>1. \A h \in {0, 1}, i \in Nat : i >= 2 * 0 + h - 1
        OBVIOUS
      <4> QED BY <2>2, <4>1
    <3>2. \A c \in CopiesOf("client") : ~At(c, "stamp")'
      BY <2>1 DEF IInv, Clock, At, CopiesOf
    <3>3. side'["server"] = "open" => age' = 0
      BY <2>3
    <3> QED BY <3>1, <3>2, <3>3 DEF Clock
  <2> QED BY <1>3, <2>1, <2>2, <2>4, Sides_ DEF Open, IInv, TypeOK, sshVars, endVars
<1>4. CASE OpenFails
  <2>1. Clock'
    BY <1>4, ClockKept, Sides_ DEF OpenFails, IInv, sshVars, timeVars
  <2>2. wire' \in [Wires -> WireStates]
    <3>1. <<"server", "user">> \in Wires /\ <<"user", "server">> \in Wires
      BY Topology DEF Ends, Near
    <3> QED BY <1>4, <3>1, ClosedType, Types DEF OpenFails, IInv
  <2> QED BY <1>4, <2>1, <2>2, Sides_ DEF OpenFails, IInv, TypeOK, sshVars, timeVars, endVars
<1> QED BY <1>1, <1>2, <1>3, <1>4

LEMMA LoseStep ==
  ASSUME IInv, Lose
  PROVE  IInv'
<1>1. Clock'
  BY ClockKept DEF Lose, IInv, timeVars
<1>2. wire' \in [Wires -> WireStates]
  <2>1. PICK kept \in [Channel -> 0..Window] :
          /\ \A w \in Channel : kept[w] <= Len(wire[w].data)
          /\ wire' = [w \in Wires |->
                        IF w \in Channel
                        THEN [wire[w] EXCEPT !.fin = TRUE, !.data = SubSeq(@, 1, kept[w])]
                        ELSE wire[w]]
    BY DEF Lose
  <2>2. ASSUME NEW w \in Wires, w \in Channel
        PROVE  [wire[w] EXCEPT !.fin = TRUE, !.data = SubSeq(@, 1, kept[w])] \in WireStates
    <3> DEFINE d == SubSeq(wire[w].data, 1, kept[w])
    <3>1. wire[w].data \in Seq(Nat) /\ kept[w] \in 0..Len(wire[w].data)
      <4>1. wire[w].data \in Seq(Nat)
        BY Flags, Types DEF IInv
      <4>2. Window \in Nat /\ kept[w] \in 0..Window /\ kept[w] <= Len(wire[w].data)
        BY <2>1, <2>2, RelayAssumption
      <4>3. Len(wire[w].data) \in Nat
        BY <4>1
      <4> QED BY <4>1, <4>2, <4>3
    <3>2. d \in Seq(Nat)
      BY <3>1
    <3> HIDE DEF d
    <3>3. [wire[w] EXCEPT !.fin = TRUE, !.data = d] \in WireStates
      BY <3>2, Data, Types DEF IInv
    <3> QED BY <3>3 DEF d
  <2> QED BY <2>1, <2>2, Types DEF IInv
<1> QED BY <1>1, <1>2 DEF Lose, IInv, TypeOK, timeVars, endVars

-----------------------------------------------------------------------------
LEMMA ReadStep ==
  ASSUME IInv, NEW c \in Copies, Read(c)
  PROVE  IInv'
<1> DEFINE x == Head(wire[In(c)].data)
           s == [pc |-> AfterRead(c), item |-> x]
<1>1. x \in Nat /\ wire' \in [Wires -> WireStates]
  BY TakeType, Types, Topology DEF Read, IInv
<1> HIDE DEF x
<1>2. s \in CopyStates /\ s.pc = AfterRead(c)
  BY <1>1 DEF CopyStates, AfterRead
<1>3. copy' = [copy EXCEPT ![c] = s] /\ At(c, "read")
  BY DEF Read, x
<1> HIDE DEF s
<1>4. copy' \in [Copies -> CopyStates] /\ copy'[c].pc = AfterRead(c)
      /\ \A d \in Copies \ {c} : copy'[d] = copy[d]
  BY <1>2, <1>3, Types DEF IInv
<1>5. idle' \in Nat /\ (c[2] # "server" => idle' = idle) /\ UNCHANGED <<side, timeout, half, age>>
  BY Types DEF Read, IInv, sshVars
<1>6. Clock'
  <2>1. CASE c[2] = "server"
    BY <1>4, <1>5, <2>1 DEF IInv, Clock, At, CopiesOf, AfterRead
  <2>2. CASE c[2] # "server"
    <3>1. \A d \in Copies : copy[d].pc = "stamp" <=> copy'[d].pc = "stamp"
      BY <1>3, <1>4, <2>2 DEF AfterRead, At
    <3> QED BY <1>5, <2>2, <3>1, ClockKept DEF IInv
  <2> QED BY <2>1, <2>2
<1> QED BY <1>1, <1>4, <1>5, <1>6 DEF Read, IInv, TypeOK, sshVars, endVars

LEMMA StampStep ==
  ASSUME IInv, NEW c \in Copies, Stamp(c)
  PROVE  IInv'
<1>1. copy \in [Copies -> CopyStates] /\ idle \in Nat /\ half \in {0, 1}
  BY Types DEF IInv
<1>2. copy' \in [Copies -> CopyStates] /\ copy'[c].pc = "write"
      /\ \A d \in Copies \ {c} : copy'[d] = copy[d]
  BY <1>1, CopyTypes DEF Stamp
<1>3. Clock'
  BY <1>1, <1>2 DEF Stamp, IInv, Clock, At, CopiesOf
<1> QED BY <1>2, <1>3 DEF Stamp, IInv, TypeOK, sshVars, endVars

LEMMA WriteStep ==
  ASSUME IInv, NEW c \in Copies, Write(c)
  PROVE  IInv'
<1>1. copy \in [Copies -> CopyStates] /\ copy[c].item \in Nat
  BY Types, CopyTypes DEF IInv
<1>2. copy' \in [Copies -> CopyStates] /\ copy'[c].pc = "read" /\ copy[c].pc = "write"
      /\ \A d \in Copies \ {c} : copy'[d] = copy[d]
  BY <1>1, CopyTypes DEF Write, At
<1>3. wire' \in [Wires -> WireStates]
  BY <1>1, PutType, Types, Topology DEF Write, IInv
<1>4. Clock'
  BY <1>2, ClockKept DEF Write, IInv, sshVars, timeVars
<1> QED BY <1>2, <1>3, <1>4 DEF Write, IInv, TypeOK, sshVars, timeVars, endVars

LEMMA ReturnStep ==
  ASSUME IInv, NEW c \in Copies, ReadFails(c) \/ WriteFails(c)
  PROVE  IInv'
<1>1. /\ copy[c].pc \in {"read", "write"} /\ Return(c)
      /\ UNCHANGED <<hung, side, sshVars, timeVars, endVars>>
  BY DEF ReadFails, WriteFails, At
<1>2. copy' \in [Copies -> CopyStates] /\ copy'[c].pc = "done"
      /\ \A d \in Copies \ {c} : copy'[d] = copy[d]
  BY <1>1, CopyTypes, Types DEF Return, IInv
<1>3. wire' \in [Wires -> WireStates]
  BY <1>1, Flags, Types, Topology DEF Return, IInv
<1>4. Clock'
  BY <1>1, <1>2, ClockKept DEF IInv, sshVars, timeVars
<1> QED BY <1>1, <1>2, <1>3, <1>4 DEF IInv, TypeOK, sshVars, timeVars, endVars

LEMMA FinishStep ==
  ASSUME IInv, NEW p \in Sides, Finish(p)
  PROVE  IInv'
<1>1. wire' \in [Wires -> WireStates]
  BY HungType, Types DEF Finish, IInv
<1>4. hung' \in [Sides -> {"no", "sent", "done"}]
  BY HungTypes, Types DEF Finish, IInv
<1>2. CASE p = "server"
  <2>1. half' = 0 /\ age' = 0 /\ idle' = 0 /\ UNCHANGED copy /\ side'["server"] = "ended"
    BY <1>2, Sides_ DEF Finish, StopClock, IInv
  <2>2. Clock'
    BY <2>1 DEF IInv, Clock, At, CopiesOf
  <2> QED BY <1>1, <1>2, <1>4, <2>1, <2>2, Sides_ DEF Finish, IInv, TypeOK, sshVars, endVars
<1>3. CASE p = "client"
  <2>1. UNCHANGED <<copy, half, age, idle, timeout>> /\ side'["server"] = side["server"]
    BY <1>3, Sides_ DEF Finish, IInv, sshVars
  <2>2. Clock'
    BY <2>1, ClockKept DEF IInv
  <2> QED BY <1>1, <1>3, <1>4, <2>1, <2>2, Sides_ DEF Finish, IInv, TypeOK, sshVars, endVars
<1> QED BY <1>2, <1>3 DEF Sides

(* A tick adds a half to idle, and to age no more than two ticks a second. *)
LEMMA TickStep ==
  ASSUME IInv, Tick
  PROVE  IInv'
<1>1. timeout \in Nat \ {0} /\ half \in {0, 1} /\ age \in Nat /\ idle \in Nat
      /\ side["server"] = "relay"
  BY Types DEF Tick, Watched, IInv
<1>2. /\ half' = 1 - half /\ age' \in Nat /\ age' <= age + half
      /\ idle' \in Nat /\ (idle' = idle + 1 \/ idle' >= 2 * timeout - 1)
  BY <1>1 DEF Tick, UpTo
<1>3. UNCHANGED <<wire, hung, copy, side, timeout, lost, watchdog, left, sent, got, seen>>
  BY DEF Tick, sshVars, endVars
<1>4. Clock'
  <2>1. SUFFICES ASSUME \A c \in Copies : ~At(c, "stamp")
                 PROVE  idle' >= 2 * timeout - 1 \/ idle' >= 2 * age' + half' - 1
    BY <1>1, <1>3 DEF IInv, Clock, At, CopiesOf
  <2>2. idle >= 2 * timeout - 1 \/ idle >= 2 * age + half - 1
    BY <2>1 DEF IInv, Clock
  <2>3. \A T, a, b, h, i, j \in Nat :
          h <= 1 /\ b <= a + h /\ (j = i + 1 \/ j >= 2 * T - 1)
            /\ (i >= 2 * T - 1 \/ i >= 2 * a + h - 1)
          => j >= 2 * T - 1 \/ j >= 2 * b + (1 - h) - 1
    OBVIOUS
  <2>4. half \in Nat /\ half <= 1
    BY <1>1
  <2> QED BY <1>1, <1>2, <2>2, <2>3, <2>4
<1> QED BY <1>1, <1>2, <1>3, <1>4 DEF IInv, TypeOK

LEMMA WatchdogStep ==
  ASSUME IInv, Watchdog
  PROVE  IInv'
<1>1. /\ wire \in [Wires -> WireStates] /\ "server" \in Sides
      /\ hung \in [Sides -> {"no", "sent", "done"}]
  BY Types DEF IInv, Sides
<1>2. CASE Decide
  <2>1. half' = 0 /\ age' = 0 /\ idle' = 0 /\ timeout > 0 /\ watchdog' = "decided"
        /\ UNCHANGED <<wire, hung, copy, side, timeout, lost, left, sent, got, seen>>
    BY <1>2 DEF Decide, Watched, StopClock, sshVars, endVars
  <2>2. Clock'
    BY <2>1 DEF IInv, Clock, At, CopiesOf
  <2> QED BY <2>1, <2>2 DEF IInv, TypeOK
<1>3. CASE CloseChannel \/ CloseUser
  <2>1. /\ UNCHANGED <<copy, side, timeout, lost, half, age, idle, left, sent, got, seen>>
        /\ watchdog # "watching" /\ watchdog' \in {"closing", "done"}
    BY <1>3 DEF CloseChannel, CloseUser, sshVars, endVars
  <2>2. wire' \in [Wires -> WireStates]
    BY <1>1, <1>3, HungType, Topology DEF CloseChannel, CloseUser
  <2>3. hung' \in [Sides -> {"no", "sent", "done"}]
    BY <1>1, <1>3, HungTypes DEF CloseChannel, CloseUser
  <2>4. Clock'
    BY <2>1, ClockKept DEF IInv
  <2> QED BY <2>1, <2>2, <2>3, <2>4 DEF IInv, TypeOK
<1> QED BY <1>2, <1>3 DEF Watchdog

LEMMA HearStep ==
  ASSUME IInv, NEW p \in Sides, Hear(p)
  PROVE  IInv'
<1>1. /\ wire' \in [Wires -> WireStates]
      /\ hung' \in [Sides -> {"no", "sent", "done"}]
  BY HungType, HungTypes, Types DEF Hear, IInv
<1>2. Clock'
  BY ClockKept DEF Hear, IInv, sshVars, timeVars
<1> QED BY <1>1, <1>2 DEF Hear, IInv, TypeOK, sshVars, timeVars, endVars

-----------------------------------------------------------------------------
LEMMA IInvInit ==
  ASSUME Init
  PROVE  IInv
<1>1. PICK s \in Scenarios : timeout = s.timeout /\ left = s.pieces
  BY DEF Init
<1>2. left \in [Ends -> Nat] /\ timeout \in {x.timeout : x \in Scenarios} /\ timeout \in Nat
  BY <1>1, RelayAssumption
<1>3. Quiet \in WireStates
  BY DEF Quiet, WireStates
<1>4. Off \in CopyStates /\ Off.pc = "off"
  BY DEF Off, CopyStates
<1>5. <<>> \in Seq(Nat)
  OBVIOUS
<1>6. Clock
  BY <1>2, <1>4 DEF Init, Clock, At, CopiesOf
<1> QED BY <1>2, <1>3, <1>4, <1>5, <1>6 DEF Init, IInv, TypeOK

LEMMA IInvStep ==
  ASSUME IInv, [Next]_vars
  PROVE  IInv'
<1>1. CASE UNCHANGED vars
  BY <1>1 DEF vars, IInv, TypeOK, Clock, At, CopiesOf, sshVars, timeVars, endVars
<1>2. CASE Next
  BY <1>2, EndSteps, OpenSteps, LoseStep, ReadStep, StampStep, WriteStep, ReturnStep,
     FinishStep, HearStep, TickStep, WatchdogStep DEF Next, CopyStep
<1> QED BY <1>1, <1>2

(* The invariant behind the two theorems that follow.                      *)
THEOREM RelayInvariant == Spec => []IInv
BY IInvInit, IInvStep, PTL DEF Spec

(* Every variable has its type, and without a timeout nothing times out.   *)
THEOREM RelayTypes == Spec => []TypeOK
BY RelayInvariant, PTL DEF IInv

(* The watchdog (server.go:593-612) decides to close a relay only if the   *)
(* server has read nothing for the timeout, short of the one half second   *)
(* that cutting both times to seconds costs on this clock, or in the       *)
(* moment between a read and the storing of its time: for any timeout, any *)
(* phase of the clock and any interleaving of the copies.  What they read  *)
(* after the test (602) and before the closes (605-606) it does not count. *)
THEOREM OnlyIdleIsClosed == Spec => ClosesOnlyIdle
<1>1. IInv /\ [Next]_vars =>
        [watchdog = "watching" /\ watchdog' # "watching" =>
           \/ idle >= 2 * timeout - 1
           \/ \E c \in Copies : At(c, "stamp")]_vars
  <2> SUFFICES ASSUME IInv, Next, watchdog = "watching", watchdog' # "watching"
               PROVE  idle >= 2 * timeout - 1 \/ \E c \in Copies : At(c, "stamp")
    OBVIOUS
  <2>1. Decide
    BY DEF Next, EndStep, EndSends, EndIsReset, EndFinishes, EndCloses, EndReads, EndSeesEnd,
           Dial, DialFails, Open, OpenFails, Lose, CopyStep, Read, ReadFails, Stamp, Write,
           WriteFails, Finish, Hear, Tick, Watchdog, CloseChannel, CloseUser, timeVars
  <2>2. age >= timeout /\ half \in {0, 1} /\ age \in Nat /\ idle \in Nat /\ timeout \in Nat
    BY <2>1, Types DEF Decide, IInv
  <2> QED BY <2>2 DEF IInv, Clock
<1> QED BY <1>1, RelayInvariant, PTL DEF Spec, ClosesOnlyIdle

-----------------------------------------------------------------------------
(* The streams.  Data for an end e comes from the other end over three     *)
(* wires with two copies between them: w1, c1, w2, c2, w3.                 *)

First(e)      == OutOf(Other(e))
Second(e)     == <<Near(Other(e)), Near(e)>>
FirstCopy(e)  == <<Other(e), Near(Other(e)), Near(e)>>
SecondCopy(e) == <<Near(Other(e)), Near(e), e>>

(* Pieces in the buffer of a copy.                                         *)
Held(c) == IF c.pc \in {"stamp", "write"} THEN 1 ELSE 0

(* Pieces on a wire.                                                       *)
Size(w) == Len(w.data)

(* The pieces of d are those that follow piece n.                          *)
Numbered(d, n) == \A i \in 1..Len(d) : d[i] = n + i

(* Whether what is sent into a wire can still arrive at its other side.    *)
Carries(w) == ~w.fin /\ ~w.deaf

(* From the reader, who has n pieces, back to the writer, who has sent s:  *)
(* the wires and buffers hold the pieces in between in order, without a    *)
(* gap, as far back as the line still carries.  Where a wire has its end   *)
(* of file, it is the writer's own and nothing is missing before it,       *)
(* unless the stream is broken.                                            *)
Line(n, s, w1, c1, w2, c2, w3, broken) ==
  LET n3 == n + Size(w3)
      n2 == n3 + Held(c2) + Size(w2)
      n1 == n2 + Held(c1) + Size(w1)
  IN /\ Numbered(w3.data, n) /\ n3 <= s
     /\ w3.fin /\ ~w3.deaf /\ ~broken => w1.fin /\ n3 = s
     /\ Carries(w3) =>
          /\ Held(c2) = 1 => c2.item = n3 + 1
          /\ Numbered(w2.data, n3 + Held(c2)) /\ n2 <= s
          /\ w2.fin /\ ~w2.deaf /\ ~broken => w1.fin /\ n2 = s
          /\ Carries(w2) =>
               /\ Held(c1) = 1 => c1.item = n2 + 1
               /\ Numbered(w1.data, n2 + Held(c1)) /\ n1 <= s
               /\ ~w1.deaf => n1 = s

Flow(e) == Line(Len(got[e]), sent[Other(e)], wire[First(e)], copy[FirstCopy(e)],
                wire[Second(e)], copy[SecondCopy(e)], wire[Into(e)], Broken(e))

(* How copies, sides and wires hang together: a copy runs while its side   *)
(* relays, leaves an end of file behind, and loses its input only with its *)
(* side or to the watchdog; channels are not reset, and an end that resets *)
(* its connection does not read it.                                        *)
Plumbing ==
  /\ \A c \in Copies : /\ copy[c].pc \in {"read", "stamp", "write"} => side[c[2]] = "relay"
                       /\ side[c[2]] = "open" => copy[c].pc = "off"
                       /\ copy[c].pc = "done" => wire[Out(c)].fin
                       /\ wire[In(c)].deaf => side[c[2]] = "ended" \/ TimedOut
  /\ \A w \in Channel : ~wire[w].cut /\ ~wire[w].deaf
  /\ \A e \in Ends : wire[OutOf(e)].cut => wire[Into(e)].deaf

(* A side that has ended has closed its end's connection, and its copies   *)
(* have ended if there was a relay at all; a close of the channel was sent *)
(* by one that has ended, by the watchdog, or in answer to one of these.   *)
Endings ==
  \A e \in Ends :
    /\ side[Near(e)] = "ended" =>
         /\ wire[Into(e)].fin
         /\ \A c \in CopiesOf(Near(e)) :
              copy[c].pc = "done" \/ lost \/ side["client"] = "refused"
    /\ hung[Near(e)] # "no" => \/ side[Near(e)] = "ended" \/ side[Near(Other(e))] = "ended"
                              \/ lost \/ TimedOut

StreamInv == Plumbing /\ \A e \in Ends : Flow(e)

-----------------------------------------------------------------------------
(* Facts about numbered pieces and lines, apart from the relay.            *)

(* Adding the next piece, taking the first one, cutting pieces off.        *)
LEMMA NumberedFacts ==
  ASSUME NEW n \in Nat, NEW d \in Seq(Nat), Numbered(d, n)
  PROVE  /\ Len(d) \in Nat
         /\ Append(d, n + Len(d) + 1) \in Seq(Nat)
         /\ Numbered(Append(d, n + Len(d) + 1), n)
         /\ Len(Append(d, n + Len(d) + 1)) = Len(d) + 1
         /\ d # <<>> => /\ Head(d) = n + 1 /\ Tail(d) \in Seq(Nat) /\ Numbered(Tail(d), n + 1)
                        /\ Len(d) = Len(Tail(d)) + 1
         /\ \A k \in 0..Len(d) : /\ SubSeq(d, 1, k) \in Seq(Nat)
                                 /\ Numbered(SubSeq(d, 1, k), n) /\ Len(SubSeq(d, 1, k)) = k
<1>1. Len(d) \in Nat /\ \A i \in 1..Len(d) : d[i] = n + i
  BY DEF Numbered
<1>2. PICK x \in Nat : x = n + Len(d) + 1
  BY <1>1
<1>3. /\ Append(d, x) \in Seq(Nat) /\ Len(Append(d, x)) = Len(d) + 1
      /\ \A i \in 1..(Len(d) + 1) : Append(d, x)[i] = IF i = Len(d) + 1 THEN x ELSE d[i]
  OBVIOUS
<1>4. Numbered(Append(d, x), n)
  <2>1. SUFFICES ASSUME NEW i \in 1..(Len(d) + 1)
                 PROVE  Append(d, x)[i] = n + i
    BY <1>3 DEF Numbered
  <2>2. Append(d, x)[i] = IF i = Len(d) + 1 THEN x ELSE d[i]
    BY <1>3
  <2>3. CASE i = Len(d) + 1
    BY <1>1, <1>2, <2>2, <2>3
  <2>4. CASE i \in 1..Len(d)
    <3>1. i # Len(d) + 1
      BY <1>1, <2>4
    <3> QED
      BY <1>1, <2>2, <2>4, <3>1
  <2> QED
    BY <1>1, <2>1, <2>3, <2>4
<1>5. ASSUME d # <<>>
      PROVE  /\ Head(d) = n + 1 /\ Tail(d) \in Seq(Nat) /\ Numbered(Tail(d), n + 1)
             /\ Len(d) = Len(Tail(d)) + 1
  <2>1. Len(d) >= 1 /\ Head(d) = d[1]
    BY <1>5
  <2>2. /\ Tail(d) \in Seq(Nat) /\ Len(Tail(d)) = Len(d) - 1
        /\ \A i \in 1..(Len(d) - 1) : Tail(d)[i] = d[i + 1]
    BY <1>5
  <2> QED
    BY <1>1, <2>1, <2>2 DEF Numbered
<1>6. ASSUME NEW k \in 0..Len(d)
      PROVE  /\ SubSeq(d, 1, k) \in Seq(Nat)
             /\ Numbered(SubSeq(d, 1, k), n) /\ Len(SubSeq(d, 1, k)) = k
  <2>1. /\ SubSeq(d, 1, k) \in Seq(Nat) /\ Len(SubSeq(d, 1, k)) = k
        /\ \A i \in 1..k : SubSeq(d, 1, k)[i] = d[i]
    BY <1>1, <1>6
  <2> QED
    BY <1>1, <1>6, <2>1 DEF Numbered
<1> QED
  BY <1>1, <1>2, <1>3, <1>4, <1>5, <1>6

(* An empty wire.                                                          *)
LEMMA NoneNumbered ==
  \A n : Numbered(<<>>, n) /\ Len(<<>>) = 0 /\ <<>> \in Seq(Nat)
BY DEF Numbered

(* What readers and writers of pieces notice of a step: wire v is wire w   *)
(* untouched, with piece x added, without its first piece.                 *)
Alike(v, w)  == v.data = w.data /\ v.fin = w.fin /\ v.deaf = w.deaf
Added(v, w, x) == v.data = Append(w.data, x) /\ v.fin = w.fin /\ v.deaf = w.deaf
Taken(v, w)  == w.data # <<>> /\ v.data = Tail(w.data) /\ v.fin = w.fin /\ v.deaf = w.deaf

(* ... and of a copy: it keeps what it holds.                              *)
Keeps(k, c) == Held(k) = Held(c) /\ (Held(k) = 1 => k.item = c.item)

(* The same for the pieces of wires.                                       *)
LEMMA WireFacts ==
  ASSUME NEW w \in WireStates, NEW v \in WireStates
  PROVE  /\ Size(w) \in Nat
         /\ Alike(v, w) => Size(v) = Size(w)
         /\ \A x : Added(v, w, x) => Size(v) = Size(w) + 1
         /\ \A n \in Nat : Numbered(w.data, n) /\ Added(v, w, n + Size(w) + 1)
                            => Numbered(v.data, n)
         /\ Taken(v, w) => Size(w) = Size(v) + 1
         /\ \A n \in Nat : Numbered(w.data, n) /\ Taken(v, w)
                            => Head(w.data) = n + 1 /\ Numbered(v.data, n + 1)
<1>1. PICK d \in Seq(Nat), e \in Seq(Nat) : d = w.data /\ e = v.data
  BY DEF WireStates
<1>2. Len(d) \in Nat
  OBVIOUS
<1>3. \A x : e = Append(d, x) => Len(e) = Len(d) + 1
  OBVIOUS
<1>4. \A n \in Nat : Numbered(d, n) /\ e = Append(d, n + Len(d) + 1) => Numbered(e, n)
  BY NumberedFacts
<1>5. d # <<>> /\ e = Tail(d) => Len(d) = Len(e) + 1
  OBVIOUS
<1>6. \A n \in Nat : Numbered(d, n) /\ d # <<>> /\ e = Tail(d)
                     => Head(d) = n + 1 /\ Numbered(e, n + 1)
  BY NumberedFacts
<1> QED
  BY <1>1, <1>2, <1>3, <1>4, <1>5, <1>6 DEF Size, Alike, Added, Taken

(* A line stays one when the writer ends it and when it breaks.            *)
LEMMA LineFrame ==
  ASSUME NEW n \in Nat, NEW s \in Nat, NEW w1 \in WireStates, NEW w2 \in WireStates,
         NEW w3 \in WireStates, NEW c1 \in CopyStates, NEW c2 \in CopyStates, NEW b, NEW x,
         Line(n, s, w1, c1, w2, c2, w3, b), b => x,
         NEW v1 \in WireStates, NEW v2 \in WireStates, NEW v3 \in WireStates,
         v1.data = w1.data, w1.fin => v1.fin, v1.deaf = w1.deaf, Alike(v2, w2), Alike(v3, w3),
         NEW k1 \in CopyStates, NEW k2 \in CopyStates, Keeps(k1, c1), Keeps(k2, c2)
  PROVE  Line(n, s, v1, k1, v2, k2, v3, x)
BY DEF Line, Alike, Carries, Keeps, Size

(* The writer sends the next piece.                                        *)
LEMMA LineSend ==
  ASSUME NEW n \in Nat, NEW s \in Nat, NEW w1 \in WireStates, NEW w2 \in WireStates,
         NEW w3 \in WireStates, NEW c1 \in CopyStates, NEW c2 \in CopyStates, NEW b,
         Line(n, s, w1, c1, w2, c2, w3, b), Carries(w1),
         NEW v1 \in WireStates, Added(v1, w1, s + 1)
  PROVE  Line(n, s + 1, v1, c1, w2, c2, w3, b)
<1>1. /\ Size(w1) \in Nat /\ Size(w2) \in Nat /\ Size(w3) \in Nat
      /\ Held(c1) \in Nat /\ Held(c2) \in Nat
  BY WireFacts DEF Held
<1>2. PICK n3, n2, m : /\ n3 = n + Size(w3)
                       /\ n2 = n3 + Held(c2) + Size(w2) /\ m = n2 + Held(c1)
  OBVIOUS
<1> n3 \in Nat /\ n2 \in Nat /\ m \in Nat
  BY <1>1, <1>2
<1>3. /\ Numbered(w3.data, n) /\ n3 <= s
      /\ w3.fin /\ ~w3.deaf => b
  BY <1>2 DEF Line, Carries
<1>4. CASE ~Carries(w3)
  BY <1>2, <1>3, <1>4 DEF Line
<1>5. CASE Carries(w3)
  <2>1. /\ Held(c2) = 1 => c2.item = n3 + 1
        /\ Numbered(w2.data, n3 + Held(c2)) /\ n2 <= s
        /\ w2.fin /\ ~w2.deaf => b
    BY <1>2, <1>5 DEF Line, Carries
  <2>2. CASE ~Carries(w2)
    BY <1>2, <1>3, <1>5, <2>1, <2>2 DEF Line
  <2>3. CASE Carries(w2)
    <3>1. /\ Held(c1) = 1 => c1.item = n2 + 1
          /\ Numbered(w1.data, m) /\ m + Size(w1) = s
      BY <1>2, <1>5, <2>3 DEF Line, Carries
    <3>2. Numbered(v1.data, m) /\ m + Size(v1) = s + 1
      BY <1>1, <3>1, WireFacts
    <3> QED
      BY <1>2, <1>3, <1>5, <2>1, <2>3, <3>1, <3>2 DEF Line
  <2> QED
    BY <2>2, <2>3
<1> QED
  BY <1>4, <1>5

(* The reader takes the first piece, which is the next one for it.         *)
LEMMA LineReceive ==
  ASSUME NEW n \in Nat, NEW s \in Nat, NEW w1 \in WireStates, NEW w2 \in WireStates,
         NEW w3 \in WireStates, NEW c1 \in CopyStates, NEW c2 \in CopyStates, NEW b,
         Line(n, s, w1, c1, w2, c2, w3, b),
         NEW v3 \in WireStates, Taken(v3, w3)
  PROVE  /\ Line(n + 1, s, w1, c1, w2, c2, v3, b)
         /\ Head(w3.data) = n + 1 /\ n < s
<1>1. Numbered(w3.data, n) /\ n + Size(w3) <= s
  BY DEF Line
<1>2. /\ Head(w3.data) = n + 1 /\ Numbered(v3.data, n + 1)
      /\ Size(v3) \in Nat /\ Size(w3) = Size(v3) + 1
  BY <1>1, WireFacts
<1>3. n + Size(w3) = (n + 1) + Size(v3) /\ n < s
  BY <1>1, <1>2
<1> QED
  BY <1>2, <1>3 DEF Line, Carries, Taken

(* The second copy reads.                                                  *)
LEMMA LineTakeSecond ==
  ASSUME NEW n \in Nat, NEW s \in Nat, NEW w1 \in WireStates, NEW w2 \in WireStates,
         NEW w3 \in WireStates, NEW c1 \in CopyStates, NEW c2 \in CopyStates, NEW b,
         Line(n, s, w1, c1, w2, c2, w3, b),
         NEW v2 \in WireStates, Taken(v2, w2), Held(c2) = 0,
         NEW k2 \in CopyStates, Held(k2) = 1, k2.item = Head(w2.data)
  PROVE  Line(n, s, w1, c1, v2, k2, w3, b)
<1>1. Size(w2) \in Nat /\ Size(w3) \in Nat /\ Size(v2) \in Nat /\ Size(w2) = Size(v2) + 1
  BY WireFacts
<1>2. CASE ~Carries(w3)
  BY <1>2 DEF Line
<1>3. CASE Carries(w3)
  <2>1. PICK n3 : n3 = n + Size(w3)
    OBVIOUS
  <2>2. n3 \in Nat /\ n3 + Held(c2) + Size(w2) = n3 + Held(k2) + Size(v2)
    BY <1>1, <2>1
  <2>3. Numbered(w2.data, n3)
    BY <1>3, <2>1, <2>2 DEF Line
  <2>4. k2.item = n3 + 1 /\ Numbered(v2.data, n3 + Held(k2))
    BY <2>2, <2>3, WireFacts
  <2> QED
    BY <2>1, <2>2, <2>4 DEF Line, Taken, Carries
<1> QED
  BY <1>2, <1>3

(* It writes to a wire that carries.                                       *)
LEMMA LinePutThird ==
  ASSUME NEW n \in Nat, NEW s \in Nat, NEW w1 \in WireStates, NEW w2 \in WireStates,
         NEW w3 \in WireStates, NEW c1 \in CopyStates, NEW c2 \in CopyStates, NEW b,
         Line(n, s, w1, c1, w2, c2, w3, b), Carries(w3), Held(c2) = 1,
         NEW v3 \in WireStates, Added(v3, w3, c2.item),
         NEW k2 \in CopyStates, Held(k2) = 0
  PROVE  Line(n, s, w1, c1, w2, k2, v3, b)
<1>1. Size(w2) \in Nat /\ Size(w3) \in Nat /\ Size(v3) \in Nat /\ Size(v3) = Size(w3) + 1
  BY WireFacts
<1>2. PICK n3, m : n3 = n + Size(w3) /\ m = n + Size(v3)
  OBVIOUS
<1>3. n3 \in Nat /\ m \in Nat /\ m = n3 + 1 /\ m + Held(k2) = n3 + Held(c2)
  BY <1>1, <1>2
<1>4. c2.item = n3 + 1 /\ Numbered(w3.data, n) /\ n3 + Held(c2) + Size(w2) <= s
  BY <1>2 DEF Line
<1>5. Numbered(v3.data, n) /\ m <= s
  <2>1. Numbered(v3.data, n)
    BY <1>2, <1>4, WireFacts
  <2>2. m <= s
    BY <1>1, <1>3, <1>4
  <2> QED
    BY <2>1, <2>2
<1>6. Carries(v3) /\ ~v3.fin
  BY DEF Added, Carries
<1>7. m + Held(k2) + Size(w2) = n3 + Held(c2) + Size(w2)
  BY <1>3
<1> QED
  BY <1>2, <1>3, <1>5, <1>6, <1>7 DEF Line

(* The first copy reads.                                                   *)
LEMMA LineTakeFirst ==
  ASSUME NEW n \in Nat, NEW s \in Nat, NEW w1 \in WireStates, NEW w2 \in WireStates,
         NEW w3 \in WireStates, NEW c1 \in CopyStates, NEW c2 \in CopyStates, NEW b,
         Line(n, s, w1, c1, w2, c2, w3, b),
         NEW v1 \in WireStates, Taken(v1, w1), Held(c1) = 0,
         NEW k1 \in CopyStates, Held(k1) = 1, k1.item = Head(w1.data)
  PROVE  Line(n, s, v1, k1, w2, c2, w3, b)
<1>1. /\ Size(w1) \in Nat /\ Size(w2) \in Nat /\ Size(w3) \in Nat /\ Held(c2) \in Nat
      /\ Size(v1) \in Nat /\ Size(w1) = Size(v1) + 1 /\ v1.fin = w1.fin /\ v1.deaf = w1.deaf
  BY WireFacts DEF Held, Taken
<1>2. CASE ~(Carries(w3) /\ Carries(w2))
  BY <1>1, <1>2 DEF Line
<1>3. CASE Carries(w3) /\ Carries(w2)
  <2>1. PICK n2 : n2 = n + Size(w3) + Held(c2) + Size(w2)
    OBVIOUS
  <2>2. n2 \in Nat /\ n2 + Held(c1) + Size(w1) = n2 + Held(k1) + Size(v1)
    BY <1>1, <2>1
  <2>3. Numbered(w1.data, n2)
    BY <1>3, <2>1, <2>2 DEF Line
  <2>4. k1.item = n2 + 1 /\ Numbered(v1.data, n2 + Held(k1))
    BY <2>2, <2>3, WireFacts
  <2> QED
    BY <1>1, <1>3, <2>1, <2>2, <2>4 DEF Line
<1> QED
  BY <1>2, <1>3

(* It writes to a wire that carries.                                       *)
LEMMA LinePutSecond ==
  ASSUME NEW n \in Nat, NEW s \in Nat, NEW w1 \in WireStates, NEW w2 \in WireStates,
         NEW w3 \in WireStates, NEW c1 \in CopyStates, NEW c2 \in CopyStates, NEW b,
         Line(n, s, w1, c1, w2, c2, w3, b), Carries(w2), Held(c1) = 1,
         NEW v2 \in WireStates, Added(v2, w2, c1.item),
         NEW k1 \in CopyStates, Held(k1) = 0
  PROVE  Line(n, s, w1, k1, v2, c2, w3, b)
<1>1. /\ Size(w1) \in Nat /\ Size(w2) \in Nat /\ Size(w3) \in Nat /\ Held(c2) \in Nat
      /\ Size(v2) \in Nat /\ Size(v2) = Size(w2) + 1
      /\ Carries(v2) /\ ~v2.fin
  BY WireFacts DEF Held, Added, Carries
<1>2. CASE ~Carries(w3)
  BY <1>2 DEF Line
<1>3. CASE Carries(w3)
  <2>1. PICK m, n2, k : /\ m = n + Size(w3) + Held(c2)
                        /\ n2 = m + Size(w2) /\ k = m + Size(v2)
    OBVIOUS
  <2>2. m \in Nat /\ n2 \in Nat /\ k \in Nat /\ k = n2 + 1 /\ k + Held(k1) = n2 + Held(c1)
    BY <1>1, <2>1
  <2>3. /\ c1.item = n2 + 1 /\ Numbered(w2.data, m)
        /\ n2 + Held(c1) + Size(w1) <= s
    BY <1>3, <2>1 DEF Line
  <2>4. Numbered(v2.data, m)
    BY <2>1, <2>2, <2>3, WireFacts
  <2>5. k <= s /\ k + Held(k1) + Size(w1) = n2 + Held(c1) + Size(w1)
    BY <1>1, <2>2, <2>3
  <2> QED
    BY <1>1, <1>3, <2>1, <2>2, <2>4, <2>5 DEF Line
<1> QED
  BY <1>2, <1>3

(* Nothing depends any more on what is before a wire that does not carry:  *)
(* the third one is closed by the reader ...                               *)
LEMMA LineDeafThird ==
  ASSUME NEW n \in Nat, NEW s \in Nat, n <= s, NEW w1, NEW w2, NEW w3 \in WireStates,
         NEW c1, NEW c2, NEW b, w3.deaf, w3.data = <<>>
  PROVE  Line(n, s, w1, c1, w2, c2, w3, b)
<1>1. Size(w3) = 0 /\ Numbered(w3.data, n) /\ ~Carries(w3)
  BY NoneNumbered DEF Size, Carries
<1> QED
  BY <1>1 DEF Line

(* ... or it was, and what its copy writes is dropped ...                  *)
LEMMA LineDeadThird ==
  ASSUME NEW n \in Nat, NEW s \in Nat, NEW w1, NEW w2, NEW w3 \in WireStates,
         NEW c1, NEW c2, NEW b,
         Line(n, s, w1, c1, w2, c2, w3, b), w3.deaf,
         NEW v1, NEW v2, NEW v3 \in WireStates, NEW k1, NEW k2, NEW x,
         v3.data = w3.data, v3.deaf
  PROVE  Line(n, s, v1, k1, v2, k2, v3, x)
BY DEF Line, Carries, Size

(* ... or it gets its end of file, in order or as the stream breaks ...    *)
LEMMA LineFinThird ==
  ASSUME NEW n \in Nat, NEW s \in Nat, NEW w1 \in WireStates, NEW w2 \in WireStates,
         NEW w3 \in WireStates, NEW c1 \in CopyStates, NEW c2 \in CopyStates, NEW b,
         Line(n, s, w1, c1, w2, c2, w3, b), NEW x, b => x,
         x \/ w3.fin \/ (w2.fin /\ ~w2.deaf /\ w2.data = <<>> /\ Held(c2) = 0),
         NEW v1, NEW v2, NEW v3 \in WireStates, NEW k1, NEW k2,
         w1.fin => v1.fin,
         v3.data = w3.data, v3.fin, v3.deaf = w3.deaf
  PROVE  Line(n, s, v1, k1, v2, k2, v3, x)
<1>1. Size(v3) = Size(w3) /\ ~Carries(v3) /\ Size(w3) \in Nat
  BY WireFacts DEF Size, Carries
<1>2. Numbered(v3.data, n) /\ n + Size(v3) <= s
  BY <1>1 DEF Line
<1>3. CASE x \/ w3.fin \/ w3.deaf
  BY <1>1, <1>2, <1>3 DEF Line
<1>4. CASE ~x /\ Carries(w3) /\ (w2.fin /\ ~w2.deaf /\ w2.data = <<>> /\ Held(c2) = 0)
  <2>1. w1.fin /\ n + Size(w3) + Held(c2) + Size(w2) = s
    BY <1>4 DEF Line
  <2>2. Size(w2) = 0
    BY <1>4, NoneNumbered DEF Size
  <2>3. n + Size(w3) = s
    BY <1>1, <1>4, <2>1, <2>2
  <2> QED
    BY <1>1, <1>2, <2>1, <2>3 DEF Line
<1> QED
  BY <1>3, <1>4 DEF Carries

(* ... or the second one is or gets closed or ended, perhaps losing what   *)
(* was sent last.                                                          *)
LEMMA LineFinSecond ==
  ASSUME NEW n \in Nat, NEW s \in Nat, NEW w1 \in WireStates, NEW w2 \in WireStates,
         NEW w3 \in WireStates, NEW c1 \in CopyStates, NEW c2 \in CopyStates, NEW b,
         Line(n, s, w1, c1, w2, c2, w3, b), NEW x, b => x,
         NEW v1, NEW v2 \in WireStates, NEW k1, w1.fin => v1.fin,
         v2.fin \/ v2.deaf, v2.deaf = w2.deaf,
         NEW k \in 0..Size(w2), v2.data = SubSeq(w2.data, 1, k),
         \/ x
         \/ /\ k = Size(w2)
            /\ \/ w2.fin \/ w2.deaf
               \/ w1.fin /\ ~w1.deaf /\ w1.data = <<>> /\ Held(c1) = 0
  PROVE  Line(n, s, v1, k1, v2, c2, w3, x)
<1>1. /\ Size(w1) \in Nat /\ Size(w2) \in Nat /\ Size(w3) \in Nat
      /\ Held(c1) \in Nat /\ Held(c2) \in Nat /\ ~Carries(v2) /\ k \in Nat /\ k <= Size(w2)
  BY WireFacts DEF Held, Carries
<1>2. CASE ~Carries(w3)
  BY <1>2 DEF Line
<1>3. CASE Carries(w3)
  <2>1. PICK m : m = n + Size(w3) + Held(c2)
    OBVIOUS
  <2>2. m \in Nat /\ Numbered(w2.data, m) /\ m + Size(w2) <= s
    BY <1>1, <1>3, <2>1 DEF Line
  <2>3. Numbered(v2.data, m) /\ Size(v2) = k
    <3>1. w2.data \in Seq(Nat) /\ k \in 0..Len(w2.data)
      BY DEF WireStates, Size
    <3> QED
      BY <2>2, <3>1, NumberedFacts DEF Size
  <2>4. m + Size(v2) <= s
    BY <1>1, <2>2, <2>3
  <2>5. v2.fin /\ ~v2.deaf /\ ~x => v1.fin /\ m + Size(v2) = s
    <3>1. SUFFICES ASSUME ~v2.deaf, ~x
                   PROVE  v1.fin /\ m + Size(v2) = s
      OBVIOUS
    <3>2. k = Size(w2) /\ ~w2.deaf /\ ~b
      BY <3>1
    <3>3. CASE w2.fin
      BY <1>3, <2>1, <2>3, <3>2, <3>3 DEF Line
    <3>4. CASE ~w2.fin /\ w1.fin /\ ~w1.deaf /\ w1.data = <<>> /\ Held(c1) = 0
      <4>1. Carries(w2) /\ Size(w1) = 0
        BY <3>2, <3>4, NoneNumbered DEF Carries, Size
      <4>2. m + Size(w2) + Held(c1) + Size(w1) = s
        BY <1>3, <2>1, <3>4, <4>1 DEF Line
      <4>3. m + Size(w2) = s
        BY <1>1, <2>2, <3>4, <4>1, <4>2
      <4> QED
        BY <2>3, <3>2, <3>4, <4>3
    <3> QED
      BY <3>1, <3>2, <3>3, <3>4
  <2>6. /\ Held(c2) = 1 => c2.item = n + Size(w3) + 1
        /\ Numbered(w3.data, n) /\ n + Size(w3) <= s /\ ~w3.fin
    BY <1>3 DEF Line, Carries
  <2> QED
    BY <1>1, <1>3, <2>1, <2>3, <2>4, <2>5, <2>6 DEF Line
<1> QED
  BY <1>2, <1>3

(* The server no longer reads the first wire: it has refused the user.     *)
LEMMA LineDeafFirst ==
  ASSUME NEW n \in Nat, NEW s \in Nat, NEW w1 \in WireStates, NEW w2 \in WireStates,
         NEW w3 \in WireStates, NEW c1 \in CopyStates, NEW c2 \in CopyStates, NEW b,
         Line(n, s, w1, c1, w2, c2, w3, b),
         NEW v1 \in WireStates, w1.fin => v1.fin, v1.deaf, v1.data = <<>>
  PROVE  Line(n, s, v1, c1, w2, c2, w3, b)
<1>1. /\ Size(w1) \in Nat /\ Size(w2) \in Nat /\ Size(w3) \in Nat /\ Size(v1) = 0
      /\ Held(c1) \in Nat /\ Held(c2) \in Nat
      /\ \A m : Numbered(v1.data, m)
  BY WireFacts, NoneNumbered DEF Held, Size
<1>2. CASE ~(Carries(w3) /\ Carries(w2))
  BY <1>2 DEF Line
<1>3. CASE Carries(w3) /\ Carries(w2)
  <2>1. PICK m : m = n + Size(w3) + Held(c2) + Size(w2) + Held(c1)
    OBVIOUS
  <2>2. m \in Nat /\ m + Size(w1) <= s
    BY <1>1, <1>3, <2>1 DEF Line
  <2>3. m + Size(v1) <= s
    BY <1>1, <2>2
  <2> QED
    BY <1>1, <1>3, <2>1, <2>3 DEF Line
<1> QED
  BY <1>2, <1>3

-----------------------------------------------------------------------------
(* The two lines in the relay.                                             *)

(* The wires and copies of the line to e, and how they lie to those of the *)
(* other line.                                                             *)
LEMMA Geometry ==
  ASSUME NEW e \in Ends
  PROVE  /\ Other(e) \in Ends /\ Other(Other(e)) = e /\ Other(e) # e
         /\ First(e) \in Wires /\ Second(e) \in Wires /\ Into(e) \in Wires
         /\ FirstCopy(e) \in Copies /\ SecondCopy(e) \in Copies
         /\ In(FirstCopy(e)) = First(e) /\ Out(FirstCopy(e)) = Second(e)
         /\ In(SecondCopy(e)) = Second(e) /\ Out(SecondCopy(e)) = Into(e)
         /\ FirstCopy(e)[2] = Near(Other(e)) /\ SecondCopy(e)[2] = Near(e)
         /\ FirstCopy(e) # SecondCopy(e)
         /\ First(e) # Second(e) /\ Second(e) # Into(e) /\ First(e) # Into(e)
         /\ Second(e) \in Channel /\ First(e) \notin Channel /\ Into(e) \notin Channel
         /\ First(e) = OutOf(Other(e))
         /\ Back(Into(e)) = First(Other(e)) /\ Back(Second(e)) = Second(Other(e))
         /\ Second(e) = <<Near(Other(e)), Peer(Near(Other(e)))>>
         /\ Near(e) \in Sides /\ Peer(Near(e)) = Near(Other(e)) /\ Far(Near(e)) = e
<1>1. /\ Second(e) = <<Near(Other(e)), Peer(Near(Other(e)))>>
      /\ Near(e) \in Sides /\ Peer(Near(e)) = Near(Other(e)) /\ Far(Near(e)) = e
  BY Topology DEF Ends, Other, Second, Near, Sides
<1> QED
  BY <1>1 DEF Ends, Other, First, Second, Into, OutOf, Near, FirstCopy, SecondCopy, Copies, In, Out,
       Wires, Channel, Back

LEMMA Apart ==
  ASSUME NEW e \in Ends
  PROVE  /\ FirstCopy(e) \notin {FirstCopy(Other(e)), SecondCopy(Other(e))}
         /\ SecondCopy(e) \notin {FirstCopy(Other(e)), SecondCopy(Other(e))}
         /\ First(e) \notin {First(Other(e)), Second(Other(e)), Into(Other(e))}
         /\ Second(e) \notin {First(Other(e)), Second(Other(e)), Into(Other(e))}
         /\ Into(e) \notin {First(Other(e)), Second(Other(e)), Into(Other(e))}
         /\ \A d \in Ends : d = e \/ d = Other(e)
         /\ \A c \in Copies : c \in {FirstCopy(e), SecondCopy(e),
                                     FirstCopy(Other(e)), SecondCopy(Other(e))}
         /\ \A w \in Wires : w \in {First(e), Second(e), Into(e),
                                    First(Other(e)), Second(Other(e)), Into(Other(e))}
         /\ Channel = {Second(e), Second(Other(e))}
<1>1. Copies = {FirstCopy("user"), SecondCopy("user"), FirstCopy("local"), SecondCopy("local")}
  BY DEF Copies, FirstCopy, SecondCopy, Other, Near
<1>2. Wires = {First("user"), Second("user"), Into("user"),
               First("local"), Second("local"), Into("local")}
  BY DEF Wires, Copies, In, Out, First, Second, Into, OutOf, Other, Near
<1>3. e \in {"user", "local"} /\ Other("user") = "local" /\ Other("local") = "user"
  BY DEF Ends, Other
<1> QED
  BY <1>1, <1>2, <1>3
     DEF Ends, Other, First, Second, Into, OutOf, Near, FirstCopy, SecondCopy, Channel

(* What a change of one wire does.                                         *)
LEMMA OneWire ==
  ASSUME wire \in [Wires -> WireStates], NEW w \in Wires, NEW r, wire' = [wire EXCEPT ![w] = r]
  PROVE  wire'[w] = r /\ \A v \in Wires \ {w} : wire'[v] = wire[v]
OBVIOUS

(* What closing a connection does to its two wires, and that it leaves the *)
(* others alone.                                                           *)
LEMMA ClosedEffect ==
  ASSUME NEW W \in [Wires -> WireStates], NEW p, NEW q, <<p, q>> \in Wires, <<q, p>> \in Wires,
         p # q
  PROVE  LET V == Closed(W, p, q)
         IN /\ V[<<p, q>>].fin /\ V[<<p, q>>].data = W[<<p, q>>].data
            /\ V[<<p, q>>].deaf = W[<<p, q>>].deaf
            /\ W[<<p, q>>].cut => V[<<p, q>>].cut
            /\ V[<<q, p>>].deaf /\ V[<<q, p>>].data = <<>>
            /\ V[<<q, p>>].fin = W[<<q, p>>].fin /\ V[<<q, p>>].cut = W[<<q, p>>].cut
            /\ \A w \in Wires : w \notin {<<p, q>>, <<q, p>>} => V[w] = W[w]
<1> DEFINE out == <<p, q>>
           in  == <<q, p>>
           cut == W[out].cut \/ W[in].data # <<>>
           W1 == [W EXCEPT ![out].fin = TRUE]
           W2 == [W1 EXCEPT ![out].cut = cut]
           W3 == [W2 EXCEPT ![in].deaf = TRUE]
           W4 == [W3 EXCEPT ![in].data = <<>>]
<1>1. out \in Wires /\ in \in Wires /\ out # in /\ cut \in BOOLEAN
  BY Flags
<1>2. Closed(W, p, q) = W4
  BY Flags DEF Closed, WireStates
<1>3. W[out].cut => cut
  BY <1>1, Flags
<1> HIDE DEF out, in, cut
<1>4. /\ W4[out].fin /\ W4[out].cut = cut
      /\ W4[out].data = W[out].data /\ W4[out].deaf = W[out].deaf
  BY <1>1 DEF WireStates
<1>5. /\ W4[in].deaf /\ W4[in].data = <<>>
      /\ W4[in].fin = W[in].fin /\ W4[in].cut = W[in].cut
  BY <1>1 DEF WireStates
<1>6. \A w \in Wires : w \notin {out, in} => W4[w] = W[w]
  BY <1>1
<1> HIDE DEF W4
<1> QED
  BY <1>2, <1>3, <1>4, <1>5, <1>6 DEF out, in

(* What sending a close does to the wire that comes after it.              *)
LEMMA HungEffect ==
  ASSUME NEW W \in [Wires -> WireStates], NEW e \in Ends
  PROVE  LET V == Hung(W, Near(e))
             w == Second(Other(e))
         IN /\ V[w].fin /\ V[w].data = W[w].data
            /\ V[w].deaf = W[w].deaf /\ V[w].cut = W[w].cut
            /\ \A v \in Wires \ {w} : V[v] = W[v]
<1> DEFINE w == Second(Other(e))
           V == [W EXCEPT ![w].fin = TRUE]
<1>1. w \in Wires /\ Hung(W, Near(e)) = V
  BY Geometry DEF Hung
<1> HIDE DEF w
<1>2. /\ V[w].fin /\ V[w].data = W[w].data
      /\ V[w].deaf = W[w].deaf /\ V[w].cut = W[w].cut
      /\ \A v \in Wires \ {w} : V[v] = W[v]
  BY <1>1 DEF WireStates
<1> HIDE DEF V
<1> QED
  BY <1>1, <1>2 DEF w

(* What the end of a side does, e being its end: the third wire to e and   *)
(* the second one of the other line get their end of file, the one from e  *)
(* goes deaf.                                                              *)
LEMMA FinishEffect ==
  ASSUME wire \in [Wires -> WireStates], NEW e \in Ends,
         wire' = Closed(Hung(wire, Near(e)), Near(e), Far(Near(e)))
  PROVE  LET d == Other(e)
         IN /\ wire'[Into(e)].fin /\ wire'[Into(e)].data = wire[Into(e)].data
            /\ wire'[Into(e)].deaf = wire[Into(e)].deaf
            /\ wire'[Second(d)].fin /\ wire'[Second(d)].data = wire[Second(d)].data
            /\ wire'[Second(d)].deaf = wire[Second(d)].deaf
            /\ wire'[Second(d)].cut = wire[Second(d)].cut
            /\ wire'[First(d)].deaf /\ wire'[First(d)].data = <<>>
            /\ wire'[First(d)].fin = wire[First(d)].fin
            /\ wire'[First(d)].cut = wire[First(d)].cut
            /\ \A w \in {First(e), Second(e), Into(d)} : wire'[w] = wire[w]
<1> DEFINE p == Near(e)
           W == Hung(wire, p)
           V == Closed(W, p, e)
<1>1. /\ <<p, e>> = Into(e) /\ <<e, p>> = First(Other(e)) /\ p # e
      /\ <<p, e>> \in Wires /\ <<e, p>> \in Wires
  BY Geometry, Topology DEF Into, First, OutOf, Other, Near, Ends
<1>2. Far(p) = e /\ p \in Sides
  BY Geometry
<1>3. wire' = V
  BY <1>2
<1>4. W \in [Wires -> WireStates]
  BY <1>2, HungType
<1>5. /\ W[Second(Other(e))].fin /\ W[Second(Other(e))].data = wire[Second(Other(e))].data
      /\ W[Second(Other(e))].deaf = wire[Second(Other(e))].deaf
      /\ W[Second(Other(e))].cut = wire[Second(Other(e))].cut
      /\ \A v \in Wires \ {Second(Other(e))} : W[v] = wire[v]
  BY HungEffect
<1> HIDE DEF W, p
<1>6. /\ V[<<p, e>>].fin /\ V[<<p, e>>].data = W[<<p, e>>].data
      /\ V[<<p, e>>].deaf = W[<<p, e>>].deaf
      /\ V[<<e, p>>].deaf /\ V[<<e, p>>].data = <<>>
      /\ V[<<e, p>>].fin = W[<<e, p>>].fin /\ V[<<e, p>>].cut = W[<<e, p>>].cut
      /\ \A w \in Wires : w \notin {<<p, e>>, <<e, p>>} => V[w] = W[w]
  BY <1>1, <1>4, ClosedEffect
<1> HIDE DEF V
<1> QED
  BY <1>1, <1>3, <1>5, <1>6, Geometry, Apart

(* The types and the invariant of one line, for the lemmas above.          *)
LEMMA LineTypes ==
  ASSUME TypeOK, NEW e \in Ends
  PROVE  /\ Len(got[e]) \in Nat /\ sent[Other(e)] \in Nat
         /\ wire[First(e)] \in WireStates /\ wire[Second(e)] \in WireStates
         /\ wire[Into(e)] \in WireStates
         /\ copy[FirstCopy(e)] \in CopyStates /\ copy[SecondCopy(e)] \in CopyStates
BY Geometry DEF TypeOK

(* The line to e, by the names of the lemmas above.                        *)
Picture(e, n, s, w1, c1, w2, c2, w3, b) ==
  /\ n \in Nat /\ s \in Nat /\ b \in BOOLEAN
  /\ w1 \in WireStates /\ w2 \in WireStates /\ w3 \in WireStates
  /\ c1 \in CopyStates /\ c2 \in CopyStates
  /\ n = Len(got[e]) /\ s = sent[Other(e)] /\ b = Broken(e)
  /\ w1 = wire[First(e)] /\ w2 = wire[Second(e)] /\ w3 = wire[Into(e)]
  /\ c1 = copy[FirstCopy(e)] /\ c2 = copy[SecondCopy(e)]

LEMMA Before ==
  ASSUME TypeOK, NEW e \in Ends, Flow(e)
  PROVE  \E n, s, w1, c1, w2, c2, w3, b : /\ Picture(e, n, s, w1, c1, w2, c2, w3, b)
                                          /\ Line(n, s, w1, c1, w2, c2, w3, b)
<1>1. PICK n, s, w1, c1, w2, c2, w3, b :
        /\ n = Len(got[e]) /\ s = sent[Other(e)] /\ b = Broken(e)
        /\ w1 = wire[First(e)] /\ w2 = wire[Second(e)] /\ w3 = wire[Into(e)]
        /\ c1 = copy[FirstCopy(e)] /\ c2 = copy[SecondCopy(e)]
  OBVIOUS
<1>2. b \in BOOLEAN
  BY <1>1 DEF Broken
<1>3. Picture(e, n, s, w1, c1, w2, c2, w3, b)
  BY <1>1, <1>2, LineTypes DEF Picture
<1>4. Line(n, s, w1, c1, w2, c2, w3, b)
  BY <1>1 DEF Flow
<1> QED
  BY <1>3, <1>4

LEMMA After ==
  ASSUME TypeOK', NEW e \in Ends
  PROVE  \E n, s, w1, c1, w2, c2, w3, b : /\ Picture(e, n, s, w1, c1, w2, c2, w3, b)'
                                          /\ Line(n, s, w1, c1, w2, c2, w3, b) => Flow(e)'
<1>1. PICK n, s, w1, c1, w2, c2, w3, b :
        /\ n = Len(got'[e]) /\ s = sent'[Other(e)] /\ b = Broken(e)'
        /\ w1 = wire'[First(e)] /\ w2 = wire'[Second(e)] /\ w3 = wire'[Into(e)]
        /\ c1 = copy'[FirstCopy(e)] /\ c2 = copy'[SecondCopy(e)]
  OBVIOUS
<1>2. b \in BOOLEAN
  BY <1>1 DEF Broken
<1>3. /\ n \in Nat /\ s \in Nat /\ w1 \in WireStates /\ w2 \in WireStates /\ w3 \in WireStates
      /\ c1 \in CopyStates /\ c2 \in CopyStates
  BY <1>1, Geometry DEF TypeOK
<1>4. Picture(e, n, s, w1, c1, w2, c2, w3, b)'
  BY <1>1, <1>2, <1>3 DEF Picture
<1>5. Line(n, s, w1, c1, w2, c2, w3, b) => Flow(e)'
  BY <1>1 DEF Flow
<1> QED
  BY <1>4, <1>5

(* A step that only ends the writer of a line or breaks it.                *)
LEMMA FlowFrame ==
  ASSUME TypeOK, TypeOK', NEW e \in Ends, Flow(e), Broken(e) => Broken(e)',
         got'[e] = got[e], sent'[Other(e)] = sent[Other(e)],
         Keeps(copy'[FirstCopy(e)], copy[FirstCopy(e)]),
         Keeps(copy'[SecondCopy(e)], copy[SecondCopy(e)]),
         wire'[First(e)].data = wire[First(e)].data, wire[First(e)].fin => wire'[First(e)].fin,
         wire'[First(e)].deaf = wire[First(e)].deaf,
         Alike(wire'[Second(e)], wire[Second(e)]), Alike(wire'[Into(e)], wire[Into(e)])
  PROVE  Flow(e)'
<1>1. PICK n, s, w1, c1, w2, c2, w3, b : /\ Picture(e, n, s, w1, c1, w2, c2, w3, b)
                                         /\ Line(n, s, w1, c1, w2, c2, w3, b)
  BY Before
<1>2. PICK m, r, v1, k1, v2, k2, v3, x : /\ Picture(e, m, r, v1, k1, v2, k2, v3, x)'
                                         /\ Line(m, r, v1, k1, v2, k2, v3, x) => Flow(e)'
  BY After
<1>3. /\ m = n /\ r = s /\ (b => x) /\ v1.data = w1.data /\ (w1.fin => v1.fin)
      /\ v1.deaf = w1.deaf /\ Alike(v2, w2) /\ Alike(v3, w3) /\ Keeps(k1, c1) /\ Keeps(k2, c2)
  BY <1>1, <1>2 DEF Picture
<1>4. /\ n \in Nat /\ s \in Nat /\ w1 \in WireStates /\ w2 \in WireStates /\ w3 \in WireStates
      /\ c1 \in CopyStates /\ c2 \in CopyStates /\ v1 \in WireStates /\ v2 \in WireStates
      /\ v3 \in WireStates /\ k1 \in CopyStates /\ k2 \in CopyStates
  BY <1>1, <1>2 DEF Picture
<1>5. Line(n, s, v1, k1, v2, k2, v3, x)
  BY <1>1, <1>3, <1>4, LineFrame
<1> QED
  BY <1>2, <1>3, <1>5

(* The same for steps after which nothing depends on what is before the    *)
(* third wire, or before the second one.                                   *)
LEMMA FlowFinThird ==
  ASSUME TypeOK, TypeOK', NEW e \in Ends, Flow(e), Broken(e) => Broken(e)',
         got'[e] = got[e], sent'[Other(e)] = sent[Other(e)],
         wire[First(e)].fin => wire'[First(e)].fin,
         wire'[Into(e)].data = wire[Into(e)].data, wire'[Into(e)].fin,
         wire'[Into(e)].deaf = wire[Into(e)].deaf,
         \/ Broken(e)' \/ wire[Into(e)].fin
         \/ /\ wire[Second(e)].fin /\ ~wire[Second(e)].deaf /\ wire[Second(e)].data = <<>>
            /\ Held(copy[SecondCopy(e)]) = 0
  PROVE  Flow(e)'
<1>1. PICK n, s, w1, c1, w2, c2, w3, b : /\ Picture(e, n, s, w1, c1, w2, c2, w3, b)
                                         /\ Line(n, s, w1, c1, w2, c2, w3, b)
  BY Before
<1>2. PICK m, r, v1, k1, v2, k2, v3, x : /\ Picture(e, m, r, v1, k1, v2, k2, v3, x)'
                                         /\ Line(m, r, v1, k1, v2, k2, v3, x) => Flow(e)'
  BY After
<1>3. /\ m = n /\ r = s /\ (b => x) /\ (w1.fin => v1.fin)
      /\ v3.data = w3.data /\ v3.fin /\ v3.deaf = w3.deaf
      /\ x \/ w3.fin \/ (w2.fin /\ ~w2.deaf /\ w2.data = <<>> /\ Held(c2) = 0)
  BY <1>1, <1>2 DEF Picture
<1>4. /\ n \in Nat /\ s \in Nat /\ w1 \in WireStates /\ w2 \in WireStates /\ w3 \in WireStates
      /\ c1 \in CopyStates /\ c2 \in CopyStates /\ v3 \in WireStates
  BY <1>1, <1>2 DEF Picture
<1>5. Line(n, s, v1, k1, v2, k2, v3, x)
  BY <1>1, <1>3, <1>4, LineFinThird
<1> QED
  BY <1>2, <1>3, <1>5

LEMMA FlowDeadThird ==
  ASSUME TypeOK, TypeOK', NEW e \in Ends, Flow(e),
         got'[e] = got[e], sent'[Other(e)] = sent[Other(e)],
         wire[Into(e)].deaf, wire'[Into(e)].data = wire[Into(e)].data, wire'[Into(e)].deaf
  PROVE  Flow(e)'
<1>1. PICK n, s, w1, c1, w2, c2, w3, b : /\ Picture(e, n, s, w1, c1, w2, c2, w3, b)
                                         /\ Line(n, s, w1, c1, w2, c2, w3, b)
  BY Before
<1>2. PICK m, r, v1, k1, v2, k2, v3, x : /\ Picture(e, m, r, v1, k1, v2, k2, v3, x)'
                                         /\ Line(m, r, v1, k1, v2, k2, v3, x) => Flow(e)'
  BY After
<1>3. /\ m = n /\ r = s /\ w3.deaf /\ v3.data = w3.data /\ v3.deaf
      /\ n \in Nat /\ s \in Nat /\ w3 \in WireStates /\ v3 \in WireStates
  BY <1>1, <1>2 DEF Picture
<1>4. Line(n, s, v1, k1, v2, k2, v3, x)
  BY <1>1, <1>3, LineDeadThird
<1> QED
  BY <1>2, <1>3, <1>4

LEMMA FlowFinSecond ==
  ASSUME TypeOK, TypeOK', NEW e \in Ends, Flow(e), Broken(e) => Broken(e)',
         got'[e] = got[e], sent'[Other(e)] = sent[Other(e)],
         wire[First(e)].fin => wire'[First(e)].fin,
         wire'[Into(e)] = wire[Into(e)], copy'[SecondCopy(e)] = copy[SecondCopy(e)],
         wire'[Second(e)].fin \/ wire'[Second(e)].deaf,
         wire'[Second(e)].deaf = wire[Second(e)].deaf,
         NEW k \in 0..Size(wire[Second(e)]),
         wire'[Second(e)].data = SubSeq(wire[Second(e)].data, 1, k),
         \/ Broken(e)'
         \/ /\ k = Size(wire[Second(e)])
            /\ \/ wire[Second(e)].fin \/ wire[Second(e)].deaf
               \/ /\ wire[First(e)].fin /\ ~wire[First(e)].deaf /\ wire[First(e)].data = <<>>
                  /\ Held(copy[FirstCopy(e)]) = 0
  PROVE  Flow(e)'
<1>1. PICK n, s, w1, c1, w2, c2, w3, b : /\ Picture(e, n, s, w1, c1, w2, c2, w3, b)
                                         /\ Line(n, s, w1, c1, w2, c2, w3, b)
  BY Before
<1>2. PICK m, r, v1, k1, v2, k2, v3, x : /\ Picture(e, m, r, v1, k1, v2, k2, v3, x)'
                                         /\ Line(m, r, v1, k1, v2, k2, v3, x) => Flow(e)'
  BY After
<1>3. /\ m = n /\ r = s /\ (b => x) /\ (w1.fin => v1.fin) /\ v3 = w3 /\ k2 = c2
      /\ v2.fin \/ v2.deaf
      /\ v2.deaf = w2.deaf
  BY <1>1, <1>2 DEF Picture
<1>4. /\ k \in 0..Size(w2) /\ v2.data = SubSeq(w2.data, 1, k)
      /\ \/ x
         \/ /\ k = Size(w2)
            /\ \/ w2.fin \/ w2.deaf
               \/ w1.fin /\ ~w1.deaf /\ w1.data = <<>> /\ Held(c1) = 0
  BY <1>1, <1>2 DEF Picture
<1>5. /\ n \in Nat /\ s \in Nat /\ w1 \in WireStates /\ w2 \in WireStates /\ w3 \in WireStates
      /\ c1 \in CopyStates /\ c2 \in CopyStates /\ v2 \in WireStates
  BY <1>1, <1>2 DEF Picture
<1>6. Line(n, s, v1, k1, v2, c2, w3, x)
  BY <1>1, <1>3, <1>4, <1>5, LineFinSecond
<1> QED
  BY <1>2, <1>3, <1>6

-----------------------------------------------------------------------------
(* The steps and the streams.                                              *)

(* Steps that change one field of one wire.                                *)
LEMMA OneField ==
  ASSUME wire \in [Wires -> WireStates], NEW w \in Wires
  PROVE  /\ \A d : wire' = [wire EXCEPT ![w].data = d] =>
                     /\ wire'[w].data = d /\ wire'[w].fin = wire[w].fin
                     /\ wire'[w].deaf = wire[w].deaf /\ wire'[w].cut = wire[w].cut
                     /\ \A v \in Wires \ {w} : wire'[v] = wire[v]
         /\ wire' = [wire EXCEPT ![w].fin = TRUE] =>
                     /\ wire'[w].data = wire[w].data /\ wire'[w].fin
                     /\ wire'[w].deaf = wire[w].deaf /\ wire'[w].cut = wire[w].cut
                     /\ \A v \in Wires \ {w} : wire'[v] = wire[v]
         /\ wire' = [wire EXCEPT ![w].cut = TRUE] =>
                     /\ wire'[w].data = wire[w].data /\ wire'[w].fin = wire[w].fin
                     /\ wire'[w].deaf = wire[w].deaf /\ wire'[w].cut
                     /\ \A v \in Wires \ {w} : wire'[v] = wire[v]
BY DEF WireStates

(* What has broken a stream stays.                                         *)
LEMMA BrokenStays ==
  ASSUME NEW e \in Ends, lost => lost', watchdog' = watchdog \/ (TimedOut => TimedOut'),
         side["client"] = "refused" => side'["client"] = "refused",
         wire[First(e)].cut => wire'[First(e)].cut
  PROVE  Broken(e) => Broken(e)'
BY DEF Broken, First, TimedOut

(* A line of which only the writer's end of file and resets change.        *)
LEMMA FlowStays ==
  ASSUME TypeOK, TypeOK', NEW e \in Ends, Flow(e), Broken(e) => Broken(e)',
         got'[e] = got[e], sent'[Other(e)] = sent[Other(e)],
         copy'[FirstCopy(e)] = copy[FirstCopy(e)], copy'[SecondCopy(e)] = copy[SecondCopy(e)],
         wire'[First(e)].data = wire[First(e)].data, wire[First(e)].fin => wire'[First(e)].fin,
         wire'[First(e)].deaf = wire[First(e)].deaf,
         Alike(wire'[Second(e)], wire[Second(e)]), Alike(wire'[Into(e)], wire[Into(e)])
  PROVE  Flow(e)'
<1>1. Keeps(copy'[FirstCopy(e)], copy[FirstCopy(e)]) /\ Keeps(copy'[SecondCopy(e)], copy[SecondCopy(e)])
  BY DEF Keeps
<1> QED
  BY <1>1, FlowFrame

(* Plumbing that changes nothing but more data, ends and resets.           *)
LEMMA PlumbingStays ==
  ASSUME Plumbing, UNCHANGED side, watchdog' = watchdog \/ (TimedOut => TimedOut'),
         \A c \in Copies : /\ copy'[c].pc \in {"read", "stamp", "write"}
                                => copy[c].pc \in {"read", "stamp", "write"}
                           /\ copy[c].pc = "off" => copy'[c].pc = "off"
                           /\ copy'[c].pc = "done" => wire'[Out(c)].fin
                           /\ wire'[In(c)].deaf => wire[In(c)].deaf
         , \A w \in Channel : /\ wire'[w].cut => wire[w].cut
                              /\ wire'[w].deaf => wire[w].deaf,
         \A e \in Ends : /\ wire'[OutOf(e)].cut => wire[OutOf(e)].cut \/ wire'[Into(e)].deaf
                         /\ wire[Into(e)].deaf => wire'[Into(e)].deaf
  PROVE  Plumbing'
BY DEF Plumbing, TimedOut

(* A step that ends no wire, no copy and no side.                          *)
LEMMA PlumbingKept ==
  ASSUME Plumbing, UNCHANGED <<side, watchdog>>,
         \A w \in Wires : /\ wire'[w].fin = wire[w].fin /\ wire'[w].deaf = wire[w].deaf
                          /\ wire'[w].cut = wire[w].cut,
         \A c \in Copies : \/ copy'[c].pc = copy[c].pc
                           \/ {copy'[c].pc, copy[c].pc} \subseteq {"read", "stamp", "write"}
  PROVE  Plumbing'
<1>1. \A c \in Copies : /\ wire'[Out(c)].fin = wire[Out(c)].fin
                        /\ wire'[In(c)].deaf = wire[In(c)].deaf
  BY Topology
<1>2. \A w \in Channel : wire'[w].cut = wire[w].cut /\ wire'[w].deaf = wire[w].deaf
  BY Topology DEF Channel
<1>3. \A e \in Ends : /\ wire'[OutOf(e)].cut = wire[OutOf(e)].cut
                      /\ wire'[Into(e)].deaf = wire[Into(e)].deaf
  BY Topology
<1>4. \A c \in Copies : /\ copy'[c].pc \in {"read", "stamp", "write"}
                             => copy[c].pc \in {"read", "stamp", "write"}
                        /\ copy[c].pc = "off" => copy'[c].pc = "off"
                        /\ copy'[c].pc = "done" => copy[c].pc = "done"
  OBVIOUS
<1>5. \A c \in Copies : copy'[c].pc = "done" => wire'[Out(c)].fin
  BY <1>1, <1>4 DEF Plumbing, TimedOut
<1> QED
  BY <1>1, <1>2, <1>3, <1>4, <1>5, PlumbingStays

(* A line that a step does not touch at all.                               *)
LEMMA FlowUntouched ==
  ASSUME TypeOK, TypeOK', NEW e \in Ends, Flow(e), Broken(e) => Broken(e)',
         got'[e] = got[e], sent'[Other(e)] = sent[Other(e)],
         copy'[FirstCopy(e)] = copy[FirstCopy(e)], copy'[SecondCopy(e)] = copy[SecondCopy(e)],
         wire'[First(e)] = wire[First(e)], wire'[Second(e)] = wire[Second(e)],
         wire'[Into(e)] = wire[Into(e)]
  PROVE  Flow(e)'
BY FlowStays DEF Alike

-----------------------------------------------------------------------------
(* The ends.                                                               *)
LEMMA EndSendsFlows ==
  ASSUME TypeOK, TypeOK', StreamInv, NEW d \in Ends, EndSends(d)
  PROVE  StreamInv'
<1> DEFINE e == Other(d)
<1>1. /\ wire \in [Wires -> WireStates] /\ First(e) = OutOf(d) /\ First(e) \in Wires /\ e \in Ends
      /\ Other(e) = d
  BY Geometry DEF TypeOK
<1>2. /\ wire' = [wire EXCEPT ![First(e)].data = Append(wire[First(e)].data, sent[d] + 1)]
      /\ Carries(wire[First(e)]) /\ sent'[d] = sent[d] + 1 /\ sent'[e] = sent[e]
      /\ UNCHANGED <<copy, side, lost, watchdog, got>>
  BY <1>1, Geometry DEF EndSends, Put, CanPut, Carries, TypeOK, sshVars, timeVars
<1>3. /\ Added(wire'[First(e)], wire[First(e)], sent[d] + 1)
      /\ wire'[First(e)].cut = wire[First(e)].cut
      /\ \A v \in Wires \ {First(e)} : wire'[v] = wire[v]
  BY <1>1, <1>2, OneField DEF Added
<1>4. Flow(e) /\ Flow(d) /\ Plumbing
  BY <1>1 DEF StreamInv
<1>5. Flow(d)'
  <2>1. First(e) \notin {First(d), Second(d), Into(d)} /\ {First(d), Second(d), Into(d)} \subseteq Wires
    BY Apart, Geometry
  <2>2. wire'[First(d)] = wire[First(d)] /\ wire'[Second(d)] = wire[Second(d)] /\ wire'[Into(d)] = wire[Into(d)]
    BY <1>3, <2>1
  <2>3. Broken(d) => Broken(d)'
    BY <1>2, <2>2, BrokenStays
  <2> QED
    BY <1>2, <1>4, <2>2, <2>3, FlowUntouched
<1>6. Flow(e)'
  <2>1. PICK n, s, w1, c1, w2, c2, w3, b : /\ Picture(e, n, s, w1, c1, w2, c2, w3, b)
                                           /\ Line(n, s, w1, c1, w2, c2, w3, b)
    BY <1>1, <1>4, Before
  <2>2. PICK m, r, v1, k1, v2, k2, v3, x : /\ Picture(e, m, r, v1, k1, v2, k2, v3, x)'
                                           /\ Line(m, r, v1, k1, v2, k2, v3, x) => Flow(e)'
    BY <1>1, After
  <2>3. wire'[Second(e)] = wire[Second(e)] /\ wire'[Into(e)] = wire[Into(e)]
    BY <1>1, <1>3, Geometry
  <2>4. Broken(e)' = Broken(e)
    BY <1>1, <1>2, <1>3 DEF Broken, TimedOut
  <2>5. /\ m = n /\ r = s + 1 /\ k1 = c1 /\ k2 = c2 /\ v2 = w2 /\ v3 = w3 /\ x = b
        /\ Carries(w1) /\ Added(v1, w1, s + 1)
    BY <1>1, <1>2, <1>3, <2>1, <2>2, <2>3, <2>4 DEF Picture
  <2>6. /\ n \in Nat /\ s \in Nat /\ w1 \in WireStates /\ w2 \in WireStates /\ w3 \in WireStates
        /\ c1 \in CopyStates /\ c2 \in CopyStates /\ v1 \in WireStates
    BY <2>1, <2>2 DEF Picture
  <2>7. Line(n, s + 1, v1, c1, w2, c2, w3, b)
    BY <2>1, <2>5, <2>6, LineSend
  <2> QED
    BY <2>2, <2>5, <2>7
<1>7. Plumbing'
  <2>1. \A w \in Wires : /\ wire'[w].fin = wire[w].fin /\ wire'[w].deaf = wire[w].deaf
                         /\ wire'[w].cut = wire[w].cut
    BY <1>3 DEF Added
  <2> QED
    BY <1>2, <1>4, <2>1, PlumbingKept
<1> QED
  BY <1>1, <1>5, <1>6, <1>7, Apart DEF StreamInv

LEMMA EndReadsFlows ==
  ASSUME TypeOK, TypeOK', StreamInv, NEW e \in Ends, EndReads(e)
  PROVE  /\ StreamInv'
         /\ Len(got[e]) < sent[Other(e)] /\ got'[e] = Append(got[e], Len(got[e]) + 1)
<1> DEFINE d == Other(e)
<1>1. /\ wire \in [Wires -> WireStates] /\ Into(e) \in Wires /\ d \in Ends /\ Other(d) = e /\ d # e
  BY Geometry DEF TypeOK
<1>2. /\ wire' = [wire EXCEPT ![Into(e)].data = Tail(wire[Into(e)].data)]
      /\ wire[Into(e)].data # <<>>
      /\ got'[e] = Append(got[e], Head(wire[Into(e)].data)) /\ got'[d] = got[d]
      /\ UNCHANGED <<copy, side, lost, watchdog, sent>>
  BY <1>1 DEF EndReads, CanTake, TypeOK, sshVars, timeVars
<1>3. /\ Taken(wire'[Into(e)], wire[Into(e)])
      /\ wire'[Into(e)].cut = wire[Into(e)].cut
      /\ \A v \in Wires \ {Into(e)} : wire'[v] = wire[v]
  BY <1>1, <1>2, OneField DEF Taken
<1>4. Flow(e) /\ Flow(d) /\ Plumbing
  BY <1>1 DEF StreamInv
<1>5. Flow(d)'
  <2>1. Into(e) \notin {First(d), Second(d), Into(d)} /\ {First(d), Second(d), Into(d)} \subseteq Wires
    BY Apart, Geometry
  <2>2. wire'[First(d)] = wire[First(d)] /\ wire'[Second(d)] = wire[Second(d)] /\ wire'[Into(d)] = wire[Into(d)]
    BY <1>3, <2>1
  <2>3. Broken(d) => Broken(d)'
    BY <1>1, <1>2, <2>2, BrokenStays
  <2> QED
    BY <1>1, <1>2, <1>4, <2>2, <2>3, FlowUntouched
<1>6. /\ Flow(e)'
      /\ Len(got[e]) < sent[Other(e)] /\ got'[e] = Append(got[e], Len(got[e]) + 1)
  <2>1. PICK n, s, w1, c1, w2, c2, w3, b : /\ Picture(e, n, s, w1, c1, w2, c2, w3, b)
                                           /\ Line(n, s, w1, c1, w2, c2, w3, b)
    BY <1>1, <1>4, Before
  <2>2. PICK m, r, v1, k1, v2, k2, v3, x : /\ Picture(e, m, r, v1, k1, v2, k2, v3, x)'
                                           /\ Line(m, r, v1, k1, v2, k2, v3, x) => Flow(e)'
    BY <1>1, After
  <2>3. wire'[First(e)] = wire[First(e)] /\ wire'[Second(e)] = wire[Second(e)]
    BY <1>1, <1>3, Geometry
  <2>4. Broken(e)' = Broken(e)
    BY <1>2, <2>3 DEF Broken, First, TimedOut
  <2>5. Len(got'[e]) = Len(got[e]) + 1
    <3>1. PICK g, h : g = got[e] /\ h = Head(wire[Into(e)].data)
      OBVIOUS
    <3>2. g \in Seq(Nat) /\ h \in Nat
      <4>1. g \in Seq(Nat) /\ wire \in [Wires -> WireStates]
        BY <1>1, <3>1 DEF TypeOK
      <4>2. Into(e) \in Wires
        BY <1>1, Geometry
      <4>3. PICK q : q = wire[Into(e)].data
        OBVIOUS
      <4>4. q \in Seq(Nat)
        BY <4>1, <4>2, <4>3, Flags
      <4>5. q # <<>>
        BY <1>2, <4>3
      <4>6. Head(q) \in Nat
        BY <4>4, <4>5
      <4> QED
        BY <3>1, <4>1, <4>3, <4>6
    <3>3. Len(Append(g, h)) = Len(g) + 1
      BY <3>2
    <3> QED
      BY <1>2, <3>1, <3>3
  <2>6. /\ m = n + 1 /\ r = s /\ k1 = c1 /\ k2 = c2 /\ v1 = w1 /\ v2 = w2 /\ x = b
        /\ Taken(v3, w3)
    BY <1>1, <1>2, <1>3, <2>1, <2>2, <2>3, <2>4, <2>5 DEF Picture
  <2>7. /\ n \in Nat /\ s \in Nat /\ w1 \in WireStates /\ w2 \in WireStates /\ w3 \in WireStates
        /\ c1 \in CopyStates /\ c2 \in CopyStates /\ v3 \in WireStates
    BY <2>1, <2>2 DEF Picture
  <2>8. Line(n + 1, s, w1, c1, w2, c2, v3, b) /\ Head(w3.data) = n + 1 /\ n < s
    BY <2>1, <2>6, <2>7, LineReceive
  <2> QED
    BY <1>2, <2>1, <2>2, <2>6, <2>8 DEF Picture
<1>7. Plumbing'
  <2>1. \A w \in Wires : /\ wire'[w].fin = wire[w].fin /\ wire'[w].deaf = wire[w].deaf
                         /\ wire'[w].cut = wire[w].cut
    BY <1>3 DEF Taken
  <2> QED
    BY <1>2, <1>4, <2>1, PlumbingKept
<1> QED
  BY <1>1, <1>5, <1>6, <1>7, Apart DEF StreamInv

(* An end of file, or a reset, of an end.                                  *)
LEMMA EndFlagFlows ==
  ASSUME TypeOK, TypeOK', StreamInv, NEW d \in Ends, EndFinishes(d) \/ EndIsReset(d)
  PROVE  StreamInv'
<1>1. /\ wire \in [Wires -> WireStates] /\ OutOf(d) \in Wires /\ Into(d) \in Wires
      /\ OutOf(d) # Into(d) /\ OutOf(d) \notin Channel /\ Into(d) \notin Channel
      /\ Channel \subseteq Wires
  BY Topology DEF TypeOK, OutOf, Into, Channel, Near, Ends
<1>2. /\ \/ wire' = [wire EXCEPT ![OutOf(d)].fin = TRUE]
         \/ wire' = [wire EXCEPT ![Into(d)].cut = TRUE]
      /\ UNCHANGED <<copy, side, lost, watchdog, sent, got>>
  BY DEF EndFinishes, EndIsReset, sshVars, timeVars, endVars
<1>3. /\ \A w \in Wires : /\ wire'[w].data = wire[w].data /\ wire'[w].deaf = wire[w].deaf
                          /\ wire[w].fin => wire'[w].fin
                          /\ wire[w].cut => wire'[w].cut
                          /\ wire'[w].cut => wire[w].cut \/ w = Into(d)
                          /\ w # OutOf(d) => wire'[w].fin = wire[w].fin
  BY <1>1, <1>2, OneField
<1>4. \A e \in Ends : /\ OutOf(e) # Into(d) /\ Second(e) # OutOf(d) /\ Into(e) # OutOf(d)
                      /\ First(e) \in Wires /\ Second(e) \in Wires /\ Into(e) \in Wires
  BY Geometry DEF Ends, OutOf, Into, Second, Near, Other
<1>5. ASSUME NEW e \in Ends
      PROVE  Flow(e)'
  <2>1. Flow(e)
    BY DEF StreamInv
  <2>2. Broken(e) => Broken(e)'
    BY <1>2, <1>3, <1>4, BrokenStays
  <2>3. Alike(wire'[Second(e)], wire[Second(e)]) /\ Alike(wire'[Into(e)], wire[Into(e)])
    BY <1>3, <1>4 DEF Alike
  <2> QED
    BY <1>2, <1>3, <1>4, <2>1, <2>2, <2>3, FlowStays
<1>6. Plumbing'
  BY <1>1, <1>2, <1>3, <1>4, PlumbingStays, Topology DEF Plumbing, StreamInv, TimedOut
<1> QED
  BY <1>5, <1>6 DEF StreamInv

LEMMA EndClosesFlows ==
  ASSUME TypeOK, TypeOK', StreamInv, NEW d \in Ends, EndCloses(d)
  PROVE  /\ StreamInv'
         /\ wire'[OutOf(d)].fin /\ \A e \in Ends \ {d} : wire'[OutOf(e)] = wire[OutOf(e)]
<1> DEFINE e == Other(d)
<1>1. /\ wire \in [Wires -> WireStates] /\ <<d, Near(d)>> = First(e) /\ <<Near(d), d>> = Into(d)
      /\ <<d, Near(d)>> \in Wires /\ <<Near(d), d>> \in Wires /\ d # Near(d)
      /\ e \in Ends /\ Other(e) = d /\ First(e) = OutOf(d)
      /\ First(e) \notin Channel /\ Into(d) \notin Channel
  BY Geometry, Topology DEF TypeOK, Ends, Near, First, OutOf, Into
<1>2. wire' = Closed(wire, d, Near(d)) /\ UNCHANGED <<copy, side, lost, watchdog, sent, got>>
  BY DEF EndCloses, sshVars, timeVars, endVars
<1>3. /\ wire'[First(e)].fin /\ wire'[First(e)].data = wire[First(e)].data
      /\ wire'[First(e)].deaf = wire[First(e)].deaf
      /\ wire[First(e)].cut => wire'[First(e)].cut
      /\ wire'[Into(d)].deaf /\ wire'[Into(d)].data = <<>>
      /\ wire'[Into(d)].fin = wire[Into(d)].fin /\ wire'[Into(d)].cut = wire[Into(d)].cut
      /\ \A w \in Wires : w \notin {First(e), Into(d)} => wire'[w] = wire[w]
  <2>1. PICK p, q : p = d /\ q = Near(d)
    OBVIOUS
  <2> DEFINE V == Closed(wire, p, q)
  <2>2. /\ <<p, q>> \in Wires /\ <<q, p>> \in Wires /\ p # q
        /\ wire \in [Wires -> WireStates]
    BY <1>1, <2>1
  <2>3. /\ V[<<p, q>>].fin /\ V[<<p, q>>].data = wire[<<p, q>>].data
        /\ V[<<p, q>>].deaf = wire[<<p, q>>].deaf
        /\ wire[<<p, q>>].cut => V[<<p, q>>].cut
        /\ V[<<q, p>>].deaf /\ V[<<q, p>>].data = <<>>
        /\ V[<<q, p>>].fin = wire[<<q, p>>].fin
        /\ V[<<q, p>>].cut = wire[<<q, p>>].cut
        /\ \A w \in Wires : w \notin {<<p, q>>, <<q, p>>} => V[w] = wire[w]
    BY <2>2, ClosedEffect
  <2>4. V = wire'
    BY <1>2, <2>1
  <2> HIDE DEF V
  <2> QED
    BY <1>1, <2>1, <2>3, <2>4
<1>4. Flow(e) /\ Flow(d) /\ Plumbing
  BY <1>1 DEF StreamInv
<1>5. Broken(e) => Broken(e)'
  BY <1>1, <1>2, <1>3, BrokenStays
<1>6. Flow(e)'
  <2>1. /\ Second(e) \notin {First(e), Into(d)} /\ Into(e) \notin {First(e), Into(d)}
        /\ Second(e) \in Wires /\ Into(e) \in Wires
    BY <1>1, Apart, Geometry
  <2>2. Alike(wire'[Second(e)], wire[Second(e)]) /\ Alike(wire'[Into(e)], wire[Into(e)])
    BY <1>3, <2>1 DEF Alike
  <2> QED
    BY <1>1, <1>2, <1>3, <1>4, <1>5, <2>2, FlowStays
<1>7. Flow(d)'
  <2>1. PICK n, s, w1, c1, w2, c2, w3, b : /\ Picture(d, n, s, w1, c1, w2, c2, w3, b)
                                           /\ Line(n, s, w1, c1, w2, c2, w3, b)
    BY <1>4, Before
  <2>2. PICK m, r, v1, k1, v2, k2, v3, x : /\ Picture(d, m, r, v1, k1, v2, k2, v3, x)'
                                           /\ Line(m, r, v1, k1, v2, k2, v3, x) => Flow(d)'
    BY After
  <2>3. /\ m = n /\ r = s /\ v3.deaf /\ v3.data = <<>>
        /\ n \in Nat /\ s \in Nat /\ w3 \in WireStates /\ v3 \in WireStates
    BY <1>2, <1>3, <2>1, <2>2 DEF Picture
  <2>4. n <= s
    <3>1. n + Size(w3) <= s /\ Size(w3) \in Nat
      BY <2>1, <2>3, WireFacts DEF Line
    <3> QED
      BY <2>3, <3>1
  <2>5. Line(n, s, v1, k1, v2, k2, v3, x)
    BY <2>3, <2>4, LineDeafThird
  <2> QED
    BY <2>2, <2>3, <2>5
<1>8. Plumbing'
  <2>1. \A w \in Wires : /\ wire[w].fin => wire'[w].fin
                         /\ wire'[w].deaf => wire[w].deaf \/ w = Into(d)
                         /\ wire[w].deaf => wire'[w].deaf
                         /\ wire'[w].cut => wire[w].cut \/ w = First(e)
    BY <1>1, <1>3
  <2>2. \A c \in Copies : In(c) # Into(d)
    BY DEF Ends, Copies, In, Into, Near
  <2>3. \A f \in Ends : OutOf(f) = First(e) => f = d
    BY <1>1 DEF OutOf, Ends, Near
  <2>4. Channel \subseteq Wires
    BY Topology DEF Channel
  <2> QED
    BY <1>1, <1>2, <1>3, <1>4, <2>1, <2>2, <2>3, <2>4, PlumbingStays, Topology DEF Plumbing, TimedOut
<1>9. \A f \in Ends \ {d} : wire'[OutOf(f)] = wire[OutOf(f)]
  <2>1. \A f \in Ends \ {d} : OutOf(f) \in Wires /\ OutOf(f) # First(e) /\ OutOf(f) # Into(d)
    BY <1>1, Topology DEF OutOf, Into, Ends, Near
  <2> QED
    BY <1>3, <2>1
<1> QED
  BY <1>1, <1>3, <1>6, <1>7, <1>8, <1>9, Apart DEF StreamInv

(* A step that changes neither wires nor buffers.                          *)
LEMMA QuietFlows ==
  ASSUME TypeOK, TypeOK', StreamInv, UNCHANGED <<wire, copy, side, lost, sent, got>>,
         watchdog' = watchdog \/ (TimedOut => TimedOut')
  PROVE  StreamInv'
<1>1. \A e \in Ends : Broken(e) => Broken(e)'
  BY DEF Broken, TimedOut
<1>2. \A e \in Ends : Flow(e)'
  BY <1>1, Geometry, FlowUntouched DEF StreamInv
<1>3. Plumbing'
  BY DEF Plumbing, StreamInv, TimedOut
<1> QED
  BY <1>2, <1>3 DEF StreamInv

-----------------------------------------------------------------------------
(* Opening, and the loss of the SSH connection.                            *)

(* The copies of a side start empty.                                       *)
LEMMA StartFlows ==
  ASSUME TypeOK, TypeOK', StreamInv, NEW p \in Sides, side[p] = "open",
         copy' = Started(p), side' = [side EXCEPT ![p] = "relay"],
         UNCHANGED <<wire, lost, sent, got, watchdog>>
  PROVE  StreamInv'
<1>1. /\ \A c \in Copies : c[2] = p => copy[c].pc = "off" /\ copy'[c].pc = "read"
      /\ \A c \in Copies : c[2] # p => copy'[c] = copy[c]
  BY CopyTypes DEF StreamInv, Plumbing, Started, TimedOut
<1>2. \A c \in Copies : Keeps(copy'[c], copy[c])
  BY <1>1 DEF Keeps, Held
<1>3. side'[p] = "relay" /\ \A q \in Sides : q # p => side'[q] = side[q]
  BY DEF TypeOK, Sides
<1>4. \A e \in Ends : Broken(e) => Broken(e)'
  BY <1>3 DEF Broken, Sides, TimedOut
<1>5. \A e \in Ends : Flow(e)'
  <2> SUFFICES ASSUME NEW e \in Ends PROVE Flow(e)'
    OBVIOUS
  <2>1. Flow(e) /\ Alike(wire'[Second(e)], wire[Second(e)]) /\ Alike(wire'[Into(e)], wire[Into(e)])
    BY DEF StreamInv, Alike
  <2> QED
    BY <1>2, <1>4, <2>1, Geometry, FlowFrame
<1>6. Plumbing'
  <2>1. \A c \in Copies : c[2] \in Sides
    BY DEF Copies, Sides
  <2> QED
    BY <1>1, <1>3, <2>1 DEF StreamInv, Plumbing, TimedOut
<1> QED
  BY <1>5, <1>6 DEF StreamInv

LEMMA DialFailsFlows ==
  ASSUME TypeOK, TypeOK', StreamInv, DialFails
  PROVE  StreamInv'
<1>1. /\ side["client"] = "open" /\ side'["client"] = "refused" /\ side'["server"] = side["server"]
      /\ UNCHANGED <<wire, copy, lost, sent, got, watchdog>>
  BY DEF DialFails, TypeOK, sshVars, timeVars, endVars
<1>2. \A e \in Ends : Broken(e) => Broken(e)'
  BY <1>1 DEF Broken, TimedOut
<1>3. \A e \in Ends : Flow(e)'
  BY <1>1, <1>2, Geometry, FlowUntouched DEF StreamInv
<1>4. Plumbing'
  <2>1. \A c \in Copies : c[2] \in {"client", "server"}
    BY DEF Copies
  <2> QED
    BY <1>1, <2>1 DEF StreamInv, Plumbing, TimedOut
<1> QED
  BY <1>3, <1>4 DEF StreamInv

(* The server closes the user's connection when no relay opens, or as the  *)
(* watchdog.                                                               *)
LEMMA UserClosedFlows ==
  ASSUME TypeOK, TypeOK', StreamInv, OpenFails \/ CloseUser
  PROVE  StreamInv' /\ \A e \in Ends : /\ wire'[OutOf(e)].fin = wire[OutOf(e)].fin
                                       /\ Broken(e) => Broken(e)'
<1> DEFINE in == First("local")
           out == Into("user")
<1>1. /\ wire \in [Wires -> WireStates] /\ <<"user", "server">> = in /\ <<"server", "user">> = out
      /\ in \in Wires /\ out \in Wires /\ in # out /\ in = OutOf("user")
      /\ "user" \in Ends /\ "local" \in Ends /\ Other("user") = "local" /\ Other("local") = "user"
  BY Topology DEF TypeOK, First, OutOf, Into, Other, Near, Ends
<1>2. /\ wire' = Closed(wire, "server", "user") /\ UNCHANGED <<copy, lost, sent, got>>
      /\ side'["client"] = side["client"] /\ (TimedOut => TimedOut')
      /\ \/ /\ side["server"] = "open" /\ side'["server"] = "ended"
            /\ side["client"] = "refused" \/ lost
         \/ side' = side /\ TimedOut /\ TimedOut'
  BY DEF OpenFails, CloseUser, TypeOK, sshVars, timeVars, endVars, TimedOut
<1>3. /\ wire'[out].fin /\ wire'[out].data = wire[out].data
      /\ wire'[out].deaf = wire[out].deaf
      /\ wire'[in].deaf /\ wire'[in].data = <<>>
      /\ wire'[in].fin = wire[in].fin /\ wire'[in].cut = wire[in].cut
      /\ \A w \in Wires : w \notin {in, out} => wire'[w] = wire[w]
  <2>1. PICK p, q : p = "server" /\ q = "user"
    OBVIOUS
  <2> DEFINE V == Closed(wire, p, q)
  <2>2. /\ <<p, q>> \in Wires /\ <<q, p>> \in Wires /\ p # q
        /\ wire \in [Wires -> WireStates]
    BY <1>1, <2>1
  <2>3. /\ V[<<p, q>>].fin /\ V[<<p, q>>].data = wire[<<p, q>>].data
        /\ V[<<p, q>>].deaf = wire[<<p, q>>].deaf
        /\ V[<<q, p>>].deaf /\ V[<<q, p>>].data = <<>>
        /\ V[<<q, p>>].fin = wire[<<q, p>>].fin /\ V[<<q, p>>].cut = wire[<<q, p>>].cut
        /\ \A w \in Wires : w \notin {<<p, q>>, <<q, p>>} => V[w] = wire[w]
    BY <2>2, ClosedEffect
  <2>4. V = wire'
    BY <1>2, <2>1
  <2> HIDE DEF V
  <2> QED
    BY <1>1, <2>1, <2>3, <2>4
<1>4. \A e \in Ends : OutOf(e) \in Wires /\ OutOf(e) # out
  BY <1>1, Topology DEF OutOf, Ends, Near
<1>5. \A e \in Ends : Broken(e) /\ Broken(e)'
  BY <1>2 DEF Broken, TimedOut
<1>6. Flow("user")'
  <2>1. First("user") \notin {in, out} /\ First("user") \in Wires
    BY <1>1, Geometry, Apart
  <2> QED
    BY <1>1, <1>2, <1>3, <1>5, <2>1, FlowFinThird DEF StreamInv
<1>7. Flow("local")'
  <2> DEFINE e == "local"
  <2>1. PICK n, s, w1, c1, w2, c2, w3, b : /\ Picture(e, n, s, w1, c1, w2, c2, w3, b)
                                           /\ Line(n, s, w1, c1, w2, c2, w3, b)
    BY <1>1, Before DEF StreamInv
  <2>2. PICK m, r, v1, k1, v2, k2, v3, x : /\ Picture(e, m, r, v1, k1, v2, k2, v3, x)'
                                           /\ Line(m, r, v1, k1, v2, k2, v3, x) => Flow(e)'
    BY <1>1, After
  <2>3. wire'[Second(e)] = wire[Second(e)] /\ wire'[Into(e)] = wire[Into(e)]
    <3>1. Second(e) \notin {in, out} /\ Into(e) \notin {in, out} /\ Second(e) \in Wires /\ Into(e) \in Wires
      BY <1>1, Geometry, Apart
    <3> QED
      BY <1>3, <3>1
  <2>4. /\ m = n /\ r = s /\ k1 = c1 /\ k2 = c2 /\ v2 = w2 /\ v3 = w3 /\ x = b
        /\ v1.deaf /\ v1.data = <<>> /\ (w1.fin => v1.fin)
    <3>1. x = TRUE /\ b = TRUE
      BY <1>1, <1>5, <2>1, <2>2 DEF Picture
    <3>2. m = n /\ r = s /\ k1 = c1 /\ k2 = c2 /\ v2 = w2 /\ v3 = w3
      BY <1>2, <2>1, <2>2, <2>3 DEF Picture
    <3>3. v1 = wire'[in] /\ w1 = wire[in]
      BY <2>1, <2>2 DEF Picture
    <3>4. v1.deaf /\ v1.data = <<>> /\ (w1.fin => v1.fin)
      BY <1>3, <3>3
    <3> QED
      BY <3>1, <3>2, <3>4
  <2>5. /\ n \in Nat /\ s \in Nat /\ w1 \in WireStates /\ w2 \in WireStates /\ w3 \in WireStates
        /\ c1 \in CopyStates /\ c2 \in CopyStates /\ v1 \in WireStates
    BY <2>1, <2>2 DEF Picture
  <2>6. Line(n, s, v1, c1, w2, c2, w3, b)
    BY <2>1, <2>4, <2>5, LineDeafFirst
  <2> QED
    BY <2>2, <2>4, <2>6
<1>8. Plumbing'
  <2>1. \A w \in Wires : /\ wire[w].fin => wire'[w].fin
                         /\ wire'[w].deaf => wire[w].deaf \/ w = in
                         /\ wire[w].deaf => wire'[w].deaf
                         /\ wire'[w].cut => wire[w].cut \/ w = out
    BY <1>1, <1>3
  <2>2. \A c \in Copies : In(c) = in => c[2] = "server"
    BY <1>1 DEF Copies, In
  <2>3. out \notin Channel /\ Channel \subseteq Wires
    BY Topology DEF Channel, Into, Near
  <2>4. \A c \in Copies : c[2] \in {"client", "server"}
    BY DEF Copies
  <2>5. Plumbing
    BY DEF StreamInv
  <2>6. \A c \in Copies : In(c) \in Wires /\ Out(c) \in Wires
    BY Topology
  <2>7. \A c \in Copies :
          /\ copy'[c].pc \in {"read", "stamp", "write"} => side'[c[2]] = "relay"
          /\ side'[c[2]] = "open" => copy'[c].pc = "off"
    BY <1>2, <2>4, <2>5 DEF Plumbing
  <2>8. \A c \in Copies : copy'[c].pc = "done" => wire'[Out(c)].fin
    BY <1>2, <2>1, <2>5, <2>6 DEF Plumbing
  <2>9. \A c \in Copies : wire'[In(c)].deaf => side'[c[2]] = "ended" \/ TimedOut'
    <3>1. TAKE c \in Copies
    <3>2. CASE wire[In(c)].deaf
      BY <1>2, <2>4, <2>5, <3>2 DEF Plumbing
    <3>3. CASE In(c) = in
      BY <1>2, <2>2, <3>3
    <3> QED
      BY <2>1, <2>6, <3>2, <3>3
  <2>10. \A w \in Channel : ~wire'[w].cut /\ ~wire'[w].deaf
    <3>1. in \notin Channel
      BY DEF First, OutOf, Other, Near, Channel
    <3> QED
      BY <2>1, <2>3, <2>5, <3>1 DEF Plumbing
  <2>11. \A e \in Ends : wire'[OutOf(e)].cut => wire'[Into(e)].deaf
    BY <1>4, <2>1, <2>5, Topology DEF Plumbing
  <2> QED
    BY <2>7, <2>8, <2>9, <2>10, <2>11 DEF Plumbing
<1>9. \A e \in Ends : wire'[OutOf(e)].fin = wire[OutOf(e)].fin
  BY <1>1, <1>3, <1>4
<1> QED
  BY <1>5, <1>6, <1>7, <1>8, <1>9 DEF StreamInv, Ends

LEMMA LoseFlows ==
  ASSUME TypeOK, TypeOK', StreamInv, Lose
  PROVE  StreamInv' /\ \A e \in Ends : wire'[OutOf(e)] = wire[OutOf(e)] /\ Broken(e)'
<1>1. PICK kept \in [Channel -> 0..Window] :
        /\ \A w \in Channel : kept[w] <= Len(wire[w].data)
        /\ wire' = [w \in Wires |->
                      IF w \in Channel
                      THEN [wire[w] EXCEPT !.fin = TRUE, !.data = SubSeq(@, 1, kept[w])]
                      ELSE wire[w]]
  BY DEF Lose
<1>2. lost' /\ UNCHANGED <<copy, side, watchdog, sent, got>>
  BY DEF Lose, timeVars, endVars
<1>3. Channel \subseteq Wires /\ wire \in [Wires -> WireStates]
  BY Topology DEF Channel, TypeOK
<1>4. \A w \in Wires \ Channel : wire'[w] = wire[w]
  BY <1>1
<1>5. \A w \in Channel : /\ wire'[w].fin /\ wire'[w].data = SubSeq(wire[w].data, 1, kept[w])
                         /\ wire'[w].deaf = wire[w].deaf /\ wire'[w].cut = wire[w].cut
                         /\ kept[w] \in 0..Size(wire[w])
  <2> SUFFICES ASSUME NEW w \in Channel
               PROVE  /\ wire'[w].fin /\ wire'[w].data = SubSeq(wire[w].data, 1, kept[w])
                      /\ wire'[w].deaf = wire[w].deaf /\ wire'[w].cut = wire[w].cut
                      /\ kept[w] \in 0..Size(wire[w])
    OBVIOUS
  <2>1. PICK u, k, l : u = wire[w] /\ k = kept[w] /\ l = Len(wire[w].data)
    OBVIOUS
  <2>2. u \in WireStates /\ wire'[w] = [u EXCEPT !.fin = TRUE, !.data = SubSeq(u.data, 1, k)]
    BY <1>1, <1>3, <2>1
  <2>3. k \in 0..Window /\ k <= l /\ Window \in Nat /\ l \in Nat
    BY <1>1, <1>3, <2>1, WireFacts, RelayAssumption DEF Size
  <2>4. /\ wire'[w].fin /\ wire'[w].data = SubSeq(u.data, 1, k)
        /\ wire'[w].deaf = u.deaf /\ wire'[w].cut = u.cut
    BY <2>2 DEF WireStates
  <2>5. k \in 0..l
    BY <2>3
  <2> QED
    BY <2>1, <2>4, <2>5 DEF Size
<1>6. \A e \in Ends : Broken(e)'
  BY <1>2 DEF Broken, TimedOut
<1>7. \A e \in Ends : Flow(e)'
  <2> SUFFICES ASSUME NEW e \in Ends PROVE Flow(e)'
    OBVIOUS
  <2>1. PICK k : k = kept[Second(e)]
    OBVIOUS
  <2>2. wire'[First(e)] = wire[First(e)] /\ wire'[Into(e)] = wire[Into(e)]
    BY <1>4, Geometry
  <2>3. /\ wire'[Second(e)].fin /\ wire'[Second(e)].data = SubSeq(wire[Second(e)].data, 1, k)
        /\ wire'[Second(e)].deaf = wire[Second(e)].deaf /\ k \in 0..Size(wire[Second(e)])
    BY <1>5, <2>1, Geometry
  <2> QED
    BY <1>2, <1>6, <2>2, <2>3, FlowFinSecond DEF StreamInv
<1>8. Plumbing'
  <2>1. \A w \in Wires : /\ wire[w].fin => wire'[w].fin
                         /\ wire'[w].deaf = wire[w].deaf
                         /\ wire'[w].cut = wire[w].cut
    BY <1>4, <1>5
  <2> QED
    BY <1>2, <1>3, <2>1, Topology DEF StreamInv, Plumbing, TimedOut
<1>9. \A e \in Ends : wire'[OutOf(e)] = wire[OutOf(e)]
  <2>1. \A e \in Ends : OutOf(e) \in Wires \ Channel
    BY Topology DEF OutOf, Ends, Near, Channel
  <2> QED
    BY <1>4, <2>1
<1> QED
  BY <1>6, <1>7, <1>8, <1>9 DEF StreamInv

-----------------------------------------------------------------------------
(* The copies.  Every copy is the first or the second one of a line.       *)
LEMMA CopyOfLine ==
  ASSUME NEW c \in Copies
  PROVE  \E e \in Ends : c = FirstCopy(e) \/ c = SecondCopy(e)
BY DEF Copies, Ends, FirstCopy, SecondCopy, Other, Near

LEMMA ReadFlows ==
  ASSUME TypeOK, TypeOK', StreamInv, NEW c \in Copies, Read(c)
  PROVE  StreamInv' /\ \A e \in Ends : wire'[OutOf(e)].fin = wire[OutOf(e)].fin
                                       /\ Broken(e)' = Broken(e)
<1>1. /\ wire \in [Wires -> WireStates] /\ copy \in [Copies -> CopyStates]
      /\ In(c) \in Wires /\ Out(c) \in Wires
  BY Topology DEF TypeOK
<1>2. /\ wire' = [wire EXCEPT ![In(c)].data = Tail(wire[In(c)].data)]
      /\ wire[In(c)].data # <<>> /\ copy[c].pc = "read"
      /\ copy' = [copy EXCEPT ![c] = [pc |-> AfterRead(c), item |-> Head(wire[In(c)].data)]]
      /\ UNCHANGED <<side, lost, watchdog, sent, got>>
  BY DEF Read, At, CanTake, sshVars, endVars
<1>3. /\ Taken(wire'[In(c)], wire[In(c)])
      /\ wire'[In(c)].cut = wire[In(c)].cut
      /\ \A v \in Wires \ {In(c)} : wire'[v] = wire[v]
  BY <1>1, <1>2, OneField DEF Taken
<1>4. /\ copy'[c].pc = AfterRead(c) /\ copy'[c].item = Head(wire[In(c)].data)
      /\ \A k \in Copies \ {c} : copy'[k] = copy[k]
  BY <1>1, <1>2
<1>5. Held(copy[c]) = 0 /\ Held(copy'[c]) = 1
  BY <1>2, <1>4 DEF Held, AfterRead
<1>6. \A w \in Wires : /\ wire'[w].fin = wire[w].fin /\ wire'[w].deaf = wire[w].deaf
                       /\ wire'[w].cut = wire[w].cut
  BY <1>3 DEF Taken
<1>7. \A e \in Ends : Broken(e)' = Broken(e)
  BY <1>2, <1>6, Topology, Geometry DEF Broken, TimedOut
<1>8. PICK e \in Ends : c = FirstCopy(e) \/ c = SecondCopy(e)
  BY CopyOfLine
<1> DEFINE d == Other(e)
<1>9. Flow(e) /\ Flow(d) /\ d \in Ends /\ Other(d) = e
  BY Geometry DEF StreamInv
<1>10. Flow(d)'
  <2>1. /\ In(c) \notin {First(d), Second(d), Into(d)} /\ {First(d), Second(d), Into(d)} \subseteq Wires
        /\ c \notin {FirstCopy(d), SecondCopy(d)} /\ {FirstCopy(d), SecondCopy(d)} \subseteq Copies
    BY <1>8, <1>9, Apart, Geometry
  <2>2. /\ wire'[First(d)] = wire[First(d)] /\ wire'[Second(d)] = wire[Second(d)]
        /\ wire'[Into(d)] = wire[Into(d)] /\ copy'[FirstCopy(d)] = copy[FirstCopy(d)]
        /\ copy'[SecondCopy(d)] = copy[SecondCopy(d)]
    BY <1>3, <1>4, <2>1
  <2> QED
    BY <1>2, <1>7, <1>9, <2>2, FlowUntouched
<1>11. Flow(e)'
  <2>1. PICK n, s, w1, c1, w2, c2, w3, b : /\ Picture(e, n, s, w1, c1, w2, c2, w3, b)
                                           /\ Line(n, s, w1, c1, w2, c2, w3, b)
    BY <1>9, Before
  <2>2. PICK m, r, v1, k1, v2, k2, v3, x : /\ Picture(e, m, r, v1, k1, v2, k2, v3, x)'
                                           /\ Line(m, r, v1, k1, v2, k2, v3, x) => Flow(e)'
    BY After
  <2>3. m = n /\ r = s /\ x = b
    BY <1>2, <1>7, <2>1, <2>2 DEF Picture
  <2>4. /\ n \in Nat /\ s \in Nat /\ w1 \in WireStates /\ w2 \in WireStates /\ w3 \in WireStates
        /\ c1 \in CopyStates /\ c2 \in CopyStates /\ v1 \in WireStates /\ v2 \in WireStates
        /\ k1 \in CopyStates /\ k2 \in CopyStates
    BY <2>1, <2>2 DEF Picture
  <2>5. CASE c = FirstCopy(e)
    <3>1. /\ v2 = w2 /\ v3 = w3 /\ k2 = c2 /\ Taken(v1, w1) /\ Held(c1) = 0 /\ Held(k1) = 1
          /\ k1.item = Head(w1.data)
      BY <1>3, <1>4, <1>5, <2>1, <2>2, <2>5, Geometry DEF Picture
    <3>2. Line(n, s, v1, k1, w2, c2, w3, b)
      BY <2>1, <2>4, <3>1, LineTakeFirst
    <3> QED
      BY <2>2, <2>3, <3>1, <3>2
  <2>6. CASE c = SecondCopy(e)
    <3>1. /\ v1 = w1 /\ v3 = w3 /\ k1 = c1 /\ Taken(v2, w2) /\ Held(c2) = 0 /\ Held(k2) = 1
          /\ k2.item = Head(w2.data)
      BY <1>3, <1>4, <1>5, <2>1, <2>2, <2>6, Geometry DEF Picture
    <3>2. Line(n, s, w1, c1, v2, k2, w3, b)
      BY <2>1, <2>4, <3>1, LineTakeSecond
    <3> QED
      BY <2>2, <2>3, <3>1, <3>2
  <2> QED
    BY <1>8, <2>5, <2>6
<1>12. Plumbing'
  <2>1. {copy'[c].pc, copy[c].pc} \subseteq {"read", "stamp", "write"}
    BY <1>2, <1>4 DEF AfterRead
  <2>2. Plumbing
    BY DEF StreamInv
  <2> QED
    BY <1>2, <1>4, <1>6, <2>1, <2>2, PlumbingKept
<1>13. \A f \in Ends : wire'[OutOf(f)].fin = wire[OutOf(f)].fin
  BY <1>6, Topology
<1> QED
  BY <1>7, <1>8, <1>9, <1>10, <1>11, <1>12, <1>13, Apart DEF StreamInv

LEMMA StampFlows ==
  ASSUME TypeOK, TypeOK', StreamInv, NEW c \in Copies, Stamp(c)
  PROVE  StreamInv'
<1>1. /\ copy[c].pc = "stamp" /\ copy'[c].pc = "write" /\ copy'[c].item = copy[c].item
      /\ \A k \in Copies \ {c} : copy'[k] = copy[k]
      /\ UNCHANGED <<wire, side, lost, watchdog, sent, got>>
  BY DEF Stamp, At, TypeOK, CopyStates, sshVars, endVars
<1>2. \A k \in Copies : Keeps(copy'[k], copy[k])
  BY <1>1 DEF Keeps, Held
<1>3. \A e \in Ends : Broken(e) => Broken(e)'
  BY <1>1 DEF Broken, TimedOut
<1>4. \A e \in Ends : Flow(e)'
  <2> SUFFICES ASSUME NEW e \in Ends PROVE Flow(e)'
    OBVIOUS
  <2>1. Flow(e) /\ Alike(wire'[Second(e)], wire[Second(e)]) /\ Alike(wire'[Into(e)], wire[Into(e)])
    BY <1>1 DEF StreamInv, Alike
  <2> QED
    BY <1>1, <1>2, <1>3, <2>1, Geometry, FlowFrame
<1>5. Plumbing'
  BY <1>1 DEF StreamInv, Plumbing, TimedOut
<1> QED
  BY <1>4, <1>5 DEF StreamInv

(* A write to a wire that carries.                                         *)
LEMMA WriteFlows ==
  ASSUME TypeOK, TypeOK', StreamInv, NEW c \in Copies, Write(c), ~wire[Out(c)].deaf
  PROVE  StreamInv' /\ \A e \in Ends : wire'[OutOf(e)].fin = wire[OutOf(e)].fin
                                       /\ Broken(e)' = Broken(e)
<1>1. /\ wire \in [Wires -> WireStates] /\ copy \in [Copies -> CopyStates]
      /\ In(c) \in Wires /\ Out(c) \in Wires
  BY Topology DEF TypeOK
<1>2. /\ wire' = [wire EXCEPT ![Out(c)].data = Append(wire[Out(c)].data, copy[c].item)]
      /\ ~wire[Out(c)].fin /\ copy[c].pc = "write"
      /\ copy' = [copy EXCEPT ![c] = [Off EXCEPT !.pc = "read"]]
      /\ UNCHANGED <<side, lost, watchdog, sent, got>>
  BY <1>1 DEF Write, At, CanPut, Put, sshVars, timeVars, endVars
<1>3. /\ Added(wire'[Out(c)], wire[Out(c)], copy[c].item)
      /\ wire'[Out(c)].cut = wire[Out(c)].cut
      /\ \A v \in Wires \ {Out(c)} : wire'[v] = wire[v]
  BY <1>1, <1>2, OneField DEF Added
<1>4. /\ copy'[c].pc = "read"
      /\ \A k \in Copies \ {c} : copy'[k] = copy[k]
  BY <1>1, <1>2, CopyTypes
<1>5. Held(copy[c]) = 1 /\ Held(copy'[c]) = 0 /\ Carries(wire[Out(c)])
  BY <1>2, <1>4 DEF Held, Carries
<1>6. \A w \in Wires : /\ wire'[w].fin = wire[w].fin /\ wire'[w].deaf = wire[w].deaf
                       /\ wire'[w].cut = wire[w].cut
  BY <1>3 DEF Added
<1>7. \A e \in Ends : Broken(e)' = Broken(e)
  BY <1>2, <1>6, Topology, Geometry DEF Broken, TimedOut
<1>8. PICK e \in Ends : c = FirstCopy(e) \/ c = SecondCopy(e)
  BY CopyOfLine
<1> DEFINE d == Other(e)
<1>9. Flow(e) /\ Flow(d) /\ d \in Ends /\ Other(d) = e
  BY Geometry DEF StreamInv
<1>10. Flow(d)'
  <2>1. /\ Out(c) \notin {First(d), Second(d), Into(d)} /\ {First(d), Second(d), Into(d)} \subseteq Wires
        /\ c \notin {FirstCopy(d), SecondCopy(d)} /\ {FirstCopy(d), SecondCopy(d)} \subseteq Copies
    BY <1>8, <1>9, Apart, Geometry
  <2>2. /\ wire'[First(d)] = wire[First(d)] /\ wire'[Second(d)] = wire[Second(d)]
        /\ wire'[Into(d)] = wire[Into(d)] /\ copy'[FirstCopy(d)] = copy[FirstCopy(d)]
        /\ copy'[SecondCopy(d)] = copy[SecondCopy(d)]
    BY <1>3, <1>4, <2>1
  <2> QED
    BY <1>2, <1>7, <1>9, <2>2, FlowUntouched
<1>11. Flow(e)'
  <2>1. PICK n, s, w1, c1, w2, c2, w3, b : /\ Picture(e, n, s, w1, c1, w2, c2, w3, b)
                                           /\ Line(n, s, w1, c1, w2, c2, w3, b)
    BY <1>9, Before
  <2>2. PICK m, r, v1, k1, v2, k2, v3, x : /\ Picture(e, m, r, v1, k1, v2, k2, v3, x)'
                                           /\ Line(m, r, v1, k1, v2, k2, v3, x) => Flow(e)'
    BY After
  <2>3. m = n /\ r = s /\ x = b
    BY <1>2, <1>7, <2>1, <2>2 DEF Picture
  <2>4. /\ n \in Nat /\ s \in Nat /\ w1 \in WireStates /\ w2 \in WireStates /\ w3 \in WireStates
        /\ c1 \in CopyStates /\ c2 \in CopyStates /\ v2 \in WireStates /\ v3 \in WireStates
        /\ k1 \in CopyStates /\ k2 \in CopyStates
    BY <2>1, <2>2 DEF Picture
  <2>5. CASE c = FirstCopy(e)
    <3>1. /\ v1 = w1 /\ v3 = w3 /\ k2 = c2 /\ Carries(w2) /\ Added(v2, w2, c1.item)
          /\ Held(c1) = 1 /\ Held(k1) = 0
      BY <1>3, <1>4, <1>5, <2>1, <2>2, <2>5, Geometry DEF Picture
    <3>2. Line(n, s, w1, k1, v2, c2, w3, b)
      BY <2>1, <2>4, <3>1, LinePutSecond
    <3> QED
      BY <2>2, <2>3, <3>1, <3>2
  <2>6. CASE c = SecondCopy(e)
    <3>1. /\ v1 = w1 /\ v2 = w2 /\ k1 = c1 /\ Carries(w3) /\ Added(v3, w3, c2.item)
          /\ Held(c2) = 1 /\ Held(k2) = 0
      BY <1>3, <1>4, <1>5, <2>1, <2>2, <2>6, Geometry DEF Picture
    <3>2. Line(n, s, w1, c1, w2, k2, v3, b)
      BY <2>1, <2>4, <3>1, LinePutThird
    <3> QED
      BY <2>2, <2>3, <3>1, <3>2
  <2> QED
    BY <1>8, <2>5, <2>6
<1>12. Plumbing'
  <2>1. {copy'[c].pc, copy[c].pc} \subseteq {"read", "stamp", "write"}
    BY <1>2, <1>4
  <2>2. Plumbing
    BY DEF StreamInv
  <2> QED
    BY <1>2, <1>4, <1>6, <2>1, <2>2, PlumbingKept
<1>13. \A f \in Ends : wire'[OutOf(f)].fin = wire[OutOf(f)].fin
  BY <1>6, Topology
<1> QED
  BY <1>7, <1>8, <1>9, <1>10, <1>11, <1>12, <1>13, Apart DEF StreamInv

(* A write to a closed wire is dropped and resets the connection, which    *)
(* breaks the other line.                                                  *)
LEMMA WriteDeafFlows ==
  ASSUME TypeOK, TypeOK', StreamInv, NEW c \in Copies, Write(c), wire[Out(c)].deaf
  PROVE  StreamInv' /\ \A e \in Ends : /\ wire'[OutOf(e)].fin = wire[OutOf(e)].fin
                                       /\ Broken(e) => Broken(e)'
<1>1. /\ wire \in [Wires -> WireStates] /\ copy \in [Copies -> CopyStates]
      /\ In(c) \in Wires /\ Out(c) \in Wires /\ Back(Out(c)) \in Wires
  BY Topology DEF TypeOK
<1>2. /\ wire' = [wire EXCEPT ![Back(Out(c))].cut = TRUE] /\ Out(c) \notin Channel
      /\ copy[c].pc = "write"
      /\ copy' = [copy EXCEPT ![c] = [Off EXCEPT !.pc = "read"]]
      /\ UNCHANGED <<side, lost, watchdog, sent, got>>
  BY <1>1 DEF Write, At, CanPut, Put, sshVars, timeVars, endVars, StreamInv, Plumbing
<1>3. /\ copy'[c].pc = "read"
      /\ \A k \in Copies \ {c} : copy'[k] = copy[k]
  BY <1>1, <1>2, CopyTypes
<1>4. \A w \in Wires : /\ wire'[w].data = wire[w].data /\ wire'[w].fin = wire[w].fin
                       /\ wire'[w].deaf = wire[w].deaf
                       /\ wire[w].cut => wire'[w].cut
                       /\ wire'[w].cut => wire[w].cut \/ w = Back(Out(c))
  BY <1>1, <1>2, OneField
<1>5. \A e \in Ends : Broken(e) => Broken(e)'
  BY <1>2, <1>4, Geometry, BrokenStays
<1>6. PICK e \in Ends : c = FirstCopy(e) \/ c = SecondCopy(e)
  BY CopyOfLine
<1> DEFINE d == Other(e)
<1>7. Flow(e) /\ Flow(d) /\ d \in Ends /\ Other(d) = e
  BY Geometry DEF StreamInv
<1>8. \A f \in Ends : /\ First(f) \in Wires
                      /\ Alike(wire'[Second(f)], wire[Second(f)]) /\ Alike(wire'[Into(f)], wire[Into(f)])
  BY <1>4, Geometry DEF Alike
<1>9. Flow(d)'
  <2>1. c \notin {FirstCopy(d), SecondCopy(d)} /\ {FirstCopy(d), SecondCopy(d)} \subseteq Copies
    BY <1>6, <1>7, Apart, Geometry
  <2>2. copy'[FirstCopy(d)] = copy[FirstCopy(d)] /\ copy'[SecondCopy(d)] = copy[SecondCopy(d)]
    BY <1>3, <2>1
  <2> QED
    BY <1>2, <1>4, <1>5, <1>7, <1>8, <2>2, FlowStays
<1>10. Flow(e)'
  <2>1. CASE c = SecondCopy(e)
    <3>1. Into(e) = Out(c)
      BY <2>1, Geometry
    <3> QED
      BY <1>1, <1>2, <1>4, <1>7, <3>1, FlowDeadThird
  <2>2. CASE c = FirstCopy(e)
    BY <1>2, <2>2, Geometry
  <2> QED
    BY <1>6, <2>1, <2>2
<1>11. Plumbing'
  <2>1. Channel \subseteq Wires
    BY Topology DEF Channel
  <2>2. Out(c) \notin Channel => Back(Out(c)) \notin Channel
    BY DEF Channel, Back, Out, Copies
  <2>3. \A f \in Ends : OutOf(f) = Back(Out(c)) => Into(f) = Out(c)
    BY DEF OutOf, Ends, Back, Into, Near, Out, Copies
  <2>4. \A w \in Channel : /\ wire'[w].cut => wire[w].cut
                           /\ wire'[w].deaf => wire[w].deaf
    BY <1>2, <1>4, <2>1, <2>2
  <2>5. \A f \in Ends : /\ wire'[OutOf(f)].cut => wire[OutOf(f)].cut \/ wire'[Into(f)].deaf
                        /\ wire[Into(f)].deaf => wire'[Into(f)].deaf
    BY <1>1, <1>4, <2>3, Topology
  <2>6. \A k \in Copies : /\ copy'[k].pc \in {"read", "stamp", "write"}
                                => copy[k].pc \in {"read", "stamp", "write"}
                          /\ copy[k].pc = "off" => copy'[k].pc = "off"
                          /\ copy'[k].pc = "done" => wire'[Out(k)].fin
                          /\ wire'[In(k)].deaf => wire[In(k)].deaf
    BY <1>2, <1>3, <1>4, Topology DEF StreamInv, Plumbing, TimedOut
  <2> QED
    BY <1>2, <2>4, <2>5, <2>6, PlumbingStays DEF StreamInv
<1>12. \A f \in Ends : wire'[OutOf(f)].fin = wire[OutOf(f)].fin
  BY <1>4, Topology
<1> QED
  BY <1>5, <1>6, <1>7, <1>9, <1>10, <1>11, <1>12, Apart DEF StreamInv

(* All of the pieces.                                                      *)
LEMMA WholeData ==
  ASSUME NEW w \in WireStates
  PROVE  Size(w) \in 0..Size(w) /\ w.data = SubSeq(w.data, 1, Size(w))
<1>1. PICK z \in Seq(Nat) : z = w.data
  BY DEF WireStates
<1>2. Len(z) \in 0..Len(z) /\ z = SubSeq(z, 1, Len(z))
  BY <1>1
<1> QED
  BY <1>1, <1>2 DEF Size

(* A copy returns and passes on the end of its input, or what broke it.    *)
LEMMA ReturnFlows ==
  ASSUME TypeOK, TypeOK', StreamInv, Endings, NEW c \in Copies, ReadFails(c) \/ WriteFails(c)
  PROVE  StreamInv' /\ \A e \in Ends : wire'[OutOf(e)] = wire[OutOf(e)] /\ Broken(e)' = Broken(e)
<1>1. /\ wire \in [Wires -> WireStates] /\ copy \in [Copies -> CopyStates]
      /\ In(c) \in Wires /\ Out(c) \in Wires /\ Back(Out(c)) \in Wires
  BY Topology DEF TypeOK
<1>2. /\ wire' = [wire EXCEPT ![Out(c)].fin = TRUE]
      /\ copy' = [copy EXCEPT ![c] = [Off EXCEPT !.pc = "done"]]
      /\ copy[c].pc \in {"read", "write"}
      /\ UNCHANGED <<side, lost, watchdog, sent, got>>
  BY DEF ReadFails, WriteFails, Return, At, sshVars, timeVars, endVars
<1>3. /\ copy'[c].pc = "done"
      /\ \A k \in Copies \ {c} : copy'[k] = copy[k]
  BY <1>1, <1>2, CopyTypes
<1>4. /\ wire'[Out(c)].data = wire[Out(c)].data /\ wire'[Out(c)].fin
      /\ wire'[Out(c)].deaf = wire[Out(c)].deaf /\ wire'[Out(c)].cut = wire[Out(c)].cut
      /\ \A v \in Wires \ {Out(c)} : wire'[v] = wire[v]
  BY <1>1, <1>2, OneField
<1>5. \A e \in Ends : Out(c) # OutOf(e) /\ Out(c) # First(e)
  BY DEF Ends, Copies, Out, OutOf, First, Near, Other
<1>6. \A e \in Ends : wire'[OutOf(e)] = wire[OutOf(e)] /\ Broken(e)' = Broken(e)
  BY <1>2, <1>4, <1>5, Topology, Geometry DEF Broken, TimedOut
<1>7. PICK e \in Ends : c = FirstCopy(e) \/ c = SecondCopy(e)
  BY CopyOfLine
<1> DEFINE d == Other(e)
<1>8. Flow(e) /\ Flow(d) /\ d \in Ends /\ Other(d) = e
  BY Geometry DEF StreamInv
<1>9. Flow(d)'
  <2>1. /\ Out(c) \notin {First(d), Second(d), Into(d)} /\ {First(d), Second(d), Into(d)} \subseteq Wires
        /\ c \notin {FirstCopy(d), SecondCopy(d)} /\ {FirstCopy(d), SecondCopy(d)} \subseteq Copies
    BY <1>7, <1>8, Apart, Geometry
  <2>2. /\ wire'[First(d)] = wire[First(d)] /\ wire'[Second(d)] = wire[Second(d)]
        /\ wire'[Into(d)] = wire[Into(d)] /\ copy'[FirstCopy(d)] = copy[FirstCopy(d)]
        /\ copy'[SecondCopy(d)] = copy[SecondCopy(d)]
    BY <1>3, <1>4, <2>1
  <2> QED
    BY <1>2, <1>6, <1>8, <2>2, FlowUntouched
<1>10. wire[In(c)].deaf => Broken(e)'
  <2>1. side[c[2]] = "relay" /\ (wire[In(c)].deaf => side[c[2]] = "ended" \/ TimedOut)
    BY <1>2 DEF StreamInv, Plumbing, TimedOut
  <2>2. wire[In(c)].deaf => TimedOut
    BY <2>1
  <2> QED
    BY <1>2, <2>2 DEF Broken, TimedOut
<1>11. ReadFails(c) => /\ copy[c].pc = "read"
                       /\ (wire[In(c)].fin /\ wire[In(c)].data = <<>>) \/ wire[In(c)].deaf \/ wire[In(c)].cut
  BY DEF ReadFails, TakeFails, At
<1>12. WriteFails(c) => \/ wire[Out(c)].fin
                        \/ Out(c) \notin Channel /\ wire[Back(Out(c))].cut
                        \/ Out(c) \in Channel /\ (hung[c[2]] = "done" \/ lost)
  <2>1. Out(c)[1] = c[2]
    BY DEF Out
  <2>2. PICK o : o = Out(c)
    OBVIOUS
  <2>3. WriteFails(c) =>
          IF o \in Channel THEN (wire[o].fin /\ Room(o)) \/ hung[o[1]] = "done" \/ lost
          ELSE wire[o].fin \/ wire[Back(o)].cut
    BY <2>2 DEF WriteFails, PutFails
  <2>4. CASE Out(c) \in Channel
    BY <2>1, <2>2, <2>3, <2>4
  <2>5. CASE Out(c) \notin Channel
    BY <2>2, <2>3, <2>5
  <2> QED BY <2>4, <2>5
<1>13. copy[c].pc = "read" => Held(copy[c]) = 0
  BY DEF Held
<1>14. ASSUME c = FirstCopy(e)
      PROVE  Flow(e)'
  <2>1. /\ In(c) = First(e) /\ Out(c) = Second(e) /\ Out(c) \in Channel
        /\ Back(Out(c)) = Second(d) /\ Back(Out(c)) \in Channel
        /\ First(e) \in Wires /\ Into(e) \in Wires /\ First(e) # Out(c) /\ Into(e) # Out(c)
        /\ SecondCopy(e) # c /\ SecondCopy(e) \in Copies
    BY <1>8, <1>14, Geometry
  <2>3. wire[First(e)].cut => Broken(e)'
    BY <1>6, <2>1 DEF Broken, First, TimedOut
  <2>4. /\ wire'[Into(e)] = wire[Into(e)] /\ wire'[First(e)] = wire[First(e)]
        /\ copy'[SecondCopy(e)] = copy[SecondCopy(e)]
    BY <1>3, <1>4, <2>1
  <2>5. CASE wire[Into(e)].fin
    BY <1>2, <1>6, <1>8, <2>4, <2>5, FlowFinThird
  <2>6. CASE ~wire[Into(e)].fin
    <3>1. lost \/ TimedOut => Broken(e)'
      BY <1>6 DEF Broken
    <3>2. c[2] = Near(d) /\ Other(d) = e
      BY <1>8, <1>14, Geometry
    <3>3. hung[c[2]] = "done" => Broken(e)'
      <4>1. side[c[2]] = "relay" /\ (side[Near(e)] = "ended" => wire[Into(e)].fin)
        BY <1>2 DEF StreamInv, Plumbing, Endings
      <4>2. hung[c[2]] # "no" => \/ side[c[2]] = "ended" \/ side[Near(e)] = "ended"
                                 \/ lost \/ TimedOut
        BY <1>8, <3>2 DEF Endings
      <4> QED
        BY <2>6, <3>1, <4>1, <4>2
    <3>4. \/ Broken(e)' \/ wire[Second(e)].fin \/ wire[Second(e)].deaf
          \/ /\ wire[First(e)].fin /\ ~wire[First(e)].deaf /\ wire[First(e)].data = <<>>
             /\ Held(copy[FirstCopy(e)]) = 0
      BY <1>10, <1>11, <1>12, <1>13, <1>14, <2>1, <2>3, <3>1, <3>3
    <3>5. PICK k : k = Size(wire[Second(e)])
      OBVIOUS
    <3>6. k \in 0..Size(wire[Second(e)]) /\ wire[Second(e)].data = SubSeq(wire[Second(e)].data, 1, k)
      BY <1>1, <2>1, <3>5, WholeData
    <3>7. /\ wire'[Second(e)].fin /\ wire'[Second(e)].deaf = wire[Second(e)].deaf
          /\ wire'[Second(e)].data = SubSeq(wire[Second(e)].data, 1, k)
      BY <1>4, <2>1, <3>6
    <3> QED
      BY <1>2, <1>6, <1>8, <2>4, <3>4, <3>5, <3>6, <3>7, FlowFinSecond
  <2> QED
    BY <2>5, <2>6
<1>15. ASSUME c = SecondCopy(e)
      PROVE  Flow(e)'
  <2>1. /\ In(c) = Second(e) /\ Out(c) = Into(e) /\ Out(c) \notin Channel /\ In(c) \in Channel
        /\ Back(Out(c)) = OutOf(e)
        /\ First(e) \in Wires /\ First(e) # Out(c)
    BY <1>8, <1>15, Geometry
  <2>2. ~wire[In(c)].cut /\ (wire[Back(Out(c))].cut => wire[Into(e)].deaf)
    BY <2>1 DEF StreamInv, Plumbing, TimedOut
  <2>3. wire'[First(e)] = wire[First(e)]
    BY <1>4, <2>1
  <2>4. CASE wire[Into(e)].deaf
    BY <1>2, <1>4, <1>8, <2>1, <2>4, FlowDeadThird
  <2>5. CASE ~wire[Into(e)].deaf
    <3>1. \/ Broken(e)' \/ wire[Into(e)].fin
          \/ /\ wire[Second(e)].fin /\ ~wire[Second(e)].deaf /\ wire[Second(e)].data = <<>>
             /\ Held(copy[SecondCopy(e)]) = 0
      BY <1>10, <1>11, <1>12, <1>13, <1>15, <2>1, <2>2, <2>5
    <3> QED
      BY <1>2, <1>4, <1>6, <1>8, <2>1, <2>3, <3>1, FlowFinThird
  <2> QED
    BY <2>4, <2>5
<1>16. Plumbing'
  <2>1. Channel \subseteq Wires
    BY Topology DEF Channel
  <2>2. \A w \in Wires : /\ wire[w].fin => wire'[w].fin
                         /\ wire'[w].deaf = wire[w].deaf /\ wire'[w].cut = wire[w].cut
    BY <1>1, <1>4
  <2>3. \A f \in Ends : OutOf(f) \in Wires /\ Into(f) \in Wires
    BY Topology
  <2>4. Plumbing
    BY DEF StreamInv
  <2> QED
    BY <1>2, <1>3, <1>4, <2>1, <2>2, <2>3, <2>4, PlumbingStays, Topology DEF Plumbing, TimedOut
<1>17. Flow(e)'
  BY <1>7, <1>14, <1>15
<1> QED
  BY <1>6, <1>7, <1>8, <1>9, <1>16, <1>17, Apart DEF StreamInv

(* A side, e's, ends when its copies are done.                             *)
LEMMA FinishFlows ==
  ASSUME TypeOK, TypeOK', StreamInv, NEW e \in Ends, Finish(Near(e))
  PROVE  StreamInv' /\ \A f \in Ends : /\ wire'[OutOf(f)].fin = wire[OutOf(f)].fin
                                       /\ Broken(f) => Broken(f)'
<1> DEFINE d == Other(e)
<1>1. /\ wire \in [Wires -> WireStates] /\ d \in Ends /\ Other(d) = e /\ Flow(e) /\ Flow(d)
  BY Geometry DEF TypeOK, StreamInv
<1>2. /\ wire'[Into(e)].fin /\ wire'[Into(e)].data = wire[Into(e)].data
      /\ wire'[Into(e)].deaf = wire[Into(e)].deaf
      /\ wire'[Second(d)].fin /\ wire'[Second(d)].data = wire[Second(d)].data
      /\ wire'[Second(d)].deaf = wire[Second(d)].deaf
      /\ wire'[Second(d)].cut = wire[Second(d)].cut
      /\ wire'[First(d)].deaf
      /\ wire'[First(d)].fin = wire[First(d)].fin
      /\ wire'[First(d)].cut = wire[First(d)].cut
      /\ \A w \in {First(e), Second(e), Into(d)} : wire'[w] = wire[w]
  BY <1>1, FinishEffect DEF Finish
<1>3. /\ UNCHANGED <<copy, lost, watchdog, sent, got>>
      /\ side[Near(e)] = "relay" /\ side' = [side EXCEPT ![Near(e)] = "ended"]
      /\ \A c \in CopiesOf(Near(e)) : copy[c].pc = "done"
  BY DEF Finish, At, sshVars, endVars
<1>4. side["client"] = "refused" => side'["client"] = "refused"
  BY <1>3 DEF TypeOK
<1>5. Broken(e) => Broken(e)'
  BY <1>2, <1>3, <1>4, BrokenStays
<1>6. Broken(d) => Broken(d)'
  BY <1>1, <1>2, <1>3, <1>4, BrokenStays
<1>7. wire[Into(e)].fin /\ wire[Second(d)].fin
  <2>1. /\ SecondCopy(e) \in Copies /\ Out(SecondCopy(e)) = Into(e) /\ SecondCopy(e)[2] = Near(e)
        /\ FirstCopy(d) \in Copies /\ Out(FirstCopy(d)) = Second(d) /\ FirstCopy(d)[2] = Near(e)
    BY <1>1, Geometry
  <2> QED
    BY <1>3, <2>1 DEF CopiesOf, StreamInv, Plumbing
<1>9. Flow(e)'
  BY <1>1, <1>2, <1>3, <1>5, <1>7, FlowFinThird
<1>10. Flow(d)'
  <2>1. PICK k : k = Size(wire[Second(d)])
    OBVIOUS
  <2>2. k \in 0..Size(wire[Second(d)]) /\ wire[Second(d)].data = SubSeq(wire[Second(d)].data, 1, k)
    BY <1>1, <2>1, Geometry, WholeData
  <2>3. wire'[Second(d)].data = SubSeq(wire[Second(d)].data, 1, k)
    BY <1>2, <2>2
  <2> QED
    BY <1>1, <1>2, <1>3, <1>6, <1>7, <2>1, <2>2, <2>3, FlowFinSecond
<1>11. \A w \in Wires : /\ wire[w].fin => wire'[w].fin
                        /\ wire'[w].deaf => wire[w].deaf \/ w = First(d)
  BY <1>1, <1>2, Apart
<1>12. \A c \in Copies : In(c) = First(d) => c[2] = Near(e)
  BY DEF Copies, In, First, OutOf, Ends, Other, Near
<1>13. \A w \in Channel : wire'[w].cut = wire[w].cut /\ wire'[w].deaf = wire[w].deaf
  BY <1>2, Apart
<1>14. \A f \in Ends : /\ wire'[OutOf(f)].cut = wire[OutOf(f)].cut
                       /\ wire'[OutOf(f)].fin = wire[OutOf(f)].fin
                       /\ wire'[Into(f)].deaf = wire[Into(f)].deaf
  BY <1>1, <1>2, Apart DEF First
<1>15. Plumbing'
  <2>1. side'[Near(e)] = "ended" /\ \A p \in Sides : p # Near(e) => side'[p] = side[p]
    BY <1>3 DEF TypeOK, Sides, Ends, Near
  <2>2. \A c \in Copies : c[2] \in Sides /\ In(c) \in Wires /\ Out(c) \in Wires
    BY Topology DEF Copies, Sides
  <2> QED
    BY <1>3, <1>11, <1>12, <1>13, <1>14, <2>1, <2>2 DEF Plumbing, StreamInv, CopiesOf, TimedOut
<1> QED
  BY <1>1, <1>5, <1>6, <1>9, <1>10, <1>14, <1>15, Apart DEF StreamInv

(* A side, e's, sends its close of the channel, the first or in answer.    *)
LEMMA HungFlows ==
  ASSUME TypeOK, TypeOK', StreamInv, Endings, NEW e \in Ends,
         wire' = Hung(wire, Near(e)),
         UNCHANGED <<copy, side, lost, sent, got>>, TimedOut => TimedOut',
         TimedOut' \/ hung[Near(Other(e))] # "no"
  PROVE  StreamInv' /\ \A f \in Ends : /\ wire'[OutOf(f)].fin = wire[OutOf(f)].fin
                                       /\ Broken(f) => Broken(f)'
<1> DEFINE d == Other(e)
<1>1. /\ wire \in [Wires -> WireStates] /\ d \in Ends /\ Other(d) = e /\ Flow(e) /\ Flow(d)
      /\ Second(d) \in Wires /\ Second(d) \in Channel
  BY Geometry DEF TypeOK, StreamInv
<1>2. /\ wire'[Second(d)].fin /\ wire'[Second(d)].data = wire[Second(d)].data
      /\ wire'[Second(d)].deaf = wire[Second(d)].deaf
      /\ wire'[Second(d)].cut = wire[Second(d)].cut
      /\ \A w \in Wires \ {Second(d)} : wire'[w] = wire[w]
  <2> DEFINE V == Hung(wire, Near(e))
  <2>1. /\ V[Second(d)].fin /\ V[Second(d)].data = wire[Second(d)].data
        /\ V[Second(d)].deaf = wire[Second(d)].deaf
        /\ V[Second(d)].cut = wire[Second(d)].cut
        /\ \A w \in Wires \ {Second(d)} : V[w] = wire[w]
    BY <1>1, HungEffect
  <2>2. wire' = V
    OBVIOUS
  <2> HIDE DEF V
  <2> QED
    BY <2>1, <2>2
<1>3. /\ \A w \in {First(e), Second(e), Into(e), First(d), Into(d)} : wire'[w] = wire[w]
      /\ \A w \in Wires : /\ wire[w].fin => wire'[w].fin
                          /\ wire'[w].deaf = wire[w].deaf /\ wire'[w].cut = wire[w].cut
  <2>1. {First(e), Second(e), Into(e), First(d), Into(d)} \subseteq Wires \ {Second(d)}
    BY <1>1, Geometry, Apart
  <2> QED
    BY <1>2, <2>1
<1>4. Broken(e) => Broken(e)'
  BY <1>3, BrokenStays
<1>5. Broken(d) => Broken(d)'
  BY <1>1, <1>3, BrokenStays
<1>6. Flow(e)'
  BY <1>1, <1>3, <1>4, FlowUntouched
<1>7. Flow(d)'
  <2>1. CASE wire[Into(d)].fin
    BY <1>1, <1>3, <1>5, <2>1, FlowFinThird
  <2>2. CASE ~wire[Into(d)].fin
    <3>1. \/ Broken(d)' \/ wire[Second(d)].fin
      <4>1. lost' \/ TimedOut' \/ side'["client"] = "refused" => Broken(d)'
        BY DEF Broken
      <4>2. CASE TimedOut'
        BY <4>1, <4>2
      <4>3. CASE hung[Near(d)] # "no" /\ ~TimedOut'
        <5>1. side[Near(d)] = "ended" \/ side[Near(e)] = "ended" \/ lost
          BY <1>1, <4>3 DEF Endings
        <5>2. side[Near(d)] # "ended"
          BY <1>1, <2>2 DEF Endings
        <5>3. CASE side[Near(e)] = "ended"
          <6>1. /\ FirstCopy(d) \in Copies /\ Out(FirstCopy(d)) = Second(d)
                /\ FirstCopy(d) \in CopiesOf(Near(e))
            BY <1>1, Geometry DEF CopiesOf
          <6>2. copy[FirstCopy(d)].pc = "done" \/ lost \/ side["client"] = "refused"
            BY <5>3, <6>1 DEF Endings
          <6> QED
            BY <4>1, <6>1, <6>2 DEF StreamInv, Plumbing
        <5> QED
          BY <4>1, <5>1, <5>2, <5>3
      <4> QED
        BY <4>2, <4>3
    <3>2. PICK k : k = Size(wire[Second(d)])
      OBVIOUS
    <3>3. k \in 0..Size(wire[Second(d)]) /\ wire[Second(d)].data = SubSeq(wire[Second(d)].data, 1, k)
      BY <1>1, <3>2, WholeData
    <3>4. wire'[Second(d)].data = SubSeq(wire[Second(d)].data, 1, k)
      BY <1>2, <3>3
    <3> QED
      BY <1>1, <1>2, <1>3, <1>5, <3>1, <3>2, <3>3, <3>4, FlowFinSecond
  <2> QED
    BY <2>1, <2>2
<1>8. Plumbing'
  <2>1. Channel \subseteq Wires
    BY Topology DEF Channel
  <2>2. Plumbing
    BY DEF StreamInv
  <2>6. \A w \in Wires : /\ wire[w].fin => wire'[w].fin
                         /\ wire'[w].deaf = wire[w].deaf /\ wire'[w].cut = wire[w].cut
    BY <1>3
  <2>3. \A c \in Copies : /\ copy'[c].pc = "done" => wire'[Out(c)].fin
                          /\ wire'[In(c)].deaf => wire[In(c)].deaf
    <3>1. \A c \in Copies : In(c) \in Wires /\ Out(c) \in Wires
      BY Topology
    <3>2. \A c \in Copies : copy'[c].pc = "done" => wire[Out(c)].fin
      BY <2>2 DEF Plumbing
    <3> QED BY <2>6, <3>1, <3>2
  <2>4. \A w \in Channel : /\ wire'[w].cut => wire[w].cut
                           /\ wire'[w].deaf => wire[w].deaf
    BY <2>1, <2>6
  <2>5. \A f \in Ends : /\ wire'[OutOf(f)].cut => wire[OutOf(f)].cut \/ wire'[Into(f)].deaf
                        /\ wire[Into(f)].deaf => wire'[Into(f)].deaf
    BY <2>6, Topology
  <2> QED
    BY <2>2, <2>3, <2>4, <2>5, PlumbingStays
<1>9. \A f \in Ends : wire'[OutOf(f)].fin = wire[OutOf(f)].fin
  <2>1. \A f \in Ends : OutOf(f) \in {First(e), First(d)}
    BY <1>1, Apart DEF First
  <2> QED
    BY <1>3, <2>1
<1> QED
  BY <1>1, <1>4, <1>5, <1>6, <1>7, <1>8, <1>9, Apart DEF StreamInv

-----------------------------------------------------------------------------
(* What has ended stays so.                                                *)
LEMMA FinStays ==
  ASSUME TypeOK, Next, NEW w \in Wires
  PROVE  wire[w].fin => wire'[w].fin
<1>1. wire \in [Wires -> WireStates]
  BY DEF TypeOK
<1>2. CASE UNCHANGED wire
  BY <1>2
<1>3. ASSUME NEW v \in Wires, NEW x, wire' = [wire EXCEPT ![v].data = x]
      PROVE  wire[w].fin => wire'[w].fin
  BY <1>1, <1>3 DEF WireStates
<1>4. ASSUME NEW v \in Wires, \/ wire' = [wire EXCEPT ![v].fin = TRUE]
                             \/ wire' = [wire EXCEPT ![v].cut = TRUE]
      PROVE  wire[w].fin => wire'[w].fin
  BY <1>1, <1>4 DEF WireStates
<1>5. ASSUME NEW p, NEW q, <<p, q>> \in Wires, <<q, p>> \in Wires, p # q,
             wire' = Closed(wire, p, q)
      PROVE  wire[w].fin => wire'[w].fin
  <2> DEFINE V == Closed(wire, p, q)
  <2>1. /\ V[<<p, q>>].fin /\ V[<<q, p>>].fin = wire[<<q, p>>].fin
        /\ w \notin {<<p, q>>, <<q, p>>} => V[w] = wire[w]
    BY <1>1, <1>5, ClosedEffect
  <2>2. V = wire'
    BY <1>5
  <2> HIDE DEF V
  <2> QED BY <2>1, <2>2
<1>6. ASSUME NEW p \in Sides, wire' = Hung(wire, p)
      PROVE  wire[w].fin => wire'[w].fin
  <2>1. <<p, Peer(p)>> \in Wires
    BY Topology DEF Sides
  <2> QED BY <1>4, <1>6, <2>1 DEF Hung
<1>7. ASSUME NEW v \in Wires, NEW x, Put(v, x), Back(v) \in Wires
      PROVE  wire[w].fin => wire'[w].fin
  BY <1>3, <1>4, <1>7 DEF Put
<1>8. CASE \E e \in Ends : EndStep(e)
  <2>1. PICK e \in Ends : EndStep(e)
    BY <1>8
  <2>2. /\ OutOf(e) \in Wires /\ Into(e) \in Wires /\ Back(OutOf(e)) \in Wires
        /\ <<e, Near(e)>> \in Wires /\ <<Near(e), e>> \in Wires
    BY Topology
  <2>3. e # Near(e)
    BY DEF Ends, Near
  <2>4. CASE EndSends(e)
    BY <1>7, <2>2, <2>4 DEF EndSends
  <2>5. CASE EndIsReset(e) \/ EndFinishes(e)
    BY <1>4, <2>2, <2>5 DEF EndIsReset, EndFinishes
  <2>6. CASE EndCloses(e)
    BY <1>5, <2>2, <2>3, <2>6 DEF EndCloses
  <2>7. CASE EndReads(e)
    BY <1>3, <2>2, <2>7 DEF EndReads
  <2>8. CASE EndSeesEnd(e)
    BY <1>2, <2>8 DEF EndSeesEnd
  <2> QED BY <2>1, <2>4, <2>5, <2>6, <2>7, <2>8 DEF EndStep
<1>9. CASE OpenFails \/ CloseUser
  <2>1. <<"server", "user">> \in Wires /\ <<"user", "server">> \in Wires
    BY Topology DEF Ends, Near
  <2> QED BY <1>5, <1>9, <2>1 DEF OpenFails, CloseUser
<1>10. CASE Lose
  <2>1. PICK kept \in [Channel -> 0..Window] :
          wire' = [v \in Wires |->
                     IF v \in Channel
                     THEN [wire[v] EXCEPT !.fin = TRUE, !.data = SubSeq(@, 1, kept[v])]
                     ELSE wire[v]]
    BY <1>10 DEF Lose
  <2>2. wire[w] \in WireStates
    BY <1>1
  <2> QED BY <2>1, <2>2 DEF WireStates
<1>11. CASE \E c \in Copies : CopyStep(c)
  <2>1. PICK c \in Copies : CopyStep(c)
    BY <1>11
  <2>2. In(c) \in Wires /\ Out(c) \in Wires /\ Back(Out(c)) \in Wires
    BY Topology
  <2>3. CASE Read(c)
    BY <1>3, <2>2, <2>3 DEF Read
  <2>4. CASE ReadFails(c) \/ WriteFails(c)
    BY <1>4, <2>2, <2>4 DEF ReadFails, WriteFails, Return
  <2>5. CASE Stamp(c)
    BY <1>2, <2>5 DEF Stamp
  <2>6. CASE Write(c)
    BY <1>7, <2>2, <2>6 DEF Write
  <2> QED BY <2>1, <2>3, <2>4, <2>5, <2>6 DEF CopyStep
<1>12. CASE \E p \in Sides : Finish(p)
  <2>1. PICK p \in Sides : Finish(p)
    BY <1>12
  <2>2. PICK e \in Ends : p = Near(e)
    BY DEF Sides, Ends, Near
  <2> DEFINE d == Other(e)
  <2>3. /\ wire'[Into(e)].fin /\ wire'[Second(d)].fin
        /\ wire'[First(d)].fin = wire[First(d)].fin
        /\ \A v \in {First(e), Second(e), Into(d)} : wire'[v] = wire[v]
    BY <1>1, <2>1, <2>2, FinishEffect DEF Finish
  <2>4. w \in {First(e), Second(e), Into(e), First(d), Second(d), Into(d)}
    BY <2>2, Apart
  <2> QED BY <2>3, <2>4
<1>13. CASE \E p \in Sides : Hear(p)
  BY <1>6, <1>13 DEF Hear
<1>14. CASE Dial \/ DialFails \/ Open \/ Tick \/ Decide
  BY <1>2, <1>14 DEF Dial, DialFails, Open, Tick, Decide
<1>15. CASE CloseChannel
  BY <1>6, <1>15 DEF CloseChannel, Sides
<1> QED
  BY <1>8, <1>9, <1>10, <1>11, <1>12, <1>13, <1>14, <1>15 DEF Next, Watchdog

LEMMA EndedStays ==
  ASSUME TypeOK, Next
  PROVE  /\ lost => lost'
         /\ TimedOut => TimedOut'
         /\ \A p \in Sides : side[p] = "ended" => side'[p] = "ended"
         /\ side["client"] = "refused" => side'["client"] = "refused"
         /\ \A c \in Copies :
              copy[c].pc = "done" /\ side[c[2]] # "open" => copy'[c].pc = "done"
<1>1. copy \in [Copies -> CopyStates] /\ lost \in BOOLEAN
  BY DEF TypeOK
<1>2. CASE UNCHANGED <<copy, side, lost, watchdog>>
  BY <1>2 DEF TimedOut
<1>3. CASE Dial \/ Open
  <2>1. PICK p \in Sides : /\ side[p] = "open" /\ side' = [side EXCEPT ![p] = "relay"]
                           /\ copy' = Started(p) /\ UNCHANGED <<lost, watchdog>>
    BY <1>3 DEF Dial, Open, Sides, sshVars, timeVars
  <2>2. \A c \in Copies : c[2] # p => copy'[c] = copy[c]
    BY <2>1 DEF Started
  <2>3. \A q \in Sides \ {p} : side'[q] = side[q]
    BY <2>1 DEF TypeOK, Sides
  <2> QED BY <2>1, <2>2, <2>3 DEF TimedOut, Sides
<1>4. CASE DialFails \/ OpenFails
  <2>1. PICK p \in Sides : /\ side[p] = "open" /\ UNCHANGED <<copy, lost, watchdog>>
                           /\ \E x : side' = [side EXCEPT ![p] = x]
    BY <1>4 DEF DialFails, OpenFails, Sides, sshVars, timeVars
  <2>2. \A q \in Sides \ {p} : side'[q] = side[q]
    BY <2>1 DEF TypeOK, Sides
  <2> QED BY <2>1, <2>2 DEF TimedOut, Sides
<1>5. CASE Lose
  BY <1>5 DEF Lose, timeVars, TimedOut
<1>6. CASE \E c \in Copies : CopyStep(c)
  <2>1. PICK c \in Copies : CopyStep(c)
    BY <1>6
  <2>2. /\ UNCHANGED <<side, lost, watchdog>> /\ copy[c].pc # "done"
        /\ \E x : copy' = [copy EXCEPT ![c] = x]
    <3>1. copy[c].pc # "done" /\ UNCHANGED <<side, lost, watchdog>>
      BY <2>1 DEF CopyStep, Read, ReadFails, Stamp, Write, WriteFails, At, sshVars, timeVars
    <3>2. CASE Stamp(c)
      <4>1. copy' = [copy EXCEPT ![c] = [copy[c] EXCEPT !.pc = "write"]]
        BY <3>2 DEF Stamp
      <4> QED BY <3>1, <4>1
    <3>3. CASE ~Stamp(c)
      BY <2>1, <3>1, <3>3 DEF CopyStep, Read, ReadFails, Write, WriteFails, Return
    <3> QED BY <3>2, <3>3
  <2>3. \A k \in Copies \ {c} : copy'[k] = copy[k]
    BY <1>1, <2>2
  <2> QED BY <2>2, <2>3 DEF TimedOut
<1>7. CASE \E p \in Sides : Finish(p)
  <2>1. PICK p \in Sides : Finish(p)
    BY <1>7
  <2>2. /\ side[p] = "relay" /\ side' = [side EXCEPT ![p] = "ended"]
        /\ UNCHANGED <<copy, lost, watchdog>>
    BY <2>1 DEF Finish, sshVars
  <2>3. side'[p] = "ended" /\ \A q \in Sides \ {p} : side'[q] = side[q]
    BY <2>2 DEF TypeOK, Sides
  <2> QED BY <2>2, <2>3 DEF TimedOut, Sides
<1>8. CASE Watchdog
  BY <1>8 DEF Watchdog, Decide, CloseChannel, CloseUser, Watched, sshVars, TimedOut
<1>9. CASE \E e \in Ends : EndStep(e)
  BY <1>2, <1>9 DEF EndStep, EndSends, EndIsReset, EndFinishes, EndCloses, EndReads, EndSeesEnd,
                    sshVars, timeVars
<1>10. CASE Tick \/ \E p \in Sides : Hear(p)
  BY <1>2, <1>10 DEF Tick, Hear, sshVars, timeVars
<1> QED
  BY <1>3, <1>4, <1>5, <1>6, <1>7, <1>8, <1>9, <1>10 DEF Next

(* Who makes a side send its close of the channel.                         *)
LEMMA HungBy ==
  ASSUME TypeOK, Next, NEW p \in Sides, hung[p] = "no", hung'[p] # "no"
  PROVE  side'[p] = "ended" \/ TimedOut' \/ hung[Peer(p)] # "no"
<1>1. hung' # hung /\ hung \in [Sides -> {"no", "sent", "done"}]
  BY DEF TypeOK
<1>2. CASE \E q \in Sides : Finish(q)
  <2>1. PICK q \in Sides : Finish(q)
    BY <1>2
  <2>2. p = q
    BY <1>1, <2>1, HungTypes DEF Finish
  <2> QED BY <2>1, <2>2 DEF Finish, TypeOK, Sides
<1>3. CASE \E q \in Sides : Hear(q)
  <2>1. PICK q \in Sides : Hear(q)
    BY <1>3
  <2>2. hung' = [hung EXCEPT ![q] = "done"] /\ hung[Peer(q)] # "no"
    BY <2>1 DEF Hear
  <2>3. p = q
    BY <1>1, <2>2
  <2> QED BY <2>2, <2>3
<1>4. CASE CloseChannel
  BY <1>4 DEF CloseChannel, TimedOut
<1> QED
  BY <1>1, <1>2, <1>3, <1>4
     DEF Next, EndStep, EndSends, EndIsReset, EndFinishes, EndCloses, EndReads, EndSeesEnd,
         Dial, DialFails, Open, OpenFails, Lose, CopyStep, Read, ReadFails, Stamp, Write,
         WriteFails, Tick, Watchdog, Decide, CloseUser

(* How a side ends.                                                        *)
LEMMA EndedBy ==
  ASSUME TypeOK, Next, NEW e \in Ends, side[Near(e)] # "ended", side'[Near(e)] = "ended"
  PROVE  /\ wire'[Into(e)].fin
         /\ \A c \in CopiesOf(Near(e)) :
              copy'[c].pc = "done" \/ lost' \/ side'["client"] = "refused"
<1>1. side' # side /\ Near(e) \in Sides /\ wire \in [Wires -> WireStates]
  BY DEF Ends, Near, Sides, TypeOK
<1>2. CASE OpenFails
  <2>1. e = "user"
    BY <1>1, <1>2 DEF OpenFails, TypeOK, Ends, Near
  <2>2. lost' \/ side'["client"] = "refused"
    BY <1>2 DEF OpenFails, TypeOK, sshVars
  <2>3. wire'[Into(e)].fin
    <3>1. <<"server", "user">> \in Wires /\ <<"user", "server">> \in Wires
      BY Topology DEF Ends, Near
    <3>2. PICK p, q : p = "server" /\ q = "user"
      OBVIOUS
    <3> DEFINE V == Closed(wire, p, q)
    <3>3. V[<<p, q>>].fin
      BY <1>1, <3>1, <3>2, ClosedEffect
    <3>4. wire' = V /\ Into(e) = <<p, q>>
      BY <1>2, <2>1, <3>2 DEF OpenFails, Into, Near
    <3> HIDE DEF V
    <3> QED BY <3>3, <3>4
  <2> QED BY <2>2, <2>3
<1>3. CASE \E p \in Sides : Finish(p)
  <2>1. PICK p \in Sides : Finish(p)
    BY <1>3
  <2>2. p = Near(e)
    BY <1>1, <2>1 DEF Finish, TypeOK, Sides
  <2>3. wire'[Into(e)].fin
    BY <1>1, <2>1, <2>2, FinishEffect DEF Finish
  <2> QED BY <2>1, <2>2, <2>3 DEF Finish, At
<1>4. CASE Dial \/ DialFails \/ Open
  <2>1. \/ side' = [side EXCEPT !["client"] = "relay"]
        \/ side' = [side EXCEPT !["client"] = "refused"]
        \/ side' = [side EXCEPT !["server"] = "relay"]
    BY <1>4 DEF Dial, DialFails, Open
  <2> QED BY <1>1, <2>1 DEF TypeOK, Sides
<1> QED
  BY <1>1, <1>2, <1>3, <1>4
     DEF Next, EndStep, EndSends, EndIsReset, EndFinishes, EndCloses, EndReads, EndSeesEnd,
         Lose, CopyStep, Read, ReadFails, Stamp, Write, WriteFails, Hear, Tick, Watchdog,
         Decide, CloseChannel, CloseUser

LEMMA EndingsInit ==
  ASSUME Init
  PROVE  Endings
<1>1. \A e \in Ends : side[Near(e)] = "open" /\ hung[Near(e)] = "no"
  BY DEF Init, Ends, Near, Sides
<1> QED BY <1>1 DEF Endings

LEMMA EndingsStep ==
  ASSUME TypeOK, Endings, [Next]_vars
  PROVE  Endings'
<1>1. CASE UNCHANGED vars
  BY <1>1 DEF vars, sshVars, timeVars, Endings, TimedOut, CopiesOf
<1>2. CASE Next
  <2>1. SUFFICES ASSUME NEW e \in Ends
                 PROVE  /\ side'[Near(e)] = "ended" =>
                             /\ wire'[Into(e)].fin
                             /\ \A c \in CopiesOf(Near(e)) :
                                  copy'[c].pc = "done" \/ lost' \/ side'["client"] = "refused"
                        /\ hung'[Near(e)] # "no" =>
                             \/ side'[Near(e)] = "ended" \/ side'[Near(Other(e))] = "ended"
                             \/ lost' \/ TimedOut'
    BY DEF Endings, CopiesOf
  <2>2. /\ Other(e) \in Ends /\ Other(Other(e)) = e /\ Near(e) \in Sides
        /\ Near(Other(e)) \in Sides /\ Peer(Near(e)) = Near(Other(e)) /\ Into(e) \in Wires
    BY Topology DEF Ends, Other, Near, Sides, Peer
  <2>3. /\ lost => lost'
        /\ TimedOut => TimedOut'
        /\ \A p \in Sides : side[p] = "ended" => side'[p] = "ended"
        /\ side["client"] = "refused" => side'["client"] = "refused"
        /\ \A c \in Copies :
             copy[c].pc = "done" /\ side[c[2]] # "open" => copy'[c].pc = "done"
    BY <1>2, EndedStays
  <2>4. CASE side[Near(e)] = "ended"
    <3>1. wire'[Into(e)].fin
      BY <1>2, <2>2, <2>4, FinStays DEF Endings
    <3>2. \A c \in CopiesOf(Near(e)) :
            copy'[c].pc = "done" \/ lost' \/ side'["client"] = "refused"
      BY <2>3, <2>4 DEF Endings, CopiesOf
    <3>3. side'[Near(e)] = "ended"
      BY <2>2, <2>3, <2>4
    <3> QED BY <3>1, <3>2, <3>3
  <2>5. CASE side[Near(e)] # "ended"
    <3>1. side'[Near(e)] = "ended" =>
            /\ wire'[Into(e)].fin
            /\ \A c \in CopiesOf(Near(e)) :
                 copy'[c].pc = "done" \/ lost' \/ side'["client"] = "refused"
      BY <1>2, <2>5, EndedBy
    <3>2. hung[Near(e)] # "no" \/ hung[Near(Other(e))] # "no" =>
            \/ side'[Near(e)] = "ended" \/ side'[Near(Other(e))] = "ended"
            \/ lost' \/ TimedOut'
      BY <2>2, <2>3 DEF Endings
    <3>3. hung'[Near(e)] # "no" =>
            \/ side'[Near(e)] = "ended" \/ side'[Near(Other(e))] = "ended"
            \/ lost' \/ TimedOut'
      BY <1>2, <2>2, <3>2, HungBy
    <3> QED BY <3>1, <3>3
  <2> QED BY <2>4, <2>5
<1> QED BY <1>1, <1>2

-----------------------------------------------------------------------------
(* The streams as their ends see them: what a step does to the one to e.   *)

Sends(e) ==
  /\ ~wire[First(e)].fin /\ ~wire'[First(e)].fin
  /\ sent'[Other(e)] = sent[Other(e)] + 1
  /\ got'[e] = got[e] /\ seen'[e] = seen[e] /\ Broken(e)' = Broken(e)

Closes(e) ==
  /\ ~wire[First(e)].fin /\ wire'[First(e)].fin
  /\ Broken(e) => Broken(e)'
  /\ sent'[Other(e)] = sent[Other(e)] /\ got'[e] = got[e] /\ seen'[e] = seen[e]

Receives(e) ==
  /\ seen[e] = "no" /\ Len(got[e]) < sent[Other(e)]
  /\ got'[e] = Append(got[e], Len(got[e]) + 1)
  /\ sent'[Other(e)] = sent[Other(e)] /\ wire'[First(e)].fin = wire[First(e)].fin
  /\ seen'[e] = seen[e] /\ Broken(e)' = Broken(e)

SeesEnd(e) ==
  /\ seen[e] = "no"
  /\ \/ seen'[e] = "error"
     \/ seen'[e] = "eof" /\ (Broken(e) \/ (wire[First(e)].fin /\ Len(got[e]) = sent[Other(e)]))
  /\ sent'[Other(e)] = sent[Other(e)] /\ wire'[First(e)].fin = wire[First(e)].fin
  /\ got'[e] = got[e] /\ Broken(e)' = Broken(e)

(* Nothing, or the stream breaks.                                          *)
Stays(e) ==
  /\ Broken(e) => Broken(e)'
  /\ sent'[Other(e)] = sent[Other(e)] /\ wire'[First(e)].fin = wire[First(e)].fin
  /\ got'[e] = got[e] /\ seen'[e] = seen[e]

StreamStep(e) == Sends(e) \/ Closes(e) \/ Receives(e) \/ SeesEnd(e) \/ Stays(e)

LEMMA Writers ==
  \A e \in Ends : First(e) = OutOf(Other(e)) /\ Other(e) \in Ends /\ Other(Other(e)) = e
                  /\ Other(e) # e /\ First(e) \in Wires
BY Geometry

(* Steps that no end takes part in.                                        *)
LEMMA StaysAll ==
  ASSUME \A e \in Ends : /\ wire'[OutOf(e)].fin = wire[OutOf(e)].fin
                         /\ Broken(e) => Broken(e)',
         UNCHANGED <<sent, got, seen>>
  PROVE  \A e \in Ends : StreamStep(e)
BY Writers DEF StreamStep, Stays

LEMMA EndStepStreams ==
  ASSUME TypeOK, TypeOK', StreamInv, NEW d \in Ends, EndStep(d)
  PROVE  StreamInv' /\ \A e \in Ends : StreamStep(e)
<1> DEFINE e == Other(d)
<1>1. /\ wire \in [Wires -> WireStates] /\ First(e) = OutOf(d) /\ First(e) \in Wires /\ e \in Ends
      /\ Other(e) = d /\ e # d /\ First(d) \in Wires /\ First(d) # First(e)
      /\ Into(d) \in Wires /\ First(d) # Into(d) /\ First(e) # Into(d)
      /\ \A f \in Ends : f = d \/ f = e
  BY Geometry, Apart DEF TypeOK
<1>2. UNCHANGED <<side, lost, watchdog>>
  BY DEF EndStep, EndSends, EndIsReset, EndFinishes, EndCloses, EndReads, EndSeesEnd,
         sshVars, timeVars
<1>3. CASE EndSends(d)
  <2>1. StreamInv'
    BY <1>3, EndSendsFlows
  <2>2. /\ wire' = [wire EXCEPT ![First(e)].data = Append(wire[First(e)].data, sent[d] + 1)]
        /\ ~wire[First(e)].fin /\ sent'[d] = sent[d] + 1 /\ sent'[e] = sent[e]
        /\ UNCHANGED <<got, seen>>
    BY <1>1, <1>3 DEF EndSends, Put, CanPut, TypeOK
  <2>3. /\ wire'[First(e)].fin = wire[First(e)].fin /\ wire'[First(e)].cut = wire[First(e)].cut
        /\ wire'[First(d)] = wire[First(d)]
    BY <1>1, <2>2, OneField
  <2>4. Sends(e)
    BY <1>1, <1>2, <2>2, <2>3 DEF Sends, Broken, TimedOut
  <2>5. Stays(d)
    BY <1>1, <1>2, <2>2, <2>3, BrokenStays DEF Stays
  <2> QED
    BY <1>1, <2>1, <2>4, <2>5 DEF StreamStep
<1>4. CASE EndFinishes(d)
  <2>1. StreamInv'
    BY <1>4, EndFlagFlows
  <2>2. /\ wire' = [wire EXCEPT ![First(e)].fin = TRUE] /\ ~wire[First(e)].fin
        /\ UNCHANGED <<sent, got, seen>>
    BY <1>1, <1>4 DEF EndFinishes, endVars
  <2>3. /\ wire'[First(e)].fin /\ wire'[First(e)].cut = wire[First(e)].cut
        /\ wire'[First(d)] = wire[First(d)]
    BY <1>1, <2>2, OneField
  <2>4. Closes(e)
    BY <1>1, <1>2, <2>2, <2>3, BrokenStays DEF Closes
  <2>5. Stays(d)
    BY <1>1, <1>2, <2>2, <2>3, BrokenStays DEF Stays
  <2> QED
    BY <1>1, <2>1, <2>4, <2>5 DEF StreamStep
<1>5. CASE EndIsReset(d)
  <2>1. StreamInv'
    BY <1>5, EndFlagFlows
  <2>2. /\ wire' = [wire EXCEPT ![Into(d)].cut = TRUE] /\ UNCHANGED <<sent, got, seen>>
    BY <1>5 DEF EndIsReset, endVars
  <2>3. wire'[First(e)] = wire[First(e)] /\ wire'[First(d)] = wire[First(d)]
    BY <1>1, <2>2, OneField
  <2>4. Stays(e) /\ Stays(d)
    BY <1>1, <1>2, <2>2, <2>3, BrokenStays DEF Stays
  <2> QED
    BY <1>1, <2>1, <2>4 DEF StreamStep
<1>6. CASE EndCloses(d)
  <2>1. /\ StreamInv' /\ wire'[First(e)].fin /\ wire'[First(d)] = wire[First(d)]
    BY <1>1, <1>6, EndClosesFlows, Writers
  <2>2. UNCHANGED <<sent, got, seen>>
    BY <1>6 DEF EndCloses, endVars
  <2>3. wire[First(e)].cut => wire'[First(e)].cut
    <3>1. PICK q : q = Near(d)
      OBVIOUS
    <3>2. /\ <<d, q>> = First(e) /\ <<d, q>> \in Wires /\ <<q, d>> \in Wires /\ d # q
      BY <1>1, <3>1, Topology DEF OutOf, Near, Ends
    <3> DEFINE V == Closed(wire, d, q)
    <3>3. wire[<<d, q>>].cut => V[<<d, q>>].cut
      BY <1>1, <3>2, ClosedEffect
    <3>4. V = wire'
      BY <1>6, <3>1 DEF EndCloses
    <3> HIDE DEF V
    <3> QED
      BY <3>2, <3>3, <3>4
  <2>4. Broken(e) => Broken(e)'
    BY <1>1, <1>2, <2>3, BrokenStays
  <2>5. wire[First(e)].fin \in BOOLEAN /\ wire'[First(e)].fin \in BOOLEAN
    BY <1>1, Flags DEF TypeOK, WireStates
  <2>6. Closes(e) \/ Stays(e)
    BY <1>1, <2>1, <2>2, <2>4, <2>5 DEF Closes, Stays
  <2>7. Stays(d)
    BY <1>1, <1>2, <2>1, <2>2, BrokenStays DEF Stays
  <2> QED
    BY <1>1, <2>1, <2>6, <2>7 DEF StreamStep
<1>7. CASE EndReads(d)
  <2>1. /\ StreamInv' /\ Len(got[d]) < sent[e] /\ got'[d] = Append(got[d], Len(got[d]) + 1)
    BY <1>7, EndReadsFlows
  <2>2. /\ wire' = [wire EXCEPT ![Into(d)].data = Tail(wire[Into(d)].data)]
        /\ UNCHANGED <<sent, seen>> /\ got'[e] = got[e] /\ seen[d] = "no"
    BY <1>1, <1>7 DEF EndReads, TypeOK
  <2>3. wire'[First(e)] = wire[First(e)] /\ wire'[First(d)] = wire[First(d)]
    BY <1>1, <2>2, OneField
  <2>4. Receives(d)
    <3>1. Broken(d)' = Broken(d)
      BY <1>2, <2>3 DEF Broken, First, TimedOut
    <3> QED
      BY <1>1, <2>1, <2>2, <2>3, <3>1 DEF Receives
  <2>5. Stays(e)
    BY <1>1, <1>2, <2>2, <2>3, BrokenStays DEF Stays
  <2> QED
    BY <1>1, <2>1, <2>4, <2>5 DEF StreamStep
<1>8. CASE EndSeesEnd(d)
  <2>1. /\ seen[d] = "no" /\ ~wire[Into(d)].deaf /\ TakeFails(Into(d))
        /\ seen'[d] = (IF wire[Into(d)].cut THEN "error" ELSE "eof") /\ seen'[e] = seen[e]
        /\ UNCHANGED <<wire, copy, sent, got>>
    BY <1>1, <1>8 DEF EndSeesEnd, TypeOK
  <2>2. StreamInv'
    BY <1>2, <2>1, QuietFlows
  <2>3. \A f \in Ends : Broken(f)' = Broken(f)
    BY <1>2, <2>1 DEF Broken, TimedOut
  <2>4. ~wire[Into(d)].cut /\ ~Broken(d) => wire[First(d)].fin /\ Len(got[d]) = sent[e]
    <3> SUFFICES ASSUME ~wire[Into(d)].cut, ~Broken(d)
                 PROVE  wire[First(d)].fin /\ Len(got[d]) = sent[e]
      OBVIOUS
    <3>1. PICK n, s, w1, c1, w2, c2, w3, b : /\ Picture(d, n, s, w1, c1, w2, c2, w3, b)
                                             /\ Line(n, s, w1, c1, w2, c2, w3, b)
      BY Before DEF StreamInv
    <3>2. /\ w3.fin /\ ~w3.deaf /\ ~b /\ w3.data = <<>>
      BY <2>1, <3>1 DEF Picture, TakeFails
    <3>3. w1.fin /\ n + Size(w3) = s /\ Size(w3) = 0 /\ n \in Nat
      BY <3>1, <3>2, NoneNumbered DEF Line, Size, Picture
    <3> QED
      BY <3>1, <3>3 DEF Picture
  <2>5. SeesEnd(d)
    BY <1>1, <2>1, <2>3, <2>4 DEF SeesEnd
  <2>6. Stays(e)
    BY <1>1, <2>1, <2>3 DEF Stays
  <2> QED
    BY <1>1, <2>2, <2>5, <2>6 DEF StreamStep
<1> QED
  BY <1>3, <1>4, <1>5, <1>6, <1>7, <1>8 DEF EndStep

LEMMA StreamSteps ==
  ASSUME TypeOK, TypeOK', StreamInv, Endings, Next
  PROVE  StreamInv' /\ \A e \in Ends : StreamStep(e)
<1>1. CASE \E e \in Ends : EndStep(e)
  BY <1>1, EndStepStreams
<1>2. CASE Dial \/ Open
  <2>1. UNCHANGED <<wire, lost, sent, got, seen, watchdog>>
    BY <1>2 DEF Dial, Open, sshVars, timeVars, endVars
  <2>2. StreamInv'
    BY <1>2, <2>1, StartFlows DEF Dial, Open, Sides
  <2>3. side["client"] = "refused" => side'["client"] = "refused"
    BY <1>2 DEF Dial, Open, TypeOK
  <2>4. \A e \in Ends : Broken(e) => Broken(e)'
    BY <2>1, <2>3, BrokenStays
  <2> QED
    BY <2>1, <2>2, <2>4, StaysAll
<1>3. CASE DialFails
  <2>1. UNCHANGED <<wire, lost, sent, got, seen, watchdog>> /\ side'["client"] = "refused"
    BY <1>3 DEF DialFails, TypeOK, sshVars, timeVars, endVars
  <2>2. \A e \in Ends : Broken(e) => Broken(e)'
    BY <2>1, BrokenStays
  <2> QED
    BY <1>3, <2>1, <2>2, DialFailsFlows, StaysAll
<1>4. CASE OpenFails
  BY <1>4, UserClosedFlows, StaysAll DEF OpenFails, endVars
<1>5. CASE Lose
  BY <1>5, LoseFlows, StaysAll DEF Lose, endVars
<1>6. CASE \E c \in Copies : CopyStep(c)
  <2>1. PICK c \in Copies : CopyStep(c)
    BY <1>6
  <2>2. UNCHANGED <<sent, got, seen>>
    BY <2>1 DEF CopyStep, Read, ReadFails, Stamp, Write, WriteFails, endVars
  <2>3. CASE Read(c)
    BY <2>2, <2>3, ReadFlows, StaysAll
  <2>4. CASE ReadFails(c) \/ WriteFails(c)
    BY <2>2, <2>4, ReturnFlows, StaysAll
  <2>5. CASE Stamp(c)
    <3>1. UNCHANGED <<wire, lost, side, watchdog>>
      BY <2>5 DEF Stamp, sshVars
    <3>2. \A e \in Ends : Broken(e) => Broken(e)'
      BY <3>1, BrokenStays
    <3> QED
      BY <2>2, <2>5, <3>1, <3>2, StampFlows, StaysAll
  <2>6. CASE Write(c) /\ ~wire[Out(c)].deaf
    BY <2>2, <2>6, WriteFlows, StaysAll
  <2>7. CASE Write(c) /\ wire[Out(c)].deaf
    BY <2>2, <2>7, WriteDeafFlows, StaysAll
  <2> QED
    BY <2>1, <2>3, <2>4, <2>5, <2>6, <2>7 DEF CopyStep
<1>7. CASE \E p \in Sides : Finish(p) \/ Hear(p)
  <2>1. PICK p \in Sides : Finish(p) \/ Hear(p)
    BY <1>7
  <2>2. PICK e \in Ends : Near(e) = p
    BY DEF Sides, Ends, Near
  <2>3. UNCHANGED <<sent, got, seen>>
    BY <2>1 DEF Finish, Hear, endVars
  <2>4. CASE Finish(p)
    BY <2>2, <2>3, <2>4, FinishFlows, StaysAll
  <2>5. CASE Hear(p)
    <3>1. /\ wire' = Hung(wire, Near(e)) /\ UNCHANGED <<copy, side, lost, sent, got>>
          /\ UNCHANGED watchdog /\ hung[Near(Other(e))] # "no"
      BY <2>2, <2>5, Geometry DEF Hear, sshVars, timeVars, endVars
    <3>2. TimedOut => TimedOut'
      BY <3>1 DEF TimedOut
    <3> QED
      BY <2>3, <3>1, <3>2, HungFlows, StaysAll
  <2> QED
    BY <2>1, <2>4, <2>5
<1>9. CASE Watchdog
  <2>1. UNCHANGED <<sent, got, seen>>
    BY <1>9 DEF Watchdog, Decide, CloseChannel, CloseUser, endVars
  <2>2. CASE Decide
    <3>1. UNCHANGED <<wire, copy, side, lost, sent, got>> /\ ~TimedOut
      BY <2>2 DEF Decide, Watched, sshVars, endVars, TimedOut
    <3>2. \A e \in Ends : Broken(e) => Broken(e)'
      BY <3>1, BrokenStays
    <3> QED
      BY <2>1, <3>1, <3>2, QuietFlows, StaysAll
  <2>3. CASE CloseChannel
    <3>1. /\ "user" \in Ends /\ wire' = Hung(wire, Near("user")) /\ TimedOut'
          /\ UNCHANGED <<copy, side, lost, sent, got>>
      BY <2>3 DEF CloseChannel, Near, Ends, TimedOut, sshVars, endVars
    <3> QED
      BY <2>1, <3>1, HungFlows, StaysAll
  <2>4. CASE CloseUser
    BY <2>1, <2>4, UserClosedFlows, StaysAll
  <2> QED
    BY <1>9, <2>2, <2>3, <2>4 DEF Watchdog
<1>8. CASE Tick
  <2>1. UNCHANGED <<wire, copy, side, lost, sent, got, seen, watchdog>>
    BY <1>8 DEF Tick, sshVars, endVars
  <2>2. \A e \in Ends : Broken(e) => Broken(e)'
    BY <2>1, BrokenStays
  <2> QED
    BY <2>1, <2>2, QuietFlows, StaysAll
<1> QED
  BY <1>1, <1>2, <1>3, <1>4, <1>5, <1>6, <1>7, <1>8, <1>9 DEF Next

LEMMA StreamInit ==
  ASSUME Init, TypeOK
  PROVE  StreamInv
<1>1. /\ \A w \in Wires : wire[w] = Quiet
      /\ \A c \in Copies : copy[c].pc = "off"
      /\ \A e \in Ends : sent[e] = 0 /\ got[e] = <<>>
      /\ ~lost /\ ~TimedOut /\ side["client"] = "open"
  BY DEF Init, Off, TimedOut
<1>2. Quiet.data = <<>> /\ ~Quiet.fin /\ ~Quiet.deaf /\ ~Quiet.cut
  BY DEF Quiet
<1>3. Plumbing
  <2>1. Channel \subseteq Wires
    BY Topology DEF Channel
  <2> QED
    BY <1>1, <1>2, <2>1, Topology DEF Plumbing, TimedOut
<1>4. ASSUME NEW e \in Ends
      PROVE  Flow(e)
  <2>1. PICK n, s, w, c1, c2 : /\ n = Len(got[e]) /\ s = sent[Other(e)] /\ w = Quiet
                               /\ c1 = copy[FirstCopy(e)] /\ c2 = copy[SecondCopy(e)]
    OBVIOUS
  <2>2. n = 0 /\ s = 0
    BY <1>1, <2>1, Geometry, NoneNumbered
  <2>3. Held(c1) = 0 /\ Held(c2) = 0
    BY <1>1, <2>1, Geometry DEF Held
  <2>4. Size(w) = 0 /\ (\A m : Numbered(w.data, m)) /\ ~w.fin /\ ~w.deaf
    BY <1>2, <2>1, NoneNumbered DEF Size
  <2>5. Line(n, s, w, c1, w, c2, w, Broken(e))
    BY <2>2, <2>3, <2>4 DEF Line
  <2> QED
    BY <1>1, <2>1, <2>5, Geometry DEF Flow
<1> QED
  BY <1>3, <1>4 DEF StreamInv

(* How the copies, half-closes, closes, the watchdog and the loss of the   *)
(* connection keep both lines, for any window and any amount of data.      *)
THEOREM StreamInvariance == Spec => [](Endings /\ StreamInv)
<1>1. Init => IInv /\ Endings /\ StreamInv
  BY IInvInit, EndingsInit, StreamInit DEF IInv
<1>2. IInv /\ Endings /\ StreamInv /\ [Next]_vars => IInv' /\ Endings' /\ StreamInv'
  <2> SUFFICES ASSUME IInv, Endings, StreamInv, [Next]_vars
               PROVE  IInv' /\ Endings' /\ StreamInv'
    OBVIOUS
  <2>1. IInv' /\ TypeOK /\ TypeOK' /\ Endings'
    BY IInvStep, EndingsStep DEF IInv
  <2>2. CASE Next
    BY <2>1, <2>2, StreamSteps
  <2>3. CASE UNCHANGED vars
    BY <2>1, <2>3, QuietFlows DEF vars, sshVars, timeVars, endVars
  <2> QED BY <2>1, <2>2, <2>3
<1> QED BY <1>1, <1>2, PTL DEF Spec

(* A step of the relay, seen by the ends of one stream.                    *)
LEMMA ToUserStep ==
  ASSUME TypeOK, TypeOK', StreamStep("user")
  PROVE  [ToUser!Next]_(ToUser!vars)
<1>1. Other("user") = "local" /\ First("user") = OutOf("local") /\ "user" \in Ends
  BY DEF Other, First, Ends
<1>2. PICK u, v : u = wire[OutOf("local")].fin /\ v = wire'[OutOf("local")].fin
  OBVIOUS
<1>3. PICK b, x : b = Broken("user") /\ x = Broken("user")'
  OBVIOUS
<1>4. u \in BOOLEAN /\ v \in BOOLEAN /\ b \in BOOLEAN /\ x \in BOOLEAN
  <2>1. wire[OutOf("local")] \in WireStates /\ wire'[OutOf("local")] \in WireStates
    BY <1>1, Geometry DEF TypeOK
  <2> QED BY <1>2, <1>3, <2>1 DEF WireStates, Broken, TimedOut
<1>5. CASE Sends("user")
  <2>1. /\ ~u /\ v = u /\ x = b /\ sent'["local"] = sent["local"] + 1
        /\ got'["user"] = got["user"] /\ seen'["user"] = seen["user"]
    BY <1>1, <1>2, <1>3, <1>4, <1>5 DEF Sends
  <2>2. ToUser!Send
    BY <1>2, <1>3, <2>1 DEF ToUser!Send
  <2> QED BY <2>2 DEF ToUser!Next
<1>6. CASE Closes("user")
  <2>1. /\ ~u /\ v = TRUE /\ x \in {b, TRUE} /\ sent'["local"] = sent["local"]
        /\ got'["user"] = got["user"] /\ seen'["user"] = seen["user"]
    BY <1>1, <1>2, <1>3, <1>4, <1>6 DEF Closes
  <2>2. ToUser!Close
    BY <1>2, <1>3, <2>1 DEF ToUser!Close
  <2> QED BY <2>2 DEF ToUser!Next
<1>7. CASE Receives("user")
  <2>1. /\ seen["user"] = "no" /\ Len(got["user"]) < sent["local"] /\ v = u /\ x = b
        /\ sent'["local"] = sent["local"] /\ got'["user"] = Append(got["user"], Len(got["user"]) + 1)
        /\ seen'["user"] = seen["user"]
    BY <1>1, <1>2, <1>3, <1>4, <1>7 DEF Receives
  <2>2. ToUser!Receive
    BY <1>2, <1>3, <2>1 DEF ToUser!Receive
  <2> QED BY <2>2 DEF ToUser!Next
<1>8. CASE SeesEnd("user")
  <2>1. /\ seen["user"] = "no" /\ v = u /\ x = b /\ sent'["local"] = sent["local"]
        /\ got'["user"] = got["user"]
        /\ \/ seen'["user"] = "error"
           \/ seen'["user"] = "eof" /\ (b \/ (u /\ Len(got["user"]) = sent["local"]))
    BY <1>1, <1>2, <1>3, <1>4, <1>8 DEF SeesEnd
  <2>2. ToUser!End \/ ToUser!Fail
    BY <1>2, <1>3, <2>1 DEF ToUser!End, ToUser!Fail
  <2> QED BY <2>2 DEF ToUser!Next
<1>9. CASE Stays("user")
  <2>1. /\ v = u /\ (x = b \/ x = TRUE) /\ sent'["local"] = sent["local"]
        /\ got'["user"] = got["user"] /\ seen'["user"] = seen["user"]
    BY <1>1, <1>2, <1>3, <1>4, <1>9 DEF Stays
  <2>2. ToUser!Break \/ UNCHANGED ToUser!vars
    BY <1>2, <1>3, <2>1 DEF ToUser!Break, ToUser!vars
  <2> QED BY <2>2 DEF ToUser!Next
<1> QED BY <1>5, <1>6, <1>7, <1>8, <1>9 DEF StreamStep

LEMMA ToLocalStep ==
  ASSUME TypeOK, TypeOK', StreamStep("local")
  PROVE  [ToLocal!Next]_(ToLocal!vars)
<1>1. Other("local") = "user" /\ First("local") = OutOf("user") /\ "local" \in Ends
  BY DEF Other, First, Ends
<1>2. PICK u, v : u = wire[OutOf("user")].fin /\ v = wire'[OutOf("user")].fin
  OBVIOUS
<1>3. PICK b, x : b = Broken("local") /\ x = Broken("local")'
  OBVIOUS
<1>4. u \in BOOLEAN /\ v \in BOOLEAN /\ b \in BOOLEAN /\ x \in BOOLEAN
  <2>1. wire[OutOf("user")] \in WireStates /\ wire'[OutOf("user")] \in WireStates
    BY <1>1, Geometry DEF TypeOK
  <2> QED BY <1>2, <1>3, <2>1 DEF WireStates, Broken, TimedOut
<1>5. CASE Sends("local")
  <2>1. /\ ~u /\ v = u /\ x = b /\ sent'["user"] = sent["user"] + 1
        /\ got'["local"] = got["local"] /\ seen'["local"] = seen["local"]
    BY <1>1, <1>2, <1>3, <1>4, <1>5 DEF Sends
  <2>2. ToLocal!Send
    BY <1>2, <1>3, <2>1 DEF ToLocal!Send
  <2> QED BY <2>2 DEF ToLocal!Next
<1>6. CASE Closes("local")
  <2>1. /\ ~u /\ v = TRUE /\ x \in {b, TRUE} /\ sent'["user"] = sent["user"]
        /\ got'["local"] = got["local"] /\ seen'["local"] = seen["local"]
    BY <1>1, <1>2, <1>3, <1>4, <1>6 DEF Closes
  <2>2. ToLocal!Close
    BY <1>2, <1>3, <2>1 DEF ToLocal!Close
  <2> QED BY <2>2 DEF ToLocal!Next
<1>7. CASE Receives("local")
  <2>1. /\ seen["local"] = "no" /\ Len(got["local"]) < sent["user"] /\ v = u /\ x = b
        /\ sent'["user"] = sent["user"] /\ got'["local"] = Append(got["local"], Len(got["local"]) + 1)
        /\ seen'["local"] = seen["local"]
    BY <1>1, <1>2, <1>3, <1>4, <1>7 DEF Receives
  <2>2. ToLocal!Receive
    BY <1>2, <1>3, <2>1 DEF ToLocal!Receive
  <2> QED BY <2>2 DEF ToLocal!Next
<1>8. CASE SeesEnd("local")
  <2>1. /\ seen["local"] = "no" /\ v = u /\ x = b /\ sent'["user"] = sent["user"]
        /\ got'["local"] = got["local"]
        /\ \/ seen'["local"] = "error"
           \/ seen'["local"] = "eof" /\ (b \/ (u /\ Len(got["local"]) = sent["user"]))
    BY <1>1, <1>2, <1>3, <1>4, <1>8 DEF SeesEnd
  <2>2. ToLocal!End \/ ToLocal!Fail
    BY <1>2, <1>3, <2>1 DEF ToLocal!End, ToLocal!Fail
  <2> QED BY <2>2 DEF ToLocal!Next
<1>9. CASE Stays("local")
  <2>1. /\ v = u /\ (x = b \/ x = TRUE) /\ sent'["user"] = sent["user"]
        /\ got'["local"] = got["local"] /\ seen'["local"] = seen["local"]
    BY <1>1, <1>2, <1>3, <1>4, <1>9 DEF Stays
  <2>2. ToLocal!Break \/ UNCHANGED ToLocal!vars
    BY <1>2, <1>3, <2>1 DEF ToLocal!Break, ToLocal!vars
  <2> QED BY <2>2 DEF ToLocal!Next
<1> QED BY <1>5, <1>6, <1>7, <1>8, <1>9 DEF StreamStep

LEMMA InitStreams ==
  ASSUME Init
  PROVE  ToUser!Init /\ ToLocal!Init
<1>1. \A e \in Ends : Broken(e) = FALSE /\ wire[OutOf(e)].fin = FALSE
  BY Writers, Topology DEF Init, Broken, Quiet, TimedOut
<1> QED BY <1>1 DEF Init, ToUser!Init, ToLocal!Init, Ends

(* Both directions are streams (server.go:580-590, client.go:332-347):     *)
(* what an end reads is what the other one has sent, in order, once and    *)
(* without a gap, and a clean end of file comes after all of it, unless    *)
(* something has broken the stream on the way.                             *)
THEOREM StreamsImplemented == Spec => ImplementsStreams
<1>1. Init => ToUser!Init /\ ToLocal!Init
  BY InitStreams
<1>2. IInv /\ IInv' /\ Endings /\ StreamInv /\ [Next]_vars =>
        [ToUser!Next]_(ToUser!vars) /\ [ToLocal!Next]_(ToLocal!vars)
  <2> SUFFICES ASSUME IInv, IInv', Endings, StreamInv, [Next]_vars
               PROVE  [ToUser!Next]_(ToUser!vars) /\ [ToLocal!Next]_(ToLocal!vars)
    OBVIOUS
  <2>1. TypeOK /\ TypeOK'
    BY DEF IInv
  <2>2. \A e \in Ends : StreamStep(e)
    <3>1. CASE Next
      BY <2>1, <3>1, StreamSteps
    <3>2. CASE UNCHANGED vars
      BY <3>2 DEF vars, sshVars, timeVars, endVars, StreamStep, Stays, Broken, TimedOut
    <3> QED BY <3>1, <3>2
  <2> QED BY <2>1, <2>2, ToUserStep, ToLocalStep DEF Ends
<1> QED BY <1>1, <1>2, RelayInvariant, StreamInvariance, PTL
        DEF Spec, ImplementsStreams, ToUser!Spec, ToLocal!Spec

=============================================================================
