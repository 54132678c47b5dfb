-------------------------------- MODULE Stream --------------------------------
(***************************************************************************)
(* One direction of a TCP connection as its two ends expect it, with no    *)
(* relay in between: what is received is what was sent, in order and once, *)
(* and a clean end of file comes after all of it, unless the stream broke  *)
(* on the way.  Relay implements it in both directions.                    *)
(***************************************************************************)
EXTENDS Integers, Sequences

VARIABLES
  sent,     \* pieces of data written so far; piece n is the number n
  closed,   \* the writer has written its end of file
  got,      \* the pieces the reader has read
  seen,     \* how the stream ended for the reader: "no", "eof", "error"
  broken    \* something other than the writer may have cut the stream

vars == <<sent, closed, got, seen, broken>>

Init == sent = 0 /\ closed = FALSE /\ got = <<>> /\ seen = "no" /\ broken = FALSE

Send ==
  /\ ~closed
  /\ sent' = sent + 1
  /\ UNCHANGED <<closed, got, seen, broken>>

(* The writer closes in order, or gives up and breaks the stream as well.  *)
Close ==
  /\ ~closed
  /\ closed' = TRUE
  /\ broken' \in {broken, TRUE}
  /\ UNCHANGED <<sent, got, seen>>

Break == broken' = TRUE /\ UNCHANGED <<sent, closed, got, seen>>

Receive ==
  /\ seen = "no"
  /\ Len(got) < sent
  /\ got' = Append(got, Len(got) + 1)
  /\ UNCHANGED <<sent, closed, seen, broken>>

End ==
  /\ seen = "no"
  /\ \/ broken
     \/ closed /\ Len(got) = sent
  /\ seen' = "eof"
  /\ UNCHANGED <<sent, closed, got, broken>>

Fail == seen = "no" /\ seen' = "error" /\ UNCHANGED <<sent, closed, got, broken>>

Next == Send \/ Close \/ Break \/ Receive \/ End \/ Fail

Spec == Init /\ [][Next]_vars

=============================================================================
