------------------------------ MODULE AuthBlocker ------------------------------
(***************************************************************************)
(* The block list of pkg/auth/blocker.go and its callers in                *)
(* pkg/server/server.go: handleConnection and the PasswordCallback.        *)
(*                                                                         *)
(* A worker is the goroutine of one connection.  It asks IsBlocked before  *)
(* the handshake and for every password, and calls RecordFailure or        *)
(* ResetFailure.  Workers and the cleaning goroutine share the cache (its  *)
(* operations are atomic), the database (its transactions are atomic) and, *)
(* through pointers in the cache, the records themselves, which no lock    *)
(* protects: each load, store and marshalling of a record is a step.       *)
(*                                                                         *)
(* Time is a small counter and 0 the zero time.Time.  A time.Time is read  *)
(* and written in one step.  The process may die and start again; the      *)
(* database survives, everything else is lost.  Left out: logging, Close,  *)
(* BlockedCount (it only counts) and errors of JSON.                       *)
(***************************************************************************)
EXTENDS LRU, FiniteSets

CONSTANTS
  IPs,
  Workers,      \* connections at one time
  MaxFailures,  \* auth_max_failures
  BlockDur,     \* auth_block_duration
  RecordTTL,    \* auth_record_ttl
  LRUSize,      \* auth_lru_size
  DiskMayFail,  \* whether an Update of the database may fail
  PageReuse,    \* whether bbolt may reuse a page somebody still reads
  MayRestart,   \* whether the process may die
  MaxTime,      \* bound on the time
  MaxFails      \* bound on the wrong passwords

Ptrs == 1..(LRUSize + Cardinality(Workers))

ASSUME BlockerAssumption ==
  /\ IsFiniteSet(Workers) /\ IsFiniteSet(IPs)
  /\ MaxFailures \in Nat \ {0} /\ LRUSize \in Nat \ {0}
  /\ BlockDur \in Nat \ {0} /\ RecordTTL \in Nat \ {0}
  /\ {DiskMayFail, PageReuse, MayRestart} \subseteq BOOLEAN
  /\ MaxTime \in Nat /\ MaxFails \in Nat
  /\ Nil \notin IPs \cup Ptrs

VARIABLES
  now,      \* the clock
  disk,     \* the bucket auth_failures
  lru,      \* AuthBlocker.lru
  heap,     \* the AuthFailureRecord objects, each with the IP it is for
  worker,   \* position and locals of every connection's goroutine
  cleaner,  \* position and locals of cleanExpired
  past,     \* history: what happened to every IP
  fails     \* history: wrong passwords so far

vars == <<now, disk, lru, heap, worker, cleaner, past, fails>>

history == <<past, fails>>

(* Variant: the count starts below zero.                                   *)
NewRecordBelow(ip) ==
  [ip |-> ip, FailCount |-> -1, LastFailAt |-> 0, BlockedUntil |-> 0]

(* &AuthFailureRecord{} for ip.                                            *)
NewRecord(ip) == [ip |-> ip, FailCount |-> 0, LastFailAt |-> 0, BlockedUntil |-> 0]

NoRecord == NewRecord(Nil)

(* AuthFailureRecord.IsBlocked.                                            *)
IsBlocked(r) == r.BlockedUntil # 0 /\ now < r.BlockedUntil

IdleWorker == [pc |-> "idle", ip |-> Nil, op |-> "gate", rec |-> Nil,
               at |-> 0, count |-> 0, data |-> NoRecord, updates |-> 0]

IdleCleaner == [pc |-> "idle", todo |-> {}, ip |-> Nil]

(* What the history keeps of an IP: the failures recorded since it last    *)
(* logged in clearly (row), when the latest of them was decided (last),    *)
(* how many of them are sure, recorded one after another with nothing in   *)
(* between that may lose one, and whether another record was taken for its *)
(* own (misread).                                                          *)
NoPast == [row |-> 0, last |-> 0, sure |-> 0, misread |-> FALSE]

Init ==
  /\ now = 1
  /\ disk = [ip \in IPs |-> NoRecord]
  /\ lru = EmptyCache(IPs)
  /\ heap = [p \in Ptrs |-> NoRecord]
  /\ worker = [w \in Workers |-> IdleWorker]
  /\ cleaner = IdleCleaner
  /\ past = [ip \in IPs |-> NoPast]
  /\ fails = 0

-----------------------------------------------------------------------------
(* Memory and database.                                                    *)

Referenced(p) == \/ \E ip \in IPs : lru.item[ip] = p
                 \/ \E w \in Workers : worker[w].rec = p

(* Allocation: the lowest pointer that nothing refers to.                  *)
Fresh(p) == ~Referenced(p) /\ \A q \in Ptrs : q < p => Referenced(q)

Allocate(p, r) ==
  heap' = [q \in Ptrs |-> IF q = p THEN r
                          ELSE IF Referenced(q) THEN heap[q] ELSE NoRecord]

(* db.Update that writes r under ip, its error ignored.  Workers that hold *)
(* data of a View transaction they have left see one more update go by.    *)
Updated(ip, r, ws) ==
  \/ /\ disk' = [disk EXCEPT ![ip] = r]
     /\ worker' = [w \in Workers |->
                     IF ws[w].pc = "parse" /\ ws[w].updates < 2
                     THEN [ws[w] EXCEPT !.updates = @ + 1] ELSE ws[w]]
  \/ DiskMayFail /\ worker' = ws /\ UNCHANGED disk

(* What the bytes of a View that has ended can hold when they are parsed:  *)
(* what was read, or, when two updates have gone by and the page is used   *)
(* again, nothing that parses or a record that is now in its place.        *)
Bytes(w) ==
  LET ip     == worker[w].ip
      stored == {i \in IPs : disk[i] # NoRecord}
  IN {worker[w].data} \cup
     (IF PageReuse /\ worker[w].updates = 2
      THEN {NoRecord} \cup {[disk[j] EXCEPT !.ip = ip] : j \in stored}
      ELSE {})

(* The address whose record a connection's goroutine is about; none while  *)
(* it waits for a password.                                                *)
Working(v) == IF v.pc \in {"idle", "password"} THEN Nil ELSE v.ip

(* The record is in the hands of another connection or of the cleaner.     *)
Contended(w, ip) == \/ ip \in cleaner.todo \cup {cleaner.ip}
                    \/ \E x \in Workers \ {w} : Working(worker[x]) = ip

(* Failures of these addresses may get lost.                               *)
Unsure(ips) ==
  past' = [ip \in IPs |-> IF ip \in ips THEN [past[ip] EXCEPT !.sure = 0] ELSE past[ip]]

(* A connection's goroutine turns to the record of ip.                     *)
Begins(w, ip) == Unsure(IF Contended(w, ip) THEN {ip} ELSE {})

At(w, pc) == worker[w].pc = pc

Becomes(w, v) == worker' = [worker EXCEPT ![w] = v]

-----------------------------------------------------------------------------
(* A connection: its calls of the blocker.                                 *)

(* handleConnection starts for a connection of ip: IsBlocked is called.    *)
Connect(w, ip) ==
  /\ At(w, "idle")
  /\ Becomes(w, [worker[w] EXCEPT !.pc = "lookup", !.ip = ip])
  /\ Begins(w, ip)
  /\ UNCHANGED <<now, disk, lru, heap, cleaner, fails>>

(* The handshake reaches the PasswordCallback, once more after a failure;  *)
(* IsBlocked is called.                                                    *)
Password(w) ==
  /\ At(w, "password")
  /\ Becomes(w, [worker[w] EXCEPT !.pc = "lookup"])
  /\ Begins(w, worker[w].ip)
  /\ UNCHANGED <<now, disk, lru, heap, cleaner, fails>>

(* The client gives up, or has tried too often.                            *)
HangUp(w) ==
  /\ At(w, "password")
  /\ Becomes(w, IdleWorker)
  /\ UNCHANGED <<now, disk, lru, heap, cleaner, history>>

(* IsBlocked has the record, or none, and answers.                         *)
Blocked(w) == worker[w].rec # Nil /\ IsBlocked(heap[worker[w].rec])

(* IsBlocked before the handshake says yes: the connection is closed.      *)
RefuseConnection(w) ==
  /\ At(w, "verdict") /\ worker[w].op = "gate"
  /\ Blocked(w)
  /\ Becomes(w, IdleWorker)
  /\ UNCHANGED <<now, disk, lru, heap, cleaner, history>>

AdmitConnection(w) ==
  /\ At(w, "verdict") /\ worker[w].op = "gate"
  /\ ~Blocked(w)
  /\ Becomes(w, [worker[w] EXCEPT !.pc = "password", !.op = "check", !.rec = Nil])
  /\ UNCHANGED <<now, disk, lru, heap, cleaner, history>>

(* IsBlocked in the PasswordCallback says yes: an error, whatever the      *)
(* password.                                                               *)
RefusePassword(w) ==
  /\ At(w, "verdict") /\ worker[w].op = "check"
  /\ Blocked(w)
  /\ Becomes(w, [worker[w] EXCEPT !.pc = "password", !.rec = Nil])
  /\ UNCHANGED <<now, disk, lru, heap, cleaner, history>>

(* The response is too short or wrong: RecordFailure is called ...         *)
WrongPassword(w) ==
  /\ At(w, "verdict") /\ worker[w].op = "check"
  /\ ~Blocked(w)
  /\ fails < MaxFails
  /\ fails' = fails + 1
  /\ Becomes(w, [worker[w] EXCEPT !.pc = "failed", !.rec = Nil])
  /\ UNCHANGED <<now, disk, lru, heap, cleaner, past>>

(* ... or right: ResetFailure is called.                                   *)
RightPassword(w) ==
  /\ At(w, "verdict") /\ worker[w].op = "check"
  /\ ~Blocked(w)
  /\ Becomes(w, [worker[w] EXCEPT !.pc = "delete", !.rec = Nil])
  /\ UNCHANGED <<now, disk, lru, heap, cleaner, history>>

(* RecordFailure reads the clock and calls getRecord.                      *)
RecordFailure(w) ==
  /\ At(w, "failed")
  /\ Becomes(w, [worker[w] EXCEPT !.pc = "lookup", !.op = "record", !.at = now])
  /\ UNCHANGED <<now, disk, lru, heap, cleaner, history>>

-----------------------------------------------------------------------------
(* getRecord.                                                              *)

(* Where the caller continues with the record.                             *)
Continue(op) == IF op = "record" THEN "load" ELSE "verdict"

LookupHit(w) ==
  LET ip == worker[w].ip
  IN /\ At(w, "lookup")
     /\ lru.item[ip] # Nil
     /\ lru' = CacheGet(lru, ip)
     /\ Becomes(w, [worker[w] EXCEPT !.pc = Continue(worker[w].op),
                                     !.rec = lru.item[ip]])
     /\ UNCHANGED <<now, disk, heap, cleaner, history>>

LookupMiss(w) ==
  /\ At(w, "lookup")
  /\ lru.item[worker[w].ip] = Nil
  /\ Becomes(w, [worker[w] EXCEPT !.pc = "view"])
  /\ UNCHANGED <<now, disk, lru, heap, cleaner, history>>

(* The View transaction finds the record.                                  *)
View(w) ==
  LET r == disk[worker[w].ip]
  IN /\ At(w, "view")
     /\ r # NoRecord
     /\ Becomes(w, [worker[w] EXCEPT !.pc = "parse", !.data = r])
     /\ UNCHANGED <<now, disk, lru, heap, cleaner, history>>

(* The caller gets no record; RecordFailure makes one.                     *)
WithoutRecord(w) ==
  LET v  == [worker[w] EXCEPT !.data = NoRecord, !.updates = 0]
  IN IF v.op = "record"
     THEN \E p \in Ptrs : /\ Fresh(p)
                          /\ Allocate(p, NewRecord(v.ip))
                          /\ Becomes(w, [v EXCEPT !.pc = "load", !.rec = p])
     ELSE /\ Becomes(w, [v EXCEPT !.pc = "verdict"])
          /\ UNCHANGED heap

ViewNothing(w) ==
  /\ At(w, "view")
  /\ disk[worker[w].ip] = NoRecord
  /\ WithoutRecord(w)
  /\ UNCHANGED <<now, disk, lru, cleaner, history>>

(* json.Unmarshal makes a record and the cache gets it.                    *)
Backfill(w) ==
  /\ At(w, "parse")
  /\ \E r \in Bytes(w) \ {NoRecord}, p \in Ptrs :
       /\ Fresh(p)
       /\ Allocate(p, r)
       /\ lru' = CachePut(lru, worker[w].ip, p, LRUSize)
       /\ Becomes(w, [worker[w] EXCEPT !.pc = Continue(worker[w].op), !.rec = p,
                                       !.data = NoRecord, !.updates = 0])
       /\ past' = IF r = worker[w].data THEN past
                  ELSE [past EXCEPT ![worker[w].ip] =
                          [@ EXCEPT !.misread = TRUE, !.sure = 0]]
  /\ UNCHANGED <<now, disk, cleaner, fails>>

(* json.Unmarshal fails.                                                   *)
Garbled(w) ==
  /\ At(w, "parse")
  /\ NoRecord \in Bytes(w)
  /\ WithoutRecord(w)
  /\ Unsure({worker[w].ip})
  /\ UNCHANGED <<now, disk, lru, cleaner, fails>>

-----------------------------------------------------------------------------
(* RecordFailure with the record in hand.                                  *)

(* rec.FailCount++ loads ...                                               *)
Load(w) ==
  /\ At(w, "load")
  /\ Becomes(w, [worker[w] EXCEPT !.pc = "store",
                                  !.count = heap[worker[w].rec].FailCount])
  /\ UNCHANGED <<now, disk, lru, heap, cleaner, history>>

(* One more failure for the history.                                       *)
Recorded(w) ==
  LET v == worker[w]
      p == past[v.ip]
  IN past' = [past EXCEPT ![v.ip] =
                [p EXCEPT !.row = @ + 1,
                          !.last = IF v.at > @ THEN v.at ELSE @,
                          !.sure = IF Contended(w, v.ip) \/ v.at < p.last
                                   THEN 0 ELSE @ + 1]]

(* ... and stores; rec.LastFailAt = now.                                   *)
Store(w) ==
  LET v == worker[w]
  IN /\ At(w, "store")
     /\ heap' = [heap EXCEPT ![v.rec] =
                   [@ EXCEPT !.FailCount = v.count + 1, !.LastFailAt = v.at]]
     /\ Recorded(w)
     /\ Becomes(w, [worker[w] EXCEPT !.pc = "judge", !.count = 0])
     /\ UNCHANGED <<now, disk, lru, cleaner, fails>>

(* Variant: one failure too early.                                         *)
ReachedEarly(r) == r.FailCount + 1 >= MaxFailures

(* Variant: one failure too late.                                          *)
ReachedLate(r) == r.FailCount > MaxFailures

Reached(r) == r.FailCount >= MaxFailures

(* rec.BlockedUntil is set when the threshold is reached.                  *)
Judge(w) ==
  LET v == worker[w]
  IN /\ At(w, "judge")
     /\ heap' = IF Reached(heap[v.rec])
                THEN [heap EXCEPT ![v.rec].BlockedUntil = v.at + BlockDur] ELSE heap
     /\ Becomes(w, [worker[w] EXCEPT !.pc = "marshal", !.at = 0])
     /\ UNCHANGED <<now, disk, lru, cleaner, history>>

(* putRecord: json.Marshal ...                                             *)
Marshal(w) ==
  /\ At(w, "marshal")
  /\ Becomes(w, [worker[w] EXCEPT !.pc = "commit", !.data = heap[worker[w].rec]])
  /\ UNCHANGED <<now, disk, lru, heap, cleaner, history>>

(* ... and the Update transaction.                                         *)
Commit(w) ==
  /\ At(w, "commit")
  /\ Updated(worker[w].ip, worker[w].data,
             [worker EXCEPT ![w] = [@ EXCEPT !.pc = "cache", !.data = NoRecord]])
  /\ Unsure(IF disk'[worker[w].ip] = worker[w].data THEN {} ELSE {worker[w].ip})
  /\ UNCHANGED <<now, lru, heap, cleaner, fails>>

(* b.lru.put, and the PasswordCallback returns its error.                  *)
Cache(w) ==
  /\ At(w, "cache")
  /\ lru' = CachePut(lru, worker[w].ip, worker[w].rec, LRUSize)
  /\ Becomes(w, [worker[w] EXCEPT !.pc = "password", !.op = "check", !.rec = Nil])
  /\ UNCHANGED <<now, disk, heap, cleaner, history>>

(* ResetFailure: deleteRecord ...                                          *)
Delete(w) ==
  /\ At(w, "delete")
  /\ Updated(worker[w].ip, NoRecord, [worker EXCEPT ![w] = [@ EXCEPT !.pc = "remove"]])
  /\ Unsure({worker[w].ip})
  /\ UNCHANGED <<now, lru, heap, cleaner, fails>>

(* The login is clear: the record of ip is gone from the database and no   *)
(* other connection holds what it was.                                     *)
Cleared(w, ip) ==
  /\ disk[ip] = NoRecord
  /\ \A x \in Workers \ {w} :
       worker[x].ip = ip => worker[x].rec = Nil /\ worker[x].pc # "parse"

(* ... and b.lru.remove; the connection is authenticated.                  *)
Remove(w) ==
  LET ip == worker[w].ip
  IN /\ At(w, "remove")
     /\ lru' = CacheRemove(lru, ip)
     /\ past' = IF Cleared(w, ip) THEN [past EXCEPT ![ip] = NoPast] ELSE past
     /\ Becomes(w, IdleWorker)
     /\ UNCHANGED <<now, disk, heap, cleaner, fails>>

WorkerStep(w) ==
  \/ \E ip \in IPs : Connect(w, ip)
  \/ Password(w) \/ HangUp(w) \/ RefuseConnection(w) \/ AdmitConnection(w)
  \/ RefusePassword(w) \/ WrongPassword(w) \/ RightPassword(w) \/ RecordFailure(w)
  \/ LookupHit(w) \/ LookupMiss(w) \/ View(w) \/ ViewNothing(w) \/ Backfill(w)
  \/ Garbled(w) \/ Load(w) \/ Store(w) \/ Judge(w) \/ Marshal(w) \/ Commit(w)
  \/ Cache(w) \/ Delete(w) \/ Remove(w)

-----------------------------------------------------------------------------
(* cleanExpired, and the process as a whole.                               *)

(* Not blocked, and the last failure longer ago than RecordTTL.            *)
Expired(r) == /\ r # NoRecord
              /\ ~IsBlocked(r)
              /\ r.LastFailAt = 0 \/ r.LastFailAt < now - RecordTTL

(* The sure failures of an IP are enough for a block, and it lasts.        *)
Enforced(p) == p.sure >= MaxFailures /\ now < p.last + BlockDur

(* They are not, and the latest has outlived RecordTTL.                    *)
Outlived(p) == ~Enforced(p) /\ (p.last = 0 \/ p.last < now - RecordTTL)

(* The View transaction collects what to delete.                           *)
CleanScan ==
  LET todo == {ip \in IPs : Expired(disk[ip])}
  IN /\ cleaner.pc = "idle"
     /\ todo # {}
     /\ cleaner' = [cleaner EXCEPT !.pc = "delete", !.todo = todo]
     /\ Unsure({ip \in todo : \/ \E w \in Workers : Working(worker[w]) = ip
                              \/ Outlived(past[ip])})
     /\ UNCHANGED <<now, disk, lru, heap, worker, fails>>

CleanDelete(ip) ==
  /\ cleaner.pc = "delete"
  /\ ip \in cleaner.todo
  /\ Updated(ip, NoRecord, worker)
  /\ cleaner' = [pc |-> "remove", todo |-> cleaner.todo \ {ip}, ip |-> ip]
  /\ UNCHANGED <<now, lru, heap, history>>

CleanRemove ==
  /\ cleaner.pc = "remove"
  /\ lru' = CacheRemove(lru, cleaner.ip)
  /\ cleaner' = IF cleaner.todo = {} THEN IdleCleaner
                ELSE [cleaner EXCEPT !.pc = "delete", !.ip = Nil]
  /\ UNCHANGED <<now, disk, heap, worker, history>>

Tick ==
  /\ now < MaxTime
  /\ now' = now + 1
  /\ UNCHANGED <<disk, lru, heap, worker, cleaner, history>>

(* The process ends at any moment and starts again.                        *)
Restart ==
  /\ MayRestart
  /\ lru' = EmptyCache(IPs)
  /\ heap' = [p \in Ptrs |-> NoRecord]
  /\ worker' = [w \in Workers |-> IdleWorker]
  /\ cleaner' = IdleCleaner
  /\ Unsure({worker[w].ip : w \in {x \in Workers :
                                     worker[x].pc \in {"judge", "marshal", "commit"}}})
  /\ UNCHANGED <<now, disk, fails>>

Next ==
  \/ \E w \in Workers : WorkerStep(w)
  \/ CleanScan \/ CleanRemove \/ \E ip \in IPs : CleanDelete(ip)
  \/ Tick \/ Restart

Spec == Init /\ [][Next]_vars

-----------------------------------------------------------------------------
(* Properties.                                                             *)

Records == [ip : IPs \cup {Nil}, FailCount : Nat, LastFailAt : Nat, BlockedUntil : Nat]

WorkerStates ==
  {"idle", "password", "lookup", "view", "parse", "verdict", "failed", "load", "store",
   "judge", "marshal", "commit", "cache", "delete", "remove"}

WorkerRecords ==
  [pc : WorkerStates, ip : IPs \cup {Nil}, op : {"gate", "check", "record"},
   rec : Ptrs \cup {Nil}, at : Nat, count : Nat, data : Records, updates : 0..2]

CleanerRecords ==
  [pc : {"idle", "delete", "remove"}, todo : SUBSET IPs, ip : IPs \cup {Nil}]

Pasts == [row : Nat, last : Nat, sure : Nat, misread : BOOLEAN]

(* Every variable has its type.                                            *)
TypeOK ==
  /\ now \in Nat
  /\ disk \in [IPs -> Records]
  /\ lru.order \in Seq(IPs) /\ lru.item \in [IPs -> Ptrs \cup {Nil}]
  /\ heap \in [Ptrs -> Records]
  /\ worker \in [Workers -> WorkerRecords]
  /\ cleaner \in CleanerRecords
  /\ past \in [IPs -> Pasts] /\ fails \in Nat

(* The memory of the block list is bounded by auth_lru_size however many   *)
(* addresses fail, with workers and the cleaner at it at once              *)
(* (README.md:163).                                                        *)
CacheBounded == WellFormed(lru, IPs, LRUSize)

(* A connection or a password is refused as blocked only if MaxFailures    *)
(* failures of that very IP were recorded since it last logged in clearly, *)
(* and only for BlockDur after the latest of them (README.md:117 and 118), *)
(* whatever two connections, the cleaner, restarts and errors of the       *)
(* database did to its record; not if getRecord parsed bytes that another  *)
(* transaction had overwritten (blocker.go:269).  A login while another    *)
(* connection of the IP is at the old record is not clear: see OnlyInARow. *)
NeverRefusedEarly ==
  [][\A w \in Workers : RefuseConnection(w) \/ RefusePassword(w) =>
       LET p == past[worker[w].ip]
       IN p.misread \/ (p.row >= MaxFailures /\ now < p.last + BlockDur)]_vars

(* MaxFailures sure failures block: BlockDur from the latest of them no    *)
(* connection of that IP is admitted and none of its passwords judged,     *)
(* even the right one (server.go:178), whatever was evicted from the       *)
(* cache, deleted by the cleaner, restarted or raced before.  A failure is *)
(* sure when its record was in the hands of no other connection of the IP  *)
(* nor of the cleaner, and its Update went through.                        *)
BlockEnforced ==
  [][\A w \in Workers : AdmitConnection(w) \/ WrongPassword(w) \/ RightPassword(w) =>
       ~Enforced(past[worker[w].ip])]_vars

=============================================================================
