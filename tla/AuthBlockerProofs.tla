--------------------------- MODULE AuthBlockerProofs ---------------------------
(***************************************************************************)
(* Proofs about AuthBlocker: type correctness, the bound on the cache,     *)
(* that an IP is refused only for failures of its own and only as long as  *)
(* they block, and that failures that are surely counted do block.         *)
(***************************************************************************)
EXTENDS AuthBlocker, LRUProofs, TLAPS

(* A copy of a record counts no more failures than there were, and says    *)
(* blocked only if there were enough, and no longer than the latest of     *)
(* them warrants; unless another record was taken for that of its IP.      *)
Sound(r) == r.ip \in IPs /\ ~past[r.ip].misread =>
              /\ r.FailCount <= past[r.ip].row
              /\ r.BlockedUntil # 0 => /\ past[r.ip].row >= MaxFailures
                                       /\ r.BlockedUntil <= past[r.ip].last + BlockDur

(* The states in which a record is in hand.                                *)
InHand == {"load", "store", "judge", "marshal", "commit", "cache"}

WorkerSound(v) ==
  /\ IF v.pc = "idle" THEN v = IdleWorker ELSE v.ip \in IPs
  /\ v.pc \in InHand => v.rec # Nil
  /\ v.pc \notin InHand \cup {"verdict"} => v.rec = Nil
  /\ v.pc \notin {"parse", "commit"} => v.data = NoRecord
  /\ v.rec # Nil => heap[v.rec].ip = v.ip
  /\ v.pc \in {"parse", "commit"} => v.data.ip = v.ip
  /\ Sound(v.data)
  /\ v.pc = "store" /\ ~past[v.ip].misread => v.count <= past[v.ip].row
  /\ v.pc = "judge" /\ ~past[v.ip].misread => v.at <= past[v.ip].last

CacheSound == \A ip \in IPs : lru.item[ip] # Nil => heap[lru.item[ip]].ip = ip

DiskSound == \A ip \in IPs : /\ disk[ip] = NoRecord \/ disk[ip].ip = ip
                             /\ Sound(disk[ip])

HeapSound == \A p \in Ptrs : Referenced(p) => Sound(heap[p])

CleanerSound == cleaner.pc = "remove" => cleaner.ip \in IPs

RecordsSound ==
  /\ HeapSound /\ DiskSound /\ CacheSound
  /\ \A w \in Workers : WorkerSound(worker[w])

IInv == TypeOK /\ CacheBounded /\ RecordsSound /\ CleanerSound

-----------------------------------------------------------------------------
(* Types.                                                                  *)

(* The pointers are a finite range of numbers.                             *)
LEMMA PtrsType == Ptrs \subseteq Nat /\ Nil \notin Ptrs /\ Nil \notin IPs
BY BlockerAssumption DEF Ptrs

(* A record that counts from zero, and one that is none.                   *)
LEMMA NewRecordType ==
  /\ NoRecord \in Records /\ NoRecord.ip = Nil /\ NoRecord.FailCount = 0
  /\ \A ip \in IPs : /\ NewRecord(ip) \in Records /\ NewRecord(ip).ip = ip
                     /\ NewRecord(ip).FailCount = 0 /\ NewRecord(ip).BlockedUntil = 0
BY DEF NoRecord, NewRecord, Records

(* The initial states have the types.                                      *)
LEMMA InitType == Init => TypeOK /\ CacheBounded
<1> SUFFICES ASSUME Init PROVE TypeOK /\ CacheBounded
  OBVIOUS
<1>1. IdleWorker \in WorkerRecords
  <2>1. "idle" \in WorkerStates /\ NoRecord \in Records
    BY NewRecordType DEF WorkerStates
  <2> QED
    BY <2>1 DEF IdleWorker, WorkerRecords
<1>2. IdleCleaner \in CleanerRecords
  BY DEF IdleCleaner, CleanerRecords
<1>3. lru.order \in Seq(IPs) /\ lru.item \in [IPs -> Ptrs \cup {Nil}]
  BY DEF Init, EmptyCache
<1>4. CacheBounded
  BY EmptyWellFormed, BlockerAssumption DEF Init, CacheBounded
<1>5. NoPast \in Pasts
  BY DEF NoPast, Pasts
<1> QED
  BY <1>1, <1>2, <1>3, <1>4, <1>5, NewRecordType DEF Init, TypeOK

(* Changing the fields that a step of a worker changes.                    *)
LEMMA WorkerFields ==
  ASSUME NEW v \in WorkerRecords, NEW pc \in WorkerStates
  PROVE  /\ [v EXCEPT !.pc = pc] \in WorkerRecords
         /\ \A ip \in IPs : [v EXCEPT !.pc = pc, !.ip = ip] \in WorkerRecords
         /\ \A n \in Nat : [v EXCEPT !.pc = pc, !.op = "record", !.at = n] \in WorkerRecords
         /\ \A n \in Nat : [v EXCEPT !.pc = pc, !.count = n] \in WorkerRecords
         /\ [v EXCEPT !.pc = pc, !.at = 0] \in WorkerRecords
         /\ \A r \in Records : [v EXCEPT !.pc = pc, !.data = r] \in WorkerRecords
<1> USE DEF WorkerRecords
<1>1. /\ [v EXCEPT !.pc = pc] \in WorkerRecords
      /\ \A ip \in IPs : [v EXCEPT !.pc = pc, !.ip = ip] \in WorkerRecords
  OBVIOUS
<1>2. \A n \in Nat : [v EXCEPT !.pc = pc, !.op = "record", !.at = n] \in WorkerRecords
  OBVIOUS
<1>3. /\ \A n \in Nat : [v EXCEPT !.pc = pc, !.count = n] \in WorkerRecords
      /\ [v EXCEPT !.pc = pc, !.at = 0] \in WorkerRecords
  OBVIOUS
<1>4. \A r \in Records : [v EXCEPT !.pc = pc, !.data = r] \in WorkerRecords
  OBVIOUS
<1> QED
  BY <1>1, <1>2, <1>3, <1>4

(* The same for the steps that take or drop a record.                      *)
LEMMA RecordFields ==
  ASSUME NEW v \in WorkerRecords, NEW pc \in WorkerStates
  PROVE  /\ \A p \in Ptrs \cup {Nil} : [v EXCEPT !.pc = pc, !.rec = p] \in WorkerRecords
         /\ [v EXCEPT !.pc = pc, !.op = "check", !.rec = Nil] \in WorkerRecords
         /\ \A p \in Ptrs \cup {Nil} : \A r \in Records :
              [v EXCEPT !.pc = pc, !.rec = p, !.data = r, !.updates = 0] \in WorkerRecords
         /\ \A r \in Records : [v EXCEPT !.data = r, !.updates = 0] \in WorkerRecords
<1> USE DEF WorkerRecords
<1>1. /\ \A p \in Ptrs \cup {Nil} : [v EXCEPT !.pc = pc, !.rec = p] \in WorkerRecords
      /\ [v EXCEPT !.pc = pc, !.op = "check", !.rec = Nil] \in WorkerRecords
  OBVIOUS
<1>2. ASSUME NEW p \in Ptrs \cup {Nil}, NEW r \in Records
      PROVE  [v EXCEPT !.pc = pc, !.rec = p, !.data = r, !.updates = 0] \in WorkerRecords
  <2>1. 0 \in 0..2
    OBVIOUS
  <2> QED
    BY <2>1
<1>3. ASSUME NEW r \in Records
      PROVE  [v EXCEPT !.data = r, !.updates = 0] \in WorkerRecords
  <2>1. 0 \in 0..2
    OBVIOUS
  <2> QED
    BY <2>1
<1> QED
  BY <1>1, <1>2, <1>3

(* The fields of a worker have their types.                                *)
LEMMA FieldTypes ==
  ASSUME NEW v \in WorkerRecords
  PROVE  /\ v.pc \in WorkerStates /\ v.ip \in IPs \cup {Nil} /\ v.rec \in Ptrs \cup {Nil}
         /\ v.at \in Nat /\ v.count \in Nat /\ v.data \in Records /\ v.updates \in 0..2
BY DEF WorkerRecords

(* Nothing has failed, or so much that nothing is known: no record counts. *)
LEMMA NoRecordSound == Sound(NoRecord) /\ Sound(NoRecord)'
BY NewRecordType, PtrsType DEF Sound

(* A worker that is idle.                                                  *)
LEMMA IdleFacts ==
  /\ IdleWorker \in WorkerRecords /\ IdleWorker.pc = "idle"
  /\ WorkerSound(IdleWorker) /\ WorkerSound(IdleWorker)'
<1>1. IdleWorker \in WorkerRecords
  <2>1. "idle" \in WorkerStates /\ NoRecord \in Records
    BY NewRecordType DEF WorkerStates
  <2> QED
    BY <2>1 DEF IdleWorker, WorkerRecords
<1>2. IdleWorker.pc = "idle" /\ IdleWorker.rec = Nil /\ IdleWorker.data = NoRecord
  BY DEF IdleWorker
<1> QED
  BY <1>1, <1>2, NoRecordSound DEF WorkerSound, InHand

-----------------------------------------------------------------------------
(* The history.                                                            *)

(* Failures are recorded and nothing is taken back.                        *)
Grows ==
  /\ past \in [IPs -> Pasts] /\ past' \in [IPs -> Pasts]
  /\ \A ip \in IPs : /\ past[ip].row <= past'[ip].row
                     /\ past[ip].last <= past'[ip].last
                     /\ past[ip].misread => past'[ip].misread

(* What is no longer sure of some IP is all that changes.                  *)
OnlyDoubts ==
  \A ip \in IPs : past'[ip] = past[ip] \/ past'[ip].sure = 0

LEMMA UnsureFacts ==
  ASSUME TypeOK, NEW S, Unsure(S)
  PROVE  Grows /\ OnlyDoubts /\ \A ip \in IPs : ip \in S => past'[ip].sure = 0
<1>1. /\ past \in [IPs -> Pasts]
      /\ past' = [ip \in IPs |-> IF ip \in S THEN [past[ip] EXCEPT !.sure = 0] ELSE past[ip]]
  BY DEF TypeOK, Unsure
<1>2. ASSUME NEW ip \in IPs
      PROVE  /\ past'[ip] \in Pasts
             /\ past[ip].row <= past'[ip].row /\ past[ip].last <= past'[ip].last
             /\ past[ip].misread => past'[ip].misread
             /\ past'[ip] = past[ip] \/ past'[ip].sure = 0
             /\ ip \in S => past'[ip].sure = 0
  <2>1. PICK p : p = past[ip]
    OBVIOUS
  <2>2. p \in Pasts
    BY <1>1, <2>1
  <2>3. p.row \in Nat /\ p.last \in Nat
    BY <2>2 DEF Pasts
  <2>4. CASE ip \in S
    <3>1. past'[ip] = [p EXCEPT !.sure = 0]
      BY <1>1, <2>1, <2>4
    <3>2. /\ past'[ip] \in Pasts /\ past'[ip].row = p.row /\ past'[ip].last = p.last
          /\ past'[ip].misread = p.misread /\ past'[ip].sure = 0
      BY <2>2, <3>1 DEF Pasts
    <3> QED
      BY <2>1, <2>3, <3>2
  <2>5. CASE ip \notin S
    BY <1>1, <2>1, <2>2, <2>3, <2>5
  <2> QED
    BY <2>4, <2>5
<1>3. past' \in [IPs -> Pasts]
  BY <1>1, <1>2
<1> QED
  BY <1>1, <1>2, <1>3 DEF Grows, OnlyDoubts

LEMMA SameFacts ==
  ASSUME TypeOK, past' = past
  PROVE  Grows /\ OnlyDoubts
<1>1. \A ip \in IPs : past[ip].row \in Nat /\ past[ip].last \in Nat
  BY DEF TypeOK, Pasts
<1> QED
  BY <1>1 DEF TypeOK, Grows, OnlyDoubts

(* More failures never make a copy unsound.                                *)
LEMMA SoundMono ==
  ASSUME NEW r \in Records, Sound(r), Grows
  PROVE  Sound(r)'
<1> SUFFICES ASSUME r.ip \in IPs, ~past'[r.ip].misread
             PROVE  /\ r.FailCount <= past'[r.ip].row
                    /\ r.BlockedUntil # 0 =>
                         /\ past'[r.ip].row >= MaxFailures
                         /\ r.BlockedUntil <= past'[r.ip].last + BlockDur
  BY DEF Sound
<1>1. PICK p, q : p = past[r.ip] /\ q = past'[r.ip]
  OBVIOUS
<1>2. /\ p \in Pasts /\ q \in Pasts /\ p.row <= q.row /\ p.last <= q.last
      /\ ~p.misread
  BY <1>1 DEF Grows
<1>3. /\ r.FailCount <= p.row
      /\ r.BlockedUntil # 0 => p.row >= MaxFailures /\ r.BlockedUntil <= p.last + BlockDur
  BY <1>1, <1>2 DEF Sound
<1>4. /\ p.row \in Nat /\ q.row \in Nat /\ p.last \in Nat /\ q.last \in Nat
      /\ r.FailCount \in Nat /\ r.BlockedUntil \in Nat
      /\ MaxFailures \in Nat /\ BlockDur \in Nat
  BY <1>2, BlockerAssumption DEF Pasts, Records
<1> QED
  BY <1>1, <1>2, <1>3, <1>4

(* A worker stays sound while the records it points to stay those of its   *)
(* IP.                                                                     *)
LEMMA WorkerStays ==
  ASSUME NEW v \in WorkerRecords, WorkerSound(v), Grows,
         v.rec # Nil => heap'[v.rec].ip = heap[v.rec].ip
  PROVE  WorkerSound(v)'
<1>1. Sound(v.data)'
  BY SoundMono, FieldTypes DEF WorkerSound
<1>2. ASSUME v.pc \in {"store", "judge"}, ~past'[v.ip].misread
      PROVE  /\ v.pc = "store" => v.count <= past'[v.ip].row
             /\ v.pc = "judge" => v.at <= past'[v.ip].last
  <2>1. PICK p, q : p = past[v.ip] /\ q = past'[v.ip]
    OBVIOUS
  <2>2. v.ip \in IPs
    BY <1>2 DEF WorkerSound
  <2>3. p \in Pasts /\ q \in Pasts /\ p.row <= q.row /\ p.last <= q.last /\ ~p.misread
    BY <1>2, <2>1, <2>2 DEF Grows
  <2>4. (v.pc = "store" => v.count <= p.row) /\ (v.pc = "judge" => v.at <= p.last)
    BY <2>1, <2>3 DEF WorkerSound
  <2>5. /\ p.row \in Nat /\ q.row \in Nat /\ p.last \in Nat /\ q.last \in Nat
        /\ v.count \in Nat /\ v.at \in Nat
    BY <2>3, FieldTypes DEF Pasts
  <2> QED
    BY <2>1, <2>3, <2>4, <2>5
<1> QED
  BY <1>1, <1>2 DEF WorkerSound

-----------------------------------------------------------------------------
(* Steps of a worker.                                                      *)

(* What the invariant says of one worker.                                  *)
LEMMA WorkerFacts ==
  ASSUME IInv, NEW w \in Workers
  PROVE  /\ worker[w] \in WorkerRecords /\ WorkerSound(worker[w])
         /\ worker[w].ip \in IPs \cup {Nil} /\ worker[w].rec \in Ptrs \cup {Nil}
         /\ worker[w].pc # "idle" => worker[w].ip \in IPs
         /\ worker[w].pc \in InHand => worker[w].rec \in Ptrs
         /\ worker[w].at \in Nat /\ worker[w].count \in Nat /\ worker[w].data \in Records
         /\ worker[w].op \in {"gate", "check", "record"}
<1>1. worker[w] \in WorkerRecords /\ WorkerSound(worker[w])
  BY DEF IInv, TypeOK, RecordsSound
<1>2. worker[w].op \in {"gate", "check", "record"}
  BY <1>1 DEF WorkerRecords
<1> QED
  BY <1>1, <1>2, FieldTypes DEF WorkerSound

(* What the invariant says of the shared state.                            *)
LEMMA SharedFacts ==
  ASSUME IInv
  PROVE  /\ past \in [IPs -> Pasts] /\ fails \in Nat /\ now \in Nat
         /\ disk \in [IPs -> Records] /\ heap \in [Ptrs -> Records]
         /\ \A p \in Ptrs : Referenced(p) => Sound(heap[p])
         /\ lru.item \in [IPs -> Ptrs \cup {Nil}] /\ DOMAIN lru.item = IPs
         /\ WellFormed(lru, IPs, LRUSize) /\ CacheSound /\ LRUSize \in Nat \ {0}
<1>1. lru.item \in [IPs -> Ptrs \cup {Nil}]
  BY DEF IInv, TypeOK
<1>2. DOMAIN lru.item = IPs
  BY <1>1
<1> QED
  BY <1>1, <1>2, BlockerAssumption
     DEF IInv, TypeOK, RecordsSound, HeapSound, CacheBounded

(* The record a worker points to is sound.                                 *)
LEMMA RecFacts ==
  ASSUME IInv, NEW w \in Workers, worker[w].rec # Nil
  PROVE  /\ worker[w].rec \in Ptrs /\ worker[w].ip \in IPs
         /\ heap[worker[w].rec] \in Records /\ Sound(heap[worker[w].rec])
         /\ heap[worker[w].rec].ip = worker[w].ip
<1>1. worker[w].rec \in Ptrs /\ heap[worker[w].rec].ip = worker[w].ip
  BY WorkerFacts DEF WorkerSound
<1>2. worker[w].pc # "idle"
  BY WorkerFacts DEF WorkerSound, InHand
<1> QED
  BY <1>1, <1>2, WorkerFacts, SharedFacts DEF Referenced

(* Allocation puts a record where nothing points, and keeps what something *)
(* points to.                                                              *)
LEMMA AllocateFacts ==
  ASSUME IInv, NEW p \in Ptrs, Fresh(p), NEW r \in Records, Allocate(p, r)
  PROVE  /\ heap' \in [Ptrs -> Records] /\ heap'[p] = r
         /\ \A q \in Ptrs : Referenced(q) => q # p /\ heap'[q] = heap[q]
<1>1. \A q \in Ptrs : heap[q] \in Records
  BY DEF IInv, TypeOK
<1>2. heap' = [q \in Ptrs |-> IF q = p THEN r
                              ELSE IF Referenced(q) THEN heap[q] ELSE NoRecord]
  BY DEF Allocate
<1>3. ~Referenced(p)
  BY DEF Fresh
<1> QED
  BY <1>1, <1>2, <1>3, NewRecordType

(* Steps that write the heap, the cache and the state of one worker, and   *)
(* keep the IP of every record that something points to.                   *)
LEMMA MemoryStep ==
  ASSUME IInv, NEW w \in Workers, NEW v \in WorkerRecords, Becomes(w, v), WorkerSound(v)',
         UNCHANGED <<now, disk, cleaner>>, Grows, fails' \in Nat,
         heap' \in [Ptrs -> Records],
         \A p \in Ptrs : Referenced(p)' => Sound(heap[p])',
         \A x \in Workers : worker[x].rec # Nil =>
           heap'[worker[x].rec].ip = heap[worker[x].rec].ip,
         CacheBounded', CacheSound', lru'.item \in [IPs -> Ptrs \cup {Nil}]
  PROVE  IInv'
<1> USE DEF IInv
<1>1. /\ disk \in [IPs -> Records]
      /\ \A x \in Workers : worker[x] \in WorkerRecords /\ WorkerSound(worker[x])
  BY DEF TypeOK, RecordsSound
<1>2. worker' \in [Workers -> WorkerRecords]
  BY DEF Becomes, TypeOK
<1>3. \A x \in Workers : worker'[x] = IF x = w THEN v ELSE worker[x]
  BY DEF Becomes, TypeOK
<1>4. lru'.order \in Seq(IPs)
  BY DEF CacheBounded, WellFormed
<1>5. TypeOK'
  BY <1>2, <1>4 DEF TypeOK, Grows
<1>6. \A x \in Workers : WorkerSound(worker[x])'
  <2>1. ASSUME NEW x \in Workers, x # w
        PROVE  WorkerSound(worker[x])'
    <3>0. PICK u : u = worker[x]
      OBVIOUS
    <3>1. u \in WorkerRecords /\ WorkerSound(u) /\ worker'[x] = u
          /\ (u.rec # Nil => heap'[u.rec].ip = heap[u.rec].ip)
      BY <1>1, <1>3, <2>1, <3>0
    <3>2. WorkerSound(u)'
      BY <3>1, WorkerStays
    <3> QED
      BY <3>1, <3>2 DEF WorkerSound, Sound
  <2>2. WorkerSound(worker[w])'
    BY <1>3 DEF WorkerSound, Sound
  <2> QED
    BY <2>1, <2>2
<1>7. DiskSound'
  <2>1. \A ip \in IPs : Sound(disk[ip])'
    <3>1. ASSUME NEW ip \in IPs
          PROVE  Sound(disk[ip])'
      <4>0. PICK r : r = disk[ip]
        OBVIOUS
      <4>1. r \in Records /\ Sound(r) /\ disk'[ip] = r
        BY <1>1, <4>0 DEF RecordsSound, DiskSound
      <4>2. Sound(r)'
        BY <4>1, SoundMono
      <4> QED
        BY <4>1, <4>2 DEF Sound
    <3> QED
      BY <3>1
  <2> QED
    BY <2>1 DEF DiskSound, RecordsSound
<1>8. HeapSound' /\ CleanerSound'
  BY DEF HeapSound, CleanerSound
<1> QED
  BY <1>5, <1>6, <1>7, <1>8 DEF RecordsSound

(* Steps that change one worker and nothing shared.                        *)
LEMMA PrivateStep ==
  ASSUME IInv, NEW w \in Workers, NEW v \in WorkerRecords, Becomes(w, v), WorkerSound(v),
         v.rec \in {Nil, worker[w].rec},
         UNCHANGED <<now, disk, lru, heap, cleaner>>, Grows, fails' \in Nat
  PROVE  IInv'
<1>1. WorkerSound(v)'
  BY WorkerStays
<1>2. \A x \in Workers : worker'[x] = IF x = w THEN v ELSE worker[x]
  BY DEF Becomes, IInv, TypeOK
<1>3. ASSUME NEW p \in Ptrs, Referenced(p)'
      PROVE  Sound(heap[p])'
  <2>1. p # Nil
    BY PtrsType
  <2>2. Referenced(p)
    BY <1>2, <1>3, <2>1 DEF Referenced
  <2>3. PICK r : r = heap[p]
    OBVIOUS
  <2>4. r \in Records /\ Sound(r) /\ heap'[p] = r
    BY <2>2, <2>3, SharedFacts
  <2>5. Sound(r)'
    BY <2>4, SoundMono
  <2> QED
    BY <2>4, <2>5 DEF Sound
<1>4. CacheBounded' /\ CacheSound' /\ lru'.item \in [IPs -> Ptrs \cup {Nil}]
      /\ heap' \in [Ptrs -> Records]
  BY SharedFacts DEF CacheBounded, CacheSound
<1> QED
  BY <1>1, <1>3, <1>4, MemoryStep

(* The steps of a worker of this kind.                                     *)
LEMMA PrivateSteps ==
  ASSUME IInv, NEW w \in Workers,
         \/ \E ip \in IPs : Connect(w, ip)
         \/ Password(w) \/ HangUp(w) \/ RefuseConnection(w) \/ AdmitConnection(w)
         \/ RefusePassword(w) \/ WrongPassword(w) \/ RightPassword(w) \/ RecordFailure(w)
         \/ LookupMiss(w) \/ View(w) \/ Load(w) \/ Marshal(w)
  PROVE  IInv'
<1> DEFINE v == worker[w]
<1>1. v \in WorkerRecords /\ WorkerSound(v) /\ now \in Nat /\ fails \in Nat
  BY DEF IInv, TypeOK, RecordsSound
<1>2. /\ v.pc \in WorkerStates /\ v.ip \in IPs \cup {Nil} /\ v.rec \in Ptrs \cup {Nil}
      /\ v.at \in Nat /\ v.count \in Nat /\ v.data \in Records /\ v.updates \in 0..2
  BY <1>1, FieldTypes
<1>3. past' = past => Grows
  BY SameFacts DEF IInv
<1>4. v = worker[w]
  OBVIOUS
<1> HIDE DEF v
<1>5. ASSUME NEW ip \in IPs, Connect(w, ip)
      PROVE  IInv'
  <2> DEFINE u == [v EXCEPT !.pc = "lookup", !.ip = ip]
  <2>1. Becomes(w, u) /\ v.pc = "idle"
    BY <1>4, <1>5 DEF Connect, At
  <2>2. u \in WorkerRecords
    BY <1>1, WorkerFields DEF WorkerStates
  <2>3. UNCHANGED <<now, disk, lru, heap, cleaner, fails>> /\ Grows
    BY <1>5, UnsureFacts DEF Connect, Begins, IInv
  <2>4. v.rec = Nil /\ v.data = NoRecord
    BY <1>1, <2>1 DEF WorkerSound, IdleWorker
  <2>5. u.pc = "lookup" /\ u.ip = ip /\ u.rec = Nil /\ u.data = NoRecord
    BY <1>1, <2>4 DEF WorkerRecords
  <2>6. WorkerSound(u)
    BY <2>4, <2>5, NoRecordSound DEF WorkerSound, InHand
  <2> QED
    BY <1>1, <2>1, <2>2, <2>3, <2>5, <2>6, PrivateStep
<1>6. CASE Password(w)
  <2> DEFINE u == [v EXCEPT !.pc = "lookup"]
  <2>1. Becomes(w, u) /\ v.pc = "password"
    BY <1>4, <1>6 DEF Password, At
  <2>2. u \in WorkerRecords
    BY <1>1, WorkerFields DEF WorkerStates
  <2>3. UNCHANGED <<now, disk, lru, heap, cleaner, fails>> /\ Grows
    BY <1>6, UnsureFacts DEF Password, Begins, IInv
  <2>4. WorkerSound(u) /\ u.rec = Nil
    BY <1>1, <1>2, <2>1 DEF WorkerSound, InHand
  <2> QED
    BY <1>1, <2>1, <2>2, <2>3, <2>4, PrivateStep
<1>7. CASE HangUp(w) \/ RefuseConnection(w)
  <2>1. Becomes(w, IdleWorker) /\ UNCHANGED <<now, disk, lru, heap, cleaner, past, fails>>
    BY <1>7 DEF HangUp, RefuseConnection, history
  <2>2. IdleWorker.rec = Nil
    BY DEF IdleWorker
  <2> QED
    BY <1>1, <1>3, <2>1, <2>2, IdleFacts, PrivateStep
<1>8. CASE AdmitConnection(w)
  <2> DEFINE u == [v EXCEPT !.pc = "password", !.op = "check", !.rec = Nil]
  <2>1. Becomes(w, u) /\ v.pc = "verdict"
    BY <1>4, <1>8 DEF AdmitConnection, At
  <2>2. u \in WorkerRecords
    BY <1>1, RecordFields DEF WorkerStates
  <2>3. UNCHANGED <<now, disk, lru, heap, cleaner, past, fails>>
    BY <1>8 DEF AdmitConnection, history
  <2>4. WorkerSound(u) /\ u.rec = Nil
    BY <1>1, <1>2, <2>1 DEF WorkerSound, InHand
  <2> QED
    BY <1>1, <1>3, <2>1, <2>2, <2>3, <2>4, PrivateStep
<1>9. CASE RefusePassword(w) \/ WrongPassword(w) \/ RightPassword(w)
  <2>1. PICK pc \in {"password", "failed", "delete"} :
          Becomes(w, [v EXCEPT !.pc = pc, !.rec = Nil]) /\ v.pc = "verdict"
    BY <1>4, <1>9 DEF RefusePassword, WrongPassword, RightPassword, At
  <2> DEFINE u == [v EXCEPT !.pc = pc, !.rec = Nil]
  <2>2. u \in WorkerRecords
    BY <1>1, RecordFields DEF WorkerStates
  <2>3. UNCHANGED <<now, disk, lru, heap, cleaner, past>> /\ fails' \in Nat
    BY <1>1, <1>9 DEF RefusePassword, WrongPassword, RightPassword, history
  <2>4. WorkerSound(u) /\ u.rec = Nil
    BY <1>1, <1>2, <2>1 DEF WorkerSound, InHand
  <2> QED
    BY <1>3, <2>1, <2>2, <2>3, <2>4, PrivateStep
<1>10. CASE RecordFailure(w)
  <2> DEFINE u == [v EXCEPT !.pc = "lookup", !.op = "record", !.at = now]
  <2>1. Becomes(w, u) /\ v.pc = "failed"
    BY <1>4, <1>10 DEF RecordFailure, At
  <2>2. u \in WorkerRecords
    BY <1>1, WorkerFields DEF WorkerStates
  <2>3. UNCHANGED <<now, disk, lru, heap, cleaner, past, fails>>
    BY <1>10 DEF RecordFailure, history
  <2>4. WorkerSound(u) /\ u.rec = Nil
    BY <1>1, <1>2, <2>1 DEF WorkerSound, InHand
  <2> QED
    BY <1>1, <1>3, <2>1, <2>2, <2>3, <2>4, PrivateStep
<1>11. CASE LookupMiss(w)
  <2> DEFINE u == [v EXCEPT !.pc = "view"]
  <2>1. Becomes(w, u) /\ v.pc = "lookup"
    BY <1>4, <1>11 DEF LookupMiss, At
  <2>2. u \in WorkerRecords
    BY <1>1, WorkerFields DEF WorkerStates
  <2>3. UNCHANGED <<now, disk, lru, heap, cleaner, past, fails>>
    BY <1>11 DEF LookupMiss, history
  <2>4. WorkerSound(u) /\ u.rec = Nil
    BY <1>1, <1>2, <2>1 DEF WorkerSound, InHand
  <2> QED
    BY <1>1, <1>3, <2>1, <2>2, <2>3, <2>4, PrivateStep
<1>12. CASE View(w)
  <2> DEFINE u == [v EXCEPT !.pc = "parse", !.data = disk[v.ip]]
  <2>1. Becomes(w, u) /\ v.pc = "view" /\ disk[v.ip] # NoRecord
    BY <1>4, <1>12 DEF View, At
  <2>2. v.ip \in IPs
    BY <1>1, <2>1 DEF WorkerSound
  <2>3. disk[v.ip] \in Records /\ Sound(disk[v.ip]) /\ disk[v.ip].ip = v.ip
    BY <2>1, <2>2 DEF IInv, TypeOK, RecordsSound, DiskSound
  <2>4. u \in WorkerRecords
    BY <1>1, <2>3, WorkerFields DEF WorkerStates
  <2>5. UNCHANGED <<now, disk, lru, heap, cleaner, past, fails>>
    BY <1>12 DEF View, history
  <2>6. WorkerSound(u) /\ u.rec = Nil
    BY <1>1, <1>2, <2>1, <2>3 DEF WorkerSound, InHand
  <2> QED
    BY <1>1, <1>3, <2>1, <2>4, <2>5, <2>6, PrivateStep
<1>13. CASE Load(w)
  <2> DEFINE u == [v EXCEPT !.pc = "store", !.count = heap[v.rec].FailCount]
  <2>1. Becomes(w, u) /\ v.pc = "load"
    BY <1>4, <1>13 DEF Load, At
  <2>2. v.rec # Nil
    BY <1>1, <2>1 DEF WorkerSound, InHand
  <2>3. /\ v.ip \in IPs /\ heap[v.rec].ip = v.ip /\ heap[v.rec] \in Records
        /\ Sound(heap[v.rec])
    BY <1>4, <2>2, RecFacts
  <2>4. /\ heap[v.rec].FailCount \in Nat
        /\ ~past[v.ip].misread => heap[v.rec].FailCount <= past[v.ip].row
    BY <2>3 DEF Sound, Records
  <2>5. u \in WorkerRecords
    BY <1>1, <2>4, WorkerFields DEF WorkerStates
  <2>6. UNCHANGED <<now, disk, lru, heap, cleaner, past, fails>>
    BY <1>13 DEF Load, history
  <2>7. WorkerSound(u) /\ u.rec = v.rec
    BY <1>1, <1>2, <2>1, <2>2, <2>3, <2>4 DEF WorkerSound, InHand
  <2> QED
    BY <1>1, <1>3, <1>4, <2>1, <2>5, <2>6, <2>7, PrivateStep
<1>14. CASE Marshal(w)
  <2> DEFINE u == [v EXCEPT !.pc = "commit", !.data = heap[v.rec]]
  <2>1. Becomes(w, u) /\ v.pc = "marshal"
    BY <1>4, <1>14 DEF Marshal, At
  <2>2. v.rec # Nil
    BY <1>1, <2>1 DEF WorkerSound, InHand
  <2>3. /\ v.ip \in IPs /\ heap[v.rec].ip = v.ip /\ heap[v.rec] \in Records
        /\ Sound(heap[v.rec])
    BY <1>4, <2>2, RecFacts
  <2>4. u \in WorkerRecords
    BY <1>1, <2>3, WorkerFields DEF WorkerStates
  <2>5. UNCHANGED <<now, disk, lru, heap, cleaner, past, fails>>
    BY <1>14 DEF Marshal, history
  <2>6. WorkerSound(u) /\ u.rec = v.rec
    BY <1>1, <1>2, <2>1, <2>2, <2>3 DEF WorkerSound, InHand
  <2> QED
    BY <1>1, <1>3, <1>4, <2>1, <2>4, <2>5, <2>6, PrivateStep
<1> QED
  BY <1>5, <1>6, <1>7, <1>8, <1>9, <1>10, <1>11, <1>12, <1>13, <1>14

(* What put and remove do to the pointers in the cache.                    *)
LEMMA PutItems ==
  ASSUME IInv, NEW i \in IPs, NEW p \in Ptrs, lru' = CachePut(lru, i, p, LRUSize)
  PROVE  /\ DOMAIN lru'.item = IPs /\ lru'.item[i] \in {Nil, p}
         /\ \A j \in IPs \ {i} : lru'.item[j] \in {Nil, lru.item[j]}
<1>1. DOMAIN lru.item = IPs
  BY SharedFacts
<1>2. PICK c : c = CachePut(lru, i, p, LRUSize)
  OBVIOUS
<1>3. /\ DOMAIN c.item = IPs /\ c.item[i] \in {Nil, p}
      /\ \A j \in IPs \ {i} : c.item[j] \in {Nil, lru.item[j]}
  BY <1>1, <1>2, ItemFacts
<1> QED
  BY <1>2, <1>3

LEMMA RemoveItems ==
  ASSUME IInv, NEW i \in IPs, lru' = CacheRemove(lru, i)
  PROVE  lru'.item[i] = Nil /\ \A j \in IPs : lru'.item[j] \in {Nil, lru.item[j]}
<1>1. DOMAIN lru.item = IPs
  BY SharedFacts
<1>2. PICK c : c = CacheRemove(lru, i)
  OBVIOUS
<1>3. \A j \in IPs : c.item[j] \in {Nil, lru.item[j]}
  BY <1>1, <1>2, ItemFacts
<1>4. c.item[i] = Nil
  BY <1>1, <1>2, RemovedItem
<1> QED
  BY <1>2, <1>3, <1>4

(* A step that allocates p for a worker, perhaps caches it, and forgets no *)
(* pointer but by eviction.                                                *)
LEMMA AllocateStep ==
  ASSUME IInv, NEW w \in Workers, NEW v \in WorkerRecords, Becomes(w, v), WorkerSound(v)',
         NEW p \in Ptrs, Fresh(p), NEW r \in Records, Allocate(p, r), Sound(r)',
         r.ip = v.ip, v.ip \in IPs, v.rec = p,
         UNCHANGED <<now, disk, cleaner, fails>>, Grows, CacheBounded',
         lru'.item \in [IPs -> Ptrs \cup {Nil}], lru'.item[v.ip] \in {Nil, p, lru.item[v.ip]},
         \A j \in IPs \ {v.ip} : lru'.item[j] \in {Nil, lru.item[j]}
  PROVE  IInv'
<1>1. /\ heap' \in [Ptrs -> Records] /\ heap'[p] = r
      /\ \A q \in Ptrs : Referenced(q) => q # p /\ heap'[q] = heap[q]
  BY AllocateFacts
<1>2. \A x \in Workers : worker'[x] = IF x = w THEN v ELSE worker[x]
  BY DEF Becomes, IInv, TypeOK
<1>3. ASSUME NEW q \in Ptrs, Referenced(q)'
      PROVE  Sound(heap[q])'
  <2>1. q # Nil
    BY PtrsType
  <2>2. CASE q = p
    BY <1>1, <2>2 DEF Sound
  <2>3. CASE q # p
    <3>1. Referenced(q)
      BY <1>2, <1>3, <2>1, <2>3 DEF Referenced
    <3>2. PICK s : s = heap[q]
      OBVIOUS
    <3>3. s \in Records /\ Sound(s) /\ heap'[q] = s
      BY <1>1, <3>1, <3>2, SharedFacts
    <3>4. Sound(s)'
      BY <3>3, SoundMono
    <3> QED
      BY <3>3, <3>4 DEF Sound
  <2> QED
    BY <2>2, <2>3
<1>4. \A x \in Workers : worker[x].rec # Nil =>
        heap'[worker[x].rec].ip = heap[worker[x].rec].ip
  BY <1>1, WorkerFacts DEF Referenced
<1>5. CacheSound'
  <2>1. ASSUME NEW j \in IPs, lru'.item[j] # Nil
        PROVE  heap'[lru'.item[j]].ip = j
    <3>1. CASE j = v.ip /\ lru'.item[j] = p
      BY <1>1, <3>1
    <3>2. CASE lru'.item[j] = lru.item[j]
      <4>1. lru.item[j] \in Ptrs /\ heap[lru.item[j]].ip = j /\ Referenced(lru.item[j])
        BY <2>1, <3>2, SharedFacts DEF CacheSound, Referenced
      <4> QED
        BY <1>1, <3>2, <4>1
    <3> QED
      BY <2>1, <3>1, <3>2
  <2> QED
    BY <2>1 DEF CacheSound
<1>6. fails' \in Nat
  BY SharedFacts
<1> QED
  BY <1>1, <1>3, <1>4, <1>5, <1>6, MemoryStep

(* getRecord comes back with nothing.                                      *)
LEMMA WithoutRecordStep ==
  ASSUME IInv, NEW w \in Workers, ViewNothing(w) \/ Garbled(w)
  PROVE  IInv'
<1>0. PICK v : v = worker[w]
  OBVIOUS
<1>1. /\ v \in WorkerRecords /\ WorkerSound(v) /\ v.ip \in IPs
      /\ v.pc \in {"view", "parse"} /\ v.rec = Nil
  BY <1>0, WorkerFacts DEF ViewNothing, Garbled, At, InHand, WorkerSound
<1>2. PICK u : u = [v EXCEPT !.data = NoRecord, !.updates = 0]
  OBVIOUS
<1>3. u \in WorkerRecords
  BY <1>1, <1>2, RecordFields, FieldTypes, NewRecordType
<1>4. u.ip = v.ip /\ u.rec = v.rec /\ u.pc = v.pc /\ u.data = NoRecord /\ u.op = v.op
  BY <1>1, <1>2, <1>3 DEF WorkerRecords
<1>5. UNCHANGED <<now, disk, lru, cleaner, fails>> /\ Grows /\ WithoutRecord(w)
  BY UnsureFacts, SameFacts DEF ViewNothing, Garbled, history, IInv
<1>6. CASE u.op = "record"
  <2>1. PICK p \in Ptrs : /\ Fresh(p) /\ Allocate(p, NewRecord(u.ip))
                          /\ Becomes(w, [u EXCEPT !.pc = "load", !.rec = p])
    BY <1>0, <1>2, <1>5, <1>6 DEF WithoutRecord
  <2>2. PICK x : x = [u EXCEPT !.pc = "load", !.rec = p]
    OBVIOUS
  <2>3. x \in WorkerRecords
    BY <1>3, <2>2, RecordFields DEF WorkerStates
  <2>4. x.pc = "load" /\ x.ip = v.ip /\ x.rec = p /\ x.data = NoRecord
    BY <1>3, <1>4, <2>2 DEF WorkerRecords
  <2>5. PICK r : r = NewRecord(u.ip)
    OBVIOUS
  <2>6. r \in Records /\ r.ip = v.ip /\ r.FailCount = 0 /\ r.BlockedUntil = 0
    BY <1>1, <1>4, <2>5, NewRecordType
  <2>7. Sound(r)'
    <3>1. past'[v.ip].row \in Nat
      BY <1>1, <1>5 DEF Grows, Pasts
    <3> QED
      BY <2>6, <3>1 DEF Sound
  <2>8. heap'[p] = r
    BY <2>1, <2>5, <2>6, AllocateFacts
  <2>9. WorkerSound(x)'
    BY <1>1, <2>4, <2>6, <2>8, NoRecordSound, PtrsType DEF WorkerSound, InHand
  <2>10. CacheBounded' /\ lru'.item \in [IPs -> Ptrs \cup {Nil}]
    BY <1>5, SharedFacts DEF CacheBounded
  <2> QED
    BY <1>1, <1>5, <2>1, <2>2, <2>3, <2>4, <2>5, <2>6, <2>7, <2>9, <2>10, AllocateStep
<1>7. CASE u.op # "record"
  <2>1. PICK x : x = [u EXCEPT !.pc = "verdict"]
    OBVIOUS
  <2>2. Becomes(w, x) /\ UNCHANGED heap
    BY <1>0, <1>2, <1>5, <1>7, <2>1 DEF WithoutRecord
  <2>3. x \in WorkerRecords
    BY <1>3, <2>1, WorkerFields DEF WorkerStates
  <2>4. x.pc = "verdict" /\ x.ip = v.ip /\ x.rec = v.rec /\ x.data = NoRecord
    BY <1>3, <1>4, <2>1 DEF WorkerRecords
  <2>5. WorkerSound(x)
    BY <1>1, <2>4, NoRecordSound DEF WorkerSound, InHand
  <2> QED
    BY <1>1, <1>5, <2>2, <2>3, <2>4, <2>5, SharedFacts, PrivateStep
<1> QED
  BY <1>6, <1>7

(* A record read back from the database goes into the cache.               *)
LEMMA BackfillStep ==
  ASSUME IInv, NEW w \in Workers, Backfill(w)
  PROVE  IInv'
<1>0. PICK v : v = worker[w]
  OBVIOUS
<1>1. /\ v \in WorkerRecords /\ WorkerSound(v) /\ v.ip \in IPs /\ v.pc = "parse"
      /\ v.data \in Records /\ v.op \in {"gate", "check", "record"}
  BY <1>0, WorkerFacts DEF Backfill, At
<1>2. PICK r \in Bytes(w) \ {NoRecord}, p \in Ptrs :
        /\ Fresh(p) /\ Allocate(p, r) /\ lru' = CachePut(lru, v.ip, p, LRUSize)
        /\ Becomes(w, [v EXCEPT !.pc = Continue(v.op), !.rec = p,
                                !.data = NoRecord, !.updates = 0])
        /\ past' = IF r = v.data THEN past
                   ELSE [past EXCEPT ![v.ip] = [@ EXCEPT !.misread = TRUE, !.sure = 0]]
  BY <1>0 DEF Backfill
<1>3. UNCHANGED <<now, disk, cleaner, fails>>
  BY DEF Backfill
<1>4. r \in Records /\ r.ip = v.ip /\ Grows /\ Sound(r)'
  <2>1. CASE r = v.data
    <3>1. Grows
      BY <1>2, <2>1, SameFacts DEF IInv
    <3>2. r \in Records /\ r.ip = v.ip /\ Sound(r)
      BY <1>1, <2>1 DEF WorkerSound
    <3> QED
      BY <3>1, <3>2, SoundMono
  <2>2. CASE r # v.data
    <3>1. PageReuse /\ \E j \in IPs : /\ disk[j] # NoRecord
                                    /\ r = [disk[j] EXCEPT !.ip = v.ip]
      BY <1>0, <1>2, <2>2 DEF Bytes
    <3>2. PICK j \in IPs : disk[j] # NoRecord /\ r = [disk[j] EXCEPT !.ip = v.ip]
      BY <3>1
    <3>3. disk[j] \in Records
      BY SharedFacts
    <3>4. r \in Records /\ r.ip = v.ip
      BY <1>1, <3>2, <3>3 DEF Records
    <3>5. PICK h : h = past[v.ip]
      OBVIOUS
    <3>6. past' = [past EXCEPT ![v.ip] = [h EXCEPT !.misread = TRUE, !.sure = 0]]
      BY <1>2, <2>2, <3>5
    <3>7. past \in [IPs -> Pasts] /\ h \in Pasts
      BY <1>1, <3>5, SharedFacts
    <3>8. PICK n : n = [h EXCEPT !.misread = TRUE, !.sure = 0]
      OBVIOUS
    <3>9. n \in Pasts /\ n.row = h.row /\ n.last = h.last /\ n.misread
      BY <3>7, <3>8 DEF Pasts
    <3>10. past' \in [IPs -> Pasts] /\ past'[v.ip] = n
           /\ \A i \in IPs \ {v.ip} : past'[i] = past[i]
      BY <1>1, <3>6, <3>7, <3>8, <3>9
    <3>11. ASSUME NEW i \in IPs
           PROVE  /\ past[i].row <= past'[i].row /\ past[i].last <= past'[i].last
                  /\ past[i].misread => past'[i].misread
      <4>1. past[i].row \in Nat /\ past[i].last \in Nat
        BY <3>7 DEF Pasts
      <4> QED
        BY <3>5, <3>9, <3>10, <4>1
    <3>12. Grows
      BY <3>7, <3>10, <3>11 DEF Grows
    <3>13. Sound(r)'
      BY <3>4, <3>9, <3>10 DEF Sound
    <3> QED
      BY <3>4, <3>12, <3>13
  <2> QED
    BY <2>1, <2>2
<1>5. PICK x : x = [v EXCEPT !.pc = Continue(v.op), !.rec = p,
                             !.data = NoRecord, !.updates = 0]
  OBVIOUS
<1>6. Continue(v.op) \in WorkerStates /\ Continue(v.op) \in {"load", "verdict"}
  BY DEF Continue, WorkerStates
<1>7. x \in WorkerRecords
  BY <1>1, <1>5, <1>6, RecordFields, NewRecordType
<1>8. x.pc \in {"load", "verdict"} /\ x.ip = v.ip /\ x.rec = p /\ x.data = NoRecord
  BY <1>1, <1>5, <1>6 DEF WorkerRecords
<1>9. heap'[p] = r
  BY <1>2, <1>4, AllocateFacts
<1>10. WorkerSound(x)'
  BY <1>1, <1>4, <1>8, <1>9, NoRecordSound, PtrsType DEF WorkerSound, InHand
<1>11. CacheBounded'
  BY <1>1, <1>2, SharedFacts, PtrsType, PutWellFormed DEF CacheBounded
<1>12. /\ DOMAIN lru'.item = IPs /\ lru'.item[v.ip] \in {Nil, p}
       /\ \A y \in IPs \ {v.ip} : lru'.item[y] \in {Nil, lru.item[y]}
  BY <1>1, <1>2, PutItems
<1>13. lru'.item \in [IPs -> Ptrs \cup {Nil}]
  BY <1>1, <1>2, SharedFacts, PutType
<1> QED
  BY <1>1, <1>2, <1>3, <1>4, <1>5, <1>7, <1>8, <1>10, <1>11, <1>12, <1>13, AllocateStep

(* lru.get and lru.put by a worker.                                        *)
LEMMA CacheSteps ==
  ASSUME IInv, NEW w \in Workers, LookupHit(w) \/ Cache(w)
  PROVE  IInv'
<1>0. PICK v : v = worker[w]
  OBVIOUS
<1>1. /\ v \in WorkerRecords /\ WorkerSound(v)
      /\ v.pc # "idle" => v.ip \in IPs
      /\ v.op \in {"gate", "check", "record"}
  BY <1>0, WorkerFacts
<1>2. UNCHANGED <<now, disk, heap, cleaner, past, fails>>
  BY DEF LookupHit, Cache, history
<1>3. Grows /\ fails' \in Nat /\ heap' \in [Ptrs -> Records]
      /\ \A x \in Workers : worker[x].rec # Nil =>
           heap'[worker[x].rec].ip = heap[worker[x].rec].ip
  BY <1>2, SameFacts, SharedFacts DEF IInv
<1>4. CASE LookupHit(w)
  <2>1. PICK u : u = [v EXCEPT !.pc = Continue(v.op), !.rec = lru.item[v.ip]]
    OBVIOUS
  <2>2. /\ v.pc = "lookup" /\ lru.item[v.ip] # Nil /\ lru' = CacheGet(lru, v.ip)
        /\ Becomes(w, u)
    BY <1>0, <1>4, <2>1 DEF LookupHit, At
  <2>3. v.ip \in IPs /\ Continue(v.op) \in WorkerStates
        /\ Continue(v.op) \in {"load", "verdict"}
    BY <1>1, <2>2 DEF Continue, WorkerStates
  <2>4. lru.item[v.ip] \in Ptrs /\ heap[lru.item[v.ip]].ip = v.ip
    BY <2>2, <2>3, SharedFacts DEF CacheSound
  <2>5. u \in WorkerRecords
    BY <1>1, <2>1, <2>3, <2>4, RecordFields
  <2>6. u.pc \in {"load", "verdict"} /\ u.ip = v.ip /\ u.rec = lru.item[v.ip]
        /\ u.data = v.data
    BY <1>1, <2>1, <2>3 DEF WorkerRecords
  <2>7. WorkerSound(u)
    BY <1>1, <2>2, <2>3, <2>4, <2>6 DEF WorkerSound, InHand
  <2>8. WorkerSound(u)'
    BY <1>2, <1>3, <2>5, <2>7, WorkerStays
  <2>9. lru'.item = lru.item
    BY <2>2 DEF CacheGet
  <2>10. CacheBounded' /\ CacheSound' /\ lru'.item \in [IPs -> Ptrs \cup {Nil}]
    <3>1. CacheBounded'
      BY <2>2, <2>3, SharedFacts, GetWellFormed DEF CacheBounded
    <3> QED
      BY <1>2, <2>9, <3>1, SharedFacts DEF CacheSound
  <2>11. ASSUME NEW p \in Ptrs, Referenced(p)'
         PROVE  Sound(heap[p])'
    <3>1. \A x \in Workers : worker'[x] = IF x = w THEN u ELSE worker[x]
      BY <2>2 DEF Becomes, IInv, TypeOK
    <3>2. Referenced(p)
      BY <2>3, <2>6, <2>9, <2>11, <3>1 DEF Referenced
    <3> QED
      BY <1>2, <3>2, SharedFacts DEF Sound
  <2> QED
    BY <1>2, <1>3, <2>2, <2>5, <2>8, <2>10, <2>11, MemoryStep
<1>5. CASE Cache(w)
  <2>1. PICK u : u = [v EXCEPT !.pc = "password", !.op = "check", !.rec = Nil]
    OBVIOUS
  <2>2. v.pc = "cache" /\ lru' = CachePut(lru, v.ip, v.rec, LRUSize) /\ Becomes(w, u)
    BY <1>0, <1>5, <2>1 DEF Cache, At
  <2>3. v.rec # Nil
    BY <1>1, <2>2 DEF WorkerSound, InHand
  <2>4. v.ip \in IPs /\ v.rec \in Ptrs /\ heap[v.rec].ip = v.ip
    BY <1>0, <2>3, RecFacts
  <2>5. u \in WorkerRecords
    BY <1>1, <2>1, RecordFields DEF WorkerStates
  <2>6. u.pc = "password" /\ u.ip = v.ip /\ u.rec = Nil /\ u.data = v.data
    BY <1>1, <2>1 DEF WorkerRecords
  <2>7. WorkerSound(u)
    BY <1>1, <2>2, <2>4, <2>6 DEF WorkerSound, InHand
  <2>8. WorkerSound(u)'
    BY <1>2, <1>3, <2>5, <2>7, WorkerStays
  <2>9. /\ lru'.item[v.ip] \in {Nil, v.rec}
        /\ \A ip \in IPs \ {v.ip} : lru'.item[ip] \in {Nil, lru.item[ip]}
    BY <2>2, <2>4, PutItems
  <2>10. CacheBounded'
    BY <2>2, <2>3, <2>4, SharedFacts, PutWellFormed DEF CacheBounded
  <2>11. lru'.item \in [IPs -> Ptrs \cup {Nil}]
    BY <2>2, <2>4, SharedFacts, PutType
  <2>12. CacheSound'
    BY <1>2, <2>4, <2>9, SharedFacts DEF CacheSound
  <2>13. ASSUME NEW p \in Ptrs, Referenced(p)'
         PROVE  Sound(heap[p])'
    <3>1. \A x \in Workers : worker'[x] = IF x = w THEN u ELSE worker[x]
      BY <2>2 DEF Becomes, IInv, TypeOK
    <3>2. p # Nil
      BY PtrsType
    <3>3. Referenced(p)
      BY <1>0, <2>6, <2>9, <2>13, <3>1, <3>2 DEF Referenced
    <3> QED
      BY <1>2, <3>3, SharedFacts DEF Sound
  <2> QED
    BY <1>2, <1>3, <2>2, <2>5, <2>8, <2>10, <2>11, <2>12, <2>13, MemoryStep
<1> QED
  BY <1>4, <1>5

(* lru.remove by a worker.  If the login is clear, nothing is left of the  *)
(* record that the history forgets.                                        *)
LEMMA RemoveStep ==
  ASSUME IInv, NEW w \in Workers, Remove(w)
  PROVE  IInv'
<1>0. PICK i : i = worker[w].ip
  OBVIOUS
<1>1. i \in IPs /\ worker[w].pc = "remove"
  BY <1>0, WorkerFacts DEF Remove, At
<1>2. /\ lru' = CacheRemove(lru, i) /\ Becomes(w, IdleWorker)
      /\ past' = IF Cleared(w, i) THEN [past EXCEPT ![i] = NoPast] ELSE past
      /\ UNCHANGED <<now, disk, heap, cleaner, fails>>
  BY <1>0 DEF Remove
<1>3. \A x \in Workers : worker'[x] = IF x = w THEN IdleWorker ELSE worker[x]
  BY <1>2 DEF Becomes, IInv, TypeOK
<1>4. /\ CacheBounded' /\ lru'.item \in [IPs -> Ptrs \cup {Nil}]
      /\ lru'.item[i] = Nil /\ \A j \in IPs : lru'.item[j] \in {Nil, lru.item[j]}
  <2>1. CacheBounded'
    BY <1>1, <1>2, SharedFacts, RemoveWellFormed DEF CacheBounded
  <2>2. lru'.item \in [IPs -> Ptrs \cup {Nil}]
    BY <1>1, <1>2, SharedFacts, RemoveType
  <2> QED
    BY <1>1, <1>2, <2>1, <2>2, RemoveItems
<1>5. \A p \in Ptrs : Referenced(p)' => Referenced(p)
  <2>1. IdleWorker.rec = Nil
    BY DEF IdleWorker
  <2>2. \A p \in Ptrs : p # Nil
    BY PtrsType
  <2> QED
    BY <1>3, <1>4, <2>1, <2>2 DEF Referenced
<1>6. CacheSound'
  BY <1>2, <1>4, SharedFacts DEF CacheSound
<1>7. CASE ~Cleared(w, i)
  <2>1. past' = past
    BY <1>2, <1>7
  <2>2. Grows
    BY <2>1, SameFacts DEF IInv
  <2>3. \A p \in Ptrs : Referenced(p)' => Sound(heap[p])'
    BY <1>2, <1>5, <2>1, SharedFacts DEF Sound
  <2> QED
    BY <1>2, <1>4, <1>6, <2>2, <2>3, IdleFacts, SharedFacts, MemoryStep
<1>8. CASE Cleared(w, i)
  <2>1. /\ disk[i] = NoRecord
        /\ \A x \in Workers \ {w} :
             worker[x].ip = i => worker[x].rec = Nil /\ worker[x].pc # "parse"
    BY <1>8 DEF Cleared
  <2>2. NoPast \in Pasts
    BY DEF NoPast, Pasts
  <2>3. past' \in [IPs -> Pasts] /\ \A j \in IPs \ {i} : past'[j] = past[j]
    BY <1>1, <1>2, <1>8, <2>2, SharedFacts
  <2>4. \A r \in Records : r.ip # i /\ Sound(r) => Sound(r)'
    BY <2>3 DEF Sound
  <2>5. TypeOK'
    <3>1. worker' \in [Workers -> WorkerRecords]
      BY <1>3, IdleFacts DEF IInv, TypeOK, Becomes, Remove
    <3>2. lru'.order \in Seq(IPs)
      BY <1>4 DEF CacheBounded, WellFormed
    <3> QED
      BY <1>2, <1>4, <2>3, <3>1, <3>2 DEF IInv, TypeOK
  <2>6. DiskSound'
    <3>1. ASSUME NEW j \in IPs
          PROVE  (disk[j] = NoRecord \/ disk[j].ip = j) /\ Sound(disk[j])'
      <4>1. (disk[j] = NoRecord \/ disk[j].ip = j) /\ Sound(disk[j]) /\ disk[j] \in Records
        BY SharedFacts DEF IInv, RecordsSound, DiskSound
      <4>2. CASE disk[j] = NoRecord
        BY <1>2, <4>2, NoRecordSound DEF Sound
      <4>3. CASE disk[j] # NoRecord
        <5>1. disk[j].ip = j /\ j # i
          BY <2>1, <4>1, <4>3
        <5>2. PICK r : r = disk[j]
          OBVIOUS
        <5>3. Sound(r)'
          BY <2>4, <4>1, <5>1, <5>2
        <5> QED
          BY <1>2, <4>1, <5>2, <5>3 DEF Sound
      <4> QED
        BY <4>1, <4>2, <4>3
    <3> QED
      BY <1>2, <3>1 DEF DiskSound
  <2>7. HeapSound'
    <3>1. ASSUME NEW p \in Ptrs, Referenced(p)'
          PROVE  Sound(heap[p])'
      <4>1. heap[p].ip # i
        <5>1. CASE \E j \in IPs : lru'.item[j] = p
          <6>1. PICK j \in IPs : lru'.item[j] = p
            BY <5>1
          <6>2. j # i /\ lru.item[j] = p /\ p # Nil
            BY <1>4, <6>1, PtrsType
          <6> QED
            BY <6>2, SharedFacts DEF CacheSound
        <5>2. CASE \E x \in Workers : worker'[x].rec = p
          <6>1. PICK x \in Workers : worker'[x].rec = p
            BY <5>2
          <6>2. x # w /\ worker[x].rec = p /\ p # Nil
            BY <1>3, <6>1, PtrsType DEF IdleWorker
          <6>3. worker[x].ip # i
            BY <2>1, <6>2
          <6> QED
            BY <6>2, <6>3, RecFacts
        <5> QED
          BY <3>1, <5>1, <5>2 DEF Referenced
      <4>2. PICK r : r = heap[p]
        OBVIOUS
      <4>3. r \in Records /\ Sound(r)
        BY <1>5, <3>1, <4>2, SharedFacts
      <4>4. Sound(r)'
        BY <2>4, <4>1, <4>2, <4>3
      <4> QED
        BY <1>2, <4>2, <4>4 DEF Sound
    <3> QED
      BY <3>1 DEF HeapSound
  <2>8. ASSUME NEW x \in Workers
        PROVE  WorkerSound(worker[x])'
    <3>1. CASE x = w
      BY <1>3, <3>1, IdleFacts DEF WorkerSound, Sound
    <3>2. CASE x # w
      <4>1. PICK v : v = worker[x]
        OBVIOUS
      <4>2. /\ v \in WorkerRecords /\ WorkerSound(v) /\ v.data \in Records
            /\ v.pc # "idle" => v.ip \in IPs
        BY <4>1, WorkerFacts
      <4>3. v.ip = i => v.rec = Nil /\ v.pc # "parse"
        BY <2>1, <3>2, <4>1
      <4>4. v.ip = i => v.data = NoRecord /\ v.pc \notin {"store", "judge"}
        BY <4>2, <4>3 DEF WorkerSound, InHand
      <4>5. Sound(v.data)'
        <5>1. CASE v.data = NoRecord
          BY <5>1, NoRecordSound
        <5>2. CASE v.data # NoRecord
          <6>1. v.pc \in {"parse", "commit"} /\ v.data.ip = v.ip /\ v.ip # i
            BY <4>2, <4>4, <5>2 DEF WorkerSound
          <6> QED
            BY <2>4, <4>2, <6>1 DEF WorkerSound
        <5> QED
          BY <5>1, <5>2
      <4>6. v.pc \in {"store", "judge"} => past'[v.ip] = past[v.ip]
        BY <2>3, <4>2, <4>4
      <4>7. WorkerSound(v)'
        BY <1>2, <4>2, <4>5, <4>6 DEF WorkerSound
      <4>8. worker'[x] = v
        BY <1>3, <3>2, <4>1
      <4> QED
        BY <4>7, <4>8 DEF WorkerSound, Sound
    <3> QED
      BY <3>1, <3>2
  <2>9. CleanerSound'
    BY <1>2 DEF IInv, CleanerSound
  <2> QED
    BY <1>4, <1>6, <2>5, <2>6, <2>7, <2>8, <2>9 DEF IInv, RecordsSound
<1> QED
  BY <1>7, <1>8

(* Steps that overwrite the record of one worker.                          *)
LEMMA RecordStep ==
  ASSUME IInv, NEW w \in Workers, NEW v \in WorkerRecords, Becomes(w, v), WorkerSound(v)',
         v.rec = worker[w].rec, v.rec # Nil,
         UNCHANGED <<now, disk, lru, cleaner, fails>>, Grows,
         NEW r \in Records, heap' = [heap EXCEPT ![v.rec] = r],
         r.ip = heap[v.rec].ip, Sound(r)'
  PROVE  IInv'
<1>1. /\ heap' \in [Ptrs -> Records]
      /\ \A q \in Ptrs : heap'[q] = IF q = v.rec THEN r ELSE heap[q]
  BY SharedFacts
<1>2. \A x \in Workers : worker'[x] = IF x = w THEN v ELSE worker[x]
  BY DEF Becomes, IInv, TypeOK
<1>3. ASSUME NEW q \in Ptrs, Referenced(q)'
      PROVE  Sound(heap[q])'
  <2>1. CASE q = v.rec
    BY <1>1, <2>1 DEF Sound
  <2>2. CASE q # v.rec
    <3>1. Referenced(q)
      BY <1>2, <1>3, <2>2 DEF Referenced
    <3>2. PICK s : s = heap[q]
      OBVIOUS
    <3>3. s \in Records /\ Sound(s) /\ heap'[q] = s
      BY <1>1, <2>2, <3>1, <3>2, SharedFacts
    <3>4. Sound(s)'
      BY <3>3, SoundMono
    <3> QED
      BY <3>3, <3>4 DEF Sound
  <2> QED
    BY <2>1, <2>2
<1>4. \A q \in Ptrs : heap'[q].ip = heap[q].ip
  BY <1>1
<1>5. \A x \in Workers : worker[x].rec # Nil =>
        heap'[worker[x].rec].ip = heap[worker[x].rec].ip
  BY <1>4, WorkerFacts
<1>6. CacheSound' /\ CacheBounded' /\ lru'.item \in [IPs -> Ptrs \cup {Nil}]
      /\ fails' \in Nat
  BY <1>4, SharedFacts DEF CacheSound, CacheBounded
<1> QED
  BY <1>1, <1>3, <1>5, <1>6, MemoryStep

(* What Recorded does to the history of the IP.                            *)
LEMMA RecordedFacts ==
  ASSUME IInv, NEW w \in Workers, Recorded(w), NEW i \in IPs, i = worker[w].ip
  PROVE  /\ Grows /\ \A j \in IPs \ {i} : past'[j] = past[j]
         /\ past'[i].row = past[i].row + 1 /\ past[i].row \in Nat
         /\ worker[w].at <= past'[i].last
         /\ past'[i].misread = past[i].misread
         /\ past'[i].sure > 0 =>
              /\ ~Contended(w, i) /\ past'[i].last = worker[w].at
              /\ past'[i].sure = past[i].sure + 1
<1>1. PICK p, t : p = past[i] /\ t = worker[w].at
  OBVIOUS
<1>2. p \in Pasts /\ t \in Nat /\ past \in [IPs -> Pasts]
  BY <1>1, SharedFacts, WorkerFacts
<1>3. p.row \in Nat /\ p.last \in Nat /\ p.sure \in Nat
  BY <1>2 DEF Pasts
<1>4. PICK n, l, s : /\ n = p.row + 1
                     /\ l = IF t > p.last THEN t ELSE p.last
                     /\ s = IF Contended(w, i) \/ t < p.last THEN 0 ELSE p.sure + 1
  OBVIOUS
<1>5. n \in Nat /\ l \in Nat /\ s \in Nat /\ p.last <= l /\ t <= l
      /\ (s > 0 => ~Contended(w, i) /\ l = t /\ s = p.sure + 1)
  BY <1>2, <1>3, <1>4
<1>6. PICK q : q = [p EXCEPT !.row = n, !.last = l, !.sure = s]
  OBVIOUS
<1>7. q \in Pasts /\ q.row = n /\ q.last = l /\ q.sure = s /\ q.misread = p.misread
  BY <1>2, <1>5, <1>6 DEF Pasts
<1>8. past' = [past EXCEPT ![i] = q]
  BY <1>1, <1>4, <1>6 DEF Recorded
<1>9. past' \in [IPs -> Pasts] /\ past'[i] = q /\ \A j \in IPs \ {i} : past'[j] = past[j]
  BY <1>2, <1>7, <1>8
<1>10. ASSUME NEW j \in IPs
       PROVE  /\ past[j].row <= past'[j].row /\ past[j].last <= past'[j].last
              /\ past[j].misread => past'[j].misread
  <2>1. past[j].row \in Nat /\ past[j].last \in Nat
    BY <1>2 DEF Pasts
  <2> QED
    BY <1>1, <1>3, <1>4, <1>5, <1>7, <1>9, <2>1
<1>11. Grows
  BY <1>2, <1>9, <1>10 DEF Grows
<1> QED
  BY <1>1, <1>3, <1>4, <1>5, <1>7, <1>9, <1>11

(* The failure is counted in the record.                                   *)
LEMMA StoreStep ==
  ASSUME IInv, NEW w \in Workers, Store(w)
  PROVE  IInv'
<1>0. PICK v : v = worker[w]
  OBVIOUS
<1>1. /\ v \in WorkerRecords /\ WorkerSound(v) /\ v.pc = "store" /\ v.rec # Nil
      /\ v.at \in Nat /\ v.count \in Nat
  BY <1>0, WorkerFacts DEF Store, At, InHand, WorkerSound
<1>2. /\ v.rec \in Ptrs /\ v.ip \in IPs /\ heap[v.rec].ip = v.ip
      /\ heap[v.rec] \in Records /\ Sound(heap[v.rec])
  BY <1>0, <1>1, RecFacts
<1>3. PICK r : r = [heap[v.rec] EXCEPT !.FailCount = v.count + 1, !.LastFailAt = v.at]
  OBVIOUS
<1>4. r \in Records /\ r.ip = v.ip /\ r.FailCount = v.count + 1
      /\ r.BlockedUntil = heap[v.rec].BlockedUntil
  <2>1. PICK x, n, t : x = heap[v.rec] /\ n = v.count + 1 /\ t = v.at
    OBVIOUS
  <2>2. x \in Records /\ n \in Nat /\ t \in Nat
    BY <1>1, <1>2, <2>1
  <2>3. r = [x EXCEPT !.FailCount = n, !.LastFailAt = t]
    BY <1>3, <2>1
  <2>4. /\ r \in Records /\ r.ip = x.ip /\ r.FailCount = n
        /\ r.BlockedUntil = x.BlockedUntil
    BY <2>2, <2>3 DEF Records
  <2> QED
    BY <1>2, <2>1, <2>4
<1>5. PICK u : u = [v EXCEPT !.pc = "judge", !.count = 0]
  OBVIOUS
<1>6. u \in WorkerRecords
  BY <1>1, <1>5, WorkerFields DEF WorkerStates
<1>7. u.pc = "judge" /\ u.ip = v.ip /\ u.rec = v.rec /\ u.data = v.data /\ u.at = v.at
  BY <1>1, <1>5 DEF WorkerRecords
<1>8. /\ heap' = [heap EXCEPT ![v.rec] = r] /\ Becomes(w, u) /\ Recorded(w)
      /\ UNCHANGED <<now, disk, lru, cleaner, fails>>
  BY <1>0, <1>3, <1>5 DEF Store
<1>9. /\ Grows /\ past'[v.ip].row = past[v.ip].row + 1 /\ past[v.ip].row \in Nat
      /\ v.at <= past'[v.ip].last /\ past'[v.ip].misread = past[v.ip].misread
  BY <1>0, <1>2, <1>8, RecordedFacts
<1>10. Sound(r)'
  <2> SUFFICES ASSUME ~past'[v.ip].misread
               PROVE  /\ r.FailCount <= past'[v.ip].row
                      /\ r.BlockedUntil # 0 =>
                           /\ past'[v.ip].row >= MaxFailures
                           /\ r.BlockedUntil <= past'[v.ip].last + BlockDur
    BY <1>4 DEF Sound
  <2>1. v.count <= past[v.ip].row
    BY <1>1, <1>9 DEF WorkerSound
  <2>2. heap[v.rec].BlockedUntil # 0 =>
          /\ past'[v.ip].row >= MaxFailures
          /\ heap[v.rec].BlockedUntil <= past'[v.ip].last + BlockDur
    <3>1. PICK x : x = heap[v.rec]
      OBVIOUS
    <3>2. Sound(x)'
      BY <1>2, <1>9, <3>1, SoundMono
    <3> QED
      BY <1>2, <3>1, <3>2 DEF Sound
  <2> QED
    BY <1>1, <1>4, <1>9, <2>1, <2>2
<1>11. WorkerSound(u)'
  <2>1. heap'[v.rec] = r
    BY <1>2, <1>8, SharedFacts
  <2>2. u.data = NoRecord
    BY <1>1, <1>7 DEF WorkerSound
  <2> QED
    BY <1>1, <1>2, <1>4, <1>7, <1>9, <2>1, <2>2, NoRecordSound DEF WorkerSound, InHand
<1> QED
  BY <1>0, <1>1, <1>2, <1>4, <1>6, <1>7, <1>8, <1>9, <1>10, <1>11, RecordStep

(* The block begins when the count is reached.                             *)
LEMMA JudgeStep ==
  ASSUME IInv, NEW w \in Workers, Judge(w)
  PROVE  IInv'
<1>0. PICK v : v = worker[w]
  OBVIOUS
<1>1. v \in WorkerRecords /\ WorkerSound(v) /\ v.pc = "judge" /\ v.rec # Nil /\ v.at \in Nat
  BY <1>0, WorkerFacts DEF Judge, At, InHand, WorkerSound
<1>2. /\ v.rec \in Ptrs /\ v.ip \in IPs /\ heap[v.rec].ip = v.ip
      /\ heap[v.rec] \in Records /\ Sound(heap[v.rec]) /\ BlockDur \in Nat
  BY <1>0, <1>1, RecFacts, BlockerAssumption
<1>3. PICK u : u = [v EXCEPT !.pc = "marshal", !.at = 0]
  OBVIOUS
<1>4. u \in WorkerRecords
  BY <1>1, <1>3, WorkerFields DEF WorkerStates
<1>5. u.pc = "marshal" /\ u.ip = v.ip /\ u.rec = v.rec /\ u.data = v.data
  BY <1>1, <1>3 DEF WorkerRecords
<1>6. PICK r : r = IF Reached(heap[v.rec])
                   THEN [heap[v.rec] EXCEPT !.BlockedUntil = v.at + BlockDur]
                   ELSE heap[v.rec]
  OBVIOUS
<1>7. /\ r \in Records /\ r.ip = v.ip /\ r.FailCount = heap[v.rec].FailCount
      /\ r.BlockedUntil # heap[v.rec].BlockedUntil =>
           r.FailCount >= MaxFailures /\ r.BlockedUntil = v.at + BlockDur
  BY <1>1, <1>2, <1>6 DEF Records, Reached
<1>8. /\ Becomes(w, u) /\ UNCHANGED <<now, disk, lru, cleaner, past, fails>>
      /\ heap' = [heap EXCEPT ![v.rec] = r]
  <2>1. [heap EXCEPT ![v.rec] = heap[v.rec]] = heap
    BY <1>2, SharedFacts
  <2> QED
    BY <1>0, <1>3, <1>6, <2>1 DEF Judge, history
<1>9. Grows
  BY <1>8, SameFacts DEF IInv
<1>10. Sound(r)'
  <2> SUFFICES ASSUME ~past[v.ip].misread
               PROVE  /\ r.FailCount <= past[v.ip].row
                      /\ r.BlockedUntil # 0 =>
                           /\ past[v.ip].row >= MaxFailures
                           /\ r.BlockedUntil <= past[v.ip].last + BlockDur
    BY <1>7, <1>8 DEF Sound
  <2>1. /\ heap[v.rec].FailCount <= past[v.ip].row
        /\ heap[v.rec].BlockedUntil # 0 =>
             /\ past[v.ip].row >= MaxFailures
             /\ heap[v.rec].BlockedUntil <= past[v.ip].last + BlockDur
    BY <1>2 DEF Sound
  <2>2. v.at <= past[v.ip].last
    BY <1>1 DEF WorkerSound
  <2>3. r.FailCount \in Nat /\ past[v.ip].row \in Nat /\ past[v.ip].last \in Nat
        /\ MaxFailures \in Nat
    BY <1>2, <1>7, SharedFacts, BlockerAssumption DEF Records, Pasts
  <2> QED
    BY <1>1, <1>2, <1>7, <2>1, <2>2, <2>3
<1>11. WorkerSound(u)'
  <2>1. heap'[v.rec] = r
    BY <1>2, <1>8, SharedFacts
  <2>2. u.data = NoRecord
    BY <1>1, <1>5 DEF WorkerSound
  <2> QED
    BY <1>1, <1>2, <1>5, <1>7, <2>1, <2>2, NoRecordSound DEF WorkerSound, InHand
<1> QED
  BY <1>0, <1>1, <1>2, <1>4, <1>5, <1>7, <1>8, <1>9, <1>10, <1>11, RecordStep


(* A worker that sees an update go by.                                     *)
LEMMA SeesUpdate ==
  ASSUME NEW v \in WorkerRecords, WorkerSound(v), v.pc = "parse", v.updates < 2
  PROVE  LET u == [v EXCEPT !.updates = @ + 1]
         IN u \in WorkerRecords /\ WorkerSound(u) /\ u.rec = v.rec
<1> DEFINE u == [v EXCEPT !.updates = @ + 1]
<1>1. v.updates + 1 \in 0..2
  BY FieldTypes
<1>2. u \in WorkerRecords
  BY <1>1 DEF WorkerRecords
<1>3. /\ u.pc = v.pc /\ u.ip = v.ip /\ u.rec = v.rec /\ u.data = v.data
      /\ u.count = v.count /\ u.at = v.at
  BY DEF WorkerRecords
<1>4. WorkerSound(u)
  BY <1>3 DEF WorkerSound
<1> QED
  BY <1>2, <1>3, <1>4

(* What an update does to the workers: some see it go by.                  *)
LEMMA UpdatedType ==
  ASSUME NEW ip, NEW r, NEW ws \in [Workers -> WorkerRecords], Updated(ip, r, ws)
  PROVE  worker' \in [Workers -> WorkerRecords]
<1>1. CASE worker' = ws
  BY <1>1
<1>2. CASE worker' = [x \in Workers |->
                        IF ws[x].pc = "parse" /\ ws[x].updates < 2
                        THEN [ws[x] EXCEPT !.updates = @ + 1] ELSE ws[x]]
  <2>1. ASSUME NEW x \in Workers
        PROVE  worker'[x] \in WorkerRecords
    <3>1. CASE ws[x].pc = "parse" /\ ws[x].updates < 2
      <4>1. PICK v : v = ws[x]
        OBVIOUS
      <4>2. v \in WorkerRecords /\ v.updates + 1 \in 0..2
        BY <3>1, <4>1, FieldTypes
      <4>3. worker'[x] = [v EXCEPT !.updates = @ + 1]
        BY <1>2, <3>1, <4>1
      <4> QED
        BY <4>2, <4>3 DEF WorkerRecords
    <3>2. CASE ~(ws[x].pc = "parse" /\ ws[x].updates < 2)
      BY <1>2, <3>2
    <3> QED
      BY <3>1, <3>2
  <2> QED
    BY <1>2, <2>1
<1> QED
  BY <1>1, <1>2 DEF Updated

LEMMA UpdatedWorkers ==
  ASSUME NEW ip, NEW r, NEW ws \in [Workers -> WorkerRecords], Updated(ip, r, ws),
         NEW w \in Workers, WorkerSound(ws[w])
  PROVE  WorkerSound(worker'[w]) /\ worker'[w].rec = ws[w].rec
<1>0. PICK v : v = ws[w]
  OBVIOUS
<1>1. v \in WorkerRecords /\ WorkerSound(v)
  BY <1>0
<1>2. \/ worker'[w] = v
      \/ v.pc = "parse" /\ v.updates < 2 /\ worker'[w] = [v EXCEPT !.updates = @ + 1]
  BY <1>0 DEF Updated
<1> QED
  BY <1>0, <1>1, <1>2, SeesUpdate

(* Steps that keep the memory but may drop pointers to it.                 *)
LEMMA HeapStays ==
  ASSUME IInv, heap' = heap, Grows, \A p \in Ptrs : Referenced(p)' => Referenced(p)
  PROVE  HeapSound'
<1>1. ASSUME NEW p \in Ptrs, Referenced(p)'
      PROVE  Sound(heap[p])'
  <2>1. PICK r : r = heap[p]
    OBVIOUS
  <2>2. r \in Records /\ Sound(r) /\ heap'[p] = r
    BY <1>1, <2>1, SharedFacts
  <2>3. Sound(r)'
    BY <2>2, SoundMono
  <2> QED
    BY <2>2, <2>3 DEF Sound
<1> QED
  BY <1>1 DEF HeapSound

(* Steps that keep the database.                                           *)
LEMMA DiskStays ==
  ASSUME IInv, disk' = disk, Grows
  PROVE  DiskSound'
<1>1. ASSUME NEW ip \in IPs
      PROVE  (disk'[ip] = NoRecord \/ disk'[ip].ip = ip) /\ Sound(disk[ip])'
  <2>1. PICK r : r = disk[ip]
    OBVIOUS
  <2>2. /\ r \in Records /\ Sound(r) /\ disk'[ip] = r
        /\ r = NoRecord \/ r.ip = ip
    BY <2>1, SharedFacts DEF IInv, RecordsSound, DiskSound
  <2>3. Sound(r)'
    BY <2>2, SoundMono
  <2> QED
    BY <2>2, <2>3 DEF Sound
<1> QED
  BY <1>1 DEF DiskSound

(* Steps that keep the workers and the memory.                             *)
LEMMA WorkersStay ==
  ASSUME IInv, worker' = worker, heap' = heap, Grows
  PROVE  \A x \in Workers : WorkerSound(worker[x])'
<1>1. ASSUME NEW x \in Workers
      PROVE  WorkerSound(worker[x])'
  <2>1. PICK v : v = worker[x]
    OBVIOUS
  <2>2. v \in WorkerRecords /\ WorkerSound(v) /\ worker'[x] = v
    BY <2>1, WorkerFacts
  <2>3. WorkerSound(v)'
    BY <2>2, WorkerStays
  <2> QED
    BY <2>2, <2>3 DEF WorkerSound, Sound
<1> QED
  BY <1>1

(* Steps that update the database.                                         *)
LEMMA UpdatedStep ==
  ASSUME IInv, NEW ip \in IPs, NEW r \in Records, Sound(r), r = NoRecord \/ r.ip = ip,
         NEW ws \in [Workers -> WorkerRecords],
         \A x \in Workers : WorkerSound(ws[x]) /\ ws[x].rec = worker[x].rec,
         Updated(ip, r, ws), UNCHANGED <<now, lru, heap, fails>>, Grows,
         cleaner' \in CleanerRecords, CleanerSound'
  PROVE  IInv'
<1>1. ASSUME NEW j \in IPs
      PROVE  (disk'[j] = NoRecord \/ disk'[j].ip = j) /\ Sound(disk[j])'
  <2>1. disk' = disk \/ disk' = [disk EXCEPT ![ip] = r]
    BY DEF Updated
  <2>2. PICK s : s = disk'[j]
    OBVIOUS
  <2>3. s \in Records /\ Sound(s) /\ (s = NoRecord \/ s.ip = j)
    BY <2>1, <2>2 DEF IInv, TypeOK, RecordsSound, DiskSound
  <2>4. Sound(s)'
    BY <2>3, SoundMono
  <2> QED
    BY <2>2, <2>3, <2>4 DEF Sound
<1>2. disk' \in [IPs -> Records]
  <2>1. disk \in [IPs -> Records] /\ (disk' = disk \/ disk' = [disk EXCEPT ![ip] = r])
    BY SharedFacts DEF Updated
  <2> QED
    BY <2>1
<1>3. /\ worker' \in [Workers -> WorkerRecords]
      /\ \A x \in Workers : worker'[x].rec = worker[x].rec /\ WorkerSound(worker[x])'
  <2>1. worker' \in [Workers -> WorkerRecords]
    BY UpdatedType
  <2>2. ASSUME NEW x \in Workers
        PROVE  worker'[x].rec = worker[x].rec /\ WorkerSound(worker[x])'
    <3>1. /\ WorkerSound(worker'[x]) /\ worker'[x].rec = worker[x].rec
          /\ worker'[x] \in WorkerRecords
      BY <2>1, UpdatedWorkers
    <3>2. PICK v : v = worker'[x]
      OBVIOUS
    <3>3. WorkerSound(v)'
      BY <3>1, <3>2, WorkerStays
    <3> QED
      BY <3>1, <3>2, <3>3 DEF WorkerSound, Sound
  <2> QED
    BY <2>2, <2>1
<1>4. TypeOK' /\ CacheBounded'
  BY <1>2, <1>3 DEF IInv, TypeOK, CacheBounded, Grows
<1>5. HeapSound'
  <2>1. \A p \in Ptrs : Referenced(p)' => Referenced(p)
    BY <1>3 DEF Referenced
  <2> QED
    BY <2>1, HeapStays
<1>6. CacheSound'
  BY DEF IInv, RecordsSound, CacheSound
<1>7. DiskSound'
  BY <1>1 DEF DiskSound
<1> QED
  BY <1>3, <1>4, <1>5, <1>6, <1>7 DEF IInv, RecordsSound

(* Committing and deleting, by a worker.                                   *)
LEMMA UpdateSteps ==
  ASSUME IInv, NEW w \in Workers, Commit(w) \/ Delete(w)
  PROVE  IInv'
<1>0. PICK v : v = worker[w]
  OBVIOUS
<1>1. /\ v \in WorkerRecords /\ WorkerSound(v) /\ v.ip \in IPs /\ v.data \in Records
      /\ v.pc \in {"commit", "delete"}
  BY <1>0, WorkerFacts DEF Commit, Delete, At
<1>2. UNCHANGED <<now, lru, heap, cleaner, fails>> /\ Grows
  BY UnsureFacts DEF Commit, Delete, IInv
<1>3. cleaner' \in CleanerRecords /\ CleanerSound'
  BY <1>2 DEF IInv, TypeOK, CleanerSound
<1>4. /\ worker \in [Workers -> WorkerRecords]
      /\ \A x \in Workers : WorkerSound(worker[x])
  BY DEF IInv, TypeOK, RecordsSound
<1>5. Sound(NoRecord) /\ NoRecord \in Records
  BY NoRecordSound, NewRecordType
<1>6. CASE Commit(w)
  <2>1. PICK u : u = [v EXCEPT !.pc = "cache", !.data = NoRecord]
    OBVIOUS
  <2>2. u \in WorkerRecords
    BY <1>1, <1>5, <2>1, WorkerFields DEF WorkerStates
  <2>3. u.pc = "cache" /\ u.ip = v.ip /\ u.rec = v.rec /\ u.data = NoRecord
    BY <1>1, <2>1 DEF WorkerRecords
  <2>4. v.pc = "commit" /\ v.data.ip = v.ip /\ Sound(v.data)
    BY <1>0, <1>1, <1>6 DEF Commit, At, WorkerSound
  <2>5. WorkerSound(u)
    BY <1>1, <1>5, <2>3, <2>4 DEF WorkerSound, InHand
  <2>6. PICK ws : ws = [worker EXCEPT ![w] = u]
    OBVIOUS
  <2>7. /\ ws \in [Workers -> WorkerRecords]
        /\ \A x \in Workers : WorkerSound(ws[x]) /\ ws[x].rec = worker[x].rec
    BY <1>0, <1>4, <2>2, <2>3, <2>5, <2>6
  <2>8. Updated(v.ip, v.data, ws)
    BY <1>0, <1>6, <2>1, <2>6 DEF Commit
  <2> QED
    BY <1>1, <1>2, <1>3, <2>4, <2>7, <2>8, UpdatedStep
<1>7. CASE Delete(w)
  <2>1. PICK u : u = [v EXCEPT !.pc = "remove"]
    OBVIOUS
  <2>2. u \in WorkerRecords
    BY <1>1, <2>1, WorkerFields DEF WorkerStates
  <2>3. /\ u.pc = "remove" /\ u.ip = v.ip /\ u.rec = v.rec /\ u.data = v.data
        /\ v.pc = "delete"
    BY <1>0, <1>1, <1>7, <2>1 DEF WorkerRecords, Delete, At
  <2>4. WorkerSound(u)
    BY <1>1, <2>3 DEF WorkerSound, InHand
  <2>5. PICK ws : ws = [worker EXCEPT ![w] = u]
    OBVIOUS
  <2>6. /\ ws \in [Workers -> WorkerRecords]
        /\ \A x \in Workers : WorkerSound(ws[x]) /\ ws[x].rec = worker[x].rec
    BY <1>0, <1>4, <2>2, <2>3, <2>4, <2>5
  <2>7. Updated(v.ip, NoRecord, ws)
    BY <1>0, <1>7, <2>1, <2>5 DEF Delete
  <2> QED
    BY <1>1, <1>2, <1>3, <1>5, <2>6, <2>7, UpdatedStep
<1> QED
  BY <1>6, <1>7

-----------------------------------------------------------------------------
(* The cleaner and the process.                                            *)

(* The steps of cleanExpired.                                              *)
LEMMA CleanerSteps ==
  ASSUME IInv, CleanScan \/ CleanRemove \/ \E ip \in IPs : CleanDelete(ip)
  PROVE  IInv'
<1>1. /\ cleaner \in CleanerRecords /\ CleanerSound
      /\ worker \in [Workers -> WorkerRecords]
      /\ \A x \in Workers : WorkerSound(worker[x])
  BY DEF IInv, TypeOK, RecordsSound
<1>2. CASE CleanScan
  <2>1. cleaner' \in CleanerRecords /\ CleanerSound'
    BY <1>1, <1>2 DEF CleanScan, CleanerRecords, CleanerSound
  <2>2. UNCHANGED <<now, disk, lru, heap, worker, fails>> /\ Grows
    BY <1>2, UnsureFacts DEF CleanScan, IInv
  <2>3. HeapSound' /\ DiskSound' /\ \A x \in Workers : WorkerSound(worker[x])'
    BY <2>2, HeapStays, DiskStays, WorkersStay DEF Referenced
  <2>4. TypeOK' /\ CacheBounded' /\ CacheSound'
    BY <2>1, <2>2 DEF IInv, TypeOK, CacheBounded, RecordsSound, CacheSound, Grows
  <2> QED
    BY <2>1, <2>3, <2>4 DEF IInv, RecordsSound
<1>3. ASSUME NEW ip \in IPs, CleanDelete(ip)
      PROVE  IInv'
  <2>1. cleaner' \in CleanerRecords /\ CleanerSound'
    BY <1>1, <1>3 DEF CleanDelete, CleanerRecords, CleanerSound
  <2>2. UNCHANGED <<now, lru, heap, fails>> /\ Updated(ip, NoRecord, worker) /\ Grows
    BY <1>3, SameFacts DEF CleanDelete, history, IInv
  <2>3. Sound(NoRecord) /\ NoRecord \in Records
    BY NoRecordSound, NewRecordType
  <2>4. PICK ws : ws = worker
    OBVIOUS
  <2> QED
    BY <1>1, <2>1, <2>2, <2>3, <2>4, UpdatedStep
<1>4. CASE CleanRemove
  <2>1. cleaner.ip \in IPs /\ lru' = CacheRemove(lru, cleaner.ip)
    BY <1>1, <1>4 DEF CleanRemove, CleanerSound
  <2>2. UNCHANGED <<now, disk, heap, worker, fails>> /\ Grows
    BY <1>4, SameFacts DEF CleanRemove, history, IInv
  <2>3. cleaner' \in CleanerRecords /\ CleanerSound'
    BY <1>1, <1>4 DEF CleanRemove, CleanerRecords, CleanerSound, IdleCleaner
  <2>4. CacheBounded'
    BY <2>1, SharedFacts, RemoveWellFormed DEF CacheBounded
  <2>5. lru'.item \in [IPs -> Ptrs \cup {Nil}]
    BY <2>1, SharedFacts, RemoveType
  <2>6. \A ip \in IPs : lru'.item[ip] \in {Nil, lru.item[ip]}
    BY <2>1, RemoveItems
  <2>7. lru'.order \in Seq(IPs)
    BY <2>4 DEF CacheBounded, WellFormed
  <2>8. TypeOK'
    BY <2>2, <2>3, <2>5, <2>7 DEF IInv, TypeOK, Grows
  <2>9. CacheSound'
    BY <2>2, <2>6, SharedFacts DEF CacheSound
  <2>10. \A p \in Ptrs : Referenced(p)' => Referenced(p)
    <3>1. \A p \in Ptrs : p # Nil
      BY PtrsType
    <3> QED
      BY <2>2, <2>6, <3>1 DEF Referenced
  <2>11. HeapSound' /\ DiskSound' /\ \A x \in Workers : WorkerSound(worker[x])'
    BY <2>2, <2>10, HeapStays, DiskStays, WorkersStay
  <2> QED
    BY <2>3, <2>4, <2>8, <2>9, <2>11 DEF IInv, RecordsSound
<1> QED
  BY <1>2, <1>3, <1>4

(* The initial states satisfy the invariant.                               *)
LEMMA InitInv == Init => IInv
<1> SUFFICES ASSUME Init PROVE IInv
  OBVIOUS
<1>1. TypeOK /\ CacheBounded
  BY InitType
<1>2. \A w \in Workers : WorkerSound(worker[w])
  BY IdleFacts DEF Init
<1>3. HeapSound /\ DiskSound
  BY NoRecordSound DEF HeapSound, DiskSound, Init
<1>4. CacheSound /\ CleanerSound
  BY DEF Init, EmptyCache, CacheSound, IdleCleaner, CleanerSound
<1> QED
  BY <1>1, <1>2, <1>3, <1>4 DEF IInv, RecordsSound

(* Dying and starting again keeps it.                                      *)
LEMMA RestartStep == IInv /\ Restart => IInv'
<1> SUFFICES ASSUME IInv, Restart PROVE IInv'
  OBVIOUS
<1>1. UNCHANGED <<now, disk, fails>> /\ Grows
  BY UnsureFacts DEF Restart, IInv
<1>2. NoRecord \in Records
  BY NewRecordType
<1>3. /\ heap' = [p \in Ptrs |-> NoRecord] /\ lru' = EmptyCache(IPs)
      /\ worker' = [w \in Workers |-> IdleWorker] /\ cleaner' = IdleCleaner
  BY DEF Restart
<1>4. CacheBounded'
  BY <1>3, EmptyWellFormed, BlockerAssumption DEF CacheBounded
<1>5. lru'.order \in Seq(IPs) /\ lru'.item = [k \in IPs |-> Nil]
  BY <1>3 DEF EmptyCache
<1>6. IdleCleaner \in CleanerRecords
  BY DEF IdleCleaner, CleanerRecords
<1>7. TypeOK'
  BY <1>1, <1>2, <1>3, <1>5, <1>6, IdleFacts DEF IInv, TypeOK, Grows
<1>8. HeapSound'
  BY <1>3, NoRecordSound DEF HeapSound, Sound
<1>9. CacheSound' /\ CleanerSound'
  BY <1>3, <1>5 DEF CacheSound, CleanerSound, IdleCleaner
<1>10. \A w \in Workers : WorkerSound(worker[w])'
  BY <1>3, IdleFacts DEF WorkerSound, Sound
<1>11. DiskSound'
  BY <1>1, DiskStays
<1> QED
  BY <1>4, <1>7, <1>8, <1>9, <1>10, <1>11 DEF IInv, RecordsSound

(* Every step keeps the invariant.                                         *)
LEMMA InvStep == IInv /\ [Next]_vars => IInv'
<1> SUFFICES ASSUME IInv, [Next]_vars PROVE IInv'
  OBVIOUS
<1>1. ASSUME NEW w \in Workers, WorkerStep(w)
      PROVE  IInv'
  <2>1. CASE \/ \E ip \in IPs : Connect(w, ip)
             \/ Password(w) \/ HangUp(w) \/ RefuseConnection(w) \/ AdmitConnection(w)
             \/ RefusePassword(w) \/ WrongPassword(w) \/ RightPassword(w)
             \/ RecordFailure(w) \/ LookupMiss(w) \/ View(w) \/ Load(w) \/ Marshal(w)
    BY <2>1, PrivateSteps
  <2>2. CASE ViewNothing(w) \/ Garbled(w)
    BY <2>2, WithoutRecordStep
  <2>3. CASE LookupHit(w) \/ Cache(w)
    BY <2>3, CacheSteps
  <2>4. CASE Commit(w) \/ Delete(w)
    BY <2>4, UpdateSteps
  <2> QED
    BY <1>1, <2>1, <2>2, <2>3, <2>4, BackfillStep, StoreStep, JudgeStep, RemoveStep
       DEF WorkerStep
<1>2. CASE CleanScan \/ CleanRemove \/ \E ip \in IPs : CleanDelete(ip)
  BY <1>2, CleanerSteps
<1>3. CASE Tick \/ UNCHANGED vars
  <2>1. /\ UNCHANGED <<disk, lru, heap, worker, cleaner, past, fails>>
        /\ now' = now + 1 \/ now' = now
    BY <1>3 DEF Tick, history, vars
  <2>2. TypeOK /\ CacheBounded /\ Grows
    BY <2>1, SameFacts DEF IInv
  <2>3. now' \in Nat
    BY <2>1, <2>2 DEF TypeOK
  <2>4. TypeOK'
    BY <2>1, <2>2, <2>3 DEF TypeOK
  <2>5. CacheBounded'
    BY <2>1, <2>2 DEF CacheBounded
  <2>6. /\ HeapSound' /\ DiskSound'
        /\ \A x \in Workers : WorkerSound(worker[x])'
    BY <2>1, <2>2, HeapStays, DiskStays, WorkersStay DEF Referenced
  <2>7. CacheSound' /\ CleanerSound'
    BY <2>1 DEF IInv, RecordsSound, CacheSound, CleanerSound
  <2> QED
    BY <2>4, <2>5, <2>6, <2>7 DEF IInv, RecordsSound
<1>4. CASE Restart
  BY <1>4, RestartStep
<1> QED
  BY <1>1, <1>2, <1>3, <1>4 DEF Next

-----------------------------------------------------------------------------
(* Theorems.                                                               *)

(* The invariant holds of every reachable state: whatever connections,     *)
(* the cleaner, the database and the restarts do, every copy of a record   *)
(* belongs to the IP it is filed under and counts only failures of it.     *)
THEOREM BlockerInvariant == Spec => []IInv
BY InitInv, InvStep, PTL DEF Spec

(* The types of blocker.go's state hold always.                            *)
THEOREM BlockerTypes == Spec => []TypeOK
<1>1. IInv => TypeOK
  BY DEF IInv
<1> QED
  BY <1>1, BlockerInvariant, PTL

(* The list and the map of the cache agree and stay within auth_lru_size,  *)
(* for any number of connections and IPs.                                  *)
THEOREM BlockerBounded == Spec => []CacheBounded
<1>1. IInv => CacheBounded
  BY DEF IInv
<1> QED
  BY <1>1, BlockerInvariant, PTL

(* No IP is refused unless MaxFailures of its own failures were recorded   *)
(* since its last clear login and the latest of them is less than BlockDur *)
(* ago, for any number of connections and IPs and whatever the database,   *)
(* the cleaner and restarts do; but for a page of bbolt misread.           *)
THEOREM RefusedForOwnFailures == Spec => NeverRefusedEarly
<1>1. ASSUME IInv, NEW w \in Workers, RefuseConnection(w) \/ RefusePassword(w),
             ~past[worker[w].ip].misread
      PROVE  /\ past[worker[w].ip].row >= MaxFailures
             /\ now < past[worker[w].ip].last + BlockDur
  <2>1. PICK r, p : r = heap[worker[w].rec] /\ p = past[worker[w].ip]
    OBVIOUS
  <2>2. worker[w].rec # Nil /\ r.BlockedUntil # 0 /\ now < r.BlockedUntil
    BY <1>1, <2>1 DEF RefuseConnection, RefusePassword, Blocked, IsBlocked
  <2>3. /\ worker[w].ip \in IPs /\ r \in Records /\ Sound(r) /\ r.ip = worker[w].ip
        /\ p \in Pasts /\ now \in Nat /\ BlockDur \in Nat
    BY <1>1, <2>1, <2>2, RecFacts, SharedFacts, BlockerAssumption
  <2>4. p.row >= MaxFailures /\ r.BlockedUntil <= p.last + BlockDur
    BY <1>1, <2>1, <2>2, <2>3 DEF Sound
  <2>5. p.last \in Nat /\ r.BlockedUntil \in Nat
    BY <2>3 DEF Pasts, Records
  <2>6. now < p.last + BlockDur
    BY <2>2, <2>3, <2>4, <2>5
  <2> QED
    BY <2>1, <2>4, <2>6
<1>2. IInv /\ [Next]_vars =>
        [\A w \in Workers : RefuseConnection(w) \/ RefusePassword(w) =>
           LET p == past[worker[w].ip]
           IN p.misread \/ (p.row >= MaxFailures /\ now < p.last + BlockDur)]_vars
  BY <1>1
<1> QED
  BY <1>2, BlockerInvariant, PTL DEF Spec, NeverRefusedEarly

-----------------------------------------------------------------------------
(* Sure failures are kept, and block.                                      *)

(* A copy that has every sure failure, and the block they make.            *)
Kept(r, p) == /\ r.FailCount >= p.sure /\ r.LastFailAt = p.last
              /\ p.sure >= MaxFailures => r.BlockedUntil = p.last + BlockDur

(* What worker v holds of an IP with history p, where the database has d   *)
(* and the record in hand is r.                                            *)
Hand(v, p, d, r) ==
  /\ v.pc = "parse" => v.data = d
  /\ v.pc = "verdict" => v.rec # Nil
  /\ v.pc \in {"verdict", "load", "marshal", "commit", "cache"} => Kept(r, p)
  /\ v.pc = "store" => v.count >= p.sure
  /\ v.pc = "judge" => r.FailCount >= p.sure /\ r.LastFailAt = p.last /\ v.at = p.last
  /\ v.pc = "commit" => v.data = r

RecordOf(v) == IF v.rec = Nil THEN NoRecord ELSE heap[v.rec]

(* The database, and the cache, do not have the latest failure yet.        *)
Writing(v, ip) == v.ip = ip /\ v.pc \in {"judge", "marshal", "commit"}
Caching(v, ip) == v.ip = ip /\ v.pc \in {"judge", "marshal", "commit", "cache"}

(* An IP with sure failures is in one worker's hands at most, and they are *)
(* in every copy that worker is not about to replace.                      *)
Secure(ip) ==
  LET p == past[ip]
  IN p.sure > 0 =>
       /\ ip \notin cleaner.todo /\ cleaner.ip # ip
       /\ \A w, x \in Workers :
            Working(worker[w]) = ip /\ Working(worker[x]) = ip => w = x
       /\ (\A w \in Workers : ~Writing(worker[w], ip)) => Kept(disk[ip], p)
       /\ lru.item[ip] # Nil /\ (\A w \in Workers : ~Caching(worker[w], ip)) =>
            Kept(heap[lru.item[ip]], p)
       /\ \A w \in Workers : Working(worker[w]) = ip =>
            Hand(worker[w], p, disk[ip], RecordOf(worker[w]))

AllSecure == \A ip \in IPs : Secure(ip)

Alike(u, v) == /\ u.pc = v.pc /\ u.ip = v.ip /\ u.rec = v.rec /\ u.data = v.data
               /\ u.count = v.count /\ u.at = v.at

(* A step leaves what worker x has of ip alone, or ends it.                *)
Follows(x, ip) ==
  \/ /\ Alike(worker'[x], worker[x])
     /\ worker[x].rec # Nil => heap'[worker[x].rec] = heap[worker[x].rec]
  \/ Working(worker'[x]) # ip /\ ~Caching(worker[x], ip)

(* A step that leaves an IP alone.                                         *)
LEMMA FrameStep ==
  ASSUME NEW ip \in IPs, Secure(ip), past'[ip] = past[ip] \/ past'[ip].sure = 0,
         disk'[ip] = disk[ip], lru'.item[ip] \in {Nil, lru.item[ip]},
         lru.item[ip] # Nil => heap'[lru.item[ip]] = heap[lru.item[ip]],
         ip \in cleaner'.todo \/ cleaner'.ip = ip => ip \in cleaner.todo \cup {cleaner.ip},
         \A x \in Workers : Follows(x, ip)
  PROVE  Secure(ip)'
<1>0. CASE past'[ip].sure = 0
  BY <1>0 DEF Secure
<1>1. CASE past'[ip] = past[ip] /\ past[ip].sure > 0
  <2> DEFINE p == past[ip]
  <2>1. /\ ip \notin cleaner.todo /\ cleaner.ip # ip
        /\ \A w, x \in Workers :
             Working(worker[w]) = ip /\ Working(worker[x]) = ip => w = x
        /\ (\A w \in Workers : ~Writing(worker[w], ip)) => Kept(disk[ip], p)
        /\ lru.item[ip] # Nil /\ (\A w \in Workers : ~Caching(worker[w], ip)) =>
             Kept(heap[lru.item[ip]], p)
        /\ \A w \in Workers : Working(worker[w]) = ip =>
             Hand(worker[w], p, disk[ip], RecordOf(worker[w]))
    BY <1>1 DEF Secure
  <2>2. ASSUME NEW x \in Workers
        PROVE  /\ Working(worker'[x]) = ip =>
                    /\ Alike(worker'[x], worker[x])
                    /\ worker[x].rec # Nil => heap'[worker[x].rec] = heap[worker[x].rec]
                    /\ Working(worker[x]) = ip
               /\ Writing(worker[x], ip) => Writing(worker'[x], ip)
               /\ Caching(worker[x], ip) => Caching(worker'[x], ip)
    BY DEF Follows, Alike, Working, Writing, Caching
  <2>3. ASSUME NEW x \in Workers, Working(worker'[x]) = ip
        PROVE  Hand(worker'[x], p, disk[ip], RecordOf(worker[x])')
    <3>1. Hand(worker[x], p, disk[ip], RecordOf(worker[x]))
      BY <2>1, <2>2, <2>3
    <3>2. RecordOf(worker[x])' = RecordOf(worker[x])
      BY <2>2, <2>3 DEF RecordOf, Alike
    <3> QED
      BY <2>2, <2>3, <3>1, <3>2 DEF Hand, Alike
  <2>4. (\A w \in Workers : ~Writing(worker'[w], ip)) => Kept(disk[ip], p)
    BY <2>1, <2>2
  <2>5. lru'.item[ip] # Nil /\ (\A w \in Workers : ~Caching(worker'[w], ip)) =>
          Kept(heap'[lru'.item[ip]], p)
    BY <2>1, <2>2
  <2>6. \A w, x \in Workers : Working(worker'[w]) = ip /\ Working(worker'[x]) = ip => w = x
    BY <2>1, <2>2
  <2> QED
    BY <1>1, <2>1, <2>3, <2>4, <2>5, <2>6 DEF Secure, Kept, Writing, Caching, Working, Hand
<1>2. CASE past'[ip] = past[ip] /\ ~(past[ip].sure > 0)
  BY <1>2 DEF Secure
<1> QED
  BY <1>0, <1>1, <1>2

(* A step of a worker on one IP leaves the others alone.                   *)
LEMMA OtherIPs ==
  ASSUME IInv, AllSecure, NEW w \in Workers, NEW i \in IPs,
         worker[w].ip \in {Nil, i}, worker'[w].ip \in {Nil, i}, cleaner' = cleaner,
         \A x \in Workers \ {w} : Alike(worker'[x], worker[x]),
         \A p \in Ptrs : Referenced(p) /\ heap[p].ip # i => heap'[p] = heap[p],
         NEW j \in IPs \ {i}, past'[j] = past[j] \/ past'[j].sure = 0,
         disk'[j] = disk[j], lru'.item[j] \in {Nil, lru.item[j]}
  PROVE  Secure(j)'
<1>1. ASSUME NEW x \in Workers
      PROVE  Follows(x, j)
  <2>1. CASE x = w
    BY <2>1, PtrsType DEF Follows, Working, Caching
  <2>2. CASE x # w /\ worker[x].rec = Nil
    BY <2>2 DEF Follows
  <2>3. CASE x # w /\ worker[x].rec # Nil /\ worker[x].ip # i
    <3>1. worker[x].rec \in Ptrs /\ heap[worker[x].rec].ip # i /\ Referenced(worker[x].rec)
      BY <2>3, RecFacts DEF Referenced
    <3> QED
      BY <2>3, <3>1 DEF Follows
  <2>4. CASE x # w /\ worker[x].ip = i
    BY <2>4, PtrsType DEF Follows, Alike, Working, Caching
  <2> QED
    BY <2>1, <2>2, <2>3, <2>4
<1>2. lru.item[j] # Nil => heap'[lru.item[j]] = heap[lru.item[j]]
  <2> SUFFICES ASSUME lru.item[j] # Nil PROVE heap'[lru.item[j]] = heap[lru.item[j]]
    OBVIOUS
  <2>1. lru.item[j] \in Ptrs /\ heap[lru.item[j]].ip = j /\ Referenced(lru.item[j])
    BY SharedFacts DEF CacheSound, Referenced
  <2> QED
    BY <2>1
<1> QED
  BY <1>1, <1>2, FrameStep DEF AllSecure

(* What is known of an IP with sure failures while a worker is at it.      *)
LEMMA AloneFacts ==
  ASSUME IInv, AllSecure, NEW w \in Workers, NEW i \in IPs, Working(worker[w]) = i,
         past[i].sure > 0
  PROVE  /\ i \notin cleaner.todo /\ cleaner.ip # i
         /\ \A x \in Workers \ {w} : Working(worker[x]) # i
         /\ ~Writing(worker[w], i) => Kept(disk[i], past[i])
         /\ lru.item[i] # Nil /\ ~Caching(worker[w], i) =>
              Kept(heap[lru.item[i]], past[i])
         /\ Hand(worker[w], past[i], disk[i], RecordOf(worker[w]))
<1>1. Secure(i)
  BY DEF AllSecure
<1>2. \A x \in Workers \ {w} : Working(worker[x]) # i
  BY <1>1 DEF Secure
<1>3. \A x \in Workers \ {w} : ~Writing(worker[x], i) /\ ~Caching(worker[x], i)
  BY <1>2 DEF Writing, Caching, Working
<1> QED
  BY <1>1, <1>2, <1>3 DEF Secure

(* A step after which worker w is at most the only one at ip i.            *)
LEMMA OwnStep ==
  ASSUME NEW w \in Workers, NEW i \in IPs, NEW p, past'[i] = p,
         i \notin cleaner'.todo, cleaner'.ip # i,
         \A x \in Workers \ {w} : Working(worker'[x]) # i,
         NEW u, worker'[w] = u, NEW r, RecordOf(worker[w])' = r,
         ~Writing(u, i) => Kept(disk'[i], p),
         lru'.item[i] # Nil /\ ~Caching(u, i) => Kept(heap'[lru'.item[i]], p),
         Working(u) = i => Hand(u, p, disk'[i], r)
  PROVE  Secure(i)'
<1>1. \A x \in Workers \ {w} : ~Writing(worker'[x], i) /\ ~Caching(worker'[x], i)
  BY DEF Writing, Caching, Working
<1>2. /\ \A x, y \in Workers :
           Working(worker'[x]) = i /\ Working(worker'[y]) = i => x = y
      /\ (\A x \in Workers : ~Writing(worker'[x], i)) => Kept(disk'[i], p)
      /\ lru'.item[i] # Nil /\ (\A x \in Workers : ~Caching(worker'[x], i)) =>
           Kept(heap'[lru'.item[i]], p)
      /\ \A x \in Workers : Working(worker'[x]) = i =>
           Hand(worker'[x], p, disk'[i], RecordOf(worker[x])')
  BY <1>1
<1> QED
  BY <1>2 DEF Secure, Kept, Writing, Caching, Working, Hand

(* Steps of one worker that write neither the database nor a record.       *)
LEMMA QuietStep ==
  ASSUME IInv, AllSecure, NEW w \in Workers, NEW i \in IPs, NEW u, Becomes(w, u),
         worker[w].ip \in {Nil, i}, u.ip \in {Nil, i}, UNCHANGED <<disk, heap, cleaner>>,
         lru'.item = lru.item, OnlyDoubts,
         Writing(u, i) <=> Writing(worker[w], i), Caching(u, i) <=> Caching(worker[w], i),
         past'[i].sure > 0 /\ Working(u) = i => Working(worker[w]) = i \/ ~Contended(w, i),
         past[i].sure > 0 /\ Working(u) = i =>
           Hand(u, past[i], disk[i], IF u.rec = Nil THEN NoRecord ELSE heap[u.rec])
  PROVE  AllSecure'
<1>1. \A x \in Workers : worker'[x] = IF x = w THEN u ELSE worker[x]
  BY DEF Becomes, IInv, TypeOK
<1>2. ASSUME NEW j \in IPs \ {i}
      PROVE  Secure(j)'
  BY <1>1, OtherIPs DEF Alike, OnlyDoubts
<1> SUFFICES Secure(i)'
  BY <1>2 DEF AllSecure
<1>3. CASE past'[i].sure = 0
  BY <1>3 DEF Secure
<1>4. CASE past'[i] = past[i] /\ Working(u) # i
  <2>1. \A x \in Workers : Follows(x, i)
    <3>1. ~Caching(u, i)
      BY <1>4 DEF Caching, Working
    <3> QED
      BY <1>1, <1>4, <3>1 DEF Follows, Alike
  <2> QED
    BY <1>4, <2>1, FrameStep DEF AllSecure
<1>5. CASE past'[i] = past[i] /\ past[i].sure > 0 /\ Working(u) = i
  <2>1. /\ i \notin cleaner.todo /\ cleaner.ip # i
        /\ \A x \in Workers \ {w} : Working(worker[x]) # i
    BY <1>5, AloneFacts DEF Contended
  <2>2. /\ ~Writing(u, i) => Kept(disk[i], past[i])
        /\ lru.item[i] # Nil /\ ~Caching(u, i) => Kept(heap[lru.item[i]], past[i])
    <3>1. \A x \in Workers \ {w} : ~Writing(worker[x], i) /\ ~Caching(worker[x], i)
      BY <2>1 DEF Writing, Caching, Working
    <3> QED
      BY <1>5, <3>1 DEF AllSecure, Secure
  <2>3. RecordOf(worker[w])' = IF u.rec = Nil THEN NoRecord ELSE heap[u.rec]
    BY <1>1 DEF RecordOf
  <2> QED
    BY <1>1, <1>5, <2>1, <2>2, <2>3, OwnStep
<1>6. CASE past'[i] = past[i] /\ ~(past[i].sure > 0)
  BY <1>6 DEF Secure
<1> QED
  BY <1>3, <1>4, <1>5, <1>6 DEF OnlyDoubts

LEMMA QuietSteps ==
  ASSUME IInv, AllSecure, NEW w \in Workers,
         \/ \E ip \in IPs : Connect(w, ip)
         \/ Password(w) \/ HangUp(w) \/ RefuseConnection(w) \/ AdmitConnection(w)
         \/ RefusePassword(w) \/ WrongPassword(w) \/ RightPassword(w) \/ RecordFailure(w)
         \/ LookupMiss(w) \/ View(w) \/ Load(w) \/ Marshal(w) \/ LookupHit(w)
  PROVE  AllSecure'
<1>0. PICK v : v = worker[w]
  OBVIOUS
<1>1. /\ v \in WorkerRecords /\ WorkerSound(v) /\ v.ip \in IPs \cup {Nil}
      /\ v.pc # "idle" => v.ip \in IPs
  BY <1>0, WorkerFacts
<1>2. past' = past => OnlyDoubts
  BY SameFacts DEF IInv
<1>3. \A S : Unsure(S) => OnlyDoubts /\ \A ip \in IPs : ip \in S => past'[ip].sure = 0
  BY UnsureFacts DEF IInv
<1>4. v.ip \in IPs /\ Working(v) = v.ip /\ past[v.ip].sure > 0 =>
        /\ v.pc = "lookup" /\ lru.item[v.ip] # Nil => Kept(heap[lru.item[v.ip]], past[v.ip])
        /\ Hand(v, past[v.ip], disk[v.ip], IF v.rec = Nil THEN NoRecord ELSE heap[v.rec])
  BY <1>0, AloneFacts DEF Caching, RecordOf
<1>5. ASSUME NEW ip \in IPs, Connect(w, ip)
      PROVE  AllSecure'
  <2>1. PICK u : u = [v EXCEPT !.pc = "lookup", !.ip = ip]
    OBVIOUS
  <2>2. /\ Becomes(w, u) /\ v.pc = "idle" /\ v.ip = Nil /\ Begins(w, ip)
        /\ UNCHANGED <<disk, heap, cleaner, lru>>
    <3>1. v.pc = "idle"
      BY <1>0, <1>5 DEF Connect, At
    <3>2. v.ip = Nil
      BY <1>1, <3>1 DEF WorkerSound, IdleWorker
    <3> QED
      BY <1>0, <1>5, <2>1, <3>1, <3>2 DEF Connect
  <2>3. u.pc = "lookup" /\ u.ip = ip
    BY <1>1, <2>1 DEF WorkerRecords
  <2>4. OnlyDoubts /\ (past'[ip].sure > 0 => ~Contended(w, ip))
    <3>1. Contended(w, ip) => past'[ip].sure = 0
      BY <1>3, <2>2 DEF Begins
    <3> QED
      BY <1>3, <2>2, <3>1 DEF Begins
  <2>5. /\ Writing(u, ip) <=> Writing(v, ip)
        /\ Caching(u, ip) <=> Caching(v, ip)
        /\ past[ip].sure > 0 /\ Working(u) = ip =>
             Hand(u, past[ip], disk[ip], IF u.rec = Nil THEN NoRecord ELSE heap[u.rec])
    BY <2>2, <2>3 DEF Writing, Caching, Hand
  <2> QED
    BY <1>0, <2>2, <2>3, <2>4, <2>5, QuietStep
<1>6. CASE Password(w)
  <2>1. PICK u : u = [v EXCEPT !.pc = "lookup"]
    OBVIOUS
  <2>2. /\ Becomes(w, u) /\ v.pc = "password" /\ v.ip \in IPs /\ Begins(w, v.ip)
        /\ UNCHANGED <<disk, heap, cleaner, lru>>
    BY <1>0, <1>1, <1>6, <2>1 DEF Password, At
  <2>3. u.pc = "lookup" /\ u.ip = v.ip
    BY <1>1, <2>1 DEF WorkerRecords
  <2>4. OnlyDoubts /\ (past'[v.ip].sure > 0 => ~Contended(w, v.ip))
    <3>1. Contended(w, v.ip) => past'[v.ip].sure = 0
      BY <1>3, <2>2 DEF Begins
    <3> QED
      BY <1>3, <2>2, <3>1 DEF Begins
  <2>5. /\ Writing(u, v.ip) <=> Writing(v, v.ip)
        /\ Caching(u, v.ip) <=> Caching(v, v.ip)
        /\ past[v.ip].sure > 0 /\ Working(u) = v.ip =>
             Hand(u, past[v.ip], disk[v.ip], IF u.rec = Nil THEN NoRecord ELSE heap[u.rec])
    BY <2>2, <2>3 DEF Writing, Caching, Hand
  <2> QED
    BY <1>0, <2>2, <2>3, <2>4, <2>5, QuietStep
<1>7. CASE HangUp(w) \/ RefuseConnection(w)
  <2>1. /\ Becomes(w, IdleWorker) /\ v.pc \in {"password", "verdict"} /\ v.ip \in IPs
        /\ UNCHANGED <<disk, heap, cleaner, lru, past>>
    BY <1>0, <1>1, <1>7 DEF HangUp, RefuseConnection, At, history
  <2>2. /\ IdleWorker.ip = Nil /\ Working(IdleWorker) # v.ip
        /\ ~Writing(IdleWorker, v.ip) /\ ~Caching(IdleWorker, v.ip)
    BY <2>1, PtrsType DEF IdleWorker, Working, Writing, Caching
  <2>3. ~Writing(v, v.ip) /\ ~Caching(v, v.ip)
    BY <2>1 DEF Writing, Caching
  <2> QED
    BY <1>0, <1>2, <2>1, <2>2, <2>3, QuietStep
<1>8. CASE AdmitConnection(w) \/ RefusePassword(w)
  <2>1. PICK u : /\ Becomes(w, u)
                 /\ u \in {[v EXCEPT !.pc = "password", !.op = "check", !.rec = Nil],
                           [v EXCEPT !.pc = "password", !.rec = Nil]}
    BY <1>0, <1>8 DEF AdmitConnection, RefusePassword
  <2>2. /\ v.pc = "verdict" /\ v.ip \in IPs /\ UNCHANGED <<disk, heap, cleaner, lru, past>>
    BY <1>0, <1>1, <1>8 DEF AdmitConnection, RefusePassword, At, history
  <2>3. u.pc = "password" /\ u.ip = v.ip
    BY <1>1, <2>1 DEF WorkerRecords
  <2>4. /\ Writing(u, v.ip) <=> Writing(v, v.ip)
        /\ Caching(u, v.ip) <=> Caching(v, v.ip)
        /\ Working(u) # v.ip
    BY <2>2, <2>3, PtrsType DEF Writing, Caching, Working
  <2> QED
    BY <1>0, <1>2, <2>1, <2>2, <2>3, <2>4, QuietStep
<1>9. CASE WrongPassword(w) \/ RightPassword(w) \/ RecordFailure(w) \/ LookupMiss(w)
  <2>1. PICK u : /\ Becomes(w, u)
                 /\ u \in {[v EXCEPT !.pc = "failed", !.rec = Nil],
                           [v EXCEPT !.pc = "delete", !.rec = Nil],
                           [v EXCEPT !.pc = "lookup", !.op = "record", !.at = now],
                           [v EXCEPT !.pc = "view"]}
    BY <1>0, <1>9 DEF WrongPassword, RightPassword, RecordFailure, LookupMiss
  <2>2. /\ v.pc \in {"verdict", "failed", "lookup"} /\ v.ip \in IPs
        /\ UNCHANGED <<disk, heap, cleaner, lru, past>>
    BY <1>0, <1>1, <1>9
       DEF WrongPassword, RightPassword, RecordFailure, LookupMiss, At, history
  <2>3. u.pc \in {"failed", "delete", "lookup", "view"} /\ u.ip = v.ip
    BY <1>1, <2>1 DEF WorkerRecords
  <2>4. /\ Writing(u, v.ip) <=> Writing(v, v.ip)
        /\ Caching(u, v.ip) <=> Caching(v, v.ip)
        /\ Working(v) = v.ip
        /\ Hand(u, past[v.ip], disk[v.ip], IF u.rec = Nil THEN NoRecord ELSE heap[u.rec])
    BY <2>2, <2>3 DEF Writing, Caching, Working, Hand
  <2> QED
    BY <1>0, <1>2, <2>1, <2>2, <2>3, <2>4, QuietStep
<1>10. CASE LookupHit(w)
  <2>1. PICK u : u = [v EXCEPT !.pc = Continue(v.op), !.rec = lru.item[v.ip]]
    OBVIOUS
  <2>2. /\ Becomes(w, u) /\ v.pc = "lookup" /\ v.ip \in IPs /\ lru.item[v.ip] # Nil
        /\ UNCHANGED <<disk, heap, cleaner, past>> /\ lru'.item = lru.item
    <3>1. lru' = CacheGet(lru, v.ip)
      BY <1>0, <1>10 DEF LookupHit
    <3>2. lru'.item = lru.item
      BY <3>1 DEF CacheGet
    <3> QED
      BY <1>0, <1>1, <1>10, <2>1, <3>2 DEF LookupHit, At, history
  <2>3. u.pc \in {"load", "verdict"} /\ u.ip = v.ip /\ u.rec = lru.item[v.ip]
    BY <1>1, <2>1 DEF WorkerRecords, Continue
  <2>4. /\ Writing(u, v.ip) <=> Writing(v, v.ip)
        /\ Caching(u, v.ip) <=> Caching(v, v.ip)
        /\ Working(v) = v.ip
    BY <2>2, <2>3 DEF Writing, Caching, Working
  <2>5. past[v.ip].sure > 0 =>
          Hand(u, past[v.ip], disk[v.ip], IF u.rec = Nil THEN NoRecord ELSE heap[u.rec])
    BY <1>4, <2>2, <2>3, <2>4 DEF Hand
  <2> QED
    BY <1>0, <1>2, <2>2, <2>3, <2>4, <2>5, QuietStep
<1>11. CASE View(w)
  <2>1. PICK u : u = [v EXCEPT !.pc = "parse", !.data = disk[v.ip]]
    OBVIOUS
  <2>2. /\ Becomes(w, u) /\ v.pc = "view" /\ v.ip \in IPs
        /\ UNCHANGED <<disk, heap, cleaner, past, lru>>
    BY <1>0, <1>1, <1>11, <2>1 DEF View, At, history
  <2>3. u.pc = "parse" /\ u.ip = v.ip /\ u.data = disk[v.ip]
    BY <1>1, <2>1 DEF WorkerRecords
  <2>4. /\ Writing(u, v.ip) <=> Writing(v, v.ip)
        /\ Caching(u, v.ip) <=> Caching(v, v.ip)
        /\ Working(v) = v.ip
        /\ Hand(u, past[v.ip], disk[v.ip], IF u.rec = Nil THEN NoRecord ELSE heap[u.rec])
    BY <2>2, <2>3 DEF Writing, Caching, Working, Hand
  <2> QED
    BY <1>0, <1>2, <2>2, <2>3, <2>4, QuietStep
<1>12. CASE Load(w)
  <2>1. PICK u, n : /\ n = heap[v.rec].FailCount
                    /\ u = [v EXCEPT !.pc = "store", !.count = n]
    OBVIOUS
  <2>2. /\ Becomes(w, u) /\ v.pc = "load" /\ v.ip \in IPs /\ v.rec # Nil
        /\ UNCHANGED <<disk, heap, cleaner, past, lru>>
    BY <1>0, <1>1, <1>12, <2>1 DEF Load, At, history, WorkerSound, InHand
  <2>3. u.pc = "store" /\ u.ip = v.ip /\ u.count = n
    BY <1>1, <2>1 DEF WorkerRecords
  <2>4. /\ Writing(u, v.ip) <=> Writing(v, v.ip)
        /\ Caching(u, v.ip) <=> Caching(v, v.ip)
        /\ Working(v) = v.ip
    BY <2>2, <2>3 DEF Writing, Caching, Working
  <2>5. past[v.ip].sure > 0 =>
          Hand(u, past[v.ip], disk[v.ip], IF u.rec = Nil THEN NoRecord ELSE heap[u.rec])
    BY <1>4, <2>1, <2>2, <2>3, <2>4 DEF Hand, Kept
  <2> QED
    BY <1>0, <1>2, <2>2, <2>3, <2>4, <2>5, QuietStep
<1>13. CASE Marshal(w)
  <2>1. PICK u, d : /\ d = heap[v.rec]
                    /\ u = [v EXCEPT !.pc = "commit", !.data = d]
    OBVIOUS
  <2>2. /\ Becomes(w, u) /\ v.pc = "marshal" /\ v.ip \in IPs /\ v.rec # Nil
        /\ UNCHANGED <<disk, heap, cleaner, past, lru>>
    BY <1>0, <1>1, <1>13, <2>1 DEF Marshal, At, history, WorkerSound, InHand
  <2>3. u.pc = "commit" /\ u.ip = v.ip /\ u.data = d /\ u.rec = v.rec
    BY <1>1, <2>1 DEF WorkerRecords
  <2>4. /\ Writing(u, v.ip) <=> Writing(v, v.ip)
        /\ Caching(u, v.ip) <=> Caching(v, v.ip)
        /\ Working(v) = v.ip
    BY <2>2, <2>3 DEF Writing, Caching, Working
  <2>5. past[v.ip].sure > 0 =>
          Hand(u, past[v.ip], disk[v.ip], IF u.rec = Nil THEN NoRecord ELSE heap[u.rec])
    BY <1>4, <2>1, <2>2, <2>3, <2>4 DEF Hand
  <2> QED
    BY <1>0, <1>2, <2>2, <2>3, <2>4, <2>5, QuietStep
<1> QED
  BY <1>5, <1>6, <1>7, <1>8, <1>9, <1>10, <1>11, <1>12, <1>13

(* A record that is none keeps no failure.                                 *)
LEMMA NoneKept ==
  ASSUME IInv, NEW i \in IPs, past[i].sure > 0
  PROVE  ~Kept(NoRecord, past[i])
<1>1. past[i].sure \in Nat
  BY SharedFacts DEF Pasts
<1> QED
  BY <1>1, NewRecordType DEF Kept

(* getRecord finds nothing only for an IP without sure failures.           *)
LEMMA SecureWithoutRecord ==
  ASSUME IInv, AllSecure, NEW w \in Workers, ViewNothing(w) \/ Garbled(w)
  PROVE  AllSecure'
<1>0. PICK v, i : v = worker[w] /\ i = worker[w].ip
  OBVIOUS
<1>1. v \in WorkerRecords /\ v.pc \in {"view", "parse"} /\ i \in IPs /\ Working(v) = i
  BY <1>0, WorkerFacts DEF ViewNothing, Garbled, At, Working
<1>2. /\ UNCHANGED <<disk, lru, cleaner>> /\ OnlyDoubts /\ WithoutRecord(w)
  BY UnsureFacts, SameFacts DEF ViewNothing, Garbled, history, IInv
<1>3. /\ \A q \in Ptrs : Referenced(q) => heap'[q] = heap[q]
      /\ \E u : Becomes(w, u) /\ u.ip = i
  <2>1. PICK x : x = [v EXCEPT !.data = NoRecord, !.updates = 0]
    OBVIOUS
  <2>2. x.ip = i /\ x \in WorkerRecords
    <3>1. x \in WorkerRecords
      BY <1>1, <2>1, RecordFields, FieldTypes, NewRecordType
    <3> QED
      BY <1>0, <1>1, <2>1, <3>1 DEF WorkerRecords
  <2>3. CASE x.op = "record"
    <3>1. PICK p \in Ptrs : /\ Fresh(p) /\ Allocate(p, NewRecord(x.ip))
                            /\ Becomes(w, [x EXCEPT !.pc = "load", !.rec = p])
      BY <1>0, <1>2, <2>1, <2>3 DEF WithoutRecord
    <3>2. NewRecord(x.ip) \in Records
      BY <1>1, <2>2, NewRecordType
    <3>3. [x EXCEPT !.pc = "load", !.rec = p].ip = i
      BY <2>2 DEF WorkerRecords
    <3> QED
      BY <3>1, <3>2, <3>3, AllocateFacts
  <2>4. CASE x.op # "record"
    <3>1. Becomes(w, [x EXCEPT !.pc = "verdict"]) /\ heap' = heap
      BY <1>0, <1>2, <2>1, <2>4 DEF WithoutRecord
    <3>2. [x EXCEPT !.pc = "verdict"].ip = i
      BY <2>2 DEF WorkerRecords
    <3> QED
      BY <3>1, <3>2
  <2> QED
    BY <2>3, <2>4
<1>4. worker'[w].ip = i /\ \A x \in Workers \ {w} : worker'[x] = worker[x]
  BY <1>3 DEF Becomes, IInv, TypeOK
<1>5. \A j \in IPs \ {i} : Secure(j)'
  BY <1>0, <1>1, <1>2, <1>3, <1>4, OtherIPs DEF Alike, OnlyDoubts
<1>6. ~(past'[i].sure > 0)
  <2>1. CASE Garbled(w)
    BY <1>0, <1>1, <2>1, UnsureFacts DEF Garbled, IInv
  <2>2. CASE ViewNothing(w) /\ past[i].sure > 0
    <3>1. Kept(NoRecord, past[i])
      <4>1. ~Writing(v, i) /\ disk[i] = NoRecord
        BY <1>0, <1>1, <2>2 DEF Writing, ViewNothing, At
      <4> QED
        BY <1>0, <1>1, <2>2, <4>1, AloneFacts
    <3> QED
      BY <1>1, <2>2, <3>1, NoneKept
  <2>3. ViewNothing(w) => past' = past
    BY DEF ViewNothing, history
  <2> QED
    BY <2>1, <2>2, <2>3
<1> QED
  BY <1>5, <1>6 DEF AllSecure, Secure

(* A record read back has the sure failures the database had.              *)
LEMMA SecureBackfill ==
  ASSUME IInv, AllSecure, NEW w \in Workers, Backfill(w)
  PROVE  AllSecure'
<1>0. PICK v, i : v = worker[w] /\ i = worker[w].ip
  OBVIOUS
<1>1. v \in WorkerRecords /\ v.pc = "parse" /\ i \in IPs /\ Working(v) = i /\ v.rec = Nil
  BY <1>0, WorkerFacts DEF Backfill, At, Working, WorkerSound, InHand
<1>2. PICK r \in Bytes(w) \ {NoRecord}, p \in Ptrs :
        /\ Fresh(p) /\ Allocate(p, r) /\ lru' = CachePut(lru, i, p, LRUSize)
        /\ Becomes(w, [v EXCEPT !.pc = Continue(v.op), !.rec = p,
                                !.data = NoRecord, !.updates = 0])
        /\ past' = IF r = v.data THEN past
                   ELSE [past EXCEPT ![i] = [@ EXCEPT !.misread = TRUE, !.sure = 0]]
  BY <1>0 DEF Backfill
<1>3. UNCHANGED <<disk, cleaner>> /\ past \in [IPs -> Pasts]
  BY SharedFacts DEF Backfill
<1>4. PICK u : u = [v EXCEPT !.pc = Continue(v.op), !.rec = p, !.data = NoRecord,
                             !.updates = 0]
  OBVIOUS
<1>5. u.pc \in {"load", "verdict"} /\ u.ip = i /\ u.rec = p
  BY <1>0, <1>1, <1>4 DEF WorkerRecords, Continue
<1>6. worker'[w] = u /\ \A x \in Workers \ {w} : worker'[x] = worker[x]
  BY <1>2, <1>4 DEF Becomes, IInv, TypeOK
<1>7. r \in Records
  BY <1>0, <1>1, <1>2, SharedFacts, WorkerFacts DEF Bytes, Records
<1>8. heap'[p] = r /\ \A q \in Ptrs : Referenced(q) => heap'[q] = heap[q]
  BY <1>2, <1>7, AllocateFacts
<1>9. lru'.item[i] \in {Nil, p} /\ \A j \in IPs \ {i} : lru'.item[j] \in {Nil, lru.item[j]}
  BY <1>1, <1>2, PutItems
<1>10. \A j \in IPs \ {i} : Secure(j)'
  <2>1. \A j \in IPs \ {i} : past'[j] = past[j]
    BY <1>2, <1>3
  <2> QED
    BY <1>0, <1>1, <1>3, <1>5, <1>6, <1>8, <1>9, <2>1, OtherIPs DEF Alike
<1>11. CASE r # v.data
  <2>1. past'[i].sure = 0
    BY <1>1, <1>2, <1>3, <1>11 DEF Pasts
  <2> QED
    BY <1>10, <2>1 DEF AllSecure, Secure
<1>12. CASE r = v.data /\ past[i].sure > 0
  <2>1. /\ i \notin cleaner.todo /\ cleaner.ip # i /\ r = disk[i]
        /\ \A x \in Workers \ {w} : Working(worker[x]) # i
        /\ Kept(r, past[i])
    <3>1. ~Writing(v, i)
      BY <1>1 DEF Writing
    <3> QED
      BY <1>0, <1>1, <1>12, <3>1, AloneFacts DEF Hand
  <2>2. RecordOf(worker[w])' = r
    BY <1>5, <1>6, <1>8, PtrsType DEF RecordOf
  <2>3. Hand(u, past[i], disk[i], r)
    BY <1>5, <2>1, PtrsType DEF Hand
  <2>4. past' = past
    BY <1>2, <1>12
  <2>5. Secure(i)'
    BY <1>1, <1>3, <1>6, <1>8, <1>9, <2>1, <2>2, <2>3, <2>4, OwnStep
  <2> QED
    BY <1>10, <2>5 DEF AllSecure
<1>13. CASE r = v.data /\ ~(past[i].sure > 0)
  BY <1>2, <1>10, <1>13 DEF AllSecure, Secure
<1> QED
  BY <1>11, <1>12, <1>13

(* A failure is counted on top of every sure one, and is the latest if it  *)
(* is sure itself.                                                         *)
LEMMA SecureStore ==
  ASSUME IInv, AllSecure, NEW w \in Workers, Store(w)
  PROVE  AllSecure'
<1>0. PICK v, i : v = worker[w] /\ i = worker[w].ip
  OBVIOUS
<1>1. /\ v \in WorkerRecords /\ v.pc = "store" /\ i \in IPs /\ Working(v) = i
      /\ v.rec \in Ptrs /\ v.rec # Nil /\ v.count \in Nat /\ v.at \in Nat
  BY <1>0, WorkerFacts, PtrsType DEF Store, At, Working, InHand
<1>2. PICK x, n, t : x = heap[v.rec] /\ n = v.count + 1 /\ t = v.at
  OBVIOUS
<1>3. x \in Records /\ x.ip = i /\ n \in Nat /\ t \in Nat
  BY <1>0, <1>1, <1>2, RecFacts
<1>4. PICK r : r = [x EXCEPT !.FailCount = n, !.LastFailAt = t]
  OBVIOUS
<1>5. r.FailCount = n /\ r.LastFailAt = t
  BY <1>3, <1>4 DEF Records
<1>6. PICK u : u = [v EXCEPT !.pc = "judge", !.count = 0]
  OBVIOUS
<1>7. u.pc = "judge" /\ u.ip = i /\ u.rec = v.rec /\ u.at = t
  BY <1>0, <1>1, <1>2, <1>6 DEF WorkerRecords
<1>8. /\ heap' = [heap EXCEPT ![v.rec] = r] /\ Becomes(w, u) /\ Recorded(w)
      /\ UNCHANGED <<disk, lru, cleaner>>
  BY <1>0, <1>2, <1>4, <1>6 DEF Store
<1>9. worker'[w] = u /\ \A y \in Workers \ {w} : worker'[y] = worker[y]
  BY <1>8 DEF Becomes, IInv, TypeOK
<1>10. heap'[v.rec] = r /\ \A q \in Ptrs \ {v.rec} : heap'[q] = heap[q]
  BY <1>1, <1>8, SharedFacts
<1>11. /\ \A j \in IPs \ {i} : past'[j] = past[j]
       /\ past'[i].sure > 0 => /\ ~Contended(w, i) /\ past'[i].last = t
                               /\ past'[i].sure = past[i].sure + 1
  BY <1>0, <1>1, <1>2, <1>8, RecordedFacts
<1>12. \A j \in IPs \ {i} : Secure(j)'
  BY <1>0, <1>1, <1>2, <1>3, <1>7, <1>8, <1>9, <1>10, <1>11, OtherIPs DEF Alike
<1>13. CASE past'[i].sure > 0
  <2>1. past[i].sure \in Nat /\ past'[i].sure = past[i].sure + 1 /\ past'[i].last = t
    BY <1>1, <1>11, <1>13, SharedFacts DEF Pasts
  <2>2. /\ i \notin cleaner.todo /\ cleaner.ip # i
        /\ \A y \in Workers \ {w} : Working(worker[y]) # i
    BY <1>11, <1>13 DEF Contended
  <2>3. n >= past'[i].sure
    <3>1. past[i].sure > 0 => v.count >= past[i].sure
      BY <1>0, <1>1, AloneFacts DEF Hand
    <3> QED
      BY <1>1, <1>2, <2>1, <3>1
  <2>4. Hand(u, past'[i], disk[i], r) /\ Writing(u, i) /\ Caching(u, i)
    BY <1>5, <1>7, <2>1, <2>3 DEF Hand, Writing, Caching
  <2>5. RecordOf(worker[w])' = r
    BY <1>1, <1>7, <1>9, <1>10 DEF RecordOf
  <2>6. Secure(i)'
    BY <1>1, <1>8, <1>9, <2>2, <2>4, <2>5, OwnStep
  <2> QED
    BY <1>12, <2>6 DEF AllSecure
<1>14. CASE ~(past'[i].sure > 0)
  BY <1>12, <1>14 DEF AllSecure, Secure
<1> QED
  BY <1>13, <1>14

(* Enough sure failures make a block from the latest of them.              *)
LEMMA SecureJudge ==
  ASSUME IInv, AllSecure, NEW w \in Workers, Judge(w)
  PROVE  AllSecure'
<1>0. PICK v, i : v = worker[w] /\ i = worker[w].ip
  OBVIOUS
<1>1. /\ v \in WorkerRecords /\ v.pc = "judge" /\ i \in IPs /\ Working(v) = i
      /\ v.rec \in Ptrs /\ v.rec # Nil
  BY <1>0, WorkerFacts, PtrsType DEF Judge, At, Working, InHand
<1>2. PICK x : x = heap[v.rec]
  OBVIOUS
<1>3. x \in Records /\ x.ip = i /\ MaxFailures \in Nat
  BY <1>0, <1>1, <1>2, RecFacts, BlockerAssumption
<1>4. PICK r : r = IF Reached(x) THEN [x EXCEPT !.BlockedUntil = v.at + BlockDur] ELSE x
  OBVIOUS
<1>5. /\ r.FailCount = x.FailCount /\ r.LastFailAt = x.LastFailAt
      /\ x.FailCount >= MaxFailures => r.BlockedUntil = v.at + BlockDur
  BY <1>3, <1>4 DEF Records, Reached
<1>6. PICK u : u = [v EXCEPT !.pc = "marshal", !.at = 0]
  OBVIOUS
<1>7. u.pc = "marshal" /\ u.ip = i /\ u.rec = v.rec
  BY <1>0, <1>1, <1>6 DEF WorkerRecords
<1>8. /\ heap' = [heap EXCEPT ![v.rec] = r] /\ Becomes(w, u)
      /\ UNCHANGED <<disk, lru, cleaner, past>>
  <2>1. [heap EXCEPT ![v.rec] = heap[v.rec]] = heap
    BY <1>1, SharedFacts
  <2> QED
    BY <1>0, <1>2, <1>4, <1>6, <2>1 DEF Judge, history
<1>9. worker'[w] = u /\ \A y \in Workers \ {w} : worker'[y] = worker[y]
  BY <1>8 DEF Becomes, IInv, TypeOK
<1>10. heap'[v.rec] = r /\ \A q \in Ptrs \ {v.rec} : heap'[q] = heap[q]
  BY <1>1, <1>8, SharedFacts
<1>11. \A j \in IPs \ {i} : Secure(j)'
  BY <1>0, <1>1, <1>2, <1>3, <1>7, <1>8, <1>9, <1>10, OtherIPs DEF Alike
<1>12. CASE past[i].sure > 0
  <2>1. /\ i \notin cleaner.todo /\ cleaner.ip # i
        /\ \A y \in Workers \ {w} : Working(worker[y]) # i
        /\ x.FailCount >= past[i].sure /\ x.LastFailAt = past[i].last
        /\ v.at = past[i].last
    BY <1>0, <1>1, <1>2, <1>12, AloneFacts DEF Hand, RecordOf
  <2>2. past[i].sure >= MaxFailures => x.FailCount >= MaxFailures
    <3>1. past[i].sure \in Nat /\ x.FailCount \in Nat
      BY <1>1, <1>3, SharedFacts DEF Pasts, Records
    <3> QED
      BY <1>3, <2>1, <3>1
  <2>3. Kept(r, past[i])
    BY <1>5, <2>1, <2>2 DEF Kept
  <2>4. Hand(u, past[i], disk[i], r) /\ Writing(u, i) /\ Caching(u, i)
    BY <1>7, <2>3 DEF Hand, Writing, Caching
  <2>5. RecordOf(worker[w])' = r
    BY <1>1, <1>7, <1>9, <1>10 DEF RecordOf
  <2>6. Secure(i)'
    BY <1>1, <1>8, <1>9, <2>1, <2>4, <2>5, OwnStep
  <2> QED
    BY <1>11, <2>6 DEF AllSecure
<1>13. CASE ~(past[i].sure > 0)
  BY <1>8, <1>11, <1>13 DEF AllSecure, Secure
<1> QED
  BY <1>12, <1>13

(* The cache gets the record that the database got.                        *)
LEMMA SecureCache ==
  ASSUME IInv, AllSecure, NEW w \in Workers, Cache(w)
  PROVE  AllSecure'
<1>0. PICK v, i : v = worker[w] /\ i = worker[w].ip
  OBVIOUS
<1>1. /\ v \in WorkerRecords /\ v.pc = "cache" /\ i \in IPs /\ Working(v) = i
      /\ v.rec \in Ptrs /\ v.rec # Nil
  BY <1>0, WorkerFacts, PtrsType DEF Cache, At, Working, InHand
<1>2. PICK u : u = [v EXCEPT !.pc = "password", !.op = "check", !.rec = Nil]
  OBVIOUS
<1>3. u.pc = "password" /\ u.ip = i /\ u.rec = Nil /\ Working(u) # i
  BY <1>0, <1>1, <1>2, PtrsType DEF WorkerRecords, Working
<1>4. /\ lru' = CachePut(lru, i, v.rec, LRUSize) /\ Becomes(w, u)
      /\ UNCHANGED <<disk, heap, cleaner, past>>
  BY <1>0, <1>2 DEF Cache, history
<1>5. worker'[w] = u /\ \A y \in Workers \ {w} : worker'[y] = worker[y]
  BY <1>4 DEF Becomes, IInv, TypeOK
<1>6. /\ lru'.item[i] \in {Nil, v.rec}
      /\ \A j \in IPs \ {i} : lru'.item[j] \in {Nil, lru.item[j]}
  BY <1>1, <1>4, PutItems
<1>7. \A j \in IPs \ {i} : Secure(j)'
  BY <1>0, <1>1, <1>3, <1>4, <1>5, <1>6, OtherIPs DEF Alike
<1>8. CASE past[i].sure > 0
  <2>1. /\ i \notin cleaner.todo /\ cleaner.ip # i
        /\ \A y \in Workers \ {w} : Working(worker[y]) # i
        /\ Kept(disk[i], past[i]) /\ Kept(heap[v.rec], past[i])
    <3>1. ~Writing(v, i)
      BY <1>1 DEF Writing
    <3> QED
      BY <1>0, <1>1, <1>8, <3>1, AloneFacts DEF Hand, RecordOf
  <2>2. PICK r : RecordOf(worker[w])' = r
    OBVIOUS
  <2>3. Secure(i)'
    BY <1>1, <1>3, <1>4, <1>5, <1>6, <2>1, <2>2, OwnStep
  <2> QED
    BY <1>7, <2>3 DEF AllSecure
<1>9. CASE ~(past[i].sure > 0)
  BY <1>4, <1>7, <1>9 DEF AllSecure, Secure
<1> QED
  BY <1>8, <1>9

(* What an update of the database changes.                                 *)
LEMMA UpdatedChanges ==
  ASSUME IInv, NEW i \in IPs, NEW r, NEW ws \in [Workers -> WorkerRecords],
         Updated(i, r, ws)
  PROVE  /\ \A j \in IPs \ {i} : disk'[j] = disk[j]
         /\ \A x \in Workers : Alike(worker'[x], ws[x])
<1>1. \A j \in IPs \ {i} : disk'[j] = disk[j]
  BY SharedFacts DEF Updated
<1>2. ASSUME NEW x \in Workers
      PROVE  Alike(worker'[x], ws[x])
  <2>1. PICK v : v = ws[x]
    OBVIOUS
  <2>2. v \in WorkerRecords
    BY <2>1
  <2>3. worker'[x] = v \/ worker'[x] = [v EXCEPT !.updates = @ + 1]
    BY <2>1 DEF Updated
  <2> QED
    BY <2>1, <2>2, <2>3 DEF Alike, WorkerRecords
<1> QED
  BY <1>1, <1>2

(* The failure reaches the database, or is not sure any more.              *)
LEMMA SecureCommit ==
  ASSUME IInv, AllSecure, NEW w \in Workers, Commit(w)
  PROVE  AllSecure'
<1>0. PICK v, i : v = worker[w] /\ i = worker[w].ip
  OBVIOUS
<1>1. /\ v \in WorkerRecords /\ v.pc = "commit" /\ i \in IPs /\ Working(v) = i
      /\ v.rec \in Ptrs /\ v.rec # Nil
  BY <1>0, WorkerFacts, PtrsType DEF Commit, At, Working, InHand
<1>2. PICK u : u = [v EXCEPT !.pc = "cache", !.data = NoRecord]
  OBVIOUS
<1>3. u \in WorkerRecords /\ u.pc = "cache" /\ u.ip = i /\ u.rec = v.rec
  <2>1. u \in WorkerRecords
    BY <1>1, <1>2, WorkerFields, NewRecordType DEF WorkerStates
  <2> QED
    BY <1>0, <1>1, <1>2, <2>1 DEF WorkerRecords
<1>4. PICK ws : ws = [worker EXCEPT ![w] = u]
  OBVIOUS
<1>5. /\ ws \in [Workers -> WorkerRecords] /\ ws[w] = u
      /\ \A x \in Workers \ {w} : ws[x] = worker[x]
  BY <1>3, <1>4 DEF IInv, TypeOK
<1>6. /\ Updated(i, v.data, ws) /\ UNCHANGED <<lru, heap, cleaner>>
      /\ Unsure(IF disk'[i] = v.data THEN {} ELSE {i})
  BY <1>0, <1>2, <1>4 DEF Commit
<1>7. OnlyDoubts /\ (disk'[i] # v.data => past'[i].sure = 0)
  BY <1>1, <1>6, UnsureFacts DEF IInv
<1>8. /\ \A j \in IPs \ {i} : disk'[j] = disk[j]
      /\ Alike(worker'[w], u) /\ \A x \in Workers \ {w} : Alike(worker'[x], worker[x])
  BY <1>1, <1>5, <1>6, UpdatedChanges
<1>9. \A j \in IPs \ {i} : Secure(j)'
  BY <1>0, <1>1, <1>3, <1>6, <1>7, <1>8, OtherIPs DEF Alike, OnlyDoubts
<1>10. CASE past'[i] = past[i] /\ past[i].sure > 0
  <2>1. /\ i \notin cleaner.todo /\ cleaner.ip # i
        /\ \A x \in Workers \ {w} : Working(worker[x]) # i
        /\ v.data = heap[v.rec] /\ Kept(v.data, past[i])
    BY <1>0, <1>1, <1>10, AloneFacts DEF Hand, RecordOf
  <2>2. Kept(disk'[i], past[i])
    BY <1>7, <1>10, <2>1
  <2>3. \A x \in Workers \ {w} : Working(worker'[x]) # i
    BY <1>8, <2>1 DEF Alike, Working
  <2>4. PICK y, r : y = worker'[w] /\ r = heap[v.rec]
    OBVIOUS
  <2>5. y.pc = "cache" /\ y.ip = i /\ y.rec = v.rec /\ RecordOf(worker[w])' = r
    BY <1>1, <1>3, <1>6, <1>8, <2>4 DEF Alike, RecordOf
  <2>6. Caching(y, i) /\ Hand(y, past[i], disk'[i], r)
    BY <2>1, <2>4, <2>5 DEF Caching, Hand
  <2>7. Secure(i)'
    <3>1. cleaner' = cleaner /\ past'[i] = past[i] /\ worker'[w] = y
      BY <1>6, <1>10, <2>4
    <3>2. i \notin cleaner'.todo /\ cleaner'.ip # i
      BY <2>1, <3>1
    <3> QED
      BY <1>1, <2>2, <2>3, <2>5, <2>6, <3>1, <3>2, OwnStep
  <2> QED
    BY <1>9, <2>7 DEF AllSecure
<1>11. CASE ~(past'[i] = past[i] /\ past[i].sure > 0)
  <2>1. ~(past'[i].sure > 0)
    BY <1>1, <1>7, <1>11 DEF OnlyDoubts
  <2> QED
    BY <1>9, <2>1 DEF AllSecure, Secure
<1> QED
  BY <1>10, <1>11

(* A login takes the record out of the database and out of the cache.      *)
LEMMA SecureReset ==
  ASSUME IInv, AllSecure, NEW w \in Workers, Delete(w) \/ Remove(w)
  PROVE  AllSecure'
<1>0. PICK v, i : v = worker[w] /\ i = worker[w].ip
  OBVIOUS
<1>1. v \in WorkerRecords /\ v.pc \in {"delete", "remove"} /\ i \in IPs
  BY <1>0, WorkerFacts DEF Delete, Remove, At
<1>2. CASE Delete(w)
  <2>1. PICK u, ws : u = [v EXCEPT !.pc = "remove"] /\ ws = [worker EXCEPT ![w] = u]
    OBVIOUS
  <2>2. u \in WorkerRecords /\ u.ip = i
    <3>1. u \in WorkerRecords
      BY <1>1, <2>1, WorkerFields DEF WorkerStates
    <3> QED
      BY <1>0, <1>1, <2>1, <3>1 DEF WorkerRecords
  <2>3. /\ ws \in [Workers -> WorkerRecords] /\ ws[w] = u
        /\ \A x \in Workers \ {w} : ws[x] = worker[x]
    BY <2>1, <2>2 DEF IInv, TypeOK
  <2>4. Updated(i, NoRecord, ws) /\ UNCHANGED <<lru, heap, cleaner>> /\ Unsure({i})
    BY <1>0, <1>2, <2>1 DEF Delete
  <2>5. OnlyDoubts /\ past'[i].sure = 0
    BY <1>1, <2>4, UnsureFacts DEF IInv
  <2>6. /\ \A j \in IPs \ {i} : disk'[j] = disk[j]
        /\ Alike(worker'[w], u) /\ \A x \in Workers \ {w} : Alike(worker'[x], worker[x])
    BY <1>1, <2>3, <2>4, UpdatedChanges
  <2>7. \A j \in IPs \ {i} : Secure(j)'
    BY <1>0, <1>1, <2>2, <2>4, <2>5, <2>6, OtherIPs DEF Alike, OnlyDoubts
  <2> QED
    BY <2>5, <2>7 DEF AllSecure, Secure
<1>3. CASE Remove(w)
  <2>1. /\ lru' = CacheRemove(lru, i) /\ UNCHANGED <<disk, heap, cleaner>>
        /\ Becomes(w, IdleWorker) /\ v.pc = "remove"
        /\ past' = IF Cleared(w, i) THEN [past EXCEPT ![i] = NoPast] ELSE past
    BY <1>0, <1>3 DEF Remove, At
  <2>2. worker'[w] = IdleWorker /\ \A x \in Workers \ {w} : worker'[x] = worker[x]
    BY <2>1 DEF Becomes, IInv, TypeOK
  <2>3. ASSUME NEW j \in IPs
        PROVE  past'[j] = past[j] \/ past'[j].sure = 0
    BY <1>1, <2>1, SharedFacts DEF NoPast
  <2>4. \A j \in IPs : lru'.item[j] \in {Nil, lru.item[j]}
    BY <1>1, <2>1, RemoveItems
  <2>5. \A j \in IPs : \A x \in Workers : Follows(x, j)
    <3>1. \A j \in IPs : Working(IdleWorker) # j /\ ~Caching(v, j)
      BY <2>1, PtrsType DEF IdleWorker, Working, Caching
    <3> QED
      BY <1>0, <2>1, <2>2, <3>1 DEF Follows, Alike
  <2> QED
    BY <2>1, <2>3, <2>4, <2>5, FrameStep DEF AllSecure
<1> QED
  BY <1>2, <1>3

(* The cleaner collects no IP whose sure failures block or are young.      *)
LEMMA SecureScan ==
  ASSUME IInv, AllSecure, CleanScan
  PROVE  AllSecure'
<1>1. PICK todo : todo = {ip \in IPs : Expired(disk[ip])}
  OBVIOUS
<1>2. /\ cleaner' = [cleaner EXCEPT !.pc = "delete", !.todo = todo]
      /\ UNCHANGED <<disk, lru, heap, worker>>
      /\ Unsure({ip \in todo : \/ \E w \in Workers : Working(worker[w]) = ip
                               \/ Outlived(past[ip])})
  BY <1>1 DEF CleanScan
<1>3. OnlyDoubts /\ \A ip \in todo : (\E w \in Workers : Working(worker[w]) = ip)
                                     \/ Outlived(past[ip]) => past'[ip].sure = 0
  BY <1>1, <1>2, UnsureFacts DEF IInv
<1>4. cleaner'.todo = todo /\ cleaner'.ip = cleaner.ip
  BY <1>2 DEF IInv, TypeOK, CleanerRecords
<1>5. ASSUME NEW ip \in IPs
      PROVE  Secure(ip)'
  <2>1. CASE past'[ip].sure = 0
    BY <2>1 DEF Secure
  <2>2. CASE past'[ip] = past[ip] /\ ~(past[ip].sure > 0)
    BY <2>2 DEF Secure
  <2>3. CASE past'[ip] = past[ip] /\ past[ip].sure > 0
    <3>1. PICK p, d : p = past[ip] /\ d = disk[ip]
      OBVIOUS
    <3>2. p \in Pasts /\ d \in Records /\ now \in Nat
      BY <3>1, SharedFacts
    <3>3. ip \notin todo
      <4> SUFFICES ASSUME ip \in todo PROVE FALSE
        OBVIOUS
      <4>1. p.sure > 0 /\ 0 # p.sure /\ ~Outlived(p)
        <5>1. p.sure \in Nat
          BY <3>2 DEF Pasts
        <5> QED
          BY <1>3, <2>3, <3>1, <5>1
      <4>2. \A w \in Workers : Working(worker[w]) # ip
        BY <1>3, <2>3, <3>1, <4>1
      <4>3. Kept(d, p)
        <5>1. \A w \in Workers : ~Writing(worker[w], ip)
          BY <4>2 DEF Writing, Working
        <5> QED
          BY <2>3, <3>1, <5>1 DEF AllSecure, Secure
      <4>4. Expired(d)
        BY <1>1, <3>1
      <4>5. /\ p.last \in Nat /\ BlockDur \in Nat \ {0}
            /\ p.last = 0 \/ p.last < now - RecordTTL
            /\ ~(d.BlockedUntil # 0 /\ now < d.BlockedUntil)
            /\ p.sure >= MaxFailures => d.BlockedUntil = p.last + BlockDur
        BY <3>2, <4>3, <4>4, BlockerAssumption DEF Pasts, Kept, Expired, IsBlocked
      <4>6. ~Enforced(p)
        BY <3>2, <4>5 DEF Enforced
      <4> QED
        BY <4>1, <4>5, <4>6 DEF Outlived
    <3>4. \A x \in Workers : Follows(x, ip)
      BY <1>2 DEF Follows, Alike
    <3> QED
      BY <1>2, <1>4, <2>3, <3>3, <3>4, FrameStep DEF AllSecure
  <2> QED
    BY <1>3, <2>1, <2>2, <2>3 DEF OnlyDoubts
<1> QED
  BY <1>5 DEF AllSecure

(* The cleaner deletes what it collected, and nothing else.                *)
LEMMA SecureClean ==
  ASSUME IInv, AllSecure, CleanRemove \/ \E ip \in IPs : CleanDelete(ip)
  PROVE  AllSecure'
<1>1. past' = past /\ heap' = heap
  BY DEF CleanRemove, CleanDelete, history
<1>2. /\ \A j \in IPs : lru'.item[j] \in {Nil, lru.item[j]}
      /\ \A j \in IPs \ cleaner.todo : disk'[j] = disk[j]
      /\ cleaner'.todo \subseteq cleaner.todo
      /\ cleaner'.ip \in IPs => cleaner'.ip \in cleaner.todo
      /\ \A x \in Workers : Alike(worker'[x], worker[x])
  <2>1. CASE CleanRemove
    <3>1. /\ lru' = CacheRemove(lru, cleaner.ip) /\ UNCHANGED <<disk, worker>>
          /\ cleaner.ip \in IPs
      BY <2>1 DEF CleanRemove, IInv, CleanerSound
    <3>2. cleaner'.todo = cleaner.todo /\ cleaner'.ip = Nil
      BY <2>1 DEF CleanRemove, IInv, TypeOK, CleanerRecords, IdleCleaner
    <3> QED
      BY <3>1, <3>2, RemoveItems, PtrsType DEF Alike
  <2>2. ASSUME NEW ip \in IPs, CleanDelete(ip)
        PROVE  /\ lru' = lru /\ \A j \in IPs \ cleaner.todo : disk'[j] = disk[j]
               /\ cleaner'.todo \subseteq cleaner.todo /\ cleaner'.ip \in cleaner.todo
               /\ \A x \in Workers : Alike(worker'[x], worker[x])
    <3>1. PICK ws : ws = worker
      OBVIOUS
    <3>2. /\ ws \in [Workers -> WorkerRecords] /\ Updated(ip, NoRecord, ws)
          /\ lru' = lru /\ ip \in cleaner.todo
          /\ cleaner'.todo = cleaner.todo \ {ip} /\ cleaner'.ip = ip
      BY <2>2, <3>1 DEF CleanDelete, IInv, TypeOK
    <3> QED
      BY <3>1, <3>2, UpdatedChanges
  <2> QED
    BY <2>1, <2>2
<1>3. ASSUME NEW ip \in IPs
      PROVE  Secure(ip)'
  <2>1. CASE past[ip].sure > 0
    <3>1. ip \notin cleaner.todo
      BY <2>1 DEF AllSecure, Secure
    <3>2. \A x \in Workers : Follows(x, ip)
      BY <1>1, <1>2 DEF Follows
    <3> QED
      BY <1>1, <1>2, <3>1, <3>2, FrameStep DEF AllSecure
  <2>2. CASE ~(past[ip].sure > 0)
    BY <1>1, <2>2 DEF Secure
  <2> QED
    BY <2>1, <2>2
<1> QED
  BY <1>3 DEF AllSecure

(* A restart forgets no sure failure that the database has.                *)
LEMMA SecureRestart ==
  ASSUME IInv, AllSecure, Restart
  PROVE  AllSecure'
<1>1. /\ lru' = EmptyCache(IPs) /\ worker' = [w \in Workers |-> IdleWorker]
      /\ cleaner' = IdleCleaner /\ disk' = disk
      /\ Unsure({worker[w].ip : w \in {x \in Workers :
                                  worker[x].pc \in {"judge", "marshal", "commit"}}})
  BY DEF Restart
<1>2. OnlyDoubts /\ \A ip \in IPs : (\E w \in Workers : Writing(worker[w], ip)) =>
                                      past'[ip].sure = 0
  <2>1. ASSUME NEW ip \in IPs, NEW w \in Workers, Writing(worker[w], ip)
        PROVE  ip \in {worker[x].ip : x \in {y \in Workers :
                         worker[y].pc \in {"judge", "marshal", "commit"}}}
    BY <2>1 DEF Writing
  <2> QED
    BY <1>1, <2>1, UnsureFacts DEF IInv
<1>3. /\ \A ip \in IPs : lru'.item[ip] = Nil
      /\ \A w \in Workers : worker'[w].pc = "idle"
      /\ cleaner'.todo = {} /\ cleaner'.ip = Nil
  BY <1>1 DEF EmptyCache, IdleWorker, IdleCleaner
<1>4. ASSUME NEW ip \in IPs, past'[ip].sure > 0
      PROVE  /\ ip \notin cleaner'.todo /\ cleaner'.ip # ip /\ lru'.item[ip] = Nil
             /\ Kept(disk'[ip], past'[ip])
             /\ \A w \in Workers : Working(worker'[w]) # ip
  <2>1. past'[ip] = past[ip] /\ \A w \in Workers : ~Writing(worker[w], ip)
    BY <1>2, <1>4 DEF OnlyDoubts
  <2>2. Kept(disk[ip], past[ip])
    BY <1>4, <2>1 DEF AllSecure, Secure
  <2> QED
    BY <1>1, <1>3, <2>1, <2>2, PtrsType DEF Working
<1> QED
  BY <1>4 DEF AllSecure, Secure, Kept, Working

(* Every step keeps the sure failures.                                     *)
LEMMA SecureStep == IInv /\ AllSecure /\ [Next]_vars => AllSecure'
<1> SUFFICES ASSUME IInv, AllSecure, [Next]_vars PROVE AllSecure'
  OBVIOUS
<1>1. ASSUME NEW w \in Workers, WorkerStep(w)
      PROVE  AllSecure'
  <2>1. CASE \/ \E ip \in IPs : Connect(w, ip)
             \/ Password(w) \/ HangUp(w) \/ RefuseConnection(w) \/ AdmitConnection(w)
             \/ RefusePassword(w) \/ WrongPassword(w) \/ RightPassword(w)
             \/ RecordFailure(w) \/ LookupMiss(w) \/ View(w) \/ Load(w) \/ Marshal(w)
             \/ LookupHit(w)
    BY <2>1, QuietSteps
  <2>2. CASE ViewNothing(w) \/ Garbled(w)
    BY <2>2, SecureWithoutRecord
  <2>3. CASE Delete(w) \/ Remove(w)
    BY <2>3, SecureReset
  <2> QED
    BY <1>1, <2>1, <2>2, <2>3, SecureBackfill, SecureStore, SecureJudge, SecureCommit,
       SecureCache DEF WorkerStep
<1>2. CASE CleanRemove \/ \E ip \in IPs : CleanDelete(ip)
  BY <1>2, SecureClean
<1>3. CASE Tick \/ UNCHANGED vars
  <2>1. UNCHANGED <<disk, lru, heap, worker, cleaner, past>>
    BY <1>3 DEF Tick, history, vars
  <2>2. \A ip \in IPs : \A x \in Workers : Follows(x, ip)
    BY <2>1 DEF Follows, Alike
  <2> QED
    BY <2>1, <2>2, FrameStep DEF AllSecure
<1> QED
  BY <1>1, <1>2, <1>3, SecureScan, SecureRestart DEF Next

LEMMA InitSecure == Init => AllSecure
BY DEF Init, NoPast, AllSecure, Secure

(* MaxFailures failures of an IP that were recorded one after another, no  *)
(* other connection of it or the cleaner at its record, and written, block *)
(* the IP for BlockDur from the latest: no connection is admitted and no   *)
(* password judged, for any number of connections and IPs and whatever     *)
(* came before or is evicted, deleted or restarted meanwhile.              *)
THEOREM SureFailuresBlock == Spec => BlockEnforced
<1>1. ASSUME IInv, AllSecure, NEW w \in Workers,
             AdmitConnection(w) \/ WrongPassword(w) \/ RightPassword(w)
      PROVE  ~Enforced(past[worker[w].ip])
  <2>1. PICK v, i, p, r : v = worker[w] /\ i = v.ip /\ p = past[i] /\ r = RecordOf(v)
    OBVIOUS
  <2>2. v.pc = "verdict" /\ i \in IPs /\ Working(v) = i /\ ~Blocked(w)
    BY <1>1, <2>1, WorkerFacts
       DEF AdmitConnection, WrongPassword, RightPassword, At, Working
  <2> SUFFICES ASSUME Enforced(p) PROVE FALSE
    BY <2>1
  <2>3. p.sure >= MaxFailures /\ now < p.last + BlockDur
    BY DEF Enforced
  <2>4. p \in Pasts /\ MaxFailures \in Nat \ {0} /\ BlockDur \in Nat \ {0}
    BY <1>1, <2>1, <2>2, SharedFacts, BlockerAssumption
  <2>5. p.sure > 0 /\ p.last \in Nat
    BY <2>3, <2>4 DEF Pasts
  <2>6. v.rec # Nil /\ Kept(r, p)
    BY <1>1, <2>1, <2>2, <2>5, AloneFacts DEF Hand
  <2>7. r = heap[v.rec] /\ r.BlockedUntil = p.last + BlockDur
    BY <2>1, <2>3, <2>6 DEF RecordOf, Kept
  <2>8. r.BlockedUntil # 0 /\ now < r.BlockedUntil
    BY <2>3, <2>4, <2>5, <2>7
  <2> QED
    BY <2>1, <2>2, <2>6, <2>7, <2>8 DEF Blocked, IsBlocked
<1>2. IInv /\ AllSecure /\ [Next]_vars =>
        [\A w \in Workers : AdmitConnection(w) \/ WrongPassword(w) \/ RightPassword(w) =>
           ~Enforced(past[worker[w].ip])]_vars
  BY <1>1
<1> QED
  BY <1>2, InitSecure, SecureStep, BlockerInvariant, PTL DEF Spec, BlockEnforced

=============================================================================
