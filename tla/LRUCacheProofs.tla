---------------------------- MODULE LRUCacheProofs ----------------------------
(***************************************************************************)
(* The cache under any calls, for any keys, records and capacity: it stays *)
(* within its bound, and what it evicts is what was used least recently.   *)
(* The invariant behind both is that the list is sorted by last use.       *)
(***************************************************************************)
EXTENDS LRUCache, LRUProofs, TLAPS

Sorted(s, st) == \A i, j \in 1..Len(s) : i < j => st[s[i]] > st[s[j]]

IInv ==
  /\ calls \in Nat
  /\ stamp \in [Keys -> 0..calls]
  /\ WellFormed(cache, Keys, Capacity)
  /\ Sorted(cache.order, stamp)

(* Using a key that is not in the list does not disturb it.                *)
LEMMA Restamp ==
  ASSUME NEW K, NEW u \in Seq(K), NEW k \in K, NEW n \in Nat, NEW st \in [K -> 0..n],
         ~Holds(u, k), Sorted(u, st)
  PROVE  Sorted(u, [st EXCEPT ![k] = n + 1])
<1>1. \A i \in 1..Len(u) : u[i] \in K /\ u[i] # k
  BY DEF Holds
<1> QED BY <1>1 DEF Sorted

(* A key just used belongs in front.                                       *)
LEMMA PushSorted ==
  ASSUME NEW K, NEW u \in Seq(K), NEW k \in K, NEW n \in Nat, NEW st \in [K -> 0..n],
         ~Holds(u, k), Sorted(u, st)
  PROVE  Sorted(<<k>> \o u, [st EXCEPT ![k] = n + 1])
<1> DEFINE st2 == [st EXCEPT ![k] = n + 1]
           t == <<k>> \o u
<1>1. \A i \in 1..Len(u) : u[i] \in K /\ u[i] # k
  BY DEF Holds
<1>2. st2[k] = n + 1 /\ \A x \in K : x # k => st2[x] = st[x] /\ st2[x] \in 0..n
  OBVIOUS
<1>3. Len(u) \in Nat /\ Len(t) = Len(u) + 1 /\ t[1] = k
  OBVIOUS
<1>4. \A j \in 2..Len(t) : j - 1 \in 1..Len(u) /\ t[j] = u[j - 1]
  OBVIOUS
<1> HIDE DEF st2, t
<1>5. ASSUME NEW i \in 1..Len(t), NEW j \in 1..Len(t), i < j
      PROVE  st2[t[i]] > st2[t[j]]
  <2>1. j \in 2..Len(t)
    BY <1>3, <1>5
  <2>2. /\ j - 1 \in 1..Len(u) /\ t[j] = u[j - 1] /\ t[j] \in K /\ t[j] # k
        /\ st2[t[j]] = st[u[j - 1]] /\ st2[t[j]] \in 0..n
    BY <2>1, <1>1, <1>2, <1>4
  <2>3. CASE i = 1
    BY <2>2, <2>3, <1>2, <1>3
  <2>4. CASE i # 1
    <3>1. i \in 2..Len(t)
      BY <2>4, <1>3
    <3>2. i - 1 \in 1..Len(u) /\ st2[t[i]] = st[u[i - 1]]
      BY <3>1, <1>1, <1>2, <1>4
    <3>3. i - 1 < j - 1
      BY <1>5, <1>3
    <3> QED BY <2>2, <3>2, <3>3 DEF Sorted
  <2> QED BY <2>3, <2>4
<1> QED BY <1>5 DEF Sorted, t, st2

(* Taking a key out leaves the others in their order.                      *)
LEMMA UnlinkSorted ==
  ASSUME NEW K, NEW s \in Seq(K), NEW k, Injective(s), Holds(s, k), NEW st, Sorted(s, st)
  PROVE  Sorted(Unlink(s, k), st)
<1> DEFINE n == Len(s)
           i == CHOOSE i \in 1..Len(s) : s[i] = k
           u == Unlink(s, k)
           f(x) == IF x < i THEN x ELSE x + 1
<1>1. i \in 1..n /\ n \in Nat
  BY DEF Holds
<1>2. u = [j \in 1..(n - 1) |-> IF j < i THEN s[j] ELSE s[j + 1]]
  BY DEF Unlink
<1>3. Len(u) = n - 1
  BY UnlinkFacts
<1> HIDE DEF i, n, u
<1>4. ASSUME NEW p \in 1..Len(u), NEW q \in 1..Len(u), p < q
      PROVE  st[u[p]] > st[u[q]]
  <2>1. /\ f(p) \in 1..n /\ f(q) \in 1..n /\ f(p) < f(q)
        /\ u[p] = s[f(p)] /\ u[q] = s[f(q)]
    BY <1>1, <1>2, <1>3, <1>4
  <2> HIDE DEF f
  <2> QED BY <2>1 DEF Sorted, n
<1> QED BY <1>4 DEF Sorted, u

(* MoveToFront of a key that is used.                                      *)
LEMMA MoveSorted ==
  ASSUME NEW K, NEW s \in Seq(K), NEW k \in K, NEW n \in Nat, NEW st \in [K -> 0..n],
         Injective(s), Holds(s, k), Sorted(s, st)
  PROVE  Sorted(MoveToFront(s, k), [st EXCEPT ![k] = n + 1])
<1>1. Unlink(s, k) \in Seq(K) /\ ~Holds(Unlink(s, k), k)
  BY UnlinkFacts
<1>2. Sorted(Unlink(s, k), st)
  BY UnlinkSorted
<1> QED BY <1>1, <1>2, PushSorted DEF MoveToFront

-----------------------------------------------------------------------------
LEMMA Means ==
  ASSUME WellFormed(cache, Keys, Capacity)
  PROVE  /\ cache.order \in Seq(Keys) /\ Len(cache.order) \in Nat
         /\ Len(cache.order) <= Capacity
         /\ Injective(cache.order) /\ DOMAIN cache.item = Keys
         /\ \A k \in Keys : cache.item[k] # Nil <=> Holds(cache.order, k)
BY WellFormedMeans

(* The state after a call, without the cache.                              *)
LEMMA CallFacts ==
  ASSUME IInv, NEW k \in Keys, Call(k)
  PROVE  /\ calls \in Nat /\ calls' = calls + 1 /\ calls' \in Nat
         /\ stamp \in [Keys -> 0..calls]
         /\ stamp' = [stamp EXCEPT ![k] = calls + 1]
         /\ stamp' \in [Keys -> 0..calls']
         /\ stamp'[k] # stamp[k]
BY DEF IInv, Call

(* A call of a key that is not there restamps nothing that is in the list. *)
LEMMA CallSorted ==
  ASSUME IInv, NEW k \in Keys, Call(k), ~Holds(cache.order, k)
  PROVE  Sorted(cache.order, stamp')
<1>1. PICK u, st, n : u = cache.order /\ st = stamp /\ n = calls
  OBVIOUS
<1>2. u \in Seq(Keys) /\ Sorted(u, st) /\ ~Holds(u, k)
  BY <1>1, Means DEF IInv
<1>3. n \in Nat /\ st \in [Keys -> 0..n] /\ stamp' = [st EXCEPT ![k] = n + 1]
  BY <1>1, CallFacts
<1>4. Sorted(u, [st EXCEPT ![k] = n + 1])
  BY <1>2, <1>3, Restamp
<1> QED BY <1>1, <1>3, <1>4

(* A call of a key that is there, which comes to the front.                *)
LEMMA FrontSorted ==
  ASSUME IInv, NEW k \in Keys, Call(k), Holds(cache.order, k)
  PROVE  Sorted(MoveToFront(cache.order, k), stamp')
<1>1. PICK u, st, n : u = cache.order /\ st = stamp /\ n = calls
  OBVIOUS
<1>2. u \in Seq(Keys) /\ Injective(u) /\ Sorted(u, st) /\ Holds(u, k)
  BY <1>1, Means DEF IInv
<1>3. n \in Nat /\ st \in [Keys -> 0..n] /\ stamp' = [st EXCEPT ![k] = n + 1]
  BY <1>1, CallFacts
<1>4. Sorted(MoveToFront(u, k), [st EXCEPT ![k] = n + 1])
  BY <1>2, <1>3, MoveSorted
<1> QED BY <1>1, <1>3, <1>4

LEMMA GetStep ==
  ASSUME IInv, NEW k \in Keys, Get(k)
  PROVE  IInv'
<1>1. Call(k) /\ cache' = CacheGet(cache, k)
  BY DEF Get
<1>2. WellFormed(cache', Keys, Capacity)
  BY <1>1, GetWellFormed, CacheAssumption DEF IInv
<1>3. Sorted(cache'.order, stamp')
  <2>1. CASE cache.item[k] = Nil
    <3>1. cache' = cache /\ ~Holds(cache.order, k)
      BY <1>1, <2>1, Means DEF CacheGet, IInv
    <3> QED BY <1>1, <3>1, CallSorted
  <2>2. CASE cache.item[k] # Nil
    <3>1. cache'.order = MoveToFront(cache.order, k) /\ Holds(cache.order, k)
      BY <1>1, <2>2, Means DEF CacheGet, IInv
    <3> QED BY <1>1, <3>1, FrontSorted
  <2> QED BY <2>1, <2>2
<1> QED BY <1>1, <1>2, <1>3, CallFacts DEF IInv

LEMMA RemoveStep ==
  ASSUME IInv, NEW k \in Keys, Remove(k)
  PROVE  IInv'
<1>1. Call(k) /\ cache' = CacheRemove(cache, k)
  BY DEF Remove
<1>2. WellFormed(cache', Keys, Capacity)
  BY <1>1, RemoveWellFormed, CacheAssumption DEF IInv
<1>3. Sorted(cache'.order, stamp')
  <2>1. CASE cache.item[k] = Nil
    <3>1. cache' = cache /\ ~Holds(cache.order, k)
      BY <1>1, <2>1, Means DEF CacheRemove, IInv
    <3> QED BY <1>1, <3>1, CallSorted
  <2>2. CASE cache.item[k] # Nil
    <3>1. cache'.order = Unlink(cache.order, k) /\ Holds(cache.order, k)
      BY <1>1, <2>2, Means DEF CacheRemove, IInv
    <3>2. cache'.order \in Seq(Keys) /\ ~Holds(cache'.order, k)
      BY <3>1, Means, UnlinkFacts DEF IInv
    <3>3. Sorted(cache'.order, stamp)
      BY <3>1, Means, UnlinkSorted DEF IInv
    <3> QED BY <1>1, <3>2, <3>3, CallFacts, Restamp
  <2> QED BY <2>1, <2>2
<1> QED BY <1>1, <1>2, <1>3, CallFacts DEF IInv

(* A put that enters a full cache takes the key at the back away.          *)
LEMMA Evicts ==
  ASSUME IInv, NEW k \in Keys, NEW r, cache.item[k] = Nil,
         Over(<<k>> \o cache.order, Capacity)
  PROVE  LET last == cache.order[Len(cache.order)] IN
         /\ Len(cache.order) = Capacity /\ last \in Keys /\ last # k
         /\ \A j \in Keys \ {last} : cache.item[j] # Nil => stamp[j] > stamp[last]
         /\ CachePut(cache, k, r, Capacity).order = Unlink(<<k>> \o cache.order, last)
         /\ CachePut(cache, k, r, Capacity).item = [[cache.item EXCEPT ![k] = r] EXCEPT ![last] = Nil]
         /\ Holds(<<k>> \o cache.order, last)
<1> DEFINE s == cache.order
           o == <<k>> \o s
           last == s[Len(s)]
<1>1. /\ s \in Seq(Keys) /\ Len(s) \in Nat /\ Len(s) <= Capacity /\ Injective(s)
      /\ \A x \in Keys : cache.item[x] # Nil <=> Holds(s, x)
  BY Means DEF IInv
<1>2. Capacity \in Nat \ {0}
  BY CacheAssumption
<1>3. Len(o) = Len(s) + 1
  BY <1>1
<1>4. Len(s) = Capacity /\ Len(s) \in 1..Len(s)
  BY <1>1, <1>2, <1>3 DEF Over
<1>5. o[Len(o)] = last /\ last \in Keys /\ Holds(o, last) /\ Holds(s, last)
  BY <1>1, <1>3, <1>4 DEF Holds
<1>6. last # k
  BY <1>1, <1>5
<1>7. ASSUME NEW j \in Keys \ {last}, cache.item[j] # Nil
      PROVE  stamp[j] > stamp[last]
  <2>1. PICK i \in 1..Len(s) : s[i] = j
    BY <1>1, <1>7 DEF Holds
  <2>2. i < Len(s)
    BY <1>1, <2>1
  <2> QED BY <1>4, <2>1, <2>2 DEF IInv, Sorted
<1>8. CachePut(cache, k, r, Capacity) =
        [order |-> Unlink(o, last), item |-> [[cache.item EXCEPT ![k] = r] EXCEPT ![last] = Nil]]
  BY <1>5 DEF CachePut
<1> QED BY <1>4, <1>5, <1>6, <1>7, <1>8

LEMMA PutStep ==
  ASSUME IInv, NEW k \in Keys, NEW r \in Records, Put(k, r)
  PROVE  IInv'
<1>1. Call(k) /\ cache' = CachePut(cache, k, r, Capacity)
  BY DEF Put
<1>2. WellFormed(cache', Keys, Capacity)
  BY <1>1, PutWellFormed, CacheAssumption DEF IInv
<1> DEFINE o == <<k>> \o cache.order
<1>3. Sorted(cache'.order, stamp')
  <2>1. CASE cache.item[k] # Nil
    <3>1. cache'.order = MoveToFront(cache.order, k) /\ Holds(cache.order, k)
      BY <1>1, <2>1, Means DEF CachePut, IInv
    <3>2. /\ calls \in Nat /\ stamp \in [Keys -> 0..calls]
          /\ stamp' = [stamp EXCEPT ![k] = calls + 1]
      BY <1>1, CallFacts
    <3>3. /\ cache.order \in Seq(Keys) /\ Injective(cache.order)
          /\ Sorted(cache.order, stamp)
      BY Means DEF IInv
    <3>4. Sorted(MoveToFront(cache.order, k), [stamp EXCEPT ![k] = calls + 1])
      BY <3>1, <3>2, <3>3, MoveSorted
    <3> QED BY <3>1, <3>2, <3>4
  <2>2. CASE cache.item[k] = Nil
    <3>1. ~Holds(cache.order, k) /\ cache.order \in Seq(Keys) /\ Injective(cache.order)
      BY <2>2, Means DEF IInv
    <3>2. Sorted(o, stamp')
      <4>1. PICK st, n : st = stamp /\ n = calls
        OBVIOUS
      <4>2. n \in Nat /\ st \in [Keys -> 0..n] /\ stamp' = [st EXCEPT ![k] = n + 1]
        BY <1>1, <4>1, CallFacts
      <4>3. Sorted(cache.order, st)
        BY <4>1 DEF IInv
      <4> QED BY <3>1, <4>2, <4>3, PushSorted
    <3>3. o \in Seq(Keys) /\ Injective(o)
      BY <3>1, PushFacts
    <3>4. CASE ~Over(o, Capacity)
      BY <1>1, <2>2, <3>2, <3>4 DEF CachePut
    <3>5. CASE Over(o, Capacity)
      <4> DEFINE last == cache.order[Len(cache.order)]
      <4>1. cache'.order = Unlink(o, last) /\ Holds(o, last)
        BY <1>1, <2>2, <3>5, Evicts
      <4> HIDE DEF o, last
      <4> QED BY <3>2, <3>3, <4>1, UnlinkSorted
    <3> QED BY <3>4, <3>5
  <2> QED BY <2>1, <2>2
<1> QED BY <1>1, <1>2, <1>3, CallFacts DEF IInv

(* The list is sorted by last use and agrees with the map.                 *)
THEOREM CacheInvariant == Spec => []IInv
<1>1. Init => IInv
  <2> SUFFICES ASSUME Init PROVE IInv
    OBVIOUS
  <2>1. cache.order = <<>> /\ Len(cache.order) = 0
    BY DEF Init, EmptyCache
  <2> QED BY <2>1, EmptyWellFormed, CacheAssumption DEF Init, IInv, Sorted
<1>2. IInv /\ [Next]_vars => IInv'
  <2> SUFFICES ASSUME IInv, [Next]_vars PROVE IInv'
    OBVIOUS
  <2>1. CASE UNCHANGED vars
    BY <2>1 DEF vars, IInv
  <2>2. CASE Next
    BY <2>2, GetStep, RemoveStep, PutStep DEF Next
  <2> QED BY <2>1, <2>2
<1> QED BY <1>1, <1>2, PTL DEF Spec

(* The cache never holds more than auth_lru_size records, and list and map *)
(* agree: the memory bound of README.md:163.                               *)
THEOREM CacheIsBounded == Spec => []CacheBounded
BY CacheInvariant, PTL DEF IInv, CacheBounded

(* What leaves the cache without being removed is the entry used least     *)
(* recently, and only when another key enters a full cache.                *)
THEOREM EvictsLeastRecent == Spec => LeastRecentEvicted
<1> DEFINE Gone(k) == /\ cache'.item[k] = Nil
                      /\ Len(cache.order) = Capacity
                      /\ \E j \in Keys : ~Cached(j) /\ cache'.item[j] # Nil
                      /\ \A j \in Keys \ {k} : Cached(j) => stamp[j] > stamp[k]
<1>1. IInv /\ [Next]_vars =>
        [\A k \in Keys : Cached(k) /\ cache'.item[k] # cache.item[k] =>
           \/ stamp'[k] # stamp[k]
           \/ /\ cache'.item[k] = Nil
              /\ Len(cache.order) = Capacity
              /\ \E j \in Keys : ~Cached(j) /\ cache'.item[j] # Nil
              /\ \A j \in Keys \ {k} : Cached(j) => stamp[j] > stamp[k]]_vars
  <2> SUFFICES ASSUME IInv, Next, NEW x \in Keys, Cached(x), cache'.item[x] # cache.item[x],
                      stamp'[x] = stamp[x]
               PROVE  Gone(x)
    OBVIOUS
  <2>1. DOMAIN cache.item = Keys
    BY Means DEF IInv
  <2>2. ASSUME NEW k \in Keys, Get(k) PROVE FALSE
    BY <2>2 DEF Get, CacheGet
  <2>3. ASSUME NEW k \in Keys, Remove(k) PROVE FALSE
    <3>1. x # k
      BY <2>3, CallFacts DEF Remove
    <3> QED BY <2>1, <2>3, <3>1 DEF Remove, CacheRemove
  <2>4. ASSUME NEW k \in Keys, NEW r \in Records, Put(k, r) PROVE Gone(x)
    <3> DEFINE last == cache.order[Len(cache.order)]
    <3>1. x # k /\ cache' = CachePut(cache, k, r, Capacity)
      BY <2>4, CallFacts DEF Put
    <3>2. cache.item[k] = Nil /\ Over(<<k>> \o cache.order, Capacity)
      BY <2>1, <3>1 DEF CachePut
    <3>3. /\ Len(cache.order) = Capacity /\ last # k
          /\ \A j \in Keys \ {last} : cache.item[j] # Nil => stamp[j] > stamp[last]
          /\ cache'.item = [[cache.item EXCEPT ![k] = r] EXCEPT ![last] = Nil]
      BY <3>1, <3>2, Evicts
    <3> HIDE DEF last
    <3>4. x = last /\ cache'.item[x] = Nil
      BY <2>1, <3>1, <3>3
    <3>5. ~Cached(k) /\ cache'.item[k] # Nil
      BY <2>1, <3>2, <3>3, CacheAssumption DEF Cached
    <3> QED BY <3>3, <3>4, <3>5 DEF Cached
  <2> QED BY <2>2, <2>3, <2>4 DEF Next
<1> QED BY <1>1, CacheInvariant, PTL DEF Spec, LeastRecentEvicted

=============================================================================
