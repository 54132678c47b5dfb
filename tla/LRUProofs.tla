------------------------------- MODULE LRUProofs -------------------------------
(***************************************************************************)
(* Proofs about the cache operations of LRU and the component LRUCache:    *)
(* map and list agree and the capacity bounds both, for every capacity.    *)
(***************************************************************************)
EXTENDS LRU, TLAPS

Injective(s) == \A i, j \in 1..Len(s) : s[i] = s[j] => i = j

Holds(s, k) == \E i \in 1..Len(s) : s[i] = k

(* Removing the element of k leaves the other keys, each once.             *)
LEMMA UnlinkFacts ==
  ASSUME NEW K, NEW s \in Seq(K), NEW k, Injective(s), Holds(s, k)
  PROVE  /\ Unlink(s, k) \in Seq(K)
         /\ Len(Unlink(s, k)) = Len(s) - 1
         /\ Injective(Unlink(s, k))
         /\ \A x : Holds(Unlink(s, k), x) <=> x # k /\ Holds(s, x)
<1> DEFINE n == Len(s)
           i == CHOOSE i \in 1..Len(s) : s[i] = k
           u == Unlink(s, k)
<1>1. i \in 1..n /\ s[i] = k
  BY DEF Holds
<1>2. n \in Nat /\ \A j \in 1..n : s[j] \in K
  OBVIOUS
<1>3. u = [j \in 1..(n - 1) |-> IF j < i THEN s[j] ELSE s[j + 1]]
  BY DEF Unlink
<1> HIDE DEF i, n, u
<1>4. n - 1 \in Nat /\ \A j \in 1..(n - 1) : u[j] \in K
  BY <1>1, <1>2, <1>3
<1>5. u \in Seq(K) /\ Len(u) = n - 1
  BY <1>3, <1>4
<1>6. Injective(u)
  <2>1. ASSUME NEW p \in 1..(n - 1), NEW q \in 1..(n - 1), u[p] = u[q]
        PROVE  p = q
    <3> DEFINE f(x) == IF x < i THEN x ELSE x + 1
    <3>1. /\ f(p) \in 1..n /\ f(q) \in 1..n
          /\ u[p] = s[f(p)] /\ u[q] = s[f(q)]
      BY <1>1, <1>2, <1>3
    <3>2. f(p) = f(q)
      BY <2>1, <3>1 DEF Injective, n
    <3> QED
      BY <1>1, <1>2, <3>2
  <2> QED
    BY <1>5, <2>1 DEF Injective
<1>7. ASSUME NEW x
      PROVE  Holds(u, x) <=> x # k /\ Holds(s, x)
  <2>1. ASSUME NEW j \in 1..(n - 1), u[j] = x
        PROVE  x # k /\ Holds(s, x)
    <3> DEFINE m == IF j < i THEN j ELSE j + 1
    <3>1. m \in 1..n /\ m # i /\ s[m] = x
      BY <1>1, <1>2, <1>3, <2>1
    <3> HIDE DEF m
    <3> QED
      BY <1>1, <3>1 DEF Injective, Holds, n
  <2>2. ASSUME x # k, NEW m \in 1..n, s[m] = x
        PROVE  Holds(u, x)
    <3> DEFINE j == IF m < i THEN m ELSE m - 1
    <3>1. j \in 1..(n - 1) /\ u[j] = x
      BY <1>1, <1>2, <1>3, <2>2
    <3> HIDE DEF j
    <3> QED
      BY <1>5, <3>1 DEF Holds
  <2> QED
    BY <1>5, <2>1, <2>2 DEF Holds, n
<1> QED
  BY <1>5, <1>6, <1>7 DEF n, u

(* Putting a new key in front.                                             *)
LEMMA PushFacts ==
  ASSUME NEW K, NEW s \in Seq(K), NEW k \in K, Injective(s), ~Holds(s, k)
  PROVE  /\ <<k>> \o s \in Seq(K)
         /\ Len(<<k>> \o s) = Len(s) + 1
         /\ Injective(<<k>> \o s)
         /\ \A x : Holds(<<k>> \o s, x) <=> x = k \/ Holds(s, x)
<1> DEFINE t == <<k>> \o s
<1>1. t \in Seq(K) /\ Len(t) = Len(s) + 1 /\ Len(s) \in Nat
  OBVIOUS
<1>2. t[1] = k /\ \A j \in 1..Len(s) : t[j + 1] = s[j]
  OBVIOUS
<1>3. \A j \in 1..Len(t) : j = 1 \/ (j - 1 \in 1..Len(s) /\ t[j] = s[j - 1])
  BY <1>1, <1>2
<1> HIDE DEF t
<1>4. Injective(t)
  <2>1. ASSUME NEW p \in 1..Len(t), NEW q \in 1..Len(t), t[p] = t[q]
        PROVE  p = q
    <3>1. CASE p = 1 \/ q = 1
      BY <1>2, <1>3, <2>1, <3>1 DEF Holds
    <3>2. CASE p # 1 /\ q # 1
      <4>1. p - 1 = q - 1
        BY <1>3, <2>1, <3>2 DEF Injective
      <4> QED
        BY <1>1, <4>1
    <3> QED
      BY <3>1, <3>2
  <2> QED
    BY <2>1 DEF Injective
<1>5. ASSUME NEW x
      PROVE  Holds(t, x) <=> x = k \/ Holds(s, x)
  <2>1. ASSUME NEW j \in 1..Len(s)
        PROVE  j + 1 \in 1..Len(t)
    BY <1>1
  <2>2. 1 \in 1..Len(t)
    BY <1>1
  <2> QED
    BY <1>2, <1>3, <2>1, <2>2 DEF Holds
<1> QED
  BY <1>1, <1>4, <1>5 DEF t

-----------------------------------------------------------------------------
(* The operations of the cache.                                            *)

(* Using a key again reorders the list and nothing else.                   *)
LEMMA MoveFacts ==
  ASSUME NEW K, NEW s \in Seq(K), NEW k \in K, Injective(s), Holds(s, k)
  PROVE  /\ MoveToFront(s, k) \in Seq(K)
         /\ Len(MoveToFront(s, k)) = Len(s)
         /\ Injective(MoveToFront(s, k))
         /\ \A x : Holds(MoveToFront(s, k), x) <=> Holds(s, x)
<1> DEFINE u == Unlink(s, k)
<1>1. /\ u \in Seq(K) /\ Len(u) = Len(s) - 1 /\ Injective(u)
      /\ \A x : Holds(u, x) <=> x # k /\ Holds(s, x)
  BY UnlinkFacts
<1>2. MoveToFront(s, k) = <<k>> \o u
  BY DEF MoveToFront
<1> HIDE DEF u
<1>3. /\ <<k>> \o u \in Seq(K) /\ Len(<<k>> \o u) = Len(u) + 1 /\ Injective(<<k>> \o u)
      /\ \A x : Holds(<<k>> \o u, x) <=> x = k \/ Holds(u, x)
  BY <1>1, PushFacts
<1>4. Len(s) \in Nat
  OBVIOUS
<1> QED
  BY <1>1, <1>2, <1>3, <1>4

(* WellFormed in the words of these lemmas.                                *)
LEMMA WellFormedMeans ==
  ASSUME NEW c, NEW keys, NEW capacity
  PROVE  WellFormed(c, keys, capacity) <=>
           /\ c.order \in Seq(keys) /\ Len(c.order) <= capacity
           /\ Injective(c.order) /\ DOMAIN c.item = keys
           /\ \A k \in keys : c.item[k] # Nil <=> Holds(c.order, k)
BY DEF WellFormed, Injective, Holds

(* A new cache is well formed.                                             *)
THEOREM EmptyWellFormed ==
  ASSUME NEW keys, NEW capacity \in Nat
  PROVE  WellFormed(EmptyCache(keys), keys, capacity)
<1>1. /\ EmptyCache(keys).order = <<>> /\ Len(<<>>) = 0 /\ <<>> \in Seq(keys)
      /\ EmptyCache(keys).item = [k \in keys |-> Nil]
  BY DEF EmptyCache
<1> QED
  BY <1>1 DEF WellFormed

(* get keeps the cache well formed.                                        *)
THEOREM GetWellFormed ==
  ASSUME NEW keys, NEW capacity \in Nat, NEW c, NEW k \in keys,
         WellFormed(c, keys, capacity)
  PROVE  WellFormed(CacheGet(c, k), keys, capacity)
<1>1. CASE c.item[k] = Nil
  BY <1>1 DEF CacheGet
<1>2. CASE c.item[k] # Nil
  <2> DEFINE o == MoveToFront(c.order, k)
  <2>1. CacheGet(c, k).order = o /\ CacheGet(c, k).item = c.item
    BY <1>2 DEF CacheGet
  <2>2. c.order \in Seq(keys) /\ Injective(c.order) /\ Holds(c.order, k)
    BY <1>2, WellFormedMeans
  <2>3. o \in Seq(keys) /\ Len(o) = Len(c.order) /\ Injective(o)
        /\ \A x : Holds(o, x) <=> Holds(c.order, x)
    BY <2>2, MoveFacts
  <2> HIDE DEF o
  <2> QED
    BY <2>1, <2>3, WellFormedMeans
<1> QED
  BY <1>1, <1>2

(* put keeps the cache well formed: it never grows beyond its capacity.    *)
THEOREM PutWellFormed ==
  ASSUME NEW keys, NEW capacity \in Nat \ {0}, NEW c, NEW k \in keys, NEW r, r # Nil,
         WellFormed(c, keys, capacity)
  PROVE  WellFormed(CachePut(c, k, r, capacity), keys, capacity)
<1> DEFINE d == CachePut(c, k, r, capacity)
           item == [c.item EXCEPT ![k] = r]
           o == <<k>> \o c.order
<1>1. /\ c.order \in Seq(keys) /\ Len(c.order) <= capacity /\ Len(c.order) \in Nat
      /\ Injective(c.order) /\ DOMAIN c.item = keys
      /\ \A x \in keys : c.item[x] # Nil <=> Holds(c.order, x)
  BY WellFormedMeans
<1>2. DOMAIN item = keys /\ \A x \in keys : item[x] = IF x = k THEN r ELSE c.item[x]
  BY <1>1
<1> HIDE DEF item
<1>3. CASE c.item[k] # Nil
  <2> DEFINE m == MoveToFront(c.order, k)
  <2>1. d.order = m /\ d.item = item
    BY <1>3 DEF CachePut, item
  <2>2. m \in Seq(keys) /\ Len(m) = Len(c.order) /\ Injective(m)
        /\ \A x : Holds(m, x) <=> Holds(c.order, x)
    BY <1>1, <1>3, MoveFacts
  <2>3. \A x \in keys : item[x] # Nil <=> Holds(m, x)
    BY <1>1, <1>2, <1>3, <2>2
  <2> HIDE DEF m, d
  <2>4. WellFormed(d, keys, capacity)
    BY <1>1, <1>2, <2>1, <2>2, <2>3, WellFormedMeans
  <2> QED
    BY <2>4 DEF d
<1>4. CASE c.item[k] = Nil
  <2>1. o \in Seq(keys) /\ Len(o) = Len(c.order) + 1 /\ Injective(o)
        /\ \A x : Holds(o, x) <=> x = k \/ Holds(c.order, x)
    BY <1>1, <1>4, PushFacts
  <2>2. CASE ~Over(o, capacity)
    <3>1. d.order = o /\ d.item = item
      BY <1>4, <2>2 DEF CachePut, item
    <3>2. Len(o) <= capacity
      BY <1>1, <2>1, <2>2 DEF Over
    <3>3. \A x \in keys : item[x] # Nil <=> Holds(o, x)
      BY <1>1, <1>2, <2>1
    <3> HIDE DEF o, d
    <3>4. WellFormed(d, keys, capacity)
      BY <1>2, <2>1, <3>1, <3>2, <3>3, WellFormedMeans
    <3> QED
      BY <3>4 DEF d
  <2>3. CASE Over(o, capacity)
    <3> DEFINE last == o[Len(o)]
               p == Unlink(o, last)
               rest == [item EXCEPT ![last] = Nil]
    <3>1. d.order = p /\ d.item = rest
      BY <1>4, <2>3 DEF CachePut, item
    <3>2. Len(c.order) = capacity
      BY <1>1, <2>1, <2>3 DEF Over
    <3> HIDE DEF o
    <3>8. Holds(o, last)
      BY <1>1, <2>1 DEF Holds
    <3>3. p \in Seq(keys) /\ Len(p) = Len(o) - 1 /\ Injective(p)
          /\ \A x : Holds(p, x) <=> x # last /\ Holds(o, x)
      BY <2>1, <3>8, UnlinkFacts
    <3>4. DOMAIN rest = keys /\ \A x \in keys : rest[x] = IF x = last THEN Nil ELSE item[x]
      BY <1>2
    <3> HIDE DEF p, last, rest
    <3>5. \A x \in keys : rest[x] # Nil <=> Holds(p, x)
      BY <1>1, <1>2, <2>1, <3>3, <3>4
    <3>6. Len(p) <= capacity
      BY <2>1, <3>2, <3>3
    <3> HIDE DEF d
    <3>7. WellFormed(d, keys, capacity)
      BY <3>1, <3>3, <3>4, <3>5, <3>6, WellFormedMeans
    <3> QED
      BY <3>7 DEF d
  <2> QED
    BY <2>2, <2>3
<1> QED
  BY <1>3, <1>4

(* remove keeps the cache well formed.                                     *)
THEOREM RemoveWellFormed ==
  ASSUME NEW keys, NEW capacity \in Nat, NEW c, NEW k \in keys,
         WellFormed(c, keys, capacity)
  PROVE  WellFormed(CacheRemove(c, k), keys, capacity)
<1>1. CASE c.item[k] = Nil
  BY <1>1 DEF CacheRemove
<1>2. CASE c.item[k] # Nil
  <2> DEFINE u == Unlink(c.order, k)
             item == [c.item EXCEPT ![k] = Nil]
  <2>1. CacheRemove(c, k).order = u /\ CacheRemove(c, k).item = item
    BY <1>2 DEF CacheRemove
  <2>2. /\ c.order \in Seq(keys) /\ Injective(c.order) /\ Holds(c.order, k)
        /\ Len(c.order) <= capacity /\ Len(c.order) \in Nat /\ DOMAIN c.item = keys
        /\ \A x \in keys : c.item[x] # Nil <=> Holds(c.order, x)
    BY <1>2, WellFormedMeans
  <2>3. u \in Seq(keys) /\ Len(u) = Len(c.order) - 1 /\ Injective(u)
        /\ \A x : Holds(u, x) <=> x # k /\ Holds(c.order, x)
    BY <2>2, UnlinkFacts
  <2>4. DOMAIN item = keys /\ \A x \in keys : item[x] = IF x = k THEN Nil ELSE c.item[x]
    BY <2>2
  <2> HIDE DEF u, item
  <2>5. \A x \in keys : item[x] # Nil <=> Holds(u, x)
    BY <2>2, <2>3, <2>4
  <2>6. Len(u) <= capacity
    BY <2>2, <2>3
  <2> QED
    BY <2>1, <2>3, <2>4, <2>5, <2>6, WellFormedMeans
<1> QED
  BY <1>1, <1>2

-----------------------------------------------------------------------------
(* What the map holds afterwards.                                          *)

(* get leaves the map alone, put enters one key and may drop another,      *)
(* remove drops one.                                                       *)
LEMMA ItemFacts ==
  ASSUME NEW keys, NEW c, DOMAIN c.item = keys, NEW k \in keys, NEW r, NEW capacity
  PROVE  /\ CacheGet(c, k).item = c.item
         /\ DOMAIN CachePut(c, k, r, capacity).item = keys
         /\ CachePut(c, k, r, capacity).item[k] \in {Nil, r}
         /\ \A x \in keys \ {k} : CachePut(c, k, r, capacity).item[x] \in {Nil, c.item[x]}
         /\ DOMAIN CacheRemove(c, k).item = keys
         /\ \A x \in keys : CacheRemove(c, k).item[x] \in {Nil, c.item[x]}
<1>1. CacheGet(c, k).item = c.item
  BY DEF CacheGet
<1>2. /\ DOMAIN CachePut(c, k, r, capacity).item = keys
      /\ CachePut(c, k, r, capacity).item[k] \in {Nil, r}
      /\ \A x \in keys \ {k} : CachePut(c, k, r, capacity).item[x] \in {Nil, c.item[x]}
  <2> DEFINE item == [c.item EXCEPT ![k] = r]
             o == <<k>> \o c.order
             last == o[Len(o)]
             rest == [item EXCEPT ![last] = Nil]
  <2>1. CachePut(c, k, r, capacity).item \in {item, rest}
    BY DEF CachePut
  <2> HIDE DEF last
  <2> QED
    BY <2>1
<1>3. /\ DOMAIN CacheRemove(c, k).item = keys
      /\ \A x \in keys : CacheRemove(c, k).item[x] \in {Nil, c.item[x]}
  BY DEF CacheRemove
<1> QED
  BY <1>1, <1>2, <1>3

(* What is removed is not cached.                                          *)
LEMMA RemovedItem ==
  ASSUME NEW keys, NEW c, DOMAIN c.item = keys, NEW k \in keys
  PROVE  CacheRemove(c, k).item[k] = Nil
BY DEF CacheRemove

(* put leaves the map with its type ...                                    *)
LEMMA PutType ==
  ASSUME NEW keys, NEW S, NEW c, c.item \in [keys -> S \cup {Nil}], NEW k \in keys,
         NEW r \in S, NEW capacity
  PROVE  CachePut(c, k, r, capacity).item \in [keys -> S \cup {Nil}]
<1> DEFINE item == [c.item EXCEPT ![k] = r]
           o == <<k>> \o c.order
           last == o[Len(o)]
           rest == [item EXCEPT ![last] = Nil]
<1>1. CachePut(c, k, r, capacity).item \in {item, rest}
  BY DEF CachePut
<1> HIDE DEF last
<1>2. item \in [keys -> S \cup {Nil}] /\ rest \in [keys -> S \cup {Nil}]
  OBVIOUS
<1> QED
  BY <1>1, <1>2

(* ... and so does remove.                                                 *)
LEMMA RemoveType ==
  ASSUME NEW keys, NEW S, NEW c, c.item \in [keys -> S \cup {Nil}], NEW k \in keys
  PROVE  CacheRemove(c, k).item \in [keys -> S \cup {Nil}]
BY DEF CacheRemove

=============================================================================
