---------------------------------- MODULE LRU ----------------------------------
(***************************************************************************)
(* The cache of pkg/auth/blocker.go (lruCache): a map and a doubly linked  *)
(* list, most recently used first.  A cache is a record of                 *)
(*   order   the keys of the list, front first                             *)
(*   item    the record pointer under each key, Nil for a key not cached   *)
(* Every operation runs under lruCache.mu, so each is one step.            *)
(***************************************************************************)
EXTENDS Integers, Sequences

CONSTANT Nil

EmptyCache(keys) == [order |-> <<>>, item |-> [k \in keys |-> Nil]]

(* list.Remove of the element of key k.                                    *)
Unlink(order, k) ==
  LET i == CHOOSE i \in 1..Len(order) : order[i] = k
  IN [j \in 1..(Len(order) - 1) |-> IF j < i THEN order[j] ELSE order[j + 1]]

(* Variant: the element keeps its place.                                   *)
StayInPlace(order, k) == order

(* list.MoveToFront of the element of key k.                               *)
MoveToFront(order, k) == <<k>> \o Unlink(order, k)

(* lruCache.get: what becomes of the cache; the result is item[k].         *)
CacheGet(c, k) ==
  IF c.item[k] = Nil THEN c
  ELSE [order |-> MoveToFront(c.order, k), item |-> c.item]

(* The list has outgrown the capacity.                                     *)
Over(order, capacity) == Len(order) > capacity

(* lruCache.put: at most the entry at the back is evicted.                 *)
CachePut(c, k, r, capacity) ==
  LET order == <<k>> \o c.order
      last  == order[Len(order)]
      item  == [c.item EXCEPT ![k] = r]
  IN IF c.item[k] # Nil
     THEN [order |-> MoveToFront(c.order, k), item |-> item]
     ELSE IF Over(order, capacity)
          THEN [order |-> Unlink(order, last),
                item |-> [item EXCEPT ![last] = Nil]]
          ELSE [order |-> order, item |-> item]

(* Variant: the list forgets the entry, the map does not.                  *)
RemoveFromList(c, k) ==
  IF c.item[k] = Nil THEN c ELSE [c EXCEPT !.order = Unlink(@, k)]

(* lruCache.remove.                                                        *)
CacheRemove(c, k) ==
  IF c.item[k] = Nil THEN c
  ELSE [order |-> Unlink(c.order, k), item |-> [c.item EXCEPT ![k] = Nil]]

-----------------------------------------------------------------------------
(* The list holds every cached key once and nothing else, and never more   *)
(* than the capacity: the memory bound README.md:163 promises.             *)
WellFormed(c, keys, capacity) ==
  /\ c.order \in Seq(keys)
  /\ Len(c.order) <= capacity
  /\ \A i, j \in 1..Len(c.order) : c.order[i] = c.order[j] => i = j
  /\ DOMAIN c.item = keys
  /\ \A k \in keys : c.item[k] # Nil <=> \E i \in 1..Len(c.order) : c.order[i] = k

=============================================================================
