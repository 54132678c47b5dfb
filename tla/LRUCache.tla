------------------------------- MODULE LRUCache -------------------------------
(***************************************************************************)
(* lruCache of pkg/auth/blocker.go under any sequence of calls, against    *)
(* what "least recently used" means: stamp records when each key was last  *)
(* used, independently of the list.                                        *)
(***************************************************************************)
EXTENDS LRU

CONSTANTS
  Keys,      \* IP addresses
  Records,   \* record pointers
  Capacity,  \* auth_lru_size
  MaxCalls   \* bound on the calls

ASSUME CacheAssumption ==
  /\ Capacity \in Nat \ {0}
  /\ MaxCalls \in Nat
  /\ Nil \notin Records

VARIABLES cache, stamp, calls

vars == <<cache, stamp, calls>>

Init ==
  /\ cache = EmptyCache(Keys)
  /\ stamp = [k \in Keys |-> 0]
  /\ calls = 0

Call(k) ==
  /\ calls < MaxCalls
  /\ calls' = calls + 1
  /\ stamp' = [stamp EXCEPT ![k] = calls + 1]

Get(k) == Call(k) /\ cache' = CacheGet(cache, k)

Put(k, r) == Call(k) /\ cache' = CachePut(cache, k, r, Capacity)

Remove(k) == Call(k) /\ cache' = CacheRemove(cache, k)

Next == \E k \in Keys : Get(k) \/ Remove(k) \/ \E r \in Records : Put(k, r)

Spec == Init /\ [][Next]_vars

-----------------------------------------------------------------------------
Cached(k) == cache.item[k] # Nil

(* The list and the map agree and stay within the capacity.                *)
CacheBounded == WellFormed(cache, Keys, Capacity)

(* A key leaves the cache when it is removed, or as the least recently     *)
(* used one when another key enters a full cache; a record stays what the  *)
(* last put made it.                                                       *)
LeastRecentEvicted ==
  [][\A k \in Keys : Cached(k) /\ cache'.item[k] # cache.item[k] =>
       \/ stamp'[k] # stamp[k]
       \/ /\ cache'.item[k] = Nil
          /\ Len(cache.order) = Capacity
          /\ \E j \in Keys : ~Cached(j) /\ cache'.item[j] # Nil
          /\ \A j \in Keys \ {k} : Cached(j) => stamp[j] > stamp[k]]_vars

=============================================================================
