----------------------------- MODULE ModelCache ------------------------------
(***************************************************************************)
(* What the model table of the scheduler promises to its callers, without  *)
(* slots, searches, sizes or limits: a cache of warm models, one entry per *)
(* name, each with its backend and the number of its users, and never more *)
(* entries than Capacity.  Scheduler implements it.                        *)
(***************************************************************************)
EXTENDS Naturals, FiniteSets

CONSTANTS ModelNames, Pids, Capacity

VARIABLE cache  \* name -> [pid, refcount], for the names that are cached

Entry == [pid : Pids, refcount : Nat]

Cached == DOMAIN cache

\* The cache without the names in S.
Without(S) == [n \in Cached \ S |-> cache[n]]

CacheInit == cache = << >>

\* A caller takes the model on a backend: a new entry only if there is room.
Take(n, pid) ==
  \/ /\ n \in Cached
     /\ cache' = [cache EXCEPT ![n] = [pid |-> pid, refcount |-> @.refcount + 1]]
  \/ /\ n \notin Cached
     /\ Cardinality(Cached) < Capacity
     /\ cache' = [m \in Cached \cup {n} |->
                    IF m = n THEN [pid |-> pid, refcount |-> 1] ELSE cache[m]]

\* A caller is done with the model; the entry stays warm.
GiveBack(n) ==
  /\ n \in Cached
  /\ cache[n].refcount > 0
  /\ cache' = [cache EXCEPT ![n].refcount = @ - 1]

\* Pressure removes models, but none that is in use.
Shed(S) ==
  /\ S \subseteq Cached
  /\ \A n \in S : cache[n].refcount = 0
  /\ cache' = Without(S)

\* Somebody asks for a model to be stopped.
Drop(n) == n \in Cached /\ cache' = Without({n})

\* The state file is replaced.
Clear == cache' = << >>

CacheNext ==
  \/ \E n \in ModelNames, pid \in Pids : Take(n, pid)
  \/ \E n \in ModelNames : GiveBack(n) \/ Drop(n)
  \/ \E S \in SUBSET ModelNames : Shed(S)
  \/ Clear

CacheSpec == CacheInit /\ [][CacheNext]_cache
=============================================================================
