----------------------------- MODULE ModelCache -----------------------------
(***************************************************************************)
(* transcribers/__init__.py: the process's cache of loaded models, counted *)
(* leases over it, and the three ways a model leaves it.                   *)
(*                                                                         *)
(* A use is one load_transcriber with the release_transcriber that answers *)
(* it (lease_transcriber pairs them on every exit path).  Each block under *)
(* _lock is one action; the load itself runs outside the lock, so two uses *)
(* of one key may both load it.  The object a use loads is named after the *)
(* use.  Time is abstract: an idle model may have been idle long enough.   *)
(* clear_cache, for tests and hard resets, is left out: it takes models    *)
(* from under running jobs and says so.                                    *)
(***************************************************************************)
EXTENDS Integers, FiniteSets

CONSTANTS
  Uses,    \* leases, each taken at most once
  Keys,    \* (model, backend kind)
  NoModel

ASSUME UsesAssumption == IsFiniteSet(Uses) /\ NoModel \notin Uses

VARIABLES
  ttl,      \* _idle_ttl_s(): read at every use, the operator may change it
  cache,    \* _cache: the object of a key, named after the use that loaded it
  inflight, \* _inflight
  loaded,   \* objects that hold their weights
  key,      \* the key a use asks for
  at,       \* where a use is
  holds     \* the object load_transcriber returned to a use

cacheVars == <<cache, inflight, loaded>>
vars == <<ttl, cacheVars, key, at, holds>>

TypeOK ==
  /\ ttl \in {"zero", "finite", "forever"}
  /\ cache \in [Keys -> Uses \cup {NoModel}]
  /\ inflight \in [Keys -> Nat]
  /\ loaded \subseteq Uses
  /\ key \in [Uses -> Keys]
  /\ at \in [Uses -> {"idle", "loading", "loaded", "leased", "done"}]
  /\ holds \in [Uses -> Uses \cup {NoModel}]

Init ==
  /\ ttl \in {"zero", "finite", "forever"}
  /\ cache = [k \in Keys |-> NoModel]
  /\ inflight = [k \in Keys |-> 0]
  /\ loaded = {}
  /\ key \in [Uses -> Keys]
  /\ at = [u \in Uses |-> "idle"]
  /\ holds = [u \in Uses |-> NoModel]

Cached(k) == cache[k] # NoModel

Goes(u, from, to) == at[u] = from /\ at' = [at EXCEPT ![u] = to]

(* _release_slot: the counter of the last use goes. *)
OneLess(n) == IF n > 1 THEN n - 1 ELSE 0

(* _evict_keys on a cache c: the objects lose their weights. *)
Without(c, ks) == [k \in Keys |-> IF k \in ks THEN NoModel ELSE c[k]]
Unloaded(ks) == loaded \ {cache[k] : k \in ks}

(* The keys an eviction may take. *)
Idle == {k \in Keys : Cached(k) /\ inflight[k] = 0}

-----------------------------------------------------------------------------
(* The idle sweep at the start of load_transcriber: with a finite ttl, the *)
(* idle models that have been so for long enough.                          *)
Swept(ks) ==
  /\ ks \subseteq Idle
  /\ ttl # "finite" => ks = {}

(* A hit leases the cached object; a miss reserves the slot and loads.     *)
Acquire(u) ==
  /\ \E ks \in SUBSET Keys :
       /\ Swept(ks)
       /\ loaded' = Unloaded(ks)
       /\ cache' = Without(cache, ks)
       /\ IF cache'[key[u]] # NoModel
          THEN /\ Goes(u, "idle", "leased")
               /\ holds' = [holds EXCEPT ![u] = cache'[key[u]]]
          ELSE /\ Goes(u, "idle", "loading")
               /\ UNCHANGED holds
  /\ inflight' = [inflight EXCEPT ![key[u]] = @ + 1]
  /\ UNCHANGED <<ttl, key>>

(* The loader returns, outside the lock. *)
Load(u) ==
  /\ Goes(u, "loading", "loaded")
  /\ loaded' = loaded \cup {u}
  /\ UNCHANGED <<ttl, cache, inflight, key, holds>>

LoadFails(u) ==
  /\ Goes(u, "loading", "done")
  /\ inflight' = [inflight EXCEPT ![key[u]] = OneLess(@)]
  /\ UNCHANGED <<ttl, cache, loaded, key, holds>>

(* Somebody else's object of the same key is adopted, ours is dropped. *)
Store(u) ==
  /\ Goes(u, "loaded", "leased")
  /\ IF Cached(key[u])
     THEN /\ holds' = [holds EXCEPT ![u] = cache[key[u]]]
          /\ loaded' = loaded \ {u}
          /\ UNCHANGED cache
     ELSE /\ holds' = [holds EXCEPT ![u] = u]
          /\ cache' = [cache EXCEPT ![key[u]] = u]
          /\ UNCHANGED loaded
  /\ UNCHANGED <<ttl, inflight, key>>

(* Mutant: with ttl 0 a release evicts, whoever else uses the model.       *)
ReleaseEvicts(u) ==
  /\ Goes(u, "leased", "done")
  /\ inflight' = [inflight EXCEPT ![key[u]] = OneLess(@)]
  /\ IF ttl = "zero"
     THEN /\ cache' = Without(cache, {key[u]})
          /\ loaded' = Unloaded({key[u]})
     ELSE UNCHANGED <<cache, loaded>>
  /\ UNCHANGED <<ttl, key, holds>>

(* release_transcriber finds the key by the object; one that is no longer  *)
(* cached releases nothing.  The last use leaves the model to the policy.  *)
Release(u) ==
  LET ks == {k \in Keys : cache[k] = holds[u]}
      last == {k \in ks : inflight[k] <= 1 /\ ttl = "zero"}
  IN /\ Goes(u, "leased", "done")
     /\ inflight' = [k \in Keys |-> IF k \in ks THEN OneLess(inflight[k])
                                               ELSE inflight[k]]
     /\ cache' = Without(cache, last)
     /\ loaded' = Unloaded(last)
     /\ UNCHANGED <<ttl, key, holds>>

(* evict_idle_now, for DELETE /api/models/cache. *)
EvictIdleNow ==
  /\ Idle # {}
  /\ cache' = Without(cache, Idle)
  /\ loaded' = Unloaded(Idle)
  /\ UNCHANGED <<ttl, inflight, key, at, holds>>

(* The operator edits the idle-TTL setting. *)
SetTtl ==
  /\ ttl' \in {"zero", "finite", "forever"} \ {ttl}
  /\ UNCHANGED <<cacheVars, key, at, holds>>

Use(u) ==
  Acquire(u) \/ Load(u) \/ LoadFails(u) \/ Store(u) \/ Release(u)

Next == (\E u \in Uses : Use(u)) \/ EvictIdleNow \/ SetTtl

Spec == Init /\ [][Next]_vars

-----------------------------------------------------------------------------
(* The uses that count on a key: they load it or hold it.                  *)
Counted(k) ==
  {u \in Uses : key[u] = k /\ at[u] \in {"loading", "loaded", "leased"}}

(* No release of another use, no sweep, no eviction by the operator and no *)
(* duplicate load takes the weights from under a running job (the promise  *)
(* of evict_idle_now: an operator cannot yank a model out of a job).       *)
LeaseIsUsable == \A u \in Uses : at[u] = "leased" => holds[u] \in loaded

(* All jobs on a key share one object, the cached one: never two copies of *)
(* a model's weights in use.                                               *)
OneCopy == \A u \in Uses : at[u] = "leased" => cache[key[u]] = holds[u]

(* The count of a key is the number of its uses, through failed loads,     *)
(* duplicates and evictions: no model is pinned for ever, and none is      *)
(* thought idle in use.                                                    *)
SlotsExact == \A k \in Keys : inflight[k] = Cardinality(Counted(k))

(* Nothing but the cached models and the loads under way holds weights: a  *)
(* duplicate is dropped, an evicted model leaves nothing.                  *)
NoStrayWeights ==
  \A u \in loaded : cache[key[u]] = u \/ at[u] = "loaded"

(* The lock is dropped for the length of a load, and still: a model in use *)
(* stays loaded and is the one copy, its uses are counted exactly, and     *)
(* nothing else holds weights.                                             *)
CacheIsSound == LeaseIsUsable /\ OneCopy /\ SlotsExact /\ NoStrayWeights
=============================================================================
