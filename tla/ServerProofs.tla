---------------------------- MODULE ServerProofs ----------------------------
(***************************************************************************)
(* The parts of the server that stand alone, proved for any number of uses *)
(* and models (ModelCache), any ticks, links and lifetimes (LoginLinks),   *)
(* any texts and writes (OperatorConfig), any models, languages and        *)
(* thresholds (LiveSettings), any launches, versions and checkouts         *)
(* (Setup), any recordings, engines and fetches (SessionListing), and any  *)
(* taps, names and diarizations (People).                                  *)
(*                                                                         *)
(* A model in use is safe because the count of its key is exact: the       *)
(* sweep, a release and the operator's eviction take keys of count 0 only, *)
(* and such a key is nobody's.  The invariant adds what ties objects to    *)
(* keys: who is cached under a key loaded it for that key and holds its    *)
(* weights.                                                                *)
(*                                                                         *)
(* A sign-in holds because every spent link stands for one cookie: the     *)
(* unspent links are what can still issue one.  Inside its grace a spent   *)
(* link's session is alive (the grace is shorter than the idle time), so   *)
(* opening it again cannot bring back a session that has ended; and the    *)
(* session of the tab's cookie is the one the tab knows the times of.      *)
(*                                                                         *)
(* A cached read is the file because a signature the file has lost cannot  *)
(* come back: every write takes a later time, or drops the entry.          *)
(*                                                                         *)
(* What the panel shows of live transcription is a function of the         *)
(* configuration (Seeded), and so are the engine's settings (Engine) and   *)
(* the operator's choices (Carried), as long as no start has failed.       *)
(*                                                                         *)
(* A launch may skip pip because the stamp of this version tells what is   *)
(* installed (StampHolds): an upgrade leaves it behind, a move drops it,   *)
(* and only a package that went and came back makes it lie.  A selection   *)
(* is read back as it was saved (LoadIsStable).                            *)
(*                                                                         *)
(* Two moments of a folder with one digest are the same folder, unless it  *)
(* came back: a transcript's stamp is of one change (StampsStay), and      *)
(* under one stamp transcripts are only added (PastGrows), so a count of   *)
(* them tells them all (BriefTellsAll).                                    *)
(*                                                                         *)
(* People stay apart because no identity has two of them and an id, once   *)
(* given, is never given again; a Voice names somebody only through a      *)
(* mapping of its own run, for both readers.                               *)
(***************************************************************************)
EXTENDS ModelCache, LoginLinks, OperatorConfig, LiveSettings, Setup, SessionListing,
        People, FiniteSetTheorems, TLAPS

(* A cached object was loaded for its key and has its weights. *)
CachedInv ==
  \A k \in Keys : Cached(k) => /\ cache[k] \in loaded
                               /\ key[cache[k]] = k
                               /\ at[cache[k]] \in {"leased", "done"}

(* Between the load and the store the weights are the use's own. *)
LoadedInv == \A u \in Uses : at[u] = "loaded" => u \in loaded

(* A lease names an object. *)
HeldInv == \A u \in Uses : at[u] = "leased" => holds[u] # NoModel

IInv ==
  /\ TypeOK
  /\ OneCopy
  /\ SlotsExact
  /\ NoStrayWeights
  /\ CachedInv
  /\ LoadedInv
  /\ HeldInv

(* The uses counted on a key are finitely many, and a key of count 0 has   *)
(* none.                                                                   *)
LEMMA CountedFinite ==
  ASSUME NEW k \in Keys
  PROVE  /\ IsFiniteSet(Counted(k))
         /\ Cardinality(Counted(k)) \in Nat
         /\ Cardinality(Counted(k)) = 0 => Counted(k) = {}
<1>1. Counted(k) \subseteq Uses
  BY DEF Counted
<1>2. IsFiniteSet(Counted(k))
  BY <1>1, UsesAssumption, FS_Subset
<1> QED  BY <1>2, FS_CardinalityType, FS_EmptySet

(* An idle key is nobody's: its eviction meets no lease.                   *)
LEMMA IdleIsNobodys ==
  ASSUME TypeOK, SlotsExact, NEW k \in Keys, inflight[k] = 0,
         NEW u \in Uses, key[u] = k
  PROVE  at[u] \in {"idle", "done"}
<1>1. Counted(k) = {}
  BY CountedFinite DEF SlotsExact
<1> QED  BY <1>1 DEF Counted, TypeOK

(* What an eviction of idle keys leaves is as good as before.              *)
LEMMA EvictionIsSafe ==
  ASSUME IInv, NEW ks \in SUBSET Keys,
         \A k \in ks : Cached(k) /\ inflight[k] = 0
  PROVE  /\ \A u \in Uses : at[u] = "leased" => Without(cache, ks)[key[u]] = holds[u]
         /\ \A k \in Keys : Without(cache, ks)[k] # NoModel
                            => /\ Without(cache, ks)[k] = cache[k]
                               /\ cache[k] \in Unloaded(ks)
         /\ \A u \in Unloaded(ks) : Without(cache, ks)[key[u]] = u \/ at[u] = "loaded"
         /\ \A u \in Uses : at[u] = "loaded" => u \in Unloaded(ks)
         /\ Without(cache, ks) \in [Keys -> Uses \cup {NoModel}]
         /\ Unloaded(ks) \subseteq Uses
<1> USE DEF IInv, Without, Unloaded, Cached
<1>1. \A u \in Uses : key[u] \in ks => at[u] \in {"idle", "done"}
  BY IdleIsNobodys DEF TypeOK
<1>2. \A u \in Uses : at[u] = "leased" => Without(cache, ks)[key[u]] = holds[u]
  BY <1>1 DEF OneCopy, TypeOK
<1>3. \A k \in Keys : Without(cache, ks)[k] # NoModel
                      => /\ Without(cache, ks)[k] = cache[k]
                         /\ cache[k] \in Unloaded(ks)
  BY DEF CachedInv, TypeOK
<1>4. \A u \in Unloaded(ks) : Without(cache, ks)[key[u]] = u \/ at[u] = "loaded"
  BY DEF NoStrayWeights, TypeOK
<1>5. \A u \in Uses : at[u] = "loaded" => u \in Unloaded(ks)
  BY DEF LoadedInv, CachedInv, TypeOK
<1> QED  BY <1>2, <1>3, <1>4, <1>5 DEF TypeOK

(* A use that joins a key is counted once more, one that leaves once less. *)
LEMMA CountMoves ==
  ASSUME TypeOK, NEW u \in Uses, NEW to, key' = key,
         at' = [at EXCEPT ![u] = to]
  PROVE  /\ \A k \in Keys : k # key[u] => Counted(k)' = Counted(k)
         /\ at[u] = "idle" /\ to \in {"loading", "leased"}
            => Cardinality(Counted(key[u])') = Cardinality(Counted(key[u])) + 1
         /\ at[u] \in {"loading", "leased"} /\ to = "done"
            => Cardinality(Counted(key[u])') = Cardinality(Counted(key[u])) - 1
         /\ at[u] \in {"loading", "loaded"} /\ to \in {"loaded", "leased"}
            => Counted(key[u])' = Counted(key[u])
<1> DEFINE C == Counted(key[u])
<1>1. key[u] \in Keys
  BY DEF TypeOK
<1>2. \A k \in Keys : k # key[u] => Counted(k)' = Counted(k)
  BY DEF Counted, TypeOK
<1>3. ASSUME at[u] = "idle", to \in {"loading", "leased"}
      PROVE  Cardinality(C') = Cardinality(C) + 1
  <2>1. C' = C \cup {u} /\ u \notin C
    BY <1>3 DEF Counted, TypeOK
  <2>2. IsFiniteSet(C)
    BY <1>1, CountedFinite
  <2>3. Cardinality(C \cup {u}) = Cardinality(C) + 1
    BY <2>1, <2>2, FS_AddElement
  <2> QED  BY <2>1, <2>3
<1>4. ASSUME at[u] \in {"loading", "leased"}, to = "done"
      PROVE  Cardinality(C') = Cardinality(C) - 1
  <2>1. C' = C \ {u} /\ u \in C
    BY <1>4 DEF Counted, TypeOK
  <2> QED  BY <2>1, <1>1, CountedFinite, FS_RemoveElement
<1>5. ASSUME at[u] \in {"loading", "loaded"}, to \in {"loaded", "leased"}
      PROVE  C' = C
  BY <1>5 DEF Counted, TypeOK
<1> QED  BY <1>2, <1>3, <1>4, <1>5

-----------------------------------------------------------------------------
(* Nothing is cached, nothing is counted.                                  *)
THEOREM InitEstablishes == Init => IInv
<1> SUFFICES ASSUME Init
             PROVE  IInv
  OBVIOUS
<1>1. \A k \in Keys : Counted(k) = {}
  BY DEF Init, Counted
<1>2. SlotsExact
  BY <1>1, FS_EmptySet DEF Init, SlotsExact
<1> QED
  BY <1>2 DEF Init, IInv, TypeOK, OneCopy, NoStrayWeights, CachedInv,
              LoadedInv, HeldInv, Cached

(* load_transcriber's first block: the sweep takes idle keys, and the slot *)
(* is reserved in the same block.                                          *)
LEMMA AcquireKeeps ==
  ASSUME IInv, NEW u \in Uses, Acquire(u)
  PROVE  IInv'
<1>1. PICK ks \in SUBSET Keys :
        /\ Swept(ks)
        /\ loaded' = Unloaded(ks)
        /\ cache' = Without(cache, ks)
        /\ IF cache'[key[u]] # NoModel
           THEN /\ Goes(u, "idle", "leased")
                /\ holds' = [holds EXCEPT ![u] = cache'[key[u]]]
           ELSE /\ Goes(u, "idle", "loading")
                /\ UNCHANGED holds
  BY DEF Acquire
<1>2. /\ inflight' = [inflight EXCEPT ![key[u]] = @ + 1]
      /\ ttl' = ttl /\ key' = key
  BY DEF Acquire
<1>3. \A k \in ks : Cached(k) /\ inflight[k] = 0
  BY <1>1 DEF Swept, Idle
<1>4. key[u] \in Keys /\ at[u] = "idle"
  BY <1>1 DEF IInv, TypeOK, Goes
<1>5. TypeOK'
  BY <1>1, <1>2, <1>3, <1>4, EvictionIsSafe DEF IInv, TypeOK, Goes
<1>6. OneCopy'
  BY <1>1, <1>2, <1>3, <1>4, EvictionIsSafe DEF IInv, TypeOK, OneCopy, Goes
<1>7. SlotsExact'
  <2>1. \E to \in {"loading", "leased"} : at' = [at EXCEPT ![u] = to]
    BY <1>1 DEF Goes
  <2> QED  BY <1>2, <1>4, <2>1, CountMoves DEF IInv, TypeOK, SlotsExact
<1>8. NoStrayWeights'
  BY <1>1, <1>2, <1>3, <1>4, EvictionIsSafe DEF IInv, TypeOK, NoStrayWeights, Goes
<1>9. CachedInv'
  BY <1>1, <1>2, <1>3, <1>4, EvictionIsSafe
     DEF IInv, TypeOK, CachedInv, Cached, Goes
<1>10. LoadedInv'
  BY <1>1, <1>2, <1>3, <1>4, EvictionIsSafe DEF IInv, TypeOK, LoadedInv, Goes
<1>11. HeldInv'
  BY <1>1, <1>4 DEF IInv, TypeOK, HeldInv, Goes
<1> QED  BY <1>5, <1>6, <1>7, <1>8, <1>9, <1>10, <1>11 DEF IInv

(* The load: weights of its own, not cached yet.                           *)
LEMMA LoadKeeps ==
  ASSUME IInv, NEW u \in Uses, Load(u)
  PROVE  IInv'
<1> USE DEF IInv, Load, Goes
<1>1. TypeOK'
  BY DEF TypeOK
<1>2. OneCopy'
  BY DEF TypeOK, OneCopy
<1>3. SlotsExact'
  <2>1. Counted(key[u])' = Counted(key[u])
    BY CountMoves
  <2> QED  BY <2>1, CountMoves DEF TypeOK, SlotsExact
<1>4. NoStrayWeights'
  BY DEF TypeOK, NoStrayWeights
<1>5. CachedInv'
  BY DEF TypeOK, CachedInv, Cached
<1>6. LoadedInv'
  BY DEF TypeOK, LoadedInv
<1>7. HeldInv'
  BY UsesAssumption DEF TypeOK, HeldInv, Cached
<1> QED  BY <1>1, <1>2, <1>3, <1>4, <1>5, <1>6, <1>7

(* The failed load gives its slot back.                                    *)
LEMMA LoadFailsKeeps ==
  ASSUME IInv, NEW u \in Uses, LoadFails(u)
  PROVE  IInv'
<1> USE DEF IInv, LoadFails, Goes
<1>1. TypeOK'
  BY DEF TypeOK, OneLess
<1>2. OneCopy'
  BY DEF TypeOK, OneCopy
<1>3. SlotsExact'
  <2>1. /\ key[u] \in Keys /\ inflight[key[u]] \in Nat
        /\ inflight[key[u]] = Cardinality(Counted(key[u]))
        /\ Cardinality(Counted(key[u])') = Cardinality(Counted(key[u])) - 1
    BY CountMoves DEF TypeOK, SlotsExact
  <2>2. Cardinality(Counted(key[u])) # 0
    <3>1. u \in Counted(key[u])
      BY DEF Counted
    <3> QED  BY <2>1, <3>1, CountedFinite
  <2>3. inflight'[key[u]] = Cardinality(Counted(key[u])')
    BY <2>1, <2>2 DEF OneLess, TypeOK
  <2>4. \A k \in Keys : k # key[u] => inflight'[k] = inflight[k]
    BY DEF TypeOK
  <2> QED  BY <2>3, <2>4, CountMoves DEF SlotsExact
<1>4. NoStrayWeights'
  BY DEF TypeOK, NoStrayWeights
<1>5. CachedInv'
  BY DEF TypeOK, CachedInv, Cached
<1>6. LoadedInv'
  BY DEF TypeOK, LoadedInv
<1>7. HeldInv'
  BY UsesAssumption DEF TypeOK, HeldInv, Cached
<1> QED  BY <1>1, <1>2, <1>3, <1>4, <1>5, <1>6, <1>7

(* The store: ours, or theirs with ours dropped.                           *)
LEMMA StoreKeeps ==
  ASSUME IInv, NEW u \in Uses, Store(u)
  PROVE  IInv'
<1> USE DEF IInv, Store, Goes
<1>1. TypeOK'
  BY DEF TypeOK
<1>2. OneCopy'
  <2> SUFFICES ASSUME NEW v \in Uses, at'[v] = "leased"
               PROVE  cache'[key'[v]] = holds'[v]
    BY DEF OneCopy
  <2>1. CASE v = u
    BY <2>1 DEF TypeOK
  <2>2. CASE v # u
    BY <2>2 DEF TypeOK, OneCopy, HeldInv, CachedInv, Cached
  <2> QED  BY <2>1, <2>2
<1>3. SlotsExact'
  <2>1. Counted(key[u])' = Counted(key[u])
    BY CountMoves
  <2> QED  BY <2>1, CountMoves DEF TypeOK, SlotsExact
<1>4. NoStrayWeights'
  BY UsesAssumption DEF TypeOK, NoStrayWeights, CachedInv, Cached
<1>5. CachedInv'
  BY DEF TypeOK, CachedInv, Cached, LoadedInv
<1>6. LoadedInv'
  BY DEF TypeOK, LoadedInv
<1>7. HeldInv'
  BY UsesAssumption DEF TypeOK, HeldInv, Cached
<1> QED  BY <1>1, <1>2, <1>3, <1>4, <1>5, <1>6, <1>7

(* The release: the object it names is the one of its key, and the policy  *)
(* evicts it only as the last use of the key.                              *)
LEMMA ReleaseKeeps ==
  ASSUME IInv, NEW u \in Uses, Release(u)
  PROVE  IInv'
<1> DEFINE ks == {k \in Keys : cache[k] = holds[u]}
           last == {k \in ks : inflight[k] <= 1 /\ ttl = "zero"}
<1>1. /\ at[u] = "leased" /\ at' = [at EXCEPT ![u] = "done"]
      /\ inflight' = [k \in Keys |-> IF k \in ks THEN OneLess(inflight[k])
                                               ELSE inflight[k]]
      /\ cache' = Without(cache, last) /\ loaded' = Unloaded(last)
      /\ ttl' = ttl /\ key' = key /\ holds' = holds
  BY DEF Release, Goes
<1>2. key[u] \in Keys /\ ks = {key[u]} /\ cache[key[u]] \in Uses
  <2>1. key[u] \in Keys /\ cache[key[u]] = holds[u]
    BY <1>1 DEF IInv, TypeOK, OneCopy
  <2>2. holds[u] # NoModel
    BY <1>1 DEF IInv, TypeOK, OneCopy, HeldInv
  <2> QED  BY <2>1, <2>2 DEF IInv, TypeOK, CachedInv, Cached
<1> HIDE DEF ks
<1>3. /\ inflight[key[u]] = Cardinality(Counted(key[u])) /\ inflight[key[u]] \in Nat
      /\ Cardinality(Counted(key[u])') = Cardinality(Counted(key[u])) - 1
      /\ Cardinality(Counted(key[u])) # 0
      /\ Cardinality(Counted(key[u])') \in Nat
  <2>1. u \in Counted(key[u])
    BY <1>1 DEF Counted
  <2>2. /\ Cardinality(Counted(key[u])) \in Nat
        /\ Cardinality(Counted(key[u])) # 0
    BY <1>2, <2>1, CountedFinite
  <2>3. inflight[key[u]] = Cardinality(Counted(key[u]))
    BY <1>2 DEF IInv, SlotsExact
  <2>4. Cardinality(Counted(key[u])') = Cardinality(Counted(key[u])) - 1
    BY <1>1, CountMoves DEF IInv
  <2> QED  BY <2>2, <2>3, <2>4
<1>4. SlotsExact'
  <2>1. inflight'[key[u]] = Cardinality(Counted(key[u])')
    BY <1>1, <1>2, <1>3 DEF OneLess
  <2>2. \A k \in Keys : k # key[u] => inflight'[k] = inflight[k]
    BY <1>1, <1>2
  <2> QED  BY <1>1, <2>1, <2>2, CountMoves DEF SlotsExact, IInv
<1>5. \A v \in Uses : key[v] \in last => v = u \/ at[v] \in {"idle", "done"}
  <2> SUFFICES ASSUME NEW v \in Uses, key[v] \in last, v # u,
                      at[v] \notin {"idle", "done"}
               PROVE  FALSE
    OBVIOUS
  <2>1. key[v] = key[u] /\ inflight[key[u]] <= 1
    BY <1>2
  <2>2. v \in Counted(key[u])'
    BY <1>1, <2>1 DEF Counted, IInv, TypeOK
  <2>3. Cardinality(Counted(key[u])') = 0
    BY <1>3, <2>1
  <2>4. Counted(key[u])' = {}
    <3>1. Counted(key[u])' \subseteq Uses
      BY DEF Counted
    <3> QED  BY <2>3, <3>1, UsesAssumption, FS_Subset, FS_EmptySet
  <2> QED  BY <2>2, <2>4
<1>6. last \subseteq {key[u]}
  BY <1>2
<1> HIDE DEF last
<1>7. TypeOK'
  BY <1>1, <1>2 DEF IInv, TypeOK, OneLess, Without, Unloaded
<1>8. OneCopy'
  BY <1>1, <1>5 DEF IInv, TypeOK, OneCopy, Without
<1>9. NoStrayWeights'
  BY <1>1, <1>6 DEF IInv, TypeOK, NoStrayWeights, Without, Unloaded
<1>10. CachedInv'
  <2> SUFFICES ASSUME NEW k \in Keys, cache'[k] # NoModel
               PROVE  /\ cache'[k] \in loaded'
                      /\ key'[cache'[k]] = k
                      /\ at'[cache'[k]] \in {"leased", "done"}
    BY DEF CachedInv, Cached
  <2>1. k \notin last /\ cache'[k] = cache[k]
    BY <1>1 DEF Without
  <2>2. /\ cache[k] \in loaded /\ key[cache[k]] = k
        /\ at[cache[k]] \in {"leased", "done"}
    BY <2>1 DEF IInv, CachedInv, Cached
  <2>3. cache[k] \notin {cache[m] : m \in last}
    BY <1>2, <1>6, <2>1, <2>2 DEF IInv, CachedInv, Cached
  <2> QED  BY <1>1, <2>1, <2>2, <2>3 DEF Unloaded, IInv, TypeOK
<1>11. LoadedInv'
  <2>1. at[cache[key[u]]] \in {"leased", "done"}
    BY <1>2, UsesAssumption DEF IInv, CachedInv, Cached
  <2>2. \A v \in Uses : at[v] = "loaded" => v # cache[key[u]]
    BY <2>1
  <2> QED  BY <1>1, <1>6, <2>2 DEF IInv, TypeOK, LoadedInv, Unloaded
<1>12. HeldInv'
  BY <1>1 DEF IInv, TypeOK, HeldInv
<1> QED  BY <1>4, <1>7, <1>8, <1>9, <1>10, <1>11, <1>12 DEF IInv

(* The operator's eviction takes idle keys.                                *)
LEMMA EvictKeeps ==
  ASSUME IInv, EvictIdleNow
  PROVE  IInv'
<1>1. /\ cache' = Without(cache, Idle) /\ loaded' = Unloaded(Idle)
      /\ UNCHANGED <<ttl, inflight, key, at, holds>>
  BY DEF EvictIdleNow
<1>2. Idle \in SUBSET Keys /\ \A k \in Idle : Cached(k) /\ inflight[k] = 0
  BY DEF Idle
<1>3. \A k \in Keys : Counted(k)' = Counted(k)
  BY <1>1 DEF Counted
<1>4. SlotsExact'
  BY <1>1, <1>3 DEF IInv, SlotsExact
<1>5. TypeOK' /\ OneCopy' /\ NoStrayWeights'
  BY <1>1, <1>2, EvictionIsSafe DEF IInv, TypeOK, OneCopy, NoStrayWeights
<1>6. CachedInv' /\ LoadedInv' /\ HeldInv'
  BY <1>1, <1>2, EvictionIsSafe
     DEF IInv, TypeOK, CachedInv, Cached, LoadedInv, HeldInv
<1> QED  BY <1>4, <1>5, <1>6 DEF IInv

(* Every step keeps the invariant.                                         *)
THEOREM StepKeeps == IInv /\ [Next]_vars => IInv'
<1> SUFFICES ASSUME IInv, [Next]_vars
             PROVE  IInv'
  OBVIOUS
<1>1. ASSUME NEW u \in Uses, Use(u)
      PROVE  IInv'
  BY <1>1, AcquireKeeps, LoadKeeps, LoadFailsKeeps, StoreKeeps, ReleaseKeeps
     DEF Use
<1>2. CASE SetTtl \/ UNCHANGED vars
  <2>1. /\ UNCHANGED <<cache, inflight, loaded, key, at, holds>>
        /\ ttl' \in {"zero", "finite", "forever"}
    BY <1>2 DEF SetTtl, vars, cacheVars, IInv, TypeOK
  <2>2. \A k \in Keys : Counted(k)' = Counted(k)
    BY <2>1 DEF Counted
  <2> QED
    BY <2>1, <2>2 DEF IInv, TypeOK, OneCopy, SlotsExact, NoStrayWeights,
                      CachedInv, Cached, LoadedInv, HeldInv
<1> QED  BY <1>1, <1>2, EvictKeeps DEF Next

(* The inductive invariant is an invariant of the cache.                   *)
THEOREM Invariance == Spec => []IInv
BY InitEstablishes, StepKeeps, PTL DEF Spec

(* No matter how many jobs, models, evictions and failed loads: a job that *)
(* holds a lease holds a model with its weights.                           *)
THEOREM LeasesAreUsable == Spec => []LeaseIsUsable
<1>1. IInv => LeaseIsUsable
  BY DEF IInv, TypeOK, OneCopy, CachedInv, Cached, LeaseIsUsable, HeldInv
<1> QED  BY Invariance, <1>1, PTL

(* The jobs on one model share one object.                                 *)
THEOREM OneCopyInUse == Spec => []OneCopy
<1>1. IInv => OneCopy
  BY DEF IInv
<1> QED  BY Invariance, <1>1, PTL

(* The reference counts are exact: no slot leaks, none is given back twice.*)
THEOREM CountsAreExact == Spec => []SlotsExact
<1>1. IInv => SlotsExact
  BY DEF IInv
<1> QED  BY Invariance, <1>1, PTL

(* Weights are resident only for a cached model or a load under way.       *)
THEOREM NothingStrays == Spec => []NoStrayWeights
<1>1. IInv => NoStrayWeights
  BY DEF IInv
<1> QED  BY Invariance, <1>1, PTL

(* All of it at once, for any number of uses, models and evictions: the    *)
(* cache is sound although a load runs outside its lock (CacheIsSound).    *)
THEOREM CacheSound == Spec => []CacheIsSound
BY LeasesAreUsable, OneCopyInUse, CountsAreExact, NothingStrays, PTL DEF CacheIsSound

-----------------------------------------------------------------------------
(***************************************************************************)
(* The way into the dashboard.                                             *)
(***************************************************************************)
(* A cookie the browser can have. *)
CookieJars == {<<>>} \cup {<<c>> : c \in 1..cookies}

(* Tokens and cookies are numbered as they come. *)
LoginTypeOK ==
  /\ now \in Nat /\ minted \in Nat /\ cookies \in Nat
  /\ links \in [DOMAIN links -> [expires : Nat, spent : Nat, cookie : CookieJars]]
  /\ DOMAIN links \subseteq 1..minted
  /\ issued \in [DOMAIN issued -> [at : Nat, seen : Nat]]
  /\ DOMAIN issued \subseteq 1..cookies
  /\ jar \in CookieJars
  /\ {metadata, tab, cleared, prompted} \subseteq BOOLEAN
  /\ signin \in {<<>>} \cup {<<s>> : s \in [at : Nat, used : Nat]}

Unspent == {t \in DOMAIN links : links[t].cookie = <<>>}

(* An unspent link can still issue one. *)
LinksLast == cookies + Cardinality(Unspent) <= minted

Holds(c, since, used) ==
  c \in DOMAIN issued /\ issued[c].at = since /\ issued[c].seen >= used

(* A link that was spent within the grace has its session, which nothing could have ended since. *)
GraceInv ==
  \A t \in DOMAIN links : links[t].cookie # <<>> =>
    /\ links[t].spent <= now
    /\ now - links[t].spent <= Grace => Holds(links[t].cookie[1], links[t].spent, links[t].spent)

(* The tab's session is there for as long as it should be. *)
TabInv ==
  signin # <<>> =>
    /\ jar # <<>> /\ signin[1].used <= now
    /\ now - signin[1].used <= SessionIdle /\ now - signin[1].at <= SessionMax =>
         Holds(jar[1], signin[1].at, signin[1].used)
    /\ jar[1] \in DOMAIN issued =>
         issued[jar[1]].at = signin[1].at /\ issued[jar[1]].seen = signin[1].used

SeenInv == \A c \in DOMAIN issued : issued[c].at <= issued[c].seen /\ issued[c].seen <= now

(* The open tab came with a cookie, which only a navigation takes away. *)
PromptInv == (tab => jar # <<>> \/ cleared) /\ PromptIsAfterClearing

LoginInv ==
  /\ LoginTypeOK /\ LinksLast /\ GraceInv /\ TabInv /\ SeenInv /\ PromptInv

(* A recorder that has just started has no links, no sessions and no tab. *)
LEMMA InitLogin == LInit => LoginInv
<1> SUFFICES ASSUME LInit PROVE LoginInv
  OBVIOUS
<1>1. LoginTypeOK
  <2>1. {metadata, tab, cleared, prompted} \subseteq BOOLEAN
    BY Zenon DEF LInit
  <2> QED  BY <2>1 DEF LInit, LoginTypeOK, CookieJars
<1>2. LinksLast
  BY FS_EmptySet DEF LInit, LinksLast, Unspent
<1>3. GraceInv /\ TabInv /\ SeenInv /\ PromptInv
  BY DEF LInit, GraceInv, TabInv, SeenInv, PromptInv, PromptIsAfterClearing
<1> QED  BY <1>1, <1>2, <1>3 DEF LoginInv

(* The unspent links are some of the links minted. *)
LEMMA UnspentIsFinite ==
  ASSUME LoginTypeOK, NEW S, S \subseteq Unspent
  PROVE  IsFiniteSet(S) /\ Cardinality(S) \in Nat /\ Cardinality(S) <= Cardinality(Unspent)
<1>1. IsFiniteSet(1..minted)
  <2>1. minted \in Int
    BY DEF LoginTypeOK
  <2> QED  BY <2>1, FS_Interval
<1>2. IsFiniteSet(Unspent)
  BY <1>1, FS_Subset DEF LoginTypeOK, Unspent
<1>3. IsFiniteSet(S) /\ Cardinality(S) <= Cardinality(Unspent)
  BY <1>2, FS_Subset
<1> QED  BY <1>3, FS_CardinalityType

(* api_login_link: a new link is one more that can issue a cookie. *)
LEMMA MintKeeps == ASSUME LoginInv, Mint PROVE LoginInv'
<1> DEFINE t == minted + 1
           link == [expires |-> now + TokenTtl, spent |-> 0, cookie |-> <<>>]
<1>1. /\ minted' = t /\ DOMAIN links' = {u \in DOMAIN links : Live(u)} \cup {t}
      /\ links'[t] = link
      /\ \A u \in DOMAIN links : Live(u) /\ u # t => links'[u] = links[u]
      /\ UNCHANGED <<now, issued, cookies, metadata, jar, tab, signin, cleared, prompted>>
  BY DEF Mint, browser, Put, LiveLinks, Only
<1>2. t \notin DOMAIN links
  BY DEF LoginInv, LoginTypeOK
<1>3. LoginTypeOK'
  <2>1. link \in [expires : Nat, spent : Nat, cookie : CookieJars]
    <3>1. now + TokenTtl \in Nat
      BY LinksAssumption DEF LoginInv, LoginTypeOK
    <3> QED  BY <3>1 DEF CookieJars
  <2>2. links' \in [DOMAIN links' -> [expires : Nat, spent : Nat, cookie : CookieJars]]
    BY <1>1, <1>2, <2>1 DEF LoginInv, LoginTypeOK, Mint, Put
  <2> QED  BY <1>1, <2>2 DEF LoginInv, LoginTypeOK, CookieJars
<1>4. LinksLast'
  <2>1. PICK S : S = Unspent' \ {t}
    OBVIOUS
  <2>2. S \subseteq Unspent
    BY <1>1, <2>1 DEF Unspent
  <2>3. Unspent' = S \cup {t} /\ t \notin S
    BY <1>1, <2>1 DEF Unspent
  <2>4. IsFiniteSet(S) /\ Cardinality(S) \in Nat /\ Cardinality(S) <= Cardinality(Unspent)
    BY <2>2, UnspentIsFinite DEF LoginInv
  <2>5. Cardinality(Unspent') = Cardinality(S) + 1
    BY <2>3, <2>4, FS_AddElement
  <2>6. Cardinality(Unspent) \in Nat
    BY UnspentIsFinite DEF LoginInv
  <2> QED  BY <1>1, <2>4, <2>5, <2>6 DEF LoginInv, LinksLast, LoginTypeOK
<1>5. GraceInv'
  BY <1>1, <1>2 DEF LoginInv, GraceInv, Holds
<1>6. TabInv' /\ SeenInv' /\ PromptInv'
  BY <1>1 DEF LoginInv, TabInv, SeenInv, PromptInv, PromptIsAfterClearing, Holds
<1> QED  BY <1>3, <1>4, <1>5, <1>6 DEF LoginInv

(* The first to open a link spends it: what Spend does for it. *)
LEMMA FirstSpend ==
  ASSUME LoginInv, NEW t \in DOMAIN links, links[t].cookie = <<>>, Spend(t)
  PROVE  /\ cookies' = cookies + 1
         /\ Answers(t) = <<cookies + 1>>
         /\ DOMAIN links' = {u \in DOMAIN links : Live(u)} /\ Live(t)
         /\ links'[t].cookie = <<cookies + 1>> /\ links'[t].spent = now
         /\ \A u \in DOMAIN links : Live(u) /\ u # t => links'[u] = links[u]
         /\ links' \in [DOMAIN links' -> [expires : Nat, spent : Nat, cookie : CookieJars']]
         /\ issued' \in [DOMAIN issued \cup {cookies + 1} -> [at : Nat, seen : Nat]]
         /\ issued'[cookies + 1].at = now /\ issued'[cookies + 1].seen = now
         /\ \A c \in DOMAIN issued : issued'[c] = issued[c] /\ c # cookies + 1
<1>1. Answers(t) = <<cookies + 1>> /\ Found(t)
  BY DEF Spend, Answers
<1>2. /\ links' = [LiveLinks EXCEPT ![t].cookie = <<cookies + 1>>, ![t].spent = now]
      /\ cookies' = cookies + 1
      /\ issued' = Put(issued, cookies + 1, [at |-> now, seen |-> now])
  BY <1>1 DEF Spend
<1> DEFINE cooked == [links[t] EXCEPT !.cookie = <<cookies + 1>>]
           gone == [cooked EXCEPT !.spent = now]
<1>3. /\ DOMAIN links' = {u \in DOMAIN links : Live(u)} /\ Live(t)
      /\ links'[t] = gone
      /\ \A u \in DOMAIN links : Live(u) /\ u # t => links'[u] = links[u]
  BY <1>1, <1>2 DEF Found, LiveLinks, Only
<1>6. gone \in [expires : Nat, spent : Nat, cookie : CookieJars'] /\ gone.cookie = <<cookies + 1>> /\ gone.spent = now
  <2>1. links[t] \in [expires : Nat, spent : Nat, cookie : CookieJars] /\ now \in Nat
    BY DEF LoginInv, LoginTypeOK
  <2>2. <<cookies + 1>> \in CookieJars'
    BY <1>2 DEF LoginInv, LoginTypeOK, CookieJars
  <2>3. cooked \in [expires : Nat, spent : Nat, cookie : CookieJars'] /\ cooked.cookie = <<cookies + 1>>
    BY <2>1, <2>2
  <2> HIDE DEF cooked
  <2> QED  BY <2>1, <2>3
<1>4. links' \in [DOMAIN links' -> [expires : Nat, spent : Nat, cookie : CookieJars']]
  <2>1. CookieJars \subseteq CookieJars' /\ <<cookies + 1>> \in CookieJars'
    BY <1>2 DEF LoginInv, LoginTypeOK, CookieJars
  <2>2. links'[t] \in [expires : Nat, spent : Nat, cookie : CookieJars']
    BY <1>3, <1>6
  <2>3. \A u \in DOMAIN links' : u # t => links'[u] \in [expires : Nat, spent : Nat, cookie : CookieJars']
    BY <1>3, <2>1 DEF LoginInv, LoginTypeOK
  <2> QED  BY <1>2, <2>2, <2>3
<1>5. /\ issued' \in [DOMAIN issued \cup {cookies + 1} -> [at : Nat, seen : Nat]]
      /\ issued'[cookies + 1].at = now /\ issued'[cookies + 1].seen = now
      /\ \A c \in DOMAIN issued : issued'[c] = issued[c] /\ c # cookies + 1
  BY <1>2 DEF LoginInv, LoginTypeOK, Put
<1> QED  BY <1>1, <1>2, <1>3, <1>4, <1>5, <1>6

(* Opened again, it answers with the session it was spent for. *)
LEMMA AgainSpend ==
  ASSUME LoginInv, NEW t \in DOMAIN links, links[t].cookie # <<>>, Spend(t)
  PROVE  /\ UNCHANGED <<cookies, issued>> /\ Answers(t) = links[t].cookie
         /\ Answers(t) \in CookieJars /\ Answers(t) # <<>>
         /\ DOMAIN links' = {u \in DOMAIN links : Live(u)} /\ Live(t)
         /\ \A u \in DOMAIN links : Live(u) => links'[u] = links[u]
         /\ links' \in [DOMAIN links' -> [expires : Nat, spent : Nat, cookie : CookieJars]]
<1>1. Answers(t) = links[t].cookie /\ links[t].cookie \in CookieJars /\ Found(t)
  BY DEF Spend, Answers, LoginInv, LoginTypeOK
<1>2. links[t].cookie # <<cookies + 1>>
  BY <1>1 DEF LoginInv, LoginTypeOK, CookieJars
<1>3. links' = [LiveLinks EXCEPT ![t].cookie = links[t].cookie, ![t].spent = links[t].spent] /\ UNCHANGED <<cookies, issued>>
  BY <1>1, <1>2 DEF Spend, LiveLinks, Only, Found
<1>4. links' = LiveLinks
  BY <1>1, <1>3 DEF LiveLinks, Only, Found, LoginInv, LoginTypeOK
<1>5. DOMAIN links' = {u \in DOMAIN links : Live(u)} /\ Live(t) /\ \A u \in DOMAIN links : Live(u) => links'[u] = links[u]
  BY <1>1, <1>4 DEF Found, LiveLinks, Only
<1>6. links' \in [DOMAIN links' -> [expires : Nat, spent : Nat, cookie : CookieJars]]
  BY <1>4 DEF LoginInv, LoginTypeOK, LiveLinks, Only
<1> QED  BY <1>1, <1>3, <1>5, <1>6

(* What opening a link keeps, for the browser and for a scanner alike. *)
LEMMA SpendKeeps ==
  ASSUME LoginInv, NEW t \in DOMAIN links, Spend(t)
  PROVE  /\ links' \in [DOMAIN links' -> [expires : Nat, spent : Nat, cookie : CookieJars']]
         /\ DOMAIN links' \subseteq 1..minted /\ cookies' \in Nat
         /\ issued' \in [DOMAIN issued' -> [at : Nat, seen : Nat]] /\ DOMAIN issued' \subseteq 1..cookies'
         /\ CookieJars \subseteq CookieJars'
         /\ LinksLast' /\ GraceInv' /\ SeenInv'
         /\ \A c \in DOMAIN issued : c \in DOMAIN issued' /\ issued'[c] = issued[c]
         /\ DOMAIN issued' \subseteq DOMAIN issued \cup {cookies + 1}
         /\ Answers(t) \in CookieJars' /\ Answers(t) # <<>>
         /\ Answers(t)[1] \in DOMAIN issued' /\ issued'[Answers(t)[1]].seen <= now
<1>0. UNCHANGED <<now, minted, metadata>>
  BY DEF Spend
<1>1. CASE links[t].cookie = <<>>
  <2>0. /\ cookies' = cookies + 1 /\ Answers(t) = <<cookies + 1>>
        /\ DOMAIN links' = {u \in DOMAIN links : Live(u)} /\ Live(t)
        /\ links'[t].cookie = <<cookies + 1>> /\ links'[t].spent = now
        /\ \A u \in DOMAIN links : Live(u) /\ u # t => links'[u] = links[u]
        /\ links' \in [DOMAIN links' -> [expires : Nat, spent : Nat, cookie : CookieJars']]
        /\ issued' \in [DOMAIN issued \cup {cookies + 1} -> [at : Nat, seen : Nat]]
        /\ issued'[cookies + 1].at = now /\ issued'[cookies + 1].seen = now
        /\ \A c \in DOMAIN issued : issued'[c] = issued[c] /\ c # cookies + 1
    BY <1>1, FirstSpend
  <2> DEFINE c == cookies + 1
  <2>1. LinksLast'
    <3>1. Unspent' \subseteq Unspent \ {t} /\ t \in Unspent
      <4>1. <<cookies + 1>> # <<>>
        OBVIOUS
      <4>2. \A u \in DOMAIN links' : links'[u].cookie = <<>> => u \in DOMAIN links /\ u # t /\ links[u].cookie = <<>>
        BY <2>0, <4>1
      <4> QED  BY <1>1, <4>2 DEF Unspent
    <3>2. IsFiniteSet(Unspent) /\ Cardinality(Unspent) \in Nat
      BY UnspentIsFinite DEF LoginInv
    <3>3. IsFiniteSet(Unspent \ {t}) /\ Cardinality(Unspent \ {t}) = Cardinality(Unspent) - 1
      BY <3>1, <3>2, FS_RemoveElement
    <3>4. Cardinality(Unspent') <= Cardinality(Unspent \ {t}) /\ IsFiniteSet(Unspent')
      BY <3>1, <3>3, FS_Subset
    <3>5. Cardinality(Unspent') \in Nat
      BY <3>4, FS_CardinalityType
    <3> QED  BY <1>0, <2>0, <3>2, <3>3, <3>4, <3>5 DEF LoginInv, LinksLast, LoginTypeOK
  <2>2. ASSUME NEW u \in DOMAIN links', links'[u].cookie # <<>>
        PROVE  /\ links'[u].spent <= now
               /\ now - links'[u].spent <= Grace =>
                    /\ links'[u].cookie[1] \in DOMAIN issued'
                    /\ issued'[links'[u].cookie[1]].at = links'[u].spent
                    /\ issued'[links'[u].cookie[1]].seen >= links'[u].spent
    <3>1. CASE u = t
      <4>1. links'[t].cookie[1] = c /\ c \in DOMAIN issued'
        BY <2>0
      <4> QED  BY <2>0, <3>1, <4>1 DEF LoginInv, LoginTypeOK
    <3>2. CASE u # t
      <4>1. u \in DOMAIN links /\ links'[u] = links[u] /\ links[u].cookie # <<>>
        BY <2>0, <2>2, <3>2
      <4>2. /\ links[u].spent <= now
            /\ now - links[u].spent <= Grace =>
                 Holds(links[u].cookie[1], links[u].spent, links[u].spent)
        BY <4>1 DEF LoginInv, GraceInv
      <4> QED  BY <2>0, <4>1, <4>2 DEF Holds
    <3> QED  BY <3>1, <3>2
  <2>3. GraceInv'
    BY <1>0, <2>2 DEF GraceInv, Holds
  <2>4. SeenInv'
    BY <1>0, <2>0 DEF LoginInv, SeenInv, LoginTypeOK
  <2>5. CookieJars \subseteq CookieJars' /\ <<c>> \in CookieJars' /\ cookies' \in Nat
        /\ DOMAIN issued' \subseteq 1..cookies' /\ DOMAIN links' \subseteq 1..minted
    <3>1. cookies \in Nat /\ cookies' = c
      BY <2>0 DEF LoginInv, LoginTypeOK
    <3>2. c \in 1..c /\ 1..cookies \subseteq 1..c
      BY <3>1
    <3>3. DOMAIN issued' = DOMAIN issued \cup {c} /\ DOMAIN links' \subseteq DOMAIN links
      BY <2>0
    <3> QED  BY <3>1, <3>2, <3>3 DEF LoginInv, LoginTypeOK, CookieJars
  <2>6. Answers(t)[1] = c /\ Answers(t) # <<>> /\ c \in DOMAIN issued' /\ issued'[c].seen <= now
    BY <2>0 DEF LoginInv, LoginTypeOK
  <2> QED  BY <2>0, <2>1, <2>3, <2>4, <2>5, <2>6
<1>2. CASE links[t].cookie # <<>>
  <2>1. LinksLast'
    <3>1. Unspent' \subseteq Unspent
      BY <1>2, AgainSpend DEF Unspent
    <3>2. Cardinality(Unspent') <= Cardinality(Unspent) /\ Cardinality(Unspent') \in Nat /\ Cardinality(Unspent) \in Nat
      BY <3>1, UnspentIsFinite DEF LoginInv
    <3>3. cookies' = cookies
      BY <1>2, AgainSpend
    <3> QED  BY <1>0, <3>2, <3>3 DEF LoginInv, LinksLast, LoginTypeOK
  <2>2. GraceInv'
    BY <1>0, <1>2, AgainSpend DEF LoginInv, GraceInv, Holds
  <2>3. SeenInv'
    BY <1>0, <1>2, AgainSpend DEF LoginInv, SeenInv
  <2>4. CookieJars' = CookieJars /\ DOMAIN links' \subseteq 1..minted
    BY <1>2, AgainSpend DEF LoginInv, LoginTypeOK, CookieJars
  <2>5. Answers(t)[1] \in DOMAIN issued /\ issued[Answers(t)[1]].seen <= now
    BY <1>2, AgainSpend DEF LoginInv, GraceInv, Holds, Live, SeenInv
  <2> QED  BY <1>2, <2>1, <2>2, <2>3, <2>4, <2>5, AgainSpend DEF LoginInv, LoginTypeOK
<1> QED  BY <1>1, <1>2

(* A scanner spends the link: the tab's own cookie is another one. *)
LEMMA PreviewKeeps == ASSUME LoginInv, NEW t \in DOMAIN links, Preview(t) PROVE LoginInv'
<1>1. Spend(t) /\ UNCHANGED <<jar, signin, now, minted, metadata, tab, cleared, prompted>>
  BY DEF Preview, browser, Spend
<1>2. LoginTypeOK'
  BY <1>1, SpendKeeps DEF LoginInv, LoginTypeOK
<1>3. TabInv'
  <2>1. \A c \in DOMAIN issued : c \in DOMAIN issued' /\ issued'[c] = issued[c]
    BY <1>1, SpendKeeps
  <2>2. DOMAIN issued' \subseteq DOMAIN issued \cup {cookies + 1}
    BY <1>1, SpendKeeps
  <2>3. signin # <<>> => jar # <<>> /\ jar[1] # cookies + 1
    BY DEF LoginInv, LoginTypeOK, TabInv, CookieJars
  <2> QED  BY <1>1, <2>1, <2>2, <2>3 DEF LoginInv, TabInv, Holds
<1>4. PromptInv'
  BY <1>1 DEF LoginInv, PromptInv, PromptIsAfterClearing
<1> QED  BY <1>1, <1>2, <1>3, <1>4, SpendKeeps DEF LoginInv

(* The operator opens the link: the tab learns the times of its session. *)
LEMMA OpenKeeps == ASSUME LoginInv, NEW t \in DOMAIN links, OpenLink(t) PROVE LoginInv'
<1> DEFINE c == Answers(t)[1]
<1>1. Spend(t) /\ UNCHANGED <<now, minted, metadata>>
  BY DEF OpenLink, Spend
<1>2. /\ Answers(t) \in CookieJars' /\ Answers(t) # <<>> /\ c \in DOMAIN issued' /\ issued'[c] \in [at : Nat, seen : Nat]
      /\ issued'[c].seen <= now
  BY <1>1, SpendKeeps
<1>3. jar' = Answers(t) /\ tab' /\ ~cleared' /\ ~prompted' /\ {tab', cleared', prompted'} \subseteq BOOLEAN /\ signin' = <<[at |-> issued'[c].at, used |-> issued'[c].seen]>>
  BY DEF OpenLink
<1>4. LoginTypeOK'
  <2>1. [at |-> issued'[c].at, used |-> issued'[c].seen] \in [at : Nat, used : Nat]
    BY <1>2
  <2> QED  BY <1>1, <1>2, <1>3, <2>1, SpendKeeps DEF LoginInv, LoginTypeOK
<1>5. TabInv'
  <2>1. signin'[1].at = issued'[c].at /\ signin'[1].used = issued'[c].seen /\ jar' # <<>> /\ jar'[1] = c
    BY <1>2, <1>3
  <2> QED  BY <1>1, <1>2, <2>1 DEF TabInv, Holds
<1>6. PromptInv'
  BY <1>2, <1>3 DEF PromptInv, PromptIsAfterClearing
<1> QED  BY <1>1, <1>4, <1>5, <1>6, SpendKeeps DEF LoginInv

(* The session of a tab in use is there, and fresh. *)
LEMMA TabIsSignedIn == ASSUME LoginInv PROVE TabStaysSignedIn
<1> SUFFICES ASSUME signin # <<>>, now - signin[1].used <= SessionIdle, now - signin[1].at <= SessionMax
             PROVE  Accepted
  BY DEF TabStaysSignedIn
<1>1. jar # <<>> /\ Holds(jar[1], signin[1].at, signin[1].used)
  BY DEF LoginInv, TabInv
<1>2. signin[1].at \in Nat /\ signin[1].used \in Nat /\ now \in Nat /\ issued[jar[1]].seen \in Nat
  BY <1>1 DEF LoginInv, LoginTypeOK, Holds
<1>3. SessionIdle \in Nat /\ SessionMax \in Nat
  BY LinksAssumption
<1>4. issued[jar[1]].at = signin[1].at /\ issued[jar[1]].seen >= signin[1].used /\ jar[1] \in DOMAIN issued
  BY <1>1 DEF Holds
<1> QED  BY <1>1, <1>2, <1>3, <1>4 DEF Accepted, Fresh

(* What validate leaves: the living, the presented one marked. *)
LEMMA ValidateKeeps ==
  ASSUME LoginInv, Validate
  PROVE  /\ issued' \in [DOMAIN issued' -> [at : Nat, seen : Nat]]
         /\ DOMAIN issued' \subseteq DOMAIN issued
         /\ \A c \in DOMAIN issued : Fresh(c) =>
              c \in DOMAIN issued' /\ issued'[c].at = issued[c].at /\ issued'[c].seen >= issued[c].seen
         /\ \A c \in DOMAIN issued' : issued'[c].at = issued[c].at /\ issued'[c].seen \in {issued[c].seen, now}
         /\ jar # <<>> => \A c \in DOMAIN issued' : Fresh(c)
         /\ Accepted => issued'[jar[1]].seen = now
<1>0. now \in Nat /\ \A c \in DOMAIN issued : issued[c].at \in Nat /\ issued[c].seen \in Nat /\ issued[c].seen <= now
  BY DEF LoginInv, LoginTypeOK, SeenInv
<1>1. CASE jar = <<>>
  BY <1>0, <1>1 DEF Validate, Accepted, LoginInv, LoginTypeOK
<1>2. CASE jar # <<>>
  <2> DEFINE alive == Only(issued, {d \in DOMAIN issued : Fresh(d)})
  <2>1. /\ alive \in [DOMAIN alive -> [at : Nat, seen : Nat]]
        /\ DOMAIN alive = {d \in DOMAIN issued : Fresh(d)}
        /\ \A d \in DOMAIN alive : alive[d] = issued[d]
    BY DEF Only, LoginInv, LoginTypeOK
  <2>2. issued' = IF jar[1] \in DOMAIN alive THEN [alive EXCEPT ![jar[1]].seen = now] ELSE alive
    BY <1>2 DEF Validate, Validated
  <2>3. Accepted <=> jar[1] \in DOMAIN alive
    BY <1>2, <2>1 DEF Accepted
  <2> HIDE DEF alive
  <2>4. CASE jar[1] \in DOMAIN alive
    <3>1. [alive[jar[1]] EXCEPT !.seen = now] \in [at : Nat, seen : Nat]
      BY <1>0, <2>1, <2>4
    <3>2. issued' = [alive EXCEPT ![jar[1]] = [alive[jar[1]] EXCEPT !.seen = now]]
      BY <2>2, <2>4
    <3>3. issued' \in [DOMAIN issued' -> [at : Nat, seen : Nat]] /\ DOMAIN issued' = DOMAIN alive
      BY <2>1, <3>1, <3>2
    <3>4. \A c \in DOMAIN alive : issued'[c].at = issued[c].at /\ issued'[c].seen = IF c = jar[1] THEN now ELSE issued[c].seen
      BY <2>1, <3>2
    <3>5. /\ \A c \in DOMAIN issued' : issued'[c].at = issued[c].at /\ issued'[c].seen \in {issued[c].seen, now}
          /\ \A c \in DOMAIN issued' : Fresh(c) /\ c \in DOMAIN issued
      BY <2>1, <3>3, <3>4
    <3>6. \A c \in DOMAIN issued : Fresh(c) =>
            c \in DOMAIN issued' /\ issued'[c].at = issued[c].at /\ issued'[c].seen >= issued[c].seen
      BY <1>0, <2>1, <3>3, <3>4
    <3>7. issued'[jar[1]].seen = now
      BY <2>4, <3>4
    <3> QED  BY <3>3, <3>5, <3>6, <3>7
  <2>5. CASE jar[1] \notin DOMAIN alive
    BY <1>0, <2>1, <2>2, <2>3, <2>5
  <2> QED  BY <2>4, <2>5
<1> QED  BY <1>1, <1>2

(* A link inside its grace has its session still: it cannot have idled out, the grace being shorter. *)
LEMMA ValidateKeepsGrace ==
  ASSUME LoginInv, Validate, UNCHANGED <<now, links>>
  PROVE  GraceInv' /\ SeenInv'
<1>1. GraceInv'
  <2> SUFFICES ASSUME NEW t \in DOMAIN links, links[t].cookie # <<>>, now - links[t].spent <= Grace
               PROVE  Holds(links[t].cookie[1], links[t].spent, links[t].spent)'
    BY DEF LoginInv, GraceInv
  <2> DEFINE c == links[t].cookie[1]
  <2>1. Holds(c, links[t].spent, links[t].spent)
    BY DEF LoginInv, GraceInv
  <2>2. now \in Nat /\ links[t].spent \in Nat /\ issued[c].seen \in Nat /\ issued[c].at \in Nat
    BY <2>1 DEF LoginInv, LoginTypeOK, Holds
  <2>3. Fresh(c)
    BY <2>1, <2>2, LinksAssumption DEF Holds, Fresh
  <2>4. c \in DOMAIN issued' /\ issued'[c].at = issued[c].at /\ issued'[c].seen >= issued[c].seen /\ issued'[c].seen \in Nat
    BY <2>1, <2>3, ValidateKeeps DEF Holds
  <2> QED  BY <2>1, <2>2, <2>4 DEF Holds
<1>2. SeenInv'
  <2>1. \A c \in DOMAIN issued' : c \in DOMAIN issued /\ issued'[c].at = issued[c].at /\ issued'[c].seen \in {issued[c].seen, now}
    BY ValidateKeeps
  <2> QED  BY <2>1 DEF LoginInv, SeenInv, LoginTypeOK
<1> QED  BY <1>1, <1>2

(* A request of the tab, or a navigation, through the middleware. *)
LEMMA RequestKeeps == ASSUME LoginInv, TabFetches \/ Navigate PROVE LoginInv'
<1>0. signin # <<>> => signin[1] \in [at : Nat, used : Nat]
  BY DEF LoginInv, LoginTypeOK
<1>1. /\ Validate /\ UNCHANGED <<now, links, minted, cookies>>
      /\ \/ signin' = <<>> \/ signin' = signin
         \/ signin # <<>> /\ signin' = <<[signin[1] EXCEPT !.used = now]>>
      /\ signin' # <<>> => jar' = jar
      /\ jar' = <<>> \/ jar' = jar
      /\ Accepted /\ signin' # <<>> => signin # <<>> /\ signin'[1].used = now /\ signin'[1].at = signin[1].at
      /\ ~Accepted => signin' = <<>> \/ signin' = signin
  <2>1. CASE TabFetches
    BY <1>0, <2>1 DEF TabFetches
  <2>2. CASE Navigate
    BY <1>0, <2>2 DEF Navigate
  <2> QED  BY <2>1, <2>2
<1>2. PromptInv' /\ {metadata', tab', cleared', prompted'} \subseteq BOOLEAN
  <2>0. {metadata, tab, cleared, prompted} \subseteq BOOLEAN /\ PromptInv
    BY DEF LoginInv, LoginTypeOK
  <2>1. CASE TabFetches
    <3>1. tab /\ UNCHANGED <<metadata, jar, tab, cleared>> /\ prompted' = (prompted \/ (~Accepted /\ ~Quiet(FALSE, metadata)))
      BY <2>1 DEF TabFetches
    <3>2. ~Quiet(FALSE, metadata) => ~metadata /\ jar = <<>>
      BY DEF Quiet
    <3> QED  BY <2>0, <3>1, <3>2 DEF PromptInv, PromptIsAfterClearing
  <2>2. CASE Navigate
    <3>1. /\ UNCHANGED <<metadata, prompted>>
          /\ jar' = IF Accepted THEN jar ELSE <<>>
          /\ cleared' = (cleared \/ (jar # <<>> /\ ~Accepted))
          /\ tab' = (tab \/ Accepted)
      BY <2>2 DEF Navigate
    <3>2. Accepted => jar # <<>>
      BY DEF Accepted
    <3> QED  BY <2>0, <3>1, <3>2 DEF PromptInv, PromptIsAfterClearing
  <2> QED  BY <2>1, <2>2
<1>3. LoginTypeOK'
  <2>1. signin # <<>> => [signin[1] EXCEPT !.used = now] \in [at : Nat, used : Nat]
    BY DEF LoginInv, LoginTypeOK
  <2>2. signin' \in {<<>>} \cup {<<s>> : s \in [at : Nat, used : Nat]}
    BY <1>1, <2>1 DEF LoginInv, LoginTypeOK
  <2>3. jar' \in CookieJars' /\ CookieJars' = CookieJars
    BY <1>1 DEF LoginInv, LoginTypeOK, CookieJars
  <2> QED  BY <1>1, <1>2, <2>2, <2>3, ValidateKeeps DEF LoginInv, LoginTypeOK
<1>4. TabInv'
  <2> SUFFICES ASSUME signin' # <<>> PROVE TabInv'
    BY DEF TabInv
  <2>1. CASE Accepted
    <3>1. signin'[1].used = now /\ signin'[1].at = signin[1].at /\ signin # <<>> /\ jar' = jar /\ jar # <<>>
      BY <1>1, <2>1 DEF Accepted
    <3>2. jar[1] \in DOMAIN issued' /\ issued'[jar[1]].at = issued[jar[1]].at /\ issued'[jar[1]].seen = now
      BY <1>1, <2>1, ValidateKeeps DEF Accepted
    <3>3. issued[jar[1]].at = signin[1].at
      BY <2>1, <3>1 DEF Accepted, LoginInv, TabInv
    <3>4. now \in Nat /\ now' = now
      BY <1>1 DEF LoginInv, LoginTypeOK
    <3> QED  BY <3>1, <3>2, <3>3, <3>4 DEF TabInv, Holds
  <2>2. CASE ~Accepted
    <3>1. signin' = signin /\ jar' = jar /\ signin # <<>>
      BY <1>1, <2>2
    <3>2. ~(now - signin[1].used <= SessionIdle /\ now - signin[1].at <= SessionMax)
      BY <2>2, <3>1, TabIsSignedIn DEF TabStaysSignedIn
    <3>3. /\ jar # <<>> /\ signin[1].used <= now
          /\ jar[1] \in DOMAIN issued =>
               issued[jar[1]].at = signin[1].at /\ issued[jar[1]].seen = signin[1].used
      BY <3>1 DEF LoginInv, TabInv
    <3>4. jar[1] \in DOMAIN issued' =>
            issued'[jar[1]].at = signin[1].at /\ issued'[jar[1]].seen = signin[1].used
      <4>1. jar[1] \notin DOMAIN issued'
        BY <1>1, <2>2, <3>3, ValidateKeeps DEF Accepted
      <4> QED  BY <4>1
    <3> QED  BY <1>1, <3>1, <3>2, <3>3, <3>4 DEF TabInv
  <2> QED  BY <2>1, <2>2
<1>5. LinksLast'
  BY <1>1 DEF LoginInv, LinksLast, Unspent
<1> QED  BY <1>1, <1>2, <1>3, <1>4, <1>5, ValidateKeepsGrace DEF LoginInv

(* Time only ends things. *)
LEMMA TickKeeps == ASSUME LoginInv, Tick PROVE LoginInv'
<1>1. now \in Nat /\ now' = now + 1 /\ UNCHANGED <<links, issued, minted, cookies, metadata, jar, tab, signin, cleared, prompted>>
  BY DEF Tick, browser, LoginInv, LoginTypeOK
<1>2. LoginTypeOK'
  BY <1>1 DEF LoginInv, LoginTypeOK, CookieJars
<1>3. LinksLast'
  BY <1>1 DEF LoginInv, LinksLast, Unspent
<1>4. GraceInv'
  <2>1. ASSUME NEW t \in DOMAIN links, links[t].cookie # <<>>
        PROVE  /\ links[t].spent <= now'
               /\ now' - links[t].spent <= Grace =>
                    Holds(links[t].cookie[1], links[t].spent, links[t].spent)
    <3>1. links[t].spent \in Nat /\ Grace \in Nat
      BY LinksAssumption DEF LoginInv, LoginTypeOK
    <3>2. /\ links[t].spent <= now
          /\ now - links[t].spent <= Grace => Holds(links[t].cookie[1], links[t].spent, links[t].spent)
      BY <2>1 DEF LoginInv, GraceInv
    <3> QED  BY <1>1, <3>1, <3>2
  <2>2. \A c, since : Holds(c, since, since)' <=> Holds(c, since, since)
    BY <1>1 DEF Holds
  <2> QED  BY <1>1, <2>1, <2>2 DEF GraceInv
<1>5. TabInv'
  <2>1. ASSUME signin # <<>>
        PROVE  /\ jar # <<>> /\ signin[1].used <= now'
               /\ now' - signin[1].used <= SessionIdle /\ now' - signin[1].at <= SessionMax =>
                    Holds(jar[1], signin[1].at, signin[1].used)
               /\ jar[1] \in DOMAIN issued =>
                    issued[jar[1]].at = signin[1].at /\ issued[jar[1]].seen = signin[1].used
    <3>1. signin[1].used \in Nat /\ signin[1].at \in Nat /\ SessionIdle \in Nat /\ SessionMax \in Nat
      BY <2>1, LinksAssumption DEF LoginInv, LoginTypeOK
    <3> QED  BY <1>1, <2>1, <3>1 DEF LoginInv, TabInv
  <2> QED  BY <1>1, <2>1 DEF TabInv, Holds
<1>6. SeenInv' /\ PromptInv'
  BY <1>1 DEF LoginInv, LoginTypeOK, SeenInv, PromptInv, PromptIsAfterClearing
<1> QED  BY <1>2, <1>3, <1>4, <1>5, <1>6 DEF LoginInv

(* A restart forgets the links and the sessions, and with them what the tab relied on. *)
LEMMA RestartKeeps == ASSUME LoginInv, Restart PROVE LoginInv'
<1>1. LoginTypeOK'
  BY DEF Restart, LoginInv, LoginTypeOK, CookieJars
<1>2. Unspent' = {}
  BY DEF Restart, Unspent
<1>3. LinksLast'
  <2>1. Cardinality(Unspent') = 0
    BY <1>2, FS_EmptySet
  <2>2. Cardinality(Unspent) \in Nat
    BY UnspentIsFinite DEF LoginInv
  <2> QED  BY <2>1, <2>2 DEF Restart, LoginInv, LoginTypeOK, LinksLast
<1>4. GraceInv' /\ TabInv' /\ SeenInv' /\ PromptInv'
  BY DEF Restart, LoginInv, GraceInv, TabInv, SeenInv, PromptInv, PromptIsAfterClearing
<1> QED  BY <1>1, <1>3, <1>4 DEF LoginInv

(* The invariant is inductive. *)
THEOREM LoginStep == LoginInv /\ [LNext]_lvars => LoginInv'
<1> SUFFICES ASSUME LoginInv, [LNext]_lvars PROVE LoginInv'
  OBVIOUS
<1>1. CASE UNCHANGED lvars
  BY <1>1 DEF lvars, LoginInv, LoginTypeOK, CookieJars, LinksLast, Unspent, GraceInv, TabInv, SeenInv, Holds, PromptInv, PromptIsAfterClearing
<1>2. CASE LNext
  BY <1>2, MintKeeps, RequestKeeps, TickKeeps, RestartKeeps, PreviewKeeps, OpenKeeps DEF LNext
<1> QED  BY <1>1, <1>2

(* The invariant is enough. *)
LEMMA SignInsCount == LoginInv => OneSignInPerLink /\ TabStaysSignedIn /\ PromptIsAfterClearing
<1> SUFFICES ASSUME LoginInv PROVE OneSignInPerLink
  BY TabIsSignedIn DEF LoginInv, PromptInv
<1>1. Cardinality(Unspent) \in Nat
  BY UnspentIsFinite DEF LoginInv
<1> QED  BY <1>1 DEF LoginInv, LinksLast, LoginTypeOK, OneSignInPerLink

EndsForGood == \A c \in DOMAIN issued : ~Fresh(c) => ~(c \in DOMAIN issued' /\ Fresh(c)')

(* No step brings back a session that has ended: validate sweeps the dead before it marks
   the presented one, and a link still in its grace answers with a session that is alive. *)
LEMMA EndedStays == LoginInv /\ [LNext]_lvars => [EndsForGood]_lvars
<1> SUFFICES ASSUME LoginInv, LNext, NEW c \in DOMAIN issued, ~Fresh(c), c \in DOMAIN issued'
             PROVE  ~Fresh(c)'
  BY DEF EndsForGood
<1>0. now \in Nat /\ issued[c].seen \in Nat /\ issued[c].at \in Nat
  BY DEF LoginInv, LoginTypeOK
<1>1. CASE Mint \/ Restart
  BY <1>1 DEF Mint, Restart, Fresh
<1>2. CASE TabFetches \/ Navigate
  <2>1. Validate /\ now' = now
    BY <1>2 DEF TabFetches, Navigate
  <2>2. CASE jar = <<>>
    BY <2>1, <2>2 DEF Validate, Fresh
  <2>3. CASE jar # <<>>
    BY <2>1, <2>3, ValidateKeeps
  <2> QED  BY <2>2, <2>3
<1>3. CASE Tick
  BY <1>0, <1>3, LinksAssumption DEF Tick, Fresh
<1>4. ASSUME NEW t \in DOMAIN links, Preview(t) \/ OpenLink(t) PROVE ~Fresh(c)'
  <2>1. Spend(t) /\ now' = now
    BY <1>4 DEF Preview, OpenLink, Spend
  <2>2. issued'[c] = issued[c]
    BY <2>1, SpendKeeps
  <2> QED  BY <2>1, <2>2 DEF Fresh
<1> QED  BY <1>1, <1>2, <1>3, <1>4 DEF LNext

(* A sign-in holds, for any ticks, links and lifetimes in the order of LinksAssumption:
   one session to a link, good for as long as the tab is in use and no longer; and the
   tab draws a password dialog only without Fetch Metadata, once its cookie was cleared. *)
THEOREM SignInsHold == LInit /\ [][LNext]_lvars => SignInHolds
BY InitLogin, LoginStep, SignInsCount, EndedStays, PTL DEF SignInHolds, EndedStaysEnded, EndsForGood

-----------------------------------------------------------------------------
(***************************************************************************)
(* The operator's settings.                                                *)
(***************************************************************************)
(* What a read of summarizer.json yields. *)
Contents == [source : Sources, model : Models, key : ApiKeys]

(* A stat of the file, then or now. *)
PastSig(sig, file) == sig[1] \in {1, 2} /\ sig[2] \in Nat /\ sig[2] <= file.time

ConfigTypeOK ==
  /\ coarse \in BOOLEAN /\ time \in Nat /\ replaced \in BOOLEAN
  /\ json \in [source : Sources, model : Models, key : ApiKeys, ino : {1, 2}, time : Nat]
  /\ json.time <= time
  /\ entry # <<>> => entry[1].at \in Contents
  /\ reading # <<>> /\ reading[1].at # <<>> => reading[1].at[1] \in Contents

(* What was read under the signature the file has now is what it holds.    *)
EntryInv ==
  entry # <<>> =>
    /\ PastSig(entry[1].sig, json) /\ Loads(entry[1].at)
    /\ ~replaced /\ entry[1].sig = Sig => entry[1].at = Content(json)

(* So for a job's read, which runs only where no two writes fall in a tick. *)
ReadingInv ==
  reading # <<>> =>
    /\ ~coarse /\ PastSig(reading[1].sig, json)
    /\ reading[1] = [sig |-> reading[1].sig, at |-> reading[1].at]
    /\ reading[1].at # <<>> =>
         /\ Loads(reading[1].at[1])
         /\ reading[1].sig = Sig => reading[1].at[1] = Content(json)

(* What was saved is in the file. *)
KnobInv == kept # <<>> => kept[1] = knob /\ Accepts(knob)

ConfigInv ==
  ConfigTypeOK /\ EntryInv /\ ReadingInv /\ KnobInv /\ KeyIsKept /\ Loads(Content(json))

(* A recorder that has just started. *)
LEMMA InitConfig == OInit => ConfigInv
<1> SUFFICES ASSUME OInit PROVE ConfigInv
  OBVIOUS
<1>1. json \in [source : Sources, model : Models, key : ApiKeys, ino : {1, 2}, time : Nat]
  BY DEF OInit, Sources, Models, ApiKeys
<1>2. json.source = "" /\ json.model = "" /\ json.key = "" /\ json.time = 0
  BY DEF OInit
<1>3. Loads(Content(json)) /\ KeyIsKept
  BY <1>2 DEF Loads, RunsAs, Content, KeyIsKept, OInit
<1>4. ConfigTypeOK
  <2>1. coarse \in BOOLEAN /\ replaced \in BOOLEAN
    BY Zenon DEF OInit
  <2>2. time = 1 /\ json.time = 0 /\ entry = <<>> /\ reading = <<>>
    BY DEF OInit
  <2>3. time \in Nat /\ json.time <= time
    BY <2>2
  <2>4. /\ entry # <<>> => entry[1].at \in Contents
        /\ reading # <<>> /\ reading[1].at # <<>> => reading[1].at[1] \in Contents
    BY <2>2
  <2> QED  BY <1>1, <2>1, <2>3, <2>4, Zenon DEF ConfigTypeOK
<1> QED  BY <1>3, <1>4 DEF OInit, ConfigInv, EntryInv, ReadingInv, KnobInv

(* A read through the cache answers with the file, once a save is through. *)
LEMMA CachedReadIsTrue ==
  ASSUME ConfigInv
  PROVE  /\ CacheIsCurrent /\ Loads(CachedRead)
         /\ CachedRead \in Contents /\ Content(json) \in Contents /\ PastSig(Sig, json)
<1>1. Content(json) \in Contents /\ PastSig(Sig, json)
  BY DEF ConfigInv, ConfigTypeOK, Content, Contents, PastSig, Sig
<1>2. CacheIsCurrent
  BY DEF CacheIsCurrent, CachedRead, ConfigInv, EntryInv
<1>3. Loads(CachedRead) /\ CachedRead \in Contents
  BY <1>1 DEF CachedRead, ConfigInv, EntryInv, ConfigTypeOK
<1> QED  BY <1>1, <1>2, <1>3

(* The knob's file and the summarizer's are two. *)
LEMMA KnobKeeps == ASSUME ConfigInv, NEW t, PutKnob(t) \/ EditKnob(t) PROVE ConfigInv'
<1>1. KnobInv' /\ UNCHANGED <<coarse, time, json, entry, reading, replaced, keyGiven>>
  BY DEF PutKnob, EditKnob, KnobInv
<1> QED  BY <1>1 DEF ConfigInv, ConfigTypeOK, EntryInv, ReadingInv, PastSig, KeyIsKept, Sig, Content

(* A read on the loop remembers the file as it is; a save's end forgets. *)
LEMMA PollKeeps == ASSUME ConfigInv, PollReads \/ Saved PROVE ConfigInv'
<1>1. UNCHANGED <<coarse, time, variable, knob, kept, json, reading, keyGiven>> /\ replaced' \in BOOLEAN
  BY DEF PollReads, Saved, ConfigInv, ConfigTypeOK
<1>2. CASE PollReads
  <2>1. entry'[1].sig = Sig /\ entry'[1].at = CachedRead /\ UNCHANGED replaced /\ ~replaced
    BY <1>2 DEF PollReads
  <2>2. CachedRead = Content(json)
    BY <2>1, CachedReadIsTrue DEF CacheIsCurrent
  <2>3. EntryInv' /\ entry'[1].at \in Contents
    BY <1>1, <2>1, <2>2, CachedReadIsTrue DEF EntryInv, PastSig, Sig, Content
  <2> QED  BY <1>1, <2>3 DEF ConfigInv, ConfigTypeOK, ReadingInv, PastSig, KnobInv, KeyIsKept, Sig, Content
<1>3. CASE Saved
  <2>1. entry' = <<>>
    BY <1>3 DEF Saved, EntryDropped
  <2> QED  BY <1>1, <2>1 DEF ConfigInv, ConfigTypeOK, EntryInv, ReadingInv, PastSig, KnobInv, KeyIsKept, Sig, Content
<1> QED  BY <1>2, <1>3

(* The three steps of a job's read.  A signature the file no longer has    *)
(* never comes back: every change takes a later time.                      *)
LEMMA JobKeeps == ASSUME ConfigInv, JobStats \/ JobReads \/ JobRemembers PROVE ConfigInv'
<1>1. UNCHANGED <<coarse, time, variable, knob, kept, json, replaced, keyGiven>>
  BY DEF JobStats, JobReads, JobRemembers
<1>2. ReadingInv' /\ (reading' # <<>> /\ reading'[1].at # <<>> => reading'[1].at[1] \in Contents)
  <2>1. CASE JobStats
    <3>1. ~coarse /\ reading'[1] = [sig |-> Sig, at |-> <<>>]
      BY <2>1 DEF JobStats
    <3> QED  BY <1>1, <3>1, CachedReadIsTrue DEF ReadingInv, PastSig
  <2>2. CASE JobReads
    <3>1. /\ reading # <<>> /\ reading' = <<[reading[1] EXCEPT !.at = <<Content(json)>>]>>
      BY <2>2 DEF JobReads
    <3>2. ~coarse /\ PastSig(reading[1].sig, json) /\ reading[1] = [sig |-> reading[1].sig, at |-> reading[1].at]
      BY <3>1 DEF ConfigInv, ReadingInv
    <3>3. reading'[1] = [sig |-> reading[1].sig, at |-> <<Content(json)>>]
      BY <3>1, <3>2
    <3> QED  BY <1>1, <3>2, <3>3, CachedReadIsTrue DEF ConfigInv, ReadingInv, PastSig, Content
  <2>3. CASE JobRemembers
    BY <2>3 DEF JobRemembers, ReadingInv
  <2> QED  BY <2>1, <2>2, <2>3
<1>3. EntryInv' /\ (entry' # <<>> => entry'[1].at \in Contents)
  <2>1. CASE UNCHANGED entry
    BY <1>1, <2>1 DEF ConfigInv, ConfigTypeOK, EntryInv, PastSig, Sig, Content
  <2>2. CASE JobRemembers
    <3>1. /\ reading # <<>> /\ reading[1].at # <<>>
          /\ entry'[1].sig = reading[1].sig /\ entry'[1].at = reading[1].at[1]
      BY <2>2 DEF JobRemembers
    <3> QED  BY <1>1, <3>1 DEF ConfigInv, ConfigTypeOK, ReadingInv, EntryInv, PastSig, Sig, Content
  <2> QED  BY <2>1, <2>2 DEF JobStats, JobReads
<1> QED  BY <1>1, <1>2, <1>3 DEF ConfigInv, ConfigTypeOK, KnobInv, KeyIsKept, Content

(* A signature whose time is behind the file's is not the file's. *)
LEMMA LaterFileIsAnother ==
  ASSUME NEW sig, PastSig(sig, json), json.time < json'.time, json.time \in Nat, json'.time \in Nat
  PROVE  PastSig(sig, json') /\ sig # Sig'
  BY DEF PastSig, Sig

(* A save: what it leaves can be loaded, and the key is the one there was  *)
(* or the one given.                                                       *)
LEMMA PutKeeps ==
  ASSUME ConfigInv, NEW source \in Sources, NEW model \in Models,
         NEW given \in {<<>>} \cup {<<k>> : k \in ApiKeys}, PutSummarizer(source, model, given)
  PROVE  ConfigInv'
<1> DEFINE stored == IF given = <<>> THEN CachedRead.key ELSE given[1]
<1>1. /\ ~replaced /\ Storable(source, model) /\ (coarse \/ json.time < time)
      /\ json' = [source |-> source, model |-> model, key |-> stored, ino |-> 3 - json.ino, time |-> time]
      /\ replaced' = TRUE /\ UNCHANGED <<coarse, time, variable, knob, kept, reading>>
      /\ entry' = IF given = <<>> THEN <<[sig |-> Sig, at |-> CachedRead]>> ELSE entry
      /\ keyGiven' = IF given = <<>> THEN keyGiven ELSE given[1]
  BY DEF PutSummarizer
<1>2. CachedRead = Content(json) /\ Content(json).key = keyGiven
  BY <1>1, CachedReadIsTrue DEF CacheIsCurrent, ConfigInv, KeyIsKept, Content
<1>3. stored = keyGiven' /\ stored \in ApiKeys
  BY <1>1, <1>2, CachedReadIsTrue DEF Contents
<1> HIDE DEF stored
<1>4. json.ino \in {1, 2} /\ json.time \in Nat /\ time \in Nat /\ json.time <= time
  BY DEF ConfigInv, ConfigTypeOK
<1>5. json' \in [source : Sources, model : Models, key : ApiKeys, ino : {1, 2}, time : Nat] /\ json'.time = time
  BY <1>1, <1>3, <1>4
<1>6. Loads(Content(json))'
  BY <1>1 DEF Loads, RunsAs, Content, Storable
<1>7. entry' # <<>> => entry'[1].at \in Contents /\ Loads(entry'[1].at) /\ PastSig(entry'[1].sig, json')
  <2>1. PastSig(Sig, json')
    BY <1>1, <1>4, <1>5 DEF PastSig, Sig
  <2>2. entry # <<>> => PastSig(entry[1].sig, json') /\ entry[1].at \in Contents /\ Loads(entry[1].at)
    BY <1>4, <1>5 DEF ConfigInv, ConfigTypeOK, EntryInv, PastSig
  <2>3. CASE given = <<>>
    <3>1. entry'[1].sig = Sig /\ entry'[1].at = CachedRead
      BY <1>1, <2>3
    <3> QED  BY <2>1, <3>1, CachedReadIsTrue
  <2>4. CASE given # <<>>
    BY <1>1, <2>2, <2>4
  <2> QED  BY <2>3, <2>4
<1>8. ReadingInv'
  <2>1. reading # <<>> => json.time < json'.time
    BY <1>1, <1>5 DEF ConfigInv, ReadingInv
  <2> QED  BY <1>1, <1>4, <1>5, <2>1, LaterFileIsAnother DEF ConfigInv, ReadingInv
<1>9. EntryInv'
  BY <1>1, <1>7 DEF EntryInv
<1> QED  BY <1>1, <1>3, <1>4, <1>5, <1>6, <1>7, <1>8, <1>9 DEF ConfigInv, ConfigTypeOK, KnobInv, KeyIsKept

(* A hand edit takes a later time, and names no model. *)
LEMMA EditKeeps ==
  ASSUME ConfigInv, NEW source \in Sources, NEW k \in ApiKeys, EditSummarizer(source, k)
  PROVE  ConfigInv'
<1>1. /\ ~replaced /\ json.time < time /\ keyGiven' = k
      /\ json' = [json EXCEPT !.source = source, !.model = "", !.key = k, !.time = time]
      /\ UNCHANGED <<coarse, time, variable, knob, kept, entry, reading, replaced>>
  BY DEF EditSummarizer
<1>2. /\ json' = [source |-> source, model |-> "", key |-> k, ino |-> json.ino, time |-> time]
      /\ json.time \in Nat /\ time \in Nat /\ json.ino \in {1, 2}
  BY <1>1 DEF ConfigInv, ConfigTypeOK
<1>3. json' \in [source : Sources, model : Models, key : ApiKeys, ino : {1, 2}, time : Nat] /\ json'.time = time
  BY <1>2 DEF Models
<1>4. EntryInv' /\ ReadingInv'
  BY <1>1, <1>2, <1>3, LaterFileIsAnother DEF ConfigInv, EntryInv, ReadingInv
<1>5. Loads(Content(json))' /\ KeyIsKept'
  BY <1>1, <1>2 DEF Loads, RunsAs, Content, KeyIsKept
<1>6. ConfigTypeOK' /\ KnobInv'
  BY <1>1, <1>3 DEF ConfigInv, ConfigTypeOK, KnobInv
<1> QED  BY <1>4, <1>5, <1>6 DEF ConfigInv

(* The clock goes on. *)
LEMMA TicksKeep == ASSUME ConfigInv, Ticks PROVE ConfigInv'
<1>1. time' = time + 1 /\ UNCHANGED <<coarse, variable, knob, kept, json, entry, reading, replaced, keyGiven>>
  BY DEF Ticks
<1> QED  BY <1>1 DEF ConfigInv, ConfigTypeOK, EntryInv, ReadingInv, PastSig, KnobInv, KeyIsKept, Sig, Content

(* The invariant is inductive. *)
THEOREM ConfigStep == ConfigInv /\ [ONext]_ovars => ConfigInv'
<1> SUFFICES ASSUME ConfigInv, [ONext]_ovars PROVE ConfigInv'
  OBVIOUS
<1>1. CASE UNCHANGED ovars
  BY <1>1 DEF ovars, ConfigInv, ConfigTypeOK, EntryInv, ReadingInv, PastSig, KnobInv, KeyIsKept, Sig, Content
<1>2. CASE ONext
  BY <1>2, KnobKeeps, PollKeeps, JobKeeps, PutKeeps, EditKeeps, TicksKeep DEF ONext
<1> QED  BY <1>1, <1>2

(* The invariant is enough: what is in force follows from the knob's file, *)
(* since no accepted text but the empty one is refused by the parser.      *)
LEMMA SettingsFollow == ConfigInv => SettingsHold
<1> SUFFICES ASSUME ConfigInv PROVE AcceptedTakesEffect
  BY CachedReadIsTrue DEF SettingsHold, ConfigInv, StoredDefaultLoads
<1>1. Parse("") = <<>> /\ \A text : Parse(text) # <<>> => text # ""
  BY ConfigAssumption DEF Parse
<1> QED  BY <1>1 DEF AcceptedTakesEffect, ConfigInv, KnobInv, Accepts, InForce

(* What the dashboard accepted is what jobs run with, whatever saves, hand  *)
(* edits, reads and jobs do to the file and to its cache.                   *)
THEOREM SettingsAlwaysHold == OInit /\ [][ONext]_ovars => []SettingsHold
BY InitConfig, ConfigStep, SettingsFollow, PTL

-----------------------------------------------------------------------------
(***************************************************************************)
(* The settings of live transcription.                                     *)
(***************************************************************************)
(* The two kinds of channel, and what one can be configured as. *)
ChannelFamilies == {"whisper", "moonshine"}
Configs ==
  [model : LiveModels, language : Languages, gate : GateKinds, conf : BOOLEAN,
   threshold : Nat, knob : Knobs]

(* While no start has failed, the panel shows the configuration and the    *)
(* configuration carries the choices; what runs was started with it.       *)
LiveInv ==
  /\ channel \in ChannelFamilies /\ config \in Configs /\ failed \in BOOLEAN
  /\ failed => spawned = <<>>
  /\ ~failed => info = Seeded(channel, config) /\ chosen = Carried(config)
  /\ spawned # <<>> => spawned = <<Engine(channel, config)>> /\ Family(config.model) = channel

(* A threshold is displayed as the hundredths nearest to it. *)
LEMMA RoundedOnce ==
  ASSUME NEW t \in Nat
  PROVE  Rounded(t) \in Nat /\ Rounded(Rounded(t)) = Rounded(t) /\ (t % 10 = 0 => Rounded(t) = t)
  BY DEF Rounded

(* What a configuration is, field by field. *)
LEMMA ConfigFields ==
  ASSUME NEW cfg,
         cfg = [f \in {"model", "language", "gate", "conf", "threshold", "knob"} |-> cfg[f]],
         cfg.model \in LiveModels, cfg.language \in Languages, cfg.gate \in GateKinds,
         cfg.conf \in BOOLEAN, cfg.threshold \in Nat, cfg.knob \in Knobs
  PROVE  cfg \in Configs
  BY DEF Configs

LEMMA ConfigDomain ==
  ASSUME NEW cfg \in Configs
  PROVE  DOMAIN cfg = {"model", "language", "gate", "conf", "threshold", "knob"}
  BY DEF Configs

(* An engine without a VAD is gated whatever it carries. *)
LEMMA GateIs ==
  ASSUME NEW c, NEW cfg \in Configs
  PROVE  /\ EffectiveGateConfig(c, cfg).gate = IF Native(c) THEN cfg.gate ELSE "tapscribe"
         /\ EffectiveGateConfig(c, cfg).threshold = cfg.threshold
         /\ EffectiveGateConfig(c, cfg).knob = cfg.knob
  BY DEF EffectiveGateConfig, Configs, GateKinds

(* What is mirrored of a configuration. *)
LEMMA MirroredFields ==
  ASSUME NEW c, NEW cfg \in Configs, NEW m, NEW l, NEW g, NEW t, NEW k, NEW v
  PROVE  Mirrored(c, cfg, [model |-> m, language |-> l, gate |-> g, threshold |-> t, knob |-> k, conf |-> v])
         = [model |-> m, language |-> l, gate |-> IF Native(c) THEN cfg.gate ELSE "tapscribe",
            threshold |-> Rounded(cfg.threshold), knob |-> cfg.knob,
            conf |-> IF Native(c) THEN <<cfg.conf>> ELSE v]
<1> DEFINE shows == [model |-> m, language |-> l, gate |-> g, threshold |-> t, knob |-> k, conf |-> v]
           G == EffectiveGateConfig(c, cfg).gate
           R == Rounded(cfg.threshold)
           V == IF Native(c) THEN <<cfg.conf>> ELSE v
<1>1. Mirrored(c, cfg, shows) = [shows EXCEPT !.gate = G, !.threshold = R, !.knob = cfg.knob, !.conf = V]
  BY DEF Mirrored
<1>2. G = IF Native(c) THEN cfg.gate ELSE "tapscribe"
  BY GateIs
<1> HIDE DEF G, R, V
<1>3. Mirrored(c, cfg, shows)
        = [model |-> m, language |-> l, gate |-> G, threshold |-> R, knob |-> cfg.knob, conf |-> V]
  BY <1>1
<1> QED  BY <1>2, <1>3 DEF R, V

(* What a panel shows of a configuration. *)
LEMMA SeededIs ==
  ASSUME NEW c, NEW cfg \in Configs
  PROVE  Seeded(c, cfg) = [model |-> cfg.model, language |-> IF Native(c) THEN cfg.language ELSE "en",
                           gate |-> IF Native(c) THEN cfg.gate ELSE "tapscribe",
                           threshold |-> Rounded(cfg.threshold), knob |-> cfg.knob,
                           conf |-> IF Native(c) THEN <<cfg.conf>> ELSE <<>>]
<1> DEFINE L == IF Native(c) THEN cfg.language ELSE "en"
           unset == ""
<1>1. Seeded(c, cfg) = Mirrored(c, cfg, [model |-> cfg.model, language |-> L,
                                         gate |-> unset, threshold |-> 0, knob |-> 0, conf |-> <<>>])
  BY DEF Seeded
<1> HIDE DEF L, unset
<1>2. Seeded(c, cfg) = [model |-> cfg.model, language |-> L, gate |-> IF Native(c) THEN cfg.gate ELSE "tapscribe",
                        threshold |-> Rounded(cfg.threshold), knob |-> cfg.knob,
                        conf |-> IF Native(c) THEN <<cfg.conf>> ELSE <<>>]
  BY <1>1, MirroredFields
<1> QED  BY <1>2 DEF L

(* The knobs alone move: what is shown is what is seeded. *)
LEMMA MirroredIs ==
  ASSUME NEW c, NEW cfg \in Configs, NEW new \in Configs,
         new.model = cfg.model, new.language = cfg.language, new.gate = cfg.gate, new.conf = cfg.conf
  PROVE  Mirrored(c, new, Seeded(c, cfg)) = Seeded(c, new)
<1> DEFINE L == IF Native(c) THEN cfg.language ELSE "en"
           G == IF Native(c) THEN cfg.gate ELSE "tapscribe"
           V == IF Native(c) THEN <<cfg.conf>> ELSE <<>>
           R == Rounded(cfg.threshold)
<1>1. Seeded(c, cfg) = [model |-> cfg.model, language |-> L, gate |-> G, threshold |-> R, knob |-> cfg.knob, conf |-> V]
  BY SeededIs
<1> HIDE DEF L, G, V, R
<1>2. Mirrored(c, new, Seeded(c, cfg))
        = [model |-> cfg.model, language |-> L, gate |-> IF Native(c) THEN new.gate ELSE "tapscribe",
           threshold |-> Rounded(new.threshold), knob |-> new.knob,
           conf |-> IF Native(c) THEN <<new.conf>> ELSE V]
  BY <1>1, MirroredFields
<1> QED  BY <1>2, SeededIs DEF L, V

(* What the operator picked of a configuration. *)
LEMMA CarriedIs ==
  ASSUME NEW cfg \in Configs
  PROVE  /\ DOMAIN Carried(cfg) = {"model", "language", "gate", "threshold", "knob"}
         /\ Carried(cfg) = [f \in {"model", "language", "gate", "threshold", "knob"} |-> Carried(cfg)[f]]
         /\ Carried(cfg)["model"] = cfg.model /\ Carried(cfg)["language"] = cfg.language
         /\ Carried(cfg)["gate"] = cfg.gate /\ Carried(cfg)["threshold"] = Rounded(cfg.threshold)
         /\ Carried(cfg)["knob"] = cfg.knob
  BY DEF Carried

(* What a request can give. *)
LEMMA AskFields ==
  ASSUME NEW ask \in Asks
  PROVE  /\ "model" \in DOMAIN ask => ask["model"] \in LiveModels
         /\ "language" \in DOMAIN ask => ask["language"] \in Languages
         /\ "gate" \in DOMAIN ask => ask["gate"] \in GateKinds
         /\ "conf" \in DOMAIN ask => ask["conf"] \in BOOLEAN
         /\ "threshold" \in DOMAIN ask => ask["threshold"] \in Nat /\ Rounded(ask["threshold"]) = ask["threshold"]
         /\ "knob" \in DOMAIN ask => ask["knob"] \in Knobs
<1>1. CASE ask \in Forms
  <2>1. ask \in [model : LiveModels, language : Languages, gate : GateKinds, threshold : Shown, knob : Knobs]
    BY <1>1 DEF Forms
  <2>2. ask["threshold"] \in Nat /\ ask["threshold"] % 10 = 0
    BY <2>1, LiveAssumption
  <2> QED  BY <2>1, <2>2, RoundedOnce
<1>2. CASE ask \in [model : LiveModels]
  BY <1>2
<1>3. CASE ask \in [conf : BOOLEAN]
  BY <1>3
<1> QED  BY <1>1, <1>2, <1>3 DEF Asks

(* The choices a request makes are what the configuration comes to carry,  *)
(* if each field chosen is written and no other moves.                     *)
LEMMA RemembersCarried ==
  ASSUME NEW ask, NEW c, ~failed, Remembers(ask, c), config \in Configs, config' \in Configs, chosen = Carried(config),
         \A f \in {"model", "language", "gate", "threshold", "knob"} :
           Carried(config')[f] = IF f \in Chooses(ask, c) THEN ask[f] ELSE Carried(config)[f]
  PROVE  chosen' = Carried(config')
<1>1. chosen' = [f \in DOMAIN Carried(config) |-> IF f \in Chooses(ask, c) THEN ask[f] ELSE Carried(config)[f]]
  BY DEF Remembers
<1>2. chosen' = [f \in {"model", "language", "gate", "threshold", "knob"} |-> Carried(config')[f]]
  BY <1>1, CarriedIs
<1> QED  BY <1>2, CarriedIs

(* The knobs alone, on an engine that runs as it is asked to. *)
LEMMA KnobsKeep == ASSUME LiveInv, NEW ask \in Asks, AppliesKnobs(ask) PROVE LiveInv'
<1>1. /\ ~Refused(ask) /\ TargetFamily(ask) = channel /\ RunsAlready(channel, config, ask)
      /\ config' = KnobsApplied(config, ask) /\ Remembers(ask, channel)
      /\ info' = IF ChangedKnobs(config, ask) = {} THEN info ELSE Mirrored(channel, config', info)
      /\ UNCHANGED <<channel, spawned, failed>>
  BY DEF AppliesKnobs
<1>2. ~failed /\ spawned # <<>> /\ config \in Configs /\ channel \in ChannelFamilies
      /\ info = Seeded(channel, config) /\ chosen = Carried(config)
      /\ spawned = <<Engine(channel, config)>> /\ Family(config.model) = channel
  BY <1>1 DEF LiveInv, RunsAlready
<1>3. /\ config'.model = config.model /\ config'.language = config.language
      /\ config'.gate = config.gate /\ config'.conf = config.conf
      /\ config'.threshold = IF "threshold" \in DOMAIN ask /\ Rounded(ask["threshold"]) # Rounded(config.threshold)
                             THEN ask["threshold"] ELSE config.threshold
      /\ config'.knob = IF "knob" \in DOMAIN ask /\ ask["knob"] # config.knob THEN ask["knob"] ELSE config.knob
      /\ config' = [f \in {"model", "language", "gate", "conf", "threshold", "knob"} |-> config'[f]]
  <2>1. config' = [f \in {"model", "language", "gate", "conf", "threshold", "knob"} |->
                     IF f \in ChangedKnobs(config, ask) THEN ask[f] ELSE config[f]]
    BY <1>1, <1>2, ConfigDomain DEF KnobsApplied
  <2>2. /\ "threshold" \in ChangedKnobs(config, ask)
             <=> "threshold" \in DOMAIN ask /\ Rounded(ask["threshold"]) # Rounded(config["threshold"])
        /\ "knob" \in ChangedKnobs(config, ask) <=> "knob" \in DOMAIN ask /\ ask["knob"] # config["knob"]
        /\ {"model", "language", "gate", "conf"} \cap ChangedKnobs(config, ask) = {}
    BY DEF ChangedKnobs
  <2> QED  BY <2>1, <2>2
<1>4. config' \in Configs
  <2>1. config.threshold \in Nat /\ config.knob \in Knobs
    BY <1>2 DEF Configs
  <2>2. config'.threshold \in Nat /\ config'.knob \in Knobs
    BY <1>3, <2>1, AskFields
  <2>3. /\ config.model \in LiveModels /\ config.language \in Languages
        /\ config.gate \in GateKinds /\ config.conf \in BOOLEAN
    BY <1>2 DEF Configs
  <2> QED  BY <1>3, <2>2, <2>3, ConfigFields
<1>5. info' = Seeded(channel, config')
  <2>1. CASE ChangedKnobs(config, ask) = {}
    <3>1. config' = [f \in DOMAIN config |-> config[f]]
      BY <1>1, <2>1 DEF KnobsApplied
    <3>2. config' = config
      BY <1>2, <3>1 DEF Configs
    <3> QED  BY <1>1, <1>2, <2>1, <3>2
  <2>2. CASE ChangedKnobs(config, ask) # {}
    BY <1>1, <1>2, <1>3, <1>4, <2>2, MirroredIs
  <2> QED  BY <2>1, <2>2
<1>6. chosen' = Carried(config')
  <2>1. /\ "model" \in DOMAIN ask => ask["model"] = config.model
        /\ Native(channel) /\ "language" \in DOMAIN ask => ask["language"] = config.language
        /\ Native(channel) /\ "gate" \in DOMAIN ask => ask["gate"] = config.gate
    BY <1>1, <1>2, GateIs DEF RunsAlready, Given
  <2>2. \A f \in {"model", "language", "gate", "threshold", "knob"} :
          f \in Chooses(ask, channel) <=> /\ f \in DOMAIN ask
                                          /\ f = "model" \/ ask[f] # info[f]
                                          /\ f \in {"language", "gate"} => Native(channel)
    BY <1>2, CarriedIs DEF Chooses
  <2>3. info["threshold"] = Rounded(config.threshold) /\ info["knob"] = config.knob
    BY <1>2, SeededIs
  <2>4. /\ Carried(config')["model"] = IF "model" \in Chooses(ask, channel) THEN ask["model"] ELSE Carried(config)["model"]
        /\ Carried(config')["language"] = IF "language" \in Chooses(ask, channel) THEN ask["language"] ELSE Carried(config)["language"]
        /\ Carried(config')["gate"] = IF "gate" \in Chooses(ask, channel) THEN ask["gate"] ELSE Carried(config)["gate"]
    BY <1>2, <1>3, <1>4, <2>1, <2>2, CarriedIs
  <2>5. Carried(config')["threshold"]
          = IF "threshold" \in Chooses(ask, channel) THEN ask["threshold"] ELSE Carried(config)["threshold"]
    BY <1>2, <1>3, <1>4, <2>2, <2>3, CarriedIs, AskFields
  <2>6. Carried(config')["knob"] = IF "knob" \in Chooses(ask, channel) THEN ask["knob"] ELSE Carried(config)["knob"]
    BY <1>2, <1>3, <1>4, <2>2, <2>3, CarriedIs
  <2> QED  BY <1>1, <1>2, <1>4, <2>4, <2>5, <2>6, RemembersCarried
<1>7. Engine(channel, config') = Engine(channel, config)
  BY <1>3 DEF Engine
<1> QED  BY <1>1, <1>2, <1>3, <1>4, <1>5, <1>6, <1>7 DEF LiveInv

(* A start: the fields asked for are written, the gate in force is none. *)
LEMMA RestartKeepsLive ==
  ASSUME LiveInv, NEW ask \in Asks, NEW ends \in {"up", "unfetched", "failed"}, Restarts(ask, ends)
  PROVE  LiveInv'
<1> DEFINE c == TargetFamily(ask)
           ready == Transition(c, config, ask)
<1>1. /\ ~Refused(ask) /\ channel' = c /\ Remembers(ask, c)
      /\ config' = IF ends = "unfetched" THEN ready ELSE Overridden(c, ready, ask)
      /\ ends = "up" => info' = Seeded(c, config')
      /\ spawned' = IF ends = "up" THEN <<Engine(c, config')>> ELSE <<>>
      /\ failed' = (ends # "up")
  BY DEF Restarts
<1>2. channel \in ChannelFamilies /\ config \in Configs /\ c \in ChannelFamilies
  BY DEF LiveInv, ChannelFamilies, TargetFamily, Family
<1>3. /\ ready.model = config.model /\ ready.language = config.language
      /\ ready.gate = IF "gate" \in DOMAIN ask /\ Native(c) THEN ask["gate"] ELSE config.gate
      /\ ready.conf = IF "conf" \in DOMAIN ask THEN ask["conf"] ELSE config.conf
      /\ ready.threshold = IF "threshold" \in DOMAIN ask THEN ask["threshold"] ELSE config.threshold
      /\ ready.knob = IF "knob" \in DOMAIN ask THEN ask["knob"] ELSE config.knob
      /\ ready = [f \in {"model", "language", "gate", "conf", "threshold", "knob"} |-> ready[f]]
  <2> DEFINE inForce == EffectiveGateConfig(c, config).gate
             nothing == ""
             Stays(f) == f \in {"model", "language"} \/ (f = "gate" /\ Given(ask, f, nothing) = inForce)
  <2>1. ready = [f \in DOMAIN config |-> IF Stays(f) THEN config[f] ELSE Given(ask, f, config[f])]
    BY Zenon DEF Transition
  <2> HIDE DEF nothing
  <2>2. inForce = IF Native(c) THEN config.gate ELSE "tapscribe"
    BY <1>2, GateIs
  <2>3. "gate" \in DOMAIN ask => ask["gate"] \in GateKinds /\ (~Native(c) => ask["gate"] = "tapscribe")
    BY <1>1, AskFields DEF Refused, Given, GateKinds
  <2>4. Stays("model") /\ Stays("language") /\ ~Stays("conf") /\ ~Stays("threshold") /\ ~Stays("knob")
    OBVIOUS
  <2>5. "gate" \in DOMAIN ask => (Stays("gate") <=> ask["gate"] = inForce)
    BY DEF Given
  <2> HIDE DEF ready, inForce, Stays
  <2>6. ready = [f \in {"model", "language", "gate", "conf", "threshold", "knob"} |->
                   IF Stays(f) THEN config[f] ELSE Given(ask, f, config[f])]
    BY <1>2, <2>1, ConfigDomain
  <2>7. /\ ready["model"] = config["model"] /\ ready["language"] = config["language"]
        /\ ready["gate"] = IF Stays("gate") THEN config["gate"] ELSE Given(ask, "gate", config["gate"])
        /\ ready["conf"] = Given(ask, "conf", config["conf"])
        /\ ready["threshold"] = Given(ask, "threshold", config["threshold"])
        /\ ready["knob"] = Given(ask, "knob", config["knob"])
        /\ ready = [f \in {"model", "language", "gate", "conf", "threshold", "knob"} |-> ready[f]]
    BY <2>4, <2>6
  <2>8. ready["gate"] = IF "gate" \in DOMAIN ask /\ Native(c) THEN ask["gate"] ELSE config["gate"]
    BY <2>2, <2>3, <2>5, <2>7 DEF Given
  <2> QED  BY <2>7, <2>8 DEF Given
<1>4. ready \in Configs
  <2>1. /\ config.model \in LiveModels /\ config.language \in Languages /\ config.knob \in Knobs
        /\ config.gate \in GateKinds /\ config.conf \in BOOLEAN /\ config.threshold \in Nat
    BY <1>2 DEF Configs
  <2> HIDE DEF ready
  <2>2. /\ ready.model \in LiveModels /\ ready.language \in Languages /\ ready.knob \in Knobs
        /\ ready.gate \in GateKinds /\ ready.conf \in BOOLEAN /\ ready.threshold \in Nat
    BY <1>3, <2>1, AskFields
  <2> QED  BY <1>3, <2>2, ConfigFields
<1> HIDE DEF ready
<1>5. ends # "unfetched" =>
        /\ config'.model = IF "model" \in DOMAIN ask THEN ask["model"] ELSE config.model
        /\ config'.language = IF "language" \in DOMAIN ask /\ Native(c) THEN ask["language"] ELSE config.language
        /\ config'.gate = ready.gate /\ config'.conf = ready.conf
        /\ config'.threshold = ready.threshold /\ config'.knob = ready.knob
        /\ config' \in Configs
  <2> DEFINE M == IF "model" \in DOMAIN ask THEN ask["model"] ELSE ready.model
             L == IF "language" \in DOMAIN ask /\ Native(c) THEN ask["language"] ELSE ready.language
             named == [ready EXCEPT !.model = M]
  <2>1. M \in LiveModels /\ L \in Languages
    BY <1>4, AskFields DEF Configs
  <2>2. Overridden(c, ready, ask) = [ready EXCEPT !.model = M, !.language = L]
    BY <1>4 DEF Overridden, Given, Configs
  <2> HIDE DEF M, L
  <2>3. named \in Configs /\ named.model = M /\ \A f \in {"language", "gate", "conf", "threshold", "knob"} : named[f] = ready[f]
    BY <1>4, <2>1 DEF Configs
  <2>4. Overridden(c, ready, ask) = [named EXCEPT !.language = L]
    BY <2>2
  <2> HIDE DEF named
  <2>5. /\ [named EXCEPT !.language = L] \in Configs
        /\ [named EXCEPT !.language = L].model = M
        /\ [named EXCEPT !.language = L].language = L
        /\ [named EXCEPT !.language = L].gate = named.gate
        /\ [named EXCEPT !.language = L].conf = named.conf
        /\ [named EXCEPT !.language = L].threshold = named.threshold
        /\ [named EXCEPT !.language = L].knob = named.knob
    BY <2>1, <2>3 DEF Configs
  <2>6. ends # "unfetched" => config' = [named EXCEPT !.language = L]
    BY <1>1, <2>4
  <2>7. M = IF "model" \in DOMAIN ask THEN ask["model"] ELSE config.model
    BY <1>3 DEF M
  <2>8. L = IF "language" \in DOMAIN ask /\ Native(c) THEN ask["language"] ELSE config.language
    BY <1>3 DEF L
  <2> QED  BY <2>3, <2>5, <2>6, <2>7, <2>8
<1>6. config' \in Configs
  BY <1>1, <1>4, <1>5
<1>7. CASE ends # "up"
  BY <1>1, <1>2, <1>6, <1>7 DEF LiveInv
<1>8. CASE ends = "up"
  <2>1. Family(config'.model) = c
    BY <1>5, <1>8 DEF TargetFamily, Given
  <2>2. chosen' = Carried(config')
    <3>1. CASE failed
      BY <1>1, <1>8, <3>1 DEF Remembers
    <3>2. CASE ~failed
      <4>1. info = Seeded(channel, config) /\ chosen = Carried(config)
        BY <3>2 DEF LiveInv
      <4>2. /\ info["threshold"] = Rounded(config.threshold) /\ info["knob"] = config.knob
            /\ Native(channel) => info["language"] = config.language /\ info["gate"] = config.gate
        BY <1>2, <4>1, SeededIs
      <4>3. \A f \in {"model", "language", "gate", "threshold", "knob"} :
              f \in Chooses(ask, c) <=> /\ f \in DOMAIN ask
                                        /\ f = "model" \/ c # channel \/ ask[f] # info[f]
                                        /\ f \in {"language", "gate"} => Native(c)
        BY <1>2, <4>1, CarriedIs DEF Chooses
      <4>4. Carried(config')["model"] = IF "model" \in Chooses(ask, c) THEN ask["model"] ELSE Carried(config)["model"]
        BY <1>2, <1>5, <1>6, <1>8, <4>3, CarriedIs
      <4>5. Carried(config')["language"] = IF "language" \in Chooses(ask, c) THEN ask["language"] ELSE Carried(config)["language"]
        BY <1>2, <1>5, <1>6, <1>8, <4>2, <4>3, CarriedIs
      <4>6. Carried(config')["gate"] = IF "gate" \in Chooses(ask, c) THEN ask["gate"] ELSE Carried(config)["gate"]
        BY <1>2, <1>3, <1>5, <1>6, <1>8, <4>2, <4>3, CarriedIs
      <4>7. Carried(config')["threshold"] = IF "threshold" \in Chooses(ask, c) THEN ask["threshold"] ELSE Carried(config)["threshold"]
        BY <1>2, <1>3, <1>5, <1>6, <1>8, <4>2, <4>3, CarriedIs, AskFields
      <4>8. Carried(config')["knob"] = IF "knob" \in Chooses(ask, c) THEN ask["knob"] ELSE Carried(config)["knob"]
        BY <1>2, <1>3, <1>5, <1>6, <1>8, <4>2, <4>3, CarriedIs
      <4> QED  BY <1>1, <1>2, <1>6, <3>2, <4>1, <4>4, <4>5, <4>6, <4>7, <4>8, RemembersCarried
    <3> QED  BY <3>1, <3>2
  <2> QED  BY <1>1, <1>2, <1>6, <1>8, <2>1, <2>2 DEF LiveInv
<1> QED  BY <1>7, <1>8

(* A recorder that has just started: nothing runs, and the panel shows     *)
(* what the environment configured.                                        *)
LEMMA InitLive == GInit => LiveInv
<1> SUFFICES ASSUME GInit PROVE LiveInv
  OBVIOUS
<1>1. config \in Configs
  BY LiveAssumption DEF GInit, BootConfigs, Configs
<1> QED  BY <1>1 DEF GInit, LiveInv, ChannelFamilies

(* The invariant is inductive. *)
THEOREM LiveStep == LiveInv /\ [GNext]_gvars => LiveInv'
<1> SUFFICES ASSUME LiveInv, [GNext]_gvars PROVE LiveInv'
  OBVIOUS
<1>1. CASE UNCHANGED gvars
  BY <1>1 DEF gvars, LiveInv
<1>2. CASE Ends
  BY <1>2 DEF Ends, LiveInv
<1>3. CASE \E ask \in Asks : AppliesKnobs(ask) \/ \E ends \in {"up", "unfetched", "failed"} : Restarts(ask, ends)
  BY <1>3, KnobsKeep, RestartKeepsLive
<1> QED  BY <1>1, <1>2, <1>3 DEF GNext

(* The invariant is enough. *)
LEMMA AppliedFollows == LiveInv => AppliedIsInForce
<1> SUFFICES ASSUME LiveInv PROVE ReportedIsInForce /\ EchoIsFree
  BY DEF AppliedIsInForce, ChoicesAreKept, LiveInv
<1> SUFFICES ASSUME spawned # <<>> PROVE ReportedIsInForce /\ EchoIsFree
  BY DEF ReportedIsInForce, EchoIsFree
<1>1. ~failed /\ config \in Configs /\ channel \in ChannelFamilies
      /\ info = Seeded(channel, config) /\ chosen = Carried(config)
      /\ spawned = <<Engine(channel, config)>> /\ Family(config.model) = channel
  BY DEF LiveInv
<1>2. /\ info.model = config.model /\ info.language = IF Native(channel) THEN config.language ELSE "en"
      /\ info.gate = IF Native(channel) THEN config.gate ELSE "tapscribe"
      /\ info.threshold = Rounded(config.threshold) /\ info.knob = config.knob
      /\ info.conf = IF Native(channel) THEN <<config.conf>> ELSE <<>>
  BY <1>1, SeededIs
<1>3. config.gate \in GateKinds /\ config.threshold \in Nat
  BY <1>1 DEF Configs
<1>4. ReportedIsInForce
  <2> DEFINE child == spawned[1]
             gate == BuildGate(EffectiveGateConfig(channel, config))
  <2>1. /\ child.model = config.model
        /\ child.language = info.language /\ child.conf = info.conf
        /\ child.vac <=> Native(channel) /\ config.gate # "tapscribe"
    BY <1>1, <1>2 DEF Engine
  <2>2. IF Native(channel) /\ config.gate # "tapscribe" THEN gate = <<>>
        ELSE gate = <<[threshold |-> config.threshold, knob |-> config.knob]>>
    BY <1>1, GateIs DEF BuildGate
  <2> HIDE DEF child, gate
  <2>3. child.vac <=> gate = <<>>
    BY <2>1, <2>2
  <2>4. child.vac <=> info.gate = "backend"
    BY <1>2, <1>3, <2>1 DEF GateKinds
  <2>5. gate # <<>> => info.threshold = Rounded(gate[1].threshold) /\ info.knob = gate[1].knob
    BY <1>2, <2>2
  <2> QED  BY <1>1, <1>2, <2>1, <2>3, <2>4, <2>5 DEF ReportedIsInForce, child, gate
<1>5. EchoIsFree
  <2>1. /\ DOMAIN Form = {"model", "language", "gate", "threshold", "knob"}
        /\ Form["model"] = info.model /\ Form["language"] = info.language /\ Form["gate"] = info.gate
        /\ Form["threshold"] = info.threshold /\ Form["knob"] = info.knob
    BY <1>1, CarriedIs DEF Form
  <2>2. TargetFamily(Form) = channel
    BY <1>1, <1>2, <2>1 DEF TargetFamily, Given
  <2>3. ~Refused(Form)
    BY <1>2, <1>3, <2>1, <2>2 DEF Refused, Given, GateKinds
  <2>4. RunsAlready(channel, config, Form)
    BY <1>1, <1>2, <2>1, GateIs DEF RunsAlready, Given
  <2>5. ChangedKnobs(config, Form) = {}
    BY <1>2, <1>3, <2>1, RoundedOnce DEF ChangedKnobs
  <2> QED  BY <2>2, <2>3, <2>4, <2>5 DEF EchoIsFree
<1> QED  BY <1>4, <1>5

(* What was applied is in force, is shown and stays, for any models,       *)
(* languages, thresholds and sequence of applies, failures and stops.      *)
THEOREM AppliedStays == GInit /\ [][GNext]_gvars => []AppliedIsInForce
BY InitLive, LiveStep, AppliedFollows, PTL

-----------------------------------------------------------------------------
(* Setup.                                                                  *)

Ran == {"saved", "pip", "installed", "failed", "done"}

(* What a picker has with it. *)
IsPicker(r) ==
  /\ r = [x \in DOMAIN r |-> r[x]] /\ "phase" \in DOMAIN r
  /\ r.phase = "idle" => r = Resting
  /\ r # Resting => {"by", "alone"} \subseteq DOMAIN r
  /\ r.phase \in {"editing", "loaded"} =>
       /\ "sel" \in DOMAIN r /\ r.sel = [f \in DOMAIN r.sel |-> r.sel[f]]
       /\ DOMAIN r.sel = Families
  /\ r.phase \in Ran => {"extras", "misled"} \subseteq DOMAIN r

PickersOK ==
  /\ picker = [p \in Pickers |-> picker[p]]
  /\ \A p \in Pickers : IsPicker(picker[p])

(* The stamp of this version tells what is installed, unless it outlived   *)
(* its package.                                                            *)
StampHolds ==
  /\ version \in Nat
  /\ stamp # <<>> => stamp[1].version <= version /\ stamp[1].version \in Nat
  /\ stamp # <<>> /\ stamp[1].version = version /\ env.package /\ ~outlived => Installed(stamp[1].extras)

(* What pip has installed stays while a picker runs. *)
RanIsInstalled ==
  \A p \in Pickers :
    picker[p].phase = "installed" \/ (picker[p].phase = "done" /\ ~picker[p].misled)
      => Installed(picker[p].extras)

(* Who is alone is, and has the saved selection until it is edited. *)
AloneIsAlone ==
  \A p \in Pickers : picker[p] # Resting /\ picker[p].alone =>
    /\ \A q \in Pickers \ {p} : picker[q] = Resting
    /\ picker[p].phase = "loaded" => picker[p].sel = LoadSelection(saved, host)

SavedOK ==
  /\ saved.version \in 0..2
  /\ saved.version = 1 => "moonshine" \notin DOMAIN saved.choices

SetupInv == PickersOK /\ StampHolds /\ RanIsInstalled /\ AloneIsAlone /\ SavedOK

-----------------------------------------------------------------------------
(* What a picker reads is a choice for every family, and is read back as   *)
(* it was when it is saved.                                                *)
LEMMA LoadIsStable ==
  ASSUME NEW file, NEW h
  PROVE  LET sel == LoadSelection(file, h)
         IN  /\ sel = [f \in DOMAIN sel |-> sel[f]] /\ DOMAIN sel = Families
             /\ LoadSelection([version |-> 2, choices |-> sel], h) = sel
<1> DEFINE sel == LoadSelection(file, h)
           Known == {"cpu", "mlx", "both"}
<1>1. \A f : Natural(f, h) \in Known
  BY DEF Natural
<1>2. \A f, e, b, l : b \in Known => Read(f, Choice(e, b, l), h) = Choice(e, b, l)
  <2> TAKE f, e, b, l
  <2> HAVE b \in Known
  <2>1. Choice(e, b, l).enabled = e /\ Choice(e, b, l).backend = b /\ Choice(e, b, l).live = l
    BY DEF Choice
  <2> QED BY <2>1 DEF Read
<1>3. /\ sel = [f \in DOMAIN sel |-> sel[f]] /\ DOMAIN sel = Families
      /\ \A f \in Families : \E e, b, l : b \in Known /\ sel[f] = Choice(e, b, l)
  <2>1. CASE file.version = 0
    <3>1. sel = [f \in Families |-> Choice(f = "whisper", Natural(f, h), TRUE)]
      BY <2>1 DEF LoadSelection, Defaults
    <3> HIDE DEF sel, Known
    <3>2. \A f \in Families : sel[f] = Choice(f = "whisper", Natural(f, h), TRUE)
      BY <3>1
    <3> QED BY <3>1, <3>2, <1>1
  <2>2. CASE file.version = 1
    <3> DEFINE on(f) == f \in DOMAIN file.choices
               back(f) == IF on(f) /\ "mlx" \in Available(f, h) THEN "both" ELSE Natural(f, h)
    <3>1. sel = [f \in Families |-> Choice(on(f), back(f), TRUE)]
      BY <2>2 DEF LoadSelection
    <3>2. \A f : back(f) \in Known
      BY <1>1
    <3> HIDE DEF sel, on, back, Known
    <3>3. DOMAIN sel = Families /\ sel = [f \in DOMAIN sel |-> sel[f]]
      BY <3>1
    <3>4. \A f \in Families : sel[f] = Choice(on(f), back(f), TRUE) /\ back(f) \in Known
      BY <3>1, <3>2
    <3> QED BY <3>3, <3>4
  <2>3. CASE file.version # 0 /\ file.version # 1
    <3> DEFINE there(f) == f \in DOMAIN file.choices
               read(f) == Read(f, file.choices[f], h)
    <3>1. sel = [f \in Families |-> IF there(f) THEN read(f) ELSE Choice(FALSE, Natural(f, h), TRUE)]
      BY <2>3 DEF LoadSelection
    <3>2. \A f : \E e, b, l : b \in Known /\ read(f) = Choice(e, b, l)
      <4> TAKE f
      <4> DEFINE c == file.choices[f]
                 k == IF c.backend \in Known THEN c.backend ELSE Natural(f, h)
      <4>1. read(f) = Choice(c.enabled, k, c.live)
        BY DEF Read
      <4>2. k \in Known
        BY <1>1
      <4> QED BY <4>1, <4>2
    <3> HIDE DEF sel, there, read, Known
    <3>3. \A f \in Families : \E e, b, l : b \in Known /\ sel[f] = Choice(e, b, l)
      <4> TAKE f \in Families
      <4>1. CASE there(f)
        BY <4>1, <3>1, <3>2
      <4>2. CASE ~there(f)
        <5>1. sel[f] = Choice(FALSE, Natural(f, h), TRUE)
          BY <4>2, <3>1
        <5> QED BY <5>1, <1>1
      <4> QED BY <4>1, <4>2
    <3>4. DOMAIN sel = Families /\ sel = [f \in DOMAIN sel |-> sel[f]]
      BY <3>1
    <3> QED BY <3>3, <3>4
  <2> QED BY <2>1, <2>2, <2>3
<1> HIDE DEF sel, Known
<1>4. LoadSelection([version |-> 2, choices |-> sel], h)
        = [f \in Families |-> IF f \in DOMAIN sel THEN Read(f, sel[f], h)
                              ELSE Choice(FALSE, Natural(f, h), TRUE)]
  BY DEF LoadSelection
<1>5. \A f \in Families : Read(f, sel[f], h) = sel[f]
  BY <1>2, <1>3
<1>6. LoadSelection([version |-> 2, choices |-> sel], h) = sel
  BY <1>3, <1>4, <1>5
<1> QED BY <1>3, <1>6 DEF sel

(* What is installed stays, as long as nothing is taken away. *)
LEMMA InstalledStays ==
  ASSUME NEW extras, Installed(extras), UNCHANGED version, env'.package,
         DOMAIN env.extras \subseteq DOMAIN env'.extras,
         \A e \in DOMAIN env.extras : env'.extras[e] \in {env.extras[e], version}
  PROVE  Installed(extras)'
BY DEF Installed

(* A picker starts, goes on or ends; what was installed still is.  The     *)
(* saved selection changes only under a picker that is there, which is     *)
(* then not another that is alone.                                         *)
LEMMA PickerGoesOn ==
  ASSUME PickersOK, RanIsInstalled, AloneIsAlone,
         NEW p \in Pickers, NEW new, picker' = [picker EXCEPT ![p] = new],
         UNCHANGED host, UNCHANGED saved \/ picker[p] # Resting, IsPicker(new),
         picker[p] # Resting \/ \A q \in Pickers : picker[q] = Resting,
         \A extras : Installed(extras) => Installed(extras)',
         new.phase = "installed" \/ (new.phase = "done" /\ ~new.misled) => Installed(new.extras)',
         new # Resting /\ new.alone =>
           /\ \A q \in Pickers \ {p} : picker[q] = Resting
           /\ new.phase = "loaded" => new.sel = LoadSelection(saved', host')
  PROVE  PickersOK' /\ RanIsInstalled' /\ AloneIsAlone'
<1>1. /\ picker'[p] = new /\ picker' = [q \in Pickers |-> picker'[q]]
      /\ \A q \in Pickers \ {p} : picker'[q] = picker[q]
  BY DEF PickersOK
<1>2. PickersOK'
  BY <1>1 DEF PickersOK
<1>3. RanIsInstalled'
  <2> SUFFICES ASSUME NEW q \in Pickers, NEW r, r = picker'[q],
                      r.phase = "installed" \/ (r.phase = "done" /\ ~r.misled)
               PROVE  Installed(r.extras)'
    BY DEF RanIsInstalled, Installed
  <2>1. CASE q = p
    BY <2>1, <1>1
  <2>2. CASE q # p
    BY <2>2, <1>1 DEF RanIsInstalled
  <2> QED BY <2>1, <2>2
<1>4. AloneIsAlone'
  <2> SUFFICES ASSUME NEW q \in Pickers, picker'[q] # Resting, picker'[q].alone
               PROVE  /\ \A o \in Pickers \ {q} : picker'[o] = Resting
                      /\ picker'[q].phase = "loaded" => picker'[q].sel = LoadSelection(saved', host')
    BY DEF AloneIsAlone
  <2>1. CASE q = p
    BY <2>1, <1>1
  <2>2. CASE q # p
    <3>1. picker[p] = Resting
      BY <2>2, <1>1 DEF AloneIsAlone
    <3> QED BY <2>2, <1>1, <3>1
  <2> QED BY <2>1, <2>2
<1> QED BY <1>2, <1>3, <1>4

-----------------------------------------------------------------------------
(* Nothing is wrong to begin with. *)
LEMMA InitSetup == SInit => SetupInv
<1> SUFFICES ASSUME SInit PROVE SetupInv
  OBVIOUS
<1>1. PICK c \in Checkouts :
        /\ host = c.host /\ saved = c.saved /\ stamp = c.stamp
        /\ env = [package |-> TRUE,
                  extras |-> IF c.stamp = <<>> THEN <<>>
                             ELSE [e \in c.stamp[1].extras |-> c.stamp[1].version]]
  BY DEF SInit
<1>2. version = 1 /\ picker = [p \in Pickers |-> Resting]
  BY DEF SInit
<1>3. \A p \in Pickers : picker[p] = Resting /\ picker[p].phase = "idle"
  BY <1>2 DEF Resting
<1>4. PickersOK
  <2>1. IsPicker(Resting)
    BY DEF IsPicker, Resting, Ran
  <2> QED BY <1>2, <1>3, <2>1 DEF PickersOK
<1>5. StampHolds
  <2>1. stamp # <<>> => stamp[1].version \in 0..1
    BY <1>1, CheckoutsAssumption
  <2>2. stamp # <<>> => env.package /\ env.extras = [e \in stamp[1].extras |-> stamp[1].version]
    BY <1>1
  <2>3. stamp # <<>> /\ stamp[1].version = version => Installed(stamp[1].extras)
    BY <2>2 DEF Installed
  <2> QED BY <1>2, <2>1, <2>3 DEF StampHolds
<1>6. RanIsInstalled /\ AloneIsAlone
  BY <1>3 DEF RanIsInstalled, AloneIsAlone
<1>7. SavedOK
  BY <1>1, CheckoutsAssumption DEF SavedOK
<1> QED BY <1>4, <1>5, <1>6, <1>7 DEF SetupInv

-----------------------------------------------------------------------------
(* A picker that goes on, and nothing else but what it has done: the part  *)
(* of the invariant about the files.                                       *)
LEMMA FilesStay ==
  ASSUME SetupInv, UNCHANGED <<stamp, env, version, outlived>>
  PROVE  StampHolds' /\ (\A extras : Installed(extras)' <=> Installed(extras))
BY DEF SetupInv, StampHolds, Installed

(* The next stage of a picker that has saved its selection. *)
LEMMA StageIs ==
  ASSUME NEW r, IsPicker(r), r.phase \in Ran, NEW phase \in Ran
  PROVE  LET new == [r EXCEPT !.phase = phase]
         IN  /\ IsPicker(new) /\ new.phase = phase /\ r # Resting
             /\ new.extras = r.extras /\ new.misled = r.misled /\ new.alone = r.alone
<1> DEFINE new == [r EXCEPT !.phase = phase]
<1>1. /\ r = [x \in DOMAIN r |-> r[x]] /\ "phase" \in DOMAIN r /\ r # Resting
      /\ {"by", "alone"} \subseteq DOMAIN r /\ {"extras", "misled"} \subseteq DOMAIN r
  BY DEF IsPicker, Resting, Ran
<1>2. /\ DOMAIN new = DOMAIN r /\ new = [x \in DOMAIN new |-> new[x]] /\ new.phase = phase
      /\ new.extras = r.extras /\ new.misled = r.misled /\ new.alone = r.alone
  BY <1>1
<1> HIDE DEF new
<1>3. new # Resting /\ new.phase # "idle" /\ new.phase \notin {"editing", "loaded"}
  BY <1>2 DEF Ran, Resting
<1>4. IsPicker(new)
  BY <1>1, <1>2, <1>3 DEF IsPicker
<1> QED BY <1>1, <1>2, <1>4 DEF new

(* A terminal picker is launched. *)
LEMMA LaunchKeeps ==
  ASSUME SetupInv, NEW p \in Pickers, Launch(p)
  PROVE  SetupInv'
<1>1. \A q \in Pickers : picker[q] = Resting
  BY DEF Launch, NobodyRuns
<1>2. UNCHANGED <<host, saved, stamp, env, version, outlived>>
  BY DEF Launch
<1> DEFINE sel == LoadSelection(saved, host)
<1>3. PICK phase \in {"editing", "loaded"} :
        picker' = [picker EXCEPT ![p] = [phase |-> phase, by |-> "terminal", alone |-> TRUE, sel |-> sel]]
  BY DEF Launch, Becomes
<1> DEFINE new == [phase |-> phase, by |-> "terminal", alone |-> TRUE, sel |-> sel]
<1>4. sel = [f \in DOMAIN sel |-> sel[f]] /\ DOMAIN sel = Families
  BY LoadIsStable
<1> HIDE DEF sel
<1>5. new.phase = phase /\ new.sel = sel /\ DOMAIN new = {"phase", "by", "alone", "sel"}
      /\ new = [x \in DOMAIN new |-> new[x]]
  OBVIOUS
<1>6. picker' = [picker EXCEPT ![p] = new]
  BY <1>3
<1> HIDE DEF new
<1>7. IsPicker(new)
  BY <1>4, <1>5 DEF IsPicker, Ran
<1>8. new.sel = LoadSelection(saved', host')
  BY <1>2, <1>5 DEF sel
<1>9. \A extras : Installed(extras) => Installed(extras)'
  BY <1>2, FilesStay
<1>10. PickersOK' /\ RanIsInstalled' /\ AloneIsAlone'
  BY <1>1, <1>2, <1>5, <1>6, <1>7, <1>8, <1>9, PickerGoesOn DEF SetupInv
<1> QED BY <1>2, <1>10, FilesStay DEF SetupInv, SavedOK

(* The operator edits. *)
LEMMA PromptKeeps ==
  ASSUME SetupInv, NEW p \in Pickers, Edit(p)
  PROVE  SetupInv'
<1> DEFINE r == picker[p]
<1>1. UNCHANGED <<host, saved, stamp, env, version, outlived>> /\ r.phase = "editing" /\ PickersOK /\ IsPicker(r)
  BY DEF Edit, SetupInv, PickersOK
<1>2. \E sel : /\ picker' = [picker EXCEPT ![p] = [r EXCEPT !.sel = sel]]
               /\ sel = [f \in DOMAIN sel |-> sel[f]] /\ DOMAIN sel = Families
  <2>1. CASE picker' = [picker EXCEPT ![p].sel = Defaults(host)]
    <3>1. picker' = [picker EXCEPT ![p] = [r EXCEPT !.sel = Defaults(host)]]
      BY <2>1
    <3>2. Defaults(host) = [f \in DOMAIN Defaults(host) |-> Defaults(host)[f]] /\ DOMAIN Defaults(host) = Families
      BY DEF Defaults
    <3> QED BY <3>1, <3>2
  <2>2. ASSUME NEW f \in Families, NEW c, picker' = [picker EXCEPT ![p].sel[f] = c]
        PROVE  \E sel : /\ picker' = [picker EXCEPT ![p] = [r EXCEPT !.sel = sel]]
                        /\ sel = [g \in DOMAIN sel |-> sel[g]] /\ DOMAIN sel = Families
    <3> DEFINE sel == [r.sel EXCEPT ![f] = c]
    <3>1. picker' = [picker EXCEPT ![p] = [r EXCEPT !.sel = sel]]
      BY <2>2
    <3>2. DOMAIN sel = Families /\ sel = [g \in DOMAIN sel |-> sel[g]]
      BY <1>1 DEF IsPicker
    <3> QED BY <3>1, <3>2
  <2> QED BY <2>1, <2>2 DEF Edit
<1>3. PICK sel : /\ picker' = [picker EXCEPT ![p] = [r EXCEPT !.sel = sel]]
                 /\ sel = [f \in DOMAIN sel |-> sel[f]] /\ DOMAIN sel = Families
  BY <1>2
<1> DEFINE new == [r EXCEPT !.sel = sel]
<1>4. picker' = [picker EXCEPT ![p] = new]
  BY <1>3
<1> HIDE DEF r
<1>5. /\ r = [x \in DOMAIN r |-> r[x]] /\ "phase" \in DOMAIN r /\ "sel" \in DOMAIN r /\ r # Resting
      /\ {"by", "alone"} \subseteq DOMAIN r
  BY <1>1 DEF IsPicker, Resting
<1>6. /\ DOMAIN new = DOMAIN r /\ new = [x \in DOMAIN new |-> new[x]]
      /\ new.phase = "editing" /\ new.sel = sel /\ new.alone = r.alone
  BY <1>1, <1>5
<1> HIDE DEF new
<1>7. new # Resting
  BY <1>6 DEF Resting
<1>8. IsPicker(new)
  BY <1>3, <1>5, <1>6, <1>7 DEF IsPicker, Ran
<1>9. \A extras : Installed(extras) => Installed(extras)'
  BY <1>1, FilesStay
<1>10. r.alone => \A q \in Pickers \ {p} : picker[q] = Resting
  BY <1>5 DEF SetupInv, AloneIsAlone, r
<1>11. PickersOK' /\ RanIsInstalled' /\ AloneIsAlone'
  <2>1. picker[p] # Resting
    BY <1>5 DEF r
  <2> QED BY <1>1, <1>4, <1>6, <1>8, <1>9, <1>10, <2>1, PickerGoesOn DEF SetupInv
<1> QED BY <1>1, <1>11, FilesStay DEF SetupInv, SavedOK

(* The selection and the sidecar are written. *)
LEMMA SaveKeeps ==
  ASSUME SetupInv, NEW p \in Pickers, Save(p)
  PROVE  SetupInv'
<1> DEFINE r == picker[p]
<1>1. UNCHANGED <<host, stamp, env, version, outlived>> /\ r.phase \in {"editing", "loaded"} /\ IsPicker(r)
      /\ saved' = [version |-> 2, choices |-> r.sel]
  BY DEF Save, SetupInv, PickersOK
<1> DEFINE extras == ResolveExtras(r.sel, host)
           new == [phase |-> "saved", by |-> r.by, alone |-> r.alone, extras |-> extras, misled |-> FALSE]
<1>2. picker' = [picker EXCEPT ![p] = new]
  BY DEF Save
<1> HIDE DEF extras, r
<1>3. /\ DOMAIN new = {"phase", "by", "alone", "extras", "misled"} /\ new = [x \in DOMAIN new |-> new[x]]
      /\ new.phase = "saved" /\ new.alone = r.alone
  OBVIOUS
<1> HIDE DEF new
<1>4. IsPicker(new)
  BY <1>3 DEF IsPicker, Ran, Resting
<1>5. r # Resting
  BY <1>1 DEF Resting
<1>6. r.alone => \A q \in Pickers \ {p} : picker[q] = Resting
  BY <1>5 DEF SetupInv, AloneIsAlone, r
<1>7. \A x : Installed(x) => Installed(x)'
  BY <1>1, FilesStay
<1>8. PickersOK' /\ RanIsInstalled' /\ AloneIsAlone'
  <2>1. picker[p] # Resting
    BY <1>5 DEF r
  <2> QED BY <1>1, <1>2, <1>3, <1>4, <1>6, <1>7, <2>1, PickerGoesOn DEF SetupInv
<1>9. SavedOK'
  BY <1>1 DEF SavedOK
<1> QED BY <1>1, <1>8, <1>9, FilesStay DEF SetupInv

(* A picker that goes to its next stage, as the files were.                *)
LEMMA StageKeeps ==
  ASSUME SetupInv, NEW p \in Pickers, NEW new, picker' = [picker EXCEPT ![p] = new],
         UNCHANGED <<host, saved>>, picker[p] # Resting, IsPicker(new), new.phase \in Ran,
         new.alone = picker[p].alone,
         \A extras : Installed(extras) => Installed(extras)',
         new.phase = "installed" \/ (new.phase = "done" /\ ~new.misled) => Installed(new.extras)'
  PROVE  PickersOK' /\ RanIsInstalled' /\ AloneIsAlone' /\ SavedOK'
<1>1. picker[p].alone => \A q \in Pickers \ {p} : picker[q] = Resting
  BY DEF SetupInv, AloneIsAlone
<1>2. new.phase # "loaded"
  BY DEF Ran
<1>3. PickersOK' /\ RanIsInstalled' /\ AloneIsAlone'
  BY <1>1, <1>2, PickerGoesOn DEF SetupInv
<1> QED BY <1>3 DEF SetupInv, SavedOK

(* An unchanged selection that was stamped at this version is not          *)
(* installed again.                                                        *)
LEMMA CheckKeeps ==
  ASSUME SetupInv, NEW p \in Pickers, Check(p)
  PROVE  SetupInv'
<1> DEFINE r == picker[p]
<1>1. UNCHANGED <<host, saved, stamp, env, version, outlived>> /\ r.phase = "saved" /\ IsPicker(r)
      /\ picker' = [picker EXCEPT ![p] = IF InstallIsCurrent(r.extras) /\ env.package
                                         THEN [r EXCEPT !.phase = "done", !.misled = outlived]
                                         ELSE [r EXCEPT !.phase = "pip"]]
  BY DEF Check, Becomes, SetupInv, PickersOK
<1>2. r.phase \in Ran /\ r # Resting
  BY <1>1 DEF Ran, Resting
<1>3. \A x : Installed(x) => Installed(x)'
  BY <1>1, FilesStay
<1>4. CASE InstallIsCurrent(r.extras) /\ env.package
  <2> DEFINE mid == [r EXCEPT !.phase = "done"]
             new == [mid EXCEPT !.misled = outlived]
  <2>1. /\ IsPicker(mid) /\ mid.phase = "done" /\ mid.extras = r.extras /\ mid.alone = r.alone
    BY <1>1, <1>2, StageIs DEF Ran
  <2>2. picker' = [picker EXCEPT ![p] = new]
    BY <1>1, <1>4
  <2> HIDE DEF mid
  <2>3. /\ mid = [x \in DOMAIN mid |-> mid[x]]
        /\ {"phase", "by", "alone", "extras", "misled"} \subseteq DOMAIN mid
    BY <2>1 DEF IsPicker, Resting, Ran
  <2>4. /\ DOMAIN new = DOMAIN mid /\ new = [x \in DOMAIN new |-> new[x]] /\ new.phase = "done"
        /\ new.extras = r.extras /\ new.misled = outlived /\ new.alone = r.alone
    BY <2>1, <2>3
  <2> HIDE DEF new
  <2>5. IsPicker(new) /\ new.phase \in Ran
    BY <2>3, <2>4 DEF IsPicker, Ran, Resting
  <2>6. ~outlived => Installed(r.extras)
    <3>1. stamp # <<>> /\ stamp[1].extras = r.extras /\ stamp[1].version = version
      BY <1>4 DEF InstallIsCurrent
    <3> QED BY <1>4, <3>1 DEF SetupInv, StampHolds
  <2>7. PickersOK' /\ RanIsInstalled' /\ AloneIsAlone' /\ SavedOK'
    BY <1>1, <1>2, <1>3, <2>2, <2>4, <2>5, <2>6, StageKeeps
  <2> QED BY <1>1, <2>7, FilesStay DEF SetupInv
<1>5. CASE ~(InstallIsCurrent(r.extras) /\ env.package)
  <2> DEFINE new == [r EXCEPT !.phase = "pip"]
  <2>1. /\ IsPicker(new) /\ new.phase = "pip" /\ new.alone = r.alone
    BY <1>1, <1>2, StageIs DEF Ran
  <2>2. picker' = [picker EXCEPT ![p] = new]
    BY <1>1, <1>5
  <2> HIDE DEF new
  <2>3. PickersOK' /\ RanIsInstalled' /\ AloneIsAlone' /\ SavedOK'
    BY <1>1, <1>2, <1>3, <2>1, <2>2, StageKeeps DEF Ran
  <2> QED BY <1>1, <2>3, FilesStay DEF SetupInv
<1> QED BY <1>4, <1>5

(* pip leaves every extra it was asked for, and takes none away. *)
LEMMA PipSucceedsKeeps ==
  ASSUME SetupInv, NEW p \in Pickers, PipSucceeds(p)
  PROVE  SetupInv'
<1> PICK r : r = picker[p]
  OBVIOUS
<1> PICK new : new = [r EXCEPT !.phase = "installed"]
  OBVIOUS
<1> DEFINE fresh == [e \in r.extras |-> version]
<1>1. /\ UNCHANGED <<host, saved, stamp, version>> /\ r.phase = "pip" /\ IsPicker(r)
      /\ picker' = [picker EXCEPT ![p] = new]
      /\ env' = [package |-> TRUE, extras |-> Over(fresh, env.extras)]
      /\ outlived' = (outlived \/ (~env.package /\ stamp # <<>>))
  BY DEF PipSucceeds, Becomes, SetupInv, PickersOK
<1>2. /\ r.phase \in Ran /\ r # Resting /\ IsPicker(new) /\ new.phase = "installed"
      /\ new.extras = r.extras /\ new.alone = r.alone
  <2>1. "installed" \in Ran /\ r.phase \in Ran
    BY <1>1 DEF Ran
  <2> QED BY <1>1, <2>1, StageIs
<1>3. /\ env'.package /\ DOMAIN env'.extras = r.extras \cup DOMAIN env.extras
      /\ \A e \in DOMAIN env'.extras :
           env'.extras[e] = IF e \in r.extras THEN version ELSE env.extras[e]
  BY <1>1 DEF Over
<1>4. \A x : Installed(x) => Installed(x)'
  <2> TAKE x
  <2> HAVE Installed(x)
  <2> QED BY <1>1, <1>3, InstalledStays
<1>5. Installed(new.extras)'
  <2>1. \A e \in r.extras : e \in DOMAIN env'.extras /\ env'.extras[e] = version
    BY <1>3
  <2> QED BY <1>1, <1>2, <1>3, <2>1 DEF Installed
<1>6. PickersOK' /\ RanIsInstalled' /\ AloneIsAlone' /\ SavedOK'
  BY <1>1, <1>2, <1>4, <1>5, StageKeeps DEF Ran
<1>7. StampHolds'
  <2>1. version \in Nat /\ (stamp # <<>> => stamp[1].version <= version /\ stamp[1].version \in Nat)
    BY DEF SetupInv, StampHolds
  <2>2. ASSUME stamp # <<>>, stamp[1].version = version, ~outlived'
        PROVE  Installed(stamp[1].extras)'
    <3>1. Installed(stamp[1].extras)
      BY <2>2, <1>1 DEF SetupInv, StampHolds
    <3> QED BY <3>1, <1>1, <1>4 DEF Installed
  <2> QED BY <1>1, <2>1, <2>2 DEF StampHolds
<1> QED BY <1>6, <1>7 DEF SetupInv

(* pip fails. *)
LEMMA PipFailsKeeps ==
  ASSUME SetupInv, NEW p \in Pickers, PipFails(p)
  PROVE  SetupInv'
<1> DEFINE r == picker[p]
           new == [r EXCEPT !.phase = "failed"]
<1>1. /\ UNCHANGED <<host, saved, stamp, env, version, outlived>> /\ r.phase = "pip" /\ IsPicker(r)
      /\ picker' = [picker EXCEPT ![p] = new]
  BY DEF PipFails, Becomes, SetupInv, PickersOK
<1>2. /\ r.phase \in Ran /\ r # Resting /\ IsPicker(new) /\ new.phase = "failed" /\ new.alone = r.alone
  BY <1>1, StageIs DEF Ran
<1>3. \A x : Installed(x) => Installed(x)'
  BY <1>1, FilesStay
<1> HIDE DEF new
<1>4. PickersOK' /\ RanIsInstalled' /\ AloneIsAlone' /\ SavedOK'
  BY <1>1, <1>2, <1>3, StageKeeps DEF Ran
<1> QED BY <1>1, <1>4, FilesStay DEF SetupInv

(* What pip has installed is stamped, when the stamp can be written.       *)
LEMMA WriteStampKeeps ==
  ASSUME SetupInv, NEW p \in Pickers, WriteStamp(p)
  PROVE  SetupInv'
<1> PICK r : r = picker[p]
  OBVIOUS
<1> PICK new : new = [r EXCEPT !.phase = "done"]
  OBVIOUS
<1>1. /\ UNCHANGED <<host, saved, env, version>> /\ r.phase = "installed" /\ IsPicker(r)
      /\ picker' = [picker EXCEPT ![p] = new]
      /\ \/ UNCHANGED <<stamp, outlived>>
         \/ stamp' = <<[extras |-> r.extras, version |-> version]>>
  BY DEF WriteStamp, Becomes, SetupInv, PickersOK
<1>2. /\ r.phase \in Ran /\ r # Resting /\ IsPicker(new) /\ new.phase = "done"
      /\ new.extras = r.extras /\ new.alone = r.alone
  <2>1. "done" \in Ran /\ r.phase \in Ran
    BY <1>1 DEF Ran
  <2> QED BY <1>1, <2>1, StageIs
<1>3. \A x : Installed(x) => Installed(x)'
  BY <1>1 DEF Installed
<1>4. Installed(r.extras) /\ Installed(r.extras)'
  <2>1. Installed(r.extras)
    BY <1>1 DEF SetupInv, RanIsInstalled
  <2> QED BY <2>1, <1>1 DEF Installed
<1>5. Installed(new.extras)'
  BY <1>2, <1>4, <1>1 DEF Installed
<1>6. PickersOK' /\ RanIsInstalled' /\ AloneIsAlone' /\ SavedOK'
  BY <1>1, <1>2, <1>3, <1>5, StageKeeps DEF Ran
<1>7. StampHolds'
  <2>1. CASE UNCHANGED <<stamp, outlived>>
    BY <2>1, <1>1, FilesStay DEF SetupInv
  <2>2. CASE stamp' = <<[extras |-> r.extras, version |-> version]>>
    <3>1. version' \in Nat /\ version' = version
      BY <1>1 DEF SetupInv, StampHolds
    <3>2. stamp'[1].version = version /\ stamp'[1].extras = r.extras
      BY <2>2
    <3> QED BY <3>1, <3>2, <1>1, <1>4 DEF StampHolds, Installed
  <2> QED BY <1>1, <2>1, <2>2
<1> QED BY <1>6, <1>7 DEF SetupInv

(* A picker ends. *)
LEMMA ExitsKeeps ==
  ASSUME SetupInv, NEW p \in Pickers, Exits(p)
  PROVE  SetupInv'
<1>1. /\ UNCHANGED <<host, saved, stamp, env, version, outlived>> /\ picker[p] # Resting
      /\ picker' = [picker EXCEPT ![p] = Resting]
  BY DEF Exits
<1>2. IsPicker(Resting) /\ Resting.phase = "idle"
  BY DEF IsPicker, Resting, Ran
<1>3. \A x : Installed(x) => Installed(x)'
  BY <1>1, FilesStay
<1>4. PickersOK' /\ RanIsInstalled' /\ AloneIsAlone'
  BY <1>1, <1>2, <1>3, PickerGoesOn DEF SetupInv
<1> QED BY <1>1, <1>4, FilesStay DEF SetupInv, SavedOK

(* /setup writes the selection and spawns a picker; the others, which a    *)
(* page went away from, are no longer alone.                               *)
LEMMA SetupRequestKeeps ==
  ASSUME SetupInv, NEW p \in Pickers, Request(p)
  PROVE  SetupInv'
<1>1. /\ UNCHANGED <<host, stamp, env, version, outlived>> /\ picker[p] = Resting
      /\ \E fresh : saved' = MergeState(saved, fresh)
  BY DEF Request
<1>2. PICK pick \in Picks :
        picker' = [q \in Pickers |->
          IF q = p THEN [phase |-> "spawned", by |-> "setup", alone |-> NobodyRuns, pick |-> pick]
          ELSE IF picker[q] = Resting THEN Resting ELSE [picker[q] EXCEPT !.alone = FALSE]]
  BY DEF Request
<1> DEFINE new == [phase |-> "spawned", by |-> "setup", alone |-> NobodyRuns, pick |-> pick]
<1>3. /\ DOMAIN new = {"phase", "by", "alone", "pick"} /\ new = [x \in DOMAIN new |-> new[x]]
      /\ new.phase = "spawned" /\ new.alone = NobodyRuns
  OBVIOUS
<1>4. /\ picker' = [q \in Pickers |-> picker'[q]] /\ picker'[p] = new
      /\ \A q \in Pickers \ {p} :
           picker'[q] = IF picker[q] = Resting THEN Resting ELSE [picker[q] EXCEPT !.alone = FALSE]
  BY <1>2
<1> HIDE DEF new
<1>5. IsPicker(new)
  BY <1>3 DEF IsPicker, Ran, Resting
<1>6. \A q \in Pickers \ {p} :
        /\ IsPicker(picker'[q]) /\ picker'[q].phase = picker[q].phase
        /\ picker[q].phase \in Ran =>
             picker'[q].extras = picker[q].extras /\ picker'[q].misled = picker[q].misled
        /\ picker'[q] # Resting => ~picker'[q].alone
        /\ picker[q] = Resting => picker'[q] = Resting
  <2> TAKE q \in Pickers \ {p}
  <2> DEFINE r == picker[q]
             less == [r EXCEPT !.alone = FALSE]
  <2>1. IsPicker(r)
    BY DEF SetupInv, PickersOK
  <2>2. CASE r = Resting
    <3>1. picker'[q] = Resting
      BY <2>2, <1>4
    <3> QED BY <2>1, <2>2, <3>1 DEF Resting, Ran
  <2>3. CASE r # Resting
    <3>1. picker'[q] = less
      BY <2>3, <1>4
    <3> HIDE DEF r
    <3>2. /\ r = [x \in DOMAIN r |-> r[x]] /\ {"phase", "by", "alone"} \subseteq DOMAIN r
          /\ r.phase # "idle"
          /\ r.phase \in Ran => {"extras", "misled"} \subseteq DOMAIN r
          /\ r.phase \in {"editing", "loaded"} =>
               /\ "sel" \in DOMAIN r /\ r.sel = [f \in DOMAIN r.sel |-> r.sel[f]]
               /\ DOMAIN r.sel = Families
      BY <2>1, <2>3 DEF IsPicker
    <3>3. /\ DOMAIN less = DOMAIN r /\ less = [x \in DOMAIN less |-> less[x]]
          /\ less.phase = r.phase /\ less.alone = FALSE
          /\ "extras" \in DOMAIN r => less.extras = r.extras
          /\ "misled" \in DOMAIN r => less.misled = r.misled
          /\ "sel" \in DOMAIN r => less.sel = r.sel
      BY <3>2
    <3> HIDE DEF less
    <3>4. less # Resting
      BY <3>2, <3>3 DEF Resting
    <3>5. IsPicker(less)
      BY <3>2, <3>3, <3>4 DEF IsPicker
    <3> QED BY <2>3, <3>1, <3>2, <3>3, <3>5 DEF r
  <2> QED BY <2>2, <2>3
<1>7. PickersOK'
  BY <1>4, <1>5, <1>6 DEF PickersOK
<1>8. \A x : Installed(x) => Installed(x)'
  BY <1>1, FilesStay
<1>9. RanIsInstalled'
  <2> SUFFICES ASSUME NEW q \in Pickers, NEW r, r = picker'[q],
                      r.phase = "installed" \/ (r.phase = "done" /\ ~r.misled)
               PROVE  Installed(r.extras)'
    BY DEF RanIsInstalled, Installed
  <2>1. q # p
    BY <1>3, <1>4
  <2>2. r.extras = picker[q].extras /\ Installed(picker[q].extras)
    <3>1. picker[q].phase \in Ran
      BY <2>1, <1>6 DEF Ran
    <3> QED BY <2>1, <1>6, <3>1 DEF SetupInv, RanIsInstalled
  <2> QED BY <2>2, <1>8
<1>10. AloneIsAlone'
  <2>1. NobodyRuns => \A q \in Pickers \ {p} : picker'[q] = Resting
    BY <1>6 DEF NobodyRuns
  <2> QED BY <1>3, <1>4, <1>6, <2>1 DEF AloneIsAlone
<1>11. SavedOK'
  BY <1>1 DEF SavedOK, MergeState
<1> QED BY <1>1, <1>7, <1>9, <1>10, <1>11, FilesStay DEF SetupInv

(* The spawned picker reads the selection. *)
LEMMA ReadsKeeps ==
  ASSUME SetupInv, NEW p \in Pickers, Reads(p)
  PROVE  SetupInv'
<1> DEFINE r == picker[p]
           sel == LoadSelection(saved, host)
           new == [phase |-> "loaded", by |-> "setup", alone |-> r.alone, sel |-> sel]
<1>1. /\ UNCHANGED <<host, saved, stamp, env, version, outlived>> /\ r.phase = "spawned"
      /\ picker' = [picker EXCEPT ![p] = new]
  BY DEF Reads, Becomes
<1>2. sel = [f \in DOMAIN sel |-> sel[f]] /\ DOMAIN sel = Families
  BY LoadIsStable
<1>3. r # Resting
  BY <1>1 DEF Resting
<1>4. r.alone => \A q \in Pickers \ {p} : picker[q] = Resting
  BY <1>3 DEF SetupInv, AloneIsAlone
<1>5. sel = LoadSelection(saved', host')
  BY <1>1
<1> HIDE DEF sel, r
<1>6. /\ DOMAIN new = {"phase", "by", "alone", "sel"} /\ new = [x \in DOMAIN new |-> new[x]]
      /\ new.phase = "loaded" /\ new.alone = r.alone /\ new.sel = sel
  OBVIOUS
<1> HIDE DEF new
<1>7. IsPicker(new)
  BY <1>2, <1>6 DEF IsPicker, Ran
<1>8. \A x : Installed(x) => Installed(x)'
  BY <1>1, FilesStay
<1>9. PickersOK' /\ RanIsInstalled' /\ AloneIsAlone'
  <2>1. picker[p] # Resting
    BY <1>3 DEF r
  <2> QED BY <1>1, <1>4, <1>5, <1>6, <1>7, <1>8, <2>1, PickerGoesOn DEF SetupInv
<1> QED BY <1>1, <1>9, FilesStay DEF SetupInv, SavedOK

(* Between two launches no picker is there: what happens to the checkout   *)
(* concerns the stamp only.                                                *)
LEMMA BetweenLaunches ==
  ASSUME SetupInv, NobodyRuns, UNCHANGED <<saved, picker>>, StampHolds'
  PROVE  SetupInv'
<1>1. \A p \in Pickers : picker'[p] = Resting
  BY DEF NobodyRuns
<1>2. RanIsInstalled' /\ AloneIsAlone'
  BY <1>1 DEF RanIsInstalled, AloneIsAlone, Resting
<1> QED BY <1>2 DEF SetupInv, PickersOK, SavedOK

(* The package is upgraded, uninstalled, or the checkout moves.            *)
LEMMA CheckoutKeeps ==
  ASSUME SetupInv, Upgrade \/ Uninstall \/ Moves
  PROVE  SetupInv'
<1>1. /\ version \in Nat /\ (stamp # <<>> => stamp[1].version <= version /\ stamp[1].version \in Nat)
  BY DEF SetupInv, StampHolds
<1>2. CASE Upgrade
  <2>1. StampHolds'
    BY <1>1, <1>2 DEF Upgrade, StampHolds
  <2> QED BY <1>2, <2>1, BetweenLaunches DEF Upgrade
<1>3. CASE Uninstall
  <2>1. env'.package = FALSE
    BY <1>3 DEF Uninstall
  <2>2. StampHolds'
    BY <1>1, <1>3, <2>1 DEF Uninstall, StampHolds
  <2> QED BY <1>3, <2>2, BetweenLaunches DEF Uninstall
<1>4. CASE Moves
  <2>1. StampHolds'
    BY <1>1, <1>4 DEF Moves, StampHolds
  <2> QED BY <1>4, <2>1, BetweenLaunches DEF Moves
<1> QED BY <1>2, <1>3, <1>4

(* Every step keeps the invariant. *)
LEMMA StepSetup == SetupInv /\ [SNext]_svars => SetupInv'
<1> SUFFICES ASSUME SetupInv, [SNext]_svars PROVE SetupInv'
  OBVIOUS
<1>1. ASSUME NEW p \in Pickers,
             \/ Launch(p) \/ Edit(p) \/ Save(p) \/ Check(p) \/ PipSucceeds(p) \/ PipFails(p)
             \/ WriteStamp(p) \/ Exits(p) \/ Request(p) \/ Reads(p)
      PROVE  SetupInv'
  BY <1>1, LaunchKeeps, PromptKeeps, SaveKeeps, CheckKeeps, PipSucceedsKeeps, PipFailsKeeps,
     WriteStampKeeps, ExitsKeeps, SetupRequestKeeps, ReadsKeeps
<1>2. CASE Disconnect \/ UNCHANGED svars
  <2>1. UNCHANGED <<host, saved, stamp, env, version, outlived, picker>>
    BY <1>2 DEF Disconnect, svars
  <2> QED BY <2>1, FilesStay DEF SetupInv, PickersOK, RanIsInstalled, AloneIsAlone, SavedOK
<1> QED BY <1>1, <1>2, CheckoutKeeps DEF SNext

(* The invariant gives what a run checks. *)
LEMMA FollowSetup == SetupInv => DoneMeansInstalled
BY DEF SetupInv, RanIsInstalled, DoneMeansInstalled

(* A picker that reports success leaves the package and every extra it     *)
(* resolved installed at the version it runs, whether it ran pip or        *)
(* skipped it (install_is_current, package_is_installed).                  *)
THEOREM SuccessIsInstalled == SInit /\ [][SNext]_svars => []DoneMeansInstalled
BY InitSetup, StepSetup, FollowSetup, PTL

(* What /setup writes leaves the family it does not manage as it was. *)
LEMMA MergeKeepsOthers ==
  ASSUME NEW file, file.version \in 0..2,
         file.version = 1 => "moonshine" \notin DOMAIN file.choices,
         NEW fresh, DOMAIN fresh = Managed, NEW h, NEW f \in Families \ Managed
  PROVE  LoadSelection(MergeState(file, fresh), h)[f] = LoadSelection(file, h)[f]
<1> DEFINE new == MergeState(file, fresh)
           untouched == Choice(FALSE, Natural(f, h), TRUE)
<1>1. f = "moonshine" /\ f \notin DOMAIN fresh
  BY DEF Managed
<1>2. new.version = 2 /\ new.choices = IF file.version = 2 THEN Over(fresh, file.choices) ELSE fresh
  BY DEF MergeState
<1>3. LoadSelection(new, h)[f] = IF f \in DOMAIN new.choices THEN Read(f, new.choices[f], h) ELSE untouched
  <2> HIDE DEF new
  <2> QED BY <1>2 DEF LoadSelection
<1>4. CASE file.version = 2
  <2>1. f \in DOMAIN new.choices <=> f \in DOMAIN file.choices
    BY <1>1, <1>2, <1>4 DEF Over
  <2>2. f \in DOMAIN file.choices => new.choices[f] = file.choices[f]
    BY <1>1, <1>2, <1>4 DEF Over
  <2>3. LoadSelection(file, h)[f]
          = IF f \in DOMAIN file.choices THEN Read(f, file.choices[f], h) ELSE untouched
    BY <1>4 DEF LoadSelection
  <2> HIDE DEF new, untouched
  <2>4. LoadSelection(new, h)[f] = LoadSelection(file, h)[f]
    BY <1>3, <2>1, <2>2, <2>3
  <2> QED BY <2>4 DEF new
<1>5. CASE file.version # 2
  <2>1. LoadSelection(new, h)[f] = untouched
    BY <1>1, <1>2, <1>3, <1>5
  <2>2. CASE file.version = 0
    <3>1. LoadSelection(file, h)[f] = Choice(f = "whisper", Natural(f, h), TRUE)
      BY <2>2 DEF LoadSelection, Defaults
    <3>2. (f = "whisper") = FALSE
      BY <1>1
    <3> QED BY <2>1, <3>1, <3>2
  <2>3. CASE file.version = 1
    <3> DEFINE on == f \in DOMAIN file.choices
    <3>1. LoadSelection(file, h)[f]
            = Choice(on, IF on /\ "mlx" \in Available(f, h) THEN "both" ELSE Natural(f, h), TRUE)
      BY <2>3 DEF LoadSelection
    <3>2. on = FALSE
      BY <1>1, <2>3
    <3> HIDE DEF on
    <3> QED BY <2>1, <3>1, <3>2
  <2> QED BY <1>5, <2>2, <2>3
<1> QED BY <1>4, <1>5

(* What ChoicesKept asks of a family in a step that writes the selection. *)
Kept(f) ==
  \/ LoadSelection(saved', host)[f] = LoadSelection(saved, host)[f]
  \/ \E p \in Pickers : picker[p].phase = "editing" /\ picker'[p].phase = "saved"
  \/ f \in Managed /\ slot = {} /\ slot' # {}
  \/ \E p \in Pickers :
       picker'[p].phase = "saved" /\ picker[p].phase # "saved" /\ ~picker[p].alone

(* A picker that saves. *)
LEMMA SaveKeepsChoices ==
  ASSUME SetupInv, NEW p \in Pickers, Save(p), NEW f \in Families
  PROVE  Kept(f)
<1>1. /\ picker[p].phase \in {"editing", "loaded"} /\ picker'[p].phase = "saved"
      /\ saved' = [version |-> 2, choices |-> picker[p].sel]
  BY DEF Save, SetupInv, PickersOK
<1>2. CASE picker[p].phase = "editing" \/ ~picker[p].alone
  BY <1>1, <1>2 DEF Kept
<1>3. CASE picker[p].phase = "loaded" /\ picker[p].alone
  <2>1. picker[p].sel = LoadSelection(saved, host)
    BY <1>3 DEF SetupInv, AloneIsAlone, Resting
  <2>2. LoadSelection(saved', host) = LoadSelection(saved, host)
    BY <1>1, <2>1, LoadIsStable
  <2> QED BY <2>2 DEF Kept
<1> QED BY <1>1, <1>2, <1>3

(* A request of /setup. *)
LEMMA RequestKeepsChoices ==
  ASSUME SetupInv, NEW p \in Pickers, Request(p), NEW f \in Families
  PROVE  Kept(f)
<1>1. CASE f \in Managed
  BY <1>1 DEF Kept, Request
<1>2. CASE f \notin Managed
  <2>1. PICK pick, live : saved' = MergeState(saved, ToPickerState(pick, live))
    BY DEF Request
  <2> DEFINE fresh == ToPickerState(pick, live)
  <2>2. DOMAIN fresh = Managed
    BY DEF ToPickerState
  <2> HIDE DEF fresh
  <2>3. LoadSelection(saved', host)[f] = LoadSelection(saved, host)[f]
    BY <1>2, <2>1, <2>2, MergeKeepsOthers DEF SetupInv, SavedOK, fresh
  <2> QED BY <2>3 DEF Kept
<1> QED BY <1>1, <1>2

(* A step that writes the selection is one of these two. *)
LEMMA StepKeepsChoices ==
  SetupInv /\ [SNext]_svars => [saved' # saved => \A f \in Families : Kept(f)]_svars
<1> SUFFICES ASSUME SetupInv, SNext, saved' # saved, NEW f \in Families PROVE Kept(f)
  BY DEF svars
<1>1. PICK p \in Pickers : Save(p) \/ Request(p)
  BY DEF SNext, Launch, Edit, Check, PipSucceeds, PipFails, WriteStamp, Exits, Reads, Disconnect,
         Upgrade, Uninstall, Moves
<1> QED BY <1>1, SaveKeepsChoices, RequestKeepsChoices

(* What the operator chose for a family changes only when they choose      *)
(* again: in a prompt, or in /setup for a family it manages.  A run        *)
(* without a prompt, an upgrade, a move to a machine without that backend  *)
(* and an install of other families all keep it (Selection.load,           *)
(* merge_picker_state).  Of two pickers at once the last to write wins.    *)
THEOREM ChoicesSurvive == SInit /\ [][SNext]_svars => ChoicesKept
<1>1. SInit /\ [][SNext]_svars => []SetupInv
  BY InitSetup, StepSetup, PTL
<1>2. SetupInv /\ [SNext]_svars => [saved' # saved => \A f \in Families :
       \/ LoadSelection(saved', host)[f] = LoadSelection(saved, host)[f]
       \/ \E p \in Pickers : picker[p].phase = "editing" /\ picker'[p].phase = "saved"
       \/ f \in Managed /\ slot = {} /\ slot' # {}
       \/ \E p \in Pickers :
            picker'[p].phase = "saved" /\ picker[p].phase # "saved" /\ ~picker[p].alone]_svars
  BY StepKeepsChoices DEF Kept
<1> QED BY <1>1, <1>2, PTL DEF ChoicesKept

-----------------------------------------------------------------------------
(* SessionListing.                                                         *)

(* What a row tells of the transcripts of a WAV. *)
Tagged(e, engines) == {<<x, x = e>> : x \in engines}

ClipNames == (DOMAIN Recordings) \X Nat
Views ==
  UNION {[ws -> Int \X Int \X (SUBSET (Engines \X BOOLEAN)) \X (SUBSET ClipNames)] :
           ws \in SUBSET DOMAIN Recordings}

IsFolder(f) ==
  /\ f = [w \in DOMAIN f |-> f[w]] /\ DOMAIN f \subseteq DOMAIN Recordings
  /\ \A w \in DOMAIN f : IsWav(f[w])

ListingTypeOK ==
  /\ IsFolder(folder) /\ DOMAIN clips \subseteq ClipNames
  /\ past \in Seq(Views) /\ Len(past) >= 1
  /\ blurred \in BOOLEAN
  /\ \A r \in fetches : r = [sig |-> r.sig, nth |-> r.nth, rows |-> r.rows]

(* The latest entry is the folder as it is. *)
PastEndsNow == past[Len(past)] = Visible(Rows(folder, clips), OpenWavs)

(* Stamps are of changes that were. *)
StampsArePast ==
  /\ \A w \in DOMAIN folder : Stamps(folder[w], Len(past))
  /\ \A i \in 1..Len(past) : \A w \in DOMAIN past[i] :
       past[i][w][2] <= Len(past) /\ (past[i][w][2] = 0 => past[i][w][3] = {})

(* Whoever showed a stamp that a transcript still has, showed transcripts  *)
(* that are still there, and that one as the primary.                      *)
StampsStay ==
  \A i \in 1..Len(past) : \A w \in DOMAIN past[i] \cap DOMAIN folder :
    \A e \in DOMAIN folder[w].made :
      past[i][w][2] = folder[w].made[e] => past[i][w][3] \subseteq Tagged(e, DOMAIN folder[w].made)

(* Of two entries with one stamp for a WAV the later has more transcripts. *)
PastGrows ==
  \A i, k \in 1..Len(past) : i <= k =>
    \A w \in DOMAIN past[i] \cap DOMAIN past[k] :
      past[i][w][2] = past[k][w][2] => past[i][w][3] \subseteq past[k][w][3]

(* What a digest tells. *)
Brief(v) == [w \in DOMAIN v |-> <<v[w][1], v[w][2], Cardinality(v[w][3]), v[w][4]>>]
Masked(v) == {w \in DOMAIN v : v[w][1] = -1}

TakenOf(sig) == \E i \in 1..Len(past) : sig[1] = Brief(past[i])
WalkedAfter(sig, rows) ==
  \E i \in 1..Len(past) : \E j \in i..Len(past) :
    sig[1] = Brief(past[i]) /\ past[j] = Visible(rows, Masked(past[j]))

SeenIsTaken == ~blurred /\ seen # <<>> => TakenOf(seen)
FetchesFollow ==
  \A r \in fetches :
    /\ r.sig # <<>>
    /\ ~blurred => TakenOf(r.sig) /\ (r.rows # <<>> => WalkedAfter(r.sig, r.rows[1]))
ListingsFollow ==
  \A sig \in DOMAIN listings : sig # <<>> /\ (~blurred => WalkedAfter(sig, listings[sig]))

WInv ==
  /\ ListingTypeOK /\ PastEndsNow /\ StampsArePast /\ StampsStay /\ PastGrows
  /\ SeenIsTaken /\ FetchesFollow /\ ListingsFollow

-----------------------------------------------------------------------------
(* What Visible shows of a folder. *)
LEMMA VisibleIs ==
  ASSUME NEW f, NEW c, NEW open
  PROVE  LET v == Visible(Rows(f, c), open)
         IN  /\ v = [w \in DOMAIN v |-> v[w]]
             /\ DOMAIN v = DOMAIN f
             /\ \A w \in DOMAIN f :
                  v[w] = <<IF w \in open THEN -1 ELSE f[w].size, Stamped(f[w]),
                           Tagged(f[w].primary, DOMAIN f[w].made), Regions(f, c, w)>>
<1> DEFINE r == Rows(f, c)
<1>1. DOMAIN r = DOMAIN f
  BY DEF Rows
<1>2. \A w \in DOMAIN f : /\ r[w].size = f[w].size /\ r[w].stamp = Stamped(f[w])
                          /\ r[w].variants = Tagged(f[w].primary, DOMAIN f[w].made)
                          /\ r[w].regions = Regions(f, c, w)
  BY DEF Rows, Tagged
<1> HIDE DEF r
<1>3. Visible(r, open) = [w \in DOMAIN r |-> <<Size(r[w], w \in open), r[w].stamp, r[w].variants, r[w].regions>>]
  BY DEF Visible
<1>4. \A w \in DOMAIN f : Size(r[w], w \in open) = IF w \in open THEN -1 ELSE f[w].size
  BY <1>2 DEF Size
<1>5. /\ Visible(r, open) = [w \in DOMAIN Visible(r, open) |-> Visible(r, open)[w]]
      /\ DOMAIN Visible(r, open) = DOMAIN f
      /\ \A w \in DOMAIN f :
           Visible(r, open)[w] = <<IF w \in open THEN -1 ELSE f[w].size, Stamped(f[w]),
                           Tagged(f[w].primary, DOMAIN f[w].made), Regions(f, c, w)>>
  BY <1>1, <1>2, <1>3, <1>4
<1> QED BY <1>5 DEF r

(* A stamp of a WAV is 0 or one of its transcripts'. *)
LEMMA StampedIs ==
  ASSUME NEW wav, IsWav(wav)
  PROVE  \/ DOMAIN wav.made = {} /\ Stamped(wav) = 0
         \/ wav.primary \in DOMAIN wav.made /\ Stamped(wav) = wav.made[wav.primary]
<1>1. CASE DOMAIN wav.made = {}
  BY <1>1 DEF IsWav, Stamped
<1>2. CASE DOMAIN wav.made # {}
  <2>1. wav.primary \in DOMAIN wav.made /\ wav.primary # ""
    BY <1>2, ListingAssumption DEF IsWav
  <2> QED BY <2>1 DEF Stamped
<1> QED BY <1>1, <1>2

LEMMA TaggedGrows ==
  ASSUME NEW e, NEW D, NEW E, D \subseteq E
  PROVE  Tagged(e, D) \subseteq Tagged(e, E)
BY DEF Tagged

LEMMA TaggedType ==
  ASSUME NEW e, NEW D, D \subseteq Engines
  PROVE  Tagged(e, D) \in SUBSET (Engines \X BOOLEAN)
<1>1. \A x \in D : <<x, x = e>> \in Engines \X BOOLEAN
  <2> TAKE x \in D
  <2>1. CASE x = e
    BY <2>1
  <2>2. CASE x # e
    BY <2>2
  <2> QED BY <2>1, <2>2
<1> QED BY <1>1 DEF Tagged

(* The views of folders are Views. *)
LEMMA VisibleType ==
  ASSUME NEW f, NEW c, NEW open, IsFolder(f), DOMAIN c \subseteq ClipNames,
         NEW n, \A w \in DOMAIN f : Stamps(f[w], n)
  PROVE  Visible(Rows(f, c), open) \in Views
<1> DEFINE v == Visible(Rows(f, c), open)
<1>1. /\ v = [w \in DOMAIN v |-> v[w]]
      /\ DOMAIN v = DOMAIN f
      /\ \A w \in DOMAIN f :
           v[w] = <<IF w \in open THEN -1 ELSE f[w].size, Stamped(f[w]),
                    Tagged(f[w].primary, DOMAIN f[w].made), Regions(f, c, w)>>
  BY VisibleIs
<1> HIDE DEF v
<1>2. \A w \in DOMAIN f : v[w] \in Int \X Int \X (SUBSET (Engines \X BOOLEAN)) \X (SUBSET ClipNames)
  <2> TAKE w \in DOMAIN f
  <2>1. (IF w \in open THEN -1 ELSE f[w].size) \in Int
    <3>1. f[w].size \in Nat
      BY DEF IsFolder, IsWav
    <3> QED BY <3>1
  <2>2. Stamped(f[w]) \in Int
    <3>1. IsWav(f[w]) /\ Stamps(f[w], n)
      BY DEF IsFolder
    <3> QED BY <3>1, StampedIs DEF Stamps
  <2>3. Tagged(f[w].primary, DOMAIN f[w].made) \in SUBSET (Engines \X BOOLEAN)
    <3>1. DOMAIN f[w].made \subseteq Engines
      BY DEF IsFolder, IsWav
    <3> QED BY <3>1, TaggedType
  <2>4. Regions(f, c, w) \in SUBSET ClipNames
    BY DEF Regions
  <2>5. \A s \in Int, t \in Int, m \in SUBSET (Engines \X BOOLEAN), g \in SUBSET ClipNames :
          <<s, t, m, g>> \in Int \X Int \X (SUBSET (Engines \X BOOLEAN)) \X (SUBSET ClipNames)
    OBVIOUS
  <2>6. <<IF w \in open THEN -1 ELSE f[w].size, Stamped(f[w]),
          Tagged(f[w].primary, DOMAIN f[w].made), Regions(f, c, w)>>
          \in Int \X Int \X (SUBSET (Engines \X BOOLEAN)) \X (SUBSET ClipNames)
    BY <2>1, <2>2, <2>3, <2>4, <2>5
  <2> QED BY <1>1, <2>6
<1>3. v \in [DOMAIN f -> Int \X Int \X (SUBSET (Engines \X BOOLEAN)) \X (SUBSET ClipNames)]
  BY <1>1, <1>2
<1>4. DOMAIN f \in SUBSET DOMAIN Recordings
  BY DEF IsFolder
<1> QED BY <1>3, <1>4 DEF Views, v

(* A digest that is not the empty one tells the brief of what is shown. *)
LEMMA DigestIs ==
  ASSUME NEW f, NEW c, NEW open, Digest(Rows(f, c), c, open) # <<>>
  PROVE  Digest(Rows(f, c), c, open)[1] = Brief(Visible(Rows(f, c), open))
<1> DEFINE r == Rows(f, c)
           v == Visible(r, open)
<1>1. Digest(r, c, open)
        = <<[w \in DOMAIN r |-> <<Size(r[w], w \in open), r[w].stamp, Cardinality(r[w].variants), r[w].regions>>],
            Cardinality(DOMAIN c)>>
  BY DEF Digest
<1>2. /\ DOMAIN v = DOMAIN r
      /\ \A w \in DOMAIN r : v[w] = <<Size(r[w], w \in open), r[w].stamp, r[w].variants, r[w].regions>>
  BY DEF Visible
<1> HIDE DEF r, v
<1>3. Brief(v)
        = [w \in DOMAIN r |-> <<Size(r[w], w \in open), r[w].stamp, Cardinality(r[w].variants), r[w].regions>>]
  BY <1>2 DEF Brief
<1>4. Digest(r, c, open)[1] = Brief(v)
  BY <1>1, <1>3
<1> QED BY <1>4 DEF r, v

(* What Append does. *)
LEMMA Appended ==
  ASSUME NEW S, NEW s \in Seq(S), NEW v \in S
  PROVE  /\ Append(s, v) \in Seq(S)
         /\ Len(Append(s, v)) = Len(s) + 1
         /\ Append(s, v)[Len(s) + 1] = v
         /\ \A i \in 1..Len(s) : Append(s, v)[i] = s[i]
  OBVIOUS

-----------------------------------------------------------------------------
(* How a WAV may come of the folder: without transcripts, or with those it *)
(* had and at most one of this change.                                     *)
Lineage(w, x) ==
  \/ DOMAIN x.made = {}
  \/ /\ w \in DOMAIN folder /\ DOMAIN folder[w].made \subseteq DOMAIN x.made
     /\ \A e \in DOMAIN x.made :
          \/ e \in DOMAIN folder[w].made /\ x.made[e] = folder[w].made[e]
          \/ x.made[e] = Version
     /\ \A d, e \in DOMAIN x.made : x.made[d] = Version /\ x.made[e] = Version => d = e

LEMMA LineageStamps ==
  ASSUME WInv, NEW w, NEW x, IsWav(x), Lineage(w, x)
  PROVE  Stamps(x, Len(past) + 1)
<1>1. Len(past) \in Nat /\ Version = Len(past) + 1
  BY DEF WInv, ListingTypeOK, Version
<1>2. CASE DOMAIN x.made = {}
  BY <1>2 DEF Stamps
<1>3. CASE DOMAIN x.made # {}
  <2>1. /\ w \in DOMAIN folder
        /\ \A e \in DOMAIN x.made :
             \/ e \in DOMAIN folder[w].made /\ x.made[e] = folder[w].made[e]
             \/ x.made[e] = Len(past) + 1
        /\ \A d, e \in DOMAIN x.made : x.made[d] = Len(past) + 1 /\ x.made[e] = Len(past) + 1 => d = e
    BY <1>1, <1>3 DEF Lineage
  <2>2. Stamps(folder[w], Len(past))
    BY <2>1 DEF WInv, StampsArePast
  <2> DEFINE n == Len(past)
             g == folder[w].made
  <2> HIDE DEF n, g
  <2>3. /\ n \in Nat /\ \A e \in DOMAIN g : g[e] \in Int \ {0} /\ g[e] <= n
        /\ \A d, e \in DOMAIN g : g[d] = g[e] => d = e
    BY <1>1, <2>2 DEF Stamps, n, g
  <2>4. /\ \A e \in DOMAIN x.made : (e \in DOMAIN g /\ x.made[e] = g[e]) \/ x.made[e] = n + 1
        /\ \A d, e \in DOMAIN x.made : x.made[d] = n + 1 /\ x.made[e] = n + 1 => d = e
    BY <2>1 DEF n, g
  <2>5. \A e \in DOMAIN x.made : x.made[e] \in Int \ {0} /\ x.made[e] <= n + 1
    BY <2>3, <2>4
  <2>6. \A d, e \in DOMAIN x.made : x.made[d] = x.made[e] => d = e
    BY <2>3, <2>4
  <2> QED BY <2>5, <2>6 DEF Stamps, n
<1> QED BY <1>2, <1>3

(* A stamp that a WAV keeps is of a transcript it had, and one of a change *)
(* that is over.                                                           *)
LEMMA LineageStays ==
  ASSUME WInv, NEW w, NEW x, IsWav(x), Lineage(w, x),
         NEW i \in 1..Len(past), w \in DOMAIN past[i],
         NEW e \in DOMAIN x.made, past[i][w][2] = x.made[e]
  PROVE  past[i][w][3] \subseteq Tagged(e, DOMAIN x.made)
<1>1. Len(past) \in Nat /\ Version = Len(past) + 1
  BY DEF WInv, ListingTypeOK, Version
<1>2. past[i][w][2] <= Len(past)
  BY DEF WInv, StampsArePast
<1>3. x.made[e] # Version
  <2>1. past \in Seq(Views)
    BY DEF WInv, ListingTypeOK
  <2>2. past[i] \in Views
    BY <2>1
  <2>3. past[i][w][2] \in Int
    BY <2>2 DEF Views
  <2> QED BY <1>1, <1>2, <2>3
<1>4. /\ w \in DOMAIN folder /\ e \in DOMAIN folder[w].made
      /\ x.made[e] = folder[w].made[e]
      /\ DOMAIN folder[w].made \subseteq DOMAIN x.made
  BY <1>3 DEF Lineage
<1>5. past[i][w][3] \subseteq Tagged(e, DOMAIN folder[w].made)
  BY <1>4 DEF WInv, StampsStay
<1> QED BY <1>4, <1>5, TaggedGrows

(* A change of the folder keeps what a digest says of it. *)
LEMMA ChangesKeep ==
  ASSUME WInv, NEW f, NEW c, Changes(f, c), IsFolder(f), DOMAIN c \subseteq ClipNames,
         \A w \in DOMAIN f : Lineage(w, f[w])
  PROVE  WInv'
<1> DEFINE n == Len(past)
           open == {w \in DOMAIN f : f[w].open}
           v == Visible(Rows(f, c), open)
<1>1. /\ folder' = f /\ clips' = c /\ past' = Append(past, v)
      /\ UNCHANGED <<blurred, polling, seen, listings, fetches, fires>>
  BY DEF Changes, Untouched
<1>2. n \in Nat /\ n >= 1 /\ past \in Seq(Views)
  BY DEF WInv, ListingTypeOK
<1>3. \A w \in DOMAIN f : IsWav(f[w]) /\ Stamps(f[w], n + 1)
  BY LineageStamps DEF IsFolder
<1>4. v \in Views
  BY <1>3, VisibleType
<1>5. /\ DOMAIN v = DOMAIN f
      /\ \A w \in DOMAIN f : v[w][2] = Stamped(f[w]) /\ v[w][3] = Tagged(f[w].primary, DOMAIN f[w].made)
  BY VisibleIs
<1> HIDE DEF n, v
<1>6. /\ past' \in Seq(Views) /\ Len(past') = n + 1
      /\ past'[n + 1] = v
      /\ \A i \in 1..n : past'[i] = past[i]
  BY <1>1, <1>2, <1>4, Appended DEF n
<1>7. ListingTypeOK'
  BY <1>1, <1>2, <1>6 DEF WInv, ListingTypeOK, IsFolder
<1>8. PastEndsNow'
  BY <1>1, <1>6 DEF PastEndsNow, OpenWavs, v
<1>9. \A w \in DOMAIN f : \/ DOMAIN f[w].made = {} /\ v[w][2] = 0
                          \/ f[w].primary \in DOMAIN f[w].made /\ v[w][2] = f[w].made[f[w].primary]
  BY <1>3, <1>5, StampedIs
<1>10. StampsArePast'
  <2>1. \A w \in DOMAIN f : v[w][2] <= n + 1 /\ (v[w][2] = 0 => v[w][3] = {})
    <3> TAKE w \in DOMAIN f
    <3>1. CASE DOMAIN f[w].made = {} /\ v[w][2] = 0
      <4>1. v[w][3] = {}
        BY <3>1, <1>5 DEF Tagged
      <4> QED BY <3>1, <4>1, <1>2
    <3>2. CASE f[w].primary \in DOMAIN f[w].made /\ v[w][2] = f[w].made[f[w].primary]
      BY <3>2, <1>3 DEF Stamps
    <3> QED BY <1>9, <3>1, <3>2
  <2>2. \A i \in 1..n : \A w \in DOMAIN past[i] :
          past[i][w][2] <= n /\ past[i][w][2] \in Int /\ (past[i][w][2] = 0 => past[i][w][3] = {})
    <3>1. \A i \in 1..n : past[i] \in Views
      BY <1>2 DEF n
    <3>2. \A i \in 1..n : \A w \in DOMAIN past[i] : past[i][w][2] \in Int
      BY <3>1 DEF Views
    <3> QED BY <3>2 DEF WInv, StampsArePast, n
  <2>3. \A i \in 1..(n + 1) : \A w \in DOMAIN past'[i] :
          past'[i][w][2] <= n + 1 /\ (past'[i][w][2] = 0 => past'[i][w][3] = {})
    <3> TAKE i \in 1..(n + 1)
    <3>1. CASE i = n + 1
      BY <3>1, <1>5, <1>6, <2>1
    <3>2. CASE i # n + 1
      <4>1. i \in 1..n
        BY <3>2, <1>2
      <4> QED BY <4>1, <1>2, <1>6, <2>2
    <3> QED BY <3>1, <3>2
  <2> QED BY <1>1, <1>3, <1>6, <2>3 DEF StampsArePast
<1>11. StampsStay'
  <2>1. \A i \in 1..n : \A w \in DOMAIN past[i] \cap DOMAIN f : \A e \in DOMAIN f[w].made :
          past[i][w][2] = f[w].made[e] => past[i][w][3] \subseteq Tagged(e, DOMAIN f[w].made)
    BY <1>3, LineageStays DEF n
  <2>2. \A w \in DOMAIN f : \A e \in DOMAIN f[w].made :
          v[w][2] = f[w].made[e] => v[w][3] \subseteq Tagged(e, DOMAIN f[w].made)
    <3> TAKE w \in DOMAIN f
    <3> TAKE e \in DOMAIN f[w].made
    <3> HAVE v[w][2] = f[w].made[e]
    <3>1. f[w].primary \in DOMAIN f[w].made /\ f[w].made[e] = f[w].made[f[w].primary]
      BY <1>9
    <3>2. e = f[w].primary
      BY <3>1, <1>3 DEF Stamps
    <3> QED BY <3>2, <1>5
  <2>3. \A i \in 1..(n + 1) : \A w \in DOMAIN past'[i] \cap DOMAIN f : \A e \in DOMAIN f[w].made :
          past'[i][w][2] = f[w].made[e] => past'[i][w][3] \subseteq Tagged(e, DOMAIN f[w].made)
    <3> TAKE i \in 1..(n + 1)
    <3>1. CASE i = n + 1
      BY <3>1, <1>6, <2>2
    <3>2. CASE i # n + 1
      <4>1. i \in 1..n
        BY <3>2, <1>2
      <4> QED BY <4>1, <1>6, <2>1
    <3> QED BY <3>1, <3>2
  <2> QED BY <1>1, <1>6, <2>3 DEF StampsStay
<1>12. PastGrows'
  <2>1. \A i \in 1..(n + 1) : \A w \in DOMAIN past'[i] \cap DOMAIN v :
          past'[i][w][2] = v[w][2] => past'[i][w][3] \subseteq v[w][3]
    <3> TAKE i \in 1..(n + 1)
    <3> TAKE w \in DOMAIN past'[i] \cap DOMAIN v
    <3> HAVE past'[i][w][2] = v[w][2]
    <3>1. CASE DOMAIN f[w].made = {} /\ v[w][2] = 0
      <4>1. past'[i][w][3] = {}
        BY <3>1, <1>6, <1>10 DEF StampsArePast
      <4> QED BY <4>1
    <3>2. CASE f[w].primary \in DOMAIN f[w].made /\ v[w][2] = f[w].made[f[w].primary]
      <4>1. past'[i][w][3] \subseteq Tagged(f[w].primary, DOMAIN f[w].made)
        BY <3>2, <1>1, <1>5, <1>6, <1>11 DEF StampsStay
      <4> QED BY <4>1, <1>5
    <3> QED BY <3>1, <3>2, <1>5, <1>9
  <2>2. \A i, k \in 1..(n + 1) : i <= k =>
          \A w \in DOMAIN past'[i] \cap DOMAIN past'[k] :
            past'[i][w][2] = past'[k][w][2] => past'[i][w][3] \subseteq past'[k][w][3]
    <3> TAKE i, k \in 1..(n + 1)
    <3> HAVE i <= k
    <3>1. CASE k = n + 1
      BY <3>1, <1>6, <2>1
    <3>2. CASE k # n + 1
      <4>1. i \in 1..n /\ k \in 1..n
        BY <3>2, <1>2
      <4> QED BY <4>1, <1>6 DEF WInv, PastGrows, n
    <3> QED BY <3>1, <3>2
  <2> QED BY <1>6, <2>2 DEF PastGrows
<1>13. \A sig : TakenOf(sig) => TakenOf(sig)'
  <2> TAKE sig
  <2> HAVE TakenOf(sig)
  <2>1. PICK i \in 1..n : sig[1] = Brief(past[i])
    BY DEF TakenOf, n
  <2>2. i \in 1..(n + 1) /\ past'[i] = past[i]
    BY <1>2, <1>6
  <2>3. sig[1] = Brief(past'[i])
    BY <2>1, <2>2
  <2> QED BY <1>6, <2>2, <2>3 DEF TakenOf, Brief
<1>14. \A sig, rows : WalkedAfter(sig, rows) => WalkedAfter(sig, rows)'
  <2> TAKE sig, rows
  <2> HAVE WalkedAfter(sig, rows)
  <2>1. PICK i \in 1..n : \E j \in i..n : sig[1] = Brief(past[i]) /\ past[j] = Visible(rows, Masked(past[j]))
    BY DEF WalkedAfter, n
  <2>2. PICK j \in i..n : sig[1] = Brief(past[i]) /\ past[j] = Visible(rows, Masked(past[j]))
    BY <2>1
  <2>3. i \in 1..(n + 1) /\ j \in i..(n + 1) /\ past'[i] = past[i] /\ past'[j] = past[j]
    BY <1>2, <1>6
  <2>4. sig[1] = Brief(past'[i]) /\ past'[j] = Visible(rows, Masked(past'[j]))
    BY <2>2, <2>3
  <2> QED BY <1>6, <2>3, <2>4 DEF WalkedAfter
<1>15. SeenIsTaken' /\ FetchesFollow' /\ ListingsFollow'
  BY <1>1, <1>13, <1>14 DEF WInv, SeenIsTaken, FetchesFollow, ListingsFollow
<1> QED BY <1>7, <1>8, <1>10, <1>11, <1>12, <1>15 DEF WInv

-----------------------------------------------------------------------------
(* The list starts out telling the truth. *)
LEMMA InitListing == WInit => WInv
<1> SUFFICES ASSUME WInit PROVE WInv
  OBVIOUS
<1> DEFINE v == Visible(Rows(folder, clips), OpenWavs)
<1>1. /\ folder \in Folders /\ clips = <<>> /\ blurred = FALSE /\ past = <<v>>
      /\ seen = <<>> /\ listings = <<>> /\ fetches = {}
  BY DEF WInit
<1>2. IsFolder(folder) /\ \A w \in DOMAIN folder : IsWav(folder[w]) /\ Stamps(folder[w], 1)
  BY <1>1, FoldersAssumption DEF IsFolder
<1>3. DOMAIN clips \subseteq ClipNames /\ DOMAIN listings = {}
  BY <1>1
<1>4. v \in Views
  BY <1>2, <1>3, VisibleType
<1>5. /\ DOMAIN v = DOMAIN folder
      /\ \A w \in DOMAIN folder :
           v[w][2] = Stamped(folder[w]) /\ v[w][3] = Tagged(folder[w].primary, DOMAIN folder[w].made)
  BY VisibleIs
<1>6. past[Len(past)] = v /\ PastEndsNow
  BY <1>1 DEF PastEndsNow
<1> HIDE DEF v
<1>7. past \in Seq(Views) /\ Len(past) = 1 /\ past[1] = v
  BY <1>1, <1>4
<1>8. ListingTypeOK
  <2>1. Len(past) >= 1
    BY <1>7
  <2>2. blurred \in BOOLEAN /\ fetches = {}
    BY <1>1
  <2> QED BY <1>2, <1>3, <1>7, <2>1, <2>2 DEF ListingTypeOK
<1>9. \A w \in DOMAIN folder :
        \/ DOMAIN folder[w].made = {} /\ v[w][2] = 0
        \/ /\ folder[w].primary \in DOMAIN folder[w].made
           /\ v[w][2] = folder[w].made[folder[w].primary]
  BY <1>2, <1>5, StampedIs
<1>10. StampsArePast
  <2>1. \A w \in DOMAIN folder : v[w][2] <= 1 /\ (v[w][2] = 0 => v[w][3] = {})
    <3> TAKE w \in DOMAIN folder
    <3>1. CASE DOMAIN folder[w].made = {} /\ v[w][2] = 0
      <4>1. v[w][3] = {}
        BY <3>1, <1>5 DEF Tagged
      <4> QED BY <3>1, <4>1
    <3>2. CASE folder[w].primary \in DOMAIN folder[w].made /\ v[w][2] = folder[w].made[folder[w].primary]
      BY <3>2, <1>2 DEF Stamps
    <3> QED BY <1>9, <3>1, <3>2
  <2> QED BY <1>2, <1>5, <1>7, <2>1 DEF StampsArePast
<1>11. StampsStay
  <2>1. \A w \in DOMAIN folder : \A e \in DOMAIN folder[w].made :
          v[w][2] = folder[w].made[e] => v[w][3] \subseteq Tagged(e, DOMAIN folder[w].made)
    <3> TAKE w \in DOMAIN folder
    <3> TAKE e \in DOMAIN folder[w].made
    <3> HAVE v[w][2] = folder[w].made[e]
    <3>1. folder[w].primary \in DOMAIN folder[w].made /\ folder[w].made[e] = folder[w].made[folder[w].primary]
      BY <1>9
    <3>2. e = folder[w].primary
      BY <3>1, <1>2 DEF Stamps
    <3> QED BY <3>2, <1>5
  <2> QED BY <1>5, <1>7, <2>1 DEF StampsStay
<1>12. PastGrows
  BY <1>7 DEF PastGrows
<1>13. SeenIsTaken /\ FetchesFollow /\ ListingsFollow
  BY <1>1, <1>3 DEF SeenIsTaken, FetchesFollow, ListingsFollow
<1> QED BY <1>6, <1>8, <1>10, <1>11, <1>12, <1>13 DEF WInv

-----------------------------------------------------------------------------
(* A WAV that keeps its transcripts comes of the folder. *)
LEMMA SameTranscripts ==
  ASSUME WInv, NEW w \in DOMAIN folder, NEW x, x.made = folder[w].made
  PROVE  Lineage(w, x)
<1>1. Len(past) \in Nat /\ Version = Len(past) + 1
  BY DEF WInv, ListingTypeOK, Version
<1>2. Stamps(folder[w], Len(past))
  BY DEF WInv, StampsArePast
<1>3. \A e \in DOMAIN x.made : x.made[e] # Version
  BY <1>1, <1>2 DEF Stamps
<1> QED BY <1>3 DEF Lineage

(* One WAV of the folder is new, or another. *)
LEMMA WithIsFolder ==
  ASSUME WInv, NEW w \in DOMAIN Recordings, NEW wav, IsWav(wav), Lineage(w, wav)
  PROVE  /\ IsFolder(With(w, wav))
         /\ \A v \in DOMAIN With(w, wav) : Lineage(v, With(w, wav)[v])
<1> DEFINE f == With(w, wav)
<1>1. /\ f = [v \in DOMAIN f |-> f[v]] /\ DOMAIN f = DOMAIN folder \cup {w}
      /\ f[w] = wav /\ \A v \in DOMAIN folder : v # w => f[v] = folder[v]
  BY DEF With, Having
<1> HIDE DEF f
<1>2. IsFolder(folder)
  BY DEF WInv, ListingTypeOK
<1>3. IsFolder(f)
  BY <1>1, <1>2 DEF IsFolder
<1>4. \A v \in DOMAIN f : Lineage(v, f[v])
  <2> TAKE v \in DOMAIN f
  <2>1. CASE v = w
    BY <2>1, <1>1
  <2>2. CASE v # w
    <3>1. v \in DOMAIN folder /\ f[v] = folder[v]
      BY <2>2, <1>1
    <3>2. f[v].made = folder[v].made
      BY <3>1
    <3> QED BY <3>1, <3>2, SameTranscripts
  <2> QED BY <2>1, <2>2
<1> QED BY <1>3, <1>4 DEF f

(* So it goes on when one WAV is put. *)
LEMMA WavPutKeeps ==
  ASSUME WInv, NEW w \in DOMAIN Recordings, NEW wav, IsWav(wav), Lineage(w, wav),
         Changes(With(w, wav), clips)
  PROVE  WInv'
<1>1. DOMAIN clips \subseteq ClipNames
  BY DEF WInv, ListingTypeOK
<1> QED BY <1>1, WithIsFolder, ChangesKeep

(* And when one goes. *)
LEMMA DropKeeps ==
  ASSUME WInv, NEW w, Changes([v \in DOMAIN folder \ {w} |-> folder[v]], clips)
  PROVE  WInv'
<1> DEFINE f == [v \in DOMAIN folder \ {w} |-> folder[v]]
<1>1. /\ f = [v \in DOMAIN f |-> f[v]] /\ DOMAIN f \subseteq DOMAIN folder
      /\ \A v \in DOMAIN f : f[v] = folder[v]
  OBVIOUS
<1>2. Changes(f, clips)
  OBVIOUS
<1> HIDE DEF f
<1>3. IsFolder(folder) /\ DOMAIN clips \subseteq ClipNames
  BY DEF WInv, ListingTypeOK
<1>4. IsFolder(f)
  BY <1>1, <1>3 DEF IsFolder
<1>5. \A v \in DOMAIN f : Lineage(v, f[v])
  BY <1>1, SameTranscripts
<1> QED BY <1>2, <1>3, <1>4, <1>5, ChangesKeep

(* And when only the clips are others. *)
LEMMA ClipsKeep ==
  ASSUME WInv, NEW c, DOMAIN c \subseteq ClipNames, Changes(folder, c)
  PROVE  WInv'
<1>1. IsFolder(folder)
  BY DEF WInv, ListingTypeOK
<1>2. \A v \in DOMAIN folder : Lineage(v, folder[v])
  BY SameTranscripts
<1> QED BY <1>1, <1>2, ChangesKeep

(* A WAV with one field changed. *)
LEMMA Changed ==
  ASSUME NEW wav, IsWav(wav), NEW e, NEW x
  PROVE  /\ [wav EXCEPT !.size = x]
              = [size |-> x, open |-> wav.open, made |-> wav.made, primary |-> wav.primary]
         /\ [wav EXCEPT !.open = x]
              = [size |-> wav.size, open |-> x, made |-> wav.made, primary |-> wav.primary]
         /\ [wav EXCEPT !.primary = e]
              = [size |-> wav.size, open |-> wav.open, made |-> wav.made, primary |-> e]
<1>1. PICK a, b, c, d : /\ a = wav.size /\ b = wav.open /\ c = wav.made /\ d = wav.primary
                        /\ wav = [size |-> a, open |-> b, made |-> c, primary |-> d]
  BY DEF IsWav
<1>2. [wav EXCEPT !.size = x] = [size |-> x, open |-> b, made |-> c, primary |-> d]
  BY <1>1
<1>3. [wav EXCEPT !.open = x] = [size |-> a, open |-> x, made |-> c, primary |-> d]
  BY <1>1
<1>4. [wav EXCEPT !.primary = e] = [size |-> a, open |-> b, made |-> c, primary |-> e]
  BY <1>1
<1> QED BY <1>1, <1>2, <1>3, <1>4

(* What makes a WAV. *)
LEMMA MakeWav ==
  ASSUME NEW s \in Nat, NEW o \in BOOLEAN, NEW m, NEW p,
         m = [e \in DOMAIN m |-> m[e]], DOMAIN m \subseteq Engines,
         DOMAIN m = {} => p = "", DOMAIN m # {} => p \in DOMAIN m
  PROVE  IsWav([size |-> s, open |-> o, made |-> m, primary |-> p])
<1> DEFINE x == [size |-> s, open |-> o, made |-> m, primary |-> p]
<1>1. x.size = s /\ x.open = o /\ x.made = m /\ x.primary = p
  OBVIOUS
<1>2. x = [size |-> x.size, open |-> x.open, made |-> x.made, primary |-> x.primary]
  BY <1>1
<1> HIDE DEF x
<1>3. IF DOMAIN x.made = {} THEN x.primary = "" ELSE x.primary \in DOMAIN x.made
  BY <1>1
<1>4. x.made = [e \in DOMAIN x.made |-> x.made[e]] /\ DOMAIN x.made \subseteq Engines
  BY <1>1
<1>5. x.size \in Nat /\ x.open \in BOOLEAN
  BY <1>1
<1>6. IsWav(x)
  BY <1>2, <1>3, <1>4, <1>5 DEF IsWav
<1> QED BY <1>6 DEF x

(* A WAV of the folder with another size or state, or another primary. *)
LEMMA Resized ==
  ASSUME WInv, NEW w \in DOMAIN folder
  PROVE  LET wav == folder[w]
             longer == [wav EXCEPT !.size = @ + 1]
             closed == [wav EXCEPT !.open = FALSE]
             opened == [wav EXCEPT !.open = TRUE]
         IN  /\ IsWav(longer) /\ longer.made = wav.made
             /\ IsWav(closed) /\ closed.made = wav.made
             /\ IsWav(opened) /\ opened.made = wav.made
             /\ \A e \in DOMAIN wav.made :
                  IsWav([wav EXCEPT !.primary = e]) /\ [wav EXCEPT !.primary = e].made = wav.made
<1>1. IsWav(folder[w])
  BY DEF WInv, ListingTypeOK, IsFolder
<1> DEFINE wav == folder[w]
<1>2. IsWav(wav)
  BY <1>1
<1> HIDE DEF wav
<1>3. /\ wav = [size |-> wav.size, open |-> wav.open, made |-> wav.made, primary |-> wav.primary]
      /\ wav.size \in Nat /\ wav.open \in BOOLEAN
      /\ wav.made = [e \in DOMAIN wav.made |-> wav.made[e]] /\ DOMAIN wav.made \subseteq Engines
      /\ DOMAIN wav.made = {} => wav.primary = ""
      /\ DOMAIN wav.made # {} => wav.primary \in DOMAIN wav.made
  BY <1>2 DEF IsWav
<1>4. IsWav([wav EXCEPT !.size = @ + 1]) /\ [wav EXCEPT !.size = @ + 1].made = wav.made
  <2>1. [wav EXCEPT !.size = @ + 1] = [size |-> wav.size + 1, open |-> wav.open, made |-> wav.made, primary |-> wav.primary]
    BY <1>2, Changed
  <2>2. IsWav([size |-> wav.size + 1, open |-> wav.open, made |-> wav.made, primary |-> wav.primary])
    <3>1. wav.size \in Nat
      BY <1>2 DEF IsWav
    <3>2. wav.size + 1 \in Nat
      BY <3>1
    <3> QED BY <1>3, <3>2, MakeWav
  <2> QED BY <2>1, <2>2
<1>5. IsWav([wav EXCEPT !.open = FALSE]) /\ [wav EXCEPT !.open = FALSE].made = wav.made
  <2>1. [wav EXCEPT !.open = FALSE] = [size |-> wav.size, open |-> FALSE, made |-> wav.made, primary |-> wav.primary]
    BY <1>2, Changed
  <2>2. IsWav([size |-> wav.size, open |-> FALSE, made |-> wav.made, primary |-> wav.primary])
    BY <1>3, MakeWav
  <2> QED BY <2>1, <2>2
<1>6. IsWav([wav EXCEPT !.open = TRUE]) /\ [wav EXCEPT !.open = TRUE].made = wav.made
  <2>1. [wav EXCEPT !.open = TRUE] = [size |-> wav.size, open |-> TRUE, made |-> wav.made, primary |-> wav.primary]
    BY <1>2, Changed
  <2>2. IsWav([size |-> wav.size, open |-> TRUE, made |-> wav.made, primary |-> wav.primary])
    BY <1>3, MakeWav
  <2> QED BY <2>1, <2>2
<1>7. \A e \in DOMAIN wav.made :
        IsWav([wav EXCEPT !.primary = e]) /\ [wav EXCEPT !.primary = e].made = wav.made
  <2> TAKE e \in DOMAIN wav.made
  <2>1. [wav EXCEPT !.primary = e] = [size |-> wav.size, open |-> wav.open, made |-> wav.made, primary |-> e]
    BY <1>2, Changed
  <2>2. IsWav([size |-> wav.size, open |-> wav.open, made |-> wav.made, primary |-> e])
    BY <1>3, MakeWav
  <2> QED BY <2>1, <2>2
<1> QED BY <1>4, <1>5, <1>6, <1>7 DEF wav

(* A tap opens a WAV. *)
LEMMA TapOpensKeeps ==
  ASSUME WInv, NEW w \in DOMAIN Recordings, TapOpens(w)
  PROVE  WInv'
<1> DEFINE wav == [size |-> 0, open |-> TRUE, made |-> <<>>, primary |-> ""]
<1>1. DOMAIN wav.made = {} /\ wav.made = [e \in DOMAIN wav.made |-> wav.made[e]]
  OBVIOUS
<1>2. IsWav(wav)
  BY <1>1 DEF IsWav
<1>3. Lineage(w, wav)
  BY <1>1 DEF Lineage
<1>4. Changes(With(w, wav), clips)
  BY DEF TapOpens
<1> QED BY <1>2, <1>3, <1>4, WavPutKeeps

(* A tap appends to it. *)
LEMMA TapWritesKeeps ==
  ASSUME WInv, NEW w \in DOMAIN Recordings, TapWrites(w)
  PROVE  WInv'
<1>1. w \in DOMAIN folder
  BY DEF TapWrites, OpenWavs
<1>2. IsWav([folder[w] EXCEPT !.size = @ + 1]) /\ [folder[w] EXCEPT !.size = @ + 1].made = folder[w].made
  BY <1>1, Resized
<1>3. Lineage(w, [folder[w] EXCEPT !.size = @ + 1])
  BY <1>1, <1>2, SameTranscripts
<1>4. Changes(With(w, [folder[w] EXCEPT !.size = @ + 1]), clips)
  BY DEF TapWrites
<1> QED BY <1>2, <1>3, <1>4, WavPutKeeps

(* A tap closes it. *)
LEMMA TapClosesKeeps ==
  ASSUME WInv, NEW w \in DOMAIN Recordings, TapCloses(w)
  PROVE  WInv'
<1>1. w \in DOMAIN folder
  BY DEF TapCloses, OpenWavs
<1>2. IsWav([folder[w] EXCEPT !.open = FALSE]) /\ [folder[w] EXCEPT !.open = FALSE].made = folder[w].made
  BY <1>1, Resized
<1>3. Lineage(w, [folder[w] EXCEPT !.open = FALSE])
  BY <1>1, <1>2, SameTranscripts
<1>4. CASE folder[w].size = 0
  <2>1. Changes([v \in DOMAIN folder \ {w} |-> folder[v]], clips)
    BY <1>4 DEF TapCloses
  <2> QED BY <2>1, DropKeeps
<1>5. CASE folder[w].size # 0
  <2>1. Changes(With(w, [folder[w] EXCEPT !.open = FALSE]), clips)
    BY <1>5 DEF TapCloses
  <2> QED BY <1>2, <1>3, <2>1, WavPutKeeps
<1> QED BY <1>4, <1>5

(* A tap comes back to it. *)
LEMMA TapReopensKeeps ==
  ASSUME WInv, NEW w \in DOMAIN Recordings, TapReopens(w)
  PROVE  WInv'
<1>1. w \in DOMAIN folder
  BY DEF TapReopens
<1>2. IsWav([folder[w] EXCEPT !.open = TRUE]) /\ [folder[w] EXCEPT !.open = TRUE].made = folder[w].made
  BY <1>1, Resized
<1>3. Lineage(w, [folder[w] EXCEPT !.open = TRUE])
  BY <1>1, <1>2, SameTranscripts
<1>4. Changes(With(w, [folder[w] EXCEPT !.open = TRUE]), clips)
  BY DEF TapReopens
<1> QED BY <1>2, <1>3, <1>4, WavPutKeeps

(* Its primary is another one. *)
LEMMA IsRepointedKeeps ==
  ASSUME WInv, NEW w \in DOMAIN Recordings, NEW e, IsRepointed(w, e)
  PROVE  WInv'
<1>1. w \in DOMAIN folder /\ e \in DOMAIN folder[w].made
  BY DEF IsRepointed
<1>2. IsWav([folder[w] EXCEPT !.primary = e]) /\ [folder[w] EXCEPT !.primary = e].made = folder[w].made
  BY <1>1, Resized
<1>3. Lineage(w, [folder[w] EXCEPT !.primary = e])
  BY <1>1, <1>2, SameTranscripts
<1>4. Changes(With(w, [folder[w] EXCEPT !.primary = e]), clips)
  BY DEF IsRepointed
<1> QED BY <1>2, <1>3, <1>4, WavPutKeeps

(* It is transcribed. *)
LEMMA IsTranscribedKeeps ==
  ASSUME WInv, NEW w \in DOMAIN Recordings, NEW e \in Engines, IsTranscribed(w, e)
  PROVE  WInv'
<1>1. w \in DOMAIN folder
  BY DEF IsTranscribed
<1> DEFINE g == folder[w]
           x == [g EXCEPT !.made = Having(@, e, Version), !.primary = e]
<1>2. Changes(With(w, x), clips)
  BY DEF IsTranscribed
<1>3. IsWav(g)
  BY <1>1 DEF WInv, ListingTypeOK, IsFolder
<1>4. Len(past) \in Nat /\ Version = Len(past) + 1 /\ Version \in Int
  BY DEF WInv, ListingTypeOK, Version
<1>5. Stamps(g, Len(past))
  BY <1>1 DEF WInv, StampsArePast
<1>6. /\ x = [size |-> g.size, open |-> g.open, made |-> Having(g.made, e, Version), primary |-> e]
      /\ g.size \in Nat /\ g.open \in BOOLEAN /\ DOMAIN g.made \subseteq Engines
  <2>1. x = [size |-> g.size, open |-> g.open, made |-> Having(g.made, e, Version), primary |-> e]
    <3> DEFINE h == Having(g.made, e, Version)
    <3>1. x = [g EXCEPT !.made = h, !.primary = e]
      OBVIOUS
    <3> HIDE DEF h, x, g
    <3>2. PICK a, b, c, d : /\ a = g.size /\ b = g.open /\ c = g.made /\ d = g.primary
                            /\ g = [size |-> a, open |-> b, made |-> c, primary |-> d]
      BY <1>3 DEF IsWav
    <3> DEFINE q == [size |-> a, open |-> b, made |-> c, primary |-> d]
    <3>3. DOMAIN q = {"size", "open", "made", "primary"}
      OBVIOUS
    <3>4. [q EXCEPT !.made = h, !.primary = e]
            = [f \in {"size", "open", "made", "primary"} |->
                 IF f = "primary" THEN e ELSE IF f = "made" THEN h ELSE q[f]]
      BY <3>3
    <3>5. [q EXCEPT !.made = h, !.primary = e] = [size |-> a, open |-> b, made |-> h, primary |-> e]
      BY <3>4
    <3>6. x = [size |-> a, open |-> b, made |-> h, primary |-> e]
      BY <3>1, <3>2, <3>5
    <3> QED BY <3>2, <3>6 DEF h
  <2>2. g.size \in Nat /\ g.open \in BOOLEAN /\ DOMAIN g.made \subseteq Engines
    BY <1>3 DEF IsWav
  <2> QED BY <2>1, <2>2
<1>7. /\ DOMAIN Having(g.made, e, Version) = DOMAIN g.made \cup {e}
      /\ Having(g.made, e, Version)
           = [y \in DOMAIN Having(g.made, e, Version) |-> Having(g.made, e, Version)[y]]
      /\ Having(g.made, e, Version)[e] = Version
      /\ \A d \in DOMAIN g.made : d # e => Having(g.made, e, Version)[d] = g.made[d]
  BY DEF Having
<1> HIDE DEF x
<1>8. x.made = Having(g.made, e, Version) /\ x.primary = e /\ x.size = g.size /\ x.open = g.open
  BY <1>6
<1>9. IsWav(x)
  <2> DEFINE m == Having(g.made, e, Version)
  <2>1. /\ m = [y \in DOMAIN m |-> m[y]] /\ DOMAIN m \subseteq Engines
        /\ DOMAIN m # {} /\ e \in DOMAIN m
    BY <1>6, <1>7
  <2> HIDE DEF m
  <2>2. IsWav([size |-> g.size, open |-> g.open, made |-> m, primary |-> e])
    BY <1>6, <2>1, MakeWav
  <2> QED BY <1>6, <2>2 DEF m
<1>10. Lineage(w, x)
  <2>1. \A d \in DOMAIN x.made : (d \in DOMAIN g.made /\ x.made[d] = g.made[d]) \/ x.made[d] = Version
    BY <1>7, <1>8
  <2>2. \A d \in DOMAIN x.made : x.made[d] = Version => d = e
    BY <1>4, <1>5, <1>7, <1>8 DEF Stamps
  <2> QED BY <1>1, <1>7, <1>8, <2>1, <2>2 DEF Lineage
<1> QED BY <1>2, <1>9, <1>10, WavPutKeeps

(* The session is stripped, or its strip cleared; a WAV is deleted. *)
LEMMA StripsKeep ==
  ASSUME WInv, IsStripped \/ IsCleared
  PROVE  WInv'
<1>1. Version \in Nat
  BY DEF WInv, ListingTypeOK, Version
<1>2. CASE IsStripped
  <2> DEFINE cut == {w \in DOMAIN folder : folder[w].size > 0}
             c == [x \in cut \X {Version} |-> x[1]]
  <2>1. Changes(folder, c)
    BY <1>2 DEF IsStripped
  <2>2. DOMAIN folder \subseteq DOMAIN Recordings
    BY DEF WInv, ListingTypeOK, IsFolder
  <2>3. DOMAIN c \subseteq ClipNames
    BY <1>1, <2>2 DEF ClipNames
  <2> HIDE DEF c
  <2> QED BY <2>1, <2>3, ClipsKeep
<1>3. CASE IsCleared
  <2>1. Changes(folder, <<>>) /\ DOMAIN <<>> \subseteq ClipNames
    BY <1>3 DEF IsCleared
  <2> QED BY <2>1, ClipsKeep
<1> QED BY <1>2, <1>3

-----------------------------------------------------------------------------
(* Of the tab: the folder and its past stay. *)
LEMMA TabSteps ==
  ASSUME WInv, UNCHANGED <<folder, clips, past>>
  PROVE  /\ PastEndsNow' /\ StampsArePast' /\ StampsStay' /\ PastGrows'
         /\ \A sig : TakenOf(sig)' <=> TakenOf(sig)
         /\ \A sig, rows : WalkedAfter(sig, rows)' <=> WalkedAfter(sig, rows)
BY DEF WInv, PastEndsNow, StampsArePast, StampsStay, PastGrows, TakenOf, WalkedAfter, OpenWavs

(* What is on disk is the latest entry. *)
LEMMA NowIsTaken ==
  ASSUME WInv
  PROVE  /\ \A sig : sig # <<>> /\ sig = Digest(Rows(folder, clips), clips, OpenWavs)
                      => sig[1] = Brief(past[Len(past)])
         /\ past[Len(past)] = Visible(Rows(folder, clips), Masked(past[Len(past)]))
         /\ Masked(past[Len(past)]) = OpenWavs
<1>1. past[Len(past)] = Visible(Rows(folder, clips), OpenWavs)
  BY DEF WInv, PastEndsNow
<1>2. \A sig : sig # <<>> /\ sig = Digest(Rows(folder, clips), clips, OpenWavs)
              => sig[1] = Brief(past[Len(past)])
  BY <1>1, DigestIs
<1> DEFINE v == past[Len(past)]
<1>3. /\ DOMAIN v = DOMAIN folder
      /\ \A w \in DOMAIN folder : v[w][1] = IF w \in OpenWavs THEN -1 ELSE folder[w].size
  BY <1>1, VisibleIs
<1>4. \A w \in DOMAIN folder : folder[w].size \in Nat
  BY DEF WInv, ListingTypeOK, IsFolder, IsWav
<1>5. OpenWavs \subseteq DOMAIN folder
  BY DEF OpenWavs
<1> HIDE DEF v
<1>6. \A w \in DOMAIN folder : v[w][1] = -1 <=> w \in OpenWavs
  <2> TAKE w \in DOMAIN folder
  <2>1. CASE w \in OpenWavs
    BY <2>1, <1>3
  <2>2. CASE w \notin OpenWavs
    BY <2>2, <1>3, <1>4
  <2> QED BY <2>1, <2>2
<1>7. Masked(v) = OpenWavs
  BY <1>3, <1>5, <1>6 DEF Masked
<1> QED BY <1>1, <1>2, <1>7 DEF v

(* A poll starts, or answers. *)
LEMMA PollsKeep ==
  ASSUME WInv, PollStarts \/ PollAnswers
  PROVE  WInv'
<1>1. UNCHANGED <<folder, clips, past, listings, fetches>>
  BY DEF PollStarts, PollAnswers
<1>2. /\ PastEndsNow' /\ StampsArePast' /\ StampsStay' /\ PastGrows'
      /\ \A sig : TakenOf(sig)' <=> TakenOf(sig)
      /\ \A sig, rows : WalkedAfter(sig, rows)' <=> WalkedAfter(sig, rows)
  BY <1>1, TabSteps
<1>3. blurred' \in BOOLEAN /\ (~blurred' => ~blurred)
  BY DEF PollStarts, PollAnswers, WInv, ListingTypeOK
<1>4. ListingTypeOK' /\ FetchesFollow' /\ ListingsFollow'
  BY <1>1, <1>2, <1>3 DEF WInv, ListingTypeOK, IsFolder, FetchesFollow, ListingsFollow
<1>5. SeenIsTaken'
  <2>1. CASE PollStarts
    BY <2>1, <1>2 DEF PollStarts, WInv, SeenIsTaken
  <2>2. CASE PollAnswers
    <3>1. ASSUME NEW sig, seen' = sig, sig # <<>>, ~blurred'
          PROVE  TakenOf(sig)'
      <4>1. polling[1] = OpenWavs /\ seen' = Digest(Rows(folder, clips), clips, polling[1])
        BY <2>2, <3>1 DEF PollAnswers
      <4>2. sig = Digest(Rows(folder, clips), clips, OpenWavs)
        BY <4>1, <3>1
      <4>3. sig[1] = Brief(past[Len(past)])
        BY <4>2, <3>1, NowIsTaken
      <4>4. Len(past) \in 1..Len(past)
        BY DEF WInv, ListingTypeOK
      <4>5. TakenOf(sig)
        BY <4>3, <4>4 DEF TakenOf
      <4> QED BY <1>2, <4>5
    <3> QED BY <3>1 DEF SeenIsTaken, TakenOf
  <2> QED BY <2>1, <2>2
<1> QED BY <1>2, <1>4, <1>5 DEF WInv

(* A fetch is fired. *)
LEMMA FetchesKeeps ==
  ASSUME WInv, Fetches
  PROVE  WInv'
<1>1. UNCHANGED <<folder, clips, past, blurred, seen, listings>> /\ seen # <<>>
  BY DEF Fetches
<1>2. /\ PastEndsNow' /\ StampsArePast' /\ StampsStay' /\ PastGrows'
      /\ \A sig : TakenOf(sig)' <=> TakenOf(sig)
      /\ \A sig, rows : WalkedAfter(sig, rows)' <=> WalkedAfter(sig, rows)
  BY <1>1, TabSteps
<1>3. PICK r : /\ r = [sig |-> seen, nth |-> fires', rows |-> <<>>]
               /\ fetches' = fetches \cup {r}
  BY DEF Fetches
<1>4. ListingTypeOK' /\ ListingsFollow' /\ SeenIsTaken'
  BY <1>1, <1>2, <1>3 DEF WInv, ListingTypeOK, IsFolder, ListingsFollow, SeenIsTaken
<1>5. r.sig = seen /\ r.rows = <<>>
  BY <1>3
<1>6. ~blurred => TakenOf(r.sig)
  BY <1>1, <1>5 DEF WInv, SeenIsTaken
<1>7. FetchesFollow'
  <2>1. \A q \in fetches' :
          /\ q.sig # <<>>
          /\ ~blurred => TakenOf(q.sig) /\ (q.rows # <<>> => WalkedAfter(q.sig, q.rows[1]))
    BY <1>1, <1>3, <1>5, <1>6 DEF WInv, FetchesFollow
  <2> QED BY <1>1, <1>2, <2>1 DEF FetchesFollow
<1> QED BY <1>2, <1>4, <1>7 DEF WInv

(* A fetch walks the folder. *)
LEMMA FilesWalkKeeps ==
  ASSUME WInv, NEW r \in fetches, FilesWalk(r)
  PROVE  WInv'
<1>1. UNCHANGED <<folder, clips, past, blurred, seen, listings>>
  BY DEF FilesWalk
<1>2. /\ PastEndsNow' /\ StampsArePast' /\ StampsStay' /\ PastGrows'
      /\ \A sig : TakenOf(sig)' <=> TakenOf(sig)
      /\ \A sig, rows : WalkedAfter(sig, rows)' <=> WalkedAfter(sig, rows)
  BY <1>1, TabSteps
<1>3. PICK q : /\ q = [r EXCEPT !.rows = <<Rows(folder, clips)>>]
               /\ fetches' = (fetches \ {r}) \cup {q}
  BY DEF FilesWalk
<1>4. r = [sig |-> r.sig, nth |-> r.nth, rows |-> r.rows]
  BY DEF WInv, ListingTypeOK
<1>5. /\ q = [sig |-> q.sig, nth |-> q.nth, rows |-> q.rows]
      /\ q.sig = r.sig /\ q.rows[1] = Rows(folder, clips)
  BY <1>3, <1>4
<1>6. ListingTypeOK' /\ ListingsFollow' /\ SeenIsTaken'
  BY <1>1, <1>2, <1>3, <1>5 DEF WInv, ListingTypeOK, IsFolder, ListingsFollow, SeenIsTaken
<1>7. q.sig # <<>> /\ (~blurred => TakenOf(q.sig))
  BY <1>5 DEF WInv, FetchesFollow
<1>8. ~blurred => WalkedAfter(q.sig, q.rows[1])
  <2> HAVE ~blurred
  <2>1. PICK i \in 1..Len(past) : q.sig[1] = Brief(past[i])
    BY <1>7 DEF TakenOf
  <2>2. Len(past) \in i..Len(past)
    BY DEF WInv, ListingTypeOK
  <2>3. past[Len(past)] = Visible(q.rows[1], Masked(past[Len(past)]))
    BY <1>5, NowIsTaken
  <2> QED BY <2>1, <2>2, <2>3 DEF WalkedAfter
<1>9. FetchesFollow'
  <2>1. \A t \in fetches' :
          /\ t.sig # <<>>
          /\ ~blurred => TakenOf(t.sig) /\ (t.rows # <<>> => WalkedAfter(t.sig, t.rows[1]))
    BY <1>3, <1>7, <1>8 DEF WInv, FetchesFollow
  <2> QED BY <1>1, <1>2, <2>1 DEF FetchesFollow
<1> QED BY <1>2, <1>6, <1>9 DEF WInv

(* A fetch lands, or fails. *)
LEMMA FetchEndsKeep ==
  ASSUME WInv, NEW r \in fetches, Lands(r) \/ FetchFails(r)
  PROVE  WInv'
<1>1. UNCHANGED <<folder, clips, past, blurred, seen>> /\ fetches' = fetches \ {r}
  BY DEF Lands, FetchFails
<1>2. /\ PastEndsNow' /\ StampsArePast' /\ StampsStay' /\ PastGrows'
      /\ \A sig : TakenOf(sig)' <=> TakenOf(sig)
      /\ \A sig, rows : WalkedAfter(sig, rows)' <=> WalkedAfter(sig, rows)
  BY <1>1, TabSteps
<1>3. ListingTypeOK' /\ FetchesFollow' /\ SeenIsTaken'
  BY <1>1, <1>2 DEF WInv, ListingTypeOK, IsFolder, FetchesFollow, SeenIsTaken
<1>4. \A sig \in DOMAIN listings' :
        sig # <<>> /\ (~blurred => WalkedAfter(sig, listings'[sig]))
  <2>1. CASE Lands(r)
    <3>1. r.rows # <<>> /\ listings' = Having(listings, r.sig, r.rows[1])
      BY <2>1 DEF Lands
    <3>2. /\ DOMAIN listings' = DOMAIN listings \cup {r.sig} /\ listings'[r.sig] = r.rows[1]
          /\ \A sig \in DOMAIN listings : sig # r.sig => listings'[sig] = listings[sig]
      BY <3>1 DEF Having
    <3>3. r.sig # <<>> /\ (~blurred => WalkedAfter(r.sig, r.rows[1]))
      BY <3>1 DEF WInv, FetchesFollow
    <3> QED BY <3>2, <3>3 DEF WInv, ListingsFollow
  <2>2. CASE FetchFails(r)
    BY <2>2 DEF FetchFails, WInv, ListingsFollow
  <2> QED BY <2>1, <2>2
<1>5. ListingsFollow'
  BY <1>1, <1>2, <1>4 DEF ListingsFollow
<1> QED BY <1>2, <1>3, <1>5 DEF WInv

-----------------------------------------------------------------------------
(* Two entries of one brief are one. *)
LEMMA BriefTellsAll ==
  ASSUME WInv, NEW i \in 1..Len(past), NEW k \in 1..Len(past), i <= k,
         Brief(past[i]) = Brief(past[k])
  PROVE  past[i] = past[k]
<1> DEFINE a == past[i]
           b == past[k]
           Pairs == Engines \X BOOLEAN
<1>1. a \in Views /\ b \in Views
  BY DEF WInv, ListingTypeOK
<1>2. \A w \in DOMAIN a \cap DOMAIN b : a[w][2] = b[w][2] => a[w][3] \subseteq b[w][3]
  BY DEF WInv, PastGrows
<1>3. Brief(a) = Brief(b)
  OBVIOUS
<1> HIDE DEF a, b
<1>4. DOMAIN a = DOMAIN b
  <2>1. DOMAIN Brief(a) = DOMAIN a /\ DOMAIN Brief(b) = DOMAIN b
    BY DEF Brief
  <2> QED BY <1>3, <2>1
<1>5. \A w \in DOMAIN a : <<a[w][1], a[w][2], Cardinality(a[w][3]), a[w][4]>>
                          = <<b[w][1], b[w][2], Cardinality(b[w][3]), b[w][4]>>
  <2>1. \A w \in DOMAIN a : Brief(a)[w] = <<a[w][1], a[w][2], Cardinality(a[w][3]), a[w][4]>>
    BY DEF Brief
  <2>2. \A w \in DOMAIN b : Brief(b)[w] = <<b[w][1], b[w][2], Cardinality(b[w][3]), b[w][4]>>
    BY DEF Brief
  <2> QED BY <1>3, <1>4, <2>1, <2>2
<1>6. IsFiniteSet(Pairs)
  <2>1. IsFiniteSet(BOOLEAN)
    <3>1. BOOLEAN = {TRUE, FALSE}
      OBVIOUS
    <3>2. IsFiniteSet({TRUE}) /\ IsFiniteSet({FALSE})
      BY FS_Singleton
    <3>3. IsFiniteSet({TRUE} \cup {FALSE})
      BY <3>2, FS_Union
    <3>4. {TRUE} \cup {FALSE} = {TRUE, FALSE}
      OBVIOUS
    <3> QED BY <3>1, <3>3, <3>4
  <2> QED BY <2>1, FS_Product, ListingAssumption
<1>7. \A v \in Views : \A w \in DOMAIN v :
        v[w] \in Int \X Int \X (SUBSET Pairs) \X (SUBSET ClipNames)
  BY DEF Views
<1> HIDE DEF Pairs
<1>8. \A w \in DOMAIN a : a[w] = b[w]
  <2> TAKE w \in DOMAIN a
  <2>1. /\ a[w] \in Int \X Int \X (SUBSET Pairs) \X (SUBSET ClipNames)
        /\ b[w] \in Int \X Int \X (SUBSET Pairs) \X (SUBSET ClipNames)
    BY <1>1, <1>4, <1>7
  <2>2. /\ a[w] = <<a[w][1], a[w][2], a[w][3], a[w][4]>> /\ a[w][3] \subseteq Pairs
        /\ b[w] = <<b[w][1], b[w][2], b[w][3], b[w][4]>> /\ b[w][3] \subseteq Pairs
    BY <2>1
  <2>3. /\ a[w][1] = b[w][1] /\ a[w][2] = b[w][2] /\ a[w][4] = b[w][4]
        /\ Cardinality(a[w][3]) = Cardinality(b[w][3])
    BY <1>5
  <2>4. a[w][3] \subseteq b[w][3]
    BY <1>2, <1>4, <2>3
  <2>5. IsFiniteSet(b[w][3])
    BY <1>6, <2>2, FS_Subset
  <2>6. a[w][3] = b[w][3]
    BY <2>3, <2>4, <2>5, FS_Subset
  <2> QED BY <2>2, <2>3, <2>6
<1>9. a = [w \in DOMAIN a |-> a[w]] /\ b = [w \in DOMAIN b |-> b[w]]
  BY <1>1 DEF Views
<1>10. a = b
  BY <1>4, <1>8, <1>9
<1> QED BY <1>10 DEF a, b

(* A list under the digest of the folder is of the folder. *)
LEMMA FollowListing == WInv => ListingIsOfDisk
<1> SUFFICES ASSUME WInv, seen \in DOMAIN listings,
                    seen = Digest(Rows(folder, clips), clips, OpenWavs), ~CameBack, ~blurred
             PROVE  Visible(listings[seen], OpenWavs) = Visible(Rows(folder, clips), OpenWavs)
  BY DEF ListingIsOfDisk
<1> DEFINE n == Len(past)
           rows == listings[seen]
<1>1. seen # <<>> /\ WalkedAfter(seen, rows)
  BY DEF WInv, ListingsFollow
<1>2. n \in Nat /\ n >= 1
  BY DEF WInv, ListingTypeOK
<1>3. seen[1] = Brief(past[n]) /\ Masked(past[n]) = OpenWavs
  BY <1>1, NowIsTaken
<1>4. past[n] = Visible(Rows(folder, clips), OpenWavs)
  BY DEF WInv, PastEndsNow
<1> HIDE DEF rows
<1>5. PICK i \in 1..n : \E j \in i..n : seen[1] = Brief(past[i]) /\ past[j] = Visible(rows, Masked(past[j]))
  BY <1>1 DEF WalkedAfter
<1>6. PICK j \in i..n : seen[1] = Brief(past[i]) /\ past[j] = Visible(rows, Masked(past[j]))
  BY <1>5
<1>7. past[i] = past[n]
  <2>1. n \in 1..Len(past) /\ i <= n
    BY <1>2
  <2> QED BY <1>3, <1>6, <2>1, BriefTellsAll
<1>8. past[j] = past[n]
  <2>1. CASE j = i \/ j = n
    BY <2>1, <1>7
  <2>2. CASE j # i /\ j # n
    <3>1. i < j /\ j < n /\ i \in 1..n /\ j \in 1..n /\ n \in 1..n
      BY <2>2, <1>2
    <3> QED BY <3>1, <1>7 DEF CameBack
  <2> QED BY <2>1, <2>2
<1> QED BY <1>3, <1>4, <1>6, <1>8 DEF rows

(* Every step keeps the invariant. *)
LEMMA StepListing == WInv /\ [WNext]_wvars => WInv'
<1> SUFFICES ASSUME WInv, [WNext]_wvars PROVE WInv'
  OBVIOUS
<1>1. CASE UNCHANGED wvars
  <2>1. UNCHANGED <<folder, clips, past, blurred, seen, listings, fetches>>
    BY <1>1 DEF wvars
  <2>2. /\ PastEndsNow' /\ StampsArePast' /\ StampsStay' /\ PastGrows'
        /\ \A sig : TakenOf(sig)' <=> TakenOf(sig)
        /\ \A sig, rows : WalkedAfter(sig, rows)' <=> WalkedAfter(sig, rows)
    BY <2>1, TabSteps
  <2>3. ListingTypeOK' /\ SeenIsTaken' /\ FetchesFollow' /\ ListingsFollow'
    BY <2>1, <2>2 DEF WInv, ListingTypeOK, IsFolder, SeenIsTaken, FetchesFollow, ListingsFollow
  <2> QED BY <2>2, <2>3 DEF WInv
<1>2. ASSUME NEW w \in DOMAIN Recordings,
             TapOpens(w) \/ TapWrites(w) \/ TapCloses(w) \/ TapReopens(w)
      PROVE  WInv'
  BY <1>2, TapOpensKeeps, TapWritesKeeps, TapClosesKeeps, TapReopensKeeps
<1>3. ASSUME NEW w \in DOMAIN Recordings, IsDeleted(w)
      PROVE  WInv'
  BY <1>3, DropKeeps DEF IsDeleted
<1>4. ASSUME NEW w \in DOMAIN Recordings, NEW e \in Engines, IsTranscribed(w, e) \/ IsRepointed(w, e)
      PROVE  WInv'
  BY <1>4, IsTranscribedKeeps, IsRepointedKeeps
<1>5. CASE IsStripped \/ IsCleared
  BY <1>5, StripsKeep
<1>6. CASE PollStarts \/ PollAnswers
  BY <1>6, PollsKeep
<1>7. CASE Fetches
  BY <1>7, FetchesKeeps
<1>8. ASSUME NEW r \in fetches, FilesWalk(r) \/ Lands(r) \/ FetchFails(r)
      PROVE  WInv'
  BY <1>8, FilesWalkKeeps, FetchEndsKeep
<1> QED BY <1>1, <1>2, <1>3, <1>4, <1>5, <1>6, <1>7, <1>8 DEF WNext

(* A list the tab keeps under the digest of the folder as it is shows the  *)
(* folder as it is (_files_signature), for any recordings, engines, clips, *)
(* fetches and changes of the folder; with the two exceptions of the       *)
(* property.                                                               *)
THEOREM ListIsOfDisk == WInit /\ [][WNext]_wvars => []ListingIsOfDisk
BY InitListing, StepListing, FollowListing, PTL

-----------------------------------------------------------------------------
(* People (people.py, roster.py, voices.py).                               *)

(* The identities that taps bring.                                         *)
Identities == {t.identity : t \in Taps}

(* No identity has two people, and nobody is there without a trace.        *)
PersonIs(r) ==
  /\ r = [x \in {"name", "identities"} |-> r[x]]
  /\ r.identities # {} \/ r.name # Blank

RegistryOK ==
  /\ created \in Nat
  /\ registry = [p \in DOMAIN registry |-> registry[p]] /\ DOMAIN registry \subseteq 1..created
  /\ \A p \in DOMAIN registry : PersonIs(registry[p])
  /\ \A p, q \in DOMAIN registry : p # q => registry[p].identities \cap registry[q].identities = {}

(* A session's fields, its roster of identities that taps brought, and its *)
(* mapping.                                                                *)
SessionIs(r) ==
  /\ r = [x \in {"roster", "runs", "mapping", "keys"} |-> r[x]]
  /\ DOMAIN r.roster \subseteq Identities
  /\ \A v \in DOMAIN r.mapping : r.mapping[v] = [x \in {"person", "run"} |-> r.mapping[v][x]]

SessionsOK ==
  /\ sessions = [s \in DOMAIN sessions |-> sessions[s]]
  /\ \A s \in DOMAIN sessions : SessionIs(sessions[s])

PeopleInv == RegistryOK /\ SessionsOK

(* What a step may never do to a mapping, and to a name (the bodies of      *)
(* NobodyIsStranded and NamesSurvive).                                     *)
LeavesNobodyStranded ==
  \A p \in DOMAIN registry \ DOMAIN registry' :
    \A s \in DOMAIN sessions' : \A v \in DOMAIN sessions'[s].mapping :
      sessions'[s].mapping[v].person # p

KeepsNames ==
  \A p \in DOMAIN registry :
    registry[p].name # Blank =>
      \/ p \in DOMAIN registry' /\ registry'[p].name = registry[p].name
      \/ p \in DOMAIN registry' /\ registry' = [registry EXCEPT ![p].name = registry'[p].name]
      \/ \E q \in DOMAIN registry' \cap DOMAIN registry :
           registry[p].identities \cup registry[q].identities = registry'[q].identities
           /\ p \notin DOMAIN registry'

PeopleStepOK == PeopleInv' /\ LeavesNobodyStranded /\ KeepsNames

-----------------------------------------------------------------------------
(* An entry more. *)
LEMMA EnteredIs ==
  ASSUME NEW f, NEW x, NEW y
  PROVE  LET g == Entered(f, x, y)
         IN  /\ g = [z \in DOMAIN g |-> g[z]] /\ DOMAIN g = DOMAIN f \cup {x}
             /\ g[x] = y /\ \A z \in DOMAIN f : z # x => g[z] = f[z]
BY DEF Entered, Onto

(* One field of one session changes, or none does. *)
LEMMA ChangeIs ==
  ASSUME SessionsOK, NEW s \in DOMAIN sessions, NEW field \in {"roster", "runs", "mapping", "keys"},
         NEW value, Change(s, field, value),
         field = "roster" => DOMAIN value \subseteq Identities,
         field = "mapping" =>
           \A v \in DOMAIN value : value[v] = [x \in {"person", "run"} |-> value[v][x]]
  PROVE  SessionsOK'
<1>1. /\ sessions' = [u \in DOMAIN sessions |-> sessions'[u]]
      /\ sessions'[s] = [sessions[s] EXCEPT ![field] = value]
      /\ \A u \in DOMAIN sessions : u # s => sessions'[u] = sessions[u]
  BY DEF SessionsOK, Change
<1>2. SessionIs(sessions[s])
  BY DEF SessionsOK
<1>3. PICK r, old : r = sessions'[s] /\ old = sessions[s]
  OBVIOUS
<1>4. SessionIs(r)
  <2>1. r = [old EXCEPT ![field] = value] /\ SessionIs(old)
    BY <1>1, <1>2, <1>3
  <2>2. /\ r = [x \in {"roster", "runs", "mapping", "keys"} |-> r[x]]
        /\ r.roster = (IF field = "roster" THEN value ELSE old.roster)
        /\ r.mapping = (IF field = "mapping" THEN value ELSE old.mapping)
    BY <2>1 DEF SessionIs
  <2>3. DOMAIN r.roster \subseteq Identities
    BY <2>1, <2>2 DEF SessionIs
  <2>4. \A v \in DOMAIN r.mapping : r.mapping[v] = [x \in {"person", "run"} |-> r.mapping[v][x]]
    <3>1. CASE field = "mapping"
      BY <2>2, <3>1
    <3>2. CASE field # "mapping"
      BY <2>1, <2>2, <3>2 DEF SessionIs
    <3> QED BY <3>1, <3>2
  <2> QED BY <2>2, <2>3, <2>4 DEF SessionIs
<1>5. \A u \in DOMAIN sessions' : SessionIs(sessions'[u])
  BY <1>1, <1>3, <1>4 DEF SessionsOK
<1> QED BY <1>1, <1>5 DEF SessionsOK, SessionIs

LEMMA SessionChanges ==
  ASSUME SessionsOK, NEW s \in DOMAIN sessions, NEW r, SessionIs(r), sessions' = [sessions EXCEPT ![s] = r]
  PROVE  SessionsOK'
<1>1. \A u \in DOMAIN sessions' : SessionIs(sessions'[u])
  BY DEF SessionsOK
<1>2. sessions' = [u \in DOMAIN sessions' |-> sessions'[u]]
  BY DEF SessionsOK
<1> QED BY <1>1, <1>2 DEF SessionsOK, SessionIs

LEMMA MappedKeeps ==
  ASSUME SessionsOK, NEW s \in DOMAIN sessions, NEW v, NEW p, Mapped(s, v, p)
  PROVE  SessionsOK'
<1>1. PICK m, e, more :
        /\ m = sessions[s].mapping /\ e = [person |-> p, run |-> sessions[s].runs[v[1]]]
        /\ more = Entered(m, v, e) /\ Change(s, "mapping", more)
  BY DEF Mapped
<1>2. \A w \in DOMAIN m : m[w] = [x \in {"person", "run"} |-> m[w][x]]
  BY <1>1 DEF SessionsOK, SessionIs
<1>3. e = [x \in {"person", "run"} |-> e[x]]
  BY <1>1
<1>4. \A w \in DOMAIN more : more[w] = e \/ (w \in DOMAIN m /\ more[w] = m[w])
  BY <1>1 DEF Entered, Onto
<1>5. \A w \in DOMAIN more : more[w] = [x \in {"person", "run"} |-> more[w][x]]
  BY <1>2, <1>3, <1>4
<1>6. /\ "mapping" \in {"roster", "runs", "mapping", "keys"} /\ "mapping" # "roster"
      /\ s \in DOMAIN sessions /\ Change(s, "mapping", more)
  BY <1>1
<1> QED BY <1>5, <1>6, ChangeIs, ZenonT(30)

(* A step that adds to the registry, or leaves it alone. *)
LEMMA RegistryGrows ==
  ASSUME RegistryOK, SessionsOK', NEW new, new \cap DOMAIN registry = {},
         registry' = [p \in DOMAIN registry \cup new |-> registry'[p]],
         \A p \in DOMAIN registry : registry'[p] = registry[p],
         created' \in Nat, created <= created', new \subseteq 1..created',
         \A p \in new : PersonIs(registry'[p]),
         \A p \in new, q \in DOMAIN registry' : p # q => registry'[p].identities \cap registry'[q].identities = {}
  PROVE  PeopleStepOK
<1>1. DOMAIN registry' = DOMAIN registry \cup new
  OBVIOUS
<1>2. DOMAIN registry' \subseteq 1..created'
  BY <1>1 DEF RegistryOK
<1>3. \A p \in DOMAIN registry' : PersonIs(registry'[p])
  BY <1>1 DEF RegistryOK
<1>4. \A p, q \in DOMAIN registry' : p # q => registry'[p].identities \cap registry'[q].identities = {}
  BY <1>1 DEF RegistryOK
<1>5. RegistryOK'
  BY <1>1, <1>2, <1>3, <1>4 DEF RegistryOK, PersonIs
<1>6. LeavesNobodyStranded /\ KeepsNames
  BY <1>1 DEF LeavesNobodyStranded, KeepsNames
<1> QED BY <1>5, <1>6 DEF PeopleStepOK, PeopleInv

LEMMA RegistryRests ==
  ASSUME RegistryOK, SessionsOK', registry' = registry, created' \in Nat, created <= created'
  PROVE  PeopleStepOK
<1>1. RegistryOK'
  <2>1. DOMAIN registry \subseteq 1..created'
    BY DEF RegistryOK
  <2> QED BY <2>1 DEF RegistryOK
<1>2. LeavesNobodyStranded /\ KeepsNames
  BY DEF LeavesNobodyStranded, KeepsNames
<1> QED BY <1>1, <1>2 DEF PeopleStepOK, PeopleInv

(* Each handler, one lemma (roster.py, people.py, routes/people.py): the   *)
(* invariant is kept, and the mappings and names are.                      *)
LEMMA OccursKeeps ==
  ASSUME PeopleInv, NEW t \in Taps, Occurs(t)
  PROVE  PeopleStepOK
<1>1. PICK s, roster, e :
        /\ s = t.session /\ s \in DOMAIN sessions /\ roster = sessions[s].roster
        /\ Change(s, "roster", Entered(roster, t.identity, e)) /\ UNCHANGED <<registry, created>>
  BY DEF Occurs
<1>2. DOMAIN Entered(roster, t.identity, e) = DOMAIN roster \cup {t.identity}
  BY DEF Entered, Onto
<1>3. DOMAIN roster \subseteq Identities /\ t.identity \in Identities
  BY <1>1 DEF PeopleInv, SessionsOK, SessionIs, Identities
<1>4. SessionsOK'
  BY <1>1, <1>2, <1>3, ChangeIs DEF PeopleInv
<1> QED BY <1>1, <1>4, RegistryRests DEF PeopleInv, RegistryOK

(* The members of a finite set in some order, each once. *)
LEMMA ListsOnce ==
  ASSUME NEW S, IsFiniteSet(S)
  PROVE  LET f == SetToSeq(S)
         IN  /\ f \in [1..Cardinality(S) -> S] /\ Cardinality(S) \in Nat /\ Len(f) = Cardinality(S)
             /\ \A i, j \in 1..Cardinality(S) : f[i] = f[j] => i = j
<1>1. Cardinality(S) \in Nat /\ ExistsBijection(1..Cardinality(S), S)
  BY FS_CardinalityType
<1>2. \E f \in [1..Cardinality(S) -> S] : IsInjective(f)
  BY <1>1 DEF ExistsBijection, Bijection, Injection
<1>3. SetToSeq(S) \in [1..Cardinality(S) -> S] /\ IsInjective(SetToSeq(S))
  BY <1>2 DEF SetToSeq
<1> QED BY <1>1, <1>3 DEF IsInjective

(* sync: each identity nobody owns gets a Person of its own.               *)
LEMMA SyncKeeps ==
  ASSUME PeopleInv, SyncPeople
  PROVE  PeopleStepOK
<1>1. PICK set, fresh :
        /\ set = (UNION {DOMAIN sessions[s].roster : s \in DOMAIN sessions}) \ OwnedIds
        /\ fresh = SetToSeq(set)
  OBVIOUS
<1>2. /\ created' = created + Len(fresh)
      /\ registry' = Onto([p \in (created + 1)..created' |->
                             [name |-> Blank, identities |-> {fresh[p - created]}]], registry)
      /\ UNCHANGED sessions
  BY <1>1 DEF SyncPeople
<1>3. /\ fresh \in [1..Len(fresh) -> set] /\ Len(fresh) \in Nat
      /\ \A i, j \in 1..Len(fresh) : fresh[i] = fresh[j] => i = j
  <2>1. set \subseteq Identities
    BY <1>1 DEF PeopleInv, SessionsOK, SessionIs
  <2>2. IsFiniteSet(Identities)
    <3> DEFINE f == [t \in Taps |-> t.identity]
    <3>1. f \in Surjection(Taps, Identities)
      BY DEF Surjection, Identities
    <3> QED BY <3>1, PeopleAssumption, FS_Surjection DEF ExistsSurjection
  <2>3. IsFiniteSet(set)
    BY <2>1, <2>2, FS_Subset
  <2> QED BY <1>1, <2>3, ListsOnce
<1> DEFINE new == (created + 1)..created'
<1>4. created \in Nat /\ created' \in Nat /\ created <= created' /\ new \subseteq 1..created'
  BY <1>2, <1>3 DEF PeopleInv, RegistryOK
<1>5. new \cap DOMAIN registry = {}
  BY <1>4 DEF PeopleInv, RegistryOK
<1>6. \A p \in new : p - created \in 1..Len(fresh)
  BY <1>2, <1>3, <1>4
<1> HIDE DEF new
<1>7. /\ registry' = [p \in DOMAIN registry \cup new |-> registry'[p]]
      /\ \A p \in DOMAIN registry : registry'[p] = registry[p]
      /\ \A p \in new : registry'[p] = [name |-> Blank, identities |-> {fresh[p - created]}]
  BY <1>2, <1>5 DEF Onto, new
<1>8. \A p \in new : PersonIs(registry'[p])
  BY <1>7 DEF PersonIs
<1>9. \A p \in new, q \in DOMAIN registry' :
        p # q => registry'[p].identities \cap registry'[q].identities = {}
  <2> SUFFICES ASSUME NEW p \in new, NEW q \in DOMAIN registry', p # q
               PROVE  registry'[p].identities \cap registry'[q].identities = {}
    OBVIOUS
  <2>1. registry'[p].identities = {fresh[p - created]} /\ fresh[p - created] \in set
    BY <1>3, <1>6, <1>7
  <2>2. CASE q \in DOMAIN registry
    <3>1. fresh[p - created] \notin registry[q].identities
      <4>1. registry[q].identities \subseteq OwnedIds
        BY <2>2 DEF OwnedIds
      <4>2. \A x \in set : x \notin OwnedIds
        BY <1>1
      <4>3. fresh[p - created] \notin OwnedIds
        BY <2>1, <4>2
      <4> QED BY <4>1, <4>3
    <3> QED BY <1>7, <2>1, <2>2, <3>1
  <2>3. CASE q \in new
    <3>1. p \in Int /\ q \in Int
      <4>1. p \in 1..created' /\ q \in 1..created'
        BY <1>4, <2>3
      <4> QED BY <4>1
    <3>2. fresh[p - created] # fresh[q - created]
      <4>1. p - created # q - created
        BY <1>4, <3>1
      <4> QED BY <1>3, <1>6, <2>3, <4>1
    <3> QED BY <1>7, <2>1, <2>3, <3>2
  <2>4. q \in DOMAIN registry \/ q \in new
    BY <1>7
  <2> QED BY <2>2, <2>3, <2>4
<1>10. SessionsOK'
  BY <1>2 DEF PeopleInv, SessionsOK
<1> QED BY <1>4, <1>5, <1>7, <1>8, <1>9, <1>10, RegistryGrows DEF PeopleInv

LEMMA RenameKeeps ==
  ASSUME PeopleInv, NEW p, NEW name, Rename(p, name)
  PROVE  PeopleStepOK
<1>1. /\ p \in DOMAIN registry /\ (name # Blank \/ registry[p].identities # {})
      /\ registry' = [registry EXCEPT ![p].name = name] /\ UNCHANGED <<created, sessions>>
  BY DEF Rename, MayRename
<1>2. /\ p \in DOMAIN registry /\ DOMAIN registry' = DOMAIN registry
      /\ registry' = [q \in DOMAIN registry |-> registry'[q]]
      /\ \A q \in DOMAIN registry : q # p => registry'[q] = registry[q]
      /\ registry'[p] = [registry[p] EXCEPT !.name = name]
  BY <1>1 DEF PeopleInv, RegistryOK, Rename
<1>3. PersonIs(registry'[p]) /\ registry'[p].identities = registry[p].identities /\ registry'[p].name = name
  <2>1. PersonIs(registry[p])
    BY <1>2 DEF PeopleInv, RegistryOK
  <2>2. name # Blank \/ registry[p].identities # {}
    BY DEF Rename, MayRename
  <2> QED BY <1>2, <2>1, <2>2 DEF PersonIs
<1>4. RegistryOK'
  <2>1. \A q \in DOMAIN registry' : PersonIs(registry'[q])
    BY <1>2, <1>3 DEF PeopleInv, RegistryOK
  <2>2. \A q \in DOMAIN registry' : registry'[q].identities = registry[q].identities
    BY <1>2, <1>3
  <2> QED BY <1>1, <1>2, <2>1, <2>2 DEF PeopleInv, RegistryOK, PersonIs
<1>5. SessionsOK'
  BY <1>1 DEF PeopleInv, SessionsOK
<1>6. LeavesNobodyStranded
  BY <1>2 DEF LeavesNobodyStranded
<1>7. KeepsNames
  <2>1. registry' = [registry EXCEPT ![p].name = registry'[p].name]
    BY <1>1, <1>3
  <2> QED BY <1>2, <2>1 DEF KeepsNames
<1> QED BY <1>4, <1>5, <1>6, <1>7 DEF PeopleStepOK, PeopleInv

(* The mappings of some sessions are moved from one person to another.     *)
LEMMA RepointKeeps ==
  ASSUME SessionsOK, NEW walked, NEW old, NEW new, RepointIn(walked, old, new), old # new
  PROVE  /\ SessionsOK' /\ DOMAIN sessions' = DOMAIN sessions
         /\ \A s \in DOMAIN sessions \cap walked : \A v \in DOMAIN sessions'[s].mapping :
              sessions'[s].mapping[v].person # old
<1>1. /\ sessions' = [s \in DOMAIN sessions |-> sessions'[s]]
      /\ \A s \in DOMAIN sessions :
           sessions'[s] = IF s \in walked THEN [sessions[s] EXCEPT !.mapping = Repoint(sessions[s], old, new)]
                          ELSE sessions[s]
  BY DEF RepointIn
<1>2. ASSUME NEW s \in DOMAIN sessions, s \in walked
      PROVE  /\ SessionIs(sessions'[s])
             /\ \A v \in DOMAIN sessions'[s].mapping : sessions'[s].mapping[v].person # old
  <2>1. PICK r, a, m : r = sessions'[s] /\ a = sessions[s] /\ m = Repoint(a, old, new)
    OBVIOUS
  <2>2. SessionIs(a) /\ r = [a EXCEPT !.mapping = m]
    BY <1>1, <1>2, <2>1 DEF SessionsOK
  <2>3. /\ r = [x \in {"roster", "runs", "mapping", "keys"} |-> r[x]] /\ r.roster = a.roster
        /\ r.mapping = m
    BY <2>2 DEF SessionIs
  <2>4. /\ DOMAIN m = DOMAIN a.mapping
        /\ \A v \in DOMAIN m : m[v] = IF a.mapping[v].person = old THEN [a.mapping[v] EXCEPT !.person = new]
                                      ELSE a.mapping[v]
    BY <2>1 DEF Repoint
  <2>5. \A v \in DOMAIN m : m[v] = [x \in {"person", "run"} |-> m[v][x]] /\ m[v].person # old
    <3> SUFFICES ASSUME NEW v \in DOMAIN m
                 PROVE  m[v] = [x \in {"person", "run"} |-> m[v][x]] /\ m[v].person # old
      OBVIOUS
    <3>1. PICK e : e = a.mapping[v]
      OBVIOUS
    <3>2. e = [x \in {"person", "run"} |-> e[x]]
      BY <2>2, <2>4, <3>1 DEF SessionIs
    <3>3. m[v] = IF e.person = old THEN [e EXCEPT !.person = new] ELSE e
      BY <2>4, <3>1
    <3> QED BY <3>2, <3>3
  <2>6. SessionIs(r)
    BY <2>2, <2>3, <2>5 DEF SessionIs
  <2> QED BY <2>1, <2>3, <2>5, <2>6
<1>3. \A s \in DOMAIN sessions' : SessionIs(sessions'[s])
  BY <1>1, <1>2 DEF SessionsOK
<1>4. SessionsOK'
  BY <1>1, <1>3 DEF SessionsOK, SessionIs
<1> QED BY <1>1, <1>2, <1>4

(* api_people_merge: whoever goes leaves their identities to the survivor, *)
(* and no mapping to them.                                                 *)
LEMMA MergeKeeps ==
  ASSUME PeopleInv, NEW survivor, NEW absorbed, Merge(survivor, absorbed)
  PROVE  PeopleStepOK
<1>1. /\ survivor # absorbed /\ survivor \in DOMAIN registry /\ absorbed \in DOMAIN registry
      /\ RepointIn(DOMAIN sessions, absorbed, survivor) /\ UNCHANGED created
      /\ registry' = Less([registry EXCEPT ![survivor].identities = @ \cup registry[absorbed].identities],
                          {absorbed})
  BY DEF Merge
<1>2. /\ registry' = [p \in DOMAIN registry \ {absorbed} |-> registry'[p]]
      /\ \A p \in DOMAIN registry \ {absorbed} : p # survivor => registry'[p] = registry[p]
      /\ registry'[survivor] = [registry[survivor] EXCEPT !.identities = @ \cup registry[absorbed].identities]
  BY <1>1 DEF Less
<1>3. /\ PersonIs(registry'[survivor]) /\ registry'[survivor].name = registry[survivor].name
      /\ registry'[survivor].identities = registry[survivor].identities \cup registry[absorbed].identities
  <2>1. PersonIs(registry[survivor])
    BY <1>1 DEF PeopleInv, RegistryOK
  <2> QED BY <1>2, <2>1 DEF PersonIs
<1>4. DOMAIN registry' = DOMAIN registry \ {absorbed}
  BY <1>2
<1>5. RegistryOK'
  <2>1. \A p \in DOMAIN registry' : PersonIs(registry'[p])
    BY <1>2, <1>3, <1>4 DEF PeopleInv, RegistryOK
  <2>2. ASSUME NEW p \in DOMAIN registry', NEW q \in DOMAIN registry', p # q
        PROVE  registry'[p].identities \cap registry'[q].identities = {}
    <3>1. \A u \in DOMAIN registry, w \in DOMAIN registry :
            u # w => registry[u].identities \cap registry[w].identities = {}
      BY DEF PeopleInv, RegistryOK
    <3>2. /\ p \in DOMAIN registry /\ q \in DOMAIN registry /\ p # absorbed /\ q # absorbed
          /\ p # survivor => registry'[p].identities = registry[p].identities
          /\ q # survivor => registry'[q].identities = registry[q].identities
      BY <1>2, <1>4
    <3>3. CASE p = survivor
      BY <1>1, <1>3, <2>2, <3>1, <3>2, <3>3
    <3>4. CASE q = survivor
      BY <1>1, <1>3, <2>2, <3>1, <3>2, <3>4
    <3>5. CASE p # survivor /\ q # survivor
      BY <2>2, <3>1, <3>2, <3>5
    <3> QED BY <3>3, <3>4, <3>5
  <2>3. DOMAIN registry' \subseteq 1..created' /\ created' \in Nat
    BY <1>1, <1>4 DEF PeopleInv, RegistryOK
  <2> QED BY <1>2, <1>4, <2>1, <2>2, <2>3 DEF RegistryOK, PersonIs
<1>6. /\ SessionsOK' /\ DOMAIN sessions' = DOMAIN sessions
      /\ \A s \in DOMAIN sessions : \A v \in DOMAIN sessions'[s].mapping :
           sessions'[s].mapping[v].person # absorbed
  BY <1>1, RepointKeeps DEF PeopleInv
<1>7. LeavesNobodyStranded
  BY <1>1, <1>4, <1>6 DEF LeavesNobodyStranded
<1>8. KeepsNames
  <2> SUFFICES ASSUME NEW p \in DOMAIN registry
               PROVE  \/ p \in DOMAIN registry' /\ registry'[p].name = registry[p].name
                      \/ \E q \in DOMAIN registry' \cap DOMAIN registry :
                           registry[p].identities \cup registry[q].identities = registry'[q].identities
                           /\ p \notin DOMAIN registry'
    BY DEF KeepsNames
  <2>1. CASE p = absorbed
    <3>1. survivor \in DOMAIN registry' \cap DOMAIN registry /\ p \notin DOMAIN registry'
      BY <1>1, <1>4, <2>1
    <3>2. registry[p].identities \cup registry[survivor].identities = registry'[survivor].identities
      BY <1>3, <2>1
    <3> QED BY <3>1, <3>2
  <2>2. CASE p # absorbed
    BY <1>2, <1>3, <1>4, <2>2
  <2> QED BY <2>1, <2>2
<1> QED BY <1>5, <1>6, <1>7, <1>8 DEF PeopleStepOK, PeopleInv

(* Cut short, it has moved mappings to someone who stays.                  *)
LEMMA MergeFailsKeeps ==
  ASSUME PeopleInv, NEW survivor, NEW absorbed, MergeFails(survivor, absorbed)
  PROVE  PeopleStepOK
<1>1. PICK walked : RepointIn(walked, absorbed, survivor)
  BY DEF MergeFails
<1>2. survivor # absorbed /\ UNCHANGED <<registry, created>>
  BY DEF MergeFails
<1>3. SessionsOK'
  BY <1>1, <1>2, RepointKeeps DEF PeopleInv
<1> QED BY <1>2, <1>3, RegistryRests DEF PeopleInv, RegistryOK

(* detach: one identity moves to a new Person, the other keeps one.        *)
LEMMA DetachKeeps ==
  ASSUME PeopleInv, NEW p, NEW i, Detach(p, i)
  PROVE  PeopleStepOK
<1>1. /\ p \in DOMAIN registry /\ i \in registry[p].identities /\ registry[p].identities # {i}
      /\ created' = created + 1 /\ UNCHANGED sessions
      /\ registry' = Entered([registry EXCEPT ![p].identities = @ \ {i}], created',
                             [name |-> Blank, identities |-> {i}])
  BY DEF Detach
<1>2. PICK n : n = created'
  OBVIOUS
<1>3. created \in Nat /\ n = created + 1 /\ n \notin DOMAIN registry /\ DOMAIN registry \subseteq 1..n
  BY <1>1, <1>2 DEF PeopleInv, RegistryOK
<1>4. /\ registry' = [q \in DOMAIN registry \cup {n} |-> registry'[q]]
      /\ \A q \in DOMAIN registry : q # p => registry'[q] = registry[q]
      /\ registry'[p] = [registry[p] EXCEPT !.identities = @ \ {i}]
      /\ registry'[n] = [name |-> Blank, identities |-> {i}]
  BY <1>1, <1>2, <1>3 DEF Entered, Onto
<1>5. PersonIs(registry[p])
  BY <1>1 DEF PeopleInv, RegistryOK
<1>6. /\ PersonIs(registry'[p]) /\ registry'[p].name = registry[p].name
      /\ registry'[p].identities = registry[p].identities \ {i}
  BY <1>1, <1>4, <1>5 DEF PersonIs
<1>7. PersonIs(registry'[n]) /\ registry'[n].identities = {i}
  BY <1>4 DEF PersonIs
<1>8. DOMAIN registry' = DOMAIN registry \cup {n}
  BY <1>4
<1>9. RegistryOK'
  <2>1. \A q \in DOMAIN registry' : PersonIs(registry'[q])
    BY <1>4, <1>6, <1>7, <1>8 DEF PeopleInv, RegistryOK
  <2>2. \A q \in DOMAIN registry : q # p => i \notin registry[q].identities
    BY <1>1 DEF PeopleInv, RegistryOK
  <2>3. ASSUME NEW q \in DOMAIN registry', NEW u \in DOMAIN registry', q # u
        PROVE  registry'[q].identities \cap registry'[u].identities = {}
    <3>1. \A w \in DOMAIN registry : /\ registry'[w].identities \subseteq registry[w].identities
                                     /\ i \notin registry'[w].identities
      BY <1>4, <1>6, <2>2
    <3>2. \A w \in DOMAIN registry, x \in DOMAIN registry :
            w # x => registry[w].identities \cap registry[x].identities = {}
      BY DEF PeopleInv, RegistryOK
    <3>3. CASE q \in DOMAIN registry /\ u \in DOMAIN registry
      BY <2>3, <3>1, <3>2, <3>3
    <3>4. CASE q = n \/ u = n
      BY <1>7, <1>8, <2>3, <3>1, <3>4
    <3> QED BY <1>8, <3>3, <3>4
  <2>4. DOMAIN registry' \subseteq 1..created' /\ created' \in Nat
    BY <1>1, <1>2, <1>3, <1>8
  <2> QED BY <1>4, <1>8, <2>1, <2>3, <2>4 DEF RegistryOK, PersonIs
<1>10. SessionsOK'
  BY <1>1 DEF PeopleInv, SessionsOK
<1>11. LeavesNobodyStranded /\ KeepsNames
  BY <1>4, <1>6, <1>8 DEF LeavesNobodyStranded, KeepsNames
<1> QED BY <1>9, <1>10, <1>11 DEF PeopleStepOK, PeopleInv

(* A Voice is mapped to somebody there, to a new name, or to nobody.       *)
LEMMA MapToKeeps ==
  ASSUME PeopleInv, NEW s, NEW v, NEW p, MapTo(s, v, p)
  PROVE  PeopleStepOK
<1>1. s \in DOMAIN sessions /\ Mapped(s, v, p) /\ UNCHANGED <<registry, created>>
  BY DEF MapTo
<1>2. SessionsOK'
  BY <1>1, MappedKeeps DEF PeopleInv
<1> QED BY <1>1, <1>2, RegistryRests DEF PeopleInv, RegistryOK

LEMMA MapToNameKeeps ==
  ASSUME PeopleInv, NEW s, NEW v, NEW name \in TypedNames, MapToName(s, v, name)
  PROVE  PeopleStepOK
<1>1. /\ s \in DOMAIN sessions /\ Mapped(s, v, created') /\ created' = created + 1
      /\ \/ registry' = Entered(registry, created', [name |-> name, identities |-> {}])
         \/ UNCHANGED registry
  BY DEF MapToName
<1>2. SessionsOK'
  <2>1. PICK n : n = created'
    OBVIOUS
  <2> QED BY <1>1, <2>1, MappedKeeps DEF PeopleInv
<1>3. created \in Nat /\ DOMAIN registry \subseteq 1..created
  BY DEF PeopleInv, RegistryOK
<1>4. CASE UNCHANGED registry
  <2>1. created' \in Nat /\ created <= created'
    BY <1>1, <1>3
  <2> QED BY <1>2, <1>4, <2>1, RegistryRests DEF PeopleInv
<1>5. CASE registry' = Entered(registry, created', [name |-> name, identities |-> {}])
  <2>1. PICK n : n = created'
    OBVIOUS
  <2>2. n = created + 1 /\ n \notin DOMAIN registry
    BY <1>1, <1>3, <2>1
  <2>3. /\ registry' = [q \in DOMAIN registry \cup {n} |-> registry'[q]]
        /\ \A q \in DOMAIN registry : registry'[q] = registry[q]
        /\ registry'[n] = [name |-> name, identities |-> {}]
    BY <1>5, <2>1, <2>2 DEF Entered, Onto
  <2>4. PersonIs(registry'[n]) /\ registry'[n].identities = {}
    BY <2>3, PeopleAssumption DEF PersonIs
  <2>5. created' \in Nat /\ created <= created' /\ {n} \subseteq 1..created' /\ {n} \cap DOMAIN registry = {}
    BY <1>3, <2>1, <2>2
  <2>6. \A p \in {n} : PersonIs(registry'[p])
    BY <2>4
  <2>7. \A p \in {n}, q \in DOMAIN registry' : p # q => registry'[p].identities \cap registry'[q].identities = {}
    BY <2>4
  <2> QED BY <1>2, <2>3, <2>5, <2>6, <2>7, RegistryGrows DEF PeopleInv
<1> QED BY <1>1, <1>4, <1>5

LEMMA UnmapKeeps ==
  ASSUME PeopleInv, NEW s, NEW v, Unmap(s, v)
  PROVE  PeopleStepOK
<1>1. PICK m, less :
        /\ s \in DOMAIN sessions /\ m = sessions[s].mapping /\ less = Less(m, {v})
        /\ Change(s, "mapping", less) /\ UNCHANGED <<registry, created>>
  BY DEF Unmap
<1>2. \A w \in DOMAIN less : less[w] = [x \in {"person", "run"} |-> less[w][x]]
  <2>1. \A w \in DOMAIN m : m[w] = [x \in {"person", "run"} |-> m[w][x]]
    BY <1>1 DEF PeopleInv, SessionsOK, SessionIs
  <2>2. \A w \in DOMAIN less : w \in DOMAIN m /\ less[w] = m[w]
    BY <1>1 DEF Less
  <2> QED BY <2>1, <2>2
<1>3. SessionsOK'
  BY <1>1, <1>2, ChangeIs DEF PeopleInv
<1> QED BY <1>1, <1>3, RegistryRests DEF PeopleInv, RegistryOK

(* The keys and the Voices change. *)
LEMMA TranscribeKeeps ==
  ASSUME PeopleInv, NEW s, Transcribe(s) \/ SidecarLost(s)
  PROVE  PeopleStepOK
<1>1. PICK field, value :
        /\ s \in DOMAIN sessions /\ field \in {"keys", "runs"} /\ Change(s, field, value)
        /\ UNCHANGED <<registry, created>>
  <2>1. CASE Transcribe(s)
    BY <2>1 DEF Transcribe
  <2>2. CASE SidecarLost(s)
    BY <2>2 DEF SidecarLost
  <2> QED BY <2>1, <2>2
<1>2. SessionsOK'
  BY <1>1, ChangeIs DEF PeopleInv
<1> QED BY <1>1, <1>2, RegistryRests DEF PeopleInv, RegistryOK

LEMMA DiarizeKeeps ==
  ASSUME PeopleInv, NEW s, Diarize(s)
  PROVE  PeopleStepOK
<1>1. /\ s \in DOMAIN sessions /\ UNCHANGED <<registry, created>>
      /\ \E runs, keys : sessions' = [sessions EXCEPT ![s] = [[sessions[s] EXCEPT !.runs = runs] EXCEPT !.keys = keys]]
  BY DEF Diarize
<1>2. PICK r, old, runs, keys :
        /\ old = sessions[s] /\ r = [[old EXCEPT !.runs = runs] EXCEPT !.keys = keys]
        /\ sessions' = [sessions EXCEPT ![s] = r]
  BY <1>1
<1>3. SessionIs(old)
  BY <1>1, <1>2 DEF PeopleInv, SessionsOK
<1>4. SessionIs(r)
  <2>1. PICK new : new = [old EXCEPT !.runs = runs]
    OBVIOUS
  <2>2. r = [new EXCEPT !.keys = keys]
    BY <1>2, <2>1
  <2>3. /\ new = [x \in {"roster", "runs", "mapping", "keys"} |-> new[x]]
        /\ new.roster = old.roster /\ new.mapping = old.mapping
    BY <1>3, <2>1 DEF SessionIs
  <2>4. /\ r = [x \in {"roster", "runs", "mapping", "keys"} |-> r[x]]
        /\ r.roster = old.roster /\ r.mapping = old.mapping
    BY <2>2, <2>3
  <2> QED BY <1>3, <2>4 DEF SessionIs
<1>5. SessionsOK'
  BY <1>1, <1>2, <1>4, SessionChanges DEF PeopleInv
<1> QED BY <1>1, <1>5, RegistryRests DEF PeopleInv, RegistryOK

(* absorb_session: rosters and mappings are joined.                        *)
LEMMA AbsorbKeeps ==
  ASSUME PeopleInv, NEW target, NEW source, Absorb(target, source)
  PROVE  PeopleStepOK
<1>1. PICK to, from, r :
        /\ target \in DOMAIN sessions /\ source \in DOMAIN sessions /\ target # source
        /\ to = sessions[target] /\ from = sessions[source] /\ r = Absorbed(to, from)
        /\ sessions' = Less([sessions EXCEPT ![target] = r], {source})
        /\ UNCHANGED <<registry, created>>
  BY DEF Absorb
<1>2. SessionIs(to) /\ SessionIs(from)
  BY <1>1 DEF PeopleInv, SessionsOK
<1>3. SessionIs(r)
  <2>1. /\ r = [x \in {"roster", "runs", "mapping", "keys"} |-> r[x]]
        /\ DOMAIN r.roster = DOMAIN to.roster \cup DOMAIN from.roster
    BY <1>1 DEF Absorbed
  <2>2. PICK collided : collided = DOMAIN to.runs \cap DOMAIN from.runs
    OBVIOUS
  <2>3. r.mapping = Onto(Less(to.mapping, {v \in DOMAIN to.mapping : v[1] \in collided}),
                        Less(from.mapping, {v \in DOMAIN from.mapping : v[1] \in collided}))
    BY <1>1, <2>2 DEF Absorbed
  <2>4. \A v \in DOMAIN r.mapping : \/ v \in DOMAIN to.mapping /\ r.mapping[v] = to.mapping[v]
                                    \/ v \in DOMAIN from.mapping /\ r.mapping[v] = from.mapping[v]
    BY <2>3 DEF Onto, Less
  <2>5. DOMAIN r.roster \subseteq Identities
    BY <1>2, <2>1 DEF SessionIs
  <2>6. \A v \in DOMAIN r.mapping : r.mapping[v] = [x \in {"person", "run"} |-> r.mapping[v][x]]
    BY <1>2, <2>4 DEF SessionIs
  <2> QED BY <2>1, <2>5, <2>6 DEF SessionIs
<1>4. SessionsOK'
  BY <1>1, <1>3 DEF PeopleInv, SessionsOK, Less
<1> QED BY <1>1, <1>4, RegistryRests DEF PeopleInv, RegistryOK

(* The invariant is inductive, and the read of the registry and the names  *)
(* of a transcript follow from it.                                         *)
LEMMA InitPeople == PInit => PeopleInv
BY DEF PInit, PeopleInv, RegistryOK, SessionsOK, SessionIs, NoSession

LEMMA StepPeople == PeopleInv /\ [PNext]_pvars => PeopleStepOK
<1> SUFFICES ASSUME PeopleInv, [PNext]_pvars PROVE PeopleStepOK
  OBVIOUS
<1>1. CASE \E t \in Taps : Occurs(t)
  BY <1>1, OccursKeeps
<1>2. CASE SyncPeople
  BY <1>2, SyncKeeps
<1>3. CASE \E p \in DOMAIN registry, n \in TypedNames \cup {Blank} : Rename(p, n)
  BY <1>3, RenameKeeps
<1>4. CASE \E p, q \in DOMAIN registry : Merge(p, q) \/ MergeFails(p, q)
  BY <1>4, MergeKeeps, MergeFailsKeeps
<1>5. CASE \E p \in DOMAIN registry : \E i \in registry[p].identities : Detach(p, i)
  BY <1>5, DetachKeeps
<1>6. CASE \E s \in DOMAIN sessions : \E v \in VoicesOf(s), p \in DOMAIN registry : MapTo(s, v, p)
  BY <1>6, MapToKeeps
<1>7. CASE \E s \in DOMAIN sessions : \E v \in VoicesOf(s), n \in TypedNames : MapToName(s, v, n)
  BY <1>7, MapToNameKeeps
<1>8. CASE \E s \in DOMAIN sessions : \E v \in VoicesOf(s) : Unmap(s, v)
  BY <1>8, UnmapKeeps
<1>9. CASE \E s \in DOMAIN sessions : Transcribe(s) \/ Diarize(s) \/ SidecarLost(s)
  BY <1>9, TranscribeKeeps, DiarizeKeeps
<1>10. CASE \E s, t \in DOMAIN sessions : Absorb(s, t)
  BY <1>10, AbsorbKeeps
<1>11. CASE UNCHANGED pvars
  <2>1. UNCHANGED <<registry, created, sessions>>
    BY <1>11 DEF pvars
  <2>2. SessionsOK'
    BY <2>1 DEF PeopleInv, SessionsOK
  <2> QED BY <2>1, <2>2, RegistryRests DEF PeopleInv, RegistryOK
<1> QED BY <1>1, <1>2, <1>3, <1>4, <1>5, <1>6, <1>7, <1>8, <1>9, <1>10, <1>11 DEF PNext

LEMMA PeopleFollow == PeopleInv => RegistryLoadsBack /\ MappingsTellTheTruth
<1> SUFFICES ASSUME PeopleInv PROVE RegistryLoadsBack /\ MappingsTellTheTruth
  OBVIOUS
<1>1. RegistryLoadsBack
  <2> DEFINE Mine(p) == registry[p].identities \ UNION {registry[q].identities : q \in {q \in DOMAIN registry : q < p}}
             Stays(p) == Mine(p) # {} \/ (registry[p].identities = {} /\ registry[p].name # Blank)
  <2>1. ASSUME NEW p \in DOMAIN registry PROVE Mine(p) = registry[p].identities
    <3>1. \A q \in DOMAIN registry : q < p => registry[q].identities \cap registry[p].identities = {}
      BY DEF PeopleInv, RegistryOK
    <3> QED BY <3>1
  <2>2. \A p \in DOMAIN registry : Stays(p)
    BY <2>1 DEF PeopleInv, RegistryOK, PersonIs
  <2>3. \A p \in DOMAIN registry : [registry[p] EXCEPT !.identities = Mine(p)] = registry[p]
    BY <2>1 DEF PeopleInv, RegistryOK, PersonIs
  <2>4. Coerced(registry) = [p \in {p \in DOMAIN registry : Stays(p)} |-> [registry[p] EXCEPT !.identities = Mine(p)]]
    BY DEF Coerced
  <2>5. {p \in DOMAIN registry : Stays(p)} = DOMAIN registry
    BY <2>2
  <2>6. registry = [p \in DOMAIN registry |-> registry[p]]
    BY DEF PeopleInv, RegistryOK
  <2> HIDE DEF Mine, Stays
  <2> QED BY <2>3, <2>4, <2>5, <2>6 DEF RegistryLoadsBack
<1>2. NamedIsCounted
  BY DEF NamedIsCounted, VoicePerson, MappedAs, AppearsIn, PointedAt
<1>3. StaleNamesNobody
  BY DEF StaleNamesNobody, MappedAs, MappingApplies
<1> QED BY <1>1, <1>2, <1>3 DEF MappingsTellTheTruth

(* However taps, polls, diarizations, merges of sessions and the operator  *)
(* overtake one another (people.py, roster.py, voices.py, routes/people.py *)
(* and the Voice mapping of sessions.py): people.json reads back as it was *)
(* written, a Voice names whom it was mapped to in its own run, who is     *)
(* named is counted, and neither a merge, whole or cut short, nor a detach *)
(* or a rename leaves a mapping or a chosen name behind.                   *)
THEOREM PeopleAreWho == PInit /\ [][PNext]_pvars => WhoIsWho
<1>1. PInit /\ [][PNext]_pvars => []PeopleInv
  BY InitPeople, StepPeople, PTL DEF PeopleStepOK
<1>2. PeopleInv /\ [PNext]_pvars => [LeavesNobodyStranded]_pvars /\ [KeepsNames]_pvars
  BY StepPeople DEF PeopleStepOK
<1> QED BY <1>1, <1>2, PeopleFollow, PTL
        DEF WhoIsWho, NobodyIsStranded, NamesSurvive, LeavesNobodyStranded, KeepsNames
=============================================================================
