------------------------------- MODULE Router -------------------------------
(***************************************************************************)
(* The SLO-aware, cache-aware router (control/router.py) with its pool     *)
(* registry (control/pool.py).  Every method runs to completion on the     *)
(* single writer's thread, so each is one action.                          *)
(*                                                                         *)
(* A request is its prompt prefix, its SLO class and its workload.         *)
(***************************************************************************)
EXTENDS Integers, SequencesExt

CONSTANTS
    Pools,          \* the Pool enum
    COLOCATED,      \* the pool named in a refusal
    TIER,           \* the pool RAG requests prefer
    Rank,           \* order of the pool names: breaks ties between depths
    Keys,           \* cache keys
    KeyOf,          \* key of a prefix under the salt of a pool
    Registrable,    \* pools the orchestrator registers in this instance
    PoolStates,     \* states it registers them with
    Scrapes,        \* depths its scrapes report, valid or not
    Prompts,
    HeadroomPct, InteractiveBypass,     \* the AdmissionPolicy
    CacheMax,       \* prefix_cache_size
    HasMetrics,     \* was a MetricsRegistry passed?
    CountCap        \* bound: the counter is followed up to here

Requests == [prefix : Prompts, slo : {"interactive", "batch"},
             workload : {"chat", "rag"}]

PoolRecords == [depth : Nat, capacity : Nat \ {0}, healthy : BOOLEAN]

ASSUME RouterAssumption ==
    /\ COLOCATED \in Pools /\ TIER \in Pools
    /\ Rank \in [Pools -> Nat]
    /\ \A p, q \in Pools : Rank[p] = Rank[q] => p = q
    /\ KeyOf \in [Pools -> [Prompts -> Keys]]
    /\ Registrable \subseteq Pools
    /\ PoolStates \subseteq PoolRecords
    /\ Scrapes \subseteq Int
    /\ HeadroomPct \in 0 .. 100
    /\ InteractiveBypass \in BOOLEAN /\ HasMetrics \in BOOLEAN
    /\ CacheMax \in Nat
    /\ CountCap \in Nat

VARIABLES
    pools,      \* _pools: [registered pools -> PoolRecords]
    cache,      \* _prefix_cache: entries, least recently used first
    noHistory,  \* goodputlab_cache_no_history_total
    outcome,    \* what the last route() call was given and returned
    recent      \* history: the keys in the order of their last use

vars == <<pools, cache, noHistory, outcome, recent>>

Entries == [key : Keys, pool : Pools]

Reasons == {"no_pools_registered", "cache_hit", "all_pools_full", "load_balance"}

NoOutcome == [reason |-> "none"]

\* Types; in particular no scrape makes a queue depth negative.
TypeOK ==
    /\ DOMAIN pools \subseteq Pools
    /\ pools \in [DOMAIN pools -> PoolRecords]
    /\ cache \in Seq(Entries)
    /\ noHistory \in Nat
    /\ outcome = NoOutcome \/ outcome.reason \in Reasons
    /\ recent \in Seq(Keys)

Init ==
    /\ pools = [p \in {} |-> 0]
    /\ cache = <<>>
    /\ noHistory = 0
    /\ outcome = NoOutcome
    /\ recent = <<>>

Registered == DOMAIN pools

-----------------------------------------------------------------------------
(* Admission and selection                                                 *)

\* _admissible: healthy, and below the headroom or let through by the bypass.
Admissible(req, p) ==
    /\ p \in Registered
    /\ pools[p].healthy
    /\ \/ pools[p].depth * 100 < HeadroomPct * pools[p].capacity
       \/ req.slo = "interactive" /\ InteractiveBypass

AdmissiblePools(req) == {p \in Registered : Admissible(req, p)}

\* Order of eligible.sort: by depth, then by name.
Before(p, q) ==
    \/ pools[p].depth < pools[q].depth
    \/ pools[p].depth = pools[q].depth /\ Rank[p] <= Rank[q]

\* Mutant: only the least loaded healthy pool is considered.
SelectLeastLoadedOnly(req) ==
    {p \in AdmissiblePools(req) :
        \A q \in Registered : pools[q].healthy => Before(p, q)}

\* _select_admissible: the pool it returns, or nothing.
SelectAdmissible(req) ==
    IF req.workload = "rag" /\ Admissible(req, TIER) THEN {TIER}
    ELSE {p \in AdmissiblePools(req) : \A q \in AdmissiblePools(req) : Before(p, q)}

-----------------------------------------------------------------------------
(* The prefix cache                                                        *)

\* _prefix_key, under the salt of pool p: 16 digits of the hash of the salt and
\* the prefix, put together without a separator.  Two pools can share a key.
PrefixKey(req, p) == KeyOf[p][req.prefix]

\* The key route() looks up: salted for the chosen pool, or provisionally for
\* COLOCATED.
LookupKeys(req) ==
    IF SelectAdmissible(req) = {} THEN {PrefixKey(req, COLOCATED)}
    ELSE {PrefixKey(req, p) : p \in SelectAdmissible(req)}

Positions(key) == {i \in DOMAIN cache : cache[i].key = key}

Known(key) == Positions(key) # {}

\* OrderedDict.move_to_end.
MoveToEnd(s, i) == Append(RemoveAt(s, i), s[i])

\* The cache after `key in self._prefix_cache` and move_to_end.
Touch(key) ==
    IF Known(key) THEN MoveToEnd(cache, CHOOSE i \in Positions(key) : TRUE)
    ELSE cache

\* Mutant: eviction starts one entry too early.
StoreEarly(key, p) ==
    LET s == IF Known(key)
             THEN [Touch(key) EXCEPT ![Len(cache)].pool = p]
             ELSE Append(cache, [key |-> key, pool |-> p])
    IN  IF Len(s) > CacheMax - 1 THEN Tail(s) ELSE s

\* Mutant: eviction starts one entry too late.
StoreLate(key, p) ==
    LET s == IF Known(key)
             THEN [Touch(key) EXCEPT ![Len(cache)].pool = p]
             ELSE Append(cache, [key |-> key, pool |-> p])
    IN  IF Len(s) > CacheMax + 1 THEN Tail(s) ELSE s

\* The cache after `self._prefix_cache[key] = chosen` and the eviction of the
\* oldest entry.  A known key has just been moved to the end.
Store(key, p) ==
    LET s == IF Known(key)
             THEN [Touch(key) EXCEPT ![Len(cache)].pool = p]
             ELSE Append(cache, [key |-> key, pool |-> p])
    IN  IF Len(s) > CacheMax THEN Tail(s) ELSE s

\* History: key was used now, whenever it was used before.
Used(key) ==
    LET uses == {i \in DOMAIN recent : recent[i] = key}
    IN  Append(IF uses = {} THEN recent ELSE RemoveAt(recent, CHOOSE i \in uses : TRUE),
               key)

CountOne(n) == IF HasMetrics /\ n < CountCap THEN n + 1 ELSE n

-----------------------------------------------------------------------------
(* Actions                                                                 *)

\* register_pool, also of a pool that is already there.
RegisterPool(p, state) ==
    /\ pools' = [q \in Registered \cup {p} |-> IF q = p THEN state ELSE pools[q]]
    /\ outcome' = NoOutcome
    /\ UNCHANGED <<cache, noHistory, recent>>

\* update_depth; the depth of an unregistered pool is dropped.
UpdateDepth(p, depth) ==
    /\ p \in Registered
    /\ pools' = [pools EXCEPT ![p].depth = IF depth > 0 THEN depth ELSE 0]
    /\ outcome' = NoOutcome
    /\ UNCHANGED <<cache, noHistory, recent>>

RouteNoPools(req) ==
    /\ Registered = {}
    /\ outcome' = [req |-> req, pool |-> COLOCATED, admitted |-> FALSE,
                   reason |-> "no_pools_registered"]
    /\ UNCHANGED <<pools, cache, noHistory, recent>>

\* Mutant: a cached pool is used without asking whether it still admits.
HitUnchecked(req, key) == Known(key)

\* Mutant: a cached pool is used only if it is also the least loaded one.
HitIfChosen(req, key) ==
    \E i \in Positions(key) : cache[i].pool \in SelectAdmissible(req)

\* The entry under key names a pool that still admits the request.
Hit(req, key) == \E i \in Positions(key) : Admissible(req, cache[i].pool)

RouteCacheHit(req) ==
    /\ Registered # {}
    /\ \E key \in LookupKeys(req) :
          /\ Hit(req, key)
          /\ cache' = Touch(key)
          /\ recent' = Used(key)
          /\ outcome' = [req |-> req, pool |-> cache'[Len(cache')].pool,
                         admitted |-> TRUE, reason |-> "cache_hit", key |-> key]
    /\ UNCHANGED <<pools, noHistory>>

RouteFull(req) ==
    /\ Registered # {}
    /\ SelectAdmissible(req) = {}
    /\ \E key \in LookupKeys(req) :
          /\ ~ Hit(req, key)
          /\ cache' = Touch(key)
          /\ recent' = IF Known(key) THEN Used(key) ELSE recent
          /\ outcome' = [req |-> req, pool |-> COLOCATED, admitted |-> FALSE,
                         reason |-> "all_pools_full", key |-> key]
    /\ noHistory' = CountOne(noHistory)
    /\ UNCHANGED pools

RouteLoadBalance(req) ==
    /\ \E p \in SelectAdmissible(req) :
          LET key == PrefixKey(req, p)
          IN  /\ ~ Hit(req, key)
              /\ cache' = Store(key, p)
              /\ recent' = Used(key)
              /\ outcome' = [req |-> req, pool |-> p, admitted |-> TRUE,
                             reason |-> "load_balance", key |-> key]
    /\ noHistory' = CountOne(noHistory)
    /\ UNCHANGED pools

Route(req) ==
    \/ RouteNoPools(req)
    \/ RouteCacheHit(req)
    \/ RouteFull(req)
    \/ RouteLoadBalance(req)

Next ==
    \/ \E p \in Registrable, state \in PoolStates : RegisterPool(p, state)
    \/ \E p \in Registrable, depth \in Scrapes : UpdateDepth(p, depth)
    \/ \E req \in Requests : Route(req)

Spec == Init /\ [][Next]_vars

-----------------------------------------------------------------------------
(* Properties                                                              *)

KeysOf(s) == [i \in DOMAIN s |-> s[i].key]

\* The cache is exactly the CacheMax most recently used keys, in order of
\* use, and while it is not full it has forgotten none: move_to_end and
\* popitem(last=False) together are an LRU policy, also across requests that no
\* pool admits and across re-routed prefixes.
CacheIsLRU ==
    /\ KeysOf(cache) = SubSeq(recent, Len(recent) - Len(cache) + 1, Len(recent))
    /\ Len(cache) < CacheMax => Len(cache) = Len(recent)

\* The prefix cache never outgrows prefix_cache_size and holds one entry per
\* key, so the entry a lookup finds is the one the last store wrote.
CacheBounded ==
    /\ Len(cache) <= CacheMax
    /\ \A i, j \in DOMAIN cache : cache[i].key = cache[j].key => i = j

\* A request is only ever sent to a pool that is registered, healthy and
\* admits it now, whatever the cache remembers from before the pool filled up,
\* failed or was re-registered.
AdmitsSafely ==
    [][ (outcome'.reason # "none" /\ outcome'.admitted) =>
          Admissible(outcome'.req, outcome'.pool) ]_vars

\* A request is refused only when no pool at all would admit it.
RefusesOnlyWhenFull ==
    [][ (outcome'.reason # "none" /\ ~ outcome'.admitted) =>
          \A p \in Registered : ~ Admissible(outcome'.req, p) ]_vars

\* A cached prefix changes pool only when its pool refuses the request that
\* moves it.
PrefixMovesOnlyWhenRefused ==
    [][ \A i \in DOMAIN cache, j \in DOMAIN cache' :
          (cache[i].key = cache'[j].key /\ cache[i].pool # cache'[j].pool) =>
             ~ Admissible(outcome'.req, cache[i].pool) ]_vars

-----------------------------------------------------------------------------
(* What docstrings and comments say                                        *)

\* "Cache lookup is pool-aware: only entries under THIS pool's salt match."
\* Pools with different salts give some prefix different keys.
LookupIsPoolAware ==
    [][ outcome'.reason = "cache_hit" =>
          \E p \in SelectAdmissible(outcome'.req) : KeyOf[p] = KeyOf[outcome'.pool] ]_vars

\* "BATCH requests prefer the lowest-depth pool regardless of cache."
BatchIgnoresCache ==
    [][ (outcome'.reason # "none" /\ outcome'.admitted
           /\ outcome'.req.slo = "batch" /\ outcome'.req.workload = "chat") =>
          \A p \in AdmissiblePools(outcome'.req) :
              pools[outcome'.pool].depth <= pools[p].depth ]_vars
=============================================================================
