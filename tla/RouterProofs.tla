---------------------------- MODULE RouterProofs ----------------------------
(***************************************************************************)
(* Proofs about the router for every set of pools, prompts and keys, cache *)
(* size and policy.                                                        *)
(***************************************************************************)
EXTENDS Router, TLAPS, SequenceTheorems, WellFoundedInduction

-----------------------------------------------------------------------------
(* The cache as a sequence.                                                *)

\* move_to_end keeps the entries and their order, except that entry i is last.
LEMMA MoveToEndFacts ==
    ASSUME NEW E, NEW s \in Seq(E), NEW i \in 1 .. Len(s)
    PROVE  /\ MoveToEnd(s, i) \in Seq(E)
           /\ Len(MoveToEnd(s, i)) = Len(s)
           /\ \A j \in 1 .. Len(s) :
                MoveToEnd(s, i)[j] = IF j = Len(s) THEN s[i]
                                     ELSE IF j < i THEN s[j] ELSE s[j + 1]
  <1> DEFINE a == SubSeq(s, 1, i - 1)
             b == SubSeq(s, i + 1, Len(s))
             t == a \o b
  <1>1. Len(s) \in Nat /\ i \in Int /\ 1 <= i /\ i <= Len(s) /\ s[i] \in E
    OBVIOUS
  <1>2. /\ a \in Seq(E) /\ Len(a) = i - 1
        /\ \A j \in 1 .. (i - 1) : a[j] = s[j]
    BY <1>1
  <1>3. /\ b \in Seq(E) /\ Len(b) = Len(s) - i
        /\ \A j \in 1 .. (Len(s) - i) : b[j] = s[j + i]
    BY <1>1
  <1> HIDE DEF a, b
  <1>4. /\ t \in Seq(E) /\ Len(t) = Len(s) - 1
        /\ \A j \in 1 .. (Len(s) - 1) :
              t[j] = IF j < i THEN s[j] ELSE s[j + 1]
    <2>1. /\ t \in Seq(E) /\ Len(t) = Len(a) + Len(b)
          /\ \A j \in 1 .. Len(a) + Len(b) :
                t[j] = IF j <= Len(a) THEN a[j] ELSE b[j - Len(a)]
      BY <1>2, <1>3, ConcatProperties
    <2> HIDE DEF t
    <2>2. ASSUME NEW j \in 1 .. (Len(s) - 1)
          PROVE  t[j] = IF j < i THEN s[j] ELSE s[j + 1]
      <3>1. CASE j < i
        <4>0. j \in 1 .. Len(a) + Len(b) /\ j <= Len(a) /\ j \in 1 .. (i - 1)
          BY <1>1, <1>2, <1>3, <3>1
        <4>1. t[j] = a[j]
          BY <2>1, <4>0
        <4>2. a[j] = s[j]
          BY <1>2, <4>0
        <4>3. QED  BY <3>1, <4>1, <4>2
      <3>2. CASE ~ (j < i)
        <4>0. j \in 1 .. Len(a) + Len(b) /\ ~ (j <= Len(a))
          BY <1>1, <1>2, <1>3, <3>2
        <4>1. t[j] = b[j - Len(a)]
          BY <2>1, <4>0
        <4>2. j - Len(a) \in 1 .. (Len(s) - i) /\ (j - Len(a)) + i = j + 1
          BY <1>1, <1>2, <3>2
        <4>3. QED  BY <1>3, <3>2, <4>1, <4>2
      <3>3. QED  BY <3>1, <3>2
    <2>3. QED  BY <1>1, <1>2, <1>3, <2>1, <2>2
  <1>5. MoveToEnd(s, i) = Append(t, s[i])
    BY DEF MoveToEnd, RemoveAt, a, b
  <1> HIDE DEF t
  <1>6. QED  BY <1>1, <1>4, <1>5

\* The part of the state the proofs need.
CacheInv ==
    /\ DOMAIN pools \subseteq Pools
    /\ cache \in Seq(Entries)
    /\ CacheBounded

\* A key is at one position of the cache at most.
LEMMA Positioned ==
    ASSUME CacheInv, NEW key
    PROVE  /\ DOMAIN cache = 1 .. Len(cache) /\ Len(cache) \in Nat
           /\ Positions(key) \subseteq 1 .. Len(cache)
           /\ \A i, j \in Positions(key) : i = j
  <1>1. DOMAIN cache = 1 .. Len(cache) /\ Len(cache) \in Nat
    BY DEF CacheInv
  <1>2. QED  BY <1>1 DEF Positions, CacheInv, CacheBounded

\* A lookup permutes the cache; the key it looked up, if known, ends last.
LEMMA TouchFacts ==
    ASSUME CacheInv, NEW key
    PROVE  /\ Touch(key) \in Seq(Entries)
           /\ Len(Touch(key)) = Len(cache)
           /\ \A j \in 1 .. Len(cache) : \E i \in 1 .. Len(cache) :
                 Touch(key)[j] = cache[i]
           /\ \A j, k \in 1 .. Len(cache) :
                 Touch(key)[j].key = Touch(key)[k].key => j = k
           /\ Known(key) => /\ Len(cache) > 0
                            /\ Touch(key)[Len(cache)].key = key
                            /\ \A i \in Positions(key) :
                                  Touch(key)[Len(cache)] = cache[i]
  <1>1. /\ DOMAIN cache = 1 .. Len(cache) /\ Len(cache) \in Nat
        /\ cache \in Seq(Entries)
    BY Positioned DEF CacheInv
  <1>2. \A i, j \in 1 .. Len(cache) : cache[i].key = cache[j].key => i = j
    BY <1>1 DEF CacheInv, CacheBounded
  <1>3. CASE ~ Known(key)
    <2>1. Touch(key) = cache
      BY <1>3 DEF Touch
    <2>2. QED  BY <1>1, <1>2, <1>3, <2>1
  <1>4. CASE Known(key)
    <2> DEFINE i == CHOOSE x \in Positions(key) : TRUE
               t == MoveToEnd(cache, i)
               n == Len(cache)
    <2>0. n \in Nat
      BY <1>1
    <2>1. i \in Positions(key)
      BY <1>4 DEF Known
    <2>2. i \in 1 .. n /\ cache[i].key = key
      BY <2>1, Positioned DEF Positions
    <2>3. Touch(key) = t
      BY <1>4 DEF Touch
    <2> HIDE DEF i
    <2>4. /\ t \in Seq(Entries) /\ Len(t) = n
          /\ \A j \in 1 .. n :
               t[j] = IF j = n THEN cache[i] ELSE IF j < i THEN cache[j] ELSE cache[j + 1]
      BY <1>1, <2>2, MoveToEndFacts
    <2>5a. \A j, k \in 1 .. n : cache[j].key = cache[k].key => j = k
      BY <1>2
    <2> HIDE DEF t, n
    <2>5. \A j \in 1 .. n : \E k \in 1 .. n : t[j] = cache[k]
      <3> SUFFICES ASSUME NEW j \in 1 .. n PROVE \E k \in 1 .. n : t[j] = cache[k]
        OBVIOUS
      <3>1. CASE j = n
        BY <2>2, <2>4, <3>1
      <3>2. CASE j # n /\ j < i
        BY <2>4, <3>2
      <3>3. CASE j # n /\ ~ (j < i)
        <4>1. j + 1 \in 1 .. n
          BY <2>0, <3>3
        <4>2. QED  BY <2>4, <3>3, <4>1
      <3>4. QED  BY <3>1, <3>2, <3>3
    <2>6. \A j, k \in 1 .. n : t[j].key = t[k].key => j = k
      <3> DEFINE src(j) == IF j = n THEN i ELSE IF j < i THEN j ELSE j + 1
      <3>1. \A j \in 1 .. n : src(j) \in 1 .. n /\ t[j] = cache[src(j)]
        BY <2>0, <2>2, <2>4
      <3>2. \A j, k \in 1 .. n : src(j) = src(k) => j = k
        BY <2>0, <2>2
      <3> HIDE DEF src
      <3>3. QED  BY <2>5a, <3>1, <3>2
    <2>7. n > 0 /\ n \in 1 .. n /\ t[n] = cache[i]
      BY <2>0, <2>2, <2>4
    <2>8. \A j \in Positions(key) : t[n] = cache[j]
      BY <2>1, <2>7, Positioned
    <2>9. QED  BY <2>2, <2>3, <2>4, <2>5, <2>6, <2>7, <2>8 DEF n
  <1>5. QED  BY <1>3, <1>4

\* Recording an admitted request keeps the cache well formed.
LEMMA StoreFacts ==
    ASSUME CacheInv, NEW p \in Pools, NEW key \in Keys
    PROVE  /\ Store(key, p) \in Seq(Entries)
           /\ Len(Store(key, p)) <= CacheMax
           /\ \A j, k \in 1 .. Len(Store(key, p)) :
                 Store(key, p)[j].key = Store(key, p)[k].key => j = k
           /\ \A j \in 1 .. Len(Store(key, p)) :
                 \/ Store(key, p)[j].key = key
                 \/ \E i \in 1 .. Len(cache) : Store(key, p)[j] = cache[i]
  <1> DEFINE n == Len(cache)
             u == Touch(key)
             e == [key |-> key, pool |-> p]
             s == IF Known(key) THEN [u EXCEPT ![n].pool = p] ELSE Append(cache, e)
  <1>1. /\ n \in Nat /\ cache \in Seq(Entries) /\ n <= CacheMax /\ CacheMax \in Nat
        /\ \A i, j \in 1 .. n : cache[i].key = cache[j].key => i = j
        /\ \A i \in 1 .. n : cache[i] \in Entries
    BY Positioned, RouterAssumption DEF CacheInv, CacheBounded
  <1>2. e \in Entries /\ e.key = key /\ e.pool = p
    BY DEF Entries
  <1>3. Store(key, p) = IF Len(s) > CacheMax THEN Tail(s) ELSE s
    BY DEF Store
  <1>0. ~ Known(key) => \A i \in 1 .. n : cache[i].key # key
    BY Positioned DEF Known, Positions
  <1>4. /\ s \in Seq(Entries)
        /\ Len(s) <= n + 1
        /\ \A j, k \in 1 .. Len(s) : s[j].key = s[k].key => j = k
        /\ \A j \in 1 .. Len(s) :
              s[j].key = key \/ \E i \in 1 .. n : s[j] = cache[i]
    <2>1. CASE Known(key)
      <3>1. /\ u \in Seq(Entries) /\ Len(u) = n /\ n > 0
            /\ \A j \in 1 .. n : \E i \in 1 .. n : u[j] = cache[i]
            /\ \A j, k \in 1 .. n : u[j].key = u[k].key => j = k
            /\ u[n].key = key
        BY <2>1, TouchFacts
      <3> HIDE DEF u
      <3>2. s = [u EXCEPT ![n] = [u[n] EXCEPT !.pool = p]]
        BY <2>1
      <3>3. n \in 1 .. n /\ u[n] \in Entries /\ \A j \in 1 .. n : u[j] \in Entries
        BY <1>1, <3>1
      <3>4. [u[n] EXCEPT !.pool = p] = e
        BY <3>1, <3>3 DEF Entries
      <3>5. s = [u EXCEPT ![n] = e]
        BY <3>2, <3>4
      <3>6. s \in Seq(Entries) /\ Len(s) = n
        BY <1>2, <3>1, <3>3, <3>5, ExceptSeq
      <3>7. \A j \in 1 .. n : s[j] = IF j = n THEN e ELSE u[j]
        BY <1>1, <3>1, <3>5
      <3> HIDE DEF s, e
      <3>8. \A j \in 1 .. n : s[j].key = u[j].key
        BY <1>2, <3>1, <3>7
      <3>9. \A j \in 1 .. n :
              s[j].key = key \/ \E i \in 1 .. n : s[j] = cache[i]
        BY <1>1, <1>2, <3>1, <3>7
      <3> HIDE DEF n
      <3>10. \A j, k \in 1 .. n : s[j].key = s[k].key => j = k
        BY <3>1, <3>8
      <3>11. Len(s) <= n + 1
        BY <1>1, <3>6
      <3>12. QED  BY <3>6, <3>9, <3>10, <3>11
    <2>2. CASE ~ Known(key)
      <3>1. s = Append(cache, e)
        BY <2>2
      <3>2. \A i \in 1 .. n : cache[i].key # key
        BY <1>0, <2>2
      <3> HIDE DEF s, e
      <3>3. /\ s \in Seq(Entries) /\ Len(s) = n + 1
            /\ \A j \in 1 .. n : s[j] = cache[j]
            /\ s[n + 1] = e
        BY <1>1, <1>2, <3>1, AppendProperties
      <3>4. \A j \in 1 .. Len(s) : j = n + 1 \/ j \in 1 .. n
        BY <1>1, <3>3
      <3>5. \A j, k \in 1 .. Len(s) : s[j].key = s[k].key => j = k
        BY <1>1, <1>2, <3>2, <3>3, <3>4
      <3>6. \A j \in 1 .. Len(s) :
              s[j].key = key \/ \E i \in 1 .. n : s[j] = cache[i]
        BY <1>1, <1>2, <3>3, <3>4
      <3>7. QED  BY <1>1, <3>3, <3>5, <3>6
    <2>3. QED  BY <2>1, <2>2
  <1> HIDE DEF s, n
  <1>5. CASE Len(s) > CacheMax
    <2>1. Store(key, p) = Tail(s) /\ s # <<>>
      BY <1>1, <1>3, <1>4, <1>5
    <2>2. /\ Tail(s) \in Seq(Entries) /\ Len(Tail(s)) = Len(s) - 1
          /\ \A i \in 1 .. Len(Tail(s)) : Tail(s)[i] = s[i + 1]
      BY <1>4, <2>1, HeadTailProperties
    <2>3. Len(s) \in Nat /\ Len(s) - 1 <= CacheMax
      BY <1>1, <1>4
    <2>4. \A i \in 1 .. Len(s) - 1 : i + 1 \in 1 .. Len(s)
      BY <2>3
    <2> DEFINE t == Tail(s)
    <2> HIDE DEF t
    <2>5. \A j, k \in 1 .. Len(s) - 1 : t[j].key = t[k].key => j = k
      <3> SUFFICES ASSUME NEW j \in 1 .. Len(s) - 1, NEW k \in 1 .. Len(s) - 1,
                          t[j].key = t[k].key
                   PROVE  j = k
        OBVIOUS
      <3>1. s[j + 1].key = s[k + 1].key
        BY <2>2 DEF t
      <3>2. j + 1 = k + 1
        BY <1>4, <2>4, <3>1
      <3>3. QED  BY <2>3, <3>2
    <2>6. \A j \in 1 .. Len(s) - 1 :
            t[j].key = key \/ \E i \in 1 .. n : t[j] = cache[i]
      BY <1>4, <2>2, <2>4 DEF t
    <2>7. QED  BY <2>1, <2>2, <2>3, <2>5, <2>6 DEF t, n
  <1>6. CASE ~ (Len(s) > CacheMax)
    <2>1. Store(key, p) = s
      BY <1>3, <1>6
    <2>2. Len(s) \in Nat
      BY <1>4
    <2>3. QED  BY <1>1, <1>4, <1>6, <2>1, <2>2 DEF n
  <1>7. QED  BY <1>5, <1>6

-----------------------------------------------------------------------------
(* The cache invariant.                                                    *)

\* The router sends a chosen pool only requests the pool admits.
LEMMA SelectedAdmits ==
    ASSUME NEW req, NEW p \in SelectAdmissible(req)
    PROVE  p \in Registered /\ Admissible(req, p)
  BY DEF SelectAdmissible, AdmissiblePools, Admissible

\* _prefix_key yields a key.
LEMMA KeyIsKey ==
    ASSUME NEW req \in Requests, NEW p \in Pools
    PROVE  PrefixKey(req, p) \in Keys
  BY RouterAssumption DEF PrefixKey, Requests

\* route() leaves a lookup's permutation of the cache well formed.
LEMMA TouchKeepsCache ==
    ASSUME CacheInv, NEW key, cache' = Touch(key)
    PROVE  cache' \in Seq(Entries) /\ CacheBounded'
  <1>1. /\ cache' \in Seq(Entries) /\ Len(cache') = Len(cache)
        /\ \A j \in 1 .. Len(cache) : \E i \in 1 .. Len(cache) : cache'[j] = cache[i]
        /\ \A j, k \in 1 .. Len(cache) : cache'[j].key = cache'[k].key => j = k
    <2> DEFINE u == Touch(key)
    <2>1. /\ u \in Seq(Entries) /\ Len(u) = Len(cache)
          /\ \A j \in 1 .. Len(cache) : \E i \in 1 .. Len(cache) : u[j] = cache[i]
          /\ \A j, k \in 1 .. Len(cache) : u[j].key = u[k].key => j = k
      BY TouchFacts
    <2>2. cache' = u
      OBVIOUS
    <2> HIDE DEF u
    <2>3. QED  BY <2>1, <2>2
  <1>2. DOMAIN cache = 1 .. Len(cache) /\ DOMAIN cache' = 1 .. Len(cache)
    BY <1>1 DEF CacheInv
  <1>3. CacheBounded'
    BY <1>1, <1>2 DEF CacheInv, CacheBounded
  <1>4. QED  BY <1>1, <1>3

\* CacheInv is inductive.
LEMMA NextKeepsCache == CacheInv /\ [Next]_vars => CacheInv'
  <1> SUFFICES ASSUME CacheInv, [Next]_vars PROVE CacheInv'
    OBVIOUS
  <1>1. CASE cache' = cache /\ DOMAIN pools' \subseteq Pools
    BY <1>1 DEF CacheInv, CacheBounded
  <1>2. ASSUME NEW p \in Registrable, NEW state \in PoolStates, RegisterPool(p, state)
        PROVE  CacheInv'
    BY <1>1, <1>2, RouterAssumption DEF RegisterPool, Registered, CacheInv
  <1>3. ASSUME NEW p \in Registrable, NEW depth \in Scrapes, UpdateDepth(p, depth)
        PROVE  CacheInv'
    BY <1>1, <1>3 DEF UpdateDepth, CacheInv
  <1>4. ASSUME NEW req \in Requests, Route(req)
        PROVE  CacheInv'
    <2>1. CASE RouteNoPools(req)
      BY <1>1, <2>1 DEF RouteNoPools, CacheInv
    <2>2. CASE RouteCacheHit(req)
      <3>1. PICK key \in LookupKeys(req) : cache' = Touch(key)
        BY <2>2 DEF RouteCacheHit
      <3>2. QED  BY <2>2, <3>1, TouchKeepsCache DEF RouteCacheHit, CacheInv
    <2>3. CASE RouteFull(req)
      <3>1. PICK key \in LookupKeys(req) : cache' = Touch(key)
        BY <2>3 DEF RouteFull
      <3>2. QED  BY <2>3, <3>1, TouchKeepsCache DEF RouteFull, CacheInv
    <2>4. CASE RouteLoadBalance(req)
      <3>1. PICK p \in SelectAdmissible(req) : cache' = Store(PrefixKey(req, p), p)
        BY <2>4 DEF RouteLoadBalance
      <3>2. p \in Pools
        BY SelectedAdmits DEF CacheInv, Registered
      <3>3. /\ cache' \in Seq(Entries) /\ Len(cache') <= CacheMax
            /\ \A j, k \in 1 .. Len(cache') : cache'[j].key = cache'[k].key => j = k
        BY <3>1, <3>2, KeyIsKey, StoreFacts
      <3>4. DOMAIN cache' = 1 .. Len(cache')
        BY <3>3
      <3>5. CacheBounded'
        BY <3>3, <3>4 DEF CacheBounded
      <3>6. QED  BY <2>4, <3>3, <3>5 DEF RouteLoadBalance, CacheInv
    <2>5. QED  BY <1>4, <2>1, <2>2, <2>3, <2>4 DEF Route
  <1>5. CASE UNCHANGED vars
    BY <1>1, <1>5 DEF vars, CacheInv
  <1>6. QED  BY <1>2, <1>3, <1>4, <1>5 DEF Next

\* In every reachable state of the router the prefix cache is well formed.
THEOREM CacheInvariant == Spec => []CacheInv
  <1>1. Init => CacheInv
    BY RouterAssumption DEF Init, CacheInv, CacheBounded
  <1>2. QED  BY <1>1, NextKeepsCache, PTL DEF Spec

\* Whatever requests, registrations and scrapes arrive, the prefix cache of
\* Router.route never holds more than prefix_cache_size entries, nor two for
\* one key.
THEOREM CacheStaysBounded == Spec => []CacheBounded
  <1>1. CacheInv => CacheBounded
    BY DEF CacheInv
  <1>2. QED  BY <1>1, CacheInvariant, PTL

-----------------------------------------------------------------------------
(* The cache is the recent end of the history.                             *)

\* The history a use leaves behind, by position: a key used before moves to the
\* end, another is put there.
LEMMA UsedFacts ==
    ASSUME recent \in Seq(Keys), NEW key \in Keys,
           \A i, j \in 1 .. Len(recent) : recent[i] = recent[j] => i = j
    PROVE  /\ Used(key) \in Seq(Keys)
           /\ (\A i \in 1 .. Len(recent) : recent[i] # key) =>
                 /\ Len(Used(key)) = Len(recent) + 1
                 /\ \A j \in 1 .. Len(recent) : Used(key)[j] = recent[j]
                 /\ Used(key)[Len(recent) + 1] = key
           /\ \A i \in 1 .. Len(recent) :
                 recent[i] = key =>
                    /\ Len(Used(key)) = Len(recent)
                    /\ \A j \in 1 .. Len(recent) :
                          Used(key)[j] = IF j = Len(recent) THEN key
                                         ELSE IF j < i THEN recent[j] ELSE recent[j + 1]
  <1> DEFINE uses == {i \in DOMAIN recent : recent[i] = key}
             m == CHOOSE i \in uses : TRUE
  <1>1. DOMAIN recent = 1 .. Len(recent) /\ Len(recent) \in Nat
    OBVIOUS
  <1>2. CASE uses = {}
    <2>1. Used(key) = Append(recent, key)
      BY <1>2 DEF Used
    <2>2. \A i \in 1 .. Len(recent) : recent[i] # key
      BY <1>1, <1>2
    <2>3. /\ Used(key) \in Seq(Keys) /\ Len(Used(key)) = Len(recent) + 1
          /\ \A j \in 1 .. Len(recent) : Used(key)[j] = recent[j]
          /\ Used(key)[Len(recent) + 1] = key
      BY <1>1, <2>1, AppendProperties
    <2>4. QED  BY <2>2, <2>3
  <1>3. CASE uses # {}
    <2>1. m \in uses
      BY <1>3
    <2>2. m \in 1 .. Len(recent) /\ recent[m] = key
      BY <1>1, <2>1
    <2>3. Used(key) = MoveToEnd(recent, m)
      <3>1. Used(key) = Append(RemoveAt(recent, m), key)
        BY <1>3 DEF Used
      <3>2. QED  BY <2>2, <3>1 DEF MoveToEnd
    <2> HIDE DEF m
    <2>4. \A i \in 1 .. Len(recent) : recent[i] = key => i = m
      BY <2>2
    <2>5. /\ Used(key) \in Seq(Keys) /\ Len(Used(key)) = Len(recent)
          /\ \A j \in 1 .. Len(recent) :
                Used(key)[j] = IF j = Len(recent) THEN key
                               ELSE IF j < m THEN recent[j] ELSE recent[j + 1]
      BY <2>2, <2>3, MoveToEndFacts
    <2>6. QED  BY <2>2, <2>4, <2>5
  <1>4. QED  BY <1>2, <1>3

\* No key is twice in the history.
LEMMA UsedOnce ==
    ASSUME recent \in Seq(Keys), NEW key \in Keys,
           \A i, j \in 1 .. Len(recent) : recent[i] = recent[j] => i = j
    PROVE  \A i, j \in 1 .. Len(Used(key)) : Used(key)[i] = Used(key)[j] => i = j
  <1> DEFINE u == Used(key)
             n == Len(recent)
  <1>1. n \in Nat
    OBVIOUS
  <1>2. CASE \A i \in 1 .. n : recent[i] # key
    <2>1. Len(u) = n + 1 /\ (\A j \in 1 .. n : u[j] = recent[j]) /\ u[n + 1] = key
      BY <1>2, UsedFacts
    <2> HIDE DEF u, n
    <2>2. \A j \in 1 .. n + 1 : j = n + 1 \/ j \in 1 .. n
      BY <1>1
    <2>3. QED  BY <1>2, <2>1, <2>2 DEF n, u
  <1>3. ASSUME NEW m \in 1 .. n, recent[m] = key
        PROVE  \A i, j \in 1 .. Len(u) : u[i] = u[j] => i = j
    <2>1. /\ Len(u) = n
          /\ \A j \in 1 .. n :
                u[j] = IF j = n THEN key ELSE IF j < m THEN recent[j] ELSE recent[j + 1]
      BY <1>3, UsedFacts
    <2>2. \A i, j \in 1 .. n : recent[i] = recent[j] => i = j
      OBVIOUS
    <2> DEFINE src(j) == IF j = n THEN m ELSE IF j < m THEN j ELSE j + 1
    <2> HIDE DEF u, n
    <2>3. \A j \in 1 .. n : src(j) \in 1 .. n /\ u[j] = recent[src(j)]
      BY <1>1, <1>3, <2>1
    <2>4. \A j, k \in 1 .. n : src(j) = src(k) => j = k
      BY <1>1, <1>3
    <2> HIDE DEF src
    <2>5. \A j, k \in 1 .. n : u[j] = u[k] => src(j) = src(k)
      BY <2>2, <2>3
    <2>6. QED  BY <2>1, <2>4, <2>5
  <1>4. QED  BY <1>2, <1>3

\* What a lookup of a known key does to the cache, by position.
LEMMA TouchByPosition ==
    ASSUME CacheInv, NEW key, NEW i \in 1 .. Len(cache), cache[i].key = key
    PROVE  /\ Touch(key) \in Seq(Entries) /\ Len(Touch(key)) = Len(cache)
           /\ \A j \in 1 .. Len(cache) :
                 Touch(key)[j] = IF j = Len(cache) THEN cache[i]
                                 ELSE IF j < i THEN cache[j] ELSE cache[j + 1]
  <1> DEFINE m == CHOOSE x \in Positions(key) : TRUE
  <1>1. i \in Positions(key)
    BY Positioned DEF Positions
  <1>2. m = i
    <2>1. m \in Positions(key)
      BY <1>1
    <2>2. QED  BY <1>1, <2>1, Positioned
  <1>3. Touch(key) = MoveToEnd(cache, i)
    BY <1>1, <1>2 DEF Touch, Known
  <1>4. cache \in Seq(Entries)
    BY DEF CacheInv
  <1>5. QED  BY <1>3, <1>4, MoveToEndFacts

\* What recording an admitted request does to the keys of the cache: a known
\* one moves to the end, a new one is put there, and pushes the oldest out of a
\* full cache.
LEMMA StoreByPosition ==
    ASSUME CacheInv, NEW p \in Pools, NEW key \in Keys
    PROVE  /\ \A i \in 1 .. Len(cache) :
                 cache[i].key = key =>
                    /\ Len(Store(key, p)) = Len(cache)
                    /\ \A j \in 1 .. Len(cache) :
                          Store(key, p)[j].key =
                             IF j = Len(cache) THEN key
                             ELSE IF j < i THEN cache[j].key ELSE cache[j + 1].key
           /\ (\A i \in 1 .. Len(cache) : cache[i].key # key) =>
                 /\ Len(cache) < CacheMax =>
                       /\ Len(Store(key, p)) = Len(cache) + 1
                       /\ Store(key, p)[Len(cache) + 1].key = key
                       /\ \A j \in 1 .. Len(cache) : Store(key, p)[j].key = cache[j].key
                 /\ Len(cache) = CacheMax =>
                       /\ Len(Store(key, p)) = Len(cache)
                       /\ \A j \in 1 .. Len(cache) :
                             Store(key, p)[j].key =
                                IF j = Len(cache) THEN key ELSE cache[j + 1].key
  <1> DEFINE n == Len(cache)
             e == [key |-> key, pool |-> p]
  <1>1. /\ n \in Nat /\ cache \in Seq(Entries) /\ n <= CacheMax /\ CacheMax \in Nat
        /\ \A i \in 1 .. n : cache[i] \in Entries
    BY Positioned, RouterAssumption DEF CacheInv, CacheBounded
  <1>2. e \in Entries /\ e.key = key
    BY DEF Entries
  <1>3. ASSUME NEW i \in 1 .. n, cache[i].key = key
        PROVE  /\ Len(Store(key, p)) = n
               /\ \A j \in 1 .. n :
                     Store(key, p)[j].key =
                        IF j = n THEN key ELSE IF j < i THEN cache[j].key ELSE cache[j + 1].key
    <2> DEFINE u == Touch(key)
               s == [u EXCEPT ![n].pool = p]
    <2>1. Known(key)
      BY <1>3, Positioned DEF Known, Positions
    <2>2. /\ u \in Seq(Entries) /\ Len(u) = n
          /\ \A j \in 1 .. n :
                u[j] = IF j = n THEN cache[i] ELSE IF j < i THEN cache[j] ELSE cache[j + 1]
      BY <1>3, TouchByPosition
    <2>3. Store(key, p) = IF Len(s) > CacheMax THEN Tail(s) ELSE s
      BY <2>1 DEF Store
    <2>4. n \in 1 .. n
      BY <1>1, <1>3
    <2>5. s = [u EXCEPT ![n] = [u[n] EXCEPT !.pool = p]]
      OBVIOUS
    <2> HIDE DEF u
    <2>6. u[n] \in Entries
      BY <2>2, <2>4
    <2>7. [u[n] EXCEPT !.pool = p] \in Entries /\ [u[n] EXCEPT !.pool = p].key = u[n].key
      BY <2>6 DEF Entries
    <2> DEFINE f == [u[n] EXCEPT !.pool = p]
    <2> HIDE DEF f, s, n
    <2>8. s = [u EXCEPT ![n] = f]
      BY <2>5 DEF f
    <2>9. s \in Seq(Entries) /\ Len(s) = n
      BY <2>2, <2>4, <2>7, <2>8, ExceptSeq DEF f
    <2>10. \A j \in 1 .. n : s[j] = IF j = n THEN f ELSE u[j]
      BY <2>2, <2>4, <2>8
    <2>11. f.key = u[n].key
      BY <2>7 DEF f
    <2>12. Store(key, p) = s
      BY <1>1, <2>3, <2>9
    <2>13. \A j \in 1 .. n : s[j].key = u[j].key
      BY <2>10, <2>11
    <2>14. QED  BY <1>3, <2>2, <2>9, <2>12, <2>13
  <1>4. ASSUME \A i \in 1 .. n : cache[i].key # key
        PROVE  /\ n < CacheMax =>
                     /\ Len(Store(key, p)) = n + 1
                     /\ Store(key, p)[n + 1].key = key
                     /\ \A j \in 1 .. n : Store(key, p)[j].key = cache[j].key
               /\ n = CacheMax =>
                     /\ Len(Store(key, p)) = n
                     /\ \A j \in 1 .. n :
                           Store(key, p)[j].key = IF j = n THEN key ELSE cache[j + 1].key
    <2> DEFINE s == Append(cache, e)
    <2>1. ~ Known(key)
      BY <1>4, Positioned DEF Known, Positions
    <2>2. Store(key, p) = IF Len(s) > CacheMax THEN Tail(s) ELSE s
      BY <2>1 DEF Store
    <2> HIDE DEF e
    <2>3. /\ s \in Seq(Entries) /\ Len(s) = n + 1
          /\ \A j \in 1 .. n : s[j] = cache[j]
          /\ s[n + 1] = e
      BY <1>1, <1>2, AppendProperties
    <2> HIDE DEF s, n
    <2>4. CASE n < CacheMax
      <3>1. Store(key, p) = s
        BY <1>1, <2>2, <2>3, <2>4
      <3>2. QED  BY <1>1, <1>2, <2>3, <2>4, <3>1
    <2>5. CASE n = CacheMax
      <3>1. Store(key, p) = Tail(s) /\ s # <<>>
        BY <1>1, <2>2, <2>3, <2>5
      <3>2. Len(Tail(s)) = n /\ \A j \in 1 .. n : Tail(s)[j] = s[j + 1]
        BY <1>1, <2>3, <3>1, HeadTailProperties
      <3>3. \A j \in 1 .. n : j # n => j + 1 \in 1 .. n
        BY <1>1
      <3>4. \A j \in 1 .. n : Tail(s)[j].key = IF j = n THEN key ELSE cache[j + 1].key
        BY <1>2, <2>3, <3>2, <3>3
      <3>5. QED  BY <1>1, <2>5, <3>1, <3>2, <3>4
    <2>6. QED  BY <1>1, <2>4, <2>5
  <1>5. QED  BY <1>3, <1>4

\* The cached keys are the last ones of the history, and a cache that is not
\* full has forgotten none.
RecentEnd ==
    /\ recent \in Seq(Keys)
    /\ \A i, j \in 1 .. Len(recent) : recent[i] = recent[j] => i = j
    /\ Len(cache) <= Len(recent)
    /\ Len(cache) < CacheMax => Len(recent) = Len(cache)
    /\ \A j \in 1 .. Len(cache) :
          cache[j].key = recent[Len(recent) - Len(cache) + j]

\* A lookup that refreshes its entry keeps the cache the recent end.
LEMMA TouchIsLRU ==
    ASSUME CacheInv, RecentEnd, NEW key \in Keys, Known(key),
           cache' = Touch(key), recent' = Used(key)
    PROVE  RecentEnd'
  <1> DEFINE n == Len(cache)
             m == Len(recent)
  <1>1. /\ n \in Nat /\ m \in Nat /\ n <= m
        /\ n < CacheMax => m = n
        /\ \A j \in 1 .. n : cache[j].key = recent[m - n + j]
    BY Positioned DEF RecentEnd
  <1>2. PICK i \in 1 .. n : cache[i].key = key
    BY Positioned DEF Known, Positions
  <1>3. m - n + i \in 1 .. m /\ recent[m - n + i] = key
    BY <1>1, <1>2
  <1>4. /\ Len(cache') = n
        /\ \A j \in 1 .. n :
              cache'[j] = IF j = n THEN cache[i] ELSE IF j < i THEN cache[j] ELSE cache[j + 1]
    BY <1>2, TouchByPosition
  <1>5. /\ recent' \in Seq(Keys) /\ Len(recent') = m
        /\ \A j \in 1 .. m :
              recent'[j] = IF j = m THEN key
                           ELSE IF j < m - n + i THEN recent[j] ELSE recent[j + 1]
    <2> DEFINE at == m - n + i
    <2>1. at \in 1 .. Len(recent) /\ recent[at] = key
      BY <1>3
    <2> HIDE DEF at
    <2>2. /\ recent' \in Seq(Keys) /\ Len(recent') = Len(recent)
          /\ \A j \in 1 .. Len(recent) :
                recent'[j] = IF j = Len(recent) THEN key
                             ELSE IF j < at THEN recent[j] ELSE recent[j + 1]
      BY <2>1, UsedFacts DEF RecentEnd
    <2>3. QED  BY <2>2 DEF at
  <1>6. \A k, j \in 1 .. Len(recent') : recent'[k] = recent'[j] => k = j
    BY UsedOnce DEF RecentEnd
  <1> HIDE DEF n, m
  <1>7. ASSUME NEW j \in 1 .. n
        PROVE  cache'[j].key = recent'[m - n + j]
    <2>0. m - n + j \in 1 .. m
      BY <1>1
    <2>1. CASE j = n
      <3>1. m - n + j = m
        BY <1>1, <2>1
      <3>2. QED  BY <1>2, <1>4, <1>5, <2>0, <2>1, <3>1
    <2>2. CASE j # n /\ j < i
      <3>1. m - n + j # m /\ m - n + j < m - n + i
        BY <1>1, <2>2
      <3>2. cache'[j].key = cache[j].key
        BY <1>4, <2>2
      <3>3. recent'[m - n + j] = recent[m - n + j]
        BY <1>5, <2>0, <3>1
      <3>4. QED  BY <1>1, <3>2, <3>3
    <2>3. CASE j # n /\ ~ (j < i)
      <3>1. /\ m - n + j # m /\ ~ (m - n + j < m - n + i)
            /\ j + 1 \in 1 .. n /\ m - n + (j + 1) = (m - n + j) + 1
        BY <1>1, <2>3
      <3>2. cache'[j].key = cache[j + 1].key
        BY <1>4, <2>3
      <3>3. recent'[m - n + j] = recent[(m - n + j) + 1]
        BY <1>5, <2>0, <3>1
      <3>4. cache[j + 1].key = recent[m - n + (j + 1)]
        BY <1>1, <3>1
      <3>5. QED  BY <3>1, <3>2, <3>3, <3>4
    <2>4. QED  BY <2>1, <2>2, <2>3
  <1>8. QED  BY <1>1, <1>4, <1>5, <1>6, <1>7 DEF RecentEnd

\* Recording an admitted request keeps the cache the recent end: the entry it
\* evicts is the one whose use lies furthest back.
LEMMA StoreIsLRU ==
    ASSUME CacheInv, RecentEnd, NEW p \in Pools, NEW key \in Keys,
           cache' = Store(key, p), recent' = Used(key)
    PROVE  RecentEnd'
  <1> DEFINE n == Len(cache)
             m == Len(recent)
  <1>1. /\ n \in Nat /\ m \in Nat /\ n <= m /\ CacheMax \in Nat /\ n <= CacheMax
        /\ n < CacheMax => m = n
        /\ \A j \in 1 .. n : cache[j].key = recent[m - n + j]
    BY Positioned, RouterAssumption DEF RecentEnd, CacheInv, CacheBounded
  <1>2. recent' \in Seq(Keys)
    BY UsedFacts DEF RecentEnd
  <1>3. \A k, j \in 1 .. Len(recent') : recent'[k] = recent'[j] => k = j
    BY UsedOnce DEF RecentEnd
  <1>4. ASSUME NEW i \in 1 .. n, cache[i].key = key
        PROVE  RecentEnd'
    <2>1. m - n + i \in 1 .. m /\ recent[m - n + i] = key
      BY <1>1, <1>4
    <2>2. /\ Len(cache') = n
          /\ \A j \in 1 .. n :
                cache'[j].key = IF j = n THEN key
                                ELSE IF j < i THEN cache[j].key ELSE cache[j + 1].key
      BY <1>4, StoreByPosition
    <2>3. /\ Len(recent') = m
          /\ \A j \in 1 .. m :
                recent'[j] = IF j = m THEN key
                             ELSE IF j < m - n + i THEN recent[j] ELSE recent[j + 1]
      <3> DEFINE at == m - n + i
      <3>1. at \in 1 .. Len(recent) /\ recent[at] = key
        BY <2>1
      <3> HIDE DEF at
      <3>2. /\ Len(recent') = Len(recent)
            /\ \A j \in 1 .. Len(recent) :
                  recent'[j] = IF j = Len(recent) THEN key
                               ELSE IF j < at THEN recent[j] ELSE recent[j + 1]
        BY <3>1, UsedFacts DEF RecentEnd
      <3>3. QED  BY <3>2 DEF at
    <2> HIDE DEF n, m
    <2>4. ASSUME NEW j \in 1 .. n
          PROVE  cache'[j].key = recent'[m - n + j]
      <3>0. m - n + j \in 1 .. m
        BY <1>1
      <3>1. CASE j = n
        BY <1>1, <2>2, <2>3, <3>0, <3>1
      <3>2. CASE j # n /\ j < i
        <4>1. m - n + j # m /\ m - n + j < m - n + i
          BY <1>1, <3>2
        <4>2. QED  BY <1>1, <2>2, <2>3, <3>0, <3>2, <4>1
      <3>3. CASE j # n /\ ~ (j < i)
        <4>1. /\ m - n + j # m /\ ~ (m - n + j < m - n + i)
              /\ j + 1 \in 1 .. n /\ m - n + (j + 1) = (m - n + j) + 1
          BY <1>1, <3>3
        <4>2. cache'[j].key = cache[j + 1].key
          BY <2>2, <3>3
        <4>3. recent'[m - n + j] = recent[(m - n + j) + 1]
          BY <2>3, <3>0, <4>1
        <4>4. cache[j + 1].key = recent[m - n + (j + 1)]
          BY <1>1, <4>1
        <4>5. QED  BY <4>1, <4>2, <4>3, <4>4
      <3>4. QED  BY <3>1, <3>2, <3>3
    <2>5. QED  BY <1>1, <1>2, <1>3, <2>2, <2>3, <2>4 DEF RecentEnd
  <1>5. CASE \A i \in 1 .. n : cache[i].key # key
    <2>1. CASE n < CacheMax
      <3>1. m = n
        BY <1>1, <2>1
      <3>2. \A i \in 1 .. m : recent[i] # key
        BY <1>1, <1>5, <3>1
      <3>3. /\ Len(cache') = n + 1 /\ cache'[n + 1].key = key
            /\ \A j \in 1 .. n : cache'[j].key = cache[j].key
        BY <1>5, <2>1, StoreByPosition
      <3>4. /\ Len(recent') = m + 1 /\ recent'[m + 1] = key
            /\ \A j \in 1 .. m : recent'[j] = recent[j]
        BY <3>2, UsedFacts DEF RecentEnd
      <3> HIDE DEF n, m
      <3>5. \A j \in 1 .. n + 1 : cache'[j].key = recent'[(m + 1) - (n + 1) + j]
        <4>1. \A j \in 1 .. n + 1 : /\ (m + 1) - (n + 1) + j = j
                                    /\ j = n + 1 \/ j \in 1 .. n
          BY <1>1, <3>1
        <4>2. \A j \in 1 .. n : cache[j].key = recent[j]
          BY <1>1, <3>1
        <4>3. \A j \in 1 .. n + 1 : cache'[j].key = recent'[j]
          BY <3>1, <3>3, <3>4, <4>1, <4>2
        <4>4. QED  BY <4>1, <4>3
      <3>6. QED  BY <1>1, <1>2, <1>3, <3>1, <3>3, <3>4, <3>5 DEF RecentEnd
    <2>2. CASE n = CacheMax
      <3>1. /\ Len(cache') = n
            /\ \A j \in 1 .. n : cache'[j].key = IF j = n THEN key ELSE cache[j + 1].key
        BY <1>5, <2>2, StoreByPosition
      <3>2. CASE \A i \in 1 .. m : recent[i] # key
        <4>1. /\ Len(recent') = m + 1 /\ recent'[m + 1] = key
              /\ \A j \in 1 .. m : recent'[j] = recent[j]
          BY <3>2, UsedFacts DEF RecentEnd
        <4> HIDE DEF n, m
        <4>2. ASSUME NEW j \in 1 .. n
              PROVE  cache'[j].key = recent'[(m + 1) - n + j]
          <5>1. CASE j = n
            <6>1. (m + 1) - n + j = m + 1
              BY <1>1, <5>1
            <6>2. QED  BY <3>1, <4>1, <5>1, <6>1
          <5>2. CASE j # n
            <6>1. /\ j + 1 \in 1 .. n /\ (m + 1) - n + j = m - n + (j + 1)
                  /\ (m + 1) - n + j \in 1 .. m
              BY <1>1, <5>2
            <6>2. cache[j + 1].key = recent[m - n + (j + 1)]
              BY <1>1, <6>1
            <6>3. QED  BY <3>1, <4>1, <5>2, <6>1, <6>2
          <5>3. QED  BY <5>1, <5>2
        <4>3. QED  BY <1>1, <1>2, <1>3, <2>2, <3>1, <4>1, <4>2 DEF RecentEnd
      <3>3. ASSUME NEW i \in 1 .. m, recent[i] = key
            PROVE  RecentEnd'
        <4>1. /\ Len(recent') = m
              /\ \A j \in 1 .. m :
                    recent'[j] = IF j = m THEN key
                                 ELSE IF j < i THEN recent[j] ELSE recent[j + 1]
          BY <3>3, UsedFacts DEF RecentEnd
        <4> HIDE DEF n, m
        <4>2. i <= m - n
          <5> SUFFICES ASSUME i > m - n PROVE FALSE
            BY <1>1
          <5>1. i - (m - n) \in 1 .. n /\ m - n + (i - (m - n)) = i
            BY <1>1
          <5>2. QED  BY <1>1, <1>5, <3>3, <5>1
        <4>3. ASSUME NEW j \in 1 .. n
              PROVE  cache'[j].key = recent'[m - n + j]
          <5>0. m - n + j \in 1 .. m
            BY <1>1
          <5>1. CASE j = n
            BY <1>1, <3>1, <4>1, <5>0, <5>1
          <5>2. CASE j # n
            <6>1. /\ j + 1 \in 1 .. n /\ (m - n + j) + 1 = m - n + (j + 1)
                  /\ m - n + j # m /\ ~ (m - n + j < i)
              BY <1>1, <4>2, <5>2
            <6>2. cache[j + 1].key = recent[m - n + (j + 1)]
              BY <1>1, <6>1
            <6>3. recent'[m - n + j] = recent[(m - n + j) + 1]
              BY <4>1, <5>0, <6>1
            <6>4. QED  BY <3>1, <5>2, <6>1, <6>2, <6>3
          <5>3. QED  BY <5>1, <5>2
        <4>4. QED  BY <1>1, <1>2, <1>3, <3>1, <4>1, <4>3 DEF RecentEnd
      <3>4. QED  BY <3>2, <3>3
    <2>3. QED  BY <1>1, <2>1, <2>2
  <1>6. QED  BY <1>4, <1>5

\* Next keeps the cache the recent end of the history.
LEMMA NextIsLRU == CacheInv /\ RecentEnd /\ [Next]_vars => RecentEnd'
  <1> SUFFICES ASSUME CacheInv, RecentEnd, [Next]_vars PROVE RecentEnd'
    OBVIOUS
  <1>1. CASE UNCHANGED <<cache, recent>>
    BY <1>1 DEF RecentEnd
  <1>2. ASSUME NEW req \in Requests, NEW key \in LookupKeys(req)
        PROVE  key \in Keys
    <2>1. \A p \in SelectAdmissible(req) : p \in Pools
      BY SelectedAdmits DEF CacheInv, Registered
    <2>2. PICK p \in Pools : key = PrefixKey(req, p)
      BY <1>2, <2>1, RouterAssumption DEF LookupKeys
    <2>3. QED  BY <2>2, KeyIsKey
  <1>3. ASSUME NEW req \in Requests, Route(req)
        PROVE  RecentEnd'
    <2>1. CASE RouteNoPools(req)
      BY <1>1, <2>1 DEF RouteNoPools
    <2>2. CASE RouteCacheHit(req)
      <3>1. PICK key \in LookupKeys(req) :
              Hit(req, key) /\ cache' = Touch(key) /\ recent' = Used(key)
        BY <2>2 DEF RouteCacheHit
      <3>2. Known(key)
        BY <3>1 DEF Hit, Known
      <3>3. QED  BY <1>2, <3>1, <3>2, TouchIsLRU
    <2>3. CASE RouteFull(req)
      <3>1. PICK key \in LookupKeys(req) :
              /\ cache' = Touch(key)
              /\ recent' = IF Known(key) THEN Used(key) ELSE recent
        BY <2>3 DEF RouteFull
      <3>2. CASE Known(key)
        BY <1>2, <3>1, <3>2, TouchIsLRU
      <3>3. CASE ~ Known(key)
        BY <1>1, <3>1, <3>3 DEF Touch
      <3>4. QED  BY <3>2, <3>3
    <2>4. CASE RouteLoadBalance(req)
      <3>1. PICK p \in SelectAdmissible(req) :
              cache' = Store(PrefixKey(req, p), p) /\ recent' = Used(PrefixKey(req, p))
        BY <2>4 DEF RouteLoadBalance
      <3>2. p \in Pools
        BY SelectedAdmits DEF CacheInv, Registered
      <3>3. PrefixKey(req, p) \in Keys
        BY <3>2, KeyIsKey
      <3>4. QED  BY <3>1, <3>2, <3>3, StoreIsLRU
    <2>5. QED  BY <1>3, <2>1, <2>2, <2>3, <2>4 DEF Route
  <1>4. QED
    BY <1>1, <1>3 DEF Next, vars, RegisterPool, UpdateDepth

\* The prefix cache of Router.route is a least-recently-used cache: whatever
\* requests are admitted, refused or re-routed and whatever pools come and go,
\* it holds the most recently used keys in the order of their use, and none is
\* evicted before the cache is full.
THEOREM PrefixCacheIsLRU == Spec => []CacheIsLRU
  <1>1. Init => RecentEnd
    BY RouterAssumption DEF Init, RecentEnd
  <1>2. CacheInv /\ RecentEnd => CacheIsLRU
    <2> SUFFICES ASSUME CacheInv, RecentEnd PROVE CacheIsLRU
      OBVIOUS
    <2> DEFINE n == Len(cache)
               m == Len(recent)
               t == SubSeq(recent, m - n + 1, m)
    <2>1. /\ n \in Nat /\ m \in Nat /\ n <= m /\ DOMAIN cache = 1 .. n
          /\ \A j \in 1 .. n : cache[j].key = recent[m - n + j]
      BY Positioned DEF RecentEnd
    <2>2. /\ m - n + 1 \in 1 .. m + 1 /\ m \in (m - n + 1) - 1 .. m
          /\ recent \in Seq(Keys)
      BY <2>1 DEF RecentEnd
    <2>3. /\ t \in Seq(Keys) /\ Len(t) = n
          /\ \A j \in 1 .. n : t[j] = recent[m - n + j]
      BY <2>1, <2>2
    <2>4. KeysOf(cache) = [j \in 1 .. n |-> cache[j].key]
      BY <2>1 DEF KeysOf
    <2> HIDE DEF n, m, t
    <2>5. t = [j \in 1 .. n |-> t[j]]
      BY <2>3
    <2>6. \A j \in 1 .. n : t[j] = cache[j].key
      BY <2>1, <2>3
    <2>7. KeysOf(cache) = t
      BY <2>4, <2>5, <2>6
    <2>8. n < CacheMax => n = m
      BY DEF RecentEnd, n, m
    <2>9. QED  BY <2>7, <2>8 DEF CacheIsLRU, t, n, m
  <1>3. QED  BY <1>1, <1>2, NextIsLRU, CacheInvariant, PTL DEF Spec

-----------------------------------------------------------------------------
(* Refusals.                                                               *)

\* A nonempty set of naturals has a least element.
LEMMA LeastNatural ==
    ASSUME NEW S \in SUBSET Nat, S # {}
    PROVE  \E x \in S : \A y \in S : x <= y
  <1>1. PICK x \in S : \A y \in S : <<y, x>> \notin OpToRel(<, Nat)
    BY WFMin, NatLessThanWellFounded, Zenon
  <1>2. \A y \in S : ~ (y < x)
    BY <1>1, Zenon DEF OpToRel
  <1>3. QED  BY <1>2

\* The part of the state that orders the pools.
PoolsInv == DOMAIN pools \subseteq Pools /\ pools \in [DOMAIN pools -> PoolRecords]

\* The registry keeps its types; a negative scrape counts as an empty queue.
LEMMA NextKeepsPools == PoolsInv /\ [Next]_vars => PoolsInv'
  <1> SUFFICES ASSUME PoolsInv, [Next]_vars PROVE PoolsInv'
    OBVIOUS
  <1>1. CASE pools' = pools
    BY <1>1 DEF PoolsInv
  <1>2. ASSUME NEW p \in Registrable, NEW state \in PoolStates, RegisterPool(p, state)
        PROVE  PoolsInv'
    BY <1>2, RouterAssumption DEF RegisterPool, Registered, PoolsInv
  <1>3. ASSUME NEW p \in Registrable, NEW depth \in Scrapes, UpdateDepth(p, depth)
        PROVE  PoolsInv'
    <2> DEFINE d == IF depth > 0 THEN depth ELSE 0
    <2>1. d \in Nat
      BY RouterAssumption
    <2>2. pools' = [pools EXCEPT ![p] = [pools[p] EXCEPT !.depth = d]] /\ p \in DOMAIN pools
      BY <1>3 DEF UpdateDepth, Registered
    <2> HIDE DEF d
    <2>3. [pools[p] EXCEPT !.depth = d] \in PoolRecords
      BY <2>1, <2>2 DEF PoolsInv, PoolRecords
    <2>4. QED  BY <2>2, <2>3 DEF PoolsInv
  <1>4. QED
    BY <1>1, <1>2, <1>3 DEF Next, vars, Route, RouteNoPools, RouteCacheHit, RouteFull,
                             RouteLoadBalance

\* _select_admissible finds a pool whenever one admits the request: its sort
\* has a first element.
LEMMA SelectsIfAdmissible ==
    ASSUME PoolsInv, NEW req, AdmissiblePools(req) # {}
    PROVE  SelectAdmissible(req) # {}
  <1> DEFINE A == AdmissiblePools(req)
             D == {pools[p].depth : p \in A}
  <1>1. \A p \in A : p \in Pools /\ pools[p].depth \in Nat /\ Rank[p] \in Nat
    BY RouterAssumption DEF AdmissiblePools, Registered, PoolsInv, PoolRecords
  <1>2. A # {}
    OBVIOUS
  <1> HIDE DEF A
  <1>3. D \in SUBSET Nat /\ D # {}
    BY <1>1, <1>2
  <1>4. PICK d \in D : \A y \in D : d <= y
    BY <1>3, LeastNatural
  <1> DEFINE R == {Rank[p] : p \in {x \in A : pools[x].depth = d}}
  <1>5. R \in SUBSET Nat /\ R # {}
    BY <1>1, <1>4
  <1>6. PICK r \in R : \A y \in R : r <= y
    BY <1>5, LeastNatural
  <1>7. PICK p \in A : pools[p].depth = d /\ Rank[p] = r
    BY <1>6
  <1>8. \A q \in A : d <= pools[q].depth /\ (pools[q].depth = d => r <= Rank[q])
    BY <1>4, <1>6
  <1>9. \A q \in A : Before(p, q)
    BY <1>1, <1>7, <1>8 DEF Before
  <1>10. QED  BY <1>7, <1>9 DEF SelectAdmissible, A

\* Router.route refuses a request only when no registered pool admits it, for
\* every set of pools, depths and policies.
THEOREM RouterRefusesOnlyWhenFull == Spec => RefusesOnlyWhenFull
  <1> DEFINE Full == (outcome'.reason # "none" /\ ~ outcome'.admitted) =>
                         \A p \in Registered : ~ Admissible(outcome'.req, p)
  <1>1. ASSUME PoolsInv, [Next]_vars PROVE [Full]_vars
    <2> USE <1>1
    <2>1. CASE outcome' = NoOutcome
      BY <2>1 DEF NoOutcome
    <2>2. ASSUME NEW req \in Requests, Route(req)
          PROVE  Full
      <3>1. CASE RouteNoPools(req)
        BY <3>1 DEF RouteNoPools
      <3>2. CASE RouteCacheHit(req)
        BY <3>2 DEF RouteCacheHit
      <3>3. CASE RouteFull(req)
        <4>1. SelectAdmissible(req) = {} /\ outcome'.req = req
          BY <3>3 DEF RouteFull
        <4>2. AdmissiblePools(req) = {}
          BY <4>1, SelectsIfAdmissible
        <4>3. QED  BY <4>1, <4>2 DEF AdmissiblePools
      <3>4. CASE RouteLoadBalance(req)
        BY <3>4 DEF RouteLoadBalance
      <3>5. QED  BY <2>2, <3>1, <3>2, <3>3, <3>4 DEF Route
    <2>3. CASE Next
      BY <2>1, <2>2, <2>3 DEF Next, RegisterPool, UpdateDepth
    <2>4. QED  BY <2>3
  <1>2. Init => PoolsInv
    BY DEF Init, PoolsInv
  <1>3. QED  BY <1>1, <1>2, NextKeepsPools, PTL DEF Spec, RefusesOnlyWhenFull

\* The router's state keeps its types; in particular a scrape that reports a
\* negative depth does not make a queue depth negative.
THEOREM TypeCorrect == Spec => []TypeOK
  <1> DEFINE Answer == noHistory \in Nat /\ (outcome = NoOutcome \/ outcome.reason \in Reasons)
  <1>1. Init => PoolsInv /\ RecentEnd /\ Answer
    BY RouterAssumption DEF Init, PoolsInv, RecentEnd
  <1>2. Answer /\ [Next]_vars => Answer'
    <2> SUFFICES ASSUME Answer, [Next]_vars PROVE Answer'
      OBVIOUS
    <2>1. CountOne(noHistory) \in Nat
      BY DEF CountOne
    <2>2. ASSUME NEW req \in Requests, Route(req) PROVE Answer'
      BY <2>1, <2>2 DEF Route, RouteNoPools, RouteCacheHit, RouteFull, RouteLoadBalance,
                        Reasons
    <2>3. QED
      BY <2>2 DEF Next, vars, RegisterPool, UpdateDepth
  <1>3. CacheInv /\ PoolsInv /\ RecentEnd /\ Answer => TypeOK
    BY DEF CacheInv, PoolsInv, RecentEnd, TypeOK
  <1> HIDE DEF Answer
  <1>4. QED
    BY <1>1, <1>2, <1>3, NextKeepsPools, NextIsLRU, CacheInvariant, PTL DEF Spec

-----------------------------------------------------------------------------
(* Action properties.                                                      *)

\* No step of the router answers a request with a pool that is unregistered,
\* unhealthy or does not admit it, however stale the cached entry is.
THEOREM RouterAdmitsSafely == Spec => AdmitsSafely
  <1> DEFINE Safe == (outcome'.reason # "none" /\ outcome'.admitted) =>
                         Admissible(outcome'.req, outcome'.pool)
  <1>1. ASSUME CacheInv, [Next]_vars PROVE [Safe]_vars
    <2> USE <1>1
    <2>1. CASE outcome' = NoOutcome
      BY <2>1 DEF NoOutcome
    <2>2. ASSUME NEW req \in Requests, Route(req)
          PROVE  Safe
      <3>1. CASE RouteNoPools(req)
        BY <3>1 DEF RouteNoPools
      <3>2. CASE RouteCacheHit(req)
        <4>1. PICK key \in LookupKeys(req) :
                /\ Hit(req, key) /\ cache' = Touch(key)
                /\ outcome'.req = req /\ outcome'.pool = cache'[Len(cache')].pool
          BY <3>2 DEF RouteCacheHit
        <4>2. PICK i \in Positions(key) : Admissible(req, cache[i].pool)
          BY <4>1 DEF Hit
        <4>3. Touch(key)[Len(Touch(key))] = cache[i]
          BY <4>2, TouchFacts DEF Known
        <4>4. outcome'.req = req /\ outcome'.pool = cache[i].pool
          BY <4>1, <4>3
        <4>5. QED  BY <4>2, <4>4
      <3>3. CASE RouteFull(req)
        BY <3>3 DEF RouteFull
      <3>4. CASE RouteLoadBalance(req)
        <4>1. PICK p \in SelectAdmissible(req) : outcome'.req = req /\ outcome'.pool = p
          BY <3>4 DEF RouteLoadBalance
        <4>2. QED  BY <4>1, SelectedAdmits
      <3>5. QED  BY <2>2, <3>1, <3>2, <3>3, <3>4 DEF Route
    <2>3. CASE Next
      BY <2>1, <2>2, <2>3 DEF Next, RegisterPool, UpdateDepth
    <2>4. QED  BY <2>3
  <1>2. QED  BY <1>1, CacheInvariant, PTL DEF Spec, AdmitsSafely

\* A cached prefix is moved to another pool only by a request its own pool
\* refuses: neither an eviction nor a lookup nor a re-registration re-homes it.
THEOREM PrefixesMoveOnlyWhenRefused == Spec => PrefixMovesOnlyWhenRefused
  <1> DEFINE Stays == \A i \in DOMAIN cache, j \in DOMAIN cache' :
                (cache[i].key = cache'[j].key /\ cache[i].pool # cache'[j].pool) =>
                    ~ Admissible(outcome'.req, cache[i].pool)
  <1>1. ASSUME CacheInv, [Next]_vars PROVE [Stays]_vars
    <2> USE <1>1
    <2>1. /\ DOMAIN cache = 1 .. Len(cache)
          /\ \A i, j \in 1 .. Len(cache) : cache[i].key = cache[j].key => i = j
      BY DEF CacheInv, CacheBounded
    <2>2. ASSUME cache' = cache PROVE Stays
      BY <2>1, <2>2
    <2>3. ASSUME NEW key, cache' = Touch(key)
          PROVE  Stays
      <3>1. \A j \in DOMAIN cache' : \E k \in 1 .. Len(cache) : cache'[j] = cache[k]
        <4> DEFINE u == Touch(key)
        <4>1. /\ u \in Seq(Entries) /\ Len(u) = Len(cache)
              /\ \A j \in 1 .. Len(cache) : \E k \in 1 .. Len(cache) : u[j] = cache[k]
          BY TouchFacts
        <4>2. cache' = u
          BY <2>3
        <4> HIDE DEF u
        <4>3. DOMAIN cache' = 1 .. Len(cache)
          BY <4>1, <4>2
        <4>4. QED  BY <4>1, <4>2, <4>3
      <3>2. QED  BY <2>1, <3>1
    <2>4. ASSUME NEW req \in Requests, RouteLoadBalance(req)
          PROVE  Stays
      <3>1. PICK p \in SelectAdmissible(req) :
              /\ ~ Hit(req, PrefixKey(req, p)) /\ cache' = Store(PrefixKey(req, p), p)
              /\ outcome'.req = req
        BY <2>4 DEF RouteLoadBalance
      <3> DEFINE key == PrefixKey(req, p)
                 w == Store(key, p)
      <3>2. p \in Pools
        BY SelectedAdmits DEF CacheInv, Registered
      <3>3. key \in Keys
        BY <3>2, KeyIsKey
      <3>4. ~ Hit(req, key) /\ cache' = w /\ outcome'.req = req
        BY <3>1
      <3> HIDE DEF key
      <3>5. /\ w \in Seq(Entries)
            /\ \A j \in 1 .. Len(w) :
                  w[j].key = key \/ \E i \in 1 .. Len(cache) : w[j] = cache[i]
        BY <3>2, <3>3, StoreFacts
      <3> HIDE DEF w
      <3>6. DOMAIN cache' = 1 .. Len(w)
        BY <3>4, <3>5
      <3>7. SUFFICES ASSUME NEW i \in DOMAIN cache, NEW j \in DOMAIN cache',
                            cache[i].key = cache'[j].key, cache[i].pool # cache'[j].pool
                     PROVE  ~ Admissible(req, cache[i].pool)
        BY <3>4
      <3>8. CASE cache'[j].key = key
        BY <3>4, <3>7, <3>8 DEF Hit, Positions
      <3>9. CASE \E k \in 1 .. Len(cache) : cache'[j] = cache[k]
        BY <2>1, <3>7, <3>9
      <3>10. QED  BY <3>4, <3>5, <3>6, <3>8, <3>9
    <2>5. ASSUME NEW req \in Requests, Route(req)
          PROVE  Stays
      <3>1. RouteNoPools(req) => cache' = cache
        BY DEF RouteNoPools
      <3>2. RouteCacheHit(req) \/ RouteFull(req) => \E key : cache' = Touch(key)
        BY DEF RouteCacheHit, RouteFull
      <3>3. QED  BY <2>2, <2>3, <2>4, <2>5, <3>1, <3>2 DEF Route
    <2>6. CASE Next
      BY <2>2, <2>5, <2>6 DEF Next, RegisterPool, UpdateDepth
    <2>7. QED  BY <2>6
  <1>2. QED  BY <1>1, CacheInvariant, PTL DEF Spec, PrefixMovesOnlyWhenRefused
=============================================================================
