--------------------------- MODULE KvSamplerProofs --------------------------
(***************************************************************************)
(* Proofs about the sampler of the KV-scaling study, for every batch,      *)
(* prompt and block size, step budget and set of engines.                  *)
(***************************************************************************)
EXTENDS KvSampler, TLAPS, FiniteSetTheorems, SequenceTheorems

-----------------------------------------------------------------------------
(* Sums over requests.                                                     *)

\* The units a sum counts.
Units(S, f) == UNION {{r} \X (1 .. f[r]) : r \in S}

\* A sum over a finite set of requests is a natural number.
LEMMA SumType ==
    ASSUME NEW S, IsFiniteSet(S), NEW f, \A r \in S : f[r] \in Int
    PROVE  IsFiniteSet(Units(S, f)) /\ SumOver(S, f) \in Nat
  <1> DEFINE g == [r \in S |-> {r} \X (1 .. f[r])]
             Parts == {g[r] : r \in S}
  <1>1. IsFiniteSet(Parts)
    <2>1. g \in Surjection(S, Parts)
      BY DEF Surjection
    <2>2. QED  BY <2>1, FS_Surjection DEF ExistsSurjection
  <1>2. \A r \in S : IsFiniteSet({r} \X (1 .. f[r]))
    <2> SUFFICES ASSUME NEW r \in S PROVE IsFiniteSet({r} \X (1 .. f[r]))
      OBVIOUS
    <2>1. IsFiniteSet({r})
      BY FS_Singleton
    <2>2. 1 \in Int /\ f[r] \in Int
      OBVIOUS
    <2>3. IsFiniteSet(1 .. f[r])
      BY <2>2, FS_Interval, Zenon
    <2>4. QED  BY <2>1, <2>3, FS_Product
  <1>3. \A P \in Parts : IsFiniteSet(P)
    BY <1>2
  <1>4. Units(S, f) = UNION Parts
    BY DEF Units
  <1> HIDE DEF Parts
  <1>5. IsFiniteSet(Units(S, f))
    BY <1>1, <1>3, <1>4, FS_UNION
  <1>6. QED  BY <1>5, FS_CardinalityType DEF SumOver, Units

\* A sum grows with its terms.
LEMMA SumMonotone ==
    ASSUME NEW S, IsFiniteSet(S), NEW f, NEW g,
           \A r \in S : f[r] \in Int /\ g[r] \in Int /\ f[r] <= g[r]
    PROVE  SumOver(S, f) <= SumOver(S, g)
  <1>1. IsFiniteSet(Units(S, g)) /\ \A r \in S : (1 .. f[r]) \subseteq (1 .. g[r])
    BY SumType
  <1>2. Units(S, f) \subseteq Units(S, g)
    BY <1>1 DEF Units
  <1>3. QED  BY <1>1, <1>2, FS_Subset DEF SumOver, Units

\* A sum of terms that are all at least n.
LEMMA SumAtLeast ==
    ASSUME NEW S, IsFiniteSet(S), NEW f, NEW n \in Nat,
           \A r \in S : f[r] \in Int /\ n <= f[r]
    PROVE  Cardinality(S) * n <= SumOver(S, f)
  <1>1. IsFiniteSet(Units(S, f)) /\ \A r \in S : (1 .. n) \subseteq (1 .. f[r])
    BY SumType
  <1>2. S \X (1 .. n) \subseteq Units(S, f)
    BY <1>1 DEF Units
  <1>3. IsFiniteSet(1 .. n) /\ Cardinality(1 .. n) = n
    BY FS_Interval
  <1>4. Cardinality(S \X (1 .. n)) = Cardinality(S) * n
    BY <1>3, FS_Product
  <1>5. QED  BY <1>1, <1>2, <1>4, FS_Subset DEF SumOver, Units

\* Equal terms have equal sums.
LEMMA SumCongruence ==
    ASSUME NEW S, NEW f, NEW g, \A r \in S : f[r] = g[r]
    PROVE  SumOver(S, f) = SumOver(S, g)
  <1>1. {{r} \X (1 .. f[r]) : r \in S} = {{r} \X (1 .. g[r]) : r \in S}
    OBVIOUS
  <1>2. QED  BY <1>1 DEF SumOver

-----------------------------------------------------------------------------
(* The engine.                                                             *)

\* A request that may get another token has one left.
HasTokenLeft(q) == q.phase \in {"waiting", "running"} => q.gen < DecodeTokens

\* A step moves a request by one token at most, never beyond max_tokens.
LEMMA MoveFacts ==
    ASSUME NEW s \in Setups, NEW q \in RequestRecords, HasTokenLeft(q),
           NEW next \in Moves(s, q)
    PROVE  /\ next \in RequestRecords /\ HasTokenLeft(next)
           /\ next.gen = q.gen \/ next.gen = q.gen + 1
  <1>1. /\ DecodeTokens \in Nat /\ EosAfter \in Nat /\ PromptLen \in Nat
        /\ q.gen \in Nat /\ q.gen <= DecodeTokens
    BY EngineAssumption DEF RequestRecords
  <1>2. CASE q.phase \notin {"waiting", "running"}
    BY <1>1, <1>2 DEF Moves
  <1>3. CASE q.phase \in {"waiting", "running"}
    <2>0. q.gen < DecodeTokens /\ q.gen + 1 \in 0 .. DecodeTokens /\ 0 \in 0 .. PromptLen
      BY <1>1, <1>3 DEF HasTokenLeft
    <2>1. ASSUME NEW ends \in BOOLEAN, next = WithToken(s, q, ends),
                 ~ ends => q.gen + 1 < DecodeTokens
          PROVE  /\ next \in RequestRecords /\ HasTokenLeft(next)
                 /\ next.gen = q.gen + 1
      <3>1. /\ next.phase = IF ends THEN "finished" ELSE "running"
            /\ next.computed = 0 /\ next.gen = q.gen + 1
        BY <2>1 DEF WithToken
      <3>2. next \in RequestRecords
        <4>1. (IF ends THEN "finished" ELSE "running") \in Phases
          BY DEF Phases
        <4>2. QED  BY <2>0, <2>1, <4>1 DEF WithToken, RequestRecords
      <3>3. QED  BY <2>1, <3>1, <3>2 DEF HasTokenLeft
    <2>2. CASE next \in FakeMoves(s, q)
      <3> DEFINE ends == q.gen + 1 >= FinishAfter(s)
      <3>1. FinishAfter(s) \in Nat /\ FinishAfter(s) <= DecodeTokens
        BY <1>1 DEF FinishAfter
      <3>2. ends \in BOOLEAN /\ (~ ends => q.gen + 1 < DecodeTokens)
        BY <1>1, <3>1
      <3>3. next = WithToken(s, q, ends)
        BY <2>2 DEF FakeMoves
      <3> HIDE DEF ends
      <3>4. QED  BY <2>1, <3>2, <3>3
    <2>3. CASE next \in VllmMoves(s, q)
      <3>1. CASE next = q
        BY <3>1
      <3>2. ASSUME NEW c \in q.computed .. PromptLen - 1, next = [q EXCEPT !.computed = c]
            PROVE  next \in RequestRecords /\ HasTokenLeft(next) /\ next.gen = q.gen
        <4>1. c \in 0 .. PromptLen
          BY <1>1 DEF RequestRecords
        <4>2. next \in RequestRecords /\ next.phase = q.phase /\ next.gen = q.gen
          BY <3>2, <4>1 DEF RequestRecords
        <4>3. QED  BY <4>2 DEF HasTokenLeft
      <3>3. ASSUME NEW ends \in {q.gen + 1 = DecodeTokens} \cup (IF s.ignoreEos THEN {} ELSE {TRUE}),
                   next = WithToken(s, q, ends)
            PROVE  next \in RequestRecords /\ HasTokenLeft(next) /\ next.gen = q.gen + 1
        <4>1. ends \in BOOLEAN /\ (~ ends => q.gen + 1 # DecodeTokens)
          BY <3>3, Zenon
        <4>2. ~ ends => q.gen + 1 < DecodeTokens
          BY <1>1, <2>0, <4>1
        <4>3. QED  BY <2>1, <3>3, <4>1, <4>2
      <3>4. CASE next = [phase |-> "waiting", computed |-> 0, gen |-> q.gen]
        <4>1. next \in RequestRecords /\ next.gen = q.gen
          BY <1>1, <2>0, <3>4 DEF RequestRecords, Phases
        <4>2. QED  BY <2>0, <4>1 DEF HasTokenLeft
      <3>5. \/ next = q
            \/ \E c \in q.computed .. PromptLen - 1 : next = [q EXCEPT !.computed = c]
            \/ \E ends \in {q.gen + 1 = DecodeTokens} \cup (IF s.ignoreEos THEN {} ELSE {TRUE}) :
                  next = WithToken(s, q, ends)
            \/ next = [phase |-> "waiting", computed |-> 0, gen |-> q.gen]
        BY <2>3, Zenon DEF VllmMoves
      <3>6. QED  BY <3>1, <3>2, <3>3, <3>4, <3>5
    <2>4. QED  BY <1>3, <2>2, <2>3 DEF Moves
  <1>4. QED  BY <1>2, <1>3

\* The blocks of a number of tokens.
LEMMA BlocksType == \A n \in Int : BlocksFor(n) \in Int
  BY EngineAssumption DEF BlocksFor

\* What the driver reads from the pool is an integer.
LEMMA UsedType ==
    ASSUME NEW s \in Setups, NEW rs \in [Requests -> RequestRecords], NEW st \in Nat
    PROVE  UsedBlocks(s, rs, st) \in Int
  <1> DEFINE held == [r \in Requests |-> Held(s, rs[r])]
             sharers == {r \in Requests : Held(s, rs[r]) >= s.shared}
  <1>1. s.reserved \in Nat /\ s.shared \in Nat /\ s.lag \in Nat /\ PromptLen \in Nat
    BY EngineAssumption DEF SetupRecords
  <1>2. \A r \in Requests : held[r] \in Int
    <2> SUFFICES ASSUME NEW r \in Requests PROVE Held(s, rs[r]) \in Int
      OBVIOUS
    <2>1. rs[r].computed \in Int /\ rs[r].gen \in Int
      BY EngineAssumption DEF RequestRecords
    <2>2. Cached(s, rs[r]) \in Int
      BY <1>1, <2>1 DEF Cached
    <2>3. QED  BY <2>2, BlocksType DEF Held
  <1>3. SumOver(Requests, held) \in Nat
    BY <1>2, SumType, EngineAssumption
  <1>4. Cardinality(sharers) \in Nat
    <2>1. sharers \in SUBSET Requests
      OBVIOUS
    <2> HIDE DEF sharers
    <2>2. QED  BY <2>1, EngineAssumption, FS_Subset, FS_CardinalityType
  <1>5. UsedBlocks(s, rs, st) =
            s.reserved + st + SumOver(Requests, held)
            - (IF sharers = {} THEN 0 ELSE s.shared * (Cardinality(sharers) - 1))
    BY DEF UsedBlocks
  <1> HIDE DEF held, sharers
  <1>6. s.shared * (Cardinality(sharers) - 1) \in Int
    BY <1>1, <1>4
  <1>7. QED  BY <1>1, <1>3, <1>5, <1>6

\* The blocks a lazy engine keeps back are a natural number.
LEMMA StaleType ==
    ASSUME NEW s \in Setups, NEW rs \in [Requests -> RequestRecords],
           NEW next \in [Requests -> RequestRecords]
    PROVE  StaleAfter(s, rs, next) \in Nat
  <1> DEFINE f == [r \in Requests |-> BlocksFor(PromptLen + next[r].gen - s.lag)]
             done == {r \in Requests : next[r].phase = "finished" /\ rs[r].phase # "finished"}
  <1>1. \A r \in Requests : f[r] \in Int
    <2> SUFFICES ASSUME NEW r \in Requests
                 PROVE  BlocksFor(PromptLen + next[r].gen - s.lag) \in Int
      OBVIOUS
    <2>1. PromptLen + next[r].gen - s.lag \in Int
      BY EngineAssumption DEF RequestRecords, SetupRecords
    <2>2. QED  BY <2>1, BlocksType
  <1>2. done \in SUBSET Requests
    OBVIOUS
  <1>3. StaleAfter(s, rs, next) = IF ~ s.lazy THEN 0 ELSE SumOver(done, f)
    BY DEF StaleAfter
  <1> HIDE DEF f, done
  <1>4. IsFiniteSet(done) /\ \A r \in done : f[r] \in Int
    BY <1>1, <1>2, EngineAssumption, FS_Subset
  <1>5. SumOver(done, f) \in Nat
    BY <1>4, SumType
  <1>6. QED  BY <1>3, <1>5

-----------------------------------------------------------------------------
(* The inductive invariant.                                                *)

\* The sampler's token counts are the engine's own: FakeEngineDriver counts, or
\* vLLM's outputs are cumulative, as VllmEngineDriver.step expects.
Exact == setup.driver = "fake" \/ setup.output = "cumulative"

\* Without cumulative outputs the counts stop at the first token.
Agree(rs, count) ==
    \A r \in Requests : IF Exact THEN count[r] = rs[r].gen ELSE count[r] <= 1

Terms(count) == [r \in Requests |-> PromptLen + count[r]]

\* A reading of the whole batch after its prefill, accepted by the gate.
Covers(reading) ==
    /\ Batch * (PromptLen + 1) <= reading.live
    /\ reading.live <= reading.used * BlockSize
    /\ reading.used * BlockSize <= reading.live + Batch * BlockSize + SlotSlack

\* The readings of one sample belong together.
Paired(pre, dec, tr) ==
    /\ Covers(pre) /\ Covers(dec)
    /\ pre.live <= dec.live
    /\ tr.alive
    /\ Exact => dec.live = tr.tokens

\* The readings of the sample under way: both are taken or none; once they
\* are, every request has a token, and the prefill reading stays below the
\* tokens there are.
Reads ==
    /\ prefill = NoReading <=> decode = NoReading
    /\ prefill # NoReading =>
          /\ Paired(prefill, decode, truth)
          /\ \A r \in Requests : counted[r] >= 1
          /\ prefill.live <= SumOver(Requests, Terms(counted))

Returned ==
    \A i \in 1 .. Len(samples) :
        /\ Paired(samples[i].prefill, samples[i].decode, samples[i].truth)
        /\ samples[i].prefill.used <= samples[i].decode.used

EngineInv == \A r \in Requests : HasTokenLeft(reqs[r])

\* A sample is under way only if it is still wanted.
Wanted == pc = "stepping" => Len(samples) < Samples

SamplerInv ==
    /\ TypeOK /\ EngineInv /\ Agree(reqs, counted)
    /\ Reads /\ Returned /\ Released /\ Wanted

\* The assumptions as the provers use them.
LEMMA Sizes ==
    /\ PromptLen \in Nat /\ DecodeTokens \in Nat /\ DecodeTokens > 0
    /\ BlockSize \in Nat /\ BlockSize > 0 /\ SlotSlack \in Nat
    /\ Batch \in Nat
    /\ MaxSteps \in Nat /\ MaxSteps > 0
    /\ NoReading \notin Readings
  <1>1. Batch \in Nat
    BY EngineAssumption, FS_CardinalityType DEF Batch
  <1>2. MaxSteps \in Nat /\ MaxSteps > 0
    BY EngineAssumption, SamplerAssumption DEF MaxSteps
  <1>3. NoReading \notin Readings
    BY SamplerAssumption DEF Readings
  <1>4. QED  BY <1>1, <1>2, <1>3, EngineAssumption, SamplerAssumption

\* The sampler's counts after a step: they keep their type, never shrink, and
\* stay those of the engine.
LEMMA CountFacts ==
    ASSUME TypeOK, EngineInv, Agree(reqs, counted), NEW next \in Steps(setup, reqs)
    PROVE  /\ next \in [Requests -> RequestRecords]
           /\ \A r \in Requests : HasTokenLeft(next[r])
           /\ CountedAfter(next) \in [Requests -> 0 .. DecodeTokens]
           /\ \A r \in Requests : counted[r] <= CountedAfter(next)[r]
           /\ Agree(next, CountedAfter(next))
  <1> DEFINE count == CountedAfter(next)
  <1>1. ASSUME NEW r \in Requests
        PROVE  /\ next[r] \in RequestRecords /\ HasTokenLeft(next[r])
               /\ next[r].gen = reqs[r].gen \/ next[r].gen = reqs[r].gen + 1
    <2>1. next[r] \in Moves(setup, reqs[r])
      BY DEF Steps
    <2>2. setup \in Setups /\ reqs[r] \in RequestRecords /\ HasTokenLeft(reqs[r])
      BY DEF TypeOK, EngineInv
    <2>3. QED  BY <2>1, <2>2, MoveFacts
  <1>2. next \in [Requests -> RequestRecords]
    <2>1. next = [r \in Requests |-> next[r]]
      BY DEF Steps
    <2>2. QED  BY <1>1, <2>1
  <1>3. ASSUME NEW r \in Requests
        PROVE  /\ count[r] \in 0 .. DecodeTokens /\ counted[r] <= count[r]
               /\ IF Exact THEN count[r] = next[r].gen ELSE count[r] <= 1
    <2> DEFINE c == counted[r]
               g == reqs[r].gen
               h == next[r].gen
    <2>1. /\ c \in 0 .. DecodeTokens /\ g \in 0 .. DecodeTokens /\ h \in 0 .. DecodeTokens
          /\ h = g \/ h = g + 1
          /\ DecodeTokens \in Nat /\ DecodeTokens > 0
      BY <1>1, Sizes DEF TypeOK, RequestRecords
    <2>2. IF Exact THEN c = g ELSE c <= 1
      BY DEF Agree
    <2>3. count[r] = IF h = g THEN c
                     ELSE IF setup.driver = "fake" THEN c + 1
                     ELSE c + NewTokens(IF setup.output = "cumulative" THEN h ELSE 1, c)
      BY DEF CountedAfter
    <2> HIDE DEF c, g, h, count
    <2>4. CASE h = g
      BY <2>1, <2>2, <2>3, <2>4 DEF c, h
    <2>5. CASE h # g /\ setup.driver = "fake"
      <3>1. count[r] = c + 1 /\ c = g /\ Exact
        BY <2>2, <2>3, <2>5 DEF Exact
      <3>2. QED  BY <2>1, <2>5, <3>1 DEF c, h
    <2>6. CASE h # g /\ setup.driver # "fake" /\ setup.output = "cumulative"
      <3>1. count[r] = c + NewTokens(h, c) /\ c = g /\ Exact
        BY <2>2, <2>3, <2>6 DEF Exact
      <3>2. QED  BY <2>1, <2>6, <3>1 DEF NewTokens, c, h
    <2>7. CASE h # g /\ setup.driver # "fake" /\ setup.output # "cumulative"
      <3>1. count[r] = c + NewTokens(1, c) /\ c <= 1 /\ ~ Exact
        BY <2>2, <2>3, <2>7 DEF Exact
      <3>2. c = 0 \/ c = 1
        BY <2>1, <3>1
      <3>3. QED  BY <2>1, <3>1, <3>2 DEF NewTokens, c, h
    <2>8. QED  BY <2>4, <2>5, <2>6, <2>7
  <1>4. count \in [Requests -> 0 .. DecodeTokens]
    <2>1. count = [r \in Requests |-> count[r]]
      BY DEF CountedAfter
    <2>2. QED  BY <1>3, <2>1
  <1>5. QED  BY <1>1, <1>2, <1>3, <1>4 DEF Agree

\* A reading the gate accepts while the whole batch is alive and decoding
\* covers the batch, and counts the engine's tokens.
LEMMA ReadingCovers ==
    ASSUME setup \in Setups, NEW next \in [Requests -> RequestRecords], NEW st \in Nat,
           NEW count \in [Requests -> 0 .. DecodeTokens], Agree(next, count),
           GatePasses(next, st, count), Finished(next) = {},
           \A r \in Requests : count[r] >= 1
    PROVE  /\ Reading(next, st, count) \in Readings
           /\ Covers(Reading(next, st, count))
           /\ Reading(next, st, count).live = SumOver(Requests, Terms(count))
           /\ Exact => Reading(next, st, count).live =
                          SumOver(Requests, [r \in Requests |-> PromptLen + next[r].gen])
  <1> DEFINE used == UsedBlocks(setup, next, st)
             live == SumOver(Requests, Terms(count))
  <1>1. used \in Int
    BY UsedType
  <1>2. IsFiniteSet(Requests) /\ \A r \in Requests :
            Terms(count)[r] \in Int /\ PromptLen + 1 <= Terms(count)[r]
    BY EngineAssumption DEF Terms
  <1>3. live \in Nat
    BY <1>2, SumType
  <1>4. Batch * (PromptLen + 1) <= live
    BY <1>2, Sizes, SumAtLeast DEF Batch
  <1>5. LiveTokens(next, count) = live
    <2>1. Requests \ Finished(next) = Requests
      OBVIOUS
    <2>2. QED  BY <2>1 DEF LiveTokens, Terms
  <1>6. Reading(next, st, count) = [used |-> used, live |-> live]
    BY <1>5 DEF Reading
  <1>7. Scheduled(next, count)
    BY DEF Scheduled
  <1>8. /\ used * BlockSize <= live + Batch * BlockSize + SlotSlack
        /\ used * BlockSize >= live
    BY <1>5, <1>7 DEF GatePasses, Consistent
  <1>9. Exact => live = SumOver(Requests, [r \in Requests |-> PromptLen + next[r].gen])
    BY SumCongruence DEF Terms, Agree
  <1> HIDE DEF used, live
  <1>10. used * BlockSize \in Int
    BY <1>1, Sizes
  <1>11. Reading(next, st, count) \in Readings
    BY <1>1, <1>3, <1>6 DEF Readings
  <1>12. Covers(Reading(next, st, count))
    BY <1>3, <1>4, <1>6, <1>8, <1>10 DEF Covers
  <1>13. QED  BY <1>6, <1>9, <1>11, <1>12 DEF live

-----------------------------------------------------------------------------
(* The actions.                                                            *)

\* A step that starts, releases or refuses a sample.
LEMMA FreshKeeps ==
    ASSUME SamplerInv, FreshLocals, setup' = setup,
           pc' \in {"between", "stepping", "refused", "add_failed"},
           \A r \in Requests : reqs'[r] \in {Absent, Added},
           reqs' = [r \in Requests |-> reqs'[r]],
           stale' \in Nat, Released', Returned',
           samples' \in Seq([prefill : Readings, decode : Readings, truth : Truths]),
           Len(samples') <= Samples, Wanted'
    PROVE  SamplerInv'
  <1>1. \A r \in Requests : /\ reqs'[r] \in RequestRecords /\ reqs'[r].gen = 0
                            /\ counted'[r] = 0
    BY Sizes DEF RequestRecords, Absent, Added, Phases, FreshLocals
  <1>2. reqs' \in [Requests -> RequestRecords]
    BY <1>1
  <1>3. TypeOK'
    BY <1>2, Sizes DEF SamplerInv, TypeOK, FreshLocals, Truths, Unknown
  <1>4. EngineInv'
    BY <1>1, Sizes DEF EngineInv, HasTokenLeft
  <1>5. Agree(reqs, counted)'
    BY <1>1 DEF Agree, Exact
  <1>6. Reads'
    BY DEF Reads, FreshLocals
  <1>7. QED  BY <1>3, <1>4, <1>5, <1>6 DEF SamplerInv

\* A gate that refuses the sample.
LEMMA RefuseKeeps ==
    ASSUME SamplerInv, NEW st \in Nat, Refuse(st)
    PROVE  SamplerInv'
  <1>1. /\ FreshLocals /\ setup' = setup /\ samples' = samples /\ pc' = "refused"
        /\ reqs' = Nobody /\ stale' = st
    BY DEF Refuse, EndSample
  <1>2. Returned'
    BY <1>1 DEF SamplerInv, Returned, Paired, Exact
  <1>3. Released'
    BY <1>1 DEF Released, Nobody
  <1>4. /\ \A r \in Requests : reqs'[r] \in {Absent, Added}
        /\ reqs' = [r \in Requests |-> reqs'[r]]
    BY <1>1 DEF Nobody
  <1>5. /\ samples' \in Seq([prefill : Readings, decode : Readings, truth : Truths])
        /\ Len(samples') <= Samples /\ Wanted'
    BY <1>1 DEF SamplerInv, TypeOK, Wanted
  <1>6. QED  BY <1>1, <1>2, <1>3, <1>4, <1>5, FreshKeeps

\* A sample is returned with the readings it took.
LEMMA FinishKeeps ==
    ASSUME SamplerInv, pc = "stepping",
           NEW next, NEW st \in Nat, FinishSample(next, st)
    PROVE  SamplerInv'
  <1> DEFINE new == [prefill |-> prefill, decode |-> decode, truth |-> truth]
             n == Len(samples)
  <1>1. CASE Refuse(st)
    BY <1>1, RefuseKeeps
  <1>2. CASE /\ prefill # NoReading /\ decode # NoReading /\ decode.used >= prefill.used
             /\ samples' = Append(samples, new)
             /\ pc' = "between" /\ EndSample(st) /\ FreshLocals /\ setup' = setup
    <2>1. new \in [prefill : Readings, decode : Readings, truth : Truths]
      BY <1>2 DEF SamplerInv, TypeOK
    <2>2. /\ samples \in Seq([prefill : Readings, decode : Readings, truth : Truths])
          /\ n \in Nat /\ Samples \in Nat
      BY SamplerAssumption DEF SamplerInv, TypeOK
    <2>3. /\ new.prefill = prefill /\ new.decode = decode /\ new.truth = truth
      OBVIOUS
    <2>4. prefill.used \in Int /\ decode.used \in Int
      BY <2>1 DEF Readings
    <2> HIDE DEF new
    <2>5. /\ samples' \in Seq([prefill : Readings, decode : Readings, truth : Truths])
          /\ Len(samples') = n + 1
          /\ \A i \in 1 .. n : samples'[i] = samples[i]
          /\ samples'[n + 1] = new
      BY <1>2, <2>1, <2>2, AppendProperties
    <2>6. Paired(prefill, decode, truth)
      BY <1>2 DEF SamplerInv, Reads
    <2>7. Exact' = Exact
      BY <1>2 DEF Exact
    <2>8. ASSUME NEW i \in 1 .. n + 1
          PROVE  /\ Paired(samples'[i].prefill, samples'[i].decode, samples'[i].truth)
                 /\ samples'[i].prefill.used <= samples'[i].decode.used
      <3>1. CASE i = n + 1
        BY <1>2, <2>3, <2>4, <2>5, <2>6, <3>1
      <3>2. CASE i # n + 1
        <4>1. i \in 1 .. n
          BY <2>2, <3>2
        <4>2. QED  BY <2>5, <4>1 DEF SamplerInv, Returned
      <3>3. QED  BY <3>1, <3>2
    <2>9. Returned'
      <3> HIDE DEF n
      <3>1. QED  BY <2>5, <2>7, <2>8 DEF Returned, Paired
    <2>10. Len(samples') <= Samples /\ Wanted'
      BY <1>2, <2>2, <2>5 DEF SamplerInv, Wanted
    <2>11. reqs' = Nobody /\ stale' = st
      BY <1>2 DEF EndSample
    <2>12. Released'
      BY <2>11 DEF Released, Nobody
    <2>13. /\ \A r \in Requests : reqs'[r] \in {Absent, Added}
           /\ reqs' = [r \in Requests |-> reqs'[r]]
      BY <2>11 DEF Nobody
    <2>14. QED
      BY <1>2, <2>5, <2>9, <2>10, <2>11, <2>12, <2>13, FreshKeeps
  <1>3. QED  BY <1>1, <1>2 DEF FinishSample

\* A step after which the sample goes on.
LEMMA ContinueKeeps ==
    ASSUME SamplerInv, pc = "stepping", NEW next \in Steps(setup, reqs), NEW st \in Nat,
           Continue(next, st)
    PROVE  SamplerInv'
  <1> DEFINE count == CountedAfter(next)
             now == Reading(next, st, count)
             pre == IF prefill = NoReading /\ Scheduled(next, count) THEN now ELSE prefill
             tokens == SumOver(Requests, [r \in Requests |-> PromptLen + next[r].gen])
  <1>1. /\ next \in [Requests -> RequestRecords]
        /\ \A r \in Requests : HasTokenLeft(next[r])
        /\ count \in [Requests -> 0 .. DecodeTokens]
        /\ \A r \in Requests : counted[r] <= count[r]
        /\ Agree(next, count)
    BY CountFacts DEF SamplerInv
  <1>2. CASE Refuse(st)
    BY <1>2, RefuseKeeps
  <1>3. CASE /\ GatePasses(next, st, count)
             /\ ~ (prefill = NoReading /\ Finished(next) # {})
             /\ ~ LastStep(steps)
             /\ reqs' = next /\ stale' = st /\ counted' = count /\ steps' = steps + 1
             /\ prefill' = pre
             /\ decode' = IF MayFreeze(next, pre) THEN now ELSE decode
             /\ truth' = IF MayFreeze(next, pre)
                         THEN [alive |-> Finished(next) = {}, tokens |-> tokens]
                         ELSE truth
             /\ UNCHANGED <<setup, pc, samples>>
    <2>1. /\ setup \in Setups /\ Exact' = Exact
          /\ prefill \in Readings \cup {NoReading} /\ decode \in Readings \cup {NoReading}
          /\ counted \in [Requests -> 0 .. DecodeTokens] /\ truth \in Truths
          /\ steps \in 0 .. MaxSteps - 1 /\ Reads
      BY <1>3 DEF SamplerInv, TypeOK, Exact
    <2>2. tokens \in Nat
      <3>1. IsFiniteSet(Requests) /\ \A r \in Requests :
                [x \in Requests |-> PromptLen + next[x].gen][r] \in Int
        BY <1>1, EngineAssumption DEF RequestRecords
      <3>2. QED  BY <3>1, SumType
    <2>3. ASSUME Finished(next) = {}, \A r \in Requests : count[r] >= 1
          PROVE  /\ now \in Readings /\ Covers(now)
                 /\ now.live = SumOver(Requests, Terms(count))
                 /\ Exact => now.live = tokens
      <3> HIDE DEF count
      <3>1. QED  BY <1>1, <1>3, <2>1, <2>3, ReadingCovers
    <2>4. steps' \in 0 .. MaxSteps - 1
      BY <1>3, <2>1, Sizes DEF LastStep
    <2> HIDE DEF count, now, tokens
    <2>5. /\ \A r \in Requests : Terms(counted)[r] \in Int /\ Terms(count)[r] \in Int
                                 /\ Terms(counted)[r] <= Terms(count)[r]
          /\ IsFiniteSet(Requests)
      BY <1>1, <2>1, Sizes, EngineAssumption DEF Terms
    <2>6. /\ SumOver(Requests, Terms(counted)) \in Nat
          /\ SumOver(Requests, Terms(count)) \in Nat
          /\ SumOver(Requests, Terms(counted)) <= SumOver(Requests, Terms(count))
      BY <2>5, SumType, SumMonotone
    <2>7. Reads' /\ prefill' \in Readings \cup {NoReading}
          /\ decode' \in Readings \cup {NoReading} /\ truth' \in Truths
      <3>1. CASE prefill = NoReading /\ ~ Scheduled(next, count)
        <4>1. prefill' = NoReading /\ decode' = decode /\ truth' = truth
          BY <1>3, <3>1 DEF MayFreeze
        <4>2. QED  BY <2>1, <3>1, <4>1 DEF Reads
      <3>2. CASE prefill = NoReading /\ Scheduled(next, count)
        <4>1. Finished(next) = {} /\ \A r \in Requests : count[r] >= 1
          BY <1>3, <3>2 DEF Scheduled
        <4>2. now # NoReading
          BY <2>3, <4>1, Sizes
        <4>3. /\ prefill' = now /\ decode' = now
              /\ truth' = [alive |-> TRUE, tokens |-> tokens]
          BY <1>3, <3>2, <4>1, <4>2 DEF MayFreeze
        <4>4. truth' \in Truths /\ truth'.alive /\ truth'.tokens = tokens
          BY <2>2, <4>3 DEF Truths
        <4>5. now.live \in Nat
          BY <2>3, <4>1 DEF Readings
        <4>6. Paired(now, now, truth')
          BY <2>3, <4>1, <4>4, <4>5 DEF Paired
        <4>7. Paired(prefill, decode, truth)'
          BY <2>1, <4>3, <4>6 DEF Paired, Covers
        <4>8. (prefill.live <= SumOver(Requests, Terms(counted)))'
          BY <1>3, <2>3, <2>6, <4>1, <4>3 DEF Terms
        <4>9. QED  BY <1>3, <2>3, <4>1, <4>2, <4>3, <4>4, <4>7, <4>8 DEF Reads
      <3>3. CASE prefill # NoReading
        <4>1. /\ Paired(prefill, decode, truth) /\ decode # NoReading
              /\ \A r \in Requests : counted[r] >= 1
              /\ prefill.live <= SumOver(Requests, Terms(counted))
          BY <2>1, <3>3 DEF Reads
        <4>2. \A r \in Requests : count[r] >= 1
          BY <1>1, <2>1, <4>1
        <4>3. prefill' = prefill
          BY <1>3, <3>3
        <4>4. prefill.live \in Nat
          BY <2>1, <3>3 DEF Readings
        <4>5. prefill.live <= SumOver(Requests, Terms(count))
          BY <2>6, <4>1, <4>4
        <4>6. (prefill.live <= SumOver(Requests, Terms(counted)))'
          BY <1>3, <4>3, <4>5 DEF Terms
        <4>7. CASE Finished(next) # {}
          <5>1. decode' = decode /\ truth' = truth
            BY <1>3, <4>7 DEF MayFreeze
          <5>2. Paired(prefill, decode, truth)'
            BY <2>1, <4>1, <4>3, <5>1 DEF Paired, Covers
          <5>3. QED  BY <1>3, <2>1, <3>3, <4>1, <4>2, <4>3, <4>6, <5>1, <5>2 DEF Reads
        <4>8. CASE Finished(next) = {}
          <5>1. decode' = now /\ truth' = [alive |-> TRUE, tokens |-> tokens]
            BY <1>3, <3>3, <4>8 DEF MayFreeze
          <5>2. truth' \in Truths /\ truth'.alive /\ truth'.tokens = tokens
            BY <2>2, <5>1 DEF Truths
          <5>3. Paired(prefill, now, truth')
            BY <2>3, <4>1, <4>2, <4>5, <4>8, <5>2 DEF Paired
          <5>4. Paired(prefill, decode, truth)'
            BY <2>1, <4>3, <5>1, <5>3 DEF Paired, Covers
          <5>5. now \in Readings /\ now # NoReading
            BY <2>3, <4>2, <4>8, Sizes
          <5>6. QED
            BY <1>3, <2>1, <3>3, <4>2, <4>3, <4>6, <5>1, <5>2, <5>4, <5>5 DEF Reads
        <4>9. QED  BY <4>7, <4>8
      <3>4. QED  BY <3>1, <3>2, <3>3
    <2>8. TypeOK'
      BY <1>1, <1>3, <2>4, <2>7 DEF SamplerInv, TypeOK
    <2>9. EngineInv' /\ Agree(reqs, counted)'
      BY <1>1, <1>3, <2>1 DEF EngineInv, Agree
    <2>10. Returned' /\ Released' /\ Wanted'
      <3>1. Returned'
        BY <1>3, <2>1 DEF SamplerInv, Returned, Paired
      <3>2. QED  BY <1>3, <3>1 DEF SamplerInv, Released, Wanted
    <2>11. QED  BY <2>7, <2>8, <2>9, <2>10 DEF SamplerInv
  <1>4. QED  BY <1>2, <1>3 DEF Continue

\* SamplerInv is inductive.
LEMMA NextKeepsSampler == SamplerInv /\ [Next]_vars => SamplerInv'
  <1> SUFFICES ASSUME SamplerInv, [Next]_vars PROVE SamplerInv'
    OBVIOUS
  <1>0. /\ TypeOK /\ stale \in Nat /\ 0 \in Nat
        /\ samples \in Seq([prefill : Readings, decode : Readings, truth : Truths])
        /\ Len(samples) <= Samples
    BY DEF SamplerInv, TypeOK
  <1>1. ASSUME FreshLocals, setup' = setup, stale' = stale, samples' = samples,
               pc' \in {"stepping", "add_failed"}, Len(samples) < Samples,
               \A r \in Requests : reqs'[r] \in {Absent, Added},
               reqs' = [r \in Requests |-> reqs'[r]]
        PROVE  SamplerInv'
    <2>1. Released' /\ Wanted'
      BY <1>1 DEF Released, Wanted
    <2>2. Returned'
      BY <1>1 DEF SamplerInv, Returned, Paired, Exact
    <2>3. QED  BY <1>0, <1>1, <2>1, <2>2, FreshKeeps
  <1>2. CASE BeginSample
    <2>1. /\ \A r \in Requests : reqs'[r] \in {Absent, Added}
          /\ reqs' = [r \in Requests |-> reqs'[r]]
      BY <1>2 DEF BeginSample
    <2>2. QED  BY <1>1, <1>2, <2>1 DEF BeginSample
  <1>3. CASE AddFails
    <2>1. PICK added \in SUBSET Requests :
              reqs' = [r \in Requests |-> IF r \in added THEN Added ELSE Absent]
      BY <1>3 DEF AddFails
    <2>2. /\ \A r \in Requests : reqs'[r] \in {Absent, Added}
          /\ reqs' = [r \in Requests |-> reqs'[r]]
      BY <2>1
    <2>3. QED  BY <1>1, <1>3, <2>2 DEF AddFails
  <1>4. CASE RefusePreStep
    BY <1>0, <1>4, RefuseKeeps DEF RefusePreStep
  <1>5. CASE StepRaises
    BY <1>0, <1>5, RefuseKeeps DEF StepRaises
  <1>6. ASSUME NEW next \in Steps(setup, reqs),
               Stepped(next, StaleAfter(setup, reqs, next)),
               \/ FinishSample(next, StaleAfter(setup, reqs, next))
               \/ Continue(next, StaleAfter(setup, reqs, next))
        PROVE  SamplerInv'
    <2> DEFINE st == StaleAfter(setup, reqs, next)
    <2>1. next \in [Requests -> RequestRecords]
      BY CountFacts DEF SamplerInv
    <2>2. st \in Nat
      BY <2>1, StaleType DEF SamplerInv, TypeOK
    <2>3. pc = "stepping"
      BY <1>6 DEF Stepped
    <2>4. FinishSample(next, st) \/ Continue(next, st)
      BY <1>6
    <2> HIDE DEF st
    <2>5. QED  BY <2>2, <2>3, <2>4, FinishKeeps, ContinueKeeps
  <1>7. CASE CellDone
    <2>1. /\ pc' \in {"measured", "refused"} /\ pc = "between"
          /\ UNCHANGED <<setup, reqs, stale, counted, steps, prefill, decode, truth, samples>>
      BY <1>7 DEF CellDone, engine
    <2>2. TypeOK'
      BY <1>0, <2>1 DEF TypeOK
    <2>3. Released' /\ Wanted'
      BY <2>1 DEF SamplerInv, Released, Wanted, Nobody
    <2>4. EngineInv' /\ Agree(reqs, counted)' /\ Reads' /\ Returned'
      BY <2>1 DEF SamplerInv, EngineInv, Agree, Reads, Returned, Paired, Exact, Terms
    <2>5. QED  BY <2>2, <2>3, <2>4 DEF SamplerInv
  <1>8. CASE UNCHANGED vars
    BY <1>8 DEF vars, SamplerInv, TypeOK, EngineInv, Agree, Reads, Returned, Paired, Exact,
                Released, Wanted, Nobody, Terms
  <1>9. CASE Iterate
    BY <1>4, <1>5, <1>6, <1>9 DEF Iterate
  <1>10. QED  BY <1>2, <1>3, <1>7, <1>8, <1>9 DEF Next

\* The invariant holds throughout.
THEOREM SamplerInvariant == Spec => []SamplerInv
  <1>1. Init => SamplerInv
    <2> SUFFICES ASSUME Init PROVE SamplerInv
      OBVIOUS
    <2>1. \A r \in Requests : /\ reqs[r] \in RequestRecords /\ reqs[r].gen = 0
                              /\ counted[r] = 0
      BY Sizes DEF Init, Nobody, Absent, RequestRecords, Phases
    <2>2. TypeOK
      BY <2>1, Sizes, SamplerAssumption DEF Init, TypeOK, Nobody, Truths, Unknown
    <2>3. EngineInv /\ Agree(reqs, counted)
      BY <2>1, Sizes DEF EngineInv, HasTokenLeft, Agree
    <2>4. Reads /\ Returned /\ Released /\ Wanted
      BY DEF Init, Reads, Returned, Released, Wanted
    <2>5. QED  BY <2>2, <2>3, <2>4 DEF SamplerInv
  <1>2. QED  BY <1>1, NextKeepsSampler, PTL DEF Spec

-----------------------------------------------------------------------------
(* The theorems.                                                           *)

\* The types hold for every engine, and sample_decode_window never iterates
\* beyond max_steps.
THEOREM TypeCorrect == Spec => []TypeOK
  <1>1. SamplerInv => TypeOK
    BY DEF SamplerInv
  <1>2. QED  BY <1>1, SamplerInvariant, PTL

\* However sample_decode_window ends once the batch is in the engine, its
\* finally clause leaves no request behind.
THEOREM SamplesAreReleased == Spec => []Released
  <1>1. SamplerInv => Released
    BY DEF SamplerInv
  <1>2. QED  BY <1>1, SamplerInvariant, PTL

\* The returned readings are readings.
LEMMA SampleFields ==
    ASSUME TypeOK, NEW i \in 1 .. Len(samples)
    PROVE  samples[i].prefill \in Readings /\ samples[i].decode \in Readings
  <1> DEFINE R == [prefill : Readings, decode : Readings, truth : Truths]
  <1>1. samples \in Seq(R)
    BY DEF TypeOK
  <1>2. \A x \in R : x.prefill \in Readings /\ x.decode \in Readings
    OBVIOUS
  <1> HIDE DEF R
  <1>3. samples[i] \in R
    BY <1>1
  <1>4. QED  BY <1>2, <1>3

\* Engines that report tokens as VllmEngineDriver.step expects.
CumulativeOutputs == \A s \in Setups : s.driver = "fake" \/ s.output = "cumulative"

\* A decode reading that sample_decode_window returns describes the whole batch
\* at one moment and counts the engine's own tokens, whatever the engine does
\* with chunks, preemption and early ends, if its outputs are cumulative.
THEOREM ReadingsAreOfWholeBatch ==
    ASSUME CumulativeOutputs
    PROVE  Spec => []ReadsWholeBatch
  <1>1. SamplerInv => ReadsWholeBatch
    <2> SUFFICES ASSUME SamplerInv, NEW i \in 1 .. Len(samples)
                 PROVE  /\ samples[i].truth.alive
                        /\ samples[i].decode.live = samples[i].truth.tokens
                        /\ samples[i].prefill.live \in
                              Batch * (PromptLen + 1) .. samples[i].decode.live
      BY DEF ReadsWholeBatch
    <2>1. Exact
      BY DEF CumulativeOutputs, SamplerInv, TypeOK, Exact
    <2>2. Paired(samples[i].prefill, samples[i].decode, samples[i].truth)
      BY DEF SamplerInv, Returned
    <2>3. samples[i].prefill \in Readings /\ samples[i].decode \in Readings
      BY SampleFields DEF SamplerInv
    <2>4. /\ samples[i].prefill.live \in Nat /\ samples[i].decode.live \in Nat
          /\ Batch * (PromptLen + 1) \in Nat
      BY <2>3, Sizes DEF Readings
    <2>5. QED  BY <2>1, <2>2, <2>4 DEF Paired, Covers
  <1>2. QED  BY <1>1, SamplerInvariant, PTL

\* As many blocks as hold n slots hold n tokens.
LEMMA BlocksSuffice ==
    ASSUME NEW n \in Nat, NEW used \in Int, n <= used * BlockSize
    PROVE  BlocksFor(n) \in Int /\ BlocksFor(n) <= used
  <1> DEFINE a == n + BlockSize - 1
             q == a \div BlockSize
  <1>1. BlockSize \in Nat /\ BlockSize > 0 /\ a \in Nat
    BY Sizes
  <1>2. q \in Int /\ q * BlockSize <= a
    BY <1>1
  <1>3. a < used * BlockSize + BlockSize /\ used * BlockSize + BlockSize = (used + 1) * BlockSize
    BY <1>1
  <1> HIDE DEF a, q
  <1>4. ~ (q >= used + 1)
    <2> SUFFICES ASSUME q >= used + 1 PROVE FALSE
      OBVIOUS
    <2>1. q * BlockSize >= (used + 1) * BlockSize
      BY <1>1, <1>2
    <2>2. QED  BY <1>1, <1>2, <1>3, <2>1
  <1>5. QED  BY <1>2, <1>4 DEF BlocksFor, q, a

\* The blocks of a returned reading hold every token of the batch, and exceed
\* it by a block per request and the slack at most: _check_block_consistency
\* refuses an engine that shares blocks or keeps some for itself beyond that.
THEOREM ReadingsCoverTokens ==
    ASSUME CumulativeOutputs
    PROVE  Spec => []CoversTokens
  <1>1. SamplerInv => CoversTokens
    <2> SUFFICES ASSUME SamplerInv, NEW i \in 1 .. Len(samples)
                 PROVE  /\ samples[i].decode.used * BlockSize \in
                              samples[i].truth.tokens
                              .. samples[i].truth.tokens + Batch * BlockSize + SlotSlack
                        /\ samples[i].prefill.used \in
                              BlocksFor(samples[i].prefill.live) .. samples[i].decode.used
      BY DEF CoversTokens
    <2> DEFINE pre == samples[i].prefill
               dec == samples[i].decode
               tokens == samples[i].truth.tokens
    <2>1. Exact
      BY DEF CumulativeOutputs, SamplerInv, TypeOK, Exact
    <2>2. /\ Paired(pre, dec, samples[i].truth)
          /\ pre.used <= dec.used
      BY DEF SamplerInv, Returned
    <2>3. pre \in Readings /\ dec \in Readings
      BY SampleFields DEF SamplerInv
    <2>4. /\ pre.live \in Nat /\ dec.live \in Nat /\ pre.used \in Int /\ dec.used \in Int
      BY <2>3 DEF Readings
    <2>5. Covers(pre) /\ Covers(dec) /\ dec.live = tokens
      BY <2>1, <2>2 DEF Paired
    <2> HIDE DEF pre, dec, tokens
    <2>6. dec.used * BlockSize \in Int /\ Batch * BlockSize \in Int /\ SlotSlack \in Int
      BY <2>4, Sizes
    <2>7. dec.used * BlockSize \in tokens .. tokens + Batch * BlockSize + SlotSlack
      BY <2>4, <2>5, <2>6 DEF Covers
    <2>8. BlocksFor(pre.live) \in Int /\ BlocksFor(pre.live) <= pre.used
      BY <2>4, <2>5, BlocksSuffice DEF Covers
    <2>9. QED  BY <2>2, <2>4, <2>7, <2>8 DEF pre, dec, tokens
  <1>2. QED  BY <1>1, SamplerInvariant, PTL
=============================================================================
