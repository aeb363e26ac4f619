-------------------------- MODULE AutoscalerProofs --------------------------
(***************************************************************************)
(* Proofs about the autoscaler for every set of pools, every gains, every  *)
(* window length and every sequence of scrapes and resizes, and, at the    *)
(* end, about the live experiment that calls it.  LiveAssumption is used   *)
(* by the proofs about the experiment only.                                *)
(***************************************************************************)
EXTENDS LiveExperiment, TLAPS, FiniteSetTheorems, SequenceTheorems

-----------------------------------------------------------------------------
(* Arithmetic of one decision.                                             *)

\* A product of nonnegative integers.
LEMMA MulNonNeg ==
    ASSUME NEW a \in Int, NEW b \in Int, a >= 0, b >= 0
    PROVE  a * b >= 0
  BY Z3

\* A positive factor cancels from an inequality.
LEMMA MulCancel ==
    ASSUME NEW a \in Int, NEW b \in Int, NEW d \in Int, d > 0, d * a < d * b
    PROVE  a < b
  BY Z3

\* Quotient and remainder of a division by a positive integer.
LEMMA DivisionLaw ==
    ASSUME NEW n \in Int, NEW d \in Int, d > 0
    PROVE  /\ n \div d \in Int /\ n % d \in Int
           /\ n = d * (n \div d) + (n % d)
           /\ 0 <= n % d /\ n % d < d
  BY Z3

\* Rounding does not leave an integer interval.
LEMMA RoundBound ==
    ASSUME NEW n \in Int, NEW d \in Int, d > 0, NEW m \in Nat,
           -(d * m) <= n, n <= d * m
    PROVE  Round(n, d) \in Int /\ -m <= Round(n, d) /\ Round(n, d) <= m
  <1> DEFINE q == n \div d
             r == n % d
  <1>1. q \in Int /\ r \in Int /\ n = d * q + r /\ 0 <= r /\ r < d
    BY DivisionLaw
  <1>2. Round(n, d) = q \/ (Round(n, d) = q + 1 /\ r > 0)
    BY <1>1 DEF Round
  <1> HIDE DEF q, r
  <1>3. -m <= q
    <2>1. d * (-m - 1) < d * q
      <3>1. d * (-m - 1) = -(d * m) - d
        OBVIOUS
      <3>2. d * q \in Int /\ d * m \in Int
        BY <1>1
      <3>3. QED  BY <1>1, <3>1, <3>2
    <2>2. QED  BY <1>1, <2>1, MulCancel
  <1>4. q <= m
    <2>1. d * q < d * (m + 1)
      <3>1. d * (m + 1) = d * m + d
        OBVIOUS
      <3>2. d * q \in Int /\ d * m \in Int
        BY <1>1
      <3>3. QED  BY <1>1, <3>1, <3>2
    <2>2. QED  BY <1>1, <2>1, MulCancel
  <1>5. r > 0 => q + 1 <= m
    <2>1. ASSUME r > 0 PROVE q < m
      <3>1. d * q < d * m
        <4>1. d * q \in Int /\ d * m \in Int
          BY <1>1
        <4>2. QED  BY <1>1, <2>1, <4>1
      <3>2. QED  BY <1>1, <3>1, MulCancel
    <2>2. QED  BY <1>1, <2>1
  <1>6. QED  BY <1>1, <1>2, <1>3, <1>4, <1>5

\* The controller's output stays inside its clamp.
LEMMA OutputBound ==
    ASSUME NEW g, ValidGains(g), NEW c \in PidState, NEW error \in Int,
           NEW dt \in Nat \ {0}
    PROVE  /\ PidOutput(g, c, error, dt) \in Int
           /\ g.lo * dt <= PidOutput(g, c, error, dt)
           /\ PidOutput(g, c, error, dt) <= g.hi * dt
  <1>1. /\ g.kp \in Int /\ g.ki \in Int /\ g.kd \in Int
        /\ g.lo \in Int /\ g.hi \in Int /\ g.lo < g.hi
        /\ c.integral \in Int /\ c.prev \in Int \cup {NoError}
    BY DEF ValidGains, GainSet, PidState
  <1>2. Unclamped(g, c, error, dt) \in Int
    BY <1>1, NoErrorAssumption DEF Unclamped
  <1>3. g.lo * dt \in Int /\ g.hi * dt \in Int /\ g.lo * dt <= g.hi * dt
    <2>1. (g.hi - g.lo) * dt >= 0
      BY <1>1, MulNonNeg
    <2>2. (g.hi - g.lo) * dt = g.hi * dt - g.lo * dt
      BY <1>1
    <2>3. g.lo * dt \in Int /\ g.hi * dt \in Int
      BY <1>1
    <2>4. QED  BY <2>1, <2>2, <2>3
  <1>4. QED  BY <1>2, <1>3 DEF PidOutput, SaturatesHigh, SaturatesLow

\* The delta of one pool before floor and ceiling is within step_size.
LEMMA StepBound ==
    ASSUME NEW g, ValidGains(g), NEW dt \in Nat \ {0}, NEW output \in Int,
           g.lo * dt <= output, output <= g.hi * dt
    PROVE  /\ StepOf(g, output, dt) \in Int
           /\ -StepSize <= StepOf(g, output, dt)
           /\ StepOf(g, output, dt) <= StepSize
  <1>1. g.lo \in Int /\ g.hi \in Int /\ g.lo < g.hi
    BY DEF ValidGains, GainSet
  <1>2. StepSize \in Nat
    BY AutoscalerAssumption
  <1> DEFINE span == (g.hi - g.lo) * dt
             x == 2 * (output - g.lo * dt) - span
  <1>3. span \in Int /\ x \in Int /\ g.lo * dt \in Int /\ g.hi * dt \in Int
    BY <1>1
  <1>4. span = g.hi * dt - g.lo * dt
    BY <1>1
  <1>5. span > 0
    BY <1>1, Z3
  <1>6. -span <= x /\ x <= span
    <2> HIDE DEF span
    <2>1. QED  BY <1>3, <1>4
  <1> HIDE DEF span, x
  <1>7. x * StepSize \in Int /\ -(span * StepSize) <= x * StepSize
        /\ x * StepSize <= span * StepSize
    <2>1. (span - x) * StepSize >= 0 /\ (span + x) * StepSize >= 0
      BY <1>2, <1>3, <1>6, MulNonNeg
    <2>2. /\ (span - x) * StepSize = span * StepSize - x * StepSize
          /\ (span + x) * StepSize = span * StepSize + x * StepSize
      BY <1>2, <1>3
    <2>3. span * StepSize \in Int /\ x * StepSize \in Int
      BY <1>2, <1>3
    <2>4. QED  BY <2>1, <2>2, <2>3
  <1>8. /\ Round(x * StepSize, span) \in Int
        /\ -StepSize <= Round(x * StepSize, span)
        /\ Round(x * StepSize, span) <= StepSize
    BY <1>2, <1>3, <1>5, <1>7, RoundBound
  <1>9. StepOf(g, output, dt) = Round(x * StepSize, span)
    BY DEF StepOf, x, span
  <1>10. QED  BY <1>8, <1>9

-----------------------------------------------------------------------------
(* What one decision can be.                                               *)

\* Floor and ceiling: a non-zero delta leads into the range, and the clamp
\* never enlarges a step taken inside the range.
LEMMA BoundedDelta ==
    ASSUME NEW r \in Nat, NEW s \in Int, -StepSize <= s, s <= StepSize
    PROVE  /\ Bounded(r, s) \in Int
           /\ MinReplicas <= r + Bounded(r, s)
           /\ r + Bounded(r, s) <= MaxReplicas
           /\ (MinReplicas <= r /\ r <= MaxReplicas) =>
                 -StepSize <= Bounded(r, s) /\ Bounded(r, s) <= StepSize
  BY AutoscalerAssumption DEF Bounded

\* A decision either holds or changes the pool the way the contract allows.
LEMMA DecisionSafe ==
    ASSUME TypeOK, NEW p \in Pools, NEW depth \in Nat, NEW inFlight \in BOOLEAN,
           NEW age \in Durations, NEW dt \in Nat \ {0}
    PROVE  LET d == Decide(p, depth, inFlight, age, dt)
           IN  /\ d \in Decisions
               /\ replicas[p] + d.delta \in Nat
               /\ d.delta # 0 =>
                    /\ p \in Controlled
                    /\ MinReplicas <= replicas[p] + d.delta
                    /\ replicas[p] + d.delta <= MaxReplicas
                    /\ (MinReplicas <= replicas[p] /\ replicas[p] <= MaxReplicas)
                          => -StepSize <= d.delta /\ d.delta <= StepSize
                    /\ age # Never => age >= MinDwell
                    /\ d.delta < 0 => ~ inFlight
  <1> DEFINE d == Decide(p, depth, inFlight, age, dt)
  <1>1. replicas[p] \in Nat
    BY DEF TypeOK
  <1>2. CASE p \notin Controlled
    <2>1. d = Hold("no_controller")
      BY <1>2 DEF Decide
    <2>2. QED  BY <1>1, <2>1 DEF Hold, Decisions, Reasons
  <1>3. CASE p \in Controlled
    <2> DEFINE e == depth - Target[p]
               u == PidOutput(Gains[p], controllers[p], e, dt)
               w == Wanted(p, replicas[p], e, dt)
    <2>1. e \in Int /\ controllers[p] \in PidState /\ ValidGains(Gains[p])
      BY <1>3, AutoscalerAssumption DEF TypeOK
    <2>2. /\ u \in Int /\ Gains[p].lo * dt <= u /\ u <= Gains[p].hi * dt
      BY <2>1, OutputBound
    <2>3. /\ StepOf(Gains[p], u, dt) \in Int
          /\ -StepSize <= StepOf(Gains[p], u, dt)
          /\ StepOf(Gains[p], u, dt) <= StepSize
      BY <2>1, <2>2, StepBound
    <2>4. w = Bounded(replicas[p], StepOf(Gains[p], u, dt))
      BY DEF Wanted
    <2> HIDE DEF u, e
    <2>5. /\ w \in Int
          /\ MinReplicas <= replicas[p] + w /\ replicas[p] + w <= MaxReplicas
          /\ (MinReplicas <= replicas[p] /\ replicas[p] <= MaxReplicas) =>
                -StepSize <= w /\ w <= StepSize
      BY <1>1, <2>3, <2>4, BoundedDelta
    <2>6. d = Verdict(w, inFlight, age)
      BY <1>3 DEF Decide, e
    <2> HIDE DEF w, d
    <2>7. /\ d \in Decisions
          /\ d.delta = 0 \/ d.delta = w
          /\ d.delta # 0 => (age # Never => age >= MinDwell)
          /\ d.delta < 0 => ~ inFlight
      <3>1. CASE w < 0 /\ inFlight
        BY <2>6, <3>1 DEF Verdict, Hold, Decisions, Reasons
      <3>2. CASE /\ ~ (w < 0 /\ inFlight)
                 /\ w # 0 /\ MinDwell > 0 /\ age # Never /\ age < MinDwell
        BY <2>6, <3>2 DEF Verdict, Hold, Decisions, Reasons
      <3>3. CASE /\ ~ (w < 0 /\ inFlight)
                 /\ ~ (w # 0 /\ MinDwell > 0 /\ age # Never /\ age < MinDwell)
        <4>1. d = [delta   |-> w,
                   reason  |-> IF w > 0 THEN "queue_high"
                               ELSE IF w < 0 THEN "queue_low" ELSE "stable",
                   drained |-> w < 0]
          BY <2>6, <3>3 DEF Verdict
        <4>2. d.delta = w /\ d \in Decisions
          BY <2>5, <4>1 DEF Decisions, Reasons
        <4>3. w # 0 => (age # Never => age >= MinDwell)
          <5>1. age # Never => age \in Nat
            BY DEF Durations
          <5>2. MinDwell \in Nat
            BY AutoscalerAssumption
          <5>3. QED  BY <3>3, <5>1, <5>2
        <4>4. QED  BY <3>3, <4>2, <4>3
      <3>4. QED  BY <3>1, <3>2, <3>3
    <2>8. replicas[p] + d.delta \in Nat
      <3>1. MinReplicas \in Nat
        BY AutoscalerAssumption
      <3>2. QED  BY <1>1, <2>5, <2>7, <3>1
    <2>9. QED  BY <1>3, <2>5, <2>7, <2>8 DEF d
  <1>4. QED  BY <1>2, <1>3

\* A duration that grows older stays a duration.
LEMMA AgedType ==
    ASSUME NEW s \in Durations, NEW e \in Nat
    PROVE  Aged(s, e) \in Durations /\ (Aged(s, e) = Never <=> s = Never)
  <1>1. Horizon \in Nat /\ Never \notin Nat
    BY AutoscalerAssumption DEF Horizon
  <1>2. QED  BY <1>1 DEF Aged, Contract!Aged, Durations

-----------------------------------------------------------------------------
(* What a tick does, pool by pool.                                         *)

\* A tick changes a pool by a decision within range and step, and starts its
\* clock again exactly if the count changed.
LEMMA TickEffect ==
    ASSUME TypeOK,
           NEW elapsed \in Elapsed, NEW depth \in [Pools -> Depths],
           NEW inFlight \in [Pools -> BOOLEAN], NEW dt \in Dts,
           Tick(elapsed, depth, inFlight, dt)
    PROVE  /\ TypeOK'
           /\ \A p \in Pools :
                /\ (replicas'[p] # replicas[p]) <=> (decision'[p].delta # 0)
                /\ since'[p] = IF replicas'[p] # replicas[p] THEN 0
                               ELSE Aged(since[p], elapsed)
                /\ replicas'[p] # replicas[p] =>
                     /\ p \in Controlled
                     /\ MinReplicas <= replicas'[p] /\ replicas'[p] <= MaxReplicas
                     /\ (MinReplicas <= replicas[p] /\ replicas[p] <= MaxReplicas)
                           => /\ replicas'[p] - replicas[p] <= StepSize
                              /\ replicas[p] - replicas'[p] <= StepSize
                     /\ since[p] # Never => Aged(since[p], elapsed) >= MinDwell
                     /\ replicas'[p] < replicas[p] => ~ busy'[p]
  <1> DEFINE age == [p \in Pools |-> Aged(since[p], elapsed)]
  <1>1. elapsed \in Nat /\ dt \in Nat \ {0} /\ \A p \in Pools : depth[p] \in Nat
    BY AutoscalerAssumption
  <1>2. ASSUME NEW p \in Pools
        PROVE  /\ age[p] \in Durations
               /\ age[p] = Never <=> since[p] = Never
    BY <1>1, AgedType DEF TypeOK
  <1>3. ASSUME NEW p \in Pools
        PROVE  /\ decision'[p] = Decide(p, depth[p], inFlight[p], age[p], dt)
               /\ replicas'[p] = replicas[p] + decision'[p].delta
               /\ since'[p] = Flipped(decision'[p], age[p])
    BY DEF Tick, Decided, GapAfter
  <1>4. ASSUME NEW p \in Pools
        PROVE  /\ decision'[p] \in Decisions
               /\ replicas'[p] \in Nat
               /\ decision'[p].delta # 0 =>
                    /\ p \in Controlled
                    /\ MinReplicas <= replicas'[p] /\ replicas'[p] <= MaxReplicas
                    /\ (MinReplicas <= replicas[p] /\ replicas[p] <= MaxReplicas)
                          => -StepSize <= decision'[p].delta
                             /\ decision'[p].delta <= StepSize
                    /\ age[p] # Never => age[p] >= MinDwell
                    /\ decision'[p].delta < 0 => ~ inFlight[p]
    BY <1>1, <1>2, <1>3, DecisionSafe
  <1>5. ASSUME NEW p \in Pools
        PROVE  decision'[p].delta \in Int /\ replicas[p] \in Nat
    BY <1>4 DEF Decisions, TypeOK
  <1>6. \A p \in Pools : since'[p] \in Durations
    BY <1>2, <1>3 DEF Flipped, Durations
  <1>7. controllers' \in [Controlled -> PidState]
    <2> SUFFICES ASSUME NEW p \in Controlled
                 PROVE  PidNext(Gains[p], controllers[p], depth[p] - Target[p], dt)
                          \in PidState
      BY DEF Tick, Decided, GapAfter
    <2>1. depth[p] - Target[p] \in Int /\ controllers[p].integral \in Int
      BY <1>1, AutoscalerAssumption DEF TypeOK, PidState
    <2>2. QED  BY <1>1, <2>1 DEF PidNext, PidState
  <1>8. thrash' \in Nat
    <2> DEFINE T == {p \in Pools : Thrashes(decision'[p], age[p])}
    <2>1. thrash' = CapAt(thrash + Cardinality(T), ThrashCap)
      BY DEF Tick, Decided, GapAfter
    <2>2. IsFiniteSet(Pools)
      BY AutoscalerAssumption
    <2>3. Cardinality(T) \in Nat
      BY <2>2, FS_Subset, FS_CardinalityType
    <2> HIDE DEF T
    <2>4. QED  BY <2>1, <2>3, AutoscalerAssumption DEF CapAt, TypeOK
  <1>9. gap' \in [Pools -> Durations]
    <2>1. \A p \in Pools : Aged(gap[p], elapsed) \in Durations
      BY <1>1, AgedType DEF TypeOK
    <2>2. QED  BY <2>1 DEF Tick, Decided, GapAfter, Durations
  <1>10. TypeOK'
    <2>1. /\ decision' = [p \in Pools |-> decision'[p]]
          /\ replicas' = [p \in Pools |-> replicas'[p]]
          /\ since' = [p \in Pools |-> since'[p]]
      BY DEF Tick, Decided, GapAfter
    <2>2. /\ decision' \in [Pools -> Decisions]
          /\ replicas' \in [Pools -> Nat]
          /\ since' \in [Pools -> Durations]
      BY <1>4, <1>6, <2>1
    <2>3. busy' \in [Pools -> BOOLEAN]
      BY DEF Tick, Decided, GapAfter
    <2>4. QED  BY <1>7, <1>8, <1>9, <2>2, <2>3 DEF TypeOK
  <1>11. ASSUME NEW p \in Pools
         PROVE  (replicas'[p] # replicas[p]) <=> (decision'[p].delta # 0)
    <2> DEFINE r1 == replicas'[p]
               r0 == replicas[p]
               dd == decision'[p].delta
    <2>1. r1 = r0 + dd
      BY <1>3
    <2>2. r0 \in Nat /\ dd \in Int
      BY <1>5
    <2> HIDE DEF r1, r0, dd, age
    <2>3. r1 # r0 <=> dd # 0
      BY <2>1, <2>2
    <2>4. QED  BY <2>3 DEF r1, r0, dd
  <1>12. ASSUME NEW p \in Pools
         PROVE  since'[p] = IF replicas'[p] # replicas[p] THEN 0
                            ELSE Aged(since[p], elapsed)
    BY <1>3, <1>11 DEF Flipped
  <1>13. ASSUME NEW p \in Pools, replicas'[p] # replicas[p]
         PROVE  /\ p \in Controlled
                /\ MinReplicas <= replicas'[p] /\ replicas'[p] <= MaxReplicas
                /\ (MinReplicas <= replicas[p] /\ replicas[p] <= MaxReplicas)
                      => /\ replicas'[p] - replicas[p] <= StepSize
                         /\ replicas[p] - replicas'[p] <= StepSize
                /\ since[p] # Never => Aged(since[p], elapsed) >= MinDwell
                /\ replicas'[p] < replicas[p] => ~ busy'[p]
    <2>1. decision'[p].delta # 0
      BY <1>11, <1>13
    <2>2. busy'[p] = inFlight[p] /\ age[p] = Aged(since[p], elapsed)
      BY DEF Tick, Decided, GapAfter
    <2>3. StepSize \in Nat
      BY AutoscalerAssumption
    <2>4. replicas'[p] - replicas[p] = decision'[p].delta
      BY <1>3, <1>5
    <2> HIDE DEF age
    <2>5. QED  BY <1>2, <1>3, <1>4, <1>5, <2>1, <2>2, <2>3, <2>4
  <1>14. QED  BY <1>10, <1>11, <1>12, <1>13

-----------------------------------------------------------------------------
(* Theorems.                                                               *)

\* The invariant the theorems rest on.  Besides types it says that the flip
\* time the code records is the time of the last real change, without which
\* the dwell guard would say nothing about changes, and that the alarm is
\* silent.
IInv == TypeOK /\ FlipClockExact /\ DwellSilencesThrash

\* The invariant holds at the start.
LEMMA InitIInv == Init => IInv
  <1> SUFFICES ASSUME Init PROVE IInv
    OBVIOUS
  <1>1. TypeOK
    <2>1. FreshPid \in PidState
      BY DEF FreshPid, PidState
    <2>2. Hold("stable") \in Decisions
      BY DEF Hold, Decisions, Reasons
    <2>3. replicas \in [Pools -> Nat]
      BY AutoscalerAssumption DEF Init
    <2>4. QED  BY <2>1, <2>2, <2>3 DEF Init, TypeOK, Durations
  <1>2. FlipClockExact
    BY DEF Init, FlipClockExact
  <1>3. DwellSilencesThrash
    BY DEF Init, DwellSilencesThrash
  <1>4. QED  BY <1>1, <1>2, <1>3 DEF IInv

\* A tick keeps the invariant.
LEMMA TickIInv ==
    ASSUME IInv,
           NEW elapsed \in Elapsed, NEW depth \in [Pools -> Depths],
           NEW inFlight \in [Pools -> BOOLEAN], NEW dt \in Dts,
           Tick(elapsed, depth, inFlight, dt)
    PROVE  IInv'
  <1>1. TypeOK /\ since = gap
    BY DEF IInv, FlipClockExact
  <1>2. /\ TypeOK'
        /\ \A p \in Pools :
             /\ (replicas'[p] # replicas[p]) <=> (decision'[p].delta # 0)
             /\ since'[p] = IF replicas'[p] # replicas[p] THEN 0
                            ELSE Aged(since[p], elapsed)
             /\ replicas'[p] # replicas[p] =>
                  (since[p] # Never => Aged(since[p], elapsed) >= MinDwell)
    BY <1>1, TickEffect
  <1>3. FlipClockExact'
    <2>1. gap' = [p \in Pools |-> IF replicas'[p] # replicas[p] THEN 0
                                  ELSE Aged(gap[p], elapsed)]
      BY DEF Tick, Decided, GapAfter
    <2>2. since' = [p \in Pools |-> since'[p]]
      BY DEF Tick, Decided, GapAfter
    <2>3. QED  BY <1>1, <1>2, <2>1, <2>2 DEF FlipClockExact
  <1>4. DwellSilencesThrash'
    <2> SUFFICES ASSUME MinDwell >= ThrashWindow PROVE thrash' = 0
      BY DEF DwellSilencesThrash
    <2> DEFINE age == [p \in Pools |-> Aged(since[p], elapsed)]
               T == {p \in Pools : Thrashes(decision'[p], age[p])}
    <2>1. thrash' = CapAt(thrash + Cardinality(T), ThrashCap)
      BY DEF Tick, Decided, GapAfter
    <2>2. T = {}
      <3> SUFFICES ASSUME NEW p \in Pools, Thrashes(decision'[p], age[p])
                   PROVE  FALSE
        OBVIOUS
      <3>1. /\ decision'[p].delta # 0
            /\ age[p] # Never /\ age[p] < ThrashWindow
        BY DEF Thrashes
      <3>2. elapsed \in Nat /\ since[p] \in Durations
        BY <1>1, AutoscalerAssumption DEF TypeOK
      <3>3. since[p] # Never /\ age[p] \in Durations /\ age[p] = Aged(since[p], elapsed)
        BY <3>1, <3>2, AgedType
      <3>4. age[p] >= MinDwell
        BY <1>2, <3>1, <3>3
      <3> HIDE DEF age
      <3>5. age[p] \in Nat /\ MinDwell \in Nat /\ ThrashWindow \in Nat
        BY <3>1, <3>3, AutoscalerAssumption DEF Durations
      <3>6. QED  BY <3>1, <3>4, <3>5
    <2>3. Cardinality(T) = 0
      BY <2>2, FS_EmptySet
    <2>4. thrash = 0
      BY DEF IInv, DwellSilencesThrash
    <2> HIDE DEF T
    <2>5. QED  BY <2>1, <2>3, <2>4, AutoscalerAssumption DEF CapAt
  <1>5. QED  BY <1>2, <1>3, <1>4 DEF IInv

\* Every step of the autoscaler and its caller keeps the invariant.
LEMMA NextIInv == IInv /\ [Next]_vars => IInv'
  <1> SUFFICES ASSUME IInv, [Next]_vars PROVE IInv'
    OBVIOUS
  <1>1. CASE SomeTick
    BY <1>1, TickIInv DEF SomeTick
  <1>2. ASSUME NEW p \in Pools, NEW n \in Resizes, Resize(p, n)
        PROVE  IInv'
    <2>1. n \in Nat
      BY AutoscalerAssumption
    <2>2. TypeOK'
      BY <1>2, <2>1 DEF IInv, TypeOK, Resize
    <2>3. FlipClockExact' /\ DwellSilencesThrash'
      BY <1>2 DEF IInv, FlipClockExact, DwellSilencesThrash, Resize
    <2>4. QED  BY <2>2, <2>3 DEF IInv
  <1>3. CASE UNCHANGED vars
    BY <1>3 DEF vars, IInv, TypeOK, FlipClockExact, DwellSilencesThrash
  <1>4. QED  BY <1>1, <1>2, <1>3 DEF Next

\* The invariant holds throughout.
LEMMA SpecIInv == Spec => []IInv
  BY InitIInv, NextIInv, PTL DEF Spec

\* Types, in particular that no decision drives a replica count below zero.
THEOREM TypeCorrect == Spec => []TypeOK
  BY SpecIInv, PTL DEF IInv

\* A suppressed flip never touches _last_flip_ts and an emitted one always
\* sets it, for any number of pools ticked together.
THEOREM FlipClockIsExact == Spec => []FlipClockExact
  BY SpecIInv, PTL DEF IInv

\* With min_dwell_s >= THRASH_WINDOW_S the alarm counter stays at zero.
THEOREM DwellRulesOutThrash == Spec => []DwellSilencesThrash
  BY SpecIInv, PTL DEF IInv

\* The detailed autoscaler implements its contract: range, step size, dwell
\* and drain hold for every pool in every tick.
THEOREM AutoscalerKeepsContract == Spec => KeepsContract
  <1>1. Init => Contract!ContractInit
    BY AutoscalerAssumption DEF Init, Contract!ContractInit
  <1>2. IInv /\ [Next]_vars => [Contract!ContractNext]_(Contract!contractVars)
    <2> SUFFICES ASSUME IInv, [Next]_vars
                 PROVE  [Contract!ContractNext]_(Contract!contractVars)
      OBVIOUS
    <2>1. ASSUME NEW elapsed \in Elapsed, NEW depth \in [Pools -> Depths],
                 NEW inFlight \in [Pools -> BOOLEAN], NEW dt \in Dts,
                 Tick(elapsed, depth, inFlight, dt)
          PROVE  Contract!ContractTick
      <3>1. TypeOK /\ since = gap
        BY DEF IInv, FlipClockExact
      <3>2. TypeOK'
        BY <2>1, <3>1, TickEffect
      <3>3. ASSUME NEW p \in Pools, replicas'[p] # replicas[p]
            PROVE  Contract!MayChange(p, elapsed)
        <4>1. /\ p \in Controlled
              /\ MinReplicas <= replicas'[p] /\ replicas'[p] <= MaxReplicas
              /\ (MinReplicas <= replicas[p] /\ replicas[p] <= MaxReplicas)
                    => /\ replicas'[p] - replicas[p] <= StepSize
                       /\ replicas[p] - replicas'[p] <= StepSize
              /\ since[p] # Never => Aged(since[p], elapsed) >= MinDwell
              /\ replicas'[p] < replicas[p] => ~ busy'[p]
          BY <2>1, <3>1, <3>3, TickEffect
        <4>2. QED  BY <3>1, <4>1 DEF Contract!MayChange, Contract!InRange, Aged
      <3>4. gap' = [p \in Pools |-> IF replicas'[p] # replicas[p] THEN 0
                                    ELSE Contract!Aged(gap[p], elapsed)]
        BY <2>1 DEF Tick, Decided, GapAfter, Aged
      <3>5. replicas' \in [Pools -> Nat] /\ busy' \in [Pools -> BOOLEAN]
        BY <3>2 DEF TypeOK
      <3>6. QED  BY <3>3, <3>4, <3>5 DEF Contract!ContractTick
    <2>2. ASSUME NEW p \in Pools, NEW n \in Resizes, Resize(p, n)
          PROVE  Contract!ContractResize
      <3>1. n \in Nat /\ replicas \in [Pools -> Nat]
        BY AutoscalerAssumption DEF IInv, TypeOK
      <3>2. QED  BY <2>2, <3>1 DEF Resize, Contract!ContractResize
    <2>3. CASE UNCHANGED vars
      BY <2>3 DEF vars, Contract!contractVars
    <2>4. QED
      BY <2>1, <2>2, <2>3 DEF Next, SomeTick, Contract!ContractNext
  <1>3. QED
    BY <1>1, <1>2, SpecIInv, PTL DEF Spec, KeepsContract, Contract!ContractSpec

-----------------------------------------------------------------------------
(* The live experiment.                                                    *)

Entries == [running : Nat, delta : Int, replicas : Nat]

Signals == [waiting : 0 .. MaxFired, running : 0 .. MaxFired]

LoopTypes ==
    /\ pc \in {"main", "phase", "loop", "decide", "sleep", "await", "summary", "ended"}
    /\ gone \in 0 .. Horizon
    /\ signal \in Signals

RequestTypes ==
    /\ traffic \in {"none", "firing", "gathering", "over"}
    /\ fired \in 0 .. MaxFired /\ total \in Nat
    /\ waiting \in Nat /\ running \in Nat
    /\ counted \in Nat /\ swallowed \in Nat

\* No request outlives its phase.
NoneLeft ==
    /\ waiting + running <= fired
    /\ traffic \in {"none", "over"} => waiting = 0 /\ running = 0
    /\ pc \in {"main", "phase", "summary", "ended"} => traffic \in {"none", "over"}

\* Every request fired is waiting, running, counted or swallowed, until the
\* traffic is cancelled.
Balanced ==
    pc # "ended" \/ summary # NoFile =>
        counted + swallowed + waiting + running = total + fired

\* The files and the exit code, at each point of the loop.
Reported ==
    /\ pc # "ended" => exit = NoExit /\ summary = NoFile
    /\ pc = "summary" => out = records
    /\ summary # NoFile => out = records /\ summary.counted = counted
    /\ exit = 0 => summary # NoFile

\* The records, the loop's replica count and the counters agree.
Recorded ==
    /\ records \in Seq(Entries) /\ flips \in Nat
    /\ RecordsReplay
    /\ \A p \in Pools : replicas[p] >= 1
    /\ records = <<>> => replicas[Colocated] = 1

LiveInv ==
    /\ IInv /\ LoopTypes /\ RequestTypes /\ NoneLeft /\ Balanced /\ Reported
    /\ Recorded

\* The experiment's topology has one pool.
LEMMA OnePool == Pools = {Colocated}
  <1>1. IsFiniteSet(Pools) /\ Cardinality(Pools) = 1
    BY AutoscalerAssumption, LiveAssumption
  <1>2. PICK x : Pools = {x}
    BY <1>1, FS_Singleton
  <1>3. Colocated \in Pools
    BY <1>2 DEF Colocated
  <1>4. QED  BY <1>2, <1>3

\* The loop's clock stays within the horizon.
LEMMA LaterType ==
    ASSUME gone \in 0 .. Horizon, NEW t \in Nat
    PROVE  Later(t) \in 0 .. Horizon
  <1>1. Horizon \in Nat
    BY AutoscalerAssumption DEF Horizon
  <1>2. QED  BY <1>1 DEF Later, CapAt

\* The loop's step around tick() is a Tick: max(1, ...) hides no decision.
LEMMA DecisionIsTick ==
    ASSUME LiveInv, Decision
    PROVE  /\ gone \in Elapsed /\ 1 \in Dts
           /\ [p \in Pools |-> signal.waiting] \in [Pools -> Depths]
           /\ [p \in Pools |-> signal.running > 0] \in [Pools -> BOOLEAN]
           /\ Tick(gone, [p \in Pools |-> signal.waiting],
                   [p \in Pools |-> signal.running > 0], 1)
           /\ decision'[Colocated] \in Decisions
           /\ decision'[Colocated].delta < 0 => ~ (signal.running > 0)
           /\ \A p \in Pools : replicas'[p] >= 1
           /\ replicas'[Colocated] \in Nat
           /\ replicas'[Colocated] = replicas[Colocated] + decision'[Colocated].delta
  <1> DEFINE c == Colocated
             depth == [p \in Pools |-> signal.waiting]
             inFlight == [p \in Pools |-> signal.running > 0]
             age == Aged(since[c], gone)
             delta == decision'[c].delta
  <1>1. c \in Pools /\ \A p \in Pools : p = c
    BY OnePool
  <1>2. signal.waiting \in 0 .. MaxFired /\ signal.running \in 0 .. MaxFired
    BY DEF LiveInv, LoopTypes, Signals
  <1>3. gone \in Elapsed /\ 1 \in Dts /\ gone \in Nat
    BY LiveAssumption, AutoscalerAssumption DEF LiveInv, LoopTypes
  <1>4. depth \in [Pools -> Depths] /\ inFlight \in [Pools -> BOOLEAN]
        /\ signal.waiting \in Nat
    BY <1>2, LiveAssumption
  <1>5. decision'[c] = Decide(c, signal.waiting, signal.running > 0, age, 1)
    BY <1>1 DEF Decision, Decided
  <1>6. TypeOK /\ age \in Durations
    BY <1>1, <1>3, AgedType DEF LiveInv, IInv, TypeOK
  <1>7. (signal.running > 0) \in BOOLEAN  OBVIOUS
  <1> HIDE DEF age, c
  <1>8. /\ decision'[c] \in Decisions
        /\ replicas[c] + delta \in Nat
        /\ delta # 0 => MinReplicas <= replicas[c] + delta
        /\ delta < 0 => ~ (signal.running > 0)
    <2> DEFINE b == signal.running > 0
               n == signal.waiting
               d == Decide(c, n, b, age, 1)
    <2>1. b \in BOOLEAN /\ n \in Nat /\ decision'[c] = d /\ 1 \in Nat \ {0}
      BY <1>4, <1>5
    <2> HIDE DEF b, n
    <2>2. /\ d \in Decisions
          /\ replicas[c] + d.delta \in Nat
          /\ d.delta # 0 => /\ MinReplicas <= replicas[c] + d.delta
                            /\ d.delta < 0 => ~ b
      BY <1>1, <1>6, <2>1, DecisionSafe
    <2>3. d.delta < 0 => ~ b
      <3>1. d.delta \in Int  BY <2>2 DEF Decisions
      <3> HIDE DEF d
      <3>2. QED  BY <2>2, <3>1
    <2> HIDE DEF d
    <2>4. QED  BY <2>1, <2>2, <2>3 DEF b
  <1>9. delta \in Int /\ replicas[c] \in Nat /\ replicas[c] >= 1
    BY <1>1, <1>8 DEF Decisions, LiveInv, Recorded, IInv, TypeOK
  <1>10. replicas[c] + delta >= 1
    BY <1>8, <1>9, LiveAssumption, AutoscalerAssumption
  <1>11. Resized(replicas[c], delta) = replicas[c] + delta
    BY <1>8, <1>10 DEF Resized
  <1>12. replicas' = [p \in Pools |-> Resized(replicas[p], delta)]
    BY DEF Decision, c
  <1>13. replicas' = [p \in Pools |-> replicas[p] + decision'[p].delta]
    BY <1>1, <1>11, <1>12
  <1>14. replicas'[c] = replicas[c] + delta
    BY <1>1, <1>13
  <1>15. Tick(gone, depth, inFlight, 1)
    BY <1>13 DEF Decision, Tick
  <1>16. \A p \in Pools : replicas'[p] >= 1
    BY <1>1, <1>10, <1>14
  <1>17. QED
    BY <1>3, <1>4, <1>8, <1>14, <1>15, <1>16 DEF c

\* A record appended by a tick whose delta the loop has applied continues the
\* report.
LEMMA RecordAppended ==
    ASSUME Recorded, NEW x \in Entries, records' = Append(records, x),
           violations' = violations,
           flips' = flips + (IF x.delta # 0 THEN 1 ELSE 0),
           x.replicas = replicas[Colocated] + x.delta,
           x.delta < 0 => x.running = 0,
           replicas'[Colocated] = x.replicas,
           \A p \in Pools : replicas'[p] >= 1
    PROVE  Recorded'
  <1> DEFINE n == Len(records)
             Moved(s) == {i \in DOMAIN s : s[i].delta # 0}
  <1>1. n \in Nat /\ DOMAIN records = 1 .. n /\ records \in Seq(Entries)
    BY DEF Recorded
  <1>2. /\ records' \in Seq(Entries) /\ Len(records') = n + 1
        /\ DOMAIN records' = 1 .. (n + 1)
        /\ \A i \in 1 .. n : records'[i] = records[i]
        /\ records'[n + 1] = x
    BY <1>1
  <1>3. flips \in Nat /\ flips' \in Nat
    BY DEF Recorded
  <1>4. violations' = 0
    BY DEF Recorded, RecordsReplay
  <1>5. replicas[Colocated] = IF n = 0 THEN 1 ELSE records[n].replicas
    <2>1. CASE n = 0
      <3>1. records = <<>>  BY <1>1, <2>1
      <3>2. QED  BY <2>1, <3>1 DEF Recorded
    <2>2. CASE n # 0
      <3>1. records # <<>>  BY <1>1, <2>2
      <3>2. QED  BY <2>2, <3>1 DEF Recorded, RecordsReplay
    <2>3. QED  BY <2>1, <2>2
  <1>6. ASSUME NEW i \in DOMAIN records'
        PROVE  /\ records'[i].replicas =
                    (IF i = 1 THEN 1 ELSE records'[i - 1].replicas) + records'[i].delta
               /\ records'[i].delta < 0 => records'[i].running = 0
    <2>1. CASE i = n + 1
      <3>1. records'[i] = x  BY <1>2, <2>1
      <3>2. (IF i = 1 THEN 1 ELSE records'[i - 1].replicas) = replicas[Colocated]
        <4>1. CASE n = 0
          BY <2>1, <4>1, <1>5
        <4>2. CASE n # 0
          <5>1. i # 1 /\ i - 1 = n /\ n \in 1 .. n  BY <1>1, <2>1, <4>2
          <5>2. QED  BY <1>2, <1>5, <4>2, <5>1
        <4>3. QED  BY <4>1, <4>2
      <3>3. QED  BY <3>1, <3>2
    <2>2. CASE i # n + 1
      <3>1. i \in 1 .. n  BY <1>1, <1>2, <2>2
      <3>2. records'[i] = records[i]  BY <1>2, <3>1
      <3>3. i # 1 => records'[i - 1] = records[i - 1]  BY <1>1, <1>2, <3>1
      <3>4. /\ records[i].replicas =
                  (IF i = 1 THEN 1 ELSE records[i - 1].replicas) + records[i].delta
            /\ records[i].delta < 0 => records[i].running = 0
        BY <1>1, <3>1 DEF Recorded, RecordsReplay
      <3>5. QED  BY <3>2, <3>3, <3>4
    <2>3. QED  BY <2>1, <2>2
  <1>7. flips' = Cardinality(Moved(records'))
    <2>1. flips = Cardinality(Moved(records))
      BY DEF Recorded, RecordsReplay
    <2>2. IsFiniteSet(Moved(records)) /\ n + 1 \notin Moved(records)
      <3>1. Moved(records) \in SUBSET (1 .. n)  BY <1>1
      <3>2. IsFiniteSet(1 .. n)  BY <1>1, FS_Interval
      <3> HIDE DEF Moved
      <3>3. QED  BY <1>1, <3>1, <3>2, FS_Subset
    <2>3. CASE x.delta = 0
      <3>1. Moved(records') = Moved(records)  BY <1>1, <1>2, <2>3
      <3>2. flips' = flips  BY <1>3, <2>3
      <3> HIDE DEF Moved
      <3>3. QED  BY <2>1, <3>1, <3>2
    <2>4. CASE x.delta # 0
      <3>1. Moved(records') = Moved(records) \cup {n + 1}  BY <1>1, <1>2, <2>4
      <3>2. Cardinality(Moved(records) \cup {n + 1}) = Cardinality(Moved(records)) + 1
        BY <2>2, FS_AddElement
      <3>3. flips' = flips + 1  BY <2>4
      <3> HIDE DEF Moved
      <3>4. QED  BY <2>1, <3>1, <3>2, <3>3
    <2>5. QED  BY <2>3, <2>4
  <1>8. records' # <<>>
    BY <1>1, <1>2
  <1>9. replicas'[Colocated] = records'[Len(records')].replicas
    BY <1>2
  <1>10. RecordsReplay'
    BY <1>4, <1>6, <1>7, <1>9 DEF RecordsReplay
  <1>11. QED  BY <1>2, <1>3, <1>8, <1>10 DEF Recorded

\* A decision of the loop keeps the invariant.
LEMMA DecisionKeeps ==
    ASSUME LiveInv, Decision
    PROVE  LiveInv'
  <1> DEFINE x == [running |-> signal.running, delta |-> decision'[Colocated].delta,
                   replicas |-> replicas'[Colocated]]
  <1>1. IInv'
    BY DecisionIsTick, TickIInv DEF LiveInv
  <1>2. /\ decision'[Colocated].delta \in Int /\ replicas'[Colocated] \in Nat
        /\ replicas'[Colocated] = replicas[Colocated] + decision'[Colocated].delta
        /\ decision'[Colocated].delta < 0 => ~ (signal.running > 0)
        /\ \A p \in Pools : replicas'[p] >= 1
    BY DecisionIsTick DEF Decisions
  <1>3. signal.running \in Nat
    BY LiveAssumption DEF LiveInv, LoopTypes, Signals
  <1>4. /\ x \in Entries /\ x.running = signal.running
        /\ x.delta = decision'[Colocated].delta /\ x.replicas = replicas'[Colocated]
    BY <1>2, <1>3 DEF Entries
  <1>5. /\ records' = Append(records, x)
        /\ violations' = violations
              + (IF x.delta < 0 /\ signal.running > 0 THEN 1 ELSE 0)
        /\ flips' = flips + (IF x.delta # 0 THEN 1 ELSE 0)
    BY DEF Decision
  <1> HIDE DEF x
  <1>6. violations' = violations /\ (x.delta < 0 => x.running = 0)
    <2>1. violations = 0  BY DEF LiveInv, Recorded, RecordsReplay
    <2>2. QED  BY <1>2, <1>3, <1>4, <1>5, <2>1
  <1>7. Recorded'
    <2>1. Recorded  BY DEF LiveInv
    <2>2. QED  BY <1>2, <1>4, <1>5, <1>6, <2>1, RecordAppended
  <1>8. LoopTypes'
    <2>1. NoSignal \in Signals /\ 0 \in 0 .. Horizon
      BY LiveAssumption, AutoscalerAssumption DEF NoSignal, Signals, Horizon
    <2>2. QED  BY <2>1 DEF Decision, LiveInv, LoopTypes
  <1>9. RequestTypes' /\ NoneLeft' /\ Balanced' /\ Reported'
    <2>1. /\ pc = "decide" /\ pc' = "sleep" /\ exit' = exit
          /\ UNCHANGED requestVars /\ UNCHANGED fileVars
      BY DEF Decision
    <2>2. QED
      BY <2>1 DEF LiveInv, LoopTypes, RequestTypes, NoneLeft, Balanced, Reported,
                  requestVars, fileVars
  <1>10. QED  BY <1>1, <1>7, <1>8, <1>9 DEF LiveInv

\* A step that is not a tick leaves the controller and the records alone.
LEMMA NoTick ==
    ASSUME LiveInv, UNCHANGED vars, UNCHANGED reportVars
    PROVE  IInv' /\ Recorded'
  <1>1. IInv'
    BY NextIInv DEF LiveInv
  <1>2. Recorded'
    BY DEF LiveInv, vars, reportVars, Recorded, RecordsReplay
  <1>3. QED  BY <1>1, <1>2

\* The steps of the traffic task and of the server.
LEMMA TrafficKeeps ==
    ASSUME LiveInv, Fire \/ StopFiring \/ Gathered \/ ServerStep \/ Fails
    PROVE  LiveInv'
  <1> USE DEF LiveInv, loopVars, LoopTypes, RequestTypes, NoneLeft, Balanced,
              reportVars, fileVars
  <1>1. UNCHANGED vars /\ UNCHANGED <<pc, loopVars, reportVars, fileVars, exit>>
    BY DEF Fire, StopFiring, Gathered, ServerStep, StartRequest, Completes, Fails
  <1>2. IInv' /\ Recorded'
    BY <1>1, NoTick
  <1>3. LoopTypes'
    BY <1>1
  <1>4. CASE Fire
    <2>1. traffic = "firing" /\ traffic' = traffic /\ fired < MaxFired
          /\ fired' = fired + 1 /\ waiting' = waiting + 1
          /\ UNCHANGED <<total, running, counted, swallowed>>
      BY <1>4 DEF Fire
    <2>2. RequestTypes' /\ NoneLeft' /\ Balanced' /\ Reported'
      BY <1>1, <2>1, LiveAssumption DEF Reported
    <2>3. QED  BY <1>2, <1>3, <2>2
  <1>5. CASE StopFiring
    BY <1>1, <1>2, <1>3, <1>5 DEF StopFiring, Reported
  <1>6. CASE Gathered
    BY <1>1, <1>2, <1>3, <1>6 DEF Gathered, Reported
  <1>7. CASE StartRequest
    BY <1>1, <1>2, <1>3, <1>7 DEF StartRequest, Reported
  <1>8. ASSUME Counts \/ Drops, traffic # "none",
               \/ waiting > 0 /\ waiting' = waiting - 1 /\ running' = running
               \/ running > 0 /\ running' = running - 1 /\ waiting' = waiting,
               UNCHANGED <<traffic, fired, total>>
        PROVE  LiveInv'
    <2>1. RequestTypes' /\ NoneLeft'
      BY <1>1, <1>8 DEF Counts, Drops
    <2>2. pc # "ended" /\ summary = NoFile
      BY <1>8 DEF Reported
    <2>3. counted + swallowed + waiting + running = total + fired
      BY <2>2
    <2>4. Balanced'
      <3>1. counted \in Nat /\ swallowed \in Nat /\ waiting \in Nat /\ running \in Nat
        OBVIOUS
      <3>2. counted' + swallowed' + waiting' + running' = total' + fired'
        BY <1>8, <2>3, <3>1 DEF Counts, Drops
      <3>3. QED  BY <3>2
    <2>5. Reported'
      BY <1>1, <2>2 DEF Reported
    <2>6. QED  BY <1>2, <1>3, <2>1, <2>4, <2>5
  <1>9. CASE Completes
    BY <1>8, <1>9 DEF Completes
  <1>10. CASE Fails
    BY <1>8, <1>10 DEF Fails, Errs
  <1>11. QED
    BY <1>4, <1>5, <1>6, <1>7, <1>9, <1>10 DEF ServerStep

\* The other steps of the loop, and its failures.
LEMMA LoopKeeps ==
    ASSUME LiveInv, LoopStep \/ Trouble, ~ Decision
    PROVE  LiveInv'
  <1> USE DEF LiveInv, loopVars, requestVars, reportVars, fileVars
  <1>1. UNCHANGED vars /\ UNCHANGED reportVars
    BY DEF LoopStep, Trouble, Main, StartPhase, Wake, SetStop, Scraped, AwaitTraffic,
           WriteRecords, WriteReport, ScrapeRaises
  <1>2. IInv' /\ Recorded'
    BY <1>1, NoTick
  <1>3. ASSUME NEW url \in BOOLEAN, Main(url) PROVE LiveInv'
    <2>1. LoopTypes' /\ RequestTypes'
      BY <1>3 DEF Main, LoopTypes, RequestTypes
    <2>2. NoneLeft' /\ Balanced' /\ Reported'
      BY <1>1, <1>3 DEF Main, NoneLeft, Balanced, Reported, NoExit
    <2>3. QED  BY <1>2, <2>1, <2>2
  <1>4. CASE StartPhase
    <2>1. LoopTypes' /\ RequestTypes'
      BY <1>4, LiveAssumption DEF StartPhase, LoopTypes, RequestTypes
    <2>2. NoneLeft' /\ Balanced'
      BY <1>4, LiveAssumption
      DEF StartPhase, NoneLeft, Balanced, RequestTypes, Reported
    <2>3. Reported'
      BY <1>1, <1>4 DEF StartPhase, Reported
    <2>4. QED  BY <1>2, <2>1, <2>2, <2>3
  <1>5. ASSUME NEW missing \in BOOLEAN, NEW latency \in Latencies, Scraped(missing, latency)
        PROVE  LiveInv'
    <2>1. signal' \in Signals
      <3>1. /\ waiting \in 0 .. MaxFired /\ running \in 0 .. MaxFired /\ MaxFired \in Nat
        BY LiveAssumption DEF RequestTypes, NoneLeft
      <3>2. QED  BY <1>5, <3>1 DEF Scraped, NoSignal, Signals
    <2>2. gone' \in 0 .. Horizon
      <3>1. latency \in Nat  BY LiveAssumption
      <3>2. QED  BY <1>5, <3>1, LaterType DEF Scraped, LoopTypes
    <2>3. pc = "loop" /\ pc' = "decide" /\ UNCHANGED <<requestVars, fileVars, exit>>
      BY <1>5 DEF Scraped, Ticking
    <2>4. LoopTypes' /\ RequestTypes'
      BY <2>1, <2>2, <2>3 DEF LoopTypes, RequestTypes
    <2>5. NoneLeft' /\ Balanced' /\ Reported'
      BY <1>1, <2>3 DEF NoneLeft, Balanced, Reported
    <2>6. QED  BY <1>2, <2>4, <2>5
  <1>6. CASE ScrapeRaises
    <2>1. LoopTypes' /\ RequestTypes'
      BY <1>6 DEF ScrapeRaises, LoopTypes, RequestTypes
    <2>2. NoneLeft' /\ Balanced' /\ Reported'
      BY <1>1, <1>6
      DEF ScrapeRaises, Ticking, NoneLeft, Balanced, Reported, RequestTypes
    <2>3. QED  BY <1>2, <2>1, <2>2
  <1>7. CASE Wake
    <2>1. gone' \in 0 .. Horizon
      BY <1>7, LaterType DEF Wake, LoopTypes
    <2>2. LoopTypes' /\ RequestTypes'
      BY <1>7, <2>1 DEF Wake, LoopTypes, RequestTypes
    <2>3. NoneLeft' /\ Balanced' /\ Reported'
      BY <1>1, <1>7 DEF Wake, NoneLeft, Balanced, Reported
    <2>4. QED  BY <1>2, <2>2, <2>3
  <1>8. CASE SetStop
    <2>1. LoopTypes' /\ RequestTypes'
      BY <1>8 DEF SetStop, LoopTypes, RequestTypes
    <2>2. NoneLeft' /\ Balanced' /\ Reported'
      BY <1>1, <1>8 DEF SetStop, NoneLeft, Balanced, Reported
    <2>3. QED  BY <1>2, <2>1, <2>2
  <1>9. ASSUME NEW t \in {0, Horizon}, AwaitTraffic(t) PROVE LiveInv'
    <2>1. gone' \in 0 .. Horizon
      <3>1. t \in Nat  BY AutoscalerAssumption DEF Horizon
      <3>2. QED  BY <1>9, <3>1, LaterType DEF AwaitTraffic, LoopTypes
    <2>2. LoopTypes' /\ RequestTypes'
      BY <1>9, <2>1 DEF AwaitTraffic, LoopTypes, RequestTypes
    <2>3. NoneLeft' /\ Balanced' /\ Reported'
      BY <1>1, <1>9 DEF AwaitTraffic, TrafficOver, NoneLeft, Balanced, Reported
    <2>4. QED  BY <1>2, <2>2, <2>3
  <1>10. CASE WriteRecords
    <2>1. LoopTypes' /\ RequestTypes'
      BY <1>10 DEF WriteRecords, LoopTypes, RequestTypes
    <2>2. NoneLeft' /\ Balanced' /\ Reported'
      BY <1>1, <1>10 DEF WriteRecords, NoneLeft, Balanced, Reported
    <2>3. QED  BY <1>2, <2>1, <2>2
  <1>11. CASE WriteReport
    <2>1. LoopTypes' /\ RequestTypes'
      BY <1>11 DEF WriteReport, LoopTypes, RequestTypes
    <2>2. NoneLeft' /\ Balanced'
      BY <1>1, <1>11 DEF WriteReport, NoneLeft, Balanced
    <2> DEFINE report == [ticks |-> Len(records), flips |-> flips,
                          violations |-> violations, counted |-> counted]
    <2>3. report \in Reports /\ report.counted = counted /\ violations = 0
      BY DEF Reports, Recorded, RecordsReplay, RequestTypes
    <2>4. summary' = report /\ exit' = 0
      BY <1>11, <2>3 DEF WriteReport
    <2> HIDE DEF report
    <2>5. Reported'
      BY <1>1, <1>11, <2>3, <2>4, LiveAssumption DEF WriteReport, Reported
    <2>6. QED  BY <1>2, <2>1, <2>2, <2>5
  <1>12. QED
    BY <1>3, <1>4, <1>5, <1>6, <1>7, <1>8, <1>9, <1>10, <1>11 DEF LoopStep, Trouble

\* The invariant of the experiment holds throughout.
LEMMA LiveInvHolds == LiveSpec => []LiveInv
  <1>1. LiveInit => LiveInv
    <2> SUFFICES ASSUME LiveInit PROVE LiveInv
      OBVIOUS
    <2>1. IInv  BY InitIInv DEF LiveInit
    <2>2. Colocated \in Pools /\ replicas \in [Pools -> {1}]
      BY OnePool, LiveAssumption DEF LiveInit, Init
    <2>3. Recorded
      <3>1. DOMAIN records = {}  BY DEF LiveInit
      <3>2. Cardinality({i \in DOMAIN records : records[i].delta # 0}) = 0
        BY <3>1, FS_EmptySet
      <3>3. QED  BY <2>2, <3>1, <3>2 DEF LiveInit, Recorded, RecordsReplay
    <2>4. LoopTypes
      BY LiveAssumption, AutoscalerAssumption
      DEF LiveInit, LoopTypes, Signals, NoSignal, Horizon
    <2>5. RequestTypes /\ NoneLeft /\ Balanced /\ Reported
      BY LiveAssumption
      DEF LiveInit, RequestTypes, NoneLeft, Balanced, Reported, NoExit
    <2>6. QED  BY <2>1, <2>3, <2>4, <2>5 DEF LiveInv
  <1>2. LiveInv /\ [LiveNext]_liveVars => LiveInv'
    <2> SUFFICES ASSUME LiveInv, [LiveNext]_liveVars PROVE LiveInv'
      OBVIOUS
    <2>1. CASE UNCHANGED liveVars
      <3>1. UNCHANGED <<vars, pc, loopVars, requestVars, reportVars, fileVars, exit>>
        BY <2>1 DEF liveVars
      <3>2. IInv' /\ Recorded'  BY <3>1, NoTick
      <3>3. LoopTypes' /\ RequestTypes' /\ NoneLeft' /\ Balanced' /\ Reported'
        BY <3>1 DEF LiveInv, loopVars, requestVars, reportVars, fileVars, LoopTypes,
                    RequestTypes, NoneLeft, Balanced, Reported
      <3>4. QED  BY <3>2, <3>3 DEF LiveInv
    <2>2. CASE Decision
      BY <2>2, DecisionKeeps
    <2>3. CASE (LoopStep \/ Trouble) /\ ~ Decision
      BY <2>3, LoopKeeps
    <2>4. CASE Fire \/ StopFiring \/ Gathered \/ ServerStep \/ Fails
      BY <2>4, TrafficKeeps
    <2>5. QED  BY <2>1, <2>2, <2>3, <2>4 DEF LiveNext
  <1>3. QED  BY <1>1, <1>2, PTL DEF LiveSpec

\* The loop of autoscaler_live.py calls the autoscaler as Autoscaler assumes:
\* whatever the server and the traffic do, the experiment implements Spec, and
\* everything proved above holds in it.
THEOREM LiveIsScalerCaller == LiveSpec => IsScalerCaller
  <1>1. LiveInit => Init
    BY DEF LiveInit
  <1>2. LiveInv /\ [LiveNext]_liveVars => [Next]_vars
    <2> SUFFICES ASSUME LiveInv, [LiveNext]_liveVars PROVE [Next]_vars
      OBVIOUS
    <2>1. CASE Decision
      <3>1. SomeTick  BY <2>1, DecisionIsTick DEF SomeTick
      <3>2. QED  BY <3>1 DEF Next
    <2>2. CASE ~ Decision
      BY <2>2 DEF liveVars, LiveNext, LoopStep, Trouble, ServerStep, Main, StartPhase,
                  Wake, SetStop, Scraped, AwaitTraffic, WriteRecords, WriteReport,
                  ScrapeRaises, Fire, StopFiring, Gathered, StartRequest, Completes, Fails
    <2>3. QED  BY <2>1, <2>2
  <1>3. QED
    BY <1>1, <1>2, LiveInvHolds, PTL DEF LiveSpec, IsScalerCaller, Spec

\* The report replays: no record shows a scale-down with requests running, and
\* replica counts and flips follow from the deltas, for any number of ticks.
THEOREM LiveRecordsReplay == LiveSpec => []RecordsReplay
  BY LiveInvHolds, PTL DEF LiveInv, Recorded

\* A report accounts for every request fired, and exit code 0 means a report.
THEOREM LiveRequestsAccounted == LiveSpec => []RequestsAccounted
  <1>1. ASSUME LiveInv, summary # NoFile
        PROVE  summary.counted + swallowed = total + fired
    <2>1. pc = "ended" /\ summary.counted = counted
      BY <1>1 DEF LiveInv, Reported
    <2>2. waiting = 0 /\ running = 0
      BY <1>1, <2>1 DEF LiveInv, NoneLeft
    <2>3. counted + swallowed + waiting + running = total + fired
      BY <1>1 DEF LiveInv, Balanced
    <2>4. counted \in Nat /\ swallowed \in Nat
      BY <1>1 DEF LiveInv, RequestTypes
    <2>5. QED  BY <2>1, <2>2, <2>3, <2>4
  <1>2. LiveInv => RequestsAccounted
    BY <1>1 DEF LiveInv, Reported, RequestsAccounted
  <1>3. QED  BY <1>2, LiveInvHolds, PTL
=============================================================================
