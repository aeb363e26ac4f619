----------------------------- MODULE Autoscaler -----------------------------
(***************************************************************************)
(* PoolAutoscaler.tick (control/autoscaler.py) and the caller that applies *)
(* its decisions to the topology it passes to the next tick.               *)
(*                                                                         *)
(* tick() has no await and no lock: one call is one action.  The code      *)
(* keeps the clock value of each pool's last flip and only ever reads      *)
(* now - last_ts, so the model keeps that difference, counted up to the    *)
(* larger of the two windows it is compared with; times are in units of a  *)
(* caller's choice.                                                        *)
(***************************************************************************)
EXTENDS PidLaw, FiniteSets

CONSTANTS
    Pools,        \* the topology's pools
    Controlled,   \* the ones that have a PidController
    Gains,        \* [Controlled -> GainSet]
    Target,       \* target_queue_depth, per pool
    MinReplicas, MaxReplicas, StepSize, MinDwell,
    ThrashWindow, \* THRASH_WINDOW_S
    Depths,       \* queue depths a scrape may report
    Dts,          \* values of dt the caller passes
    Elapsed,      \* clock time between two ticks
    StartReplicas,\* replica counts a caller may start from
    Resizes,      \* replica counts somebody else may set
    ThrashCap,    \* bound: the thrash counter is followed up to here
    Never         \* no entry in _last_flip_ts

ASSUME AutoscalerAssumption ==
    /\ IsFiniteSet(Pools)
    /\ Controlled \subseteq Pools
    /\ Gains \in [Controlled -> GainSet]
    /\ \A p \in Controlled : ValidGains(Gains[p])
    /\ Target \in [Pools -> Nat]
    /\ MinReplicas \in Nat /\ MaxReplicas \in Nat /\ MinReplicas <= MaxReplicas
    /\ StepSize \in Nat /\ StepSize >= 1
    /\ MinDwell \in Nat /\ ThrashWindow \in Nat
    /\ Depths \subseteq Nat
    /\ Dts \subseteq Nat \ {0}
    /\ Elapsed \subseteq Nat
    /\ StartReplicas \subseteq Nat /\ Resizes \subseteq Nat
    /\ ThrashCap \in Nat
    /\ Never \notin Int

VARIABLES
    replicas,     \* the caller's replica count per pool
    controllers,  \* each PidController's memory
    since,        \* time since the flip recorded in _last_flip_ts
    thrash,       \* controller_thrash_total
    decision,     \* the last decision per pool
    busy,         \* history: did the last tick see in_flight > 0?
    gap           \* history: time since a tick last changed the replica count

vars == <<replicas, controllers, since, thrash, decision, busy, gap>>

Horizon == IF MinDwell > ThrashWindow THEN MinDwell ELSE ThrashWindow

Contract == INSTANCE ScalerContract

Aged(s, d) == Contract!Aged(s, d)

Durations == Nat \cup {Never}

Reasons == {"no_controller", "drain_wait", "dwell_wait",
            "queue_high", "queue_low", "stable"}

Decisions == [delta : Int, reason : Reasons, drained : BOOLEAN]

\* Types; in particular no sequence of decisions drives a pool below zero.
TypeOK ==
    /\ replicas \in [Pools -> Nat]
    /\ controllers \in [Controlled -> PidState]
    /\ since \in [Pools -> Durations]
    /\ thrash \in Nat
    /\ decision \in [Pools -> Decisions]
    /\ busy \in [Pools -> BOOLEAN]
    /\ gap \in [Pools -> Durations]

Hold(reason) == [delta |-> 0, reason |-> reason, drained |-> FALSE]

Init ==
    /\ replicas \in [Pools -> StartReplicas]
    /\ controllers = [p \in Controlled |-> FreshPid]
    /\ since = [p \in Pools |-> Never]
    /\ thrash = 0
    /\ decision = [p \in Pools |-> Hold("stable")]
    /\ busy = [p \in Pools |-> FALSE]
    /\ gap = [p \in Pools |-> Never]

-----------------------------------------------------------------------------
(* One pool's decision                                                     *)

\* Python's round(): to nearest, ties to even, of n / d with d > 0.
Round(n, d) ==
    LET q == n \div d
        r == n % d
    IN  IF 2 * r < d THEN q
        ELSE IF 2 * r > d THEN q + 1
        ELSE IF q % 2 = 0 THEN q ELSE q + 1

\* The controller's output mapped from [lo, hi] to [-1, 1], times step_size,
\* rounded.
StepOf(g, output, dt) ==
    LET span == (g.hi - g.lo) * dt
    IN  Round((2 * (output - g.lo * dt) - span) * StepSize, span)

\* Mutant: the ceiling is applied to the delta, the floor is forgotten.
BoundedNoFloor(r, delta) ==
    IF r + delta > MaxReplicas THEN MaxReplicas - r ELSE delta

\* Floor and ceiling on the resulting replica count.
Bounded(r, delta) ==
    IF r + delta > MaxReplicas THEN MaxReplicas - r
    ELSE IF r + delta < MinReplicas THEN MinReplicas - r
    ELSE delta

Wanted(p, r, error, dt) ==
    Bounded(r, StepOf(Gains[p], PidOutput(Gains[p], controllers[p], error, dt), dt))

\* Mutant: scale-down is not held back by requests in flight when the dwell
\* window is open.
VerdictNoDrain(delta, inFlight, age) ==
    IF delta # 0 /\ MinDwell > 0 /\ age # Never /\ age < MinDwell
    THEN Hold("dwell_wait")
    ELSE [delta   |-> delta,
          reason  |-> IF delta > 0 THEN "queue_high"
                      ELSE IF delta < 0 THEN "queue_low" ELSE "stable",
          drained |-> delta < 0]

\* Mutant: the dwell gate holds back scale-ups only.
VerdictDwellUp(delta, inFlight, age) ==
    IF delta < 0 /\ inFlight THEN Hold("drain_wait")
    ELSE IF delta > 0 /\ MinDwell > 0 /\ age # Never /\ age < MinDwell
    THEN Hold("dwell_wait")
    ELSE [delta   |-> delta,
          reason  |-> IF delta > 0 THEN "queue_high"
                      ELSE IF delta < 0 THEN "queue_low" ELSE "stable",
          drained |-> delta < 0]

\* Drain first, then min-dwell, then the flip itself.
Verdict(delta, inFlight, age) ==
    IF delta < 0 /\ inFlight THEN Hold("drain_wait")
    ELSE IF delta # 0 /\ MinDwell > 0 /\ age # Never /\ age < MinDwell
    THEN Hold("dwell_wait")
    ELSE [delta   |-> delta,
          reason  |-> IF delta > 0 THEN "queue_high"
                      ELSE IF delta < 0 THEN "queue_low" ELSE "stable",
          drained |-> delta < 0]

\* The decision for one pool, given the depth and in-flight count the caller
\* scraped and the age of its last flip.
Decide(p, depth, inFlight, age, dt) ==
    IF p \notin Controlled THEN Hold("no_controller")
    ELSE Verdict(Wanted(p, replicas[p], depth - Target[p], dt), inFlight, age)

\* A flip while the previous one is younger than the thrash window.
Thrashes(d, age) == d.delta # 0 /\ age # Never /\ age < ThrashWindow

\* Mutant: only scale-ups are recorded as flips.
FlippedUp(d, age) == IF d.delta > 0 THEN 0 ELSE age

\* Mutant: a flip the dwell gate suppressed restarts the dwell window.
FlippedOnWait(d, age) ==
    IF d.delta # 0 \/ d.reason = "dwell_wait" THEN 0 ELSE age

\* _last_flip_ts is set by every emitted flip, and by nothing else.
Flipped(d, age) == IF d.delta # 0 THEN 0 ELSE age

CapAt(n, cap) == IF n > cap THEN cap ELSE n

-----------------------------------------------------------------------------
(* Actions                                                                 *)

\* tick(topology, queue_depths, in_flight, dt).
Decided(elapsed, depth, inFlight, dt) ==
    LET age == [p \in Pools |-> Aged(since[p], elapsed)]
    IN  /\ decision' = [p \in Pools |->
              Decide(p, depth[p], inFlight[p], age[p], dt)]
        /\ controllers' = [p \in Controlled |->
              PidNext(Gains[p], controllers[p], depth[p] - Target[p], dt)]
        /\ since' = [p \in Pools |-> Flipped(decision'[p], age[p])]
        /\ thrash' = CapAt(thrash + Cardinality({p \in Pools :
                                        Thrashes(decision'[p], age[p])}),
                           ThrashCap)
        /\ busy' = inFlight

\* How long ago a tick last changed the replica count.
GapAfter(elapsed) ==
    [p \in Pools |-> IF replicas'[p] # replicas[p] THEN 0 ELSE Aged(gap[p], elapsed)]

\* A tick whose decisions the caller adds to its replica counts before the
\* next one.
Tick(elapsed, depth, inFlight, dt) ==
    /\ Decided(elapsed, depth, inFlight, dt)
    /\ replicas' = [p \in Pools |-> replicas[p] + decision'[p].delta]
    /\ gap' = GapAfter(elapsed)

\* The topology is the caller's: another actor may resize a pool.
Resize(p, n) ==
    /\ replicas' = [replicas EXCEPT ![p] = n]
    /\ UNCHANGED <<controllers, since, thrash, decision, busy, gap>>

SomeTick ==
    \E elapsed \in Elapsed, depth \in [Pools -> Depths],
       inFlight \in [Pools -> BOOLEAN], dt \in Dts :
          Tick(elapsed, depth, inFlight, dt)

Next == SomeTick \/ \E p \in Pools, n \in Resizes : Resize(p, n)

Spec == Init /\ [][Next]_vars

\* A caller's loop ticks on a period for as long as it runs.
FairSpec == Spec /\ WF_vars(SomeTick)

-----------------------------------------------------------------------------
(* Properties                                                              *)

\* The autoscaler keeps its contract: range, step, dwell, drain and
\* "no controller, no change" hold for every pool at every tick, whatever
\* the scrapes report and whoever else resizes pools in between.
KeepsContract == Contract!ContractSpec

\* The thrash alarm is silent when the dwell gate is at least as long as the
\* thrash window: the gate alone rules out what the alarm counts.
DwellSilencesThrash == MinDwell >= ThrashWindow => thrash = 0

\* The recorded flip time is the time of the last real change, so that a
\* suppressed flip (drain_wait, dwell_wait) neither opens nor extends a dwell
\* window and every flip opens one.
FlipClockExact == since = gap

\* From some point on nobody but the autoscaler changes the fleet.  (Unlike a
\* resize, a tick that changes a replica count restarts its gap; with a dwell
\* time the gap was not 0 before.)
LeftAlone == <>[][replicas' # replicas => gap' # gap]_vars

\* A pool whose queue stays above target ends at max_replicas, however small
\* the error: the integral term accumulates through dwell waits.  (A pool
\* resized beyond it stays there while requests are in flight.)
ScalesUp ==
    \A p \in Controlled :
        /\ LeftAlone
        /\ <>[](controllers[p].prev # NoError /\ controllers[p].prev > 0)
        => <>[](replicas[p] >= MaxReplicas)

\* A pool that stays below target and idle ends at min_replicas: neither the
\* drain gate nor the dwell gate starves a scale-down.
ScalesDown ==
    \A p \in Controlled :
        /\ LeftAlone
        /\ <>[](/\ controllers[p].prev # NoError /\ controllers[p].prev < 0
                /\ ~ busy[p])
        => <>[](replicas[p] = MinReplicas)
=============================================================================
