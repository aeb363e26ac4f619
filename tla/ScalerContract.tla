--------------------------- MODULE ScalerContract ---------------------------
(***************************************************************************)
(* What the pool autoscaler promises its callers, without saying how it    *)
(* decides: between two resizes from outside, a tick may change a pool's   *)
(* replica count only                                                      *)
(*   - into [MinReplicas, MaxReplicas],                                    *)
(*   - by at most StepSize, if the pool was inside that range,             *)
(*   - at least MinDwell after its previous change,                        *)
(*   - downwards only if that tick saw no request in flight, and           *)
(*   - only if the pool has a controller.                                  *)
(***************************************************************************)
EXTENDS Integers

CONSTANTS
    Pools, Controlled,
    MinReplicas, MaxReplicas, StepSize, MinDwell,
    Horizon,    \* elapsed times are counted up to here
    Elapsed,    \* how much time may pass between two ticks
    Never       \* the pool has not been scaled yet

VARIABLES
    replicas,   \* [Pools -> Nat]
    gap,        \* time since the autoscaler last changed the pool
    busy        \* did the last tick see requests in flight?

contractVars == <<replicas, gap, busy>>

InRange(n) == MinReplicas <= n /\ n <= MaxReplicas

\* A duration after another d have passed, counted up to the horizon.
Aged(s, d) ==
    IF s = Never THEN Never ELSE IF s + d > Horizon THEN Horizon ELSE s + d

ContractInit ==
    /\ replicas \in [Pools -> Nat]
    /\ gap = [p \in Pools |-> Never]
    /\ busy = [p \in Pools |-> FALSE]

MayChange(p, elapsed) ==
    /\ p \in Controlled
    /\ InRange(replicas'[p])
    /\ InRange(replicas[p]) => /\ replicas'[p] - replicas[p] <= StepSize
                               /\ replicas[p] - replicas'[p] <= StepSize
    /\ gap[p] # Never => Aged(gap[p], elapsed) >= MinDwell
    /\ replicas'[p] < replicas[p] => ~ busy'[p]

ContractTick ==
    \E elapsed \in Elapsed :
        /\ replicas' \in [Pools -> Nat]
        /\ busy' \in [Pools -> BOOLEAN]
        /\ \A p \in Pools : replicas'[p] # replicas[p] => MayChange(p, elapsed)
        /\ gap' = [p \in Pools |-> IF replicas'[p] # replicas[p] THEN 0
                                   ELSE Aged(gap[p], elapsed)]

\* Someone else changed the fleet.
ContractResize ==
    /\ replicas' \in [Pools -> Nat]
    /\ UNCHANGED <<gap, busy>>

ContractNext == ContractTick \/ ContractResize

ContractSpec == ContractInit /\ [][ContractNext]_contractVars
=============================================================================
