--------------------------- MODULE MC_Autoscaler ----------------------------
(* Instances of Autoscaler for TLC.                                        *)
EXTENDS Autoscaler

\* A clamp that is not centred on zero, and an error of 1 that rounds to no step
\* until the integral has grown.
GainsMC  == [p \in Controlled |-> [kp |-> 0, ki |-> 1, kd |-> 0, lo |-> -2, hi |-> 3]]
TargetMC == [p \in Pools |-> 1]
=============================================================================
