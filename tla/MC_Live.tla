------------------------------ MODULE MC_Live -------------------------------
(* Instances of LiveExperiment for TLC.                                    *)
EXTENDS LiveExperiment

\* An error of one is half the output range: one step.
GainsMC  == [p \in Controlled |-> [kp |-> 1, ki |-> 1, kd |-> 0, lo |-> -2, hi |-> 2]]
TargetMC == [p \in Pools |-> 1]
=============================================================================
