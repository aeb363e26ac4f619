------------------------------- MODULE MC_Pid -------------------------------
(* Gains for the TLC runs of Pid.  All of them scale the same law.         *)
EXTENDS Pid

\* PI control with an asymmetric clamp around zero.
PositionalMC == [kp |-> 1, ki |-> 1, kd |-> 0, lo |-> -3, hi |-> 5]

\* The same controller with a derivative gain.
DerivativeMC == [kp |-> 1, ki |-> 1, kd |-> 3, lo |-> -5, hi |-> 5]

ErrorsMC == -4 .. 6
StepsMC  == 0 .. 2

FewErrorsMC == {-2, 0, 2, 4}
FewStepsMC  == {0, 1}
=============================================================================
