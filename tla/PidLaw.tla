------------------------------- MODULE PidLaw -------------------------------
(***************************************************************************)
(* The arithmetic of control/pid.py: one evaluation of the discrete-time   *)
(* PID law with output clamping and conditional integration.               *)
(*                                                                         *)
(* A controller's configuration is a record g with the gains g.kp, g.ki,   *)
(* g.kd and the clamp g.lo, g.hi.  The code's floats are taken as exact    *)
(* rationals: scaling the gains and the clamp by a common factor leaves    *)
(* every comparison unchanged, so integers stand for all of them.  The one *)
(* division of the law is by dt, so an output u is represented by the      *)
(* integer u * dt together with dt.                                        *)
(***************************************************************************)
EXTENDS Integers

CONSTANT NoError        \* the None of _prev_error before the first update

ASSUME NoErrorAssumption == NoError \notin Int

\* PidGains accepts any kp but only ki, kd >= 0; the constructor rejects an
\* empty clamp.
GainSet == [kp : Int, ki : Nat, kd : Nat, lo : Int, hi : Int]

ValidGains(g) == g \in GainSet /\ g.lo < g.hi

\* What a controller remembers between updates.
PidState == [integral : Int, prev : Int \cup {NoError}]

FreshPid == [integral |-> 0, prev |-> NoError]

\* dt * (kp + ki + kd): the unclamped output, scaled by dt.
Unclamped(g, c, error, dt) ==
    g.kp * error * dt
    + g.ki * (c.integral + error * dt) * dt
    + (IF c.prev = NoError THEN 0 ELSE g.kd * (error - c.prev))

SaturatesHigh(g, c, error, dt) == Unclamped(g, c, error, dt) > g.hi * dt
SaturatesLow(g, c, error, dt)  == Unclamped(g, c, error, dt) < g.lo * dt

Linear(g, c, error, dt) ==
    ~ SaturatesHigh(g, c, error, dt) /\ ~ SaturatesLow(g, c, error, dt)

\* The clamped output, scaled by dt.
PidOutput(g, c, error, dt) ==
    IF SaturatesHigh(g, c, error, dt) THEN g.hi * dt
    ELSE IF SaturatesLow(g, c, error, dt) THEN g.lo * dt
    ELSE Unclamped(g, c, error, dt)

\* Mutant: the integrator also accumulates while the output is clamped.
PidNextNoAntiWindup(g, c, error, dt) ==
    [integral |-> c.integral + error * dt, prev |-> error]

\* Mutant: the integrator is held in the linear region instead.
PidNextFrozen(g, c, error, dt) ==
    [integral |-> c.integral, prev |-> error]

\* The integrator moves only in the linear region; the error is always kept.
PidNext(g, c, error, dt) ==
    [integral |-> IF Linear(g, c, error, dt)
                  THEN c.integral + error * dt
                  ELSE c.integral,
     prev     |-> error]
=============================================================================
