-------------------------------- MODULE Pid ---------------------------------
(***************************************************************************)
(* One PidController as a state machine (control/pid.py).  Its callers may *)
(* feed any error and any dt, and may reset it between updates.            *)
(***************************************************************************)
EXTENDS PidLaw

CONSTANTS
    Gains,      \* the controller's configuration
    Errors,     \* errors its callers feed
    ErrorBound, \* no error is larger than this in magnitude
    Steps       \* values of dt its callers pass, valid or not

ASSUME PidAssumption ==
    /\ ValidGains(Gains)
    /\ ErrorBound \in Nat
    /\ Errors \subseteq -ErrorBound .. ErrorBound
    /\ Steps \subseteq Int

VARIABLES
    controller,  \* [integral, prev]: _integral and _prev_error
    last         \* what the last call returned or raised

vars == <<controller, last>>

NoCall  == [kind |-> "none", error |-> 0, dt |-> 1, output |-> 0]

Calls == [kind : {"none", "output", "value_error"}, error : Int, dt : Int, output : Int]

\* Types; in particular an output is a value of the clamp.
TypeOK ==
    /\ controller \in PidState
    /\ last \in Calls
    /\ last.kind = "output" => /\ Gains.lo * last.dt <= last.output
                               /\ last.output <= Gains.hi * last.dt

Init == controller = FreshPid /\ last = NoCall

\* update(error, dt) with dt > 0.
Update(error, dt) ==
    /\ dt > 0
    /\ last' = [kind |-> "output", error |-> error, dt |-> dt,
                output |-> PidOutput(Gains, controller, error, dt)]
    /\ controller' = PidNext(Gains, controller, error, dt)

\* update(error, dt) with dt <= 0 raises before touching any state.
UpdateRejected(error, dt) ==
    /\ dt <= 0
    /\ last' = [kind |-> "value_error", error |-> error, dt |-> dt, output |-> 0]
    /\ UNCHANGED controller

\* reset() makes the controller indistinguishable from a new one.
Reset == controller' = FreshPid /\ last' = NoCall

Next ==
    \/ \E error \in Errors, dt \in Steps :
          Update(error, dt) \/ UpdateRejected(error, dt)
    \/ Reset

Spec == Init /\ [][Next]_vars

-----------------------------------------------------------------------------
(* Properties                                                              *)

\* Gains without a derivative term, a non-negative proportional gain and a
\* clamp around zero: the defaults of TUNING.md and of every caller in the
\* repository (autoscaler_live, the tests).
PositionalGains ==
    /\ Gains.kd = 0
    /\ Gains.kp >= 0
    /\ Gains.lo <= 0 /\ 0 <= Gains.hi

\* The integral term alone never leaves the clamp.  It is what conditional
\* integration (pid.py, "only accumulate integrator when output is in the
\* linear region") is for; with PositionalGains it holds for every history
\* of errors, steps and resets.
IntegralWithinClamp ==
    /\ Gains.lo <= Gains.ki * controller.integral
    /\ Gains.ki * controller.integral <= Gains.hi

\* A controller that has seen a zero error and would still clamp on another
\* zero error stays exactly where it is: it is saturated for ever although
\* there is nothing left to correct.
LockedAt(dt) ==
    /\ controller.prev = 0
    /\ ~ Linear(Gains, controller, 0, dt)

\* The failure the docstring of pid.py says anti-windup excludes ("would lock
\* the controller into saturation forever") is unreachable.
NeverLocked == \A dt \in Steps : dt > 0 => ~ LockedAt(dt)

\* An error of the opposite sign takes the output off the clamp in the very
\* update that reports it, however long the controller was saturated before.
RecoversAtOnce ==
    [][ last'.kind = "output" =>
          /\ last'.error <= 0 =>
               ~ SaturatesHigh(Gains, controller, last'.error, last'.dt)
          /\ last'.error >= 0 =>
               ~ SaturatesLow(Gains, controller, last'.error, last'.dt) ]_vars

\* How far the integral term can wind up for arbitrary gains, derivative and
\* negative proportional gain included: beyond the clamp by no more than the
\* largest proportional and derivative terms.
WindupMargin ==
    ((IF Gains.kp >= 0 THEN Gains.kp ELSE -Gains.kp) + 2 * Gains.kd) * ErrorBound

WindupBounded ==
    \/ controller.integral = 0
    \/ /\ Gains.lo - WindupMargin <= Gains.ki * controller.integral
       /\ Gains.ki * controller.integral <= Gains.hi + WindupMargin
=============================================================================
