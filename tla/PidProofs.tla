----------------------------- MODULE PidProofs ------------------------------
(***************************************************************************)
(* Proofs about the PID controller, for every configuration, every set of  *)
(* errors and every step width.                                            *)
(***************************************************************************)
EXTENDS Pid, TLAPS

\* Products keep order: the only non-linear facts the proofs below need.
LEMMA ProductNonNeg ==
    ASSUME NEW a \in Int, NEW b \in Int, a >= 0, b >= 0
    PROVE  a * b >= 0
  BY Z3

\* A product of a nonnegative and a nonpositive integer.
LEMMA ProductNonPos ==
    ASSUME NEW a \in Int, NEW b \in Int, a >= 0, b <= 0
    PROVE  a * b <= 0
  BY Z3

\* A positive factor cancels from an inequality.
LEMMA ProductMono ==
    ASSUME NEW a \in Int, NEW b \in Int, NEW d \in Int, d > 0, a * d <= b * d
    PROVE  a <= b
  BY Z3

\* A positive factor keeps an inequality.
LEMMA ProductMonoLess ==
    ASSUME NEW a \in Int, NEW b \in Int, NEW d \in Int, d > 0, a <= b
    PROVE  a * d <= b * d
  BY Z3

\* Every field the law reads is an integer, and so is what it computes.
LEMMA LawTypes ==
    ASSUME NEW g \in GainSet, NEW c \in PidState, NEW error \in Int, NEW dt \in Int
    PROVE  /\ Unclamped(g, c, error, dt) \in Int
           /\ PidOutput(g, c, error, dt) \in Int
           /\ PidNext(g, c, error, dt) \in PidState
  <1>1. /\ g.kp \in Int /\ g.ki \in Int /\ g.kd \in Int
        /\ g.lo \in Int /\ g.hi \in Int
        /\ c.integral \in Int /\ c.prev \in Int \cup {NoError}
    BY DEF GainSet, PidState
  <1>2. Unclamped(g, c, error, dt) \in Int
    BY <1>1, NoErrorAssumption DEF Unclamped
  <1>3. PidOutput(g, c, error, dt) \in Int
    BY <1>1, <1>2 DEF PidOutput
  <1>4. PidNext(g, c, error, dt) \in PidState
    BY <1>1 DEF PidNext, PidState
  <1>5. QED  BY <1>2, <1>3, <1>4

\* The gains are integers, and the clamp is not empty.
LEMMA GainTypes ==
    /\ Gains.kp \in Int /\ Gains.ki \in Nat /\ Gains.kd \in Nat
    /\ Gains.lo \in Int /\ Gains.hi \in Int /\ Gains.lo < Gains.hi
  BY PidAssumption DEF ValidGains, GainSet

\* The output is a value of the clamp.
LEMMA OutputClamped ==
    ASSUME NEW c \in PidState, NEW error \in Int, NEW dt \in Int, dt > 0
    PROVE  /\ Gains.lo * dt <= PidOutput(Gains, c, error, dt)
           /\ PidOutput(Gains, c, error, dt) <= Gains.hi * dt
  <1>1. Gains.lo * dt \in Int /\ Gains.hi * dt \in Int /\ Gains.lo * dt <= Gains.hi * dt
    BY GainTypes, ProductMonoLess
  <1>2. Unclamped(Gains, c, error, dt) \in Int
    BY LawTypes, PidAssumption DEF ValidGains
  <1>3. QED  BY <1>1, <1>2 DEF PidOutput, SaturatesHigh, SaturatesLow

\* update() and reset() keep the controller's fields integers (the previous
\* error is None only before the first update) and every output inside the
\* clamp, whatever the callers pass.
THEOREM TypeCorrect == Spec => []TypeOK
  <1>1. Init => TypeOK
    BY DEF Init, TypeOK, FreshPid, PidState, NoCall, Calls
  <1>2. TypeOK /\ [Next]_vars => TypeOK'
    <2> SUFFICES ASSUME TypeOK, [Next]_vars PROVE TypeOK'
      OBVIOUS
    <2>1. ASSUME NEW error \in Errors, NEW dt \in Steps, Update(error, dt)
          PROVE  TypeOK'
      <3>1. error \in Int /\ dt \in Int
        BY PidAssumption
      <3>2. /\ PidOutput(Gains, controller, error, dt) \in Int
            /\ PidNext(Gains, controller, error, dt) \in PidState
        BY <3>1, LawTypes, PidAssumption DEF TypeOK, ValidGains
      <3>3. /\ Gains.lo * dt <= PidOutput(Gains, controller, error, dt)
            /\ PidOutput(Gains, controller, error, dt) <= Gains.hi * dt
        BY <2>1, <3>1, OutputClamped DEF Update, TypeOK
      <3>4. /\ last'.kind = "output" /\ last'.error = error /\ last'.dt = dt
            /\ last'.output = PidOutput(Gains, controller, error, dt)
            /\ last' \in Calls /\ controller' \in PidState
        BY <2>1, <3>1, <3>2 DEF Update, Calls
      <3>5. QED  BY <3>3, <3>4 DEF TypeOK
    <2>2. ASSUME NEW error \in Errors, NEW dt \in Steps, UpdateRejected(error, dt)
          PROVE  TypeOK'
      <3>1. error \in Int /\ dt \in Int
        BY PidAssumption
      <3>2. last'.kind = "value_error" /\ last' \in Calls
        BY <2>2, <3>1 DEF UpdateRejected, Calls
      <3>3. QED  BY <2>2, <3>2 DEF UpdateRejected, TypeOK
    <2>3. CASE Reset
      BY <2>3 DEF Reset, TypeOK, FreshPid, PidState, NoCall, Calls
    <2>4. CASE UNCHANGED vars
      BY <2>4 DEF vars, TypeOK
    <2>5. QED  BY <2>1, <2>2, <2>3, <2>4 DEF Next
  <1>3. QED  BY <1>1, <1>2, PTL DEF Spec

-----------------------------------------------------------------------------
(* Anti-windup without a derivative term.                                  *)

\* With kd = 0 the scaled output is dt times a sum of three terms.
LEMMA PositionalLaw ==
    ASSUME NEW c \in PidState, NEW error \in Int, NEW dt \in Int, PositionalGains
    PROVE  Unclamped(Gains, c, error, dt)
             = (Gains.kp * error + Gains.ki * (c.integral + error * dt)) * dt
  <1>1. c.integral \in Int /\ c.prev \in Int \cup {NoError}
    BY DEF PidState
  <1>2. Gains.kd = 0
    BY DEF PositionalGains
  <1>3. (IF c.prev = NoError THEN 0 ELSE Gains.kd * (error - c.prev)) = 0
    BY <1>1, <1>2
  <1>4. DEFINE p == Gains.kp * error
               q == Gains.ki * (c.integral + error * dt)
  <1>5. p \in Int /\ q \in Int
    BY <1>1, GainTypes
  <1>6. Unclamped(Gains, c, error, dt) = p * dt + q * dt + 0
    BY <1>3 DEF Unclamped
  <1> HIDE DEF p, q
  <1>7. p * dt + q * dt + 0 = (p + q) * dt
    BY <1>5
  <1>8. QED  BY <1>6, <1>7 DEF p, q

\* A linear update keeps the integral term inside the clamp: the
\* proportional term has the sign of the error, so the integral term is
\* either closer to zero than the output or no further out than before.
LEMMA LinearKeepsClamp ==
    ASSUME NEW c \in PidState, NEW error \in Int, NEW dt \in Int, dt > 0,
           PositionalGains,
           Gains.lo <= Gains.ki * c.integral, Gains.ki * c.integral <= Gains.hi,
           Linear(Gains, c, error, dt)
    PROVE  /\ Gains.lo <= Gains.ki * (c.integral + error * dt)
           /\ Gains.ki * (c.integral + error * dt) <= Gains.hi
  <1> DEFINE i == c.integral
             p == Gains.kp * error
             q == Gains.ki * (i + error * dt)
             k == Gains.ki * (error * dt)
  <1>1. i \in Int /\ p \in Int /\ q \in Int /\ k \in Int
    BY GainTypes DEF PidState
  <1>2. q = Gains.ki * i + k
    BY <1>1, GainTypes
  <1>3. Gains.lo * dt <= (p + q) * dt /\ (p + q) * dt <= Gains.hi * dt
    <2>1. Unclamped(Gains, c, error, dt) = (p + q) * dt
      BY PositionalLaw
    <2>2. (p + q) * dt \in Int /\ Gains.lo * dt \in Int /\ Gains.hi * dt \in Int
      BY <1>1, GainTypes
    <2>3. QED  BY <2>1, <2>2 DEF Linear, SaturatesHigh, SaturatesLow
  <1>4. Gains.lo <= p + q /\ p + q <= Gains.hi
    <2>1. p + q \in Int /\ Gains.lo \in Int /\ Gains.hi \in Int
      BY <1>1, GainTypes
    <2>2. QED  BY <1>3, <2>1, ProductMono
  <1>5. Gains.kp \in Int /\ Gains.kp >= 0 /\ Gains.ki \in Int /\ Gains.ki >= 0
    BY GainTypes DEF PositionalGains
  <1>6. CASE error >= 0
    <2>1. p >= 0
      BY <1>5, <1>6, ProductNonNeg
    <2>2. error * dt \in Int /\ error * dt >= 0
      BY <1>6, ProductNonNeg
    <2>3. k >= 0
      BY <1>5, <2>2, ProductNonNeg
    <2> HIDE DEF p, q, k
    <2>4. Gains.lo <= q /\ q <= Gains.hi
      BY <1>1, <1>2, <1>4, <2>1, <2>3, GainTypes
    <2>5. QED  BY <2>4 DEF q
  <1>7. CASE error <= 0
    <2>1. p <= 0
      BY <1>5, <1>7, ProductNonPos
    <2>2. error * dt \in Int /\ error * dt <= 0
      <3>1. dt * error <= 0
        BY <1>7, ProductNonPos
      <3>2. QED  BY <3>1
    <2>3. k <= 0
      BY <1>5, <2>2, ProductNonPos
    <2> HIDE DEF p, q, k
    <2>4. Gains.lo <= q /\ q <= Gains.hi
      BY <1>1, <1>2, <1>4, <2>1, <2>3, GainTypes
    <2>5. QED  BY <2>4 DEF q
  <1>8. QED  BY <1>6, <1>7

\* Anti-windup: without a derivative term the integral term of the
\* controller never leaves its clamp, for every sequence of updates and
\* resets.
THEOREM IntegralStaysWithinClamp ==
    ASSUME PositionalGains
    PROVE  Spec => []IntegralWithinClamp
  <1>1. Init => IntegralWithinClamp
    BY GainTypes DEF Init, FreshPid, IntegralWithinClamp, PositionalGains
  <1>2. TypeOK /\ IntegralWithinClamp /\ [Next]_vars => IntegralWithinClamp'
    <2> SUFFICES ASSUME TypeOK, IntegralWithinClamp, [Next]_vars
                 PROVE  IntegralWithinClamp'
      OBVIOUS
    <2>1. ASSUME NEW error \in Errors, NEW dt \in Steps, Update(error, dt)
          PROVE  IntegralWithinClamp'
      <3>1. error \in Int /\ dt \in Int /\ dt > 0 /\ controller \in PidState
        BY <2>1, PidAssumption DEF Update, TypeOK
      <3>2. controller' = PidNext(Gains, controller, error, dt)
        BY <2>1 DEF Update
      <3>3. CASE Linear(Gains, controller, error, dt)
        <4>1. controller'.integral = controller.integral + error * dt
          BY <3>2, <3>3 DEF PidNext
        <4>2. /\ Gains.lo <= Gains.ki * (controller.integral + error * dt)
              /\ Gains.ki * (controller.integral + error * dt) <= Gains.hi
          BY <3>1, <3>3, LinearKeepsClamp DEF IntegralWithinClamp
        <4>3. QED  BY <4>1, <4>2 DEF IntegralWithinClamp
      <3>4. CASE ~ Linear(Gains, controller, error, dt)
        <4>1. controller'.integral = controller.integral
          BY <3>2, <3>4 DEF PidNext
        <4>2. QED  BY <4>1 DEF IntegralWithinClamp
      <3>5. QED  BY <3>3, <3>4
    <2>2. ASSUME NEW error \in Errors, NEW dt \in Steps, UpdateRejected(error, dt)
          PROVE  IntegralWithinClamp'
      BY <2>2 DEF UpdateRejected, IntegralWithinClamp
    <2>3. CASE Reset
      BY <2>3, GainTypes DEF Reset, FreshPid, IntegralWithinClamp, PositionalGains
    <2>4. CASE UNCHANGED vars
      BY <2>4 DEF vars, IntegralWithinClamp
    <2>5. QED  BY <2>1, <2>2, <2>3, <2>4 DEF Next
  <1>3. QED  BY <1>1, <1>2, TypeCorrect, PTL DEF Spec

\* A non-positive error never saturates high and a non-negative one never
\* saturates low, as long as the integral term is inside the clamp.
LEMMA OppositeErrorIsLinear ==
    ASSUME NEW c \in PidState, NEW error \in Int, NEW dt \in Int, dt > 0,
           PositionalGains,
           Gains.lo <= Gains.ki * c.integral, Gains.ki * c.integral <= Gains.hi
    PROVE  /\ error <= 0 => ~ SaturatesHigh(Gains, c, error, dt)
           /\ error >= 0 => ~ SaturatesLow(Gains, c, error, dt)
  <1> DEFINE i == c.integral
             p == Gains.kp * error
             q == Gains.ki * (i + error * dt)
             k == Gains.ki * (error * dt)
  <1>1. i \in Int /\ p \in Int /\ q \in Int /\ k \in Int
    BY GainTypes DEF PidState
  <1>2. q = Gains.ki * i + k
    BY <1>1, GainTypes
  <1>3. Unclamped(Gains, c, error, dt) = (p + q) * dt
    BY PositionalLaw
  <1>4. Gains.kp \in Int /\ Gains.kp >= 0 /\ Gains.ki \in Int /\ Gains.ki >= 0
    BY GainTypes DEF PositionalGains
  <1>5. ASSUME error <= 0
        PROVE  ~ SaturatesHigh(Gains, c, error, dt)
    <2>1. p <= 0
      BY <1>4, <1>5, ProductNonPos
    <2>2. error * dt \in Int /\ error * dt <= 0
      <3>1. dt * error <= 0
        BY <1>5, ProductNonPos
      <3>2. QED  BY <3>1
    <2>3. k <= 0
      BY <1>4, <2>2, ProductNonPos
    <2> HIDE DEF p, q, k
    <2>4. p + q <= Gains.hi /\ p + q \in Int
      BY <1>1, <1>2, <2>1, <2>3, GainTypes
    <2>5. (p + q) * dt <= Gains.hi * dt
      BY <2>4, ProductMonoLess, GainTypes
    <2>6. QED
      <3>1. (p + q) * dt \in Int /\ Gains.hi * dt \in Int
        BY <2>4, GainTypes
      <3>2. QED  BY <1>3, <2>5, <3>1 DEF SaturatesHigh
  <1>6. ASSUME error >= 0
        PROVE  ~ SaturatesLow(Gains, c, error, dt)
    <2>1. p >= 0
      BY <1>4, <1>6, ProductNonNeg
    <2>2. error * dt \in Int /\ error * dt >= 0
      BY <1>6, ProductNonNeg
    <2>3. k >= 0
      BY <1>4, <2>2, ProductNonNeg
    <2> HIDE DEF p, q, k
    <2>4. Gains.lo <= p + q /\ p + q \in Int
      BY <1>1, <1>2, <2>1, <2>3, GainTypes
    <2>5. Gains.lo * dt <= (p + q) * dt
      BY <2>4, ProductMonoLess, GainTypes
    <2>6. QED
      <3>1. (p + q) * dt \in Int /\ Gains.lo * dt \in Int
        BY <2>4, GainTypes
      <3>2. QED  BY <1>3, <2>5, <3>1 DEF SaturatesLow
  <1>7. QED  BY <1>5, <1>6

\* The lock-up the docstring of pid.py describes cannot be reached when the
\* derivative gain is zero.
THEOREM ControllerNeverLocks ==
    ASSUME PositionalGains
    PROVE  Spec => []NeverLocked
  <1>1. TypeOK /\ IntegralWithinClamp => NeverLocked
    <2> SUFFICES ASSUME TypeOK, IntegralWithinClamp,
                        NEW dt \in Steps, dt > 0
                 PROVE  Linear(Gains, controller, 0, dt)
      BY DEF NeverLocked, LockedAt
    <2>1. controller \in PidState /\ dt \in Int
      BY PidAssumption DEF TypeOK
    <2>2. QED  BY <2>1, OppositeErrorIsLinear DEF IntegralWithinClamp, Linear
  <1>2. QED  BY <1>1, TypeCorrect, IntegralStaysWithinClamp, PTL

\* However long the output was clamped, the update that reports an error of
\* the other sign leaves the clamp.
THEOREM ControllerRecoversAtOnce ==
    ASSUME PositionalGains
    PROVE  Spec => RecoversAtOnce
  <1>1. TypeOK /\ IntegralWithinClamp /\ [Next]_vars =>
          [ last'.kind = "output" =>
              /\ last'.error <= 0 =>
                   ~ SaturatesHigh(Gains, controller, last'.error, last'.dt)
              /\ last'.error >= 0 =>
                   ~ SaturatesLow(Gains, controller, last'.error, last'.dt) ]_vars
    <2> SUFFICES ASSUME TypeOK, IntegralWithinClamp, Next, last'.kind = "output"
                 PROVE  /\ last'.error <= 0 =>
                             ~ SaturatesHigh(Gains, controller, last'.error, last'.dt)
                        /\ last'.error >= 0 =>
                             ~ SaturatesLow(Gains, controller, last'.error, last'.dt)
      OBVIOUS
    <2>1. PICK error \in Errors, dt \in Steps : Update(error, dt)
      BY DEF Next, UpdateRejected, Reset, NoCall
    <2>2. /\ last'.error = error /\ last'.dt = dt
          /\ error \in Int /\ dt \in Int /\ dt > 0 /\ controller \in PidState
      BY <2>1, PidAssumption DEF Update, TypeOK
    <2>3. QED  BY <2>2, OppositeErrorIsLinear DEF IntegralWithinClamp
  <1>2. QED
    BY <1>1, TypeCorrect, IntegralStaysWithinClamp, PTL DEF Spec, RecoversAtOnce

-----------------------------------------------------------------------------
(* Bounded windup for arbitrary gains.                                     *)

\* |k * x| <= |k| * b when |x| <= b.
LEMMA TermBound ==
    ASSUME NEW k \in Int, NEW x \in Int, NEW b \in Nat, -b <= x, x <= b
    PROVE  LET m == (IF k >= 0 THEN k ELSE -k) * b
           IN  -m <= k * x /\ k * x <= m
  <1>1. CASE k >= 0
    <2>1. k * (b - x) >= 0 /\ k * (b + x) >= 0
      BY <1>1, ProductNonNeg
    <2>2. QED  BY <1>1, <2>1
  <1>2. CASE k < 0
    <2>1. (-k) * (b - x) >= 0 /\ (-k) * (b + x) >= 0
      BY <1>2, ProductNonNeg
    <2>2. QED  BY <1>2, <2>1
  <1>3. QED  BY <1>1, <1>2

\* The derivative term of an update whose errors are bounded.
Derivative(c, error) ==
    IF c.prev = NoError THEN 0 ELSE Gains.kd * (error - c.prev)

\* The derivative term is bounded by the largest change of the error.
LEMMA DerivativeBound ==
    ASSUME NEW c \in PidState, NEW error \in -ErrorBound .. ErrorBound,
           c.prev \in (-ErrorBound .. ErrorBound) \cup {NoError}
    PROVE  /\ Derivative(c, error) \in Int
           /\ -(Gains.kd * (2 * ErrorBound)) <= Derivative(c, error)
           /\ Derivative(c, error) <= Gains.kd * (2 * ErrorBound)
  <1>1. Gains.kd \in Nat /\ ErrorBound \in Nat /\ 2 * ErrorBound \in Nat
    BY GainTypes, PidAssumption
  <1>2. CASE c.prev = NoError
    <2>1. Derivative(c, error) = 0
      BY <1>2 DEF Derivative
    <2>2. Gains.kd * (2 * ErrorBound) \in Int /\ Gains.kd * (2 * ErrorBound) >= 0
      BY <1>1, ProductNonNeg
    <2>3. QED  BY <2>1, <2>2
  <1>3. CASE c.prev \in -ErrorBound .. ErrorBound
    <2>1. c.prev # NoError /\ c.prev \in Int
      BY <1>3, NoErrorAssumption, PidAssumption
    <2>2. Derivative(c, error) = Gains.kd * (error - c.prev)
      BY <2>1 DEF Derivative
    <2>3. error - c.prev \in Int /\ -(2 * ErrorBound) <= error - c.prev
          /\ error - c.prev <= 2 * ErrorBound
      BY <1>1, <1>3, <2>1
    <2>4. /\ -(Gains.kd * (2 * ErrorBound)) <= Gains.kd * (error - c.prev)
          /\ Gains.kd * (error - c.prev) <= Gains.kd * (2 * ErrorBound)
      BY <1>1, <2>3, TermBound
    <2>5. QED  BY <1>1, <2>2, <2>3, <2>4
  <1>4. QED  BY <1>2, <1>3

\* A linear update leaves the integral term within the clamp widened by the
\* largest proportional and derivative terms.
LEMMA LinearKeepsMargin ==
    ASSUME NEW c \in PidState, NEW error \in -ErrorBound .. ErrorBound,
           c.prev \in (-ErrorBound .. ErrorBound) \cup {NoError},
           NEW dt \in Int, dt > 0,
           Linear(Gains, c, error, dt)
    PROVE  /\ Gains.lo - WindupMargin <= Gains.ki * (c.integral + error * dt)
           /\ Gains.ki * (c.integral + error * dt) <= Gains.hi + WindupMargin
  <1> DEFINE p == Gains.kp * error
             q == Gains.ki * (c.integral + error * dt)
             d == Derivative(c, error)
             mp == (IF Gains.kp >= 0 THEN Gains.kp ELSE -Gains.kp) * ErrorBound
             md == Gains.kd * (2 * ErrorBound)
  <1>1. ErrorBound \in Nat /\ error \in Int /\ c.integral \in Int
    BY PidAssumption DEF PidState
  <1>2. p \in Int /\ q \in Int /\ mp \in Int /\ md \in Int
    BY <1>1, GainTypes
  <1>3. WindupMargin = mp + md
    BY <1>1, GainTypes DEF WindupMargin
  <1>4. -mp <= p /\ p <= mp
    BY <1>1, GainTypes, TermBound
  <1>5. d \in Int /\ -md <= d /\ d <= md
    BY DerivativeBound
  <1>6. Unclamped(Gains, c, error, dt) = p * dt + q * dt + d
    BY DEF Unclamped, Derivative
  <1>7. md >= 0
    BY <1>1, GainTypes, ProductNonNeg
  <1>8. Gains.lo \in Int /\ Gains.hi \in Int
    BY GainTypes
  <1>9. /\ Gains.lo * dt <= p * dt + q * dt + d
        /\ p * dt + q * dt + d <= Gains.hi * dt
    <2>1. /\ p * dt + q * dt + d \in Int
          /\ Gains.lo * dt \in Int /\ Gains.hi * dt \in Int
      BY <1>2, <1>5, <1>8
    <2>2. QED  BY <1>6, <2>1 DEF Linear, SaturatesHigh, SaturatesLow
  <1> HIDE DEF p, q, d, mp, md
  <1>10. md <= md * dt
    <2>1. md * (dt - 1) >= 0
      BY <1>2, <1>7, ProductNonNeg
    <2>2. QED  BY <1>2, <2>1
  <1>11. (Gains.lo - md) * dt <= (p + q) * dt /\ (p + q) * dt <= (Gains.hi + md) * dt
    <2>1. /\ (p + q) * dt = p * dt + q * dt
          /\ (Gains.lo - md) * dt = Gains.lo * dt - md * dt
          /\ (Gains.hi + md) * dt = Gains.hi * dt + md * dt
      BY <1>2, <1>8
    <2>2. /\ p * dt \in Int /\ q * dt \in Int /\ md * dt \in Int
          /\ Gains.lo * dt \in Int /\ Gains.hi * dt \in Int
      BY <1>2, <1>8
    <2>3. QED  BY <1>2, <1>5, <1>9, <1>10, <2>1, <2>2
  <1>12. Gains.lo - md <= p + q /\ p + q <= Gains.hi + md
    <2>1. p + q \in Int /\ Gains.lo - md \in Int /\ Gains.hi + md \in Int
      BY <1>2, <1>8
    <2>2. QED  BY <1>11, <2>1, ProductMono
  <1>13. Gains.lo - WindupMargin <= q /\ q <= Gains.hi + WindupMargin
    BY <1>2, <1>3, <1>4, <1>8, <1>12
  <1>14. QED  BY <1>13 DEF q

\* The previous error is one the callers fed.
PrevBounded == controller.prev \in (-ErrorBound .. ErrorBound) \cup {NoError}

\* Windup is bounded for every choice of gains, the ones for which the
\* controller can lock up included.
THEOREM WindupIsBounded == Spec => []WindupBounded
  <1>1. Init => WindupBounded /\ PrevBounded
    BY DEF Init, FreshPid, WindupBounded, PrevBounded
  <1>2. TypeOK /\ PrevBounded /\ WindupBounded /\ [Next]_vars
          => WindupBounded' /\ PrevBounded'
    <2> SUFFICES ASSUME TypeOK, PrevBounded, WindupBounded, [Next]_vars
                 PROVE  WindupBounded' /\ PrevBounded'
      OBVIOUS
    <2>1. ASSUME NEW error \in Errors, NEW dt \in Steps, Update(error, dt)
          PROVE  WindupBounded' /\ PrevBounded'
      <3>1. /\ error \in -ErrorBound .. ErrorBound
            /\ dt \in Int /\ dt > 0 /\ controller \in PidState
        BY <2>1, PidAssumption DEF Update, TypeOK
      <3>2. controller' = PidNext(Gains, controller, error, dt)
        BY <2>1 DEF Update
      <3>3. PrevBounded'
        BY <3>1, <3>2 DEF PidNext, PrevBounded
      <3>4. CASE Linear(Gains, controller, error, dt)
        <4>1. controller'.integral = controller.integral + error * dt
          BY <3>2, <3>4 DEF PidNext
        <4>2. /\ Gains.lo - WindupMargin
                   <= Gains.ki * (controller.integral + error * dt)
              /\ Gains.ki * (controller.integral + error * dt)
                   <= Gains.hi + WindupMargin
          BY <3>1, <3>4, LinearKeepsMargin DEF PrevBounded
        <4>3. QED  BY <3>3, <4>1, <4>2 DEF WindupBounded
      <3>5. CASE ~ Linear(Gains, controller, error, dt)
        <4>1. controller'.integral = controller.integral
          BY <3>2, <3>5 DEF PidNext
        <4>2. QED  BY <3>3, <4>1 DEF WindupBounded
      <3>6. QED  BY <3>4, <3>5
    <2>2. ASSUME NEW error \in Errors, NEW dt \in Steps, UpdateRejected(error, dt)
          PROVE  WindupBounded' /\ PrevBounded'
      BY <2>2 DEF UpdateRejected, WindupBounded, PrevBounded
    <2>3. CASE Reset
      BY <2>3 DEF Reset, FreshPid, WindupBounded, PrevBounded
    <2>4. CASE UNCHANGED vars
      BY <2>4 DEF vars, WindupBounded, PrevBounded
    <2>5. QED  BY <2>1, <2>2, <2>3, <2>4 DEF Next
  <1>3. QED  BY <1>1, <1>2, TypeCorrect, PTL DEF Spec
=============================================================================
