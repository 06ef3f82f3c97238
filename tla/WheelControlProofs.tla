------------------------- MODULE WheelControlProofs -------------------------
(***************************************************************************)
(* The safety properties of WheelControl, proved for all gains, inputs and *)
(* elapsed times within its assumptions.                                   *)
(*                                                                         *)
(* Sound is the inductive invariant: the types, the stall as StalledCoasts *)
(* has it, and what keeps a zero setpoint from being taken for one: the    *)
(* time forced starts over with the setpoint, or there is no duty left.    *)
(* The last section bounds the steps a held wheel is let go in.            *)
(***************************************************************************)
EXTENDS WheelControl, WellFoundedInduction, TLAPS

Sound(w) ==
  /\ w \in Wheel
  /\ w.stalled => w.setpoint # 0 /\ w.pwm = 0 /\ ~w.brake
  /\ w.setpoint = 0 => w.forced = 0 \/ w.pwm = 0

IInv ==
  /\ Sound(wheel)
  /\ held \in 0 .. conf.stall
  /\ ~wheel.stalled => wheel.forced <= held

----------------------------------------------------------------------------
\* Arithmetic

LEMMA ConfType ==
  /\ conf.kp \in Nat /\ conf.ki \in Nat /\ conf.u_breakaway \in Nat
  /\ conf.kick_ramp \in Nat /\ conf.u_run \in Nat /\ conf.k_run \in Nat
  /\ conf.i_zone \in Nat /\ conf.pwm_max \in Nat /\ conf.pwm_slew \in Nat
  /\ conf.stall_pwm \in Nat \ {0} /\ conf.stall \in Nat
  /\ conf.u_breakaway <= conf.pwm_max
BY ConfAssumption

LEMMA ClampRange ==
  ASSUME NEW v \in Int, NEW low \in Int, NEW high \in Int, low <= high
  PROVE Clamp(v, low, high) \in low .. high
BY DEF Clamp

\* Limiting the slew keeps a duty in range, from a duty in range
LEMMA SlewedRange ==
  ASSUME NEW w, w.pwm \in Duty, NEW pwm \in Int
  PROVE Slewed(w, pwm) \in Duty
BY ConfType DEF Slewed, Clamp, Duty

LEMMA FeedForwardRange ==
  ASSUME NEW w \in Wheel
  PROVE /\ FeedForward(w) \in Duty
        /\ Boost(w) \in 0 .. conf.pwm_max
<1>1. w.setpoint \in Int /\ w.kick_boost \in Nat
  <2>1. Setpoints \cup {0} \subseteq Int BY InputAssumption
  <2>2. 0 .. conf.pwm_max + conf.kick_ramp \subseteq Nat BY ConfType
  <2>3. w.setpoint \in Setpoints \cup {0} BY DEF Wheel
  <2>4. w.kick_boost \in 0 .. conf.pwm_max + conf.kick_ramp BY DEF Wheel
  <2> QED BY <2>1, <2>2, <2>3, <2>4
<1>2. Abs(w.setpoint) \in Nat BY <1>1 DEF Abs
<1>3. conf.k_run * Abs(w.setpoint) \in Nat BY <1>2, ConfType
<1>4. Run(w) \in 0 .. conf.pwm_max BY <1>3, ConfType DEF Run, Least
<1>5. Kick(w) \in 0 .. conf.pwm_max BY <1>4, ConfType DEF Kick, Most
<1>6. Boost(w) \in 0 .. conf.pwm_max /\ Kick(w) + Boost(w) \in 0 .. conf.pwm_max
  BY <1>1, <1>5, ConfType DEF Boost, Least
<1>7. Sign(w) \in {1, -1} BY DEF Sign
<1> QED BY <1>4, <1>6, <1>7, ConfType DEF FeedForward, Duty

LEMMA DrivenRange ==
  ASSUME NEW w \in Wheel, NEW n \in Elapsed
  PROVE /\ Integrated(w, n) \in -(2 * conf.pwm_max) .. 2 * conf.pwm_max
        /\ Pushed(w, n) \in Int
<1>1. /\ w.setpoint \in Int /\ w.measured \in Int /\ w.previous \in Int
      /\ w.integral \in Int /\ n \in Int
  <2>1. Setpoints \cup {0} \subseteq Int BY InputAssumption
  <2>2. w.setpoint \in Setpoints \cup {0} BY DEF Wheel
  <2>3. w.measured \in Int /\ w.previous \in Int BY DEF Wheel
  <2>4. w.integral \in -(2 * conf.pwm_max) .. 2 * conf.pwm_max BY DEF Wheel
  <2>5. n \in Int BY InputAssumption
  <2> QED BY <2>1, <2>2, <2>3, <2>4, <2>5, ConfType
<1>2. Error(w) \in Int BY <1>1 DEF Error
<1>3. FeedForward(w) \in Int /\ FeedForward(w) \in Duty
  BY FeedForwardRange, ConfType DEF Duty
<1>4. conf.ki * Error(w) * n \in Int /\ conf.kp * Error(w) \in Int
  BY <1>1, <1>2, ConfType
<1>5. Integrated(w, n) \in -(2 * conf.pwm_max) .. 2 * conf.pwm_max
  <2> DEFINE sum == IF ~Standing(w) /\ Abs(Error(w)) < conf.i_zone
                    THEN w.integral + conf.ki * Error(w) * n ELSE w.integral
             low == -conf.pwm_max - FeedForward(w)
             high == conf.pwm_max - FeedForward(w)
  <2>1. sum \in Int BY <1>1, <1>4
  <2>2. /\ low \in Int /\ high \in Int /\ low <= high
        /\ low >= -(2 * conf.pwm_max) /\ high <= 2 * conf.pwm_max
    BY <1>3, ConfType DEF Duty
  <2>3. Integrated(w, n) = Clamp(sum, low, high) BY DEF Integrated
  <2> HIDE DEF sum, low, high
  <2>4. Integrated(w, n) \in low .. high BY <2>1, <2>2, <2>3, ClampRange
  <2> QED BY <2>2, <2>4, ConfType
<1>6. Pushed(w, n) \in Int
  <2>1. Integrated(w, n) \in Int BY <1>5, ConfType
  <2>2. Sign(w) * conf.u_run \in Int BY ConfType DEF Sign
  <2>3. FeedForward(w) + conf.kp * Error(w) + Integrated(w, n) \in Int
    BY <1>3, <1>4, <2>1
  <2> QED BY <2>2, <2>3 DEF Pushed
<1> QED BY <1>5, <1>6

----------------------------------------------------------------------------
\* The parts of a step

LEMMA MeasuredType ==
  ASSUME NEW w \in Wheel, NEW delta \in Counts, NEW n \in Elapsed
  PROVE LET m == Measured(w, delta, n)
        IN /\ m \in Wheel
           /\ m.setpoint = w.setpoint /\ m.pwm = w.pwm /\ m.brake = w.brake
           /\ \/ m.forced = 0 /\ m.stalled = w.stalled
              \/ /\ conf.stall > 0 /\ delta = 0 /\ Abs(w.pwm) >= conf.stall_pwm
                 /\ m.forced = w.forced + n
                 /\ m.stalled = (w.stalled \/ m.forced >= conf.stall)
<1> DEFINE held_still == conf.stall > 0 /\ delta = 0 /\ Abs(w.pwm) >= conf.stall_pwm
           forced == IF held_still THEN w.forced + n ELSE 0
           speed == (SpeedPerCount * delta) \div n
           still == IF delta = 0 THEN Least(w.still_ticks + 1, StillTicks) ELSE 0
           stalled == w.stalled \/ (held_still /\ forced >= conf.stall)
           m == [w EXCEPT !.previous = w.measured, !.measured = speed,
                          !.still_ticks = still, !.forced = forced,
                          !.stalled = stalled]
<1>1. Measured(w, delta, n) = m BY DEF Measured
<1>2. n \in Nat \ {0} /\ delta \in Int /\ SpeedPerCount \in Nat /\ StillTicks \in Nat
  BY InputAssumption
<1>3. speed \in Int
  <2>1. SpeedPerCount * delta \in Int BY <1>2
  <2> QED BY <1>2, <2>1
<1>4. forced \in Nat BY <1>2 DEF Wheel
<1>5. still \in 0 .. StillTicks BY <1>2 DEF Wheel, Least
<1>6. stalled \in BOOLEAN BY DEF Wheel
<1>7. \/ forced = 0 /\ stalled = w.stalled
      \/ /\ held_still /\ forced = w.forced + n
         /\ stalled = (w.stalled \/ forced >= conf.stall)
  BY DEF Wheel
<1> HIDE DEF speed, forced, still, stalled
<1>8. m \in Wheel BY <1>3, <1>4, <1>5, <1>6 DEF Wheel
<1>9. /\ m.setpoint = w.setpoint /\ m.pwm = w.pwm /\ m.brake = w.brake
      /\ m.forced = forced /\ m.stalled = stalled
  BY DEF Wheel
<1> HIDE DEF m
<1> QED BY <1>1, <1>7, <1>8, <1>9

LEMMA RestedType ==
  ASSUME NEW w \in Wheel
  PROVE /\ Rested(w) \in Wheel
        /\ Rested(w).setpoint = w.setpoint /\ Rested(w).pwm = 0
        /\ Rested(w).forced = w.forced /\ Rested(w).stalled = w.stalled
        /\ w.setpoint # 0 => Rested(w).brake = FALSE
<1> DEFINE brake == w.setpoint = 0 /\ ~Standing(w)
           r == [w EXCEPT !.integral = 0, !.pwm = 0, !.kick_boost = 0, !.brake = brake]
<1>1. Rested(w) = r BY DEF Rested
<1>2. brake \in BOOLEAN OBVIOUS
<1>3. w.setpoint # 0 => brake = FALSE OBVIOUS
<1> HIDE DEF brake
<1>4. /\ 0 \in Duty /\ 0 \in 0 .. conf.pwm_max + conf.kick_ramp
      /\ 0 \in -(2 * conf.pwm_max) .. 2 * conf.pwm_max
  BY ConfType DEF Duty
<1>5. r \in Wheel BY <1>2, <1>4 DEF Wheel
<1>6. /\ r.setpoint = w.setpoint /\ r.pwm = 0 /\ r.forced = w.forced
      /\ r.stalled = w.stalled /\ r.brake = brake
  BY DEF Wheel
<1> QED BY <1>1, <1>3, <1>5, <1>6

LEMMA DrivenType ==
  ASSUME NEW w \in Wheel, NEW n \in Elapsed
  PROVE /\ Driven(w, n) \in Wheel
        /\ Driven(w, n).setpoint = w.setpoint
        /\ Driven(w, n).forced = w.forced /\ Driven(w, n).stalled = w.stalled
<1> DEFINE integral == Integrated(w, n)
           pwm == Slewed(w, Pushed(w, n))
           boost == IF Standing(w) THEN Boost(w) + conf.kick_ramp ELSE 0
           d == [w EXCEPT !.integral = integral, !.pwm = pwm, !.kick_boost = boost,
                          !.brake = FALSE]
<1>1. Driven(w, n) = d BY DEF Driven
<1>2. integral \in -(2 * conf.pwm_max) .. 2 * conf.pwm_max BY DrivenRange
<1>3. pwm \in Duty BY DrivenRange, SlewedRange DEF Wheel
<1>4. boost \in 0 .. conf.pwm_max + conf.kick_ramp BY FeedForwardRange, ConfType
<1> HIDE DEF integral, pwm, boost
<1>5. d \in Wheel BY <1>2, <1>3, <1>4 DEF Wheel
<1>6. d.setpoint = w.setpoint /\ d.forced = w.forced /\ d.stalled = w.stalled
  BY DEF Wheel
<1> QED BY <1>1, <1>5, <1>6

----------------------------------------------------------------------------
\* The calls

LEMMA CommandedSound ==
  ASSUME NEW w, Sound(w), NEW v \in Setpoints
  PROVE /\ Sound(Commanded(w, v))
        /\ Commanded(w, v).setpoint = v
        /\ \/ v = w.setpoint /\ Commanded(w, v).stalled = w.stalled
              /\ Commanded(w, v).forced = w.forced
           \/ v # w.setpoint /\ ~Commanded(w, v).stalled
              /\ Commanded(w, v).forced = 0
<1> DEFINE stalled == v = w.setpoint /\ w.stalled
           forced == IF v = w.setpoint THEN w.forced ELSE 0
           integral == IF v * w.setpoint <= 0 THEN 0 ELSE w.integral
           c == [w EXCEPT !.setpoint = v, !.stalled = stalled, !.forced = forced,
                          !.integral = integral]
<1>0. w \in Wheel BY DEF Sound
<1>1. Commanded(w, v) = c BY DEF Commanded
<1>2. stalled \in BOOLEAN /\ forced \in Nat BY <1>0 DEF Wheel
<1>3. integral \in -(2 * conf.pwm_max) .. 2 * conf.pwm_max
  BY <1>0, ConfType DEF Wheel
<1>4. \/ v = w.setpoint /\ stalled = w.stalled /\ forced = w.forced
      \/ v # w.setpoint /\ stalled = FALSE /\ forced = 0
  BY <1>0 DEF Wheel
<1> HIDE DEF stalled, forced, integral
<1>5. c \in Wheel BY <1>0, <1>2, <1>3 DEF Wheel
<1>6. /\ c.setpoint = v /\ c.pwm = w.pwm /\ c.brake = w.brake
      /\ c.stalled = stalled /\ c.forced = forced
  BY <1>0 DEF Wheel
<1> HIDE DEF c
<1>7. Sound(c) BY <1>4, <1>5, <1>6 DEF Sound
<1> QED BY <1>1, <1>4, <1>6, <1>7

\* A step keeps the setpoint and a stall, and finds one only by the time forced
LEMMA SteppedSound ==
  ASSUME NEW w, Sound(w), NEW delta \in Counts, NEW n \in Elapsed
  PROVE LET s == Stepped(w, delta, n)
        IN /\ Sound(s)
           /\ s.setpoint = w.setpoint
           /\ w.stalled => s.stalled
           /\ \/ s.forced = 0 /\ s.stalled = w.stalled
              \/ /\ conf.stall > 0 /\ delta = 0 /\ s.forced = w.forced + n
                 /\ s.stalled = (w.stalled \/ s.forced >= conf.stall)
<1> DEFINE m == Measured(w, delta, n)
           s == Stepped(w, delta, n)
<1>0. /\ w \in Wheel /\ w.pwm \in Int /\ w.forced \in Nat /\ n \in Nat
      /\ n < conf.stall \/ conf.stall = 0
  BY ConfAssumption, InputAssumption, ConfType DEF Sound, Wheel, Duty
<1>1. /\ m \in Wheel
      /\ m.setpoint = w.setpoint /\ m.pwm = w.pwm /\ m.brake = w.brake
      /\ \/ m.forced = 0 /\ m.stalled = w.stalled
         \/ /\ conf.stall > 0 /\ delta = 0 /\ Abs(w.pwm) >= conf.stall_pwm
            /\ m.forced = w.forced + n
            /\ m.stalled = (w.stalled \/ m.forced >= conf.stall)
  BY <1>0, MeasuredType
<1>2. s = IF m.setpoint = 0 \/ m.stalled THEN Rested(m) ELSE Driven(m, n)
  BY DEF Stepped
<1> HIDE DEF m, s
\* A zero setpoint is never taken for a stall
<1>3. m.setpoint = 0 => ~m.stalled
  <2>1. SUFFICES ASSUME m.setpoint = 0, m.stalled PROVE FALSE OBVIOUS
  <2>2. ~w.stalled /\ (w.forced = 0 \/ w.pwm = 0) BY <1>1, <2>1 DEF Sound
  <2>3. /\ conf.stall > 0 /\ Abs(w.pwm) >= conf.stall_pwm
        /\ m.forced = w.forced + n /\ m.forced >= conf.stall
    BY <1>1, <2>1, <2>2
  <2>4. w.pwm # 0 BY <2>3, ConfType DEF Abs
  <2>5. m.forced = n BY <1>0, <2>2, <2>3, <2>4
  <2> QED BY <1>0, <2>3, <2>5, ConfType
<1>4. CASE m.setpoint = 0 \/ m.stalled
  <2>1. /\ s \in Wheel /\ s.setpoint = m.setpoint /\ s.pwm = 0
        /\ s.forced = m.forced /\ s.stalled = m.stalled
        /\ m.setpoint # 0 => s.brake = FALSE
    BY <1>1, <1>2, <1>4, RestedType
  <2>2. Sound(s) BY <1>3, <2>1 DEF Sound
  <2> QED BY <1>1, <2>1, <2>2 DEF s
<1>5. CASE ~(m.setpoint = 0 \/ m.stalled)
  <2>1. /\ s \in Wheel /\ s.setpoint = m.setpoint
        /\ s.forced = m.forced /\ s.stalled = m.stalled
    BY <1>1, <1>2, <1>5, DrivenType
  <2>2. Sound(s) BY <1>5, <2>1 DEF Sound
  <2> QED BY <1>1, <1>5, <2>1, <2>2 DEF s
<1> QED BY <1>4, <1>5

----------------------------------------------------------------------------
\* The invariant

LEMMA ResetSound == Sound(WheelReset) /\ ~WheelReset.stalled /\ WheelReset.forced = 0
<1> DEFINE r == WheelReset
<1>1. /\ 0 \in Duty /\ 0 \in 0 .. conf.pwm_max + conf.kick_ramp
      /\ 0 \in -(2 * conf.pwm_max) .. 2 * conf.pwm_max
      /\ StillTicks \in 0 .. StillTicks
  BY ConfType, InputAssumption DEF Duty
<1>2. r \in Wheel BY <1>1 DEF WheelReset, Wheel
<1>3. ~r.stalled /\ r.forced = 0 BY DEF WheelReset
<1> HIDE DEF r
<1> QED BY <1>2, <1>3 DEF Sound, r

LEMMA InitIInv == Init => IInv
BY ResetSound, ConfType DEF Init, IInv

LEMMA NextKeeps == IInv /\ [Next]_vars => IInv'
<1>1. SUFFICES ASSUME IInv, [Next]_vars PROVE IInv' OBVIOUS
<1>2. /\ Sound(wheel) /\ held \in 0 .. conf.stall
      /\ ~wheel.stalled => wheel.forced <= held
      /\ wheel.forced \in Nat
  BY <1>1 DEF IInv, Sound, Wheel
<1>3. CASE Reset BY <1>3, ResetSound, ConfType DEF Reset, IInv
<1>4. ASSUME NEW v \in Setpoints, SetSetpoint(v) PROVE IInv'
  <2>1. /\ wheel' = Commanded(wheel, v)
        /\ held' = IF v = wheel.setpoint THEN held ELSE 0
    BY <1>4 DEF SetSetpoint
  <2>2. /\ Sound(wheel')
        /\ \/ v = wheel.setpoint /\ wheel'.stalled = wheel.stalled
              /\ wheel'.forced = wheel.forced
           \/ v # wheel.setpoint /\ wheel'.forced = 0
    BY <1>2, <2>1, CommandedSound
  <2>3. held' \in 0 .. conf.stall BY <1>2, <2>1, ConfType
  <2> QED BY <1>2, <2>1, <2>2, <2>3 DEF IInv
<1>5. ASSUME NEW delta \in Counts, NEW n \in Elapsed, Step(delta, n) PROVE IInv'
  <2>1. /\ wheel' = Stepped(wheel, delta, n)
        /\ held' = IF delta = 0 THEN Least(held + n, conf.stall) ELSE 0
    BY <1>5 DEF Step
  <2>2. /\ Sound(wheel')
        /\ \/ wheel'.forced = 0
           \/ /\ conf.stall > 0 /\ delta = 0 /\ wheel'.forced = wheel.forced + n
              /\ wheel'.stalled = (wheel.stalled \/ wheel'.forced >= conf.stall)
    BY <1>2, <2>1, SteppedSound
  <2>3. n \in Nat BY InputAssumption
  <2>4. held' \in 0 .. conf.stall BY <1>2, <2>1, <2>3, ConfType DEF Least
  <2>5. ASSUME ~wheel'.stalled PROVE wheel'.forced <= held'
    <3>1. CASE wheel'.forced = 0 BY <2>4, <3>1, ConfType
    <3>2. CASE wheel'.forced # 0
      <4>1. /\ delta = 0 /\ wheel'.forced = wheel.forced + n
            /\ ~wheel.stalled /\ ~(wheel'.forced >= conf.stall)
        BY <2>2, <2>5, <3>2
      <4> QED BY <1>2, <2>1, <2>3, <4>1, ConfType DEF Least
    <3> QED BY <3>1, <3>2
  <2> QED BY <2>2, <2>4, <2>5 DEF IInv
<1>6. CASE UNCHANGED vars BY <1>1, <1>6 DEF IInv, vars
<1> QED BY <1>1, <1>3, <1>4, <1>5, <1>6 DEF Next, Commands, Steps

\* The wheel stays Sound through every call, and is held at least as long as forced.
THEOREM WheelInvariant == Spec => []IInv
BY InitIInv, NextKeeps, PTL DEF Spec

\* The type invariant: the duty, the integral and the kick stay in the output range
\* the configuration gives them, whatever the gains.
THEOREM WheelTypeCorrect == Spec => []TypeOK
<1>1. IInv => TypeOK BY DEF IInv, Sound, TypeOK
<1> QED BY <1>1, WheelInvariant, PTL

\* A stalled wheel has no duty and does not brake.
THEOREM StalledCorrect == Spec => []StalledCoasts
<1>1. IInv => StalledCoasts BY DEF IInv, Sound, StalledCoasts
<1> QED BY <1>1, WheelInvariant, PTL

\* A wheel is stalled only when held for the whole limit under one setpoint.
THEOREM StallJustifiedCorrect == Spec => StallJustified
<1> DEFINE A == ~wheel.stalled /\ wheel'.stalled => held' >= conf.stall
<1>1. IInv /\ [Next]_vars => [A]_vars
  <2>1. SUFFICES ASSUME IInv, Next, ~wheel.stalled, wheel'.stalled
                 PROVE held' >= conf.stall
    OBVIOUS
  <2>2. /\ Sound(wheel) /\ held \in 0 .. conf.stall
        /\ wheel.forced <= held /\ wheel.forced \in Nat
    BY <2>1 DEF IInv, Sound, Wheel
  <2>3. CASE Reset BY <2>1, <2>3 DEF Reset, WheelReset
  <2>4. ASSUME NEW v \in Setpoints, SetSetpoint(v) PROVE FALSE
    BY <2>1, <2>2, <2>4, CommandedSound DEF SetSetpoint
  <2>5. ASSUME NEW delta \in Counts, NEW n \in Elapsed, Step(delta, n)
        PROVE held' >= conf.stall
    <3>1. /\ wheel' = Stepped(wheel, delta, n)
          /\ held' = IF delta = 0 THEN Least(held + n, conf.stall) ELSE 0
      BY <2>5 DEF Step
    <3>2. /\ delta = 0 /\ wheel'.forced = wheel.forced + n
          /\ wheel'.forced >= conf.stall
      <4>1. \/ wheel'.forced = 0 /\ wheel'.stalled = wheel.stalled
            \/ /\ conf.stall > 0 /\ delta = 0 /\ wheel'.forced = wheel.forced + n
               /\ wheel'.stalled = (wheel.stalled \/ wheel'.forced >= conf.stall)
        BY <2>2, <3>1, SteppedSound
      <4> QED BY <2>1, <4>1
    <3>3. n \in Nat BY InputAssumption
    <3> QED BY <2>2, <3>1, <3>2, <3>3, ConfType DEF Least
  <2> QED BY <2>1, <2>3, <2>4, <2>5 DEF Next, Commands, Steps
<1> QED BY <1>1, WheelInvariant, PTL DEF Spec, StallJustified

\* A stall ends with another setpoint, or with the reset of the loop, which also is
\* another setpoint.
THEOREM StallLastsCorrect == Spec => StallLasts
<1> DEFINE A == wheel.stalled /\ ~wheel'.stalled => wheel'.setpoint # wheel.setpoint
<1>1. IInv /\ [Next]_vars => [A]_vars
  <2>1. SUFFICES ASSUME IInv, Next, wheel.stalled, ~wheel'.stalled
                 PROVE wheel'.setpoint # wheel.setpoint
    OBVIOUS
  <2>2. Sound(wheel) /\ wheel.setpoint # 0 BY <2>1 DEF IInv, Sound
  <2>3. CASE Reset BY <2>2, <2>3 DEF Reset, WheelReset
  <2>4. ASSUME NEW v \in Setpoints, SetSetpoint(v)
        PROVE wheel'.setpoint # wheel.setpoint
    BY <2>1, <2>2, <2>4, CommandedSound DEF SetSetpoint
  <2>5. ASSUME NEW delta \in Counts, NEW n \in Elapsed, Step(delta, n) PROVE FALSE
    BY <2>1, <2>2, <2>5, SteppedSound DEF Step
  <2> QED BY <2>1, <2>3, <2>4, <2>5 DEF Next, Commands, Steps
<1> QED BY <1>1, WheelInvariant, PTL DEF Spec, StallLasts

----------------------------------------------------------------------------
\* A wheel that is held.  HeldLetsGo needs fairness and stays with TLC; that a
\* held wheel is let go, and after how many steps, is proved of any sequence of
\* steps without a count.

\* What is left of the output range for the kick to grow by
Room(w) == conf.pwm_max - Kick(w)

LEMMA KickRange ==
  ASSUME NEW w \in Wheel
  PROVE /\ w.setpoint \in Int /\ w.kick_boost \in Nat /\ w.integral \in Int
        /\ w.pwm \in Duty /\ w.still_ticks \in 0 .. StillTicks
        /\ w.forced \in Nat
        /\ Kick(w) \in 0 .. conf.pwm_max /\ Room(w) \in 0 .. conf.pwm_max
        /\ Boost(w) = Least(w.kick_boost, Room(w)) /\ Boost(w) \in 0 .. Room(w)
<1>1. w.setpoint \in Int /\ w.kick_boost \in Nat
  <2>1. Setpoints \cup {0} \subseteq Int BY InputAssumption
  <2>2. 0 .. conf.pwm_max + conf.kick_ramp \subseteq Nat BY ConfType
  <2>3. w.setpoint \in Setpoints \cup {0} BY DEF Wheel
  <2>4. w.kick_boost \in 0 .. conf.pwm_max + conf.kick_ramp BY DEF Wheel
  <2> QED BY <2>1, <2>2, <2>3, <2>4
<1>2. /\ w.integral \in Int /\ w.pwm \in Duty /\ w.still_ticks \in 0 .. StillTicks
      /\ w.forced \in Nat
  <2>1. w.integral \in -(2 * conf.pwm_max) .. 2 * conf.pwm_max BY DEF Wheel
  <2> QED BY <2>1, ConfType DEF Wheel
<1>3. Kick(w) \in 0 .. conf.pwm_max
  <2>1. Abs(w.setpoint) \in Nat BY <1>1 DEF Abs
  <2>2. conf.k_run * Abs(w.setpoint) \in Nat BY <2>1, ConfType
  <2>3. Run(w) \in 0 .. conf.pwm_max BY <2>2, ConfType DEF Run, Least
  <2> QED BY <2>3, ConfType DEF Kick, Most
<1>4. Room(w) \in 0 .. conf.pwm_max BY <1>3, ConfType DEF Room
<1>5. Boost(w) = Least(w.kick_boost, Room(w)) BY DEF Boost, Room
<1>6. Boost(w) \in 0 .. Room(w) BY <1>1, <1>4, <1>5, ConfType DEF Least
<1> QED BY <1>1, <1>2, <1>3, <1>4, <1>5, <1>6

\* The setpoint alone decides the sign, the kick and its room
LEMMA SameSetpoint ==
  ASSUME NEW w, NEW s, s.setpoint = w.setpoint
  PROVE Sign(s) = Sign(w) /\ Kick(s) = Kick(w) /\ Room(s) = Room(w)
BY DEF Sign, Kick, Run, Room

\* One step on a standing wheel that is driven: the kick grows, an integral does
\* not turn against the setpoint, and a full kick takes the duty to its limit
LEMMA StandingDriven ==
  ASSUME NEW m \in Wheel, NEW n \in Elapsed, Standing(m), m.setpoint # 0
  PROVE LET d == Driven(m, n)
        IN /\ Boost(d) >= Least(Boost(m) + conf.kick_ramp, Room(m))
           /\ ~Against(m) => ~Against(d)
           /\ ~Against(m) /\ Boost(m) = Room(m)
              => Sign(m) * d.pwm >= Least(Sign(m) * m.pwm + conf.pwm_slew, conf.pwm_max)
<1> DEFINE d == Driven(m, n)
           ff == FeedForward(m)
<1>1. /\ m.setpoint \in Int /\ m.integral \in Int /\ m.pwm \in Int
      /\ m.pwm \in Duty /\ Room(m) \in 0 .. conf.pwm_max /\ Room(m) \in Int
      /\ Boost(m) \in 0 .. Room(m) /\ Boost(m) \in Int
      /\ Kick(m) \in Int
  BY KickRange, ConfType DEF Duty
<1>2. ff \in Int /\ -conf.pwm_max <= ff /\ ff <= conf.pwm_max
  BY FeedForwardRange, ConfType DEF Duty
<1>3. (Sign(m) = 1 /\ m.setpoint > 0) \/ (Sign(m) = -1 /\ m.setpoint < 0)
  BY <1>1 DEF Sign
<1>4. ff = Sign(m) * (Kick(m) + Boost(m)) BY DEF FeedForward
<1>5. Integrated(m, n) = Clamp(m.integral, -conf.pwm_max - ff, conf.pwm_max - ff)
  BY DEF Integrated
<1>6. Error(m) = m.setpoint BY DEF Error
<1>7. Pushed(m, n) = ff + conf.kp * m.setpoint + Integrated(m, n)
  BY <1>6 DEF Pushed
<1>8. /\ d \in Wheel /\ d.setpoint = m.setpoint
      /\ d.integral = Integrated(m, n)
      /\ d.pwm = Slewed(m, Pushed(m, n))
      /\ d.kick_boost = Boost(m) + conf.kick_ramp
  BY DrivenType DEF Driven, Wheel
<1>9. Boost(d) >= Least(Boost(m) + conf.kick_ramp, Room(m))
  <2>1. Room(d) = Room(m) BY <1>8, SameSetpoint
  <2>2. Boost(d) = Least(Boost(m) + conf.kick_ramp, Room(m)) BY <1>8, <2>1, KickRange
  <2> QED BY <1>1, <2>2, ConfType DEF Least
<1> HIDE DEF d, ff
<1>10. ~Against(m) => ~Against(d)
  BY <1>1, <1>2, <1>5, <1>8, ConfType DEF Against, Clamp
<1>11. ASSUME ~Against(m), Boost(m) = Room(m)
       PROVE Sign(m) * d.pwm >= Least(Sign(m) * m.pwm + conf.pwm_slew, conf.pwm_max)
  <2>1. Kick(m) + Boost(m) = conf.pwm_max BY <1>1, <1>11, ConfType DEF Room
  <2> DEFINE gain == conf.kp * m.setpoint
             pwm == Pushed(m, n)
  <2>2. gain \in Int BY <1>1, ConfType
  <2>3. CASE Sign(m) = 1
    <3>1. m.setpoint > 0 /\ ff = conf.pwm_max BY <1>3, <1>4, <2>1, <2>3, ConfType
    <3>2. gain >= 0 BY <1>1, <3>1, ConfType
    <3>3. Integrated(m, n) = 0
      BY <1>1, <1>5, <1>11, <3>1, ConfType DEF Clamp, Against
    <3>4. pwm \in Int /\ pwm >= conf.pwm_max BY <1>7, <2>2, <3>1, <3>2, <3>3, ConfType
    <3> HIDE DEF pwm
    <3>5. d.pwm = Slewed(m, pwm) BY <1>8 DEF pwm
    <3> QED BY <1>1, <2>3, <3>4, <3>5, ConfType DEF Slewed, Clamp, Least, Duty
  <2>4. CASE Sign(m) = -1
    <3>1. m.setpoint < 0 /\ ff = -conf.pwm_max BY <1>3, <1>4, <2>1, <2>4, ConfType
    <3>2. gain <= 0 BY <1>1, <3>1, ConfType
    <3>3. Integrated(m, n) = 0
      BY <1>1, <1>5, <1>11, <3>1, ConfType DEF Clamp, Against
    <3>4. pwm \in Int /\ pwm <= -conf.pwm_max BY <1>7, <2>2, <3>1, <3>2, <3>3, ConfType
    <3> HIDE DEF pwm
    <3>5. d.pwm = Slewed(m, pwm) BY <1>8 DEF pwm
    <3> QED BY <1>1, <2>4, <3>4, <3>5, ConfType DEF Slewed, Clamp, Least, Duty
  <2> QED BY <1>3, <2>3, <2>4
<1> QED BY <1>9, <1>10, <1>11 DEF d

\* What the state before a step decides of the state after it, in a wheel that is
\* held and not found stalled
HeldOn(w, s) ==
  /\ s.setpoint = w.setpoint
  /\ s.still_ticks = Least(w.still_ticks + 1, StillTicks)
  /\ Standing(w) => Boost(s) >= Least(Boost(w) + 1, Room(w))
  /\ Standing(w) /\ ~Against(w) => ~Against(s)
  /\ Standing(w) /\ ~Against(w) /\ Boost(w) = Room(w)
       => Sign(w) * s.pwm >= Least(Sign(w) * w.pwm + 1, conf.pwm_max)
  /\ Abs(w.pwm) >= conf.stall_pwm => s.forced >= w.forced + 1 /\ s.forced < conf.stall

LEMMA HeldStepped ==
  ASSUME CanStall, 0 \in Counts, NEW w, Sound(w), w.setpoint # 0,
         NEW n \in Elapsed, ~Stepped(w, 0, n).stalled
  PROVE HeldOn(w, Stepped(w, 0, n))
<1> DEFINE m == Measured(w, 0, n)
           s == Stepped(w, 0, n)
<1>0. w \in Wheel /\ n \in Nat \ {0} /\ StillTicks \in Nat \ {0}
  BY InputAssumption DEF Sound
<1>1. /\ m \in Wheel /\ m.setpoint = w.setpoint /\ m.pwm = w.pwm
      /\ \/ m.forced = 0 /\ m.stalled = w.stalled
         \/ /\ conf.stall > 0 /\ Abs(w.pwm) >= conf.stall_pwm
            /\ m.forced = w.forced + n
            /\ m.stalled = (w.stalled \/ m.forced >= conf.stall)
  BY <1>0, MeasuredType
<1>2. /\ m.integral = w.integral /\ m.kick_boost = w.kick_boost
      /\ m.still_ticks = Least(w.still_ticks + 1, StillTicks)
      /\ Abs(w.pwm) >= conf.stall_pwm
         => m.forced = w.forced + n /\ (m.forced >= conf.stall => m.stalled)
  BY <1>0 DEF Measured, Wheel, CanStall
<1>3. s = IF m.setpoint = 0 \/ m.stalled THEN Rested(m) ELSE Driven(m, n)
  BY DEF Stepped
<1> HIDE DEF m
<1>4. ~m.stalled /\ s = Driven(m, n)
  <2>1. m.stalled => s.stalled BY <1>1, <1>3, RestedType
  <2> QED BY <1>1, <1>3, <2>1
<1>5. /\ s \in Wheel /\ s.setpoint = w.setpoint /\ s.forced = m.forced
      /\ s.still_ticks = m.still_ticks
  <2>1. s \in Wheel /\ s.setpoint = m.setpoint /\ s.forced = m.forced
    BY <1>1, <1>4, DrivenType
  <2>2. s.still_ticks = m.still_ticks BY <1>1, <1>4 DEF Driven, Wheel
  <2> HIDE DEF s
  <2> QED BY <1>1, <2>1, <2>2
<1>6. Abs(w.pwm) >= conf.stall_pwm => s.forced >= w.forced + 1 /\ s.forced < conf.stall
  BY <1>0, <1>2, <1>4, <1>5, ConfType, KickRange
<1>7. ASSUME Standing(w)
      PROVE /\ Boost(s) >= Least(Boost(w) + 1, Room(w))
            /\ ~Against(w) => ~Against(s)
            /\ ~Against(w) /\ Boost(w) = Room(w)
               => Sign(w) * s.pwm >= Least(Sign(w) * w.pwm + 1, conf.pwm_max)
  <2>1. Standing(m) BY <1>0, <1>2, <1>7 DEF Standing, Least
  <2>2. Boost(m) = Boost(w) /\ Room(m) = Room(w) /\ Sign(m) = Sign(w)
    BY <1>0, <1>1, <1>2, SameSetpoint, KickRange
  <2>3. Against(m) <=> Against(w) BY <1>1, <1>2 DEF Against
  <2>4. /\ Boost(s) >= Least(Boost(m) + conf.kick_ramp, Room(m))
        /\ ~Against(m) => ~Against(s)
        /\ ~Against(m) /\ Boost(m) = Room(m)
           => Sign(m) * s.pwm >= Least(Sign(m) * m.pwm + conf.pwm_slew, conf.pwm_max)
    BY <1>1, <1>4, <2>1, StandingDriven
  <2>5. /\ Boost(w) \in Int /\ Room(w) \in Int /\ Boost(s) \in Int
        /\ w.pwm \in Int /\ s.pwm \in Int
        /\ Sign(w) * w.pwm \in Int /\ Sign(w) * s.pwm \in Int
    BY <1>0, <1>5, KickRange, ConfType DEF Duty, Sign
  <2>6. conf.kick_ramp >= 1 /\ conf.pwm_slew >= 1 BY ConfType DEF CanStall
  <2>7. Boost(s) >= Least(Boost(w) + 1, Room(w))
    BY <2>2, <2>4, <2>5, <2>6, ConfType DEF Least
  <2>8. ASSUME ~Against(w), Boost(w) = Room(w)
        PROVE Sign(w) * s.pwm >= Least(Sign(w) * w.pwm + 1, conf.pwm_max)
    <3> DEFINE old == Sign(w) * w.pwm
               new == Sign(w) * s.pwm
    <3>1. new >= Least(old + conf.pwm_slew, conf.pwm_max)
      BY <1>1, <2>2, <2>3, <2>4, <2>8
    <3>2. old \in Int /\ new \in Int BY <2>5
    <3> HIDE DEF old, new
    <3>3. new >= Least(old + 1, conf.pwm_max)
      BY <2>6, <3>1, <3>2, ConfType DEF Least
    <3> QED BY <3>3 DEF old, new
  <2> QED BY <2>3, <2>4, <2>7, <2>8
<1> QED BY <1>2, <1>5, <1>6, <1>7 DEF HeldOn

\* Induction over the numbers, of a set
LEMMA AllNats ==
  ASSUME NEW T \in SUBSET Nat, 0 \in T, \A i \in T : i + 1 \in T
  PROVE T = Nat
<1> DEFINE R == OpToRel(<, Nat)
<1>1. IsWellFoundedOn(R, Nat) BY NatLessThanWellFounded
<1>2. \A x, y \in Nat : x < y => <<x, y>> \in R BY DEF OpToRel
<1> HIDE DEF R
<1> SUFFICES ASSUME NEW k \in Nat \ T PROVE FALSE OBVIOUS
<1>3. Nat \ T \subseteq Nat /\ Nat \ T # {} OBVIOUS
<1>4. PICK x \in Nat \ T : \A y \in Nat \ T : ~ (<<y, x>> \in R)
  BY <1>1, <1>3, WFMin
<1>5. x \in Nat /\ x # 0 OBVIOUS
<1>6. x - 1 \in Nat /\ <<x - 1, x>> \in R BY <1>2, <1>5
<1>7. (x - 1) + 1 \in T BY <1>4, <1>6
<1> QED BY <1>5, <1>7

\* The steps a held wheel is let go in: until it stands, until the kick is full,
\* until the duty is, and as long as the stall takes
LetGo == StillTicks + conf.pwm_max + 2 * conf.pwm_max + conf.stall

\* A wheel that is held under a setpoint is let go within LetGo steps and stays
\* so, unless an integral of before is against the setpoint when it stands.
THEOREM HeldWheelStalls ==
  ASSUME CanStall, 0 \in Counts,
         NEW run \in [Nat -> Wheel], Sound(run[0]), run[0].setpoint # 0,
         \A i \in Nat : \E n \in Elapsed : run[i + 1] = Stepped(run[i], 0, n),
         ~Against(run[StillTicks])
  PROVE \A k \in Nat : run[LetGo + k].stalled /\ run[LetGo + k].pwm = 0
<1> DEFINE sp == run[0].setpoint
<1>0. /\ StillTicks \in Nat /\ conf.pwm_max \in Nat /\ conf.stall \in Nat
      /\ LetGo \in Nat
  <2>1. StillTicks \in Nat /\ conf.pwm_max \in Nat /\ conf.stall \in Nat
    BY ConfType, InputAssumption
  <2> QED BY <2>1 DEF LetGo
<1> DEFINE After(w, s) == /\ Sound(w) => Sound(s) /\ s.setpoint = w.setpoint
                          /\ Sound(w) /\ w.stalled => s.stalled
<1>1. \A i \in Nat : After(run[i], run[i + 1])
  <2> SUFFICES ASSUME NEW i \in Nat, Sound(run[i])
               PROVE /\ Sound(run[i + 1]) /\ run[i + 1].setpoint = run[i].setpoint
                     /\ run[i].stalled => run[i + 1].stalled
    OBVIOUS
  <2>1. PICK n \in Elapsed : run[i + 1] = Stepped(run[i], 0, n) OBVIOUS
  <2> QED BY <2>1, SteppedSound
<1>2. \A i \in Nat : Sound(run[i]) /\ run[i].setpoint = sp
  <2> DEFINE T == {i \in Nat : Sound(run[i]) /\ run[i].setpoint = sp}
  <2>1. T \in SUBSET Nat /\ 0 \in T OBVIOUS
  <2>2. \A i \in T : i + 1 \in T BY <1>1
  <2> HIDE DEF T
  <2>3. T = Nat BY <2>1, <2>2, AllNats
  <2> QED BY <2>3 DEF T
<1>3. ASSUME NEW i \in Nat, run[i].stalled
      PROVE \A k \in Nat : run[i + k].stalled
  <2> DEFINE T == {k \in Nat : run[i + k].stalled}
  <2>1. T \in SUBSET Nat /\ 0 \in T BY <1>3
  <2>2. ASSUME NEW k \in T PROVE k + 1 \in T
    <3>1. i + k \in Nat /\ run[i + k].stalled /\ (i + k) + 1 = i + (k + 1) OBVIOUS
    <3>2. run[(i + k) + 1].stalled BY <1>2, <1>1, <3>1
    <3> QED BY <3>1, <3>2
  <2> HIDE DEF T
  <2>3. T = Nat BY <2>1, <2>2, AllNats
  <2> QED BY <2>3 DEF T
<1>4. SUFFICES ASSUME ~run[LetGo].stalled PROVE FALSE
  <2>1. ASSUME NEW k \in Nat, run[LetGo].stalled
        PROVE run[LetGo + k].stalled /\ run[LetGo + k].pwm = 0
    <3>1. LetGo + k \in Nat BY <1>0
    <3>2. run[LetGo + k].stalled BY <1>0, <1>3, <2>1
    <3> QED BY <1>2, <3>1, <3>2 DEF Sound
  <2> QED BY <2>1
<1>5. \A i \in Nat : i <= LetGo => ~run[i].stalled
  <2>1. SUFFICES ASSUME NEW i \in Nat, i <= LetGo, run[i].stalled PROVE FALSE
    OBVIOUS
  <2>2. LetGo - i \in Nat /\ i + (LetGo - i) = LetGo BY <1>0, <2>1
  <2> QED BY <1>3, <1>4, <2>1, <2>2
<1>6. \A i \in Nat : i + 1 <= LetGo => HeldOn(run[i], run[i + 1])
  <2>1. SUFFICES ASSUME NEW i \in Nat, i + 1 <= LetGo
                 PROVE HeldOn(run[i], run[i + 1])
    OBVIOUS
  <2>2. PICK n \in Elapsed : run[i + 1] = Stepped(run[i], 0, n) OBVIOUS
  <2>3. i + 1 \in Nat /\ ~run[i + 1].stalled BY <1>5, <2>1
  <2> QED BY <1>2, <2>2, <2>3, HeldStepped
<1>7. /\ \A i \in Nat : Room(run[i]) = Room(run[0]) /\ Sign(run[i]) = Sign(run[0])
      /\ Room(run[0]) \in Nat /\ Room(run[0]) <= conf.pwm_max
      /\ \A i \in Nat : /\ run[i].still_ticks \in 0 .. StillTicks
                        /\ Boost(run[i]) \in Int /\ Boost(run[i]) <= Room(run[0])
                        /\ Boost(run[i]) >= 0 /\ run[i].forced \in Nat
                        /\ run[i].pwm \in Duty /\ run[i].still_ticks \in Int
                        /\ run[i].still_ticks >= 0
                        /\ run[i].still_ticks <= StillTicks
  <2>1. \A i \in Nat : Room(run[i]) = Room(run[0]) /\ Sign(run[i]) = Sign(run[0])
    BY <1>2, SameSetpoint
  <2>2. Room(run[0]) \in Nat /\ Room(run[0]) <= conf.pwm_max BY <1>0, KickRange
  <2>3. ASSUME NEW i \in Nat
        PROVE /\ run[i].still_ticks \in 0 .. StillTicks
              /\ Boost(run[i]) \in Int /\ Boost(run[i]) <= Room(run[0])
              /\ Boost(run[i]) >= 0 /\ run[i].forced \in Nat
              /\ run[i].pwm \in Duty /\ run[i].still_ticks \in Int
              /\ run[i].still_ticks >= 0
              /\ run[i].still_ticks <= StillTicks
    <3>1. run[i] \in Wheel OBVIOUS
    <3>2. /\ run[i].still_ticks \in 0 .. StillTicks /\ run[i].forced \in Nat
          /\ run[i].pwm \in Duty /\ Boost(run[i]) \in 0 .. Room(run[i])
      BY <3>1, KickRange
    <3> QED BY <1>0, <2>1, <2>2, <3>2
  <2> QED BY <2>1, <2>2, <2>3
<1> HIDE DEF sp
\* It stands
<1>8. \A i \in Nat : i <= LetGo => run[i].still_ticks >= Least(i, StillTicks)
  <2> DEFINE T == {i \in Nat : i <= LetGo => run[i].still_ticks >= Least(i, StillTicks)}
  <2>1. T \in SUBSET Nat /\ 0 \in T
    <3>1. run[0].still_ticks >= 0 /\ Least(0, StillTicks) = 0
      BY <1>0, <1>7 DEF Least
    <3> QED BY <3>1
  <2>2. ASSUME NEW i \in T PROVE i + 1 \in T
    <3>1. SUFFICES ASSUME i + 1 <= LetGo
                   PROVE run[i + 1].still_ticks >= Least(i + 1, StillTicks)
      OBVIOUS
    <3>2. run[i + 1].still_ticks = Least(run[i].still_ticks + 1, StillTicks)
      BY <1>6, <3>1 DEF HeldOn
    <3>3. run[i].still_ticks >= Least(i, StillTicks) BY <1>0, <3>1
    <3>4. run[i].still_ticks \in Int /\ i \in Nat BY <1>7
    <3> QED BY <1>0, <3>2, <3>3, <3>4 DEF Least
  <2> HIDE DEF T
  <2>3. T = Nat BY <2>1, <2>2, AllNats
  <2> QED BY <2>3 DEF T
<1>9. \A i \in Nat : StillTicks <= i /\ i <= LetGo => Standing(run[i])
  <2> SUFFICES ASSUME NEW i \in Nat, StillTicks <= i, i <= LetGo
               PROVE run[i].still_ticks = StillTicks
    BY DEF Standing
  <2>1. run[i].still_ticks >= Least(i, StillTicks) BY <1>8
  <2>2. run[i].still_ticks \in Int /\ run[i].still_ticks <= StillTicks BY <1>7
  <2>3. Least(i, StillTicks) = StillTicks BY <1>0 DEF Least
  <2> QED BY <1>0, <2>1, <2>2, <2>3
\* The kick is full
<1>10. \A k \in Nat : StillTicks + k <= LetGo
        => /\ ~Against(run[StillTicks + k])
           /\ Boost(run[StillTicks + k]) >= Least(k, Room(run[0]))
  <2> DEFINE T == {k \in Nat : StillTicks + k <= LetGo
                     => /\ ~Against(run[StillTicks + k])
                        /\ Boost(run[StillTicks + k]) >= Least(k, Room(run[0]))}
  <2>1. T \in SUBSET Nat /\ 0 \in T
    <3>1. StillTicks + 0 = StillTicks BY <1>0
    <3>2. Boost(run[StillTicks]) >= 0 /\ Least(0, Room(run[0])) = 0
      BY <1>0, <1>7 DEF Least
    <3> QED BY <3>1, <3>2
  <2>2. ASSUME NEW k \in T PROVE k + 1 \in T
    <3> DEFINE i == StillTicks + k
    <3>0. i \in Nat /\ StillTicks + (k + 1) = i + 1 /\ StillTicks <= i BY <1>0
    <3>1. SUFFICES ASSUME i + 1 <= LetGo
                   PROVE /\ ~Against(run[i + 1])
                         /\ Boost(run[i + 1]) >= Least(k + 1, Room(run[0]))
      BY <3>0
    <3>2. ~Against(run[i]) /\ Boost(run[i]) >= Least(k, Room(run[0]))
      BY <1>0, <3>0, <3>1
    <3>3. Standing(run[i]) /\ HeldOn(run[i], run[i + 1])
      BY <1>0, <1>6, <1>9, <3>0, <3>1
    <3> HIDE DEF i
    <3>4. ~Against(run[i + 1]) /\ Boost(run[i + 1]) >= Least(Boost(run[i]) + 1, Room(run[0]))
      BY <1>7, <3>0, <3>2, <3>3 DEF HeldOn
    <3>5. i + 1 \in Nat BY <3>0
    <3>6. Boost(run[i + 1]) >= Least(k + 1, Room(run[0]))
      <4>1. /\ Boost(run[i]) \in Int /\ Boost(run[i + 1]) \in Int
            /\ Room(run[0]) \in Nat /\ k \in Nat
        BY <1>7, <3>0, <3>5
      <4> QED BY <3>2, <3>4, <4>1 DEF Least
    <3> QED BY <3>4, <3>6
  <2> HIDE DEF T
  <2>3. T = Nat BY <2>1, <2>2, AllNats
  <2> QED BY <2>3 DEF T
<1> DEFINE full == StillTicks + conf.pwm_max
<1>11. \A k \in Nat : full + k <= LetGo
         => /\ Standing(run[full + k]) /\ ~Against(run[full + k])
            /\ Boost(run[full + k]) = Room(run[full + k])
  <2> SUFFICES ASSUME NEW k \in Nat, full + k <= LetGo
               PROVE /\ Standing(run[full + k]) /\ ~Against(run[full + k])
                     /\ Boost(run[full + k]) = Room(run[full + k])
    OBVIOUS
  <2>1. /\ full + k \in Nat /\ StillTicks <= full + k
        /\ conf.pwm_max + k \in Nat /\ StillTicks + (conf.pwm_max + k) = full + k
    BY <1>0
  <2>2. ~Against(run[full + k]) /\ Boost(run[full + k]) >= Least(conf.pwm_max + k, Room(run[0]))
    BY <1>10, <2>1
  <2>3. Boost(run[full + k]) = Room(run[full + k])
    <3>1. /\ Boost(run[full + k]) \in Int /\ Boost(run[full + k]) <= Room(run[0])
          /\ Room(run[0]) \in Nat /\ Room(run[0]) <= conf.pwm_max
          /\ Room(run[full + k]) = Room(run[0])
      BY <1>7, <2>1
    <3>2. Least(conf.pwm_max + k, Room(run[0])) = Room(run[0])
      BY <1>0, <3>1 DEF Least
    <3> QED BY <2>2, <3>1, <3>2
  <2> QED BY <1>9, <2>1, <2>2, <2>3
\* The duty is full
<1> DEFINE duty(i) == Sign(run[0]) * run[i].pwm
<1>12. \A i \in Nat : /\ duty(i) \in Int /\ -conf.pwm_max <= duty(i)
                      /\ duty(i) <= conf.pwm_max
                      /\ duty(i) >= conf.pwm_max => Abs(run[i].pwm) >= conf.stall_pwm
  <2> TAKE i \in Nat
  <2>1. run[i].pwm \in -conf.pwm_max .. conf.pwm_max BY <1>7 DEF Duty
  <2>2. Sign(run[0]) \in {1, -1} /\ conf.stall_pwm <= conf.pwm_max
    BY DEF Sign, CanStall
  <2> QED BY <1>0, <2>1, <2>2, ConfType DEF Abs
<1>13. full \in Nat /\ LetGo = full + 2 * conf.pwm_max + conf.stall
  BY <1>0 DEF LetGo
<1> HIDE DEF full
<1>14. \A k \in Nat : full + k <= LetGo
         => duty(full + k) >= Least(k - conf.pwm_max, conf.pwm_max)
  <2> DEFINE T == {k \in Nat : full + k <= LetGo
                     => duty(full + k) >= Least(k - conf.pwm_max, conf.pwm_max)}
  <2>1. T \in SUBSET Nat /\ 0 \in T
    <3>1. full + 0 \in Nat BY <1>13
    <3>2. duty(full + 0) >= -conf.pwm_max BY <1>12, <3>1
    <3> HIDE DEF duty
    <3> QED BY <1>0, <1>12, <3>1, <3>2 DEF Least
  <2>2. ASSUME NEW k \in T PROVE k + 1 \in T
    <3> DEFINE i == full + k
    <3>0. i \in Nat /\ full + (k + 1) = i + 1 /\ i + 1 \in Nat BY <1>13
    <3>1. SUFFICES ASSUME i + 1 <= LetGo
                   PROVE duty(i + 1) >= Least((k + 1) - conf.pwm_max, conf.pwm_max)
      BY <3>0
    <3>2. i <= LetGo BY <1>0, <3>0, <3>1
    <3>3. duty(i) >= Least(k - conf.pwm_max, conf.pwm_max) BY <3>2
    <3>4. /\ Standing(run[i]) /\ ~Against(run[i]) /\ Boost(run[i]) = Room(run[i])
          /\ HeldOn(run[i], run[i + 1])
      BY <1>6, <1>11, <3>0, <3>1, <3>2
    <3>5. duty(i + 1) >= Least(duty(i) + 1, conf.pwm_max)
      BY <1>7, <3>0, <3>4 DEF HeldOn
    <3>6. duty(i) \in Int /\ duty(i + 1) \in Int BY <1>12, <3>0
    <3> HIDE DEF duty, i
    <3> QED BY <1>0, <3>3, <3>5, <3>6 DEF Least
  <2> HIDE DEF T
  <2>3. T = Nat BY <2>1, <2>2, AllNats
  <2> QED BY <2>3 DEF T
\* The stall is found
<1> DEFINE last == full + 2 * conf.pwm_max
<1>15. last \in Nat /\ LetGo = last + conf.stall BY <1>0, <1>13
<1>16. \A k \in Nat : last + k <= LetGo => Abs(run[last + k].pwm) >= conf.stall_pwm
  <2> SUFFICES ASSUME NEW k \in Nat, last + k <= LetGo
               PROVE Abs(run[last + k].pwm) >= conf.stall_pwm
    OBVIOUS
  <2>1. /\ 2 * conf.pwm_max + k \in Nat /\ full + (2 * conf.pwm_max + k) = last + k
        /\ last + k \in Nat
    BY <1>0, <1>13
  <2>2. duty(last + k) >= Least((2 * conf.pwm_max + k) - conf.pwm_max, conf.pwm_max)
    BY <1>14, <2>1
  <2>3. duty(last + k) >= conf.pwm_max
    <3>1. Least((2 * conf.pwm_max + k) - conf.pwm_max, conf.pwm_max) = conf.pwm_max
      BY <1>0 DEF Least
    <3> QED BY <2>2, <3>1
  <2> QED BY <1>12, <2>1, <2>3
<1> HIDE DEF last, duty
<1>17. \A k \in Nat : last + k <= LetGo
         => run[last + k].forced >= k /\ (k > 0 => run[last + k].forced < conf.stall)
  <2> DEFINE T == {k \in Nat : last + k <= LetGo
                     => /\ run[last + k].forced >= k
                        /\ k > 0 => run[last + k].forced < conf.stall}
  <2>1. T \in SUBSET Nat /\ 0 \in T
    <3>1. last + 0 = last /\ last \in Nat BY <1>15
    <3>2. run[last].forced \in Nat BY <1>7, <3>1
    <3>3. run[last + 0].forced >= 0 BY <3>1, <3>2
    <3> QED BY <3>3
  <2>2. ASSUME NEW k \in T PROVE k + 1 \in T
    <3> DEFINE i == last + k
    <3>0. i \in Nat /\ last + (k + 1) = i + 1 BY <1>15
    <3>1. SUFFICES ASSUME i + 1 <= LetGo
                   PROVE run[i + 1].forced >= k + 1 /\ run[i + 1].forced < conf.stall
      BY <3>0
    <3>2. i <= LetGo BY <1>0, <3>0, <3>1
    <3>3. run[i].forced >= k BY <3>2
    <3>4. Abs(run[i].pwm) >= conf.stall_pwm BY <1>16, <3>2
    <3>5. run[i + 1].forced >= run[i].forced + 1 /\ run[i + 1].forced < conf.stall
      BY <1>6, <3>0, <3>1, <3>4 DEF HeldOn
    <3>6. i + 1 \in Nat BY <3>0
    <3>7. run[i].forced \in Nat /\ run[i + 1].forced \in Nat BY <1>7, <3>0, <3>6
    <3> HIDE DEF i
    <3> QED BY <3>3, <3>5, <3>7
  <2> HIDE DEF T
  <2>3. T = Nat BY <2>1, <2>2, AllNats
  <2> QED BY <2>3 DEF T
<1>18. conf.stall > 0 BY DEF CanStall
<1>19. run[LetGo].forced >= conf.stall /\ run[LetGo].forced < conf.stall
  BY <1>0, <1>15, <1>17, <1>18
<1>20. run[LetGo].forced \in Nat BY <1>0, <1>7
<1> QED BY <1>0, <1>19, <1>20
=============================================================================
