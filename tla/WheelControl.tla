---------------------------- MODULE WheelControl ----------------------------
(***************************************************************************)
(* drv/wheel_control: the speed loop of one wheel, stepped on its encoder  *)
(* counts, with the kick of a standing wheel and the stall of a held one.  *)
(*                                                                         *)
(* Arithmetic is in integers: speeds in a unit that makes SpeedPerCount    *)
(* whole, times in ticks, and the integral in duty (ki times the field),   *)
(* the only form it is used in.  A step with no elapsed tick changes       *)
(* nothing.  Left out: ff, which is telemetry.                             *)
(***************************************************************************)
EXTENDS Integers

CONSTANTS
  conf,            \* db_wheel_control_conf_t
  StillTicks,      \* STILL_TICKS
  SpeedPerCount,   \* speed of one count in one tick
  Setpoints,       \* mm_per_s of a set_setpoint
  Counts,          \* delta_counts of a step
  Elapsed          \* elapsed_ticks of a step

\* A feedforward within the output range, a limit at all for the stall, and no
\* step as long as the stall takes
ASSUME ConfAssumption ==
  /\ conf \in [kp : Nat, ki : Nat, u_breakaway : Nat, kick_ramp : Nat, u_run : Nat,
               k_run : Nat, i_zone : Nat, pwm_max : Nat, pwm_slew : Nat,
               stall_pwm : Nat \ {0},
               stall     : Nat]       \* stall_ms in ticks, 0 disables
  /\ conf.u_breakaway <= conf.pwm_max
  /\ conf.stall > 0 => \A n \in Elapsed : n < conf.stall

ASSUME InputAssumption ==
  /\ StillTicks \in Nat \ {0} /\ SpeedPerCount \in Nat
  /\ Setpoints \subseteq Int /\ Counts \subseteq Int /\ Elapsed \subseteq Nat \ {0}

VARIABLES
  wheel,   \* the db_wheel_control_t
  held     \* history: ticks without a count since the setpoint changed, as far as
           \* the stall counts them

vars == <<wheel, held>>

----------------------------------------------------------------------------
\* Types

Abs(v) == IF v < 0 THEN -v ELSE v

Least(a, b) == IF a < b THEN a ELSE b

Most(a, b) == IF a < b THEN b ELSE a

\* _clamp
Clamp(v, low, high) == IF v < low THEN low ELSE IF v > high THEN high ELSE v

Duty == -conf.pwm_max .. conf.pwm_max

Wheel ==
  [setpoint    : Setpoints \cup {0},
   integral    : -(2 * conf.pwm_max) .. 2 * conf.pwm_max,
   pwm         : Duty,
   measured    : Int,
   previous    : Int,
   still_ticks : 0 .. StillTicks,
   kick_boost  : 0 .. conf.pwm_max + conf.kick_ramp,
   brake       : BOOLEAN,
   forced      : Nat,       \* forced_ms in ticks
   stalled     : BOOLEAN]

\* db_wheel_control_reset
WheelReset ==
  [setpoint |-> 0, integral |-> 0, pwm |-> 0, measured |-> 0, previous |-> 0,
   still_ticks |-> StillTicks, kick_boost |-> 0, brake |-> FALSE, forced |-> 0,
   stalled |-> FALSE]

Init == wheel = WheelReset /\ held = 0

----------------------------------------------------------------------------
\* db_wheel_control_set_setpoint

\* Fault: the same setpoint again clears a stall
Commanded_Restarts(w, v) ==
  [w EXCEPT !.setpoint = v, !.stalled = FALSE, !.forced = 0,
            !.integral = IF v * w.setpoint <= 0 THEN 0 ELSE @]

\* Fault: the time forced is counted across setpoints
Commanded_KeepsForced(w, v) ==
  [w EXCEPT !.setpoint = v, !.stalled = v = w.setpoint /\ @,
            !.integral = IF v * w.setpoint <= 0 THEN 0 ELSE @]

Commanded(w, v) ==
  [w EXCEPT !.setpoint = v,
            !.stalled  = v = w.setpoint /\ @,
            !.forced   = IF v = w.setpoint THEN @ ELSE 0,
            !.integral = IF v * w.setpoint <= 0 THEN 0 ELSE @]

----------------------------------------------------------------------------
\* db_wheel_control_step

Standing(w) == w.still_ticks = StillTicks

\* The counts of the step, and the stall by the duty applied over it
Measured(w, delta, n) ==
  LET held_still == conf.stall > 0 /\ delta = 0 /\ Abs(w.pwm) >= conf.stall_pwm
      forced     == IF held_still THEN w.forced + n ELSE 0
  IN [w EXCEPT !.previous    = w.measured,
               !.measured    = (SpeedPerCount * delta) \div n,
               !.still_ticks = IF delta = 0 THEN Least(@ + 1, StillTicks) ELSE 0,
               !.forced      = forced,
               !.stalled     = @ \/ (held_still /\ forced >= conf.stall)]

\* A zero setpoint brakes a wheel that turns; a stalled one coasts
Rested(w) ==
  [w EXCEPT !.integral = 0, !.pwm = 0, !.kick_boost = 0,
            !.brake = w.setpoint = 0 /\ ~Standing(w)]

Sign(w) == IF w.setpoint > 0 THEN 1 ELSE -1

Run(w) == Least(conf.u_run + conf.k_run * Abs(w.setpoint), conf.pwm_max)

Kick(w) == Most(conf.u_breakaway, Run(w))

\* Fault: a standing wheel is pushed no harder as it stays
Boost_Constant(w) == 0

Boost(w) == Least(w.kick_boost, conf.pwm_max - Kick(w))

FeedForward(w) ==
  Sign(w) * IF Standing(w) THEN Kick(w) + Boost(w) ELSE Run(w)

\* A standing wheel gets the P term on the whole setpoint
Error(w) ==
  IF Standing(w) THEN w.setpoint ELSE w.setpoint - (w.measured + w.previous) \div 2

\* With anti-windup: the integral holds at most what the feedforward leaves
Integrated(w, n) ==
  LET grows == ~Standing(w) /\ Abs(Error(w)) < conf.i_zone
      sum   == IF grows THEN w.integral + conf.ki * Error(w) * n ELSE w.integral
  IN Clamp(sum, -conf.pwm_max - FeedForward(w), conf.pwm_max - FeedForward(w))

\* A turning wheel far over its setpoint is pushed past the dead zone below u_run
Pushed(w, n) ==
  LET pwm == FeedForward(w) + conf.kp * Error(w) + Integrated(w, n) IN
  IF /\ ~Standing(w)
     /\ Sign(w) * pwm < conf.u_run
     /\ Sign(w) * Error(w) < -conf.i_zone
  THEN pwm - Sign(w) * conf.u_run ELSE pwm

\* Fault: the slew limit is the last word without the range before it
Slewed_Unbounded(w, pwm) == Clamp(pwm, w.pwm - conf.pwm_slew, w.pwm + conf.pwm_slew)

Slewed(w, pwm) ==
  Clamp(Clamp(pwm, -conf.pwm_max, conf.pwm_max),
        w.pwm - conf.pwm_slew, w.pwm + conf.pwm_slew)

Driven(w, n) ==
  [w EXCEPT !.integral   = Integrated(w, n),
            !.pwm        = Slewed(w, Pushed(w, n)),
            !.kick_boost = IF Standing(w) THEN Boost(w) + conf.kick_ramp ELSE 0,
            !.brake      = FALSE]

\* Fault: a stall is only looked at on the next step
Stepped_StallsLate(w, delta, n) ==
  LET m == Measured(w, delta, n) IN
  IF m.setpoint = 0 \/ w.stalled THEN Rested(m) ELSE Driven(m, n)

Stepped(w, delta, n) ==
  LET m == Measured(w, delta, n) IN
  IF m.setpoint = 0 \/ m.stalled THEN Rested(m) ELSE Driven(m, n)

----------------------------------------------------------------------------
\* The calls

Reset == wheel' = WheelReset /\ held' = 0

SetSetpoint(v) ==
  /\ wheel' = Commanded(wheel, v)
  /\ held' = IF v = wheel.setpoint THEN held ELSE 0

Step(delta, n) ==
  /\ wheel' = Stepped(wheel, delta, n)
  /\ held' = IF delta = 0 THEN Least(held + n, conf.stall) ELSE 0

Commands == \E v \in Setpoints : SetSetpoint(v)

Steps == \E delta \in Counts, n \in Elapsed : Step(delta, n)

Next == Reset \/ Commands \/ Steps

Spec == Init /\ [][Next]_vars

HeldStep == \E n \in Elapsed : Step(0, n)

\* The scheduler steps the loop on every tick
LiveSpec == Spec /\ WF_vars(HeldStep)

----------------------------------------------------------------------------
\* Safety

TypeOK == wheel \in Wheel /\ held \in 0 .. conf.stall

\* A wheel is taken for stalled only after it was held for the whole limit under
\* one setpoint: no time before a count or a command counts towards it.
StallJustified ==
  [][~wheel.stalled /\ wheel'.stalled => held' >= conf.stall]_vars

\* wheel_control.h:22-24: a stalled wheel coasts.  Its output is zero from the step
\* that finds the stall on, and no zero setpoint, which would brake, is mistaken
\* for one.
StalledCoasts == wheel.stalled => wheel.setpoint # 0 /\ wheel.pwm = 0 /\ ~wheel.brake

\* wheel_control.h:23-24: until the setpoint changes or the loop is reset.  The steering
\* sends its setpoints again every period, which must not restart the motor.
StallLasts ==
  [][wheel.stalled /\ ~wheel'.stalled => wheel'.setpoint # wheel.setpoint]_vars

\* wheel_control.c:108-109, a standing wheel gets the kick "and no integral": a step on
\* a standing wheel takes its duty to the kick, as far as the slew allows.
StandingKicks ==
  [][\A n \in Elapsed :
       Step(0, n) /\ Standing(wheel') /\ wheel'.setpoint # 0 /\ ~wheel'.stalled
       => Sign(wheel') * wheel'.pwm
            >= Least(Kick(wheel'), Sign(wheel') * wheel.pwm + conf.pwm_slew)]_vars

----------------------------------------------------------------------------
\* Liveness

\* The kick can grow to a duty that counts as forced
CanStall ==
  /\ conf.stall > 0 /\ conf.stall_pwm <= conf.pwm_max
  /\ conf.kick_ramp > 0 /\ conf.pwm_slew > 0

\* An integral of before is left against the setpoint
Against(w) ==
  \/ w.integral < 0 /\ w.setpoint > 0
  \/ w.integral > 0 /\ w.setpoint < 0

Opposed == Against(wheel)

\* A wheel that is held is let go: its kick grows until it counts as forced, and
\* the stall takes its duty away, unless an integral of before holds it back.
HeldLetsGo ==
  CanStall /\ <>[][HeldStep]_vars => []<>Opposed \/ <>[](wheel.pwm = 0)
=============================================================================
