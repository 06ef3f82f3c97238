--------------------------- MODULE DotbotControl ---------------------------
(***************************************************************************)
(* drv/dotbot_control: the commands of the host (db_control_rx) and the    *)
(* scheduler tick (db_control_tick), which runs the wheel loop, the pose   *)
(* estimator, the steering and the deadman in that order.  The two run on  *)
(* one core and never overlap; any number of commands may arrive between   *)
(* two ticks.                                                              *)
(*                                                                         *)
(* The ticks of the source are kept as differences, the only form it reads *)
(* them in.  The fix and the steering have one period (dotbot_control.c:45)*)
(* and are checked on the same ticks, so one difference stands for both.   *)
(* Left out: the cruise speed (MAX_SPEED), the encoder totals and the      *)
(* advertisement's own timer, which nothing else reads.                    *)
(***************************************************************************)
EXTENDS SteeringOps

CONSTANTS
  BatchIds,        \* the batch ids of the host, without 0
  NoId,            \* batch id 0
  Batches,         \* the paths db_steering_path_from_wire makes
  Elapsed,         \* elapsed_ticks of an input, more than 1 after a backlog
  StepPeriod,      \* TICKS_PER_POSITION = DB_STEERING_PERIOD_TICKS
  TimeoutPeriod,   \* TICKS_PER_TIMEOUT
  Deadman          \* conf->deadman_ticks

ASSUME ControlAssumption ==
  /\ NoId \notin BatchIds
  /\ Batches \subseteq Path
  /\ Elapsed # {} /\ Elapsed \subseteq Nat \ {0}
  /\ StepPeriod \in Nat \ {0}
  /\ TimeoutPeriod \in Nat \ {0}
  /\ Deadman \in Nat

VARIABLES
  drive_mode,      \* which writer owns the motors
  steering,        \* the db_steering_t
  steering_brake,  \* the steering holds the motors braked
  batch_id,        \* of the last batch accepted
  abort_reason,    \* what stopped the last batch
  pose,            \* the estimator's status, with free_spin
  wheels,          \* whether a wheel loop has a setpoint other than 0
  pending,         \* the write a command made: duty, brake or none
  motors,          \* the last write recorded
  age,             \* tick - last_command_tick
  since_step,      \* tick - tick_position, tick - tick_steering
  since_timeout    \* tick - tick_timeout

vars == <<drive_mode, steering, steering_brake, batch_id, abort_reason, pose,
          wheels, pending, motors, age, since_step, since_timeout>>

Mode == {"IDLE", "RAW", "VELOCITY", "WAYPOINT"}
Direct == {"RAW", "VELOCITY"}
AbortReason == {"STOP", "DIRECT", "CONTROL_MODE"}
Motors == {"none", "duty", "drive", "brake", "coast"}

\* Fault: a tick counts as a command
Older_Renewed(n) == IF drive_mode \in Direct THEN n ELSE 0

\* The age is read in a direct mode only, which a command enters: 0 elsewhere
Older(n) == IF drive_mode \in Direct THEN age + n ELSE 0

Init ==
  /\ drive_mode = "IDLE"
  /\ steering = SteeringInit
  /\ steering_brake = FALSE
  /\ batch_id = NoId
  /\ abort_reason = "STOP"
  /\ pose = "SEEDING"
  /\ wheels = "zero"
  /\ pending = "none"
  /\ motors = "none"
  /\ age = 0
  /\ since_step = 0
  /\ since_timeout = 0

clocks == <<since_step, since_timeout>>

----------------------------------------------------------------------------
\* db_control_rx

\* Fault: every command rewrites the reason
NoteAbort_Always(reason) == abort_reason' = reason

\* _note_abort
NoteAbort(reason) ==
  abort_reason' = IF Active(steering) THEN reason ELSE abort_reason

\* Fault: the steering keeps its batch
EnterDriveMode_KeepsBatch(mode) ==
  /\ steering_brake' = FALSE
  /\ drive_mode' = mode
  /\ UNCHANGED steering

\* _enter_drive_mode, to a mode that is not WAYPOINT, before the setpoints
EnterDriveMode(mode) ==
  /\ steering' = Stop(steering)
  /\ steering_brake' = FALSE
  /\ drive_mode' = mode

\* _drive_stop into the pending write
DriveStop ==
  /\ EnterDriveMode("IDLE")
  /\ wheels' = "zero"
  /\ pending' = "brake"

\* CMD_MOVE_RAW
RxMoveRaw ==
  /\ age' = 0
  /\ NoteAbort("DIRECT")
  /\ EnterDriveMode("RAW")
  /\ wheels' = "zero"
  /\ pending' = "duty"
  /\ UNCHANGED <<batch_id, pose, motors, clocks>>

\* CMD_WHEEL_VELOCITY, to some setpoints
RxWheelVelocity ==
  /\ age' = 0
  /\ IF drive_mode # "VELOCITY"
     THEN NoteAbort("DIRECT") /\ EnterDriveMode("VELOCITY")
     ELSE UNCHANGED <<abort_reason, steering, steering_brake, drive_mode>>
  /\ wheels' \in {"zero", "set"}
  /\ UNCHANGED <<batch_id, pose, pending, motors, clocks>>

\* A direct command or a batch too short to read, and a batch heard again: the
\* deadman starts over and that is all
RxDropped ==
  /\ age' = 0
  /\ UNCHANGED <<drive_mode, steering, steering_brake, batch_id, abort_reason,
                 pose, wheels, pending, motors, clocks>>

IsNew(id) == id = NoId \/ id # batch_id

\* LH2_WAYPOINTS with no point
RxEmptyBatch(id) ==
  /\ age' = 0
  /\ IsNew(id)
  /\ batch_id' = id
  /\ NoteAbort("STOP")
  /\ DriveStop
  /\ UNCHANGED <<pose, motors, clocks>>

\* Fault: the brake of the last batch is kept
RxBatch_KeepsBrake(id, path) ==
  /\ age' = 0
  /\ IsNew(id)
  /\ path.count > 0
  /\ batch_id' = id
  /\ drive_mode' = "WAYPOINT"
  /\ wheels' = IF drive_mode = "WAYPOINT" THEN wheels ELSE "zero"
  /\ steering' = SetPath(steering, path)
  /\ UNCHANGED <<steering_brake, abort_reason, pose, pending, motors, clocks>>

\* LH2_WAYPOINTS with points
RxBatch(id, path) ==
  /\ age' = 0
  /\ IsNew(id)
  /\ path.count > 0
  /\ batch_id' = id
  /\ drive_mode' = "WAYPOINT"
  /\ wheels' = IF drive_mode = "WAYPOINT" THEN wheels ELSE "zero"
  /\ steering_brake' = FALSE
  /\ steering' = SetPath(steering, path)
  /\ UNCHANGED <<abort_reason, pose, pending, motors, clocks>>

\* CONTROL_MODE
RxControlMode ==
  /\ NoteAbort("CONTROL_MODE")
  /\ DriveStop
  /\ age' = 0
  /\ UNCHANGED <<batch_id, pose, motors, clocks>>

RxWaypoints ==
  \E id \in BatchIds \cup {NoId} :
    RxEmptyBatch(id) \/ \E path \in Batches : RxBatch(id, path)

Rx == RxMoveRaw \/ RxWheelVelocity \/ RxDropped \/ RxWaypoints \/ RxControlMode

\* db_control_seed
Seed ==
  /\ pose' = "TRACKING"
  /\ UNCHANGED <<drive_mode, steering, steering_brake, batch_id, abort_reason,
                 wheels, pending, motors, age, clocks>>

----------------------------------------------------------------------------
\* db_control_tick

\* Fault: a pending write comes before the writer of the mode
WheelWrites_PendingFirst ==
  IF pending # "none" THEN {pending}
  ELSE IF steering_brake THEN {"brake"}
  ELSE IF drive_mode = "RAW" THEN {"none"}
  ELSE IF wheels = "set" THEN {"drive"} ELSE {"brake", "coast"}

\* What the write section leaves in out: the brake of the steering, the wheel
\* loop, or in RAW the pending write, else no write ("none").  A zero setpoint
\* brakes a wheel that turned since the last tick; the reset that set it takes one
\* that did not for standing, and lets it coast.
WheelWrites ==
  IF steering_brake THEN {"brake"}
  ELSE IF drive_mode = "RAW" THEN {pending}
  ELSE IF wheels = "set" THEN {"drive"} ELSE {"brake", "coast"}

\* The estimator, as PoseLifecycle promises it
Life == INSTANCE PoseLifecycle WITH status <- pose

\* _steering_apply: the brake and the setpoints a command leaves
AppliedBrake(out, brake) ==
  IF out = "none" THEN brake ELSE out = "brake"

AppliedWheels(out, brake) ==
  CASE out = "none"  -> {wheels}
    [] out = "brake" -> IF brake THEN {wheels} ELSE {"zero"}
    [] out = "coast" -> {"zero"}
    [] out = "drive" -> {"zero", "set"}
    [] OTHER         -> {"set"}

\* The fix, when it is due: estimator and steering take it if it is a new one
Fixed(n) ==
  {[p |-> p, s |-> steering] : p \in Life!Predicted(pose)}
  \cup When(since_step + n >= StepPeriod,
            {[p |-> q, s |-> Fix(steering)] :
               q \in UNION {Life!Updated(p) : p \in Life!Predicted(pose)}})

\* The steering step, once a period
Stepped(f, n) ==
  IF drive_mode = "WAYPOINT" /\ since_step + n >= StepPeriod
  THEN Step(f.s, f.p, since_step + n) ELSE {Result(f.s, "none")}

\* The poll, every tick, on the same pose
Polled(s, p) ==
  IF drive_mode = "WAYPOINT" THEN Poll(s, p) ELSE {Result(s, "none")}

\* The tick where nothing is stopped: the motors are written before the steering
\* runs, so its command is heard a tick later
Drives(stepped, polled) ==
  LET braked == AppliedBrake(stepped.out, steering_brake) IN
  /\ steering' = polled.s
  /\ steering_brake' = AppliedBrake(polled.out, braked)
  /\ wheels' \in IF polled.out = "brake" /\ ~braked THEN {"zero"}
                 ELSE AppliedWheels(stepped.out, steering_brake)
  /\ \E write \in WheelWrites :
       motors' = IF write = "none" THEN motors ELSE write
  /\ UNCHANGED drive_mode

\* Fault: the age is read before the tick counts
Expired_Stale(n) ==
  /\ since_timeout + n >= TimeoutPeriod
  /\ drive_mode \in Direct
  /\ age > Deadman

\* The deadman check
Expired(n) ==
  /\ since_timeout + n >= TimeoutPeriod
  /\ drive_mode \in Direct
  /\ Older(n) > Deadman

\* _drive_stop into the write of this tick
DeadmanStops(s) ==
  /\ steering' = Stop(s)
  /\ steering_brake' = FALSE
  /\ drive_mode' = "IDLE"
  /\ wheels' = "zero"
  /\ motors' = "brake"

Tick(n) ==
  /\ \E f \in Fixed(n) :
       \E stepped \in Stepped(f, n) :
         \E polled \in Polled(stepped.s, f.p) :
           /\ pose' = f.p
           /\ IF Expired(n) THEN DeadmanStops(polled.s)
              ELSE Drives(stepped, polled)
  /\ pending' = "none"
  /\ age' = IF Expired(n) THEN 0 ELSE Older(n)
  /\ since_step' = IF since_step + n >= StepPeriod THEN 0 ELSE since_step + n
  /\ since_timeout' =
       IF since_timeout + n >= TimeoutPeriod THEN 0 ELSE since_timeout + n
  /\ UNCHANGED <<batch_id, abort_reason>>

Ticks == \E n \in Elapsed : Tick(n)

Next == Rx \/ Seed \/ Ticks

Spec == Init /\ [][Next]_vars

\* The scheduler timer never stops
LiveSpec == Spec /\ WF_vars(Ticks)

----------------------------------------------------------------------------
\* Safety

TypeOK ==
  /\ drive_mode \in Mode
  /\ steering \in SteeringState
  /\ steering_brake \in BOOLEAN
  /\ batch_id \in BatchIds \cup {NoId}
  /\ abort_reason \in AbortReason
  /\ pose \in Pose
  /\ wheels \in {"zero", "set"}
  /\ pending \in {"none", "duty", "brake"}
  /\ motors \in Motors
  /\ age \in Nat
  /\ since_step \in 0 .. StepPeriod - 1
  /\ since_timeout \in 0 .. TimeoutPeriod - 1

\* "Who writes the motors. Exactly one writer per mode" (dotbot_control.h:60):
\* a batch runs, the steering holds the brake and a setpoint is left only in the
\* mode of the writer they belong to, whichever command took the motors over.
OneWriter ==
  /\ Active(steering) => drive_mode = "WAYPOINT"
  /\ steering_brake => drive_mode = "WAYPOINT"
  /\ wheels = "set" => drive_mode \in {"VELOCITY", "WAYPOINT"} /\ ~steering_brake
  /\ pending = "duty" => drive_mode # "IDLE"

\* The brake is latched in steering_brake exactly as long as the steering rests,
\* across the ticks that do not step it and the batches that replace one another;
\* the poll's brake of a final turn is the one other case.
BrakeHeld ==
  drive_mode = "WAYPOINT" =>
    /\ steering.state \in AtRest => steering_brake
    /\ steering_brake => steering.state \in AtRest \cup {"FINAL_TURN"}

\* The two timers together: direct driving goes on no longer than the deadman and
\* the period of its check after the last command, whatever ticks are skipped.
DeadmanBound == drive_mode \in Direct => age <= Deadman + since_timeout

\* A change of mode takes effect on the motors by the next tick, and for good:
\* what an overtaken command left pending, or an overtaken writer left in the
\* wheel loops, never reaches them.
MotorsFollowMode ==
  [][Ticks => motors' \in CASE drive_mode' = "IDLE" -> {"brake", "coast"}
                            [] drive_mode' = "RAW"  -> {"duty"}
                            [] OTHER                -> {"drive", "brake", "coast"}]_vars

\* dotbot_control.h:156, "a motor write a command made, delivered by the next
\* tick", and dotbot_control.c:185, "brakes both motors; the wheel loop releases
\* each one once its wheel stands": the brake of an empty batch or a control mode
\* command reaches the motors of a robot it stops.
StopBrakes ==
  [][pending = "brake" /\ motors \in {"duty", "drive"} /\ Ticks
       => motors' = "brake"]_vars

\* What the host is told of its batches (BatchLifecycle): no batch is reported
\* arrived or failed that was not in progress, none restarts without a new id,
\* and an abort has the reason of the command that made it.
Abs == INSTANCE BatchLifecycle
         WITH mode <- drive_mode, batch <- batch_id,
              status <- steering.completion, reason <- abort_reason

ImplementsBatchLifecycle == Abs!Spec

----------------------------------------------------------------------------
\* Liveness

\* Once the host sends nothing more, its direct driving stops.
SilenceStops ==
  <>[][~Rx]_vars => <>[](drive_mode \notin Direct)

\* And once the pose settles too, on whatever status, the robot comes to rest: the
\* batch ends, and the last write holds the brake or lets the wheels coast.
ComesToRest ==
  \A p \in Pose :
    <>[][~Rx]_vars /\ <>[](pose = p)
      => <>[](~Active(steering) /\ motors \in {"none", "brake", "coast"})
=============================================================================
