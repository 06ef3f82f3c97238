------------------------ MODULE DotbotControlProofs ------------------------
(***************************************************************************)
(* The safety properties of DotbotControl and its refinement of            *)
(* BatchLifecycle, proved for every limit, period, deadman and batch.      *)
(*                                                                         *)
(* The steering record keeps Good whoever calls it (SteeringOpsProofs).    *)
(* IInv adds who owns the motors: RawWrite says where the duty of a raw    *)
(* command is, in the pending write or already on the motors.              *)
(***************************************************************************)
EXTENDS DotbotControl, SteeringOpsProofs

RawWrite ==
  drive_mode = "RAW" => \/ pending = "duty"
                        \/ pending = "none" /\ motors = "duty"

\* The inductive invariant
IInv ==
  /\ TypeOK
  /\ Good(steering)
  /\ OneWriter
  /\ BrakeHeld
  /\ DeadmanBound
  /\ RawWrite

\* A batch the wire gives is one db_steering_set_path takes
LEMMA BatchPath ==
  \A path \in Batches : path \in [count : Nat, poses : SUBSET Nat, precise : BOOLEAN]
BY ControlAssumption, BoundsAssumption DEF Path

LEMMA PathGood ==
  ASSUME Good(steering), NEW path \in Batches, path.count > 0
  PROVE /\ Good(SetPath(steering, path))
        /\ SetPath(steering, path).completion = "IN_PROGRESS"
        /\ SetPath(steering, path).state \in {"DRIVE", "NO_HEADING", "ALIGN"}
BY BatchPath, SetPathGood

LEMMA GoodType == ASSUME NEW s, Good(s) PROVE s \in SteeringState /\ Agrees(s)
BY DEF Good, Base

----------------------------------------------------------------------------
\* The tick, call by call

\* The pose and the record the fix leaves
LEMMA FixedGood ==
  ASSUME IInv, NEW n \in Elapsed, NEW f \in Fixed(n)
  PROVE /\ f.p \in Pose
        /\ Good(f.s)
        /\ f.s.state = steering.state
        /\ f.s.completion = steering.completion
<1>0. Good(steering) /\ pose \in Pose BY DEF IInv, TypeOK
<1>1. \A p \in Life!Predicted(pose) : p \in Pose BY <1>0 DEF Life!Predicted, Pose
<1>2. \A p \in Pose : \A q \in Life!Updated(p) : q \in Pose
  BY DEF Life!Updated, Pose
<1>3. CASE f \in {[p |-> p, s |-> steering] : p \in Life!Predicted(pose)}
  BY <1>0, <1>1, <1>3
<1>4. CASE f \in {[p |-> q, s |-> Fix(steering)] :
                    q \in UNION {Life!Updated(p) : p \in Life!Predicted(pose)}}
  BY <1>0, <1>1, <1>2, <1>4, FixGood
<1> QED BY <1>3, <1>4 DEF Fixed, When

\* A call with its command in the source's mode WAYPOINT, and no call in others
LEMMA SteppedGood ==
  ASSUME IInv, NEW n \in Elapsed, NEW f \in Fixed(n), NEW r \in Stepped(f, n)
  PROVE /\ r \in Results
        /\ Good(r.s)
        /\ \/ r = Result(f.s, "none")
           \/ /\ drive_mode = "WAYPOINT"
              /\ r.out # "none"
              /\ r.s.state \in AtRest <=> r.out = "brake"
              /\ \/ r.s.completion = steering.completion
                 \/ /\ steering.completion = "IN_PROGRESS"
                    /\ r.s.completion \in {"ARRIVED", "FAILED"}
<1>0. /\ Good(f.s) /\ f.p \in Pose /\ f.s.completion = steering.completion
  BY FixedGood
<1>1. f.s \in SteeringState /\ Agrees(f.s) BY <1>0, GoodType
<1>2. since_step + n \in Nat
  BY ControlAssumption DEF IInv, TypeOK
<1>3. CASE r = Result(f.s, "none")
  BY <1>0, <1>1, <1>3 DEF Result, Results, Command
<1>4. CASE drive_mode = "WAYPOINT" /\ r \in Step(f.s, f.p, since_step + n)
  <2>1. CASE Active(f.s)
    <3>1. GoodResult(r) BY <1>0, <1>2, <1>4, <2>1, StepGood
    <3>2. r \in Results /\ Good(r.s) /\ r.s.state # "IDLE" /\ r.out # "none"
          /\ (r.s.state \in AtRest <=> r.out = "brake")
      BY <3>1 DEF GoodResult
    <3>3. Agrees(r.s) /\ r.s.state \in State BY <3>2, GoodType DEF SteeringState
    <3>4. r.s.completion \in {"IN_PROGRESS", "ARRIVED", "FAILED"}
      BY <3>2, <3>3 DEF Agrees, Active, State
    <3>5. steering.completion = "IN_PROGRESS" BY <1>0, <1>1, <2>1 DEF Agrees
    <3> QED BY <1>4, <3>2, <3>4, <3>5
  <2>2. CASE ~Active(f.s)
    <3>1. IdleResult(f.s, r) BY <1>0, <1>2, <1>4, <2>2, StepGood
    <3> QED BY <1>0, <1>4, <3>1 DEF IdleResult
  <2> QED BY <2>1, <2>2
<1> QED BY <1>3, <1>4 DEF Stepped

\* The poll after it
LEMMA PolledGood ==
  ASSUME IInv, NEW s, Good(s), NEW p \in Pose, NEW r \in Polled(s, p)
  PROVE /\ r \in Results
        /\ Good(r.s)
        /\ r.s.completion = s.completion
        /\ \/ r = Result(s, "none")
           \/ /\ drive_mode = "WAYPOINT"
              /\ r.out = "brake"
              /\ r.s.state \in {"SETTLE", "FINAL_TURN"}
<1>1. CASE r = Result(s, "none")
  BY <1>1, GoodType DEF Result, Results, Command
<1>2. CASE drive_mode = "WAYPOINT" /\ r \in Poll(s, p)
  BY <1>2, PollGood
<1> QED BY <1>1, <1>2 DEF Polled

----------------------------------------------------------------------------
\* The invariant

LEMMA InitIInv == Init => IInv
<1> SUFFICES ASSUME Init PROVE IInv OBVIOUS
<1>1. SteeringInit \in SteeringState
  <2>1. NoPath \in Path BY BoundsAssumption DEF NoPath, Path
  <2>2. Infinity \in 0 .. Infinity /\ 0 \in 0 .. MaxPoints
    BY BoundsAssumption DEF Infinity
  <2> QED
    BY <2>1, <2>2 DEF SteeringInit, SteeringState, State, FailReason, Completion
<1>2. Good(SteeringInit) /\ SteeringInit.state = "IDLE"
  BY <1>1, ConfAssumption DEF Good, Base, SteeringInit, Agrees, Fits, Restored,
     Fresh, InTime, Progressing, Active, Timed, Moving
<1>3. /\ drive_mode = "IDLE" /\ steering = SteeringInit /\ ~steering_brake
      /\ wheels = "zero" /\ pending = "none" /\ pose = "SEEDING"
  BY DEF Init
<1>4. TypeOK
  <2>1. 0 \in 0 .. StepPeriod - 1 /\ 0 \in 0 .. TimeoutPeriod - 1
    BY ControlAssumption
  <2>2. /\ since_step = 0 /\ since_timeout = 0 /\ age = 0 /\ motors = "none"
        /\ abort_reason = "STOP" /\ batch_id = NoId /\ steering_brake = FALSE
    BY DEF Init
  <2> QED
    BY <1>1, <1>3, <2>1, <2>2 DEF TypeOK, Mode, Pose, AbortReason, Motors
<1> QED
  BY <1>2, <1>3, <1>4 DEF IInv, OneWriter, BrakeHeld, DeadmanBound, RawWrite,
     Direct, Active

\* _enter_drive_mode: what it leaves whatever the steering was doing
LEMMA EnterModeGood ==
  ASSUME IInv, NEW mode, EnterDriveMode(mode)
  PROVE /\ steering' \in SteeringState /\ Good(steering)'
        /\ ~Active(steering)' /\ steering_brake' = FALSE /\ drive_mode' = mode
        /\ steering'.completion = IF steering.completion = "IN_PROGRESS"
                                  THEN "ABORTED" ELSE steering.completion
<1>1. Good(steering) /\ Agrees(steering) BY GoodType DEF IInv
<1>2. /\ Good(Stop(steering)) /\ Stop(steering).state = "IDLE"
      /\ Stop(steering).completion =
           IF Active(steering) THEN "ABORTED" ELSE steering.completion
  BY <1>1, StopGood
<1>3. steering' = Stop(steering) /\ steering_brake' = FALSE /\ drive_mode' = mode
  BY DEF EnterDriveMode
<1>4. Good(steering)' /\ steering'.state = "IDLE" BY <1>2, <1>3
<1>5. steering' \in SteeringState BY <1>4, GoodType
<1> QED BY <1>1, <1>2, <1>3, <1>4, <1>5 DEF Active, Agrees

LEMMA RxMoveRawKeeps == ASSUME IInv, RxMoveRaw PROVE IInv'
<1>1. EnterDriveMode("RAW") /\ NoteAbort("DIRECT") BY DEF RxMoveRaw
<1>2. /\ steering' \in SteeringState /\ Good(steering)' /\ ~Active(steering)'
      /\ steering_brake' = FALSE /\ drive_mode' = "RAW"
  BY <1>1, EnterModeGood
<1>3. abort_reason' \in AbortReason
  BY <1>1 DEF NoteAbort, IInv, TypeOK, AbortReason
<1>4. /\ age' = 0 /\ wheels' = "zero" /\ pending' = "duty"
      /\ UNCHANGED <<batch_id, pose, motors, since_step, since_timeout>>
  BY DEF RxMoveRaw, clocks
<1>5. TypeOK' BY <1>2, <1>3, <1>4 DEF IInv, TypeOK, Mode
<1>6. DeadmanBound'
  BY <1>4, ControlAssumption DEF IInv, TypeOK, DeadmanBound
<1> QED BY <1>2, <1>4, <1>5, <1>6 DEF IInv, OneWriter, BrakeHeld, RawWrite

LEMMA RxWheelVelocityKeeps == ASSUME IInv, RxWheelVelocity PROVE IInv'
<1>1. /\ age' = 0 /\ wheels' \in {"zero", "set"}
      /\ UNCHANGED <<batch_id, pose, pending, motors, since_step, since_timeout>>
  BY DEF RxWheelVelocity, clocks
<1>2. DeadmanBound'
  BY <1>1, ControlAssumption DEF IInv, TypeOK, DeadmanBound
<1>3. CASE drive_mode = "VELOCITY"
  <2>1. UNCHANGED <<abort_reason, steering, steering_brake, drive_mode>>
    BY <1>3 DEF RxWheelVelocity
  <2>2. ~steering_brake BY <1>3 DEF IInv, OneWriter
  <2>3. TypeOK' BY <1>1, <2>1 DEF IInv, TypeOK
  <2>4. OneWriter' BY <1>1, <1>3, <2>1, <2>2 DEF IInv, OneWriter
  <2>5. BrakeHeld' /\ RawWrite' BY <1>3, <2>1 DEF BrakeHeld, RawWrite
  <2> QED BY <1>2, <2>1, <2>3, <2>4, <2>5 DEF IInv
<1>4. CASE drive_mode # "VELOCITY"
  <2>1. EnterDriveMode("VELOCITY") /\ NoteAbort("DIRECT")
    BY <1>4 DEF RxWheelVelocity
  <2>2. /\ steering' \in SteeringState /\ Good(steering)' /\ ~Active(steering)'
        /\ steering_brake' = FALSE /\ drive_mode' = "VELOCITY"
    BY <2>1, EnterModeGood
  <2>3. abort_reason' \in AbortReason
    BY <2>1 DEF NoteAbort, IInv, TypeOK, AbortReason
  <2>4. TypeOK' BY <1>1, <2>2, <2>3 DEF IInv, TypeOK, Mode
  <2>5. OneWriter' /\ BrakeHeld' /\ RawWrite'
    BY <1>1, <2>2 DEF OneWriter, BrakeHeld, RawWrite
  <2> QED BY <1>2, <2>2, <2>4, <2>5 DEF IInv
<1> QED BY <1>3, <1>4

LEMMA RxDroppedKeeps == ASSUME IInv, RxDropped PROVE IInv'
<1>1. /\ age' = 0
      /\ UNCHANGED <<drive_mode, steering, steering_brake, batch_id, abort_reason,
                     pose, wheels, pending, motors, since_step, since_timeout>>
  BY DEF RxDropped, clocks
<1>2. DeadmanBound'
  BY <1>1, ControlAssumption DEF IInv, TypeOK, DeadmanBound
<1>3. TypeOK' BY <1>1 DEF IInv, TypeOK
<1>4. OneWriter' /\ BrakeHeld' /\ RawWrite'
  BY <1>1 DEF IInv, OneWriter, BrakeHeld, RawWrite
<1> QED BY <1>1, <1>2, <1>3, <1>4 DEF IInv

\* An empty batch and CONTROL_MODE
LEMMA DriveStopKeeps ==
  ASSUME IInv, DriveStop, NEW reason \in AbortReason, NoteAbort(reason),
         age' = 0, batch_id' \in BatchIds \cup {NoId},
         UNCHANGED <<pose, motors, clocks>>
  PROVE IInv'
<1>1. EnterDriveMode("IDLE") /\ wheels' = "zero" /\ pending' = "brake"
  BY DEF DriveStop
<1>2. /\ steering' \in SteeringState /\ Good(steering)' /\ ~Active(steering)'
      /\ steering_brake' = FALSE /\ drive_mode' = "IDLE"
  BY <1>1, EnterModeGood
<1>3. abort_reason' \in AbortReason BY DEF NoteAbort, IInv, TypeOK
<1>4. TypeOK' BY <1>1, <1>2, <1>3 DEF IInv, TypeOK, Mode, clocks
<1> QED
  BY <1>1, <1>2, <1>4 DEF IInv, OneWriter, BrakeHeld, DeadmanBound, RawWrite, Direct

LEMMA RxBatchKeeps ==
  ASSUME IInv, NEW id \in BatchIds \cup {NoId}, NEW path \in Batches,
         RxBatch(id, path)
  PROVE IInv'
<1>1. /\ age' = 0 /\ batch_id' = id /\ drive_mode' = "WAYPOINT"
      /\ wheels' = (IF drive_mode = "WAYPOINT" THEN wheels ELSE "zero")
      /\ steering_brake' = FALSE /\ steering' = SetPath(steering, path)
      /\ path.count > 0
      /\ UNCHANGED <<abort_reason, pose, pending, motors, since_step, since_timeout>>
  BY DEF RxBatch, clocks
<1>2. Good(steering)' /\ steering'.state \in {"DRIVE", "NO_HEADING", "ALIGN"}
  BY <1>1, PathGood DEF IInv
<1>3. steering' \in SteeringState BY <1>2, GoodType
<1>4. TypeOK' BY <1>1, <1>3 DEF IInv, TypeOK, Mode
<1>5. OneWriter' /\ BrakeHeld' BY <1>1, <1>2 DEF OneWriter, BrakeHeld, AtRest
<1> QED BY <1>1, <1>2, <1>4, <1>5 DEF IInv, DeadmanBound, RawWrite, Direct

LEMMA SeedKeeps == ASSUME IInv, Seed PROVE IInv'
<1>1. TypeOK' BY DEF IInv, TypeOK, Seed, Pose, clocks
<1> QED
  BY <1>1 DEF IInv, Seed, OneWriter, BrakeHeld, DeadmanBound, RawWrite, clocks

\* The clocks of a tick, and the deadman's answer to them
LEMMA TickClocks ==
  ASSUME IInv, NEW n \in Elapsed, Tick(n)
  PROVE /\ since_step' \in 0 .. StepPeriod - 1
        /\ since_timeout' \in 0 .. TimeoutPeriod - 1
        /\ age' \in Nat
        /\ ~Expired(n) /\ drive_mode \in Direct => age' <= Deadman + since_timeout'
<1> DEFINE step == since_step + n
           timeout == since_timeout + n
<1>0. /\ n \in Nat /\ StepPeriod \in Nat /\ TimeoutPeriod \in Nat /\ Deadman \in Nat
      /\ StepPeriod > 0 /\ TimeoutPeriod > 0
      /\ age \in Nat /\ since_step \in Nat /\ since_timeout \in Nat
  BY ControlAssumption DEF IInv, TypeOK
<1>1. /\ age' = (IF Expired(n) THEN 0 ELSE Older(n))
      /\ since_step' = (IF step >= StepPeriod THEN 0 ELSE step)
      /\ since_timeout' = (IF timeout >= TimeoutPeriod THEN 0 ELSE timeout)
  BY DEF Tick
<1>2. Older(n) \in Nat BY <1>0 DEF Older
<1>3. since_step' \in 0 .. StepPeriod - 1 /\ since_timeout' \in 0 .. TimeoutPeriod - 1
  BY <1>0, <1>1
<1>4. ASSUME ~Expired(n), drive_mode \in Direct
      PROVE age' <= Deadman + since_timeout'
  <2>1. age' = age + n BY <1>1, <1>4 DEF Older
  <2>2. CASE timeout >= TimeoutPeriod
    BY <1>0, <1>1, <1>4, <2>1, <2>2 DEF Expired, Older
  <2>3. CASE ~(timeout >= TimeoutPeriod)
    <3>1. age <= Deadman + since_timeout BY <1>4 DEF IInv, DeadmanBound
    <3> QED BY <1>0, <1>1, <2>1, <2>3, <3>1
  <2> QED BY <2>2, <2>3
<1> QED BY <1>1, <1>2, <1>3, <1>4

\* What the write section may leave on the motors
LEMMA WritesFollowMode ==
  ASSUME IInv, NEW write \in WheelWrites
  PROVE /\ drive_mode = "IDLE" => write \in {"brake", "coast"}
        /\ drive_mode = "RAW" => write \in {"duty", "none"}
                                /\ (write = "none" => motors = "duty")
        /\ drive_mode \in {"VELOCITY", "WAYPOINT"} => write \in {"drive", "brake", "coast"}
BY DEF WheelWrites, IInv, OneWriter, RawWrite

\* The deadman is heard: nobody drives
LEMMA DeadmanKeeps ==
  ASSUME IInv, NEW n \in Elapsed, Tick(n), Expired(n)
  PROVE /\ IInv'
        /\ drive_mode' = "IDLE" /\ motors' = "brake"
        /\ steering'.completion = steering.completion
<1>1. drive_mode \in Direct BY DEF Expired
<1>2. drive_mode # "WAYPOINT" /\ ~Active(steering)
  BY <1>1 DEF Direct, IInv, OneWriter
<1>3. PICK f \in Fixed(n) :
        \E r \in Stepped(f, n) : \E q \in Polled(r.s, f.p) :
          pose' = f.p /\ DeadmanStops(q.s)
  BY DEF Tick
<1>3a. PICK stepped \in Stepped(f, n) :
        \E q \in Polled(stepped.s, f.p) :
          pose' = f.p /\ DeadmanStops(q.s)
  BY <1>3
<1>4. PICK polled \in Polled(stepped.s, f.p) : pose' = f.p /\ DeadmanStops(polled.s)
  BY <1>3a
<1>5. f.p \in Pose /\ Good(f.s) /\ f.s.state = steering.state
      /\ f.s.completion = steering.completion
  BY <1>3, FixedGood
<1>6. stepped = Result(f.s, "none") BY <1>2, <1>3 DEF Stepped
<1>7. polled = Result(f.s, "none") BY <1>2, <1>4, <1>6 DEF Polled, Result
<1>8. ~Active(f.s) BY <1>2, <1>5 DEF Active
<1>9. /\ Good(Stop(f.s)) /\ Stop(f.s).state = "IDLE"
      /\ Stop(f.s).completion = steering.completion
  BY <1>5, <1>8, StopGood
<1>10. /\ steering' = Stop(f.s) /\ steering_brake' = FALSE /\ drive_mode' = "IDLE"
       /\ wheels' = "zero" /\ motors' = "brake" /\ pose' = f.p
  BY <1>4, <1>7 DEF DeadmanStops, Result
<1>11. pending' = "none" /\ UNCHANGED <<batch_id, abort_reason>> BY DEF Tick
<1>12. Good(steering)' /\ ~Active(steering)' BY <1>9, <1>10 DEF Active
<1>13. TypeOK'
  <2>1. steering' \in SteeringState BY <1>12, GoodType
  <2> QED BY <1>5, <1>10, <1>11, <2>1, TickClocks DEF IInv, TypeOK, Mode, Motors
<1> QED
  BY <1>9, <1>10, <1>11, <1>12, <1>13 DEF IInv, OneWriter, BrakeHeld, DeadmanBound,
     RawWrite, Direct

\* The tick of a robot nothing stops
LEMMA DrivesKeeps ==
  ASSUME IInv, NEW n \in Elapsed, Tick(n), ~Expired(n)
  PROVE /\ IInv'
        /\ drive_mode' = drive_mode
        /\ \E write \in WheelWrites :
             motors' = IF write = "none" THEN motors ELSE write
        /\ \/ steering'.completion = steering.completion
           \/ /\ drive_mode = "WAYPOINT"
              /\ steering.completion = "IN_PROGRESS"
              /\ steering'.completion \in {"ARRIVED", "FAILED"}
<1>1. PICK f \in Fixed(n) :
        \E r \in Stepped(f, n) : \E q \in Polled(r.s, f.p) :
          pose' = f.p /\ Drives(r, q)
  BY DEF Tick
<1>1a. PICK stepped \in Stepped(f, n) :
        \E q \in Polled(stepped.s, f.p) :
          pose' = f.p /\ Drives(stepped, q)
  BY <1>1
<1>2. PICK polled \in Polled(stepped.s, f.p) : pose' = f.p /\ Drives(stepped, polled)
  BY <1>1a
<1> DEFINE braked == AppliedBrake(stepped.out, steering_brake)
<1>3. /\ steering' = polled.s
      /\ steering_brake' = AppliedBrake(polled.out, braked)
      /\ wheels' \in IF polled.out = "brake" /\ ~braked THEN {"zero"}
                     ELSE AppliedWheels(stepped.out, steering_brake)
      /\ drive_mode' = drive_mode
      /\ \E write \in WheelWrites :
           motors' = IF write = "none" THEN motors ELSE write
      /\ pending' = "none" /\ UNCHANGED <<batch_id, abort_reason>>
  BY <1>2 DEF Drives, Tick
<1>4. /\ f.p \in Pose /\ Good(f.s) /\ f.s.state = steering.state
      /\ f.s.completion = steering.completion
  BY <1>1, FixedGood
<1>5. /\ stepped \in Results /\ Good(stepped.s)
      /\ \/ stepped = Result(f.s, "none")
         \/ /\ drive_mode = "WAYPOINT"
            /\ stepped.out # "none"
            /\ stepped.s.state \in AtRest <=> stepped.out = "brake"
            /\ \/ stepped.s.completion = steering.completion
               \/ /\ steering.completion = "IN_PROGRESS"
                  /\ stepped.s.completion \in {"ARRIVED", "FAILED"}
  BY <1>1, SteppedGood
<1>6. /\ polled \in Results /\ Good(polled.s)
      /\ polled.s.completion = stepped.s.completion
      /\ \/ polled = Result(stepped.s, "none")
         \/ /\ drive_mode = "WAYPOINT"
            /\ polled.out = "brake"
            /\ polled.s.state \in {"SETTLE", "FINAL_TURN"}
  BY <1>2, <1>4, <1>5, PolledGood
<1>7. steering \in SteeringState /\ steering' \in SteeringState
  BY <1>3, <1>6, GoodType DEF IInv
<1>8. \/ steering'.completion = steering.completion
      \/ /\ drive_mode = "WAYPOINT"
         /\ steering.completion = "IN_PROGRESS"
         /\ steering'.completion \in {"ARRIVED", "FAILED"}
  BY <1>3, <1>4, <1>5, <1>6 DEF Result
<1>9. drive_mode # "WAYPOINT" =>
        /\ steering'.state = steering.state
        /\ stepped.out = "none" /\ polled.out = "none"
  BY <1>3, <1>4, <1>5, <1>6 DEF Result
<1>10. braked \in BOOLEAN /\ steering_brake' \in BOOLEAN
  BY <1>3 DEF AppliedBrake, IInv, TypeOK
<1>11. stepped.out \in Command /\ polled.out \in {"none", "brake"}
  BY <1>5, <1>6 DEF Results, Result
<1>12. wheels' \in {"zero", "set"} /\ (steering_brake' => wheels' = "zero")
  <2>1. wheels \in {"zero", "set"} /\ (steering_brake => wheels = "zero")
    BY DEF IInv, TypeOK, OneWriter
  <2>2. CASE polled.out = "brake" /\ ~braked
    BY <1>3, <2>2
  <2>3. CASE ~(polled.out = "brake" /\ ~braked)
    <3>1. wheels' \in AppliedWheels(stepped.out, steering_brake) BY <1>3, <2>3
    <3>2. steering_brake' = braked BY <1>3, <1>10, <1>11, <2>3 DEF AppliedBrake
    <3>3. CASE stepped.out = "none"
      BY <2>1, <3>1, <3>2, <3>3 DEF AppliedWheels, AppliedBrake
    <3>4. CASE stepped.out = "brake"
      BY <2>1, <3>1, <3>2, <3>4 DEF AppliedWheels, AppliedBrake
    <3>5. CASE stepped.out \notin {"none", "brake"}
      <4>1. AppliedWheels(stepped.out, steering_brake) \subseteq {"zero", "set"}
        BY <3>5 DEF AppliedWheels
      <4> QED BY <3>1, <3>2, <3>5, <4>1 DEF AppliedBrake
    <3> QED BY <3>3, <3>4, <3>5
  <2> QED BY <2>2, <2>3
<1>13. OneWriter'
  <2>1. drive_mode # "WAYPOINT" => ~Active(steering)' /\ ~steering_brake'
    BY <1>3, <1>9 DEF IInv, OneWriter, Active, AppliedBrake
  <2>2. drive_mode \notin {"VELOCITY", "WAYPOINT"} => wheels' = "zero"
    <3>1. ASSUME drive_mode \notin {"VELOCITY", "WAYPOINT"} PROVE wheels' = "zero"
      <4>1. wheels' \in AppliedWheels("none", steering_brake) BY <1>3, <1>9, <3>1
      <4>2. wheels = "zero" BY <3>1 DEF IInv, TypeOK, OneWriter
      <4> QED BY <4>1, <4>2 DEF AppliedWheels
    <3> QED BY <3>1
  <2> QED BY <1>3, <1>12, <2>1, <2>2 DEF OneWriter
<1>14. BrakeHeld'
  <2>1. SUFFICES ASSUME drive_mode = "WAYPOINT"
                 PROVE /\ steering'.state \in AtRest => steering_brake'
                       /\ steering_brake' => steering'.state \in AtRest \cup {"FINAL_TURN"}
    BY <1>3 DEF BrakeHeld
  <2>2. CASE polled.out = "brake"
    <3>1. steering' = polled.s /\ polled.s.state \in {"SETTLE", "FINAL_TURN"}
      BY <1>3, <1>6, <2>2 DEF Result
    <3>2. steering_brake' = TRUE BY <1>3, <2>2 DEF AppliedBrake
    <3>3. steering'.state \in {"SETTLE", "FINAL_TURN"} BY <3>1
    <3> QED BY <3>2, <3>3 DEF AtRest
  <2>3. CASE polled.out # "brake"
    <3>1. steering' = stepped.s /\ steering_brake' = braked
      BY <1>3, <1>6, <2>3 DEF Result, AppliedBrake
    <3>2. CASE stepped = Result(f.s, "none")
      BY <1>4, <2>1, <3>1, <3>2 DEF IInv, BrakeHeld, Result, AppliedBrake
    <3>3. CASE stepped.out # "none"
      <4>1. stepped.s.state \in AtRest <=> stepped.out = "brake"
        BY <1>5, <3>3 DEF Result
      <4>2. steering_brake' = (stepped.out = "brake")
        BY <3>1, <3>3 DEF AppliedBrake
      <4> QED BY <3>1, <4>1, <4>2
    <3> QED BY <1>5, <3>2, <3>3
  <2> QED BY <2>2, <2>3
<1>15. \E write \in WheelWrites : motors' = IF write = "none" THEN motors ELSE write
  BY <1>3
<1>16. motors' \in Motors /\ RawWrite'
  <2>1. PICK write \in WheelWrites : motors' = IF write = "none" THEN motors ELSE write
    BY <1>15
  <2>2. motors \in Motors /\ drive_mode \in Mode BY DEF IInv, TypeOK
  <2>3. drive_mode \in {"IDLE", "RAW", "VELOCITY", "WAYPOINT"} BY <2>2 DEF Mode
  <2> QED BY <1>3, <2>1, <2>2, <2>3, WritesFollowMode DEF RawWrite, Motors
<1>17. TypeOK'
  BY <1>2, <1>3, <1>4, <1>7, <1>10, <1>12, <1>16, TickClocks DEF IInv, TypeOK
<1>18. DeadmanBound' BY <1>3, TickClocks DEF DeadmanBound
<1>19. Good(steering)' BY <1>3, <1>6
<1> QED BY <1>3, <1>8, <1>13, <1>14, <1>15, <1>16, <1>17, <1>18, <1>19 DEF IInv

LEMMA RxKeeps == ASSUME IInv, Rx PROVE IInv'
<1>1. CASE RxMoveRaw BY <1>1, RxMoveRawKeeps
<1>2. CASE RxWheelVelocity BY <1>2, RxWheelVelocityKeeps
<1>3. CASE RxDropped BY <1>3, RxDroppedKeeps
<1>4. CASE RxWaypoints
  <2>1. PICK id \in BatchIds \cup {NoId} :
          RxEmptyBatch(id) \/ \E path \in Batches : RxBatch(id, path)
    BY <1>4 DEF RxWaypoints
  <2>2. CASE RxEmptyBatch(id)
    BY <2>1, <2>2, DriveStopKeeps DEF RxEmptyBatch, AbortReason
  <2>3. CASE \E path \in Batches : RxBatch(id, path)
    BY <2>1, <2>3, RxBatchKeeps
  <2> QED BY <2>1, <2>2, <2>3
<1>5. CASE RxControlMode
  <2>1. batch_id' \in BatchIds \cup {NoId} BY <1>5 DEF RxControlMode, IInv, TypeOK
  <2> QED BY <1>5, <2>1, DriveStopKeeps DEF RxControlMode, AbortReason
<1> QED BY <1>1, <1>2, <1>3, <1>4, <1>5 DEF Rx

LEMMA NextKeeps == ASSUME IInv, [Next]_vars PROVE IInv'
<1>1. CASE Rx BY <1>1, RxKeeps
<1>2. CASE Seed BY <1>2, SeedKeeps
<1>3. CASE Ticks
  <2>1. PICK n \in Elapsed : Tick(n) BY <1>3 DEF Ticks
  <2> QED BY <2>1, DeadmanKeeps, DrivesKeeps
<1>4. CASE UNCHANGED vars
  <2>1. TypeOK' BY <1>4 DEF IInv, TypeOK, vars
  <2>2. OneWriter' /\ BrakeHeld' /\ DeadmanBound' /\ RawWrite'
    BY <1>4 DEF IInv, OneWriter, BrakeHeld, DeadmanBound, RawWrite, vars
  <2> QED BY <1>4, <2>1, <2>2 DEF IInv, vars
<1> QED BY <1>1, <1>2, <1>3, <1>4 DEF Next

\* The invariant holds in every reachable state
THEOREM ControlInvariant == Spec => []IInv
<1>1. Init => IInv BY InitIInv
<1>2. IInv /\ [Next]_vars => IInv' BY NextKeeps
<1> QED BY <1>1, <1>2, PTL DEF Spec

\* Every variable stays in its type, the steering record among them
THEOREM ControlTypeCorrect == Spec => []TypeOK
<1>1. IInv => TypeOK BY DEF IInv
<1> QED BY <1>1, ControlInvariant, PTL

\* A batch, a brake and a setpoint only in the mode of the writer they belong to
THEOREM OneWriterCorrect == Spec => []OneWriter
<1>1. IInv => OneWriter BY DEF IInv
<1> QED BY <1>1, ControlInvariant, PTL

\* In WAYPOINT the brake is latched as long as the steering rests
THEOREM BrakeHeldCorrect == Spec => []BrakeHeld
<1>1. IInv => BrakeHeld BY DEF IInv
<1> QED BY <1>1, ControlInvariant, PTL

\* Direct driving outlives the last command by the deadman and one check at most
THEOREM DeadmanCorrect == Spec => []DeadmanBound
<1>1. IInv => DeadmanBound BY DEF IInv
<1> QED BY <1>1, ControlInvariant, PTL

----------------------------------------------------------------------------
\* The motors

LEMMA TickMotors ==
  ASSUME IInv, Ticks
  PROVE /\ drive_mode' = "IDLE" => motors' \in {"brake", "coast"}
        /\ drive_mode' = "RAW" => motors' \in {"duty"}
        /\ drive_mode' \notin {"IDLE", "RAW"} => motors' \in {"drive", "brake", "coast"}
<1>1. PICK n \in Elapsed : Tick(n) BY DEF Ticks
<1>2. CASE Expired(n) BY <1>1, <1>2, DeadmanKeeps
<1>3. CASE ~Expired(n)
  <2>1. drive_mode' = drive_mode BY <1>1, <1>3, DrivesKeeps
  <2>2. PICK write \in WheelWrites : motors' = IF write = "none" THEN motors ELSE write
    BY <1>1, <1>3, DrivesKeeps
  <2>3. drive_mode \in {"IDLE", "RAW", "VELOCITY", "WAYPOINT"}
    BY DEF IInv, TypeOK, Mode
  <2> QED BY <2>1, <2>2, <2>3, WritesFollowMode
<1> QED BY <1>2, <1>3

\* A change of mode takes effect on the motors by the next tick
THEOREM MotorsCorrect == Spec => MotorsFollowMode
<1> DEFINE Follow ==
      Ticks => motors' \in CASE drive_mode' = "IDLE" -> {"brake", "coast"}
                             [] drive_mode' = "RAW"  -> {"duty"}
                             [] OTHER                -> {"drive", "brake", "coast"}
<1>1. ASSUME IInv, Next PROVE Follow
  <2>1. SUFFICES ASSUME Ticks PROVE Follow OBVIOUS
  <2>2. /\ drive_mode' = "IDLE" => motors' \in {"brake", "coast"}
        /\ drive_mode' = "RAW" => motors' \in {"duty"}
        /\ drive_mode' \notin {"IDLE", "RAW"} => motors' \in {"drive", "brake", "coast"}
    BY <1>1, <2>1, TickMotors
  <2>3. CASE drive_mode' = "IDLE" BY <2>2, <2>3
  <2>4. CASE drive_mode' = "RAW" BY <2>2, <2>4
  <2>5. CASE drive_mode' \notin {"IDLE", "RAW"} BY <2>2, <2>5
  <2> QED BY <2>3, <2>4, <2>5
<1>2. IInv /\ [Next]_vars => [Follow]_vars BY <1>1
<1> HIDE DEF Follow
<1>3. Spec => [][Follow]_vars BY <1>2, ControlInvariant, PTL DEF Spec
<1> QED BY <1>3 DEF MotorsFollowMode, Follow

----------------------------------------------------------------------------
\* What the host is told

LEMMA InitImplements == Init => Abs!Init
BY DEF Init, Abs!Init, SteeringInit

LEMMA AbortImplements ==
  ASSUME IInv, NEW mode, EnterDriveMode(mode), NEW reason, NoteAbort(reason)
  PROVE drive_mode' = mode /\ Abs!Abort(reason)
<1>1. /\ drive_mode' = mode
      /\ steering'.completion = IF steering.completion = "IN_PROGRESS"
                                THEN "ABORTED" ELSE steering.completion
  BY EnterModeGood
<1>2. Active(steering) <=> steering.completion = "IN_PROGRESS"
  BY GoodType DEF IInv, Agrees
<1> QED BY <1>1, <1>2 DEF NoteAbort, Abs!Abort

LEMMA TickImplements ==
  ASSUME IInv, NEW n \in Elapsed, Tick(n)
  PROVE [Abs!Next]_(Abs!vars)
<1>0. UNCHANGED <<batch_id, abort_reason>> BY DEF Tick
<1>1. CASE Expired(n)
  <2>1. /\ drive_mode \in Direct /\ drive_mode' = "IDLE"
        /\ steering'.completion = steering.completion
    BY <1>1, DeadmanKeeps DEF Expired
  <2> QED BY <1>0, <2>1 DEF Abs!Next, Abs!Silence, Abs!Direct, Direct
<1>2. CASE ~Expired(n)
  <2>1. drive_mode' = drive_mode BY <1>2, DrivesKeeps
  <2>2. CASE steering'.completion = steering.completion
    BY <1>0, <2>1, <2>2 DEF Abs!vars
  <2>3. CASE /\ drive_mode = "WAYPOINT" /\ steering.completion = "IN_PROGRESS"
             /\ steering'.completion \in {"ARRIVED", "FAILED"}
    BY <1>0, <2>1, <2>3 DEF Abs!Next, Abs!Finish
  <2> QED BY <1>2, <2>2, <2>3, DrivesKeeps
<1> QED BY <1>1, <1>2

LEMMA RxImplements ==
  ASSUME IInv, Rx
  PROVE [Abs!Next]_(Abs!vars)
<1>1. CASE RxMoveRaw
  <2>1. drive_mode' = "RAW" /\ Abs!Abort("DIRECT")
    BY <1>1, AbortImplements DEF RxMoveRaw
  <2>2. Abs!TakeOver("RAW") BY <1>1, <2>1 DEF Abs!TakeOver, RxMoveRaw
  <2> QED BY <2>2 DEF Abs!Next, Abs!Direct
<1>2. CASE RxWheelVelocity
  <2>1. CASE drive_mode = "VELOCITY"
    BY <1>2, <2>1 DEF RxWheelVelocity, Abs!vars
  <2>2. CASE drive_mode # "VELOCITY"
    <3>1. EnterDriveMode("VELOCITY") /\ NoteAbort("DIRECT")
      BY <1>2, <2>2 DEF RxWheelVelocity
    <3>2. drive_mode' = "VELOCITY" /\ Abs!Abort("DIRECT") BY <3>1, AbortImplements
    <3>3. Abs!TakeOver("VELOCITY") BY <1>2, <3>2 DEF Abs!TakeOver, RxWheelVelocity
    <3> QED BY <3>3 DEF Abs!Next, Abs!Direct
  <2> QED BY <2>1, <2>2
<1>3. CASE RxDropped
  BY <1>3 DEF RxDropped, Abs!vars
<1>4. CASE RxWaypoints
  <2>1. PICK id \in BatchIds \cup {NoId} :
          RxEmptyBatch(id) \/ \E path \in Batches : RxBatch(id, path)
    BY <1>4 DEF RxWaypoints
  <2>2. CASE RxEmptyBatch(id)
    <3>1. drive_mode' = "IDLE" /\ Abs!Abort("STOP")
      BY <2>2, AbortImplements DEF RxEmptyBatch, DriveStop
    <3>2. Abs!Stop(id)
      BY <2>2, <3>1 DEF RxEmptyBatch, IsNew, Abs!Stop, Abs!New
    <3> QED BY <2>1, <3>2 DEF Abs!Next
  <2>3. CASE \E path \in Batches : RxBatch(id, path)
    <3>1. PICK path \in Batches : RxBatch(id, path) BY <2>3
    <3>2. /\ path.count > 0 /\ steering' = SetPath(steering, path)
          /\ drive_mode' = "WAYPOINT" /\ batch_id' = id /\ IsNew(id)
          /\ abort_reason' = abort_reason
      BY <3>1 DEF RxBatch
    <3>3. steering'.completion = "IN_PROGRESS" BY <3>2, PathGood DEF IInv
    <3>4. Abs!Accept(id) BY <3>2, <3>3 DEF IsNew, Abs!Accept, Abs!New
    <3> QED BY <2>1, <3>4 DEF Abs!Next
  <2> QED BY <2>1, <2>2, <2>3
<1>5. CASE RxControlMode
  <2>1. drive_mode' = "IDLE" /\ Abs!Abort("CONTROL_MODE")
    BY <1>5, AbortImplements DEF RxControlMode, DriveStop
  <2>2. Abs!Release BY <1>5, <2>1 DEF Abs!Release, RxControlMode
  <2> QED BY <2>2 DEF Abs!Next
<1> QED BY <1>1, <1>2, <1>3, <1>4, <1>5 DEF Rx

\* Every step of the robot is a step of what it reports to the host, or none
THEOREM LifecycleImplemented == Spec => ImplementsBatchLifecycle
<1>1. Init => Abs!Init BY InitImplements
<1>2. IInv /\ [Next]_vars => [Abs!Next]_(Abs!vars)
  <2>1. SUFFICES ASSUME IInv, [Next]_vars PROVE [Abs!Next]_(Abs!vars) OBVIOUS
  <2>2. CASE Rx BY <2>1, <2>2, RxImplements
  <2>3. CASE Seed BY <2>3 DEF Seed, Abs!vars
  <2>4. CASE Ticks
    <3>1. PICK n \in Elapsed : Tick(n) BY <2>4 DEF Ticks
    <3> QED BY <2>1, <3>1, TickImplements
  <2>5. CASE UNCHANGED vars BY <2>5 DEF vars, Abs!vars
  <2> QED BY <2>1, <2>2, <2>3, <2>4, <2>5 DEF Next
<1> QED
  BY <1>1, <1>2, ControlInvariant, PTL DEF Spec, ImplementsBatchLifecycle, Abs!Spec

----------------------------------------------------------------------------
\* Why the robot comes to rest.  ComesToRest needs fairness and stays with TLC;
\* what it rests on is that no tick hands the batch back.

\* While the pose stays as it is, a tick brings the end of the batch closer, or
\* the next step of the steering: the fixes that come in and the polls between
\* the steps never raise the rank a step has lowered.
TickFalls ==
  [][Ticks /\ pose' = pose /\ Active(steering) /\ Active(steering')
     => \/ Lower(Rank(steering', pose), Rank(steering, pose))
        \/ /\ Rank(steering', pose) = Rank(steering, pose)
           /\ since_step' > since_step]_vars

\* The parts of such a tick
LEMMA TickLowers ==
  ASSUME IInv, NEW n \in Elapsed, Tick(n), pose' = pose,
         Active(steering), Active(steering')
  PROVE \/ Lower(Rank(steering', pose), Rank(steering, pose))
        \/ /\ Rank(steering', pose) = Rank(steering, pose)
           /\ since_step' > since_step
<1>1. drive_mode = "WAYPOINT" /\ ~Expired(n) /\ pose \in Pose /\ Good(steering)
  BY DEF IInv, OneWriter, Expired, Direct, TypeOK
<1>2. PICK f \in Fixed(n) :
        \E r \in Stepped(f, n) : \E q \in Polled(r.s, f.p) :
          f.p = pose /\ Drives(r, q)
  BY <1>1 DEF Tick
<1>3. PICK stepped \in Stepped(f, n) :
        \E q \in Polled(stepped.s, f.p) : f.p = pose /\ Drives(stepped, q)
  BY <1>2
<1>4. PICK polled \in Polled(stepped.s, f.p) : f.p = pose /\ Drives(stepped, polled)
  BY <1>3
<1>5. steering' = polled.s /\ Active(polled.s) BY <1>4 DEF Drives
<1> DEFINE rank(s) == Rank(s, pose)
\* The fix
<1>6. Good(f.s) /\ Active(f.s) BY <1>2, FixedGood DEF Active
<1>7. rank(f.s) = rank(steering)
  <2>1. steering \in SteeringState BY <1>1, GoodType
  <2>2. f.s = steering \/ f.s = Fix(steering) BY <1>2 DEF Fixed, When
  <2>3. Rank(Fix(steering), pose) = Rank(steering, pose) BY <2>1, FixFalls
  <2> QED BY <2>2, <2>3
\* The poll
<1>8. Good(stepped.s) BY <1>2, <1>3, SteppedGood
<1>9. polled \in Poll(stepped.s, pose) BY <1>1, <1>4 DEF Polled
<1>10. Active(stepped.s)
  <2>1. polled = Result(stepped.s, "none") \/ Active(stepped.s)
    BY <1>1, <1>8, <1>9, PollGood
  <2> QED BY <1>5, <2>1 DEF Result
<1>11. rank(polled.s) = rank(stepped.s) \/ Lower(rank(polled.s), rank(stepped.s))
  BY <1>1, <1>8, <1>9, PollFalls
\* The step between them
<1>12. rank(steering) \in Ranks /\ rank(stepped.s) \in Ranks /\ rank(polled.s) \in Ranks
  <2>1. Good(polled.s) BY <1>1, <1>8, <1>9, PollGood
  <2> QED BY <1>1, <1>8, <2>1, GoodType, RankIn
<1>13. CASE since_step + n >= StepPeriod
  <2>1. stepped \in Step(f.s, pose, since_step + n)
    BY <1>1, <1>3, <1>4, <1>13 DEF Stepped
  <2>2. since_step + n \in Nat \ {0}
    BY ControlAssumption DEF IInv, TypeOK
  <2>3. Lower(rank(stepped.s), rank(f.s)) BY <1>1, <1>6, <1>10, <2>1, <2>2, StepFalls
  <2> HIDE DEF rank
  <2>4. Lower(rank(polled.s), rank(steering))
    BY <1>7, <1>11, <1>12, <2>3, LowerTransitive
  <2> QED BY <1>5, <2>4 DEF rank
<1>14. CASE ~(since_step + n >= StepPeriod)
  <2>1. stepped.s = f.s BY <1>3, <1>14 DEF Stepped, Result
  <2>2. since_step' = since_step + n BY <1>14 DEF Tick
  <2>3. since_step' > since_step BY <2>2, ControlAssumption DEF IInv, TypeOK
  <2> QED BY <1>5, <1>7, <1>11, <2>1, <2>3
<1> QED BY <1>13, <1>14

\* Every tick of a batch on an unchanged pose brings its end or its next step closer
THEOREM TickFallsCorrect == Spec => TickFalls
<1> DEFINE Falls ==
      Ticks /\ pose' = pose /\ Active(steering) /\ Active(steering')
      => \/ Lower(Rank(steering', pose), Rank(steering, pose))
         \/ /\ Rank(steering', pose) = Rank(steering, pose)
            /\ since_step' > since_step
<1>1. ASSUME IInv, Next PROVE Falls
  <2> SUFFICES ASSUME Ticks, pose' = pose, Active(steering), Active(steering')
               PROVE \/ Lower(Rank(steering', pose), Rank(steering, pose))
                     \/ /\ Rank(steering', pose) = Rank(steering, pose)
                        /\ since_step' > since_step
    OBVIOUS
  <2>1. PICK n \in Elapsed : Tick(n) BY DEF Ticks
  <2> QED BY <1>1, <2>1, TickLowers
<1>2. IInv /\ [Next]_vars => [Falls]_vars BY <1>1
<1> HIDE DEF Falls
<1>3. Spec => [][Falls]_vars BY <1>2, ControlInvariant, PTL DEF Spec
<1> QED BY <1>3 DEF TickFalls, Falls
=============================================================================
