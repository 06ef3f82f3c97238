---------------------------- MODULE SteeringOps ----------------------------
(***************************************************************************)
(* The steering state machine of drv/steering/steering.c as operators on   *)
(* one db_steering_t, so that Steering can run it alone and DotbotControl  *)
(* can call it several times inside one scheduler tick, as the app does.   *)
(*                                                                         *)
(* Every function of the source that branches on the geometry (positions,  *)
(* headings, distances) returns here the set of its possible results, one  *)
(* for each outcome of the comparisons it makes.  A result is the new      *)
(* record s and the wheel command out.  Kept exactly: the states, their    *)
(* timers, counters and flags, the order of the tests and of the resets.   *)
(*                                                                         *)
(* Abstracted: v is the sign of v_mm_s (0 for at most 1 mm/s); turning     *)
(* says the last command was a turn in place (omega_deg_s # 0 where it is  *)
(* read); best is best_mm in units of conf.progress_mm, Infinity when it   *)
(* is INFINITY; a path is its count, the set of its points with a heading  *)
(* and whether its threshold asks for the precise arrival.  Left out: the  *)
(* D term (has_error, error_deg) and the values only geometry reads.       *)
(***************************************************************************)
EXTENDS Integers

CONSTANTS
  conf,       \* db_steering_conf_t: the limits, in steps or in fixes
  MaxPoints,  \* DB_STEERING_MAX_POINTS
  MaxLevel    \* the farthest a point lies, in units of conf.progress_mm

ASSUME ConfAssumption ==
  conf \in [turn_ticks            : Nat,
            no_heading_turn_ticks : Nat,
            no_heading_ticks      : Nat,
            no_heading_rest_ticks : Nat,
            no_heading_retries    : Nat,
            hold_ticks            : Nat,
            progress_ticks        : Nat,
            recover_drive         : BOOLEAN,      \* conf->recover is DRIVE
            recover_ticks         : Nat \ {0},    \* steps recover_mm takes
            settle_skip_ticks     : Nat,
            settle_ticks          : Nat,
            settle_fixes          : Nat \ {0},
            settle_nudges         : Nat,
            nudge_ticks           : Nat]

ASSUME BoundsAssumption == MaxPoints \in Nat \ {0} /\ MaxLevel \in Nat

----------------------------------------------------------------------------
\* Types

State == {"IDLE", "NO_HEADING", "ALIGN", "DRIVE", "FINAL_TURN", "ARRIVED",
          "HOLD", "FAILED", "RECOVER", "SETTLE", "NUDGE"}

Completion == {"NONE", "IN_PROGRESS", "ARRIVED", "FAILED", "ABORTED"}

FailReason == {"NONE", "NO_HEADING", "TURN", "PROGRESS", "HEADING_LOST",
               "HOLD", "SETTLE"}

\* db_steering_pose_status_t; FREE_SPIN is LOST with the free_spin flag
Pose == {"SEEDING", "TRACKING", "LOST", "FREE_SPIN"}

\* What the wheels are asked to do; "none" when poll returns false
Command == {"none", "brake", "coast", "spin", "straight", "turn", "drive",
            "nudge"}

Infinity == MaxLevel + 1

Path == [count : 0 .. MaxPoints, poses : SUBSET (0 .. MaxPoints - 1),
         precise : BOOLEAN]

NoPath == [count |-> 0, poses |-> {}, precise |-> FALSE]

SteeringState ==
  [state          : State,
   state_ticks    : Nat,
   fail           : FailReason,
   completion     : Completion,
   path           : Path,
   index          : 0 .. MaxPoints,
   best           : 0 .. Infinity,
   progress_ticks : Nat,
   retries        : Nat,
   nudges         : Nat,
   settle_count   : Nat,
   spinning       : BOOLEAN,
   resting        : BOOLEAN,
   has_last       : BOOLEAN,
   v              : {-1, 0, 1},
   turning        : BOOLEAN]

Result(s, out) == [s |-> s, out |-> out]

Results == [s : SteeringState, out : Command]

\* db_steering_init
SteeringInit ==
  [state |-> "IDLE", state_ticks |-> 0, fail |-> "NONE", completion |-> "NONE",
   path |-> NoPath, index |-> 0, best |-> Infinity, progress_ticks |-> 0,
   retries |-> 0, nudges |-> 0, settle_count |-> 0, spinning |-> FALSE,
   resting |-> FALSE, has_last |-> FALSE, v |-> 0, turning |-> FALSE]

----------------------------------------------------------------------------
\* Helpers

\* The states a tracked pose is driven in
Moving == {"ALIGN", "DRIVE", "FINAL_TURN", "SETTLE", "NUDGE"}

\* The states whose state_ticks some test reads; it is left at 0 elsewhere
Timed == {"NO_HEADING", "ALIGN", "FINAL_TURN", "HOLD", "RECOVER", "SETTLE",
          "NUDGE"}

Active(s) == s.state \notin {"IDLE", "ARRIVED", "FAILED"}

IsLost(pose) == pose \in {"LOST", "FREE_SPIN"}

When(guard, S) == IF guard THEN S ELSE {}

\* Fault: the timer is not restarted
Enter_KeepsTimer(s, state) ==
  [s EXCEPT !.state = state, !.spinning = @ /\ state = s.state,
            !.resting = @ /\ state = s.state]

\* _enter: the timer restarts; the flags survive only a re-entered state
Enter(s, state) ==
  [s EXCEPT !.state = state,
            !.state_ticks = 0,
            !.spinning = @ /\ state = s.state,
            !.resting = @ /\ state = s.state]

\* Fault: the completion is not latched
Fail_Unlatched(s, reason) == [Enter(s, "FAILED") EXCEPT !.fail = reason]

\* _fail
Fail(s, reason) ==
  [Enter(s, "FAILED") EXCEPT !.fail = reason, !.completion = "FAILED"]

\* _reset_progress
ResetProgress(s) == [s EXCEPT !.best = Infinity, !.progress_ticks = 0]

\* _halt, with and without the brake
Halt(s) == [s EXCEPT !.v = 0, !.turning = FALSE]
Braked(s) == Result(Halt(s), "brake")
Coasted(s) == Result(Halt(s), "coast")

IsLast(s) == s.index + 1 >= s.path.count
IsPose(s) == s.index \in s.path.poses

\* _is_precise
IsPrecise(s) == IsLast(s) /\ ~IsPose(s) /\ s.path.precise

\* Fault: the retries are not counted
NoHeadingRetry_Uncounted(s, resting) ==
  Braked([Enter(s, "HOLD") EXCEPT !.resting = resting])

\* _no_heading_retry: rest in HOLD before the next spin, or fail
NoHeadingRetry(s, resting) ==
  Braked(IF s.retries >= conf.no_heading_retries
         THEN Fail(s, "NO_HEADING")
         ELSE [Enter(s, "HOLD") EXCEPT !.retries = @ + 1,
                                       !.resting = resting])

\* _heading_lost: the recovery straight needs a robot that moves, a pose it
\* last tracked and, a choice of the geometry, room inside the bounds
HeadingLost(s) ==
  {Coasted(Enter(s, "NO_HEADING"))}
  \cup When(conf.recover_drive /\ s.v # 0 /\ s.has_last,
            {Result([Enter(s, "RECOVER") EXCEPT !.turning = FALSE], "straight")})

\* Fault: the wheels are left to coast
Arrive_Coasts(s) ==
  Coasted([Enter(s, "ARRIVED") EXCEPT !.index = s.path.count,
                                      !.completion = "ARRIVED"])

\* Fault: the index is left past the points
Arrive_OffByOne(s) ==
  Braked([Enter(s, "ARRIVED") EXCEPT !.index = s.path.count + 1,
                                     !.completion = "ARRIVED"])

\* _arrive
Arrive(s) ==
  Braked([Enter(s, "ARRIVED") EXCEPT !.index = s.path.count,
                                     !.completion = "ARRIVED"])

\* Fault: the fixes of the last settling are kept
Settle_KeepsCount(s) == Braked(Enter(s, "SETTLE"))

\* _settle
Settle(s) == Braked([Enter(s, "SETTLE") EXCEPT !.settle_count = 0])

\* Fault: the nudges are not counted
SettleCheck_Uncounted(s) ==
  {Arrive(s)}
  \cup {Result([Enter(s, "NUDGE") EXCEPT !.v = v], "nudge") : v \in {-1, 0, 1}}

\* _settle_check: within the threshold, out of nudges, or a nudge, which turns
\* in place (v = 0) or creeps either way
SettleCheck(s) ==
  {Arrive(s)}
  \cup IF s.nudges >= conf.settle_nudges
       THEN {Braked(Fail(s, "SETTLE"))}
       ELSE {Result([Enter(s, "NUDGE") EXCEPT !.nudges = @ + 1, !.v = v],
                    "nudge") : v \in {-1, 0, 1}}

----------------------------------------------------------------------------
\* _move

\* Fault: after a pose the next point is taken on in FINAL_TURN
AdvanceTo_KeepsTurning(s, i) ==
  IF i = s.index THEN s ELSE ResetProgress([s EXCEPT !.index = i])

\* _advance, as often as one step calls it: on from the current point to point
\* i, over intermediate points it passes and poses whose turn is finished.
\* After a pose the state is ALIGN, else the state is kept.
AdvanceTo(s, i) ==
  IF i = s.index THEN s
  ELSE ResetProgress([(IF \E j \in s.index .. i - 1 : j \in s.path.poses
                       THEN Enter(s, "ALIGN") ELSE s) EXCEPT !.index = i])

\* FINAL_TURN: finished at the last point, too long, or turning on
FinalTurn(s) ==
  When(IsLast(s), {Arrive(s)})
  \cup IF s.state_ticks > conf.turn_ticks
       THEN {Braked(Fail(s, "TURN"))}
       ELSE {Result([s EXCEPT !.v = 0, !.turning = TRUE], "turn")}

\* Fault: a precise point is arrived at like any other
Reached_Imprecise(s) ==
  IF IsPose(s) THEN FinalTurn(Enter(s, "FINAL_TURN"))
  ELSE When(IsLast(s), {Arrive(s)})

\* The stop point is within the threshold: settle, turn to the pose, or arrive
Reached(s) ==
  IF IsPrecise(s) THEN When(s.state = "DRIVE", {Settle(s)})
  ELSE IF IsPose(s) THEN FinalTurn(Enter(s, "FINAL_TURN"))
  ELSE When(IsLast(s), {Arrive(s)})

\* The progress timer: the new distance is conf.progress_mm below best_mm, or
\* time goes on without it
Closer(s) == {[s EXCEPT !.best = l, !.progress_ticks = 0] : l \in 0 .. s.best - 1}
NotCloser(s, n) ==
  When(s.best < Infinity, {[s EXCEPT !.progress_ticks = @ + n]})

\* DRIVE and ALIGN by the heading error: past a limit the state changes, else
\* it is kept
Bearing(s) == {s, Enter(s, IF s.state = "DRIVE" THEN "ALIGN" ELSE "DRIVE")}

\* The command of ALIGN or DRIVE
Steer(s) ==
  IF s.state = "DRIVE"
  THEN {Result([s EXCEPT !.v = v, !.turning = FALSE], "drive") : v \in {-1, 0, 1}}
  ELSE IF s.state_ticks > conf.turn_ticks
  THEN {Braked(Fail(s, "TURN"))}
  ELSE {Result([s EXCEPT !.v = 0, !.turning = TRUE], "turn")}

\* ALIGN and DRIVE, short of the point
Approach(s, n) ==
  UNION {IF p.progress_ticks > conf.progress_ticks
         THEN {Braked(Fail(p, "PROGRESS"))}
         ELSE UNION {Steer(b) : b \in Bearing(p)} :
           p \in Closer(s) \cup NotCloser(s, n)}

MoveAt(s, n) ==
  IF s.state = "FINAL_TURN" THEN FinalTurn(s) ELSE Reached(s) \cup Approach(s, n)

Move(s, n) ==
  UNION {MoveAt(AdvanceTo([s EXCEPT !.has_last = TRUE], i), n) :
           i \in s.index .. s.path.count - 1}

----------------------------------------------------------------------------
\* The calls

\* Fault: a batch that already ended is reported aborted
Stop_Always(s) ==
  [Enter(s, "IDLE") EXCEPT !.completion = "ABORTED", !.v = 0, !.turning = FALSE]

\* db_steering_stop
Stop(s) ==
  [Enter(s, "IDLE") EXCEPT !.completion = IF Active(s) THEN "ABORTED" ELSE @,
                           !.v = 0, !.turning = FALSE]

\* Where db_steering_set_path starts from, by the state it finds
StartState(state) ==
  CASE state \in {"DRIVE", "NO_HEADING"}                    -> state
    [] state \in {"ALIGN", "FINAL_TURN", "SETTLE", "NUDGE"} -> "ALIGN"
    [] OTHER                                                -> "NO_HEADING"

\* Fault: the count is trusted
Clamped_Unclamped(path) == path

Clamped(path) ==
  [path EXCEPT !.count = IF @ > MaxPoints THEN MaxPoints ELSE @,
               !.poses = @ \cap 0 .. MaxPoints - 1]

\* db_steering_set_path
SetPath(s, path) ==
  IF path.count = 0 THEN Stop(s)
  ELSE Enter(ResetProgress([s EXCEPT !.path = Clamped(path), !.index = 0,
                                     !.nudges = 0, !.retries = 0,
                                     !.fail = "NONE",
                                     !.completion = "IN_PROGRESS"]),
             StartState(s.state))

\* db_steering_fix: only a fix at rest counts, once the brake has settled.  The
\* count is read against settle_fixes only, and saturates there.
Fix(s) ==
  IF s.state # "SETTLE" \/ s.state_ticks < conf.settle_skip_ticks THEN s
  ELSE [s EXCEPT !.settle_count = IF @ < conf.settle_fixes THEN @ + 1 ELSE @]

\* db_steering_poll: the stops that fall between steps
Poll(s, pose) ==
  {Result(s, "none")} \cup
  IF pose # "TRACKING" THEN {}
  ELSE CASE s.state = "DRIVE"      -> When(IsPrecise(s), {Settle(s)})
         [] s.state = "FINAL_TURN" -> When(s.turning, {Braked(s)})
         [] s.state = "NUDGE"      -> {Settle(s)}
         [] OTHER                  -> {}

\* Fault: the retries outlive the heading
StepHold_KeepsRetries(s, pose, n) ==
  CASE pose = "SEEDING"  -> IF s.resting /\ s.state_ticks < conf.no_heading_rest_ticks
                            THEN {Braked(s)}
                            ELSE {Coasted(Enter(s, "NO_HEADING"))}
    [] pose = "TRACKING" -> Move(ResetProgress(Enter(s, "ALIGN")), n)
    [] OTHER             -> {Braked(IF s.state_ticks > conf.hold_ticks
                                    THEN Fail(s, "HOLD") ELSE s)}

StepHold(s, pose, n) ==
  CASE pose = "SEEDING"  -> IF s.resting /\ s.state_ticks < conf.no_heading_rest_ticks
                            THEN {Braked(s)}
                            ELSE {Coasted(Enter(s, "NO_HEADING"))}
    [] pose = "TRACKING" -> Move(ResetProgress([Enter(s, "ALIGN") EXCEPT !.retries = 0]), n)
    [] OTHER             -> {Braked(IF s.state_ticks > conf.hold_ticks
                                    THEN Fail(s, "HOLD") ELSE s)}

StepRecover(s, pose, n) ==
  CASE pose = "TRACKING" -> Move(ResetProgress(Enter(s, "ALIGN")), n)
    [] pose = "SEEDING"  -> IF s.state_ticks >= conf.recover_ticks
                            THEN {Braked(Fail(s, "HEADING_LOST"))}
                            ELSE {Result(s, "straight")}
    [] OTHER             -> {Braked(Enter(s, "HOLD"))}

StepNoHeading(s, pose, n) ==
  IF pose = "TRACKING" /\ (~s.spinning \/ s.state_ticks >= conf.no_heading_turn_ticks)
  THEN Move([Enter(s, "ALIGN") EXCEPT !.retries = 0, !.spinning = FALSE], n)
  ELSE IF IsLost(pose) THEN {NoHeadingRetry(s, FALSE)}
  ELSE IF s.state_ticks > conf.no_heading_ticks THEN {NoHeadingRetry(s, TRUE)}
  ELSE {Result([s EXCEPT !.spinning = TRUE, !.v = 0, !.turning = TRUE], "spin")}

StepSettle(s) ==
  IF s.settle_count >= conf.settle_fixes THEN SettleCheck(s)
  ELSE {Braked(IF s.state_ticks > conf.settle_ticks THEN Fail(s, "SETTLE") ELSE s)}

StepNudge(s) ==
  IF s.state_ticks > conf.nudge_ticks THEN {Settle(s)} ELSE {Result(s, "nudge")}

\* Fault: SETTLE and NUDGE are stepped before the pose is looked at
StepMoving_Late(s, pose, n) ==
  IF s.state = "SETTLE" THEN StepSettle(s)
  ELSE IF s.state = "NUDGE" THEN StepNudge(s)
  ELSE IF pose = "SEEDING" THEN HeadingLost(s)
  ELSE IF IsLost(pose) THEN {Braked(Enter(s, "HOLD"))}
  ELSE Move(s, n)

\* ALIGN, DRIVE, FINAL_TURN, SETTLE and NUDGE
StepMoving(s, pose, n) ==
  IF pose = "SEEDING" THEN HeadingLost(s)
  ELSE IF IsLost(pose) THEN {Braked(Enter(s, "HOLD"))}
  ELSE CASE s.state = "SETTLE" -> StepSettle(s)
         [] s.state = "NUDGE"  -> StepNudge(s)
         [] OTHER              -> Move(s, n)

Later(s, n) ==
  IF s.state \in Timed THEN [s EXCEPT !.state_ticks = @ + n] ELSE s

\* db_steering_step, on the pose estimated now and n ticks after the last one
Step(s0, pose, n) ==
  LET s == Later(s0, n) IN
  IF s.state = "IDLE" THEN {Coasted(s)}
  ELSE IF ~Active(s) THEN {Braked(s)}
  ELSE IF pose = "FREE_SPIN" THEN {Braked(Fail(s, "NO_HEADING"))}
  ELSE CASE s.state = "HOLD"       -> StepHold(s, pose, n)
         [] s.state = "RECOVER"    -> StepRecover(s, pose, n)
         [] s.state = "NO_HEADING" -> StepNoHeading(s, pose, n)
         [] OTHER                  -> StepMoving(s, pose, n)

----------------------------------------------------------------------------
\* What a db_steering_t that is at rest between two calls satisfies.  Steering
\* and DotbotControl state the properties made of these and say why they matter.

\* The states that ask for the brake
AtRest == {"ARRIVED", "FAILED", "HOLD", "SETTLE"}

Ended == {"ARRIVED", "FAILED", "ABORTED"}

\* state and completion tell the same story
Agrees(s) ==
  /\ Active(s) <=> s.completion = "IN_PROGRESS"
  /\ s.state = "ARRIVED" => s.completion = "ARRIVED"
  /\ s.state = "FAILED" => s.completion = "FAILED"
  /\ s.fail # "NONE" <=> s.completion = "FAILED"

\* The state can be one of the current point
Fits(s) ==
  /\ Active(s) => s.index < s.path.count
  /\ s.state = "ARRIVED" => s.index = s.path.count
  /\ s.state = "FINAL_TURN" => IsPose(s)
  /\ s.state \in {"SETTLE", "NUDGE"} => IsPrecise(s)

\* A heading restores the retries
Restored(s) ==
  /\ s.retries <= conf.no_heading_retries
  /\ s.state \in Moving \cup {"RECOVER"} => s.retries = 0

\* The longest a step leaves a timed state as it is
Limit(state) ==
  CASE state \in {"ALIGN", "FINAL_TURN"} -> conf.turn_ticks
    [] state = "NO_HEADING" -> conf.no_heading_ticks
    [] state = "HOLD" -> IF conf.hold_ticks > conf.no_heading_rest_ticks
                         THEN conf.hold_ticks ELSE conf.no_heading_rest_ticks
    [] state = "RECOVER" -> conf.recover_ticks - 1
    [] state = "SETTLE" -> conf.settle_ticks
    [] state = "NUDGE" -> conf.nudge_ticks

InTime(s) == s.state \in Timed => s.state_ticks <= Limit(s.state)

Progressing(s) == Active(s) => s.progress_ticks <= conf.progress_ticks

\* No fix of the brake's settling is counted
Fresh(s) ==
  s.state = "SETTLE" /\ s.state_ticks < conf.settle_skip_ticks
    => s.settle_count = 0
=============================================================================
