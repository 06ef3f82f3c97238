------------------------------ MODULE Steering ------------------------------
(***************************************************************************)
(* The steering layer of drv/steering alone: one db_steering_t, called in  *)
(* any order its interface allows, on a pose that may change in any way    *)
(* between two calls.  How the application orders the calls, and what it   *)
(* does with the command, is DotbotControl.                                *)
(***************************************************************************)
EXTENDS SteeringOps

CONSTANTS
  Paths,    \* the paths db_steering_set_path is called with
  Elapsed   \* the elapsed_ticks db_steering_step is called with

ASSUME PathsAssumption ==
  Paths \subseteq [count : Nat, poses : SUBSET Nat, precise : BOOLEAN]

ASSUME ElapsedAssumption == Elapsed # {} /\ Elapsed \subseteq Nat \ {0}

VARIABLES
  steering,   \* the db_steering_t
  pose,       \* the status of the pose estimate
  out         \* the last command a step or a poll returned

vars == <<steering, pose, out>>

Init ==
  /\ steering = SteeringInit
  /\ pose = "SEEDING"
  /\ out = "none"

\* db_steering_set_path and db_steering_set_target
NewPath(path) ==
  /\ steering' = SetPath(steering, path)
  /\ UNCHANGED <<pose, out>>

\* db_steering_stop
StopCall ==
  /\ steering' = Stop(steering)
  /\ UNCHANGED <<pose, out>>

\* db_steering_fix
FixCall ==
  /\ steering' = Fix(steering)
  /\ UNCHANGED <<pose, out>>

\* db_steering_poll
PollCall ==
  /\ \E r \in Poll(steering, pose) :
       /\ steering' = r.s
       /\ out' = IF r.out = "none" THEN out ELSE r.out
  /\ UNCHANGED pose

\* db_steering_step
StepCall ==
  /\ \E n \in Elapsed : \E r \in Step(steering, pose, n) :
       /\ steering' = r.s
       /\ out' = r.out
  /\ UNCHANGED pose

\* The estimator moves on between the calls
PoseChanges ==
  /\ pose' \in Pose
  /\ UNCHANGED <<steering, out>>

NewBatch == \E path \in Paths : NewPath(path)

Next ==
  \/ NewBatch
  \/ StopCall
  \/ FixCall
  \/ PollCall
  \/ StepCall
  \/ PoseChanges

Spec == Init /\ [][Next]_vars

\* The application calls the step every steering_period_ticks
LiveSpec == Spec /\ WF_vars(StepCall)

----------------------------------------------------------------------------
\* Safety

TypeOK ==
  /\ steering \in SteeringState
  /\ pose \in Pose
  /\ out \in Command

\* completion is what the application reports (header: "the report latches how
\* the last batch ended"); state is what the steps branch on.  They must tell
\* the same story whatever order the calls come in.
CompletionAgrees == Agrees(steering)

\* Every state reads path.points[index]: the index lies inside the batch while
\* one runs and past it only on arrival, a final turn has a heading to turn to,
\* and only a precise last point is settled on.
StateFitsPoint == Fits(steering)

\* A batch that has its heading has its whole budget of spins again, by
\* whichever way it got there; RECOVER leads to ALIGN without a reset of its
\* own.
RetriesSinceHeading == Restored(steering)

\* No state that has a timer is still there after it: every way through a step
\* that stays tests the timer, however the pose changes in the meantime.
NoStateOutstays == InTime(steering) /\ Progressing(steering)

\* The mean position an arrival is judged by has only fixes taken once the
\* brake has settled: none of the approach, of the last settling or of a nudge.
FreshFixes == Fresh(steering)

\* steering.h:51-52: the brake holds the robot where it was asked to stop, in
\* every state at rest, not only after the step that entered it.
BrakeAsked ==
  steering.state \in AtRest => out = "brake"

\* How a batch ended stays readable until the next batch starts, at its first
\* point and with no failure on record: no step, fix, poll or stop rewrites it.
OutcomeLatched ==
  [][steering.completion \in Ended
     /\ steering'.completion # steering.completion
       => /\ steering'.completion = "IN_PROGRESS"
          /\ steering'.index = 0
          /\ steering'.fail = "NONE"]_vars

\* A step on a lost pose commands nothing but a standstill; a turn, a drive or a
\* nudge, which follow the pose, are commanded on a tracked one only.
NeverDrivesBlind ==
  [][StepCall => /\ IsLost(pose) => out' \in {"brake", "coast"}
                 /\ out' \in {"turn", "drive", "nudge"} => pose = "TRACKING"]_vars

\* A batch that asks for the precise arrival is reported arrived only from rest,
\* on its quota of fixes, never as a plain one straight out of the drive.
PreciseArrivesSettled ==
  [][steering'.state = "ARRIVED" /\ steering.state # "ARRIVED"
     /\ steering.path.precise
     /\ steering.path.count - 1 \notin steering.path.poses
       => /\ steering.state = "SETTLE"
          /\ steering.settle_count >= conf.settle_fixes]_vars

----------------------------------------------------------------------------
\* Liveness

\* Whatever the estimator settles on, tracking or not, a batch that is not
\* replaced ends: no pair of states can hand it to each other forever.
BatchEnds ==
  \A p \in Pose :
    <>[](pose = p) /\ <>[][~NewBatch]_vars => <>[](~Active(steering))
=============================================================================
