--------------------------- MODULE SteeringProofs ---------------------------
(***************************************************************************)
(* The safety properties of Steering, proved for every value of the        *)
(* limits, every set of paths and every elapsed time.                      *)
(*                                                                         *)
(* The conjunction of the record predicates, Good, is inductive by itself: *)
(* SteeringOpsProofs shows that every call preserves it.  IInv adds what   *)
(* relates the record to the last command.                                 *)
(***************************************************************************)
EXTENDS Steering, SteeringOpsProofs

\* The inductive invariant
IInv ==
  /\ Good(steering)
  /\ pose \in Pose
  /\ out \in Command
  /\ BrakeAsked

\* A freshly initialised robot satisfies the invariant
LEMMA InitIInv == Init => IInv
<1> SUFFICES ASSUME Init PROVE IInv OBVIOUS
<1>1. SteeringInit \in SteeringState
  <2>1. NoPath \in Path BY BoundsAssumption DEF NoPath, Path
  <2>2. Infinity \in 0 .. Infinity /\ 0 \in 0 .. MaxPoints
    BY BoundsAssumption DEF Infinity
  <2> QED
    BY <2>1, <2>2 DEF SteeringInit, SteeringState, State, FailReason, Completion
<1>2. Good(SteeringInit)
  BY <1>1, ConfAssumption DEF Good, Base, SteeringInit, Agrees, Fits, Restored,
     Fresh, InTime, Progressing, Active, Timed, Moving
<1>3. steering = SteeringInit /\ SteeringInit.state = "IDLE"
  BY DEF Init, SteeringInit
<1> QED BY <1>2, <1>3 DEF Init, IInv, BrakeAsked, AtRest, Pose, Command

\* db_steering_set_path and the application's stop
LEMMA NewPathKeeps ==
  ASSUME IInv, NEW path \in Paths, NewPath(path)
  PROVE IInv'
<1>1. Good(steering)' /\ steering'.state \notin AtRest
  <2>1. CASE path.count = 0
    BY <2>1, StopGood DEF IInv, NewPath, SetPath, AtRest
  <2>2. CASE path.count # 0
    <3>1. path.count > 0 BY <2>2, PathsAssumption
    <3>2. /\ Good(SetPath(steering, path))
          /\ SetPath(steering, path).state \in {"DRIVE", "NO_HEADING", "ALIGN"}
      BY <3>1, PathsAssumption, SetPathGood DEF IInv
    <3> QED BY <3>2 DEF NewPath, AtRest
  <2> QED BY <2>1, <2>2
<1> QED BY <1>1 DEF IInv, NewPath, BrakeAsked

LEMMA PollKeeps == ASSUME IInv, PollCall PROVE IInv'
<1>1. PICK r \in Poll(steering, pose) :
        steering' = r.s /\ out' = IF r.out = "none" THEN out ELSE r.out
  BY DEF PollCall
<1>2. /\ Good(r.s) /\ r.out \in Command
      /\ r = Result(steering, "none") \/ r.out = "brake"
  BY PollGood DEF IInv, Results
<1>3. BrakeAsked'
  <2>1. CASE r = Result(steering, "none")
    BY <1>1, <2>1 DEF IInv, BrakeAsked, Result
  <2>2. CASE r.out = "brake" BY <1>1, <2>2 DEF BrakeAsked
  <2> QED BY <1>2, <2>1, <2>2
<1> QED BY <1>1, <1>2, <1>3 DEF IInv, PollCall

LEMMA StepKeeps == ASSUME IInv, StepCall PROVE IInv'
<1>1. PICK n \in Elapsed : \E r \in Step(steering, pose, n) :
        steering' = r.s /\ out' = r.out
  BY DEF StepCall
<1>2. PICK r \in Step(steering, pose, n) : steering' = r.s /\ out' = r.out
  BY <1>1
<1>3. n \in Nat BY ElapsedAssumption
<1>4. GoodResult(r) \/ IdleResult(steering, r)
  BY <1>3, StepGood DEF IInv
<1>5. /\ Good(r.s) /\ r.out \in Command
      /\ r.s.state \in AtRest => r.out = "brake"
  BY <1>4 DEF GoodResult, IdleResult, Results
<1> QED BY <1>2, <1>5 DEF IInv, StepCall, BrakeAsked

\* Every call, and every change of the pose, preserves the invariant
LEMMA NextIInv == IInv /\ [Next]_vars => IInv'
<1> SUFFICES ASSUME IInv, [Next]_vars PROVE IInv' OBVIOUS
<1>1. CASE NewBatch BY <1>1, NewPathKeeps DEF NewBatch
<1>2. CASE StopCall
  BY <1>2, StopGood DEF IInv, StopCall, BrakeAsked, AtRest
<1>3. CASE FixCall
  BY <1>3, FixGood DEF IInv, FixCall, BrakeAsked
<1>4. CASE PollCall BY <1>4, PollKeeps
<1>5. CASE StepCall BY <1>5, StepKeeps
<1>6. CASE PoseChanges BY <1>6 DEF IInv, PoseChanges, BrakeAsked
<1>7. CASE UNCHANGED vars BY <1>7 DEF IInv, vars, BrakeAsked
<1> QED BY <1>1, <1>2, <1>3, <1>4, <1>5, <1>6, <1>7 DEF Next

\* The invariant holds of every reachable state, whatever the order of calls
THEOREM Invariant == Spec => []IInv
<1>1. Init => IInv BY InitIInv
<1>2. IInv /\ [Next]_vars => IInv' BY NextIInv
<1> QED BY <1>1, <1>2, PTL DEF Spec

----------------------------------------------------------------------------
\* The safety properties

\* Every call returns a record, a command and a pose of their types
THEOREM TypeCorrect == Spec => []TypeOK
<1>1. IInv => TypeOK BY DEF IInv, TypeOK, Good, Base
<1> QED BY <1>1, Invariant, PTL

\* What is reported of a batch and what the steps branch on always agree
THEOREM CompletionCorrect == Spec => []CompletionAgrees
<1>1. IInv => CompletionAgrees BY DEF IInv, CompletionAgrees, Good, Base
<1> QED BY <1>1, Invariant, PTL

\* The index is inside the points and the state is one of the current point
THEOREM PointCorrect == Spec => []StateFitsPoint
<1>1. IInv => StateFitsPoint BY DEF IInv, StateFitsPoint, Good, Base
<1> QED BY <1>1, Invariant, PTL

\* The spins spent are within the budget, and none is spent under a heading
THEOREM RetriesCorrect == Spec => []RetriesSinceHeading
<1>1. IInv => RetriesSinceHeading BY DEF IInv, RetriesSinceHeading, Good, Base
<1> QED BY <1>1, Invariant, PTL

\* No timed state, and no want of progress, lasts past its limit
THEOREM TimersCorrect == Spec => []NoStateOutstays
<1>1. IInv => NoStateOutstays BY DEF IInv, NoStateOutstays, Good
<1> QED BY <1>1, Invariant, PTL

\* Only fixes taken once the brake has settled are counted
THEOREM FixesCorrect == Spec => []FreshFixes
<1>1. IInv => FreshFixes BY DEF IInv, FreshFixes, Good, Base
<1> QED BY <1>1, Invariant, PTL

\* The last command in every state at rest is the brake
THEOREM BrakeCorrect == Spec => []BrakeAsked
<1>1. IInv => BrakeAsked BY DEF IInv
<1> QED BY <1>1, Invariant, PTL

----------------------------------------------------------------------------
\* The action properties

\* A step of an inactive robot, a fix and a poll leave the completion alone
LEMMA CompletionKept ==
  ASSUME IInv, FixCall \/ PollCall \/ (StepCall /\ ~Active(steering))
  PROVE steering'.completion = steering.completion
<1>1. CASE FixCall BY <1>1, FixGood DEF FixCall, IInv
<1>2. CASE PollCall BY <1>2, PollGood DEF PollCall, IInv
<1>3. CASE StepCall /\ ~Active(steering)
  <2>1. PICK n \in Elapsed : \E r \in Step(steering, pose, n) : steering' = r.s
    BY <1>3 DEF StepCall
  <2>2. n \in Nat BY ElapsedAssumption
  <2>3. \A r \in Step(steering, pose, n) : IdleResult(steering, r)
    BY <1>3, <2>2, StepGood DEF IInv
  <2> QED BY <2>1, <2>3 DEF IdleResult
<1> QED BY <1>1, <1>2, <1>3

\* How a batch ended is readable until the next one starts
THEOREM OutcomeCorrect == Spec => OutcomeLatched
<1> DEFINE Kept ==
      steering.completion \in Ended /\ steering'.completion # steering.completion
        => /\ steering'.completion = "IN_PROGRESS"
           /\ steering'.index = 0
           /\ steering'.fail = "NONE"
<1>1. IInv /\ [Next]_vars => [Kept]_vars
  <2> SUFFICES ASSUME IInv, Next, steering.completion \in Ended,
                      steering'.completion # steering.completion
               PROVE Kept
    OBVIOUS
  <2>1. ~Active(steering) BY DEF IInv, Good, Base, Agrees, Ended
  <2>2. Stop(steering).completion = steering.completion
    BY <2>1, StopGood DEF IInv
  <2>3. CASE NewBatch
    <3>1. PICK path \in Paths : steering' = SetPath(steering, path)
      BY <2>3 DEF NewBatch, NewPath
    <3>2. path.count # 0 BY <2>2, <3>1 DEF SetPath
    <3>3. path.count > 0 BY <3>2, PathsAssumption
    <3> QED BY <3>1, <3>3, PathsAssumption, SetPathGood DEF IInv
  <2>4. ~StopCall BY <2>2 DEF StopCall
  <2>5. ~FixCall /\ ~PollCall /\ ~StepCall BY <2>1, CompletionKept
  <2>6. CASE PoseChanges BY <2>6 DEF PoseChanges
  <2> QED BY <2>3, <2>4, <2>5, <2>6 DEF Next
<1>2. Spec => [][Kept]_vars BY <1>1, Invariant, PTL DEF Spec
<1> QED BY <1>2 DEF OutcomeLatched

\* A step follows the pose only while it is tracked, and stands while it is lost
THEOREM BlindCorrect == Spec => NeverDrivesBlind
<1> DEFINE Seen ==
      StepCall => /\ IsLost(pose) => out' \in {"brake", "coast"}
                  /\ out' \in {"turn", "drive", "nudge"} => pose = "TRACKING"
<1>1. IInv /\ [Next]_vars => [Seen]_vars
  <2> SUFFICES ASSUME IInv, StepCall PROVE Seen OBVIOUS
  <2>1. PICK n \in Elapsed : \E r \in Step(steering, pose, n) : out' = r.out
    BY DEF StepCall
  <2>2. n \in Nat BY ElapsedAssumption
  <2> QED BY <2>1, <2>2, StepBlind DEF IInv
<1>2. Spec => [][Seen]_vars BY <1>1, Invariant, PTL DEF Spec
<1> QED BY <1>2 DEF NeverDrivesBlind

\* A precise batch arrives out of SETTLE, on its quota of fixes
THEOREM PreciseCorrect == Spec => PreciseArrivesSettled
<1> DEFINE Settled ==
      steering'.state = "ARRIVED" /\ steering.state # "ARRIVED"
      /\ steering.path.precise
      /\ steering.path.count - 1 \notin steering.path.poses
        => /\ steering.state = "SETTLE"
           /\ steering.settle_count >= conf.settle_fixes
<1>1. IInv /\ [Next]_vars => [Settled]_vars
  <2> SUFFICES ASSUME IInv, Next, steering'.state = "ARRIVED",
                      steering.state # "ARRIVED", AsksPrecise(steering)
               PROVE steering.state = "SETTLE"
                     /\ steering.settle_count >= conf.settle_fixes
    BY DEF AsksPrecise
  <2>1. ~NewBatch
    <3> SUFFICES ASSUME NEW path \in Paths, steering' = SetPath(steering, path)
                 PROVE FALSE
      BY DEF NewBatch, NewPath
    <3>1. path.count = 0 => steering'.state = "IDLE"
      BY StopGood DEF IInv, SetPath
    <3>2. path.count > 0 => steering'.state \in {"DRIVE", "NO_HEADING", "ALIGN"}
      BY PathsAssumption, SetPathGood DEF IInv
    <3> QED BY <3>1, <3>2, PathsAssumption
  <2>2. ~StopCall BY StopGood DEF IInv, StopCall
  <2>3. ~FixCall BY FixGood DEF IInv, FixCall
  <2>4. ~PollCall
    <3> SUFFICES ASSUME NEW r \in Poll(steering, pose), steering' = r.s PROVE FALSE
      BY DEF PollCall
    <3>1. \/ r = Result(steering, "none")
          \/ r.s.state \in {"SETTLE", "FINAL_TURN"}
      BY PollGood DEF IInv
    <3> QED BY <3>1 DEF Result
  <2>5. ~PoseChanges BY DEF PoseChanges
  <2>6. CASE StepCall
    <3>1. PICK n \in Elapsed : \E r \in Step(steering, pose, n) : steering' = r.s
      BY <2>6 DEF StepCall
    <3>2. n \in Nat BY ElapsedAssumption
    <3> QED BY <3>1, <3>2, StepPrecise DEF IInv
  <2> QED BY <2>1, <2>2, <2>3, <2>4, <2>5, <2>6 DEF Next
<1>2. Spec => [][Settled]_vars BY <1>1, Invariant, PTL DEF Spec
<1> QED BY <1>2 DEF PreciseArrivesSettled

----------------------------------------------------------------------------
\* Why a batch ends.  BatchEnds itself needs fairness and stays with TLC; what
\* it rests on is that no step hands the batch back.

\* A step on a pose, and what else may happen to a batch that is not replaced
Stepped(s, t, p) == \E n \in Elapsed : \E r \in Step(s, p, n) : t = r.s
Quiet(s, t, p) ==
  t = s \/ t = Fix(s) \/ t = Stop(s) \/ \E r \in Poll(s, p) : t = r.s

LEMMA SteppedFalls ==
  ASSUME NEW s, Good(s), NEW t, NEW p \in Pose, Stepped(s, t, p)
  PROVE /\ Good(t)
        /\ ~Active(s) => ~Active(t)
        /\ Active(s) /\ Active(t) => Lower(Rank(t, p), Rank(s, p))
<1>1. PICK n \in Elapsed : \E r \in Step(s, p, n) : t = r.s BY DEF Stepped
<1>2. PICK r \in Step(s, p, n) : t = r.s BY <1>1
<1>3. n \in Nat \ {0} BY ElapsedAssumption
<1>4. CASE Active(s)
  <2>1. Good(t) BY <1>2, <1>3, <1>4, StepGood DEF GoodResult
  <2>2. ~Active(r.s) \/ Lower(Rank(r.s, p), Rank(s, p))
    BY <1>3, <1>4, StepFalls
  <2> QED BY <1>2, <1>4, <2>1, <2>2
<1>5. CASE ~Active(s)
  <2>1. IdleResult(s, r) BY <1>3, <1>5, StepGood
  <2> QED BY <1>2, <1>5, <2>1 DEF IdleResult, Active
<1> QED BY <1>4, <1>5

LEMMA QuietFalls ==
  ASSUME NEW s, Good(s), NEW t, NEW p \in Pose, Quiet(s, t, p)
  PROVE /\ Good(t)
        /\ ~Active(s) => ~Active(t)
        /\ Active(s) /\ Active(t) => \/ Rank(t, p) = Rank(s, p)
                                     \/ Lower(Rank(t, p), Rank(s, p))
<1>1. CASE t = s BY <1>1
<1>2. CASE t = Fix(s)
  <2>1. s \in SteeringState BY DEF Good, Base
  <2>2. Rank(Fix(s), p) = Rank(s, p) BY <2>1, FixFalls
  <2> QED BY <1>2, <2>2, FixGood DEF Active
<1>3. CASE t = Stop(s) BY <1>3, StopGood DEF Active
<1>4. ASSUME NEW r \in Poll(s, p), t = r.s
      PROVE /\ Good(t)
            /\ ~Active(s) => ~Active(t)
            /\ Active(s) /\ Active(t) => \/ Rank(t, p) = Rank(s, p)
                                         \/ Lower(Rank(t, p), Rank(s, p))
  <2>1. Good(t) BY <1>4, PollGood
  <2>2. ~Active(s) => r = Result(s, "none") BY <1>4, PollGood
  <2>3. ~Active(s) => ~Active(t) BY <1>4, <2>2 DEF Result
  <2> QED BY <1>4, <2>1, <2>3, PollFalls
<1> QED BY <1>1, <1>2, <1>3, <1>4 DEF Quiet

\* On an unchanged pose no call but a new batch raises the rank of the batch,
\* and every step lowers it or ends the batch: a retry uses up a spin, a nudge
\* or a point, and a standstill its timer.
RankFalls ==
  [][/\ pose' = pose /\ ~NewBatch
     /\ Active(steering) /\ Active(steering')
     => /\ \/ Rank(steering, pose)' = Rank(steering, pose)
           \/ Lower(Rank(steering, pose)', Rank(steering, pose))
        /\ StepCall => Lower(Rank(steering, pose)', Rank(steering, pose))]_vars

\* Every step of a batch on an unchanged pose brings its end closer
THEOREM RankCorrect == Spec => RankFalls
<1> DEFINE Falls ==
      /\ pose' = pose /\ ~NewBatch
      /\ Active(steering) /\ Active(steering')
      => /\ \/ Rank(steering, pose)' = Rank(steering, pose)
            \/ Lower(Rank(steering, pose)', Rank(steering, pose))
         /\ StepCall => Lower(Rank(steering, pose)', Rank(steering, pose))
<1>1. IInv /\ [Next]_vars => [Falls]_vars
  <2> SUFFICES ASSUME IInv, Next, pose' = pose, ~NewBatch,
                      Active(steering), Active(steering')
               PROVE /\ \/ Rank(steering', pose) = Rank(steering, pose)
                        \/ Lower(Rank(steering', pose), Rank(steering, pose))
                     /\ StepCall => Lower(Rank(steering', pose), Rank(steering, pose))
    BY DEF Rank, Points, Phase, Budget, Part, Time
  <2>1. StepCall => Stepped(steering, steering', pose) BY DEF StepCall, Stepped
  <2>2. ~StepCall => Quiet(steering, steering', pose)
    BY DEF Next, StopCall, FixCall, PollCall, PoseChanges, Quiet
  <2> QED BY <2>1, <2>2, SteppedFalls, QuietFalls DEF IInv
<1>2. Spec => [][Falls]_vars BY <1>1, Invariant, PTL DEF Spec
<1> QED BY <1>2 DEF RankFalls

\* Whatever the pose stays at, a sequence of calls that steps the robot again
\* and again, fixes, polls and stops in between, and brings no new batch, ends
\* the batch for good.
THEOREM BatchesEnd ==
  ASSUME NEW p \in Pose, NEW run \in [Nat -> SteeringState], Good(run[0]),
         NEW steps \in SUBSET Nat, \A i \in Nat : \E j \in steps : i <= j,
         \A i \in steps : Stepped(run[i], run[i + 1], p),
         \A i \in Nat \ steps : Quiet(run[i], run[i + 1], p)
  PROVE \E i \in Nat : \A k \in Nat : ~Active(run[i + k])
<1>1. \A i \in Nat : Good(run[i])
  <2> DEFINE G == {i \in Nat : Good(run[i])}
  <2>1. G \in SUBSET Nat /\ 0 \in G OBVIOUS
  <2>2. ASSUME NEW i \in G PROVE i + 1 \in G
    <3>1. Good(run[i + 1]) BY SteppedFalls, QuietFalls
    <3> QED BY <3>1
  <2> HIDE DEF G
  <2>3. G = Nat BY <2>1, <2>2, AllNats
  <2> QED BY <2>3 DEF G
<1>2. ASSUME NEW i \in Nat, ~Active(run[i])
      PROVE \A k \in Nat : ~Active(run[i + k])
  <2> DEFINE E == {k \in Nat : ~Active(run[i + k])}
  <2>1. E \in SUBSET Nat /\ 0 \in E BY <1>2
  <2>2. ASSUME NEW k \in E PROVE k + 1 \in E
    <3>1. i + k \in Nat /\ ~Active(run[i + k]) OBVIOUS
    <3>2. ~Active(run[(i + k) + 1]) BY <1>1, <3>1, SteppedFalls, QuietFalls
    <3>3. (i + k) + 1 = i + (k + 1) OBVIOUS
    <3> QED BY <3>2, <3>3
  <2> HIDE DEF E
  <2>3. E = Nat BY <2>1, <2>2, AllNats
  <2> QED BY <2>3 DEF E
<1>3. ASSUME \A i \in Nat : Active(run[i]) PROVE FALSE
  <2> DEFINE rank == [i \in Nat |-> Rank(run[i], p)]
  <2>1. rank \in [Nat -> Ranks] BY RankIn
  <2>2. \A i \in Nat : rank[i] = Rank(run[i], p) OBVIOUS
  <2> HIDE DEF rank
  <2>3. ASSUME NEW i \in Nat
        PROVE /\ \/ rank[i + 1] = rank[i]
                 \/ Lower(rank[i + 1], rank[i])
              /\ i \in steps => Lower(rank[i + 1], rank[i])
    <3>1. i + 1 \in Nat OBVIOUS
    <3>2. i \in steps => Lower(Rank(run[i + 1], p), Rank(run[i], p))
      BY <1>1, <1>3, <3>1, SteppedFalls
    <3>3. i \notin steps => \/ Rank(run[i + 1], p) = Rank(run[i], p)
                            \/ Lower(Rank(run[i + 1], p), Rank(run[i], p))
      BY <1>1, <1>3, <3>1, QuietFalls
    <3> QED BY <2>2, <3>1, <3>2, <3>3
  <2>4. \A i \in Nat : rank[i + 1] = rank[i] \/ <<rank[i + 1], rank[i]>> \in Below
    <3> SUFFICES ASSUME NEW i \in Nat, Lower(rank[i + 1], rank[i])
                 PROVE <<rank[i + 1], rank[i]>> \in Below
      BY <2>3
    <3>1. rank[i + 1] \in Ranks /\ rank[i] \in Ranks BY <2>1
    <3> QED BY <3>1 DEF Below
  <2>5. PICK m \in Nat : \A k \in Nat : rank[m + k] = rank[m]
    BY <2>1, <2>4, BelowWellFounded, Descent
  <2>6. PICK j \in steps : m <= j OBVIOUS
  <2>7. j - m \in Nat /\ (j - m) + 1 \in Nat /\ m + (j - m) = j
        /\ m + ((j - m) + 1) = j + 1
    BY <2>6
  <2>8. rank[j + 1] = rank[m] /\ rank[j] = rank[m] BY <2>5, <2>7
  <2>9. Lower(rank[m], rank[m]) BY <2>3, <2>8
  <2> QED BY <2>1, <2>9, LowerIrreflexive
<1> QED BY <1>2, <1>3
=============================================================================
