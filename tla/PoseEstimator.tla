--------------------------- MODULE PoseEstimator ---------------------------
(***************************************************************************)
(* The life cycle of drv/pose_estimator: one db_pose_estimator_t, called   *)
(* with a tick of wheel travel, a fix of the photodiode or a pose.         *)
(*                                                                         *)
(* The geometry of a fix is the outcome of the comparisons made of it (Fix)*)
(* and that of a tick whether the wheels count as standing or turning; what*)
(* is decided by them, and every counter, timer and flag, is exact.  pose  *)
(* stands for x, y, theta and P: none yet, one solved since the estimator  *)
(* last went back to SEEDING, or a stale one from before.  Left out: the   *)
(* statistics (accepted, seeds, kidnaps, ...), which nothing reads.        *)
(***************************************************************************)
EXTENDS Integers

CONSTANTS
  conf,       \* db_pose_estimator_conf_t
  MaxTicks,   \* UINT32_MAX, where the tick counters saturate
  Elapsed     \* elapsed_ticks of a predict

ASSUME ConfAssumption ==
  conf \in [timeout_ticks       : Nat,
            seed_fixes          : Nat \ {0},
            acquire             : Nat,       \* acquire_mm, in steps of a level
            kidnap_fixes        : Nat,
            kidnap_settle_ticks : Nat,
            reanchor            : BOOLEAN,   \* reanchor_mm > 0
            free_spin           : BOOLEAN]   \* free_spin_mm > 0

ASSUME TicksAssumption ==
  /\ MaxTicks \in Nat
  /\ Elapsed # {} /\ Elapsed \subseteq Nat \ {0}

VARIABLES
  est,     \* the db_pose_estimator_t
  misses   \* history: fixes rejected in a row since the pose was last confirmed

vars == <<est, misses>>

----------------------------------------------------------------------------
\* Types

\* The counts are compared with seed_fixes and kidnap_fixes only
MaxCount ==
  IF conf.seed_fixes > conf.kidnap_fixes THEN conf.seed_fixes
  ELSE conf.kidnap_fixes

Count(n) == IF n < MaxCount THEN n + 1 ELSE n

\* Fault: the counter goes past its limit
Saturated_Past(ticks, n) == IF ticks >= MaxTicks THEN MaxTicks ELSE ticks + n

Saturated(ticks, n) == IF MaxTicks - ticks < n THEN MaxTicks ELSE ticks + n

\* What is found out about a fix
Fix ==
  [inside     : BOOLEAN,             \* of the gate around the pose
   agrees     : BOOLEAN,             \* with the first rejected fix
   close      : BOOLEAN,             \* to the pose, for a re-anchor
   resting    : BOOLEAN,             \* within rest_mm of the mean of the fixes at rest
   still      : BOOLEAN,             \* within free_spin_mm of the first of the chain
   consistent : BOOLEAN,             \* with the odometry of the chain
   travel     : 0 .. conf.acquire]   \* of the photodiode over the chain

Estimator ==
  [status             : {"SEEDING", "TRACKING", "LOST"},
   unseeded           : BOOLEAN,
   pose               : {"none", "solved", "stale"},
   ticks_since_accept : 0 .. MaxTicks,
   chain_count        : 0 .. MaxCount,
   free_spin_odo      : 0 .. conf.acquire,
   kidnap_count       : 0 .. MaxCount,
   kidnap_travelled   : BOOLEAN,     \* kidnap_travel_mm > kidnap_still_mm
   kidnap_settled     : BOOLEAN,
   still_ticks        : 0 .. MaxTicks,
   rest_count         : 0 .. MaxCount,
   rest_ticks         : 0 .. MaxTicks]

\* db_pose_estimator_init
EstimatorInit ==
  [status |-> "SEEDING", unseeded |-> FALSE, pose |-> "none",
   ticks_since_accept |-> 0, chain_count |-> 0, free_spin_odo |-> 0,
   kidnap_count |-> 0, kidnap_travelled |-> FALSE, kidnap_settled |-> FALSE,
   still_ticks |-> 0, rest_count |-> 0, rest_ticks |-> 0]

Init == est = EstimatorInit /\ misses = 0

----------------------------------------------------------------------------
\* Helpers

\* Fault: the fixes at rest outlive the loss
Lose_KeepsRest(e) ==
  [e EXCEPT !.status = "LOST", !.chain_count = 0, !.kidnap_count = 0,
            !.free_spin_odo = 0]

\* _lose
Lose(e) ==
  [e EXCEPT !.status = "LOST", !.chain_count = 0, !.kidnap_count = 0,
            !.rest_count = 0, !.free_spin_odo = 0]

\* Fault: the timer runs on from the last accepted fix
Solved_KeepsAge(e) ==
  [e EXCEPT !.status = "TRACKING", !.pose = "solved", !.chain_count = 0,
            !.kidnap_count = 0, !.unseeded = FALSE]

\* The pose is set, from a chain or by db_pose_estimator_seed
Solved(e) ==
  [e EXCEPT !.status = "TRACKING", !.pose = "solved", !.chain_count = 0,
            !.kidnap_count = 0, !.ticks_since_accept = 0, !.unseeded = FALSE]

\* Back to SEEDING with a chain of n fixes; the pose is not used again
Reseeded(e, n) ==
  [e EXCEPT !.status = "SEEDING", !.chain_count = n, !.free_spin_odo = 0,
            !.pose = IF @ = "none" THEN @ ELSE "stale"]

----------------------------------------------------------------------------
\* _chain_add

ChainStart(e) == [e EXCEPT !.chain_count = 1]

\* Fault: the estimator forgets that it has no pose
FreeSpin_Seeded(e) == Lose(e)

\* Wheels turning in the air
FreeSpin(e) == [Lose(e) EXCEPT !.unseeded = TRUE]

\* Fault: a lost robot spins free too
ChainBroken_AnyStatus(e, fix) ==
  IF conf.free_spin /\ fix.still /\ e.free_spin_odo + fix.travel >= conf.acquire
  THEN FreeSpin(e) ELSE ChainStart(e)

\* Another fix than the odometry expects; while SEEDING, travel of the odometry
\* alone adds up to a free spin
ChainBroken(e, fix) ==
  IF e.status = "SEEDING" /\ conf.free_spin /\ fix.still
  THEN IF e.free_spin_odo + fix.travel >= conf.acquire THEN FreeSpin(e)
       ELSE ChainStart([e EXCEPT !.free_spin_odo = @ + fix.travel])
  ELSE ChainStart([e EXCEPT !.free_spin_odo = 0])

ChainGrows(e, fix) ==
  LET c == [e EXCEPT !.chain_count = Count(@),
                     !.free_spin_odo = IF conf.free_spin /\ fix.still THEN @ ELSE 0]
  IN IF c.chain_count < conf.seed_fixes \/ fix.travel < conf.acquire THEN c
     ELSE Solved(c)

ChainAdd(e, fix) ==
  IF e.chain_count = 0 THEN ChainStart(e)
  ELSE IF fix.consistent THEN ChainGrows(e, fix) ELSE ChainBroken(e, fix)

----------------------------------------------------------------------------
\* The updates

\* Fault: the rejected fixes are counted across an accepted one
Accepted_KeepsKidnap(e) ==
  [e EXCEPT !.status = "TRACKING", !.ticks_since_accept = 0, !.chain_count = 0]

\* A fix inside the gate
Accepted(e) ==
  [e EXCEPT !.status = "TRACKING", !.ticks_since_accept = 0,
            !.chain_count = 0, !.kidnap_count = 0]

\* _reanchor
Reanchored(e) == [e EXCEPT !.kidnap_count = 0, !.ticks_since_accept = 0]

\* One more rejected fix, or the first of a new row
KidnapCounted(e, fix) ==
  IF e.kidnap_count = 0 \/ e.kidnap_travelled \/ ~fix.agrees
  THEN [e EXCEPT !.kidnap_count = 1, !.kidnap_travelled = FALSE,
                 !.kidnap_settled = e.still_ticks >= conf.kidnap_settle_ticks]
  ELSE [e EXCEPT !.kidnap_count = @ + 1]

\* _kidnap_check
KidnapCheck(e, fix) ==
  LET k == KidnapCounted(e, fix) IN
  IF conf.kidnap_fixes = 0 THEN e
  ELSE IF k.kidnap_count < conf.kidnap_fixes THEN k
  ELSE IF ~k.kidnap_settled /\ conf.reanchor /\ fix.close THEN Reanchored(k)
  ELSE [Reseeded(k, k.kidnap_count) EXCEPT !.kidnap_count = 0]

\* Fault: every fix starts the timer over
RestCounted_Restarts(e, fix) ==
  [e EXCEPT !.rest_count = IF fix.resting THEN Count(@) ELSE 1, !.rest_ticks = 0]

\* One more fix at rest, or the first of them
RestCounted(e, fix) ==
  IF e.rest_count = 0 \/ ~fix.resting
  THEN [e EXCEPT !.rest_count = 1, !.rest_ticks = 0]
  ELSE [e EXCEPT !.rest_count = Count(@)]

\* _lost_rest_check
RestCheck(e, fix) ==
  LET r == RestCounted(e, fix) IN
  IF conf.kidnap_fixes = 0 THEN e
  ELSE IF \/ r.rest_count < conf.kidnap_fixes
          \/ r.rest_ticks < conf.kidnap_settle_ticks
          \/ r.still_ticks = 0
          \/ r.still_ticks < conf.kidnap_settle_ticks
       THEN r
       ELSE [Reseeded(r, r.rest_count) EXCEPT !.rest_count = 0]

\* _lost_update
LostUpdate(e, fix) ==
  LET c == ChainAdd(e, fix) IN
  IF c.status = "TRACKING" THEN c ELSE RestCheck(c, fix)

\* db_pose_estimator_update
Updated(e, fix) ==
  IF e.status = "SEEDING" THEN ChainAdd(e, fix)
  ELSE IF e.unseeded THEN LostUpdate(e, fix)
  ELSE IF fix.inside THEN Accepted(e)
  ELSE IF e.status = "TRACKING" THEN KidnapCheck(e, fix)
  ELSE LostUpdate(e, fix)

\* The timers and counts of db_pose_estimator_predict
Aged(e, n) ==
  LET t == [e EXCEPT !.ticks_since_accept = Saturated(@, n)]
      l == IF t.status = "TRACKING" /\ t.ticks_since_accept > conf.timeout_ticks
           THEN Lose(t) ELSE t
  IN [l EXCEPT !.rest_ticks = IF l.rest_count > 0 THEN Saturated(@, n) ELSE @]

\* db_pose_estimator_predict, with wheels that count as standing or not and may
\* travel further than kidnap_still_mm
Predicted(e, n, standing, travelled) ==
  LET a == Aged(e, n) IN
  [a EXCEPT !.still_ticks = IF standing THEN Saturated(@, n) ELSE 0,
            !.kidnap_travelled = @ \/ (travelled /\ a.kidnap_count > 0)]

----------------------------------------------------------------------------
\* The calls

Seed ==
  /\ est' = Solved(est)
  /\ misses' = 0

Predict(n, standing, travelled) ==
  /\ est' = Predicted(est, n, standing, travelled)
  /\ UNCHANGED misses

Update(fix) ==
  /\ est' = Updated(est, fix)
  /\ misses' = IF est.status = "TRACKING" /\ ~fix.inside THEN Count(misses) ELSE 0

Ticks ==
  \E n \in Elapsed, standing, travelled \in BOOLEAN : Predict(n, standing, travelled)

Fixes == \E fix \in Fix : Update(fix)

Next == Seed \/ Ticks \/ Fixes

Spec == Init /\ [][Next]_vars

\* A robot put down by hand: its wheels stand, and its fixes rest where the pose
\* is not
StillTick == \E n \in Elapsed : Predict(n, TRUE, FALSE)

RestingFix ==
  \E fix \in Fix :
    /\ fix.resting /\ fix.agrees /\ fix.consistent /\ ~fix.inside
    /\ fix.travel < conf.acquire
    /\ Update(fix)

\* The scheduler ticks, and the fixes keep coming
LiveSpec == Spec /\ WF_vars(StillTick) /\ WF_vars(RestingFix)

\* _steering_pose: the status and the free_spin flag the callers get
Reported ==
  IF est.status = "LOST" /\ est.unseeded THEN "FREE_SPIN" ELSE est.status

----------------------------------------------------------------------------
\* Safety

TypeOK == est \in Estimator /\ misses \in 0 .. MaxCount

\* A pose is given out only while its last confirmation is recent, whichever way
\* it was confirmed and however many ticks a predict spans.
TrackedRecently ==
  est.status = "TRACKING" => est.ticks_since_accept <= conf.timeout_ticks

\* Fixes are gated only against a pose solved since the estimator last gave one
\* up: none is driven by or found again that a kidnap or a free spin has made
\* stale, over any number of rounds through SEEDING.
GatedOnSolvedPose ==
  est.status # "SEEDING" /\ ~est.unseeded => est.pose = "solved"

\* pose_estimator.h:35, "kidnap_fixes rejected fixes in a row": none of the row is
\* from before the pose was last confirmed, lost or seeded.
KidnapAfterRow ==
  [][est.status = "TRACKING" /\ est'.status = "SEEDING"
       => conf.kidnap_fixes > 0 /\ misses' >= conf.kidnap_fixes]_vars

\* pose_estimator.h:43-47: a lost robot is put down only after its fixes have
\* rested for the settle time since it was lost, and its wheels as long.
PutDownAtRest ==
  [][est.status = "LOST" /\ est'.status = "SEEDING"
       => /\ est.still_ticks >= conf.kidnap_settle_ticks
          /\ est.ticks_since_accept >= est'.rest_ticks
          /\ est'.rest_ticks >= conf.kidnap_settle_ticks]_vars

\* What the callers are promised
Life == INSTANCE PoseLifecycle WITH status <- Reported

ImplementsPoseLifecycle == Life!Spec

----------------------------------------------------------------------------
\* Liveness

\* A robot that stands where its pose is not gives the pose up: tracking, lost or
\* spinning free, it ends in SEEDING, from where a drive solves the pose anew.
StandingReseeds ==
  conf.kidnap_fixes > 0 /\ <>[][StillTick \/ RestingFix]_vars
    => <>[](est.status = "SEEDING")
=============================================================================
