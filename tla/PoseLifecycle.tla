--------------------------- MODULE PoseLifecycle ---------------------------
(***************************************************************************)
(* What the pose estimator promises its callers: how the status they read  *)
(* may change.  DotbotControl drives by it, PoseEstimator implements it.   *)
(* FREE_SPIN is LOST without a pose: no fix brings the old one back.       *)
(***************************************************************************)
VARIABLE status

Status == {"SEEDING", "TRACKING", "LOST", "FREE_SPIN"}

\* db_pose_estimator_predict: the fixes stay away too long
Predicted(p) == IF p = "TRACKING" THEN {"TRACKING", "LOST"} ELSE {p}

\* db_pose_estimator_update: seeded, spinning free, kidnapped, found again, or put
\* down at rest
Updated(p) ==
  {p} \cup CASE p = "SEEDING"             -> {"TRACKING", "FREE_SPIN"}
             [] p = "TRACKING"            -> {"SEEDING"}
             [] p \in {"LOST", "FREE_SPIN"} -> {"SEEDING", "TRACKING"}

Init == status = "SEEDING"

Next ==
  \/ status' \in Predicted(status)
  \/ status' \in Updated(status)
  \/ status' = "TRACKING"          \* db_pose_estimator_seed

Spec == Init /\ [][Next]_status
=============================================================================
