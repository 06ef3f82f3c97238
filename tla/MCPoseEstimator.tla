-------------------------- MODULE MCPoseEstimator --------------------------
(***************************************************************************)
(* A small instance of PoseEstimator: rows and chains of two fixes, a      *)
(* timeout that a predict can jump over, and counters that saturate.       *)
(***************************************************************************)
EXTENDS PoseEstimator

MCConf ==
  [timeout_ticks |-> 3, seed_fixes |-> 2, acquire |-> 2, kidnap_fixes |-> 2,
   kidnap_settle_ticks |-> 2, reanchor |-> TRUE, free_spin |-> TRUE]
=============================================================================
