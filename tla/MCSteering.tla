----------------------------- MODULE MCSteering -----------------------------
(***************************************************************************)
(* Small instances of Steering: every timeout is two or three steps and an *)
(* elapsed time of two steps can jump over a limit.                        *)
(***************************************************************************)
EXTENDS Steering

\* The recovery straight is allowed
MCConf ==
  [turn_ticks |-> 2, no_heading_turn_ticks |-> 1, no_heading_ticks |-> 2,
   no_heading_rest_ticks |-> 2, no_heading_retries |-> 1, hold_ticks |-> 3,
   progress_ticks |-> 2, recover_drive |-> TRUE, recover_ticks |-> 2,
   settle_skip_ticks |-> 1, settle_ticks |-> 3, settle_fixes |-> 2,
   settle_nudges |-> 1, nudge_ticks |-> 1]

Point(poses, precise, count) ==
  [count |-> count, poses |-> poses, precise |-> precise]

\* A stop, a plain and a precise point, a pose on the way to a precise point,
\* a pose at the end, and a path longer than MaxPoints
MCPaths ==
  {Point({}, FALSE, 0), Point({}, FALSE, 1), Point({}, TRUE, 1),
   Point({0}, TRUE, 2), Point({1}, FALSE, 2), Point({2}, TRUE, 3)}
=============================================================================
