-------------------------- MODULE MCDotbotControl --------------------------
(***************************************************************************)
(* Small instances of DotbotControl.  The batch runs give the steering a   *)
(* life of its own and check the deadman on every tick; the deadman run    *)
(* does the opposite.                                                      *)
(***************************************************************************)
EXTENDS DotbotControl

MCConf ==
  [turn_ticks |-> 2, no_heading_turn_ticks |-> 1, no_heading_ticks |-> 2,
   no_heading_rest_ticks |-> 2, no_heading_retries |-> 1, hold_ticks |-> 2,
   progress_ticks |-> 2, recover_drive |-> TRUE, recover_ticks |-> 2,
   settle_skip_ticks |-> 1, settle_ticks |-> 2, settle_fixes |-> 1,
   settle_nudges |-> 1, nudge_ticks |-> 1]

Point(poses, precise, count) ==
  [count |-> count, poses |-> poses, precise |-> precise]

\* A precise point, and a pose on the way to a plain one
MCBatches == {Point({}, TRUE, 1), Point({0}, FALSE, 2)}

\* Every timer of the steering runs out on its first step
MCConfShort ==
  [MCConf EXCEPT !.turn_ticks = 1, !.no_heading_ticks = 1,
                 !.no_heading_rest_ticks = 1, !.hold_ticks = 1,
                 !.progress_ticks = 1, !.recover_ticks = 1]

\* One plain point
MCPlain == {Point({}, FALSE, 1)}
=============================================================================
