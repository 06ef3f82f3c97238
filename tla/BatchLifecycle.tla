--------------------------- MODULE BatchLifecycle ---------------------------
(***************************************************************************)
(* What a robot promises the host that commands it: who owns the motors,   *)
(* which batch of waypoints was accepted last, how it stands and, once it  *)
(* is aborted, by what.  This is the waypoint report of                    *)
(* drv/dotbot_control (db_control_report, protocol.h:138-172) with nothing *)
(* of how the robot drives; DotbotControl implements it.                   *)
(***************************************************************************)
CONSTANTS
  BatchIds,   \* the batch ids in use
  NoId        \* id 0: none

VARIABLES
  mode,       \* the writer that owns the motors
  batch,      \* the last batch accepted
  status,     \* protocol_waypoints_status_t
  reason      \* protocol_waypoints_abort_t of the last batch aborted

vars == <<mode, batch, status, reason>>

Mode == {"IDLE", "RAW", "VELOCITY", "WAYPOINT"}
Direct == {"RAW", "VELOCITY"}
Status == {"NONE", "IN_PROGRESS", "ARRIVED", "FAILED", "ABORTED"}
AbortReason == {"STOP", "DIRECT", "CONTROL_MODE"}

Init ==
  /\ mode = "IDLE"
  /\ batch = NoId
  /\ status = "NONE"
  /\ reason = "STOP"

\* An id names one batch: repeated, it is the same batch heard twice
New(id) == id = NoId \/ id # batch

\* The batch in progress ends by a command; one that has ended keeps its report
Abort(r) ==
  /\ status' = IF status = "IN_PROGRESS" THEN "ABORTED" ELSE status
  /\ reason' = IF status = "IN_PROGRESS" THEN r ELSE reason

Accept(id) ==
  /\ New(id)
  /\ mode' = "WAYPOINT"
  /\ batch' = id
  /\ status' = "IN_PROGRESS"
  /\ UNCHANGED reason

\* An empty batch
Stop(id) ==
  /\ New(id)
  /\ mode' = "IDLE"
  /\ batch' = id
  /\ Abort("STOP")

\* A control mode command
Release ==
  /\ mode' = "IDLE"
  /\ Abort("CONTROL_MODE")
  /\ UNCHANGED batch

\* A direct command
TakeOver(m) ==
  /\ mode' = m
  /\ Abort("DIRECT")
  /\ UNCHANGED batch

\* The robot gets there or gives up; it keeps the motors and holds them
Finish ==
  /\ mode = "WAYPOINT"
  /\ status = "IN_PROGRESS"
  /\ status' \in {"ARRIVED", "FAILED"}
  /\ UNCHANGED <<mode, batch, reason>>

\* The host falls silent while it drives directly
Silence ==
  /\ mode \in Direct
  /\ mode' = "IDLE"
  /\ UNCHANGED <<batch, status, reason>>

Next ==
  \/ \E id \in BatchIds \cup {NoId} : Accept(id) \/ Stop(id)
  \/ Release
  \/ \E m \in Direct : TakeOver(m)
  \/ Finish
  \/ Silence

Spec == Init /\ [][Next]_vars

----------------------------------------------------------------------------
TypeOK ==
  /\ mode \in Mode
  /\ batch \in BatchIds \cup {NoId}
  /\ status \in Status
  /\ reason \in AbortReason
=============================================================================
