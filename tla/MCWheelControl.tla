--------------------------- MODULE MCWheelControl ---------------------------
(***************************************************************************)
(* A small instance of WheelControl: a run and a kick duty below the duty  *)
(* that counts as forced, so that only the ramp of the kick can stall a    *)
(* wheel, a slew that takes two steps across the range, and a stall limit  *)
(* that steps of one and of two ticks reach differently.                   *)
(***************************************************************************)
EXTENDS WheelControl

MCConf ==
  [kp |-> 1, ki |-> 1, u_breakaway |-> 2, kick_ramp |-> 1, u_run |-> 1, k_run |-> 0,
   i_zone |-> 3, pwm_max |-> 4, pwm_slew |-> 3, stall_pwm |-> 4, stall |-> 3]

MCSetpoints == {-1, 0, 2}

MCCounts == {-1, 0, 1}
=============================================================================
