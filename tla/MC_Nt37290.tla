---------------------------- MODULE MC_Nt37290 ----------------------------
(***************************************************************************)
(* Instances of Nt37290 for TLC.  MC_NormalModes is nt37290_modes[]:       *)
(* 60 Hz without idle, 120 Hz idling on self refresh.  MC_InactivityModes  *)
(* is the same table with the 120 Hz mode idling on inactivity, the other  *)
(* idle policy the driver's code handles (commit_done's delayed-idle path  *)
(* and early exit are only reachable with it).                             *)
(***************************************************************************)
EXTENDS Nt37290

MC_NormalModes ==
    {[vrefresh |-> 60, idle_mode |-> "IDLE_MODE_UNSUPPORTED",
      is_lp_mode |-> FALSE],
     [vrefresh |-> 120, idle_mode |-> "IDLE_MODE_ON_SELF_REFRESH",
      is_lp_mode |-> FALSE]}

MC_InactivityModes ==
    {[vrefresh |-> 60, idle_mode |-> "IDLE_MODE_UNSUPPORTED",
      is_lp_mode |-> FALSE],
     [vrefresh |-> 120, idle_mode |-> "IDLE_MODE_ON_INACTIVITY",
      is_lp_mode |-> FALSE]}

MC_LpMode ==
    [vrefresh |-> 30, idle_mode |-> "IDLE_MODE_UNSUPPORTED", is_lp_mode |-> TRUE]

=============================================================================
