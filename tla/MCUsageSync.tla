---------------------------- MODULE MCUsageSync ----------------------------
(* Small instances of UsageSync. *)
EXTENDS UsageSync

CONSTANTS v1, d1, d2

(* One event content falls on the day the rollup may cover, one does not.  *)
MCEventDay == [v \in Vals |-> IF v = v1 THEN d1 ELSE d2]
MCRollupDay == [r \in Rollups |-> d1]
=============================================================================
