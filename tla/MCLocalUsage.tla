---------------------------- MODULE MCLocalUsage ----------------------------
(* Two session files: a and c, of two days, in one; b, of the day of a, in  *)
(* the other.                                                              *)
EXTENDS LocalUsage

CONSTANTS a, b, c, f1, f2

MCFileOf == [r \in Records |-> IF r = b THEN f2 ELSE f1]
MCDayOf == [r \in Records |-> IF r = c THEN 1 ELSE 0]
=============================================================================
