---------------------------- MODULE MCUsageCache ----------------------------
(* Small instances of UsageCache. *)
EXTENDS UsageCache

Day(from, to) == [from |-> from, to |-> to]

(* Source-local days in a zone a whole number of hours from UTC: one of a  *)
(* single hour, one that ends with the last hour.                          *)
WholeHourDays == {Day(0, 2), Day(2, 2 * Hours)}

(* The same in a zone half an hour off: the day begins and ends within an  *)
(* hour.                                                                   *)
HalfHourDays == {Day(1, 3)}

ASSUME DaysAligned == DayRanges = WholeHourDays => HourAligned
=============================================================================
