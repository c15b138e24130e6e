-------------------------- MODULE MCCcSwitchMirror --------------------------
(* Three rows over two days, the first of one day. *)
EXTENDS CcSwitchMirror

TwoDays == [r \in 1 .. RowCount |-> IF r = 1 THEN 1 ELSE 2]
=============================================================================
