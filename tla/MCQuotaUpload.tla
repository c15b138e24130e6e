--------------------------- MODULE MCQuotaUpload ---------------------------
EXTENDS QuotaUpload

(* Samples from a clock that may go back between two checks, one that the  *)
(* server refuses for its metrics, and a failure so early that it refuses  *)
(* the provider's state until a later check replaces it; a tick that asks  *)
(* no provider stands for those that bring nothing new.                    *)
SomeItems ==
  [at : {1, 2}, ok : {TRUE}, valid : {TRUE}]
    \cup {[at |-> 2, ok |-> TRUE, valid |-> FALSE], [at |-> 0, ok |-> FALSE, valid |-> TRUE]}
=============================================================================
