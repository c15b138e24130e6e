--------------------------- MODULE MCQuotaResets ---------------------------
(* Small instances of QuotaResets and QuotaHistory. *)
EXTENDS QuotaHistory

(* Resets that drift by more than the jitter in small steps, samples of    *)
(* one moment, a sample without a reset, and amounts among percentages.    *)
SomeContents ==
  {[at |-> 1, resets |-> 4, used |-> FALSE, percent |-> TRUE],
   [at |-> 2, resets |-> 5, used |-> TRUE, percent |-> TRUE],
   [at |-> 2, resets |-> 6, used |-> TRUE, percent |-> TRUE],
   [at |-> 3, resets |-> 0, used |-> FALSE, percent |-> FALSE],
   [at |-> 3, resets |-> 5, used |-> TRUE, percent |-> TRUE]}
=============================================================================
