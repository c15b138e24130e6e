--------------------------- MODULE MCServerAdmin ---------------------------
(* The server over the databases of three generations of the program: two  *)
(* machines known by name only, or one node of protocol v2, with detail of *)
(* two tools that used one request id; then an administrator and a client. *)
EXTENDS ServerAdmin, TLC

Multiplied(m, blanks, how, snapshot) ==
  [model |-> m, padded |-> blanks, mode |-> how, priced |-> snapshot]

(* One model: an old document whose mode is migrated, for a padded name;   *)
(* a document that lists the model twice once its blanks are gone; and     *)
(* aliases, one of them blank.                                             *)
SomeBodies ==
  LET m == CHOOSE x \in Models : TRUE
      p == CHOOSE x \in Providers : TRUE
      migrated == Multiplied(m, TRUE, "input", NoPrice)
      overall == Multiplied(m, FALSE, "overall", NoPrice)
  IN {[multipliers |-> <<migrated>>, aliases |-> <<[of |-> p, blank |-> TRUE]>>],
      [multipliers |-> <<overall, migrated>>, aliases |-> <<>>]}

Symmetry == Permutations(Legacy) \cup Permutations(Uuids) \cup Permutations(Apps)
              \cup Permutations(Tokens) \cup Permutations(Handlers)
=============================================================================
