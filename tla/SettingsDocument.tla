-------------------------- MODULE SettingsDocument --------------------------
(***************************************************************************)
(* What settings.json says (telemetry-server/src/settings.rs), as far as   *)
(* accepting and normalizing it depends on it: the billing multipliers of  *)
(* models with their reference prices, and the aliases of providers.  The  *)
(* other lists are held to the rule of the aliases (no identity twice);    *)
(* ranges, lengths and characters of single values are left out.           *)
(***************************************************************************)
EXTENDS Naturals, Sequences, SequencesExt

CONSTANTS Models, Providers, NoPrice

ASSUME PriceAssumption == NoPrice \notin Models

(* padded: blanks around the name.  A mode other than "overall" stands for *)
(* one with a factor that is not 1; priced is the model that the snapshot  *)
(* of reference prices names.                                              *)
Multiplier ==
  [model : Models, padded : BOOLEAN, mode : {"overall", "input", "components"},
   priced : Models \cup {NoPrice}]

Alias == [of : Providers, blank : BOOLEAN]

Document(size) ==
  [multipliers : UNION {[1 .. n -> Multiplier] : n \in 0 .. size},
   aliases : UNION {[1 .. n -> Alias] : n \in 0 .. size}]

DefaultSettings == [multipliers |-> <<>>, aliases |-> <<>>]

(* The checks of normalize: names are compared without their blanks, and   *)
(* an alias counts for its provider even if it is blank.                   *)
Acceptable(d) ==
  /\ \A i \in DOMAIN d.multipliers :
       /\ d.multipliers[i].priced \in {NoPrice, d.multipliers[i].model}
       /\ \A j \in DOMAIN d.multipliers :
            d.multipliers[i].model = d.multipliers[j].model => i = j
  /\ \A i, j \in DOMAIN d.aliases : d.aliases[i].of = d.aliases[j].of => i = j

NormalMultiplier(e) ==
  [e EXCEPT !.padded = FALSE, !.mode = IF @ = "input" THEN "components" ELSE @]

(* The aliases that are not blank, in their order.                         *)
Retained(aliases) ==
  LET kept[n \in 0 .. Len(aliases)] ==
        IF n = 0 THEN <<>>
        ELSE IF aliases[n].blank THEN kept[n - 1] ELSE Append(kept[n - 1], aliases[n])
  IN kept[Len(aliases)]

Normalize(d) ==
  [multipliers |-> [i \in DOMAIN d.multipliers |-> NormalMultiplier(d.multipliers[i])],
   aliases |-> Retained(d.aliases)]

(* admin_put asks the catalogue for the prices of the models whose cost is *)
(* split into components, unless the document brings them.                 *)
Unpriced(d) ==
  {i \in DOMAIN d.multipliers :
     d.multipliers[i].mode # "overall" /\ d.multipliers[i].priced = NoPrice}

WithPrices(d, found) ==
  LET priced(e) == [e EXCEPT !.priced = e.model]
      entries == d.multipliers
  IN [d EXCEPT !.multipliers =
        [i \in DOMAIN entries |-> IF i \in found THEN priced(entries[i]) ELSE entries[i]]]
=============================================================================
