---------------------------- MODULE MCExchangeRate ----------------------------
(* Instances of ExchangeRate for TLC: an error threshold from the          *)
(* workload's annotation, and the default of 5% after an annotation that   *)
(* is no number.                                                           *)
EXTENDS ExchangeRate

FromDefault == [annotation |-> Garbage, env |-> Unset]
FromAnnotation == [annotation |-> 50, env |-> 20]
TwoSources == {FromDefault, FromAnnotation}
Defaults == {FromDefault}

(* The pods are interchangeable. *)
AnyOrder == Permutations(Pods)
=============================================================================
