--------------------------- MODULE MCEarlyWarning ---------------------------
(* Instance of EarlyWarning for TLC: rules on the hazard's stage result,   *)
(* on any hazard's predictions, for another hazard, and one that is        *)
(* refused; subscriptions to two channels, to another hazard, and one that *)
(* is refused.                                                             *)
EXTENDS EarlyWarning, TLC

ClerkSymmetry == Permutations(Clerks)

MCRuleConfigs ==
    {[subject |-> "STAGE_RESULT", stage |-> "RISK", hazard |-> HazardType,
      operator |-> "GREATER_THAN_OR_EQUAL", threshold |-> 1],
     [subject |-> "PREDICTION", stage |-> None, hazard |-> None,
      operator |-> "LESS_THAN", threshold |-> 1],
     [subject |-> "PREDICTION", stage |-> "RISK", hazard |-> None,
      operator |-> "GREATER_THAN", threshold |-> 0],
     [subject |-> "STAGE_RESULT", stage |-> "RISK", hazard |-> "OTHER",
      operator |-> "LESS_THAN_OR_EQUAL", threshold |-> 0]}

MCSubConfigs ==
    {[hazard |-> None, channels |-> {"EMAIL", "SMS"}, email |-> TRUE, phone |-> TRUE],
     [hazard |-> HazardType, channels |-> {"SMS", "IN_APP"}, email |-> FALSE, phone |-> FALSE],
     [hazard |-> "OTHER", channels |-> {"IN_APP"}, email |-> FALSE, phone |-> FALSE]}
=============================================================================
