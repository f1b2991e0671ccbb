------------------------- MODULE MCAssessmentStore -------------------------
(* Bounded instances of AssessmentStore: two handlers in flight on one     *)
(* assessment, one template of one stage.                                  *)
EXTENDS AssessmentStore

CONSTANTS A, T1

MCStageType == {A}
MCTemplateId == {T1}

MCTemplate ==
    [t \in MCTemplateId |->
        [ status |-> "PUBLISHED", hazard_match |-> TRUE, stages |-> {A},
          rank |-> [st \in MCStageType |-> 1],
          required_predecessors |-> [st \in MCStageType |-> {}],
          trigger_mode |-> [st \in MCStageType |-> "AUTOMATIC"],
          max_attempts |-> [st \in MCStageType |-> 2] ]]

=============================================================================
