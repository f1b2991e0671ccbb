----------------------- MODULE MCAssessmentLifecycle -----------------------
(* Bounded instance of AssessmentLifecycle: two templates over three stage *)
(* types, one of which no template defines.                                *)
EXTENDS AssessmentLifecycle

CONSTANTS A, B, X, T1, T2, AttemptCap

MCStageType == {A, B, X}
MCTemplateId == {T1, T2}

MCTemplate ==
    [t \in MCTemplateId |->
        [ status |-> "PUBLISHED", hazard_match |-> TRUE,
          stages |-> IF t = T1 THEN {A, B} ELSE {B},
          rank |-> [st \in MCStageType |-> IF st = A THEN 1 ELSE 2],
          required_predecessors |-> [st \in MCStageType |-> IF t = T1 /\ st = B THEN {A} ELSE {}],
          trigger_mode |-> [st \in MCStageType |-> "AUTOMATIC"],
          max_attempts |-> [st \in MCStageType |-> 2] ]]

\* Stages fail and are retried without end: at most AttemptCap attempts each.
AttemptsCapped == \A st \in StageType : progress[st].attempt_count <= AttemptCap

MCNext == Next /\ AttemptsCapped'
MCSpec == Init /\ [][MCNext]_assessment

=============================================================================
