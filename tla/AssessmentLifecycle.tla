------------------------ MODULE AssessmentLifecycle ------------------------
(***************************************************************************)
(* What the assessment context promises about one assessment: it is        *)
(* created as a DRAFT and every committed command handler moves it by one  *)
(* legal command, atomically.  AssessmentStore, the database transactions  *)
(* behind a handler, is compared with this specification.                  *)
(***************************************************************************)
EXTENDS AssessmentDomain

VARIABLE assessment

Init == assessment = Created

\* One committed handler.
Handle(c) ==
    /\ Legal(assessment, c)
    /\ assessment' = Apply(assessment, c)

MarkReady    == Handle([op |-> "mark_ready"])
Start        == Handle([op |-> "start"])
Validate     == Handle([op |-> "mark_validated"])
Report       == Handle([op |-> "mark_reported"])
Archive      == Handle([op |-> "archive"])
Cancel       == Handle([op |-> "cancel"])
StartWorkflow(t)          == Handle([op |-> "start_workflow", template |-> t])
ExecuteStage(st)          == Handle([op |-> "start_stage", stage |-> st])
RecordStageCompletion(st) == Handle([op |-> "complete_stage", stage |-> st])
RecordStageFailure(st)    == Handle([op |-> "fail_stage", stage |-> st])
AdvanceAssessment         == Handle([op |-> "advance_past_running"])

Next ==
    \/ MarkReady \/ Start \/ Validate \/ Report \/ Archive \/ Cancel
    \/ \E t \in TemplateId : StartWorkflow(t)
    \/ \E st \in StageType : ExecuteStage(st) \/ RecordStageCompletion(st)
                                              \/ RecordStageFailure(st)
    \/ AdvanceAssessment

Spec == Init /\ [][Next]_assessment

-----------------------------------------------------------------------------
TypeOK == assessment \in Assessment

progress == assessment.workflow_progress

(* Nothing is executed before the assessment runs: an assessment that has  *)
(* not been started has no template bound and only fresh stage entries.    *)
(* start_workflow (entities.py) relies on it: it throws the old progress   *)
(* away without looking at it.                                             *)
UntouchedBeforeRunning ==
    assessment.status \in {"DRAFT", "READY"} =>
        /\ assessment.workflow_template_id = NoTemplate
        /\ progress = initialize

(* A stage's attempt_count and its status tell the same story: no attempt  *)
(* was counted exactly when the stage was never started.                   *)
AttemptsMatchStatus ==
    \A st \in StageType :
        progress[st].attempt_count = 0 <=> progress[st].status = "NOT_STARTED"

(* The two state machines agree: what the entity's status says of the      *)
(* workflow and what the stage entries say of their attempts hold          *)
(* together, whichever commands come in whatever order (entities.py).      *)
Inv == TypeOK /\ UntouchedBeforeRunning /\ AttemptsMatchStatus

(* Once an assessment is bound to a template it stays bound to that one:   *)
(* the engine re-reads workflow_template_id before every reaction and      *)
(* would otherwise judge progress against another DAG.                     *)
BindingIsPermanent ==
    [][assessment.workflow_template_id # NoTemplate =>
          assessment'.workflow_template_id = assessment.workflow_template_id]_assessment

(* No command undoes work: a COMPLETE stage stays COMPLETE and no attempt  *)
(* is forgotten, whatever commands come later.                             *)
WorkIsNeverUndone ==
    [][\A st \in StageType :
          /\ is_complete(progress, st) => is_complete(progress', st)
          /\ progress'[st].attempt_count >= progress[st].attempt_count]_assessment

=============================================================================
