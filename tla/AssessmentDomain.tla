-------------------------- MODULE AssessmentDomain --------------------------
(***************************************************************************)
(* The Assessment aggregate (contexts/assessment/domain): the two finite   *)
(* state machines it is made of, and its command methods as pure operators *)
(* on an assessment record.  Nothing here has state of its own; the        *)
(* specifications AssessmentLifecycle, AssessmentStore and WorkflowEngine  *)
(* all apply these operators, each with its own notion of a step.          *)
(*                                                                         *)
(* Abstracted away: identifiers, names, timestamps, stage_result_ref and   *)
(* last_error (no guard of the assessment context reads them).             *)
(***************************************************************************)
EXTENDS Naturals

CONSTANTS
    StageType,      \* the stage types a progress entry may be keyed by
    TemplateId,     \* ids of the workflow templates in the database
    NoTemplate,     \* workflow_template_id is None
    Template        \* the stored templates: [TemplateId -> WorkflowTemplate]

-----------------------------------------------------------------------------
(* Status machines *)

AssessmentStatus ==
    {"DRAFT", "READY", "RUNNING", "VALIDATED", "REPORTED", "ARCHIVED", "CANCELLED"}

LEGAL_TRANSITIONS ==
    [ DRAFT     |-> {"READY", "CANCELLED"},
      READY     |-> {"RUNNING", "CANCELLED"},
      RUNNING   |-> {"VALIDATED", "CANCELLED"},
      VALIDATED |-> {"REPORTED", "CANCELLED"},
      REPORTED  |-> {"ARCHIVED"},
      ARCHIVED  |-> {},
      CANCELLED |-> {} ]

StageExecutionStatus == {"NOT_STARTED", "RUNNING", "COMPLETE", "FAILED"}

\* Faulty variant: a COMPLETE stage may be run again.
CompleteMayRerun ==
    [ NOT_STARTED |-> {"RUNNING"},
      RUNNING     |-> {"COMPLETE", "FAILED"},
      FAILED      |-> {"RUNNING"},
      COMPLETE    |-> {"RUNNING"} ]

STAGE_LEGAL_TRANSITIONS ==
    [ NOT_STARTED |-> {"RUNNING"},
      RUNNING     |-> {"COMPLETE", "FAILED"},
      FAILED      |-> {"RUNNING"},
      COMPLETE    |-> {} ]

-----------------------------------------------------------------------------
(* Workflow templates, as far as an assessment depends on them.  The stages *)
(* of a template are distinct; "rank" is a stage's position in the tuple    *)
(* stage_definitions.  create rejects a template without stages, and a      *)
(* stage definition allows at least one attempt.                            *)

WorkflowTemplateStatus == {"DRAFT", "PUBLISHED", "DEPRECATED"}
TriggerMode == {"AUTOMATIC", "MANUAL"}

WorkflowTemplate ==
    [ status                : WorkflowTemplateStatus,
      hazard_match          : BOOLEAN,  \* hazard_type equals the assessment's
      stages                : (SUBSET StageType) \ {{}},
      rank                  : [StageType -> Nat],
      required_predecessors : [StageType -> SUBSET StageType],
      trigger_mode          : [StageType -> TriggerMode],
      max_attempts          : [StageType -> Nat \ {0}] ]

ASSUME TemplateAssumption ==
    /\ NoTemplate \notin TemplateId
    /\ Template \in [TemplateId -> WorkflowTemplate]

required_stage_types(t) == Template[t].stages

-----------------------------------------------------------------------------
(* WorkflowProgress: a lookup of a stage without an entry answers with a    *)
(* fresh entry, so the map is a total function.                             *)

StageProgressEntry == [status : StageExecutionStatus, attempt_count : Nat]

FreshEntry == [status |-> "NOT_STARTED", attempt_count |-> 0]

WorkflowProgress == [StageType -> StageProgressEntry]

initialize == [st \in StageType |-> FreshEntry]

is_complete(progress, st) == progress[st].status = "COMPLETE"

all_complete(progress, sts) == \A st \in sts : is_complete(progress, st)

\* Faulty variant: a failure gives the attempt back.
advance_to_refunding(entry, new) ==
    [ status        |-> new,
      attempt_count |-> CASE new = "RUNNING" -> entry.attempt_count + 1
                          [] new = "FAILED"  -> entry.attempt_count - 1
                          [] OTHER           -> entry.attempt_count ]

advance_to(entry, new) ==
    [ status        |-> new,
      attempt_count |-> IF new = "RUNNING" THEN entry.attempt_count + 1
                                           ELSE entry.attempt_count ]

\* Faulty variant: predecessors are not looked at.
runnable_ignoring_dag(t, progress) ==
    {st \in Template[t].stages : progress[st].status \in {"NOT_STARTED", "FAILED"}}

runnable_stages(t, progress) ==
    { st \in Template[t].stages :
        /\ progress[st].status \in {"NOT_STARTED", "FAILED"}
        /\ all_complete(progress, Template[t].required_predecessors[st]) }

-----------------------------------------------------------------------------
(* The aggregate and its commands *)

Assessment ==
    [ status               : AssessmentStatus,
      workflow_template_id : TemplateId \cup {NoTemplate},
      workflow_progress    : WorkflowProgress ]

Created ==
    [ status |-> "DRAFT", workflow_template_id |-> NoTemplate,
      workflow_progress |-> initialize ]

\* The status a lifecycle command asks for.
TargetStatus ==
    [ mark_ready    |-> "READY",    start   |-> "RUNNING",  mark_validated |-> "VALIDATED",
      mark_reported |-> "REPORTED", archive |-> "ARCHIVED", cancel         |-> "CANCELLED" ]

\* The stage status a stage command asks for.
TargetStageStatus ==
    [ start_stage |-> "RUNNING", complete_stage |-> "COMPLETE", fail_stage |-> "FAILED" ]

LifecycleOp == {"mark_ready", "start", "mark_validated", "mark_reported", "archive", "cancel"}
StageOp     == {"start_stage", "complete_stage", "fail_stage"}

LifecycleCommand == [op : LifecycleOp]
StageCommand     == [op : StageOp, stage : StageType]
StartWorkflowCmd == [op : {"start_workflow"}, template : TemplateId]
AdvanceCmd       == [op : {"advance_past_running"}]

Command == LifecycleCommand \cup StageCommand \cup StartWorkflowCmd \cup AdvanceCmd

CanTransition(a, new) == new \in LEGAL_TRANSITIONS[a.status]

\* Faulty variant: a RUNNING assessment may start over with another template.
CanRestartWorkflow(a, t) ==
    /\ Template[t].status = "PUBLISHED"
    /\ Template[t].hazard_match
    /\ a.status \in {"READY", "RUNNING"}

\* Assessment.start_workflow, with the checks StartWorkflowHandler makes first.
CanStartWorkflow(a, t) ==
    /\ Template[t].status = "PUBLISHED"
    /\ Template[t].hazard_match
    /\ CanTransition(a, "RUNNING")

\* Faulty variant: a status the enumeration does not have.
start_workflow_unknown_status(a, t) ==
    [a EXCEPT !.status = "STARTED",
              !.workflow_template_id = t,
              !.workflow_progress = initialize]

start_workflow(a, t) ==
    [a EXCEPT !.status = "RUNNING",
              !.workflow_template_id = t,
              !.workflow_progress = initialize]

\* Faulty variants: the assessment's status, or the stage's, is not checked.
CanMoveStageAnytime(a, st, new) ==
    new \in STAGE_LEGAL_TRANSITIONS[a.workflow_progress[st].status]
CanMoveStageUnchecked(a, st, new) == a.status = "RUNNING"

\* start_stage, complete_stage and fail_stage: a legal step of the stage's
\* own machine, taken only while the assessment is RUNNING.
CanMoveStage(a, st, new) ==
    /\ a.status = "RUNNING"
    /\ new \in STAGE_LEGAL_TRANSITIONS[a.workflow_progress[st].status]

move_stage(a, st, new) ==
    [a EXCEPT !.workflow_progress[st] = advance_to(a.workflow_progress[st], new)]

\* Assessment.advance_past_running, with the checks AdvanceAssessmentHandler
\* makes first.
CanAdvance(a) ==
    /\ a.workflow_template_id # NoTemplate
    /\ all_complete(a.workflow_progress, required_stage_types(a.workflow_template_id))
    /\ CanTransition(a, "VALIDATED")

\* The guard of a command: the handler raises when it is false.
Legal(a, c) ==
    \/ c.op \in LifecycleOp           /\ CanTransition(a, TargetStatus[c.op])
    \/ c.op \in StageOp               /\ CanMoveStage(a, c.stage, TargetStageStatus[c.op])
    \/ c.op = "start_workflow"        /\ CanStartWorkflow(a, c.template)
    \/ c.op = "advance_past_running"  /\ CanAdvance(a)

\* The assessment after a legal command.
Apply(a, c) ==
    CASE c.op \in LifecycleOp         -> [a EXCEPT !.status = TargetStatus[c.op]]
      [] c.op \in StageOp             -> move_stage(a, c.stage, TargetStageStatus[c.op])
      [] c.op = "start_workflow"       -> start_workflow(a, c.template)
      [] c.op = "advance_past_running" -> [a EXCEPT !.status = "VALIDATED"]

-----------------------------------------------------------------------------
(* The UPDATE of a save: the columns of the row after a transaction that    *)
(* re-selected "model" has written "entity", the result of command c, into  *)
(* it.  A column is in the SET list when the entity's value differs from    *)
(* the re-selected one (the JSON that start_workflow builds, with the       *)
(* template's id in it, always does); the row keeps the others.             *)
Overwrite(row, model, entity, c) ==
    [ status |->
        IF entity.status # model.status THEN entity.status ELSE row.status,
      workflow_template_id |->
        IF entity.workflow_template_id # model.workflow_template_id
        THEN entity.workflow_template_id ELSE row.workflow_template_id,
      workflow_progress |->
        IF c.op = "start_workflow" \/ entity.workflow_progress # model.workflow_progress
        THEN entity.workflow_progress ELSE row.workflow_progress ]

\* The placeholder where no command is being handled.
NoCmd == [op |-> "cancel"]

=============================================================================
