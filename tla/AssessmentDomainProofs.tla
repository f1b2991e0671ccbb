----------------------- MODULE AssessmentDomainProofs -----------------------
(***************************************************************************)
(* Facts about the command methods of the aggregate that hold of every     *)
(* assessment, used by the proofs about the specifications built on them.  *)
(***************************************************************************)
EXTENDS AssessmentDomain, TLAPS

(* A new assessment is well typed. *)
LEMMA CreatedType == Created \in Assessment
  BY DEF Created, Assessment, AssessmentStatus, initialize, WorkflowProgress,
         FreshEntry, StageProgressEntry, StageExecutionStatus

(* The four shapes a command can have. *)
LEMMA CommandCases ==
    ASSUME NEW c \in Command
    PROVE  \/ c.op \in LifecycleOp
           \/ c.op \in StageOp /\ c.stage \in StageType
           \/ c.op = "start_workflow" /\ c.template \in TemplateId
           \/ c.op = "advance_past_running"
  BY DEF Command, LifecycleCommand, StageCommand, StartWorkflowCmd, AdvanceCmd

(* A lifecycle command changes the status, along a legal transition. *)
LEMMA LifecycleCommandMeaning ==
    ASSUME NEW a, NEW c, c.op \in LifecycleOp
    PROVE  /\ Legal(a, c) <=> CanTransition(a, TargetStatus[c.op])
           /\ Apply(a, c) = [a EXCEPT !.status = TargetStatus[c.op]]
           /\ TargetStatus[c.op] \in AssessmentStatus
<1>1. c.op \notin StageOp /\ c.op # "start_workflow" /\ c.op # "advance_past_running"
  BY DEF LifecycleOp, StageOp
<1>2. TargetStatus[c.op] \in AssessmentStatus
  BY DEF TargetStatus, AssessmentStatus, LifecycleOp
<1> QED
  BY <1>1, <1>2 DEF Legal, Apply

(* A stage command moves one stage of a RUNNING assessment. *)
LEMMA StageCommandMeaning ==
    ASSUME NEW a, NEW c, c.op \in StageOp
    PROVE  /\ Legal(a, c) <=> CanMoveStage(a, c.stage, TargetStageStatus[c.op])
           /\ Apply(a, c) = move_stage(a, c.stage, TargetStageStatus[c.op])
           /\ TargetStageStatus[c.op] \in {"RUNNING", "COMPLETE", "FAILED"}
<1>1. c.op \notin LifecycleOp /\ c.op # "start_workflow" /\ c.op # "advance_past_running"
  BY DEF LifecycleOp, StageOp
<1>2. TargetStageStatus[c.op] \in {"RUNNING", "COMPLETE", "FAILED"}
  BY DEF TargetStageStatus, StageOp
<1> QED
  BY <1>1, <1>2 DEF Legal, Apply

(* start_workflow binds the template and clears the progress. *)
LEMMA StartWorkflowMeaning ==
    ASSUME NEW a, NEW c, c.op = "start_workflow"
    PROVE  /\ Legal(a, c) <=> CanStartWorkflow(a, c.template)
           /\ Apply(a, c) = start_workflow(a, c.template)
<1>1. c.op \notin LifecycleOp /\ c.op \notin StageOp
  BY DEF LifecycleOp, StageOp
<1> QED
  BY <1>1 DEF Legal, Apply

(* advance_past_running moves on to VALIDATED. *)
LEMMA AdvanceMeaning ==
    ASSUME NEW a, NEW c, c.op = "advance_past_running"
    PROVE  /\ Legal(a, c) <=> CanAdvance(a)
           /\ Apply(a, c) = [a EXCEPT !.status = "VALIDATED"]
<1>1. c.op \notin LifecycleOp /\ c.op \notin StageOp
  BY DEF LifecycleOp, StageOp
<1> QED
  BY <1>1 DEF Legal, Apply

(* What moving a stage does to the record. *)
LEMMA MoveStageMeaning ==
    ASSUME NEW a \in Assessment, NEW st \in StageType, NEW new \in StageExecutionStatus
    PROVE  /\ move_stage(a, st, new) \in Assessment
           /\ move_stage(a, st, new).status = a.status
           /\ move_stage(a, st, new).workflow_template_id = a.workflow_template_id
           /\ move_stage(a, st, new).workflow_progress =
                 [a.workflow_progress EXCEPT ![st] = advance_to(a.workflow_progress[st], new)]
           /\ advance_to(a.workflow_progress[st], new) \in StageProgressEntry
<1>1. a.workflow_progress[st] \in StageProgressEntry
  BY DEF Assessment, WorkflowProgress
<1>2. advance_to(a.workflow_progress[st], new) \in StageProgressEntry
  BY <1>1 DEF advance_to, StageProgressEntry
<1>3. [a.workflow_progress EXCEPT ![st] = advance_to(a.workflow_progress[st], new)]
         \in WorkflowProgress
  BY <1>2 DEF Assessment, WorkflowProgress
<1> QED
  BY <1>2, <1>3 DEF move_stage, Assessment

(* Commands keep an assessment well typed. *)
LEMMA ApplyType ==
    ASSUME NEW a \in Assessment, NEW c \in Command
    PROVE  Apply(a, c) \in Assessment
<1>1. CASE c.op \in LifecycleOp
  BY <1>1, LifecycleCommandMeaning DEF Assessment
<1>2. CASE c.op \in StageOp /\ c.stage \in StageType
  <2>1. TargetStageStatus[c.op] \in StageExecutionStatus
    BY <1>2, StageCommandMeaning DEF StageExecutionStatus
  <2>2. move_stage(a, c.stage, TargetStageStatus[c.op]) \in Assessment
    BY <1>2, <2>1, MoveStageMeaning
  <2>3. Apply(a, c) = move_stage(a, c.stage, TargetStageStatus[c.op])
    BY <1>2, StageCommandMeaning
  <2> QED
    BY <2>2, <2>3
<1>3. CASE c.op = "start_workflow" /\ c.template \in TemplateId
  <2>1. initialize \in WorkflowProgress
    BY DEF initialize, WorkflowProgress, FreshEntry, StageProgressEntry, StageExecutionStatus
  <2>2. start_workflow(a, c.template) \in Assessment
    BY <1>3, <2>1 DEF start_workflow, Assessment, AssessmentStatus
  <2> QED
    BY <1>3, <2>2, StartWorkflowMeaning
<1>4. CASE c.op = "advance_past_running"
  BY <1>4, AdvanceMeaning DEF Assessment, AssessmentStatus
<1> QED
  BY <1>1, <1>2, <1>3, <1>4, CommandCases

-----------------------------------------------------------------------------
(* An assessment that commands have brought about: untouched until it is   *)
(* started, and with attempts counted exactly for the stages that were.    *)
Sound(a) ==
    /\ a.status \in {"DRAFT", "READY"} =>
          a.workflow_template_id = NoTemplate /\ a.workflow_progress = initialize
    /\ \A st \in StageType :
          a.workflow_progress[st].attempt_count = 0 <=> a.workflow_progress[st].status = "NOT_STARTED"

(* A new assessment is sound. *)
LEMMA CreatedSound == Sound(Created)
  BY DEF Sound, Created, initialize, FreshEntry

(* A legal stage step never leaves COMPLETE, starts from NOT_STARTED or    *)
(* FAILED, and keeps attempts and status in agreement.                     *)
LEMMA StageStep ==
    ASSUME NEW entry \in StageProgressEntry,
           NEW new \in {"RUNNING", "COMPLETE", "FAILED"},
           new \in STAGE_LEGAL_TRANSITIONS[entry.status],
           entry.attempt_count = 0 <=> entry.status = "NOT_STARTED"
    PROVE  /\ entry.status # "COMPLETE"
           /\ advance_to(entry, new).status # "NOT_STARTED"
           /\ advance_to(entry, new).attempt_count \in Nat
           /\ advance_to(entry, new).attempt_count # 0
           /\ advance_to(entry, new).attempt_count >= entry.attempt_count
<1>1. entry.status \in StageExecutionStatus /\ entry.attempt_count \in Nat
  BY DEF StageProgressEntry
<1>2. /\ entry.status # "COMPLETE"
      /\ entry.status = "NOT_STARTED" => new = "RUNNING"
  BY <1>1 DEF STAGE_LEGAL_TRANSITIONS, StageExecutionStatus
<1> QED
  BY <1>1, <1>2 DEF advance_to

(* What one command does to a sound assessment: it stays sound, keeps its  *)
(* template, and loses neither a COMPLETE stage nor an attempt.            *)
LEMMA CommandStep ==
    ASSUME NEW a \in Assessment, Sound(a), NEW c \in Command, Legal(a, c),
           NEW b, b = Apply(a, c)
    PROVE  /\ Sound(b)
           /\ a.workflow_template_id # NoTemplate =>
                 b.workflow_template_id = a.workflow_template_id
           /\ \A st \in StageType :
                 /\ is_complete(a.workflow_progress, st) => is_complete(b.workflow_progress, st)
                 /\ b.workflow_progress[st].attempt_count >= a.workflow_progress[st].attempt_count
<1> DEFINE progress == a.workflow_progress
           progressB == b.workflow_progress
<1>1. b \in Assessment
  BY ApplyType
<1>2. \A st \in StageType : progress[st] \in StageProgressEntry
  BY <1>1 DEF Assessment, WorkflowProgress
<1>3. CASE c.op \in LifecycleOp
  <2>1. /\ b = [a EXCEPT !.status = TargetStatus[c.op]]
        /\ TargetStatus[c.op] \in LEGAL_TRANSITIONS[a.status]
    BY <1>1, <1>3, LifecycleCommandMeaning DEF CanTransition
  <2>2. /\ progressB = progress
        /\ b.workflow_template_id = a.workflow_template_id
        /\ b.status = TargetStatus[c.op]
    BY <1>1, <2>1 DEF Assessment
  <2>3. b.status \in {"DRAFT", "READY"} => a.status \in {"DRAFT", "READY"}
    BY <1>1, <2>1, <2>2 DEF LEGAL_TRANSITIONS, Assessment, AssessmentStatus
  <2>4. \A st \in StageType : progress[st].attempt_count \in Nat
    BY <1>2 DEF StageProgressEntry
  <2> QED
    BY <2>2, <2>3, <2>4 DEF Sound
<1>4. CASE c.op \in StageOp /\ c.stage \in StageType
  <2> DEFINE new == TargetStageStatus[c.op]
             entry == progress[c.stage]
  <2>1. /\ CanMoveStage(a, c.stage, new)
        /\ b = move_stage(a, c.stage, new)
        /\ new \in {"RUNNING", "COMPLETE", "FAILED"}
    BY <1>1, <1>4, StageCommandMeaning
  <2>2. new \in StageExecutionStatus
    BY <2>1 DEF StageExecutionStatus
  <2>3. /\ b.status = a.status
        /\ b.workflow_template_id = a.workflow_template_id
        /\ progressB = [progress EXCEPT ![c.stage] = advance_to(entry, new)]
    BY <1>1, <1>4, <2>1, <2>2, MoveStageMeaning
  <2>4. a.status = "RUNNING" /\ new \in STAGE_LEGAL_TRANSITIONS[entry.status]
    BY <2>1 DEF CanMoveStage
  <2>5. entry \in StageProgressEntry
    BY <1>2, <1>4
  <2>6. entry.attempt_count = 0 <=> entry.status = "NOT_STARTED"
    BY <1>4 DEF Sound
  <2>7. /\ entry.status # "COMPLETE"
        /\ advance_to(entry, new).status # "NOT_STARTED"
        /\ advance_to(entry, new).attempt_count # 0
        /\ advance_to(entry, new).attempt_count >= entry.attempt_count
    BY <2>1, <2>4, <2>5, <2>6, StageStep
  <2> HIDE DEF new, entry
  <2>8. DOMAIN progress = StageType
    BY <1>1 DEF Assessment, WorkflowProgress
  <2>9. \A st \in StageType :
           progressB[st] = IF st = c.stage THEN advance_to(entry, new) ELSE progress[st]
    BY <2>3, <2>8
  <2>10. \A st \in StageType : progress[st].attempt_count \in Nat
    BY <1>2 DEF StageProgressEntry
  <2>11. Sound(b)
    BY <2>3, <2>4, <2>7, <2>9 DEF Sound
  <2>13. \A st \in StageType :
            /\ is_complete(progress, st) => is_complete(progressB, st)
            /\ progressB[st].attempt_count >= progress[st].attempt_count
    <3> SUFFICES ASSUME NEW st \in StageType
                 PROVE  /\ is_complete(progress, st) => is_complete(progressB, st)
                        /\ progressB[st].attempt_count >= progress[st].attempt_count
      OBVIOUS
    <3>1. CASE st = c.stage
      <4>1. progressB[st] = advance_to(entry, new) /\ progress[st] = entry
        BY <2>9, <3>1 DEF entry
      <4>2. ~is_complete(progress, st)
        BY <2>7, <4>1 DEF is_complete
      <4> QED
        BY <2>7, <4>1, <4>2
    <3>2. CASE st # c.stage
      <4>1. progressB[st] = progress[st]
        BY <2>9, <3>2
      <4>2. progress[st].attempt_count \in Nat
        BY <2>10
      <4>3. progressB[st].attempt_count >= progress[st].attempt_count
        BY <4>1, <4>2
      <4> QED
        BY <4>1, <4>3 DEF is_complete
    <3> QED
      BY <3>1, <3>2
  <2> QED
    BY <2>3, <2>11, <2>13
<1>5. CASE c.op = "start_workflow" /\ c.template \in TemplateId
  <2>1. /\ CanStartWorkflow(a, c.template)
        /\ b = start_workflow(a, c.template)
    BY <1>1, <1>5, StartWorkflowMeaning
  <2>2. /\ b.status = "RUNNING"
        /\ b.workflow_template_id = c.template
        /\ progressB = initialize
    BY <1>1, <2>1 DEF start_workflow, Assessment
  <2>3. a.status = "READY"
    BY <1>1, <2>1 DEF CanStartWorkflow, CanTransition, LEGAL_TRANSITIONS, Assessment, AssessmentStatus
  <2>4. a.workflow_template_id = NoTemplate /\ progress = initialize
    BY <2>3 DEF Sound
  <2>5. \A st \in StageType : initialize[st] = FreshEntry
    BY DEF initialize
  <2>6. Sound(b)
    BY <2>2, <2>5 DEF Sound, FreshEntry
  <2>8. \A st \in StageType :
           /\ is_complete(progress, st) => is_complete(progressB, st)
           /\ progressB[st].attempt_count >= progress[st].attempt_count
    <3> SUFFICES ASSUME NEW st \in StageType
                 PROVE  /\ is_complete(progress, st) => is_complete(progressB, st)
                        /\ progressB[st].attempt_count >= progress[st].attempt_count
      OBVIOUS
    <3>1. progressB[st] = FreshEntry /\ progress[st] = FreshEntry
      BY <2>2, <2>4, <2>5
    <3>2. FreshEntry.attempt_count = 0
      BY DEF FreshEntry
    <3>3. progressB[st].attempt_count >= progress[st].attempt_count
      BY <3>1, <3>2
    <3> QED
      BY <3>1, <3>3 DEF is_complete
  <2> QED
    BY <2>4, <2>6, <2>8
<1>6. CASE c.op = "advance_past_running"
  <2>1. b = [a EXCEPT !.status = "VALIDATED"]
    BY <1>1, <1>6, AdvanceMeaning
  <2>2. /\ progressB = progress
        /\ b.workflow_template_id = a.workflow_template_id
        /\ b.status = "VALIDATED"
    BY <1>1, <2>1 DEF Assessment
  <2>3. \A st \in StageType : progress[st].attempt_count \in Nat
    BY <1>2 DEF StageProgressEntry
  <2> QED
    BY <2>2, <2>3 DEF Sound
<1> QED
  BY <1>3, <1>4, <1>5, <1>6, CommandCases

-----------------------------------------------------------------------------
(* The placeholder of an idle handler is a command. *)
LEMMA NoCmdType == NoCmd \in Command
  BY DEF NoCmd, Command, LifecycleCommand, LifecycleOp

(* The UPDATE yields a well-typed row. *)
LEMMA OverwriteType ==
    ASSUME NEW row \in Assessment, NEW model, NEW held \in Assessment, NEW c \in Command
    PROVE  Overwrite(row, model, Apply(held, c), c) \in Assessment
<1>1. Apply(held, c) \in Assessment
  BY ApplyType
<1> DEFINE entity == Apply(held, c)
<1>2. entity \in Assessment
  BY <1>1
<1> HIDE DEF entity
<1>3. Overwrite(row, model, entity, c) \in Assessment
  BY <1>2 DEF Overwrite, Assessment
<1> QED
  BY <1>3 DEF entity

(* Nobody wrote in between: the row becomes the command's result.          *)
LEMMA SerialOverwrite ==
    ASSUME NEW row \in Assessment, NEW c \in Command
    PROVE  Overwrite(row, row, Apply(row, c), c) = Apply(row, c)
<1> DEFINE entity == Apply(row, c)
<1>1. entity \in Assessment
  BY ApplyType
<1> HIDE DEF entity
<1>2. Overwrite(row, row, entity, c) = entity
  BY <1>1 DEF Overwrite, Assessment
<1> QED
  BY <1>2 DEF entity

=============================================================================
