------------------------ MODULE WorkflowEngineProofs ------------------------
(***************************************************************************)
(* The safety of WorkflowEngine for every set of requests, stage types and *)
(* templates, every number of requests in flight and any of them lost.     *)
(*                                                                         *)
(* DispatchRespectsDag is not inductive: a dispatch loop starts stages     *)
(* from a list it computed long before, so the invariant speaks of the     *)
(* lists (FramesOK).  They never go stale in the dangerous direction       *)
(* because no command takes COMPLETE away from a stage or rebinds an       *)
(* assessment (CommandStep), which in turn needs Sound.                    *)
(*                                                                         *)
(* Two more properties need an account of what requests have still to do,  *)
(* and rest on a second invariant, Obligations.  NothingForgotten: for     *)
(* every stage that could be dispatched there is a request that will come  *)
(* to it (Watched).  AttemptsBounded: the lists stages wait in, the        *)
(* dispatches not computed yet and the attempts under way are counted      *)
(* against the completed stages and manual calls they came from (Budget);  *)
(* a retry is decided on one count of attempts and begun on another, so    *)
(* the accounting changes at max_attempts.                                 *)
(*                                                                         *)
(* A handler's version check and its commit are two steps of the           *)
(* specification.  As long as no two handlers have met, the one that       *)
(* commits still holds the committed row, and its command is legal there   *)
(* (Serial): seen from the requests the check does nothing and the commit  *)
(* is the whole command (AtomicView).  The rest is proved of that view,    *)
(* and holds until two handlers meet.                                      *)
(***************************************************************************)
EXTENDS WorkflowEngine, AssessmentDomainProofs, FiniteSetTheorems

\* Stages whose predecessors are all COMPLETE.
Cleared ==
    {st \in StageType :
        all_complete(progress, Template[template].required_predecessors[st])}

Attempting == {"execute", "executing", "succeeded", "failed", "stage_failed"}

\* What is known of one request.
RequestOK(r) ==
    /\ pc[r] \in {"idle", "start"} => frames[r] = <<>>
    /\ frames[r] # <<>> \/ pc[r] = "dispatch" => template # NoTemplate
    /\ \A i \in 1..Len(frames[r]) : frames[r][i] \subseteq Cleared
    /\ frames[r] # <<>> /\ pc[r] \in Attempting => stage[r] \in Cleared

FramesOK == \A r \in Request : RequestOK(r)

Inv == TypeOK /\ Sound(assessment) /\ ExecutorsApart /\ FramesOK

-----------------------------------------------------------------------------
(* The atomic view of the engine *)

\* A legal command in one step.
Effect(c) == Legal(assessment, c) /\ assessment' = Apply(assessment, c)

Commits(r, c, label) ==
    /\ Effect(c)
    /\ Goto(r, label)
    /\ UNCHANGED <<route, stage, frames>>

SendStart(r) ==
    /\ CanSend(r)
    /\ route' = [route EXCEPT ![r] = "start_workflow"]
    /\ Goto(r, "start")
    /\ UNCHANGED <<assessment, stage, frames>>

StartCommit(r, t) ==
    /\ pc[r] = "start"
    /\ Commits(r, [op |-> "start_workflow", template |-> t], "dispatch")

ExecuteCommit(r) ==
    /\ pc[r] = "execute"
    /\ Commits(r, [op |-> "start_stage", stage |-> stage[r]], "executing")

CompletionCommit(r) ==
    /\ pc[r] = "succeeded"
    /\ Commits(r, [op |-> "complete_stage", stage |-> stage[r]], "completed")

FailureCommit(r) ==
    /\ pc[r] = "failed"
    /\ Commits(r, [op |-> "fail_stage", stage |-> stage[r]], "stage_failed")

AdvanceCommit(r) ==
    /\ pc[r] = "advance"
    /\ Commits(r, [op |-> "advance_past_running"], AfterCall(r))

UserEffect(c) == Effect(c) /\ UNCHANGED engineVars

\* A request ends early: refused, in conflict, or lost.
Gone(r) == \E label \in {"raised", "lost", "abandoned"} : Leave(r, label)

LocalStep(r) ==
    \/ Dispatch(r) \/ (\E st \in StageType : DispatchNext(r, st)) \/ DispatchEnd(r)
    \/ ExecuteCommit(r) \/ RunExecutor(r)
    \/ CompletionCommit(r) \/ FailureCommit(r)
    \/ OnStageCompleted(r) \/ AdvanceCommit(r) \/ OnStageFailed(r)

AtomicNext ==
    \/ UNCHANGED <<assessment, pc, route, stage, frames>>
    \/ \E r \in Request :
          \/ SendStart(r)
          \/ \E t \in TemplateId : StartCommit(r, t)
          \/ \E st \in StageType : ManualExecute(r, st)
          \/ LocalStep(r)
          \/ Gone(r)
    \/ \E c \in UserCommand : UserEffect(c)

(* At most one handler is between version check and commit, and it holds   *)
(* the committed assessment.                                               *)
Serial ==
    /\ \A a, b \in open : a = b
    /\ \A a \in open : loaded[a] = assessment /\ Legal(assessment, cmd[a])

(* The commit of a handler that met no other is its command.               *)
LEMMA HandleIsEffect ==
    ASSUME TypeOK, Serial, NEW a \in Actor, NEW c, Handle(a, c)
    PROVE  Effect(c)
<1>1. /\ loaded[a] = assessment /\ Legal(assessment, c)
      /\ assessment \in Assessment /\ c \in Command
  BY DEF Serial, Handle, TypeOK
<1>2. Overwrite(assessment, assessment, Apply(assessment, c), c) = Apply(assessment, c)
  BY <1>1, SerialOverwrite
<1> QED
  BY <1>1, <1>2 DEF Handle, Written, Effect

(* A handler leaves the engine alone, commits, or ends its request.        *)
LEMMA TransactionCases ==
    ASSUME TypeOK, Serial, NEW r \in Request, NEW c, NEW label, Transaction(r, c, label)
    PROVE  \/ UNCHANGED <<assessment, pc, route, stage, frames>>
           \/ Commits(r, c, label)
           \/ Gone(r)
<1>1. CASE Check(r, c) /\ UNCHANGED engineVars
  BY <1>1 DEF Check, engineVars
<1>2. CASE Handle(r, c) /\ Goto(r, label) /\ UNCHANGED <<route, stage, frames>>
  BY <1>2, HandleIsEffect DEF Commits, Actor
<1>3. CASE Refused(r, c)
  BY <1>3 DEF Refused, Gone
<1>4. CASE Conflict(r)
  BY <1>4 DEF Conflict, Abandon, Gone
<1> QED
  BY <1>1, <1>2, <1>3, <1>4 DEF Transaction

(* Until two handlers meet, every step is a step of the atomic view.       *)
LEMMA AtomicView ==
    ASSUME TypeOK, Serial, [Next]_vars
    PROVE  AtomicNext
<1>1. CASE UNCHANGED vars
  BY <1>1 DEF vars, AtomicNext
<1>2. ASSUME NEW r \in Request, NEW t \in TemplateId, SendStartWorkflow(r, t)
      PROVE  AtomicNext
  <2>1. SendStart(r)
    BY <1>2 DEF SendStartWorkflow, SendStart, Check
  <2> QED
    BY <2>1 DEF AtomicNext
<1>3. ASSUME NEW r \in Request, NEW st \in StageType, ManualExecute(r, st)
      PROVE  AtomicNext
  BY <1>3 DEF AtomicNext
<1>4. ASSUME NEW r \in Request, EngineStep(r)
      PROVE  AtomicNext
  <2>1. CASE StartWorkflow(r)
    <3>1. PICK t \in TemplateId : Handle(r, [op |-> "start_workflow", template |-> t])
      BY <2>1 DEF StartWorkflow
    <3>2. StartCommit(r, t)
      BY <2>1, <3>1, HandleIsEffect DEF StartWorkflow, StartCommit, Commits, Actor
    <3> QED
      BY <3>2 DEF AtomicNext
  <2>2. CASE ExecuteStage(r)
    BY <2>2, TransactionCases DEF ExecuteStage, ExecuteCommit, AtomicNext, LocalStep
  <2>3. CASE RecordStageCompletion(r)
    BY <2>3, TransactionCases DEF RecordStageCompletion, CompletionCommit, AtomicNext, LocalStep
  <2>4. CASE RecordStageFailure(r)
    BY <2>4, TransactionCases DEF RecordStageFailure, FailureCommit, AtomicNext, LocalStep
  <2>5. CASE AdvanceAssessment(r)
    BY <2>5, TransactionCases DEF AdvanceAssessment, AdvanceCommit, AtomicNext, LocalStep
  <2>6. CASE Dispatch(r) \/ (\E st \in StageType : DispatchNext(r, st)) \/ DispatchEnd(r)
             \/ RunExecutor(r) \/ OnStageCompleted(r) \/ OnStageFailed(r)
    BY <2>6 DEF AtomicNext, LocalStep
  <2> QED
    BY <1>4, <2>1, <2>2, <2>3, <2>4, <2>5, <2>6 DEF EngineStep
<1>5. ASSUME NEW r \in Request, RequestLost(r)
      PROVE  AtomicNext
  <2>1. Gone(r)
    BY <1>5 DEF RequestLost, Abandon, Gone
  <2> QED
    BY <2>1 DEF AtomicNext
<1>6. ASSUME NEW u \in User, NEW c \in UserCommand, UserCheck(u, c)
      PROVE  AtomicNext
  BY <1>6 DEF UserCheck, Check, engineVars, AtomicNext
<1>7. ASSUME NEW u \in User, UserCommit(u)
      PROVE  AtomicNext
  <2>1. PICK c \in UserCommand : Handle(u, c) /\ UNCHANGED engineVars
    BY <1>7 DEF UserCommit
  <2>2. UserEffect(c)
    BY <2>1, HandleIsEffect DEF UserEffect, Actor
  <2> QED
    BY <2>2 DEF AtomicNext
<1>8. ASSUME NEW u \in User, UserRollback(u)
      PROVE  AtomicNext
  BY <1>8 DEF UserRollback, AtomicNext
<1> QED
  BY <1>1, <1>2, <1>3, <1>4, <1>5, <1>6, <1>7, <1>8 DEF Next

(* What a step of a handler does to the others: nobody else opens, and no  *)
(* one meets another without being recorded.                               *)
OpensAlone(a) ==
    /\ open = {} /\ open' = {a}
    /\ assessment' = assessment
    /\ loaded'[a] = assessment /\ Legal(assessment, cmd'[a])

Closes(a) ==
    /\ open' = open \ {a}
    /\ \A b \in Actor : b # a => loaded'[b] = loaded[b] /\ cmd'[b] = cmd[b]

(* The check of a handler that meets no other.                             *)
LEMMA CheckOpens ==
    ASSUME TypeOK, NEW a \in Actor, NEW c, Check(a, c), met' = {}
    PROVE  OpensAlone(a) /\ met = {}
<1>1. open = {}
  BY DEF Check
<1> QED
  BY <1>1 DEF Check, OpensAlone, TypeOK

(* The end of a session.                                                   *)
LEMMA CloseCloses ==
    ASSUME TypeOK, NEW a \in Actor, Close(a)
    PROVE  Closes(a) /\ met' = met
  BY DEF Close, Closes, TypeOK

(* How a step can change what is between check and commit.                 *)
LEMMA TransactionStep ==
    ASSUME TypeOK, NEW r \in Request, NEW c, NEW label, Transaction(r, c, label), met' = {}
    PROVE  /\ met = {}
           /\ \/ OpensAlone(r)
              \/ r \in open /\ Closes(r)
              \/ UNCHANGED <<assessment, open, cmd, loaded>>
<1>1. r \in Actor
  BY DEF Actor
<1>2. CASE Check(r, c)
  BY <1>1, <1>2, CheckOpens
<1>3. CASE Handle(r, c)
  BY <1>1, <1>3, CloseCloses DEF Handle
<1>4. CASE Refused(r, c) \/ Conflict(r)
  BY <1>4 DEF Refused, Conflict, Abandon, Leave, txVars
<1> QED
  BY <1>2, <1>3, <1>4 DEF Transaction

(* Handlers stay apart until two of them meet.                             *)
LEMMA SerialStep ==
    ASSUME TypeOK, Serial, [Next]_vars, met' = {}
    PROVE  Serial'
<1>1. ASSUME NEW a \in Actor, OpensAlone(a) PROVE Serial'
  BY <1>1 DEF OpensAlone, Serial
<1>2. ASSUME NEW a \in Actor, a \in open, Closes(a) PROVE Serial'
  <2>1. open' = {}
    BY <1>2 DEF Serial, Closes
  <2> QED
    BY <2>1 DEF Serial
<1>3. ASSUME NEW a \in Actor, Closes(a), assessment' = assessment PROVE Serial'
  <2>1. \A b \in open' : b \in open /\ b # a /\ loaded'[b] = loaded[b] /\ cmd'[b] = cmd[b]
    BY <1>3 DEF Closes, TypeOK
  <2> QED
    BY <1>3, <2>1 DEF Serial
<1>4. CASE UNCHANGED <<assessment, open, cmd, loaded>>
  BY <1>4 DEF Serial
<1>5. CASE UNCHANGED vars
  BY <1>4, <1>5 DEF vars
<1>6. ASSUME NEW r \in Request, NEW t \in TemplateId, SendStartWorkflow(r, t)
      PROVE  Serial'
  BY <1>1, <1>6, CheckOpens DEF SendStartWorkflow, Actor
<1>7. ASSUME NEW r \in Request, NEW st \in StageType, ManualExecute(r, st)
      PROVE  Serial'
  BY <1>4, <1>7 DEF ManualExecute, txVars
<1>8. ASSUME NEW r \in Request, EngineStep(r)
      PROVE  Serial'
  <2>1. r \in Actor
    BY DEF Actor
  <2>2. CASE StartWorkflow(r)
    BY <1>2, <2>1, <2>2, CloseCloses DEF StartWorkflow, Handle
  <2>3. CASE ExecuteStage(r) \/ RecordStageCompletion(r) \/ RecordStageFailure(r)
             \/ AdvanceAssessment(r)
    <3>1. PICK c, label : Transaction(r, c, label)
      BY <2>3 DEF ExecuteStage, RecordStageCompletion, RecordStageFailure, AdvanceAssessment
    <3> QED
      BY <1>1, <1>2, <1>4, <2>1, <3>1, TransactionStep
  <2>4. CASE Dispatch(r) \/ (\E st \in StageType : DispatchNext(r, st)) \/ DispatchEnd(r)
             \/ RunExecutor(r) \/ OnStageCompleted(r) \/ OnStageFailed(r)
    BY <1>4, <2>4 DEF Dispatch, DispatchNext, DispatchEnd, RunExecutor, OnStageCompleted,
       OnStageFailed, txVars
  <2> QED
    BY <1>8, <2>2, <2>3, <2>4 DEF EngineStep
<1>9. ASSUME NEW r \in Request, RequestLost(r)
      PROVE  Serial'
  BY <1>3, <1>9, CloseCloses DEF RequestLost, Abandon, Leave, Actor
<1>10. ASSUME NEW u \in User, NEW c \in UserCommand, UserCheck(u, c)
       PROVE  Serial'
  BY <1>1, <1>10, CheckOpens DEF UserCheck, Actor
<1>11. ASSUME NEW u \in User, UserCommit(u)
       PROVE  Serial'
  BY <1>2, <1>11, CloseCloses DEF UserCommit, Handle, Actor
<1>12. ASSUME NEW u \in User, UserRollback(u)
       PROVE  Serial'
  BY <1>2, <1>12, CloseCloses DEF UserRollback, Actor
<1> QED
  BY <1>5, <1>6, <1>7, <1>8, <1>9, <1>10, <1>11, <1>12 DEF Next

(* A meeting is not forgotten.                                             *)
LEMMA MetStays ==
    ASSUME TypeOK, [Next]_vars, met' = {}
    PROVE  met = {}
<1>1. CASE UNCHANGED vars
  BY <1>1 DEF vars
<1>2. ASSUME NEW r \in Request, NEW t \in TemplateId, SendStartWorkflow(r, t)
      PROVE  met = {}
  BY <1>2, CheckOpens DEF SendStartWorkflow, Actor
<1>3. ASSUME NEW r \in Request, NEW st \in StageType, ManualExecute(r, st)
      PROVE  met = {}
  BY <1>3 DEF ManualExecute, txVars
<1>4. ASSUME NEW r \in Request, EngineStep(r)
      PROVE  met = {}
  <2>1. CASE StartWorkflow(r)
    BY <2>1 DEF StartWorkflow, Handle, Close
  <2>2. CASE ExecuteStage(r) \/ RecordStageCompletion(r) \/ RecordStageFailure(r)
             \/ AdvanceAssessment(r)
    <3>1. PICK c, label : Transaction(r, c, label)
      BY <2>2 DEF ExecuteStage, RecordStageCompletion, RecordStageFailure, AdvanceAssessment
    <3> QED
      BY <3>1, TransactionStep
  <2>3. CASE Dispatch(r) \/ (\E st \in StageType : DispatchNext(r, st)) \/ DispatchEnd(r)
             \/ RunExecutor(r) \/ OnStageCompleted(r) \/ OnStageFailed(r)
    BY <2>3 DEF Dispatch, DispatchNext, DispatchEnd, RunExecutor, OnStageCompleted,
       OnStageFailed, txVars
  <2> QED
    BY <1>4, <2>1, <2>2, <2>3 DEF EngineStep
<1>5. ASSUME NEW r \in Request, RequestLost(r)
      PROVE  met = {}
  BY <1>5 DEF RequestLost, Close
<1>6. ASSUME NEW u \in User, NEW c \in UserCommand, UserCheck(u, c)
      PROVE  met = {}
  BY <1>6, CheckOpens DEF UserCheck, Actor
<1>7. ASSUME NEW u \in User, UserCommit(u) \/ UserRollback(u)
      PROVE  met = {}
  BY <1>7 DEF UserCommit, UserRollback, Handle, Close
<1> QED
  BY <1>1, <1>2, <1>3, <1>4, <1>5, <1>6, <1>7 DEF Next

-----------------------------------------------------------------------------
(* The assessment moves by commands *)

(* A step of the view leaves the assessment alone or is one legal command. *)
LEMMA StepIsCommand ==
    ASSUME TypeOK, AtomicNext
    PROVE  \/ assessment' = assessment
           \/ \E c \in Command : Effect(c)
<1>1. CASE UNCHANGED <<assessment, pc, route, stage, frames>>
  BY <1>1
<1>2. ASSUME NEW r \in Request, NEW t \in TemplateId, StartCommit(r, t)
      PROVE  \E c \in Command : Effect(c)
  BY <1>2 DEF StartCommit, Commits, Command, StartWorkflowCmd
<1>3. ASSUME NEW r \in Request, SendStart(r) \/ Gone(r) \/ \E st \in StageType : ManualExecute(r, st)
      PROVE  assessment' = assessment
  BY <1>3 DEF SendStart, Gone, Leave, ManualExecute
<1>4. ASSUME NEW r \in Request, LocalStep(r)
      PROVE  \/ assessment' = assessment
             \/ \E c \in Command : Effect(c)
  <2>1. stage[r] \in StageType
    BY DEF TypeOK
  <2>2. /\ [op |-> "start_stage", stage |-> stage[r]] \in Command
        /\ [op |-> "complete_stage", stage |-> stage[r]] \in Command
        /\ [op |-> "fail_stage", stage |-> stage[r]] \in Command
        /\ [op |-> "advance_past_running"] \in Command
    BY <2>1 DEF Command, StageCommand, StageOp, AdvanceCmd
  <2>3. CASE ExecuteCommit(r) \/ CompletionCommit(r) \/ FailureCommit(r) \/ AdvanceCommit(r)
    BY <2>2, <2>3 DEF ExecuteCommit, CompletionCommit, FailureCommit, AdvanceCommit, Commits
  <2>4. CASE Dispatch(r) \/ (\E st \in StageType : DispatchNext(r, st)) \/ DispatchEnd(r)
             \/ RunExecutor(r) \/ OnStageCompleted(r) \/ OnStageFailed(r)
    BY <2>4 DEF Dispatch, DispatchNext, DispatchEnd, RunExecutor, OnStageCompleted, OnStageFailed
  <2> QED
    BY <1>4, <2>3, <2>4 DEF LocalStep
<1>5. ASSUME NEW c \in UserCommand, UserEffect(c)
      PROVE  \E d \in Command : Effect(d)
  BY <1>5, EngineAssumption DEF UserEffect, Command
<1> QED
  BY <1>1, <1>2, <1>3, <1>4, <1>5 DEF AtomicNext

(* What a step does to the assessment, as far as requests depend on it. *)
LEMMA AssessmentStep ==
    ASSUME TypeOK, Sound(assessment), AtomicNext
    PROVE  /\ assessment' \in Assessment
           /\ Sound(assessment')
           /\ template # NoTemplate => template' = template /\ Cleared \subseteq Cleared'
<1>1. assessment \in Assessment
  BY DEF TypeOK
<1>2. CASE assessment' = assessment
  BY <1>1, <1>2 DEF template, progress, Cleared
<1>3. CASE \E c \in Command : Effect(c)
  <2>1. PICK c \in Command : Legal(assessment, c) /\ assessment' = Apply(assessment, c)
    BY <1>3 DEF Effect
  <2>2. assessment' \in Assessment
    BY <1>1, <2>1, ApplyType
  <2>3. /\ Sound(assessment')
        /\ template # NoTemplate => template' = template
        /\ \A st \in StageType : is_complete(progress, st) => is_complete(progress', st)
    BY <1>1, <2>1, CommandStep DEF template, progress
  <2>4. ASSUME template # NoTemplate
        PROVE  Cleared \subseteq Cleared'
    <3>1. template \in TemplateId /\ template' = template
      BY <1>1, <2>3, <2>4 DEF template, Assessment
    <3>2. \A st \in StageType : Template[template].required_predecessors[st] \subseteq StageType
      BY <3>1, TemplateAssumption DEF WorkflowTemplate
    <3> QED
      BY <2>3, <3>1, <3>2 DEF Cleared, all_complete
  <2> QED
    BY <2>2, <2>3, <2>4
<1> QED
  BY <1>2, <1>3, StepIsCommand

(* A stage command moves its own stage only, and from a legal status. *)
LEMMA StageCommandStep ==
    ASSUME TypeOK, NEW op \in StageOp, NEW st \in StageType,
           Effect([op |-> op, stage |-> st])
    PROVE  /\ progress'[st].status = TargetStageStatus[op]
           /\ TargetStageStatus[op] \in STAGE_LEGAL_TRANSITIONS[progress[st].status]
           /\ \A s \in StageType : s # st => progress'[s] = progress[s]
           /\ template' = template
<1> DEFINE c == [op |-> op, stage |-> st]
           new == TargetStageStatus[op]
<1>1. c.op = op /\ c.stage = st
  OBVIOUS
<1>2. Legal(assessment, c) /\ assessment' = Apply(assessment, c)
  BY DEF Effect
<1> HIDE DEF c
<1>3. /\ CanMoveStage(assessment, st, new)
      /\ assessment' = move_stage(assessment, st, new)
      /\ new \in {"RUNNING", "COMPLETE", "FAILED"}
  BY <1>1, <1>2, StageCommandMeaning
<1>4. new \in StageExecutionStatus
  BY <1>3 DEF StageExecutionStatus
<1>5. assessment \in Assessment /\ DOMAIN progress = StageType
  BY DEF TypeOK, Assessment, WorkflowProgress, progress
<1>6. /\ progress' = [progress EXCEPT ![st] = advance_to(progress[st], new)]
      /\ template' = template
  BY <1>3, <1>4, <1>5, MoveStageMeaning DEF progress, template
<1>7. advance_to(progress[st], new).status = new
  BY DEF advance_to
<1> QED
  BY <1>3, <1>5, <1>6, <1>7 DEF CanMoveStage, progress

-----------------------------------------------------------------------------
(* Types *)

(* Moving one request to a label keeps the labels well typed. *)
LEMMA GotoType ==
    ASSUME TypeOK, NEW r \in Request, NEW label \in Label, Goto(r, label)
    PROVE  /\ pc' \in [Request -> Label]
           /\ pc'[r] = label
           /\ \A q \in Request : q # r => pc'[q] = pc[q]
  BY DEF TypeOK, Goto

(* A request that ends early has no loops left. *)
LEMMA GoneType ==
    ASSUME TypeOK, NEW r \in Request, Gone(r)
    PROVE  /\ pc'[r] \in {"raised", "lost", "abandoned"}
           /\ frames'[r] = <<>>
           /\ \A q \in Request : q # r =>
                 pc'[q] = pc[q] /\ frames'[q] = frames[q] /\ stage'[q] = stage[q]
           /\ UNCHANGED <<assessment, route, stage>>
  BY DEF Gone, Leave, Goto, TypeOK

(* The lists a dispatch can be left with are lists of stages. *)
LEMMA FrameTypes ==
    ASSUME NEW f \in Seq(SUBSET StageType), NEW S \in SUBSET StageType
    PROVE  /\ <<S>> \o f \in Seq(SUBSET StageType)
           /\ <<S>> \o f # <<>>
           /\ Len(<<S>> \o f) = Len(f) + 1
           /\ \A i \in 1..(Len(f) + 1) : (<<S>> \o f)[i] = IF i = 1 THEN S ELSE f[i - 1]
  OBVIOUS

(* What is left of a list of loops once the innermost has ended. *)
LEMMA TailTypes ==
    ASSUME NEW f \in Seq(SUBSET StageType), f # <<>>
    PROVE  /\ Head(f) \in SUBSET StageType /\ Head(f) = f[1] /\ Len(f) \in Nat /\ Len(f) > 0
           /\ Tail(f) \in Seq(SUBSET StageType)
           /\ Len(Tail(f)) = Len(f) - 1
           /\ \A i \in 1..(Len(f) - 1) : Tail(f)[i] = f[i + 1]
  OBVIOUS

(* The list of stages to dispatch has stages of the template that are      *)
(* cleared.                                                                *)
LEMMA AutomaticCleared ==
    ASSUME TypeOK
    PROVE  Automatic(assessment) \subseteq Cleared
<1>1. CASE template = NoTemplate
  BY <1>1 DEF Automatic, template
<1>2. CASE template # NoTemplate
  <2>1. template \in TemplateId
    BY <1>2 DEF TypeOK, Assessment, template
  <2>2. Template[template].stages \subseteq StageType
    BY <2>1, TemplateAssumption DEF WorkflowTemplate
  <2>3. Automatic(assessment) \subseteq runnable_stages(template, progress)
    BY <1>2 DEF Automatic, template, progress
  <2> QED
    BY <2>2, <2>3 DEF runnable_stages, Cleared
<1> QED
  BY <1>1, <1>2

(* What the handlers work on is well typed.                                *)
TxTypeOK ==
    /\ assessment \in Assessment
    /\ open \subseteq Actor
    /\ cmd \in [Actor -> Command]
    /\ loaded \in [Actor -> Assessment]
    /\ met \subseteq Actor

ControlTypeOK ==
    /\ pc \in [Request -> Label]
    /\ route \in [Request -> {"none", "start_workflow", "execute_stage"}]
    /\ stage \in [Request -> StageType]
    /\ frames \in [Request -> Seq(SUBSET StageType)]

(* A handler's steps keep its types. *)
LEMMA CheckType ==
    ASSUME TxTypeOK, NEW a \in Actor, NEW c \in Command, Check(a, c)
    PROVE  TxTypeOK'
  BY DEF TxTypeOK, Check

LEMMA CloseType ==
    ASSUME TxTypeOK, NEW a \in Actor, Close(a), assessment' \in Assessment
    PROVE  TxTypeOK'
  BY NoCmdType, CreatedType DEF TxTypeOK, Close

LEMMA HandleType ==
    ASSUME TxTypeOK, NEW a \in Actor, NEW c, Handle(a, c)
    PROVE  TxTypeOK'
<1>1. c \in Command /\ loaded[a] \in Assessment
  BY DEF TxTypeOK, Handle
<1>2. Written(a, c) \in Assessment
  BY <1>1, OverwriteType DEF TxTypeOK, Written
<1> QED
  BY <1>2, CloseType DEF Handle

(* An early end keeps the types of the control state. *)
LEMMA LeaveType ==
    ASSUME ControlTypeOK, NEW r \in Request, NEW label \in Label, Leave(r, label)
    PROVE  ControlTypeOK' /\ assessment' = assessment
<1>1. <<>> \in Seq(SUBSET StageType)
  OBVIOUS
<1> QED
  BY <1>1 DEF ControlTypeOK, Leave, Goto

(* A handler of a request keeps everything well typed. *)
LEMMA TransactionType ==
    ASSUME ControlTypeOK, TxTypeOK, NEW r \in Request, NEW c \in Command, NEW label \in Label,
           Transaction(r, c, label)
    PROVE  ControlTypeOK' /\ TxTypeOK'
<1>1. r \in Actor /\ "raised" \in Label /\ "abandoned" \in Label
  BY DEF Actor, Label, Ended
<1>2. CASE Check(r, c) /\ UNCHANGED engineVars
  BY <1>1, <1>2, CheckType DEF ControlTypeOK, engineVars
<1>3. CASE Handle(r, c) /\ Goto(r, label) /\ UNCHANGED <<route, stage, frames>>
  BY <1>1, <1>3, HandleType DEF ControlTypeOK, Goto
<1>4. CASE Refused(r, c) \/ Conflict(r)
  <2>1. PICK ending \in {"raised", "abandoned"} : Leave(r, ending)
    BY <1>4 DEF Refused, Conflict, Abandon
  <2>2. UNCHANGED txVars
    BY <1>4 DEF Refused, Conflict
  <2> QED
    BY <1>1, <2>1, <2>2, LeaveType DEF TxTypeOK, txVars
<1> QED
  BY <1>2, <1>3, <1>4 DEF Transaction

(* Every step keeps every variable well typed. *)
LEMMA TypeStep ==
    ASSUME TypeOK, [Next]_vars
    PROVE  TypeOK'
<1>1. SUFFICES ControlTypeOK' /\ TxTypeOK'
  BY DEF TypeOK, ControlTypeOK, TxTypeOK
<1>2. ControlTypeOK /\ TxTypeOK
  BY DEF TypeOK, ControlTypeOK, TxTypeOK
<1>3. UNCHANGED <<assessment, open, cmd, loaded, met>> => TxTypeOK'
  BY <1>2 DEF TxTypeOK
<1>4. CASE UNCHANGED vars
  BY <1>2, <1>3, <1>4 DEF vars, ControlTypeOK
<1>5. ASSUME NEW r \in Request, NEW t \in TemplateId, SendStartWorkflow(r, t)
      PROVE  ControlTypeOK' /\ TxTypeOK'
  <2>1. [op |-> "start_workflow", template |-> t] \in Command
    BY DEF Command, StartWorkflowCmd
  <2>2. TxTypeOK'
    BY <1>2, <1>5, <2>1, CheckType DEF SendStartWorkflow, Actor
  <2> QED
    BY <1>2, <1>5, <2>2 DEF SendStartWorkflow, ControlTypeOK, Goto, Label
<1>6. ASSUME NEW r \in Request, NEW st \in StageType, ManualExecute(r, st)
      PROVE  ControlTypeOK' /\ TxTypeOK'
  BY <1>2, <1>3, <1>6 DEF ManualExecute, txVars, ControlTypeOK, Goto, Label
<1>7. ASSUME NEW r \in Request, RequestLost(r)
      PROVE  ControlTypeOK' /\ TxTypeOK'
  <2>1. PICK ending \in {"lost", "abandoned"} : Leave(r, ending)
    BY <1>7 DEF RequestLost, Abandon
  <2>2. ending \in Label
    BY DEF Label, Ended
  <2>3. ControlTypeOK' /\ assessment' = assessment
    BY <1>2, <2>1, <2>2, LeaveType
  <2> QED
    BY <1>2, <1>7, <2>3, CloseType DEF RequestLost, Actor, TxTypeOK
<1>8. ASSUME NEW u \in User, NEW c \in UserCommand, UserCheck(u, c)
      PROVE  ControlTypeOK' /\ TxTypeOK'
  <2>1. c \in Command
    BY EngineAssumption DEF Command
  <2> QED
    BY <1>2, <1>8, <2>1, CheckType DEF UserCheck, Actor, engineVars, ControlTypeOK
<1>9. ASSUME NEW u \in User, UserCommit(u)
      PROVE  ControlTypeOK' /\ TxTypeOK'
  BY <1>2, <1>9, HandleType DEF UserCommit, Actor, engineVars, ControlTypeOK
<1>10. ASSUME NEW u \in User, UserRollback(u)
       PROVE  ControlTypeOK' /\ TxTypeOK'
  <2>1. assessment' \in Assessment
    BY <1>2, <1>10 DEF UserRollback, TxTypeOK
  <2> QED
    BY <1>2, <1>10, <2>1, CloseType DEF UserRollback, Actor, ControlTypeOK
<1>11. ASSUME NEW r \in Request, EngineStep(r)
       PROVE  ControlTypeOK' /\ TxTypeOK'
  <2>1. CASE Dispatch(r)
    <3>1. Automatic(assessment) \in SUBSET StageType
      BY AutomaticCleared DEF Cleared
    <3>2. <<Automatic(assessment)>> \o frames[r] \in Seq(SUBSET StageType)
      BY <1>2, <3>1, FrameTypes DEF ControlTypeOK
    <3> QED
      BY <1>2, <1>3, <2>1, <3>2 DEF Dispatch, txVars, ControlTypeOK, Goto, Label
  <2>2. CASE \E st \in StageType : DispatchNext(r, st)
    <3>1. PICK st \in StageType : DispatchNext(r, st)
      BY <2>2
    <3>2. /\ Head(frames[r]) \ {st} \in SUBSET StageType
          /\ Tail(frames[r]) \in Seq(SUBSET StageType)
      BY <1>2, <3>1, TailTypes DEF DispatchNext, ControlTypeOK
    <3>3. <<Head(frames[r]) \ {st}>> \o Tail(frames[r]) \in Seq(SUBSET StageType)
      BY <3>2, FrameTypes
    <3>4. frames' \in [Request -> Seq(SUBSET StageType)]
      BY <1>2, <3>1, <3>3 DEF DispatchNext, ControlTypeOK
    <3> QED
      BY <1>2, <1>3, <3>1, <3>4 DEF DispatchNext, txVars, ControlTypeOK, Goto, Label
  <2>3. CASE DispatchEnd(r)
    <3>1. Tail(frames[r]) \in Seq(SUBSET StageType)
      BY <1>2, <2>3, TailTypes DEF DispatchEnd, ControlTypeOK
    <3> QED
      BY <1>2, <1>3, <2>3, <3>1 DEF DispatchEnd, txVars, ControlTypeOK, Goto, Label, Ended
  <2>4. CASE RunExecutor(r) \/ OnStageCompleted(r) \/ OnStageFailed(r)
    <3>1. UNCHANGED <<assessment, route, stage, frames, open, cmd, loaded, met>>
      BY <2>4 DEF RunExecutor, OnStageCompleted, OnStageFailed, txVars
    <3>2. \E label \in Label : Goto(r, label)
      BY <2>4 DEF RunExecutor, OnStageCompleted, OnStageFailed, Return, AfterCall, Label, Ended
    <3> QED
      BY <1>2, <1>3, <3>1, <3>2 DEF ControlTypeOK, Goto
  <2>5. CASE ExecuteStage(r) \/ RecordStageCompletion(r) \/ RecordStageFailure(r)
             \/ AdvanceAssessment(r)
    <3>1. stage[r] \in StageType
      BY <1>2 DEF ControlTypeOK
    <3>2. PICK c \in Command, label \in Label : Transaction(r, c, label)
      <4>1. /\ [op |-> "start_stage", stage |-> stage[r]] \in Command
            /\ [op |-> "complete_stage", stage |-> stage[r]] \in Command
            /\ [op |-> "fail_stage", stage |-> stage[r]] \in Command
            /\ [op |-> "advance_past_running"] \in Command
        BY <3>1 DEF Command, StageCommand, StageOp, AdvanceCmd
      <4>2. {"executing", "completed", "stage_failed", AfterCall(r)} \subseteq Label
        BY DEF Label, Ended, AfterCall
      <4> QED
        BY <2>5, <4>1, <4>2 DEF ExecuteStage, RecordStageCompletion, RecordStageFailure,
           AdvanceAssessment
    <3> QED
      BY <1>2, <3>2, TransactionType
  <2>6. CASE StartWorkflow(r)
    BY <1>2, <2>6, HandleType DEF StartWorkflow, Actor, ControlTypeOK, Goto, Label
  <2> QED
    BY <1>11, <2>1, <2>2, <2>3, <2>4, <2>5, <2>6 DEF EngineStep
<1> QED
  BY <1>4, <1>5, <1>6, <1>7, <1>8, <1>9, <1>10, <1>11 DEF Next

-----------------------------------------------------------------------------
(* One executor per stage *)

(* A step that lets no request begin executing and leaves the stages that  *)
(* are executed RUNNING keeps one executor per stage.                      *)
LEMMA FewerExecutors ==
    ASSUME TypeOK, ExecutorsApart,
           Executing' \subseteq Executing,
           \A q \in Executing' : stage'[q] = stage[q] /\ progress'[stage[q]].status = "RUNNING"
    PROVE  ExecutorsApart'
  BY DEF ExecutorsApart

(* Recording an outcome: the request stops executing its stage. *)
LEMMA OutcomeStep ==
    ASSUME TypeOK, ExecutorsApart, NEW r \in Request, NEW op \in StageOp,
           NEW label \in Label \ {"executing", "succeeded", "failed"},
           r \in Executing, Effect([op |-> op, stage |-> stage[r]]), Goto(r, label),
           stage' = stage
    PROVE  ExecutorsApart'
<1>1. /\ pc'[r] = label
      /\ \A q \in Request : q # r => pc'[q] = pc[q]
  BY GotoType
<1>2. Executing' = Executing \ {r}
  BY <1>1 DEF Executing
<1>3. \A q \in Executing' : stage[q] \in StageType /\ stage[q] # stage[r]
  BY <1>2 DEF ExecutorsApart, TypeOK, Executing
<1>4. \A s \in StageType : s # stage[r] => progress'[s] = progress[s]
  BY StageCommandStep DEF TypeOK
<1>5. \A q \in Executing' : progress'[stage[q]].status = "RUNNING"
  BY <1>2, <1>3, <1>4 DEF ExecutorsApart
<1> QED
  BY <1>2, <1>5, FewerExecutors

(* No step has two requests execute one stage. *)
LEMMA ExecutorStep ==
    ASSUME Inv, AtomicNext, TypeOK'
    PROVE  ExecutorsApart'
<1>1. TypeOK /\ TypeOK' /\ ExecutorsApart /\ Sound(assessment)
  BY DEF Inv
<1>2. ASSUME progress' = progress, stage' = stage, Executing' \subseteq Executing
      PROVE  ExecutorsApart'
  BY <1>1, <1>2, FewerExecutors DEF ExecutorsApart
<1>3. CASE UNCHANGED <<assessment, pc, route, stage, frames>>
  BY <1>2, <1>3 DEF progress, Executing
<1>4. ASSUME NEW r \in Request, NEW t \in TemplateId, StartCommit(r, t)
      PROVE  ExecutorsApart'
  <2> DEFINE c == [op |-> "start_workflow", template |-> t]
  <2>1. Legal(assessment, c) /\ c.op = "start_workflow" /\ c.template = t
    BY <1>4 DEF StartCommit, Commits, Effect
  <2> HIDE DEF c
  <2>2. CanStartWorkflow(assessment, t)
    BY <2>1, StartWorkflowMeaning
  <2>3. assessment.status = "READY"
    <3>1. assessment.status \in AssessmentStatus
      BY <1>1 DEF TypeOK, Assessment
    <3> QED
      BY <2>2, <3>1 DEF CanStartWorkflow, CanTransition, LEGAL_TRANSITIONS, AssessmentStatus
  <2>4. progress = initialize
    BY <1>1, <2>3 DEF Sound, progress
  <2>5. Executing = {}
    BY <1>1, <2>4 DEF ExecutorsApart, Executing, initialize, FreshEntry, TypeOK
  <2>6. Executing' = {}
    BY <1>1, <1>4, <2>5 DEF StartCommit, Commits, Goto, Executing, TypeOK
  <2> QED
    BY <2>6 DEF ExecutorsApart
<1>5. ASSUME NEW r \in Request, NEW st \in StageType, ManualExecute(r, st)
      PROVE  ExecutorsApart'
  <2>1. Executing' = Executing /\ r \notin Executing /\ progress' = progress
    BY <1>1, <1>5 DEF ManualExecute, CanSend, Goto, Executing, TypeOK, progress
  <2>2. \A q \in Executing' : stage'[q] = stage[q]
    BY <1>1, <1>5, <2>1 DEF ManualExecute, TypeOK, Executing
  <2> QED
    BY <1>1, <2>1, <2>2, FewerExecutors DEF ExecutorsApart
<1>6. ASSUME NEW r \in Request, SendStart(r) \/ Gone(r)
      PROVE  ExecutorsApart'
  <2>1. assessment' = assessment /\ stage' = stage
    BY <1>6 DEF SendStart, Gone, Leave
  <2>2. Executing' \subseteq Executing
    BY <1>1, <1>6 DEF SendStart, Gone, Leave, Goto, Executing, TypeOK
  <2> QED
    BY <1>2, <2>1, <2>2 DEF progress
<1>7. ASSUME NEW c \in UserCommand, UserEffect(c)
      PROVE  ExecutorsApart'
  <2>1. c \in LifecycleCommand /\ c.op \in LifecycleOp
    BY EngineAssumption DEF LifecycleCommand
  <2>2. assessment' = [assessment EXCEPT !.status = TargetStatus[c.op]]
    BY <1>7, <2>1, LifecycleCommandMeaning DEF UserEffect, Effect
  <2>3. progress' = progress
    BY <1>1, <2>2 DEF progress, TypeOK, Assessment
  <2> QED
    BY <1>2, <1>7, <2>3 DEF UserEffect, engineVars, Executing
<1>8. ASSUME NEW r \in Request, LocalStep(r)
      PROVE  ExecutorsApart'
  <2>1. CASE Dispatch(r) \/ DispatchEnd(r) \/ RunExecutor(r) \/ OnStageCompleted(r)
             \/ OnStageFailed(r)
    <3>1. UNCHANGED <<assessment, stage>>
      BY <2>1 DEF Dispatch, DispatchEnd, RunExecutor, OnStageCompleted, OnStageFailed
    <3>2. Executing' \subseteq Executing
      BY <1>1, <2>1 DEF Dispatch, DispatchEnd, RunExecutor, OnStageCompleted, OnStageFailed,
         Return, AfterCall, Goto, Executing, TypeOK
    <3> QED
      BY <1>2, <3>1, <3>2 DEF progress
  <2>2. CASE \E st \in StageType : DispatchNext(r, st)
    <3>1. Executing' = Executing /\ r \notin Executing /\ progress' = progress
      BY <1>1, <2>2 DEF DispatchNext, Goto, Executing, TypeOK, progress
    <3>2. \A q \in Executing' : stage'[q] = stage[q]
      BY <1>1, <2>2, <3>1 DEF DispatchNext, TypeOK, Executing
    <3> QED
      BY <1>1, <3>1, <3>2, FewerExecutors DEF ExecutorsApart
  <2>3. CASE ExecuteCommit(r)
    <3> DEFINE st == stage[r]
    <3>1. /\ Effect([op |-> "start_stage", stage |-> st])
          /\ pc[r] = "execute" /\ Goto(r, "executing") /\ stage' = stage
      BY <2>3 DEF ExecuteCommit, Commits
    <3>2. st \in StageType /\ "start_stage" \in StageOp
      BY <1>1 DEF TypeOK, StageOp
    <3>3. /\ progress'[st].status = TargetStageStatus["start_stage"]
          /\ TargetStageStatus["start_stage"] \in STAGE_LEGAL_TRANSITIONS[progress[st].status]
          /\ \A s \in StageType : s # st => progress'[s] = progress[s]
      BY <1>1, <3>1, <3>2, StageCommandStep
    <3>4. progress[st] \in StageProgressEntry
      BY <1>1, <3>2 DEF TypeOK, Assessment, WorkflowProgress, progress
    <3>5. progress'[st].status = "RUNNING" /\ progress[st].status # "RUNNING"
      BY <3>3, <3>4 DEF TargetStageStatus, STAGE_LEGAL_TRANSITIONS, StageProgressEntry,
                        StageExecutionStatus
    <3>6. Executing' = Executing \cup {r} /\ r \notin Executing
      BY <1>1, <3>1 DEF Goto, Executing, TypeOK
    <3>7. \A q \in Executing : stage[q] \in StageType /\ stage[q] # st
      BY <1>1, <3>5 DEF ExecutorsApart, Executing, TypeOK
    <3>8. \A q \in Executing' : progress'[stage'[q]].status = "RUNNING"
      BY <1>1, <3>1, <3>3, <3>5, <3>6, <3>7 DEF ExecutorsApart
    <3>9. \A p, q \in Executing' : stage'[p] = stage'[q] => p = q
      BY <1>1, <3>1, <3>6, <3>7 DEF ExecutorsApart
    <3> QED
      BY <3>8, <3>9 DEF ExecutorsApart
  <2>4. CASE (CompletionCommit(r) \/ FailureCommit(r))
    <3>1. r \in Executing /\ stage' = stage
      BY <2>4 DEF CompletionCommit, FailureCommit, Commits, Executing
    <3>2. PICK op \in StageOp, label \in Label \ {"executing", "succeeded", "failed"} :
             Effect([op |-> op, stage |-> stage[r]]) /\ Goto(r, label)
      BY <2>4 DEF CompletionCommit, FailureCommit, Commits, StageOp, Label
    <3> QED
      BY <1>1, <3>1, <3>2, OutcomeStep
  <2>5. CASE AdvanceCommit(r)
    <3> DEFINE c == [op |-> "advance_past_running"]
    <3>1. /\ assessment' = Apply(assessment, c) /\ c.op = "advance_past_running"
          /\ stage' = stage /\ Return(r) /\ pc[r] = "advance"
      BY <2>5 DEF AdvanceCommit, Commits, Effect, Return
    <3> HIDE DEF c
    <3>2. assessment' = [assessment EXCEPT !.status = "VALIDATED"]
      BY <3>1, AdvanceMeaning
    <3>3. progress' = progress
      BY <1>1, <3>2 DEF progress, TypeOK, Assessment
    <3>4. Executing' \subseteq Executing
      BY <1>1, <3>1 DEF Return, AfterCall, Goto, Executing, TypeOK
    <3> QED
      BY <1>2, <3>1, <3>3, <3>4
  <2> QED
    BY <1>8, <2>1, <2>2, <2>3, <2>4, <2>5 DEF LocalStep
<1> QED
  BY <1>3, <1>4, <1>5, <1>6, <1>7, <1>8 DEF AtomicNext

-----------------------------------------------------------------------------
(* Dispatch lists *)

(* What was known of a request that a step does not move stays true. *)
LEMMA Carried ==
    ASSUME Inv, AtomicNext, NEW q \in Request,
           pc'[q] = pc[q], frames'[q] = frames[q], stage'[q] = stage[q]
    PROVE  RequestOK(q)'
<1>1. template # NoTemplate => template' = template /\ Cleared \subseteq Cleared'
  BY AssessmentStep DEF Inv
<1>2. RequestOK(q)
  BY DEF Inv, FramesOK
<1>3. CASE template = NoTemplate
  <2>1. frames[q] = <<>> /\ pc[q] # "dispatch"
    BY <1>2, <1>3 DEF RequestOK
  <2>2. \A i \in 1..Len(frames'[q]) : frames'[q][i] \subseteq Cleared'
    BY <2>1
  <2> QED
    BY <1>2, <2>1, <2>2 DEF RequestOK
<1>4. CASE template # NoTemplate
  BY <1>1, <1>2, <1>4 DEF RequestOK
<1> QED
  BY <1>3, <1>4

(* A request outside any dispatch loop owes nothing to the DAG. *)
LEMMA Outside ==
    ASSUME NEW r \in Request, frames'[r] = <<>>, pc'[r] # "dispatch"
    PROVE  RequestOK(r)'
<1>1. \A i \in 1..Len(frames'[r]) : frames'[r][i] \subseteq Cleared'
  OBVIOUS
<1> QED
  BY <1>1 DEF RequestOK

(* A request that goes on in the same loops: it must have been attempting  *)
(* its stage if it now is, and be bound to a template to dispatch again.   *)
LEMMA SameLoops ==
    ASSUME Inv, AtomicNext, NEW r \in Request,
           pc[r] \notin {"idle", "start"}, pc'[r] \notin {"idle", "start"}, frames'[r] = frames[r], stage'[r] = stage[r],
           pc'[r] \in Attempting => pc[r] \in Attempting,
           pc'[r] = "dispatch" => template # NoTemplate
    PROVE  RequestOK(r)'
<1>1. template # NoTemplate => template' = template /\ Cleared \subseteq Cleared'
  BY AssessmentStep DEF Inv
<1>2. RequestOK(r)
  BY DEF Inv, FramesOK
<1>3. CASE frames[r] = <<>>
  <2>1. \A i \in 1..Len(frames'[r]) : frames'[r][i] \subseteq Cleared'
    BY <1>3
  <2> QED
    BY <1>1, <1>3, <2>1 DEF RequestOK
<1>4. CASE frames[r] # <<>>
  <2>1. template # NoTemplate
    BY <1>2, <1>4 DEF RequestOK
  <2> QED
    BY <1>1, <1>2, <1>4, <2>1 DEF RequestOK
<1> QED
  BY <1>3, <1>4

(* The request that takes an engine step. *)
LEMMA StepOfRequest ==
    ASSUME Inv, AtomicNext, NEW r \in Request, LocalStep(r)
    PROVE  RequestOK(r)'
<1>1. TypeOK /\ RequestOK(r) /\ Sound(assessment)
  BY DEF Inv, FramesOK
<1>2. template # NoTemplate => template' = template /\ Cleared \subseteq Cleared'
  BY <1>1, AssessmentStep
<1> DEFINE f == frames[r]
<1>3. f \in Seq(SUBSET StageType) /\ r \in DOMAIN frames /\ r \in DOMAIN pc /\ r \in DOMAIN stage
  BY <1>1 DEF TypeOK
<1>5. CASE Dispatch(r)
  <2> DEFINE S == Automatic(assessment)
  <2>1. template # NoTemplate /\ Cleared' = Cleared /\ template' = template
    BY <1>1, <1>5 DEF Dispatch, RequestOK, Cleared, progress, template
  <2>2. S \subseteq Cleared /\ S \in SUBSET StageType
    BY <1>1, AutomaticCleared DEF Cleared
  <2>3. frames'[r] = <<S>> \o f /\ pc'[r] = "loop"
    BY <1>3, <1>5 DEF Dispatch, Goto
  <2> HIDE DEF S
  <2>4. \A i \in 1..Len(frames'[r]) : frames'[r][i] \subseteq Cleared
    <3> SUFFICES ASSUME NEW i \in 1..Len(<<S>> \o f) PROVE (<<S>> \o f)[i] \subseteq Cleared
      BY <2>3
    <3>1. Len(<<S>> \o f) = Len(f) + 1 /\ Len(f) \in Nat
      BY <1>3, <2>2, FrameTypes
    <3>2. (<<S>> \o f)[i] = IF i = 1 THEN S ELSE f[i - 1]
      BY <1>3, <2>2, <3>1, FrameTypes
    <3>3. i # 1 => i - 1 \in 1..Len(f)
      BY <3>1
    <3> QED
      BY <1>1, <2>2, <3>2, <3>3 DEF RequestOK
  <2> QED
    BY <2>1, <2>3, <2>4 DEF RequestOK, Attempting
<1>6. CASE \E st \in StageType : DispatchNext(r, st)
  <2>1. PICK st \in StageType : DispatchNext(r, st)
    BY <1>6
  <2> DEFINE S == Head(f) \ {st}
             g == Tail(f)
  <2>2. /\ f # <<>> /\ st \in Head(f) /\ frames'[r] = <<S>> \o g
        /\ \/ pc'[r] = "execute" /\ stage'[r] = st
           \/ pc'[r] = "loop"
        /\ assessment' = assessment
    BY <1>3, <2>1 DEF DispatchNext, IsNext, Goto
  <2>3. template # NoTemplate /\ Cleared' = Cleared /\ template' = template
    BY <1>1, <2>2 DEF RequestOK, Cleared, progress, template
  <2>4. /\ g \in Seq(SUBSET StageType) /\ S \in SUBSET StageType
        /\ Head(f) = f[1] /\ Len(f) \in Nat /\ Len(f) > 0 /\ Len(g) = Len(f) - 1
        /\ \A i \in 1..(Len(f) - 1) : g[i] = f[i + 1]
    BY <1>3, <2>2, TailTypes
  <2>5. Head(f) \subseteq Cleared
    <3>1. 1 \in 1..Len(f)
      BY <2>4
    <3> QED
      BY <1>1, <2>4, <3>1 DEF RequestOK
  <2>6. \A i \in 1..Len(frames'[r]) : frames'[r][i] \subseteq Cleared
    <3> SUFFICES ASSUME NEW i \in 1..Len(<<S>> \o g) PROVE (<<S>> \o g)[i] \subseteq Cleared
      BY <2>2
    <3> HIDE DEF S, g
    <3>1. Len(<<S>> \o g) = Len(g) + 1
      BY <2>4, FrameTypes
    <3>2. (<<S>> \o g)[i] = IF i = 1 THEN S ELSE g[i - 1]
      BY <2>4, <3>1, FrameTypes
    <3>3. CASE i = 1
      BY <2>5, <3>2, <3>3 DEF S
    <3>4. CASE i # 1
      <4>1. i - 1 \in 1..(Len(f) - 1) /\ i \in 1..Len(f) /\ (i - 1) + 1 = i
        BY <2>4, <3>1, <3>4
      <4>2. g[i - 1] = f[i]
        BY <2>4, <4>1
      <4> QED
        BY <1>1, <3>2, <3>4, <4>1, <4>2 DEF RequestOK
    <3> QED
      BY <3>3, <3>4
  <2> QED
    BY <2>2, <2>3, <2>5, <2>6 DEF RequestOK, Attempting
<1>7. CASE DispatchEnd(r)
  <2>1. /\ f # <<>> /\ frames'[r] = Tail(f) /\ pc'[r] \in {"done", "loop"}
        /\ assessment' = assessment
    BY <1>3, <1>7 DEF DispatchEnd, Goto
  <2>2. template # NoTemplate /\ Cleared' = Cleared /\ template' = template
    BY <1>1, <2>1 DEF RequestOK, Cleared, progress, template
  <2>3. /\ Len(f) \in Nat /\ Len(f) > 0 /\ Len(Tail(f)) = Len(f) - 1
        /\ \A i \in 1..(Len(f) - 1) : Tail(f)[i] = f[i + 1]
    BY <1>3, <2>1, TailTypes
  <2>4. \A i \in 1..Len(frames'[r]) : frames'[r][i] \subseteq Cleared
    <3> SUFFICES ASSUME NEW i \in 1..(Len(f) - 1) PROVE Tail(f)[i] \subseteq Cleared
      BY <2>1, <2>3
    <3>1. i + 1 \in 1..Len(f) /\ Tail(f)[i] = f[i + 1]
      BY <2>3
    <3> QED
      BY <1>1, <3>1 DEF RequestOK
  <2> QED
    BY <2>1, <2>2, <2>4 DEF RequestOK, Attempting
<1>8. CASE RunExecutor(r) \/ OnStageCompleted(r) \/ OnStageFailed(r)
  <2>1. frames'[r] = frames[r] /\ stage'[r] = stage[r]
    BY <1>8 DEF RunExecutor, OnStageCompleted, OnStageFailed
  <2>2. /\ pc[r] \notin {"idle", "start"} /\ pc'[r] \notin {"idle", "start"}
        /\ pc'[r] \in Attempting => pc[r] \in Attempting
        /\ pc'[r] = "dispatch" => template # NoTemplate
    BY <1>3, <1>8 DEF RunExecutor, OnStageCompleted, OnStageFailed, Return, AfterCall, Goto, Attempting
  <2> QED
    BY <2>1, <2>2, SameLoops
<1>9. CASE ExecuteCommit(r) \/ CompletionCommit(r) \/ FailureCommit(r) \/ AdvanceCommit(r)
  <2>1. frames'[r] = frames[r] /\ stage'[r] = stage[r]
    BY <1>9 DEF ExecuteCommit, CompletionCommit, FailureCommit, AdvanceCommit, Commits
  <2>2. /\ pc[r] \notin {"idle", "start"} /\ pc'[r] \notin {"idle", "start"}
        /\ pc'[r] \in Attempting => pc[r] \in Attempting
        /\ pc'[r] # "dispatch"
    BY <1>3, <1>9 DEF ExecuteCommit, CompletionCommit, FailureCommit, AdvanceCommit,
       Commits, Return, AfterCall, Goto, Attempting
  <2> QED
    BY <2>1, <2>2, SameLoops
<1> QED
  BY <1>5, <1>6, <1>7, <1>8, <1>9 DEF LocalStep

(* An engine step moves its own request only. *)
LEMMA OthersStay ==
    ASSUME TypeOK, NEW r \in Request, NEW q \in Request, q # r,
           \/ LocalStep(r)
           \/ Gone(r)
           \/ SendStart(r)
           \/ \E st \in StageType : ManualExecute(r, st)
           \/ \E t \in TemplateId : StartCommit(r, t)
    PROVE  pc'[q] = pc[q] /\ frames'[q] = frames[q] /\ stage'[q] = stage[q]
<1>1. /\ pc \in [Request -> Label] /\ stage \in [Request -> StageType]
      /\ frames \in [Request -> Seq(SUBSET StageType)]
  BY DEF TypeOK
<1>2. CASE Gone(r) \/ SendStart(r)
  BY <1>1, <1>2 DEF Gone, Leave, SendStart, Goto
<1>3. CASE \E st \in StageType : ManualExecute(r, st)
  BY <1>1, <1>3 DEF ManualExecute, Goto
<1>4. CASE \E t \in TemplateId : StartCommit(r, t)
  BY <1>1, <1>4 DEF StartCommit, Commits, Goto
<1>5. CASE Dispatch(r) \/ (\E st \in StageType : DispatchNext(r, st)) \/ DispatchEnd(r)
  BY <1>1, <1>5 DEF Dispatch, DispatchNext, DispatchEnd, Goto
<1>6. CASE RunExecutor(r) \/ OnStageCompleted(r) \/ OnStageFailed(r)
  BY <1>1, <1>6 DEF RunExecutor, OnStageCompleted, OnStageFailed, Return, AfterCall, Goto
<1>7. CASE ExecuteCommit(r) \/ CompletionCommit(r) \/ FailureCommit(r)
           \/ AdvanceCommit(r)
  BY <1>1, <1>7 DEF ExecuteCommit, CompletionCommit, FailureCommit,
     AdvanceCommit, Commits, Return, AfterCall, Goto
<1> QED
  BY <1>2, <1>3, <1>4, <1>5, <1>6, <1>7 DEF LocalStep

(* No list of a dispatch loop comes to hold a stage with an open           *)
(* predecessor.                                                            *)
LEMMA FramesStep ==
    ASSUME Inv, AtomicNext
    PROVE  FramesOK'
<1>1. TypeOK /\ Sound(assessment)
  BY DEF Inv
<1>2. CASE UNCHANGED <<assessment, pc, route, stage, frames>>
  <2>1. \A q \in Request : pc'[q] = pc[q] /\ frames'[q] = frames[q] /\ stage'[q] = stage[q]
    BY <1>2
  <2> QED
    BY <2>1, Carried DEF FramesOK
<1>3. ASSUME NEW c \in UserCommand, UserEffect(c)
      PROVE  FramesOK'
  <2>1. \A q \in Request : pc'[q] = pc[q] /\ frames'[q] = frames[q] /\ stage'[q] = stage[q]
    BY <1>3 DEF UserEffect, engineVars
  <2> QED
    BY <2>1, Carried DEF FramesOK
<1>4. ASSUME NEW r \in Request,
             \/ LocalStep(r)
             \/ Gone(r)
             \/ SendStart(r)
             \/ \E st \in StageType : ManualExecute(r, st)
             \/ \E t \in TemplateId : StartCommit(r, t)
      PROVE  FramesOK'
  <2>1. \A q \in Request :
           q # r => pc'[q] = pc[q] /\ frames'[q] = frames[q] /\ stage'[q] = stage[q]
    BY <1>1, <1>4, OthersStay
  <2>2. \A q \in Request : q # r => RequestOK(q)'
    BY <2>1, Carried
  <2> SUFFICES RequestOK(r)'
    BY <2>2 DEF FramesOK
  <2>3. CASE LocalStep(r)
    BY <2>3, StepOfRequest
  <2>4. CASE Gone(r)
    <3>1. frames'[r] = <<>> /\ pc'[r] # "dispatch"
      BY <1>1, <2>4, GoneType
    <3> QED
      BY <3>1, Outside
  <2>7. CASE SendStart(r)
    <3>1. frames'[r] = frames[r] /\ pc'[r] = "start" /\ pc[r] = "idle"
      BY <1>1, <2>7 DEF SendStart, CanSend, Goto, TypeOK
    <3>2. frames[r] = <<>>
      BY <3>1 DEF Inv, FramesOK, RequestOK
    <3> QED
      BY <3>1, <3>2, Outside
  <2>5. CASE \E st \in StageType : ManualExecute(r, st)
    <3>1. frames'[r] = frames[r] /\ pc'[r] = "execute" /\ pc[r] = "idle"
      BY <1>1, <2>5 DEF ManualExecute, CanSend, Goto, TypeOK
    <3>2. frames[r] = <<>>
      BY <3>1 DEF Inv, FramesOK, RequestOK
    <3> QED
      BY <3>1, <3>2, Outside
  <2>6. CASE \E t \in TemplateId : StartCommit(r, t)
    <3>1. PICK t \in TemplateId : StartCommit(r, t)
      BY <2>6
    <3>2. frames'[r] = frames[r] /\ pc'[r] = "dispatch" /\ pc[r] = "start"
      BY <1>1, <3>1 DEF StartCommit, Commits, Goto, TypeOK
    <3>3. frames'[r] = <<>>
      BY <3>2 DEF Inv, FramesOK, RequestOK
    <3> DEFINE c == [op |-> "start_workflow", template |-> t]
    <3>4. assessment' = Apply(assessment, c) /\ c.op = "start_workflow" /\ c.template = t
      BY <3>1 DEF StartCommit, Commits, Effect
    <3> HIDE DEF c
    <3>5. assessment' = start_workflow(assessment, t)
      BY <3>4, StartWorkflowMeaning
    <3>6. template' # NoTemplate
      BY <1>1, <3>5, TemplateAssumption DEF start_workflow, TypeOK, Assessment, template
    <3>7. \A i \in 1..Len(frames'[r]) : frames'[r][i] \subseteq Cleared'
      BY <3>3
    <3> QED
      BY <3>2, <3>3, <3>6, <3>7 DEF RequestOK
  <2> QED
    BY <1>4, <2>3, <2>4, <2>5, <2>6, <2>7
<1> QED
  BY <1>2, <1>3, <1>4 DEF AtomicNext

-----------------------------------------------------------------------------
(* Theorems *)

(* Every step of the view keeps what is known of the engine. *)
LEMMA InvStep ==
    ASSUME Inv, AtomicNext, TypeOK'
    PROVE  Inv'
<1>1. Sound(assessment')
  BY AssessmentStep DEF Inv
<1> QED
  BY <1>1, ExecutorStep, FramesStep DEF Inv, Sound

\* What holds of every state.
SafeUntilMet == TypeOK /\ (met = {} => Serial /\ Inv)

(* The inductive invariant of the engine. *)
THEOREM Invariance == Spec => []SafeUntilMet
<1>1. Init => SafeUntilMet
  <2> SUFFICES ASSUME Init PROVE SafeUntilMet
    OBVIOUS
  <2>1. assessment \in Assessment /\ Sound(assessment)
    BY CreatedType, CreatedSound DEF Init
  <2>2. stage \in [Request -> StageType]
    BY EngineAssumption DEF Init
  <2>3. <<>> \in Seq(SUBSET StageType)
    OBVIOUS
  <2>4. TypeOK
    BY <2>1, <2>2, <2>3, NoCmdType, CreatedType DEF Init, TypeOK, Label
  <2>5. \A r \in Request : pc[r] = "idle" /\ frames[r] = <<>>
    BY DEF Init
  <2>6. Executing = {}
    BY <2>5 DEF Executing
  <2>7. FramesOK
    <3> SUFFICES ASSUME NEW r \in Request PROVE RequestOK(r)
      BY DEF FramesOK
    <3>1. \A i \in 1..Len(frames[r]) : frames[r][i] \subseteq Cleared
      BY <2>5
    <3> QED
      BY <2>5, <3>1 DEF RequestOK
  <2>8. Serial
    BY DEF Init, Serial
  <2> QED
    BY <2>1, <2>4, <2>6, <2>7, <2>8 DEF SafeUntilMet, Inv, ExecutorsApart
<1>2. SafeUntilMet /\ [Next]_vars => SafeUntilMet'
  <2> SUFFICES ASSUME SafeUntilMet, [Next]_vars PROVE SafeUntilMet'
    OBVIOUS
  <2>1. TypeOK'
    BY TypeStep DEF SafeUntilMet
  <2>2. ASSUME met' = {} PROVE Serial' /\ Inv'
    <3>1. met = {}
      BY <2>2, MetStays DEF SafeUntilMet
    <3>2. Serial /\ Inv
      BY <3>1 DEF SafeUntilMet
    <3>3. AtomicNext
      BY <3>2, AtomicView DEF Inv
    <3> QED
      BY <2>1, <2>2, <3>2, <3>3, InvStep, SerialStep DEF SafeUntilMet
  <2> QED
    BY <2>1, <2>2 DEF SafeUntilMet
<1> QED
  BY <1>1, <1>2, PTL DEF Spec

(* Type correctness of assessment, requests, handlers and dispatch loops,  *)
(* whatever handlers meet.                                                 *)
THEOREM TypeCorrect == Spec => []TypeOK
<1>1. SafeUntilMet => TypeOK
  BY DEF SafeUntilMet
<1> QED
  BY <1>1, Invariance, PTL

(* A stage is executed by one request at a time and is RUNNING meanwhile,  *)
(* whatever requests and users do, until two handlers of the assessment    *)
(* are between version check and commit together.                          *)
THEOREM SingleExecutor == Spec => []OneExecutorPerStage
<1>1. SafeUntilMet => OneExecutorPerStage
  BY DEF SafeUntilMet, Inv, OneExecutorPerStage
<1> QED
  BY <1>1, Invariance, PTL

(* Dispatch loops start a stage only once its predecessors are COMPLETE,   *)
(* however stale the loop's list is.                                       *)
THEOREM DagRespected == Spec => []DispatchRespectsDag
<1>1. SafeUntilMet => DispatchRespectsDag
  BY DEF SafeUntilMet, Inv, FramesOK, RequestOK, DispatchRespectsDag, Attempting, Cleared
<1> QED
  BY <1>1, Invariance, PTL

-----------------------------------------------------------------------------
(* Counting *)

(* A smaller set counts less. *)
LEMMA Shrinks ==
    ASSUME NEW S, IsFiniteSet(S), NEW T, T \subseteq S
    PROVE  /\ IsFiniteSet(T) /\ Cardinality(T) \in Nat /\ Cardinality(S) \in Nat
           /\ Cardinality(T) <= Cardinality(S)
  BY FS_Subset, FS_CardinalityType

(* A set without one of its elements counts one less. *)
LEMMA Loses ==
    ASSUME NEW S, IsFiniteSet(S), NEW x \in S, NEW T, T \subseteq S \ {x}
    PROVE  /\ IsFiniteSet(T) /\ Cardinality(T) \in Nat /\ Cardinality(S) \in Nat
           /\ Cardinality(T) + 1 <= Cardinality(S)
<1>1. IsFiniteSet(S \ {x}) /\ Cardinality(S \ {x}) = Cardinality(S) - 1
  BY FS_RemoveElement
<1> QED
  BY <1>1, Shrinks, FS_CardinalityType

(* One more element counts at most one more. *)
LEMMA Gains ==
    ASSUME NEW S, IsFiniteSet(S), NEW x, NEW T, T \subseteq S \cup {x}
    PROVE  /\ IsFiniteSet(T) /\ Cardinality(T) \in Nat /\ Cardinality(S) \in Nat
           /\ Cardinality(T) <= Cardinality(S) + 1
<1>1. /\ IsFiniteSet(S \cup {x})
      /\ Cardinality(S \cup {x}) = Cardinality(S) \/ Cardinality(S \cup {x}) = Cardinality(S) + 1
  BY FS_AddElement
<1> QED
  BY <1>1, Shrinks, FS_CardinalityType

(* Exchanging an element for another counts no more. *)
LEMMA Swaps ==
    ASSUME NEW S, IsFiniteSet(S), NEW x \in S, NEW y, NEW T, T \subseteq (S \ {x}) \cup {y}
    PROVE  /\ IsFiniteSet(T) /\ Cardinality(T) \in Nat /\ Cardinality(S) \in Nat
           /\ Cardinality(T) <= Cardinality(S)
<1> DEFINE R == S \ {x}
<1>1. /\ IsFiniteSet(R) /\ Cardinality(R) \in Nat /\ Cardinality(S) \in Nat
      /\ Cardinality(R) + 1 <= Cardinality(S)
  BY Loses
<1>2. T \subseteq R \cup {y}
  OBVIOUS
<1> HIDE DEF R
<1>3. IsFiniteSet(T) /\ Cardinality(T) \in Nat /\ Cardinality(T) <= Cardinality(R) + 1
  BY <1>1, <1>2, Gains
<1> QED
  BY <1>1, <1>3

-----------------------------------------------------------------------------
(* What else is known of one request: it owes its first attempt to a       *)
(* dispatch loop or to the user who asked for it, and a stage it ran has   *)
(* been attempted.                                                         *)
HasRun == {"executing", "succeeded", "failed", "stage_failed", "completed", "advance"}

OriginOK(r) ==
    /\ pc[r] = "done" => frames[r] = <<>>
    /\ pc[r] = "idle" => route[r] = "none"
    /\ pc[r] = "start" => route[r] = "start_workflow"
    /\ frames[r] = <<>> /\ pc[r] \in Attempting => route[r] = "execute_stage"
    /\ pc[r] \in HasRun => progress[stage[r]].attempt_count # 0
    /\ pc[r] = "advance" => template # NoTemplate

OriginsOK == \A r \in Request : OriginOK(r)

(* Attempts and completion are never taken back. *)
LEMMA ProgressStep ==
    ASSUME TypeOK, Sound(assessment), AtomicNext
    PROVE  \A st \in StageType :
              /\ progress'[st] \in StageProgressEntry
              /\ is_complete(progress, st) => is_complete(progress', st)
              /\ progress'[st].attempt_count >= progress[st].attempt_count
<1>1. assessment \in Assessment /\ assessment' \in Assessment
  BY AssessmentStep DEF TypeOK
<1>2. \A st \in StageType : progress'[st] \in StageProgressEntry /\ progress[st] \in StageProgressEntry
  BY <1>1 DEF Assessment, WorkflowProgress, progress
<1>3. CASE assessment' = assessment
  BY <1>2, <1>3 DEF progress, StageProgressEntry
<1>4. CASE \E c \in Command : Effect(c)
  <2>1. PICK c \in Command : Legal(assessment, c) /\ assessment' = Apply(assessment, c)
    BY <1>4 DEF Effect
  <2> QED
    BY <1>1, <1>2, <2>1, CommandStep DEF progress
<1> QED
  BY <1>3, <1>4, StepIsCommand

(* A request that a step does not move keeps its origin. *)
LEMMA OriginCarried ==
    ASSUME Inv, AtomicNext, NEW q \in Request, OriginOK(q),
           pc'[q] = pc[q], frames'[q] = frames[q], stage'[q] = stage[q], route'[q] = route[q]
    PROVE  OriginOK(q)'
<1>1. stage[q] \in StageType /\ assessment \in Assessment
  BY DEF Inv, TypeOK
<1>2. /\ progress'[stage[q]].attempt_count >= progress[stage[q]].attempt_count
      /\ progress[stage[q]].attempt_count \in Nat /\ progress'[stage[q]].attempt_count \in Nat
  BY <1>1, ProgressStep DEF Inv, Assessment, WorkflowProgress, progress, StageProgressEntry
<1>3. template # NoTemplate => template' = template
  BY AssessmentStep DEF Inv
<1>4. progress[stage[q]].attempt_count # 0 => progress'[stage[q]].attempt_count # 0
  BY <1>2
<1> QED
  BY <1>3, <1>4 DEF OriginOK

(* A step changes the route of the request that is sent only. *)
LEMMA RoutesStay ==
    ASSUME TypeOK, NEW r \in Request,
           LocalStep(r) \/ Gone(r)
    PROVE  route' = route
  BY DEF LocalStep, Gone, Leave, Dispatch, DispatchNext, DispatchEnd, RunExecutor, OnStageCompleted,
     OnStageFailed, ExecuteCommit, CompletionCommit, FailureCommit, AdvanceCommit,
     Commits

(* The request that takes an engine step keeps its origin. *)
LEMMA OriginOfStep ==
    ASSUME Inv, AtomicNext, NEW r \in Request, OriginOK(r), LocalStep(r)
    PROVE  OriginOK(r)'
<1>1. TypeOK /\ Sound(assessment) /\ stage[r] \in StageType /\ RequestOK(r)
  BY DEF Inv, TypeOK, FramesOK
<1> DEFINE f == frames[r]
<1>2. /\ f \in Seq(SUBSET StageType) /\ r \in DOMAIN frames /\ r \in DOMAIN pc /\ r \in DOMAIN stage
      /\ route'[r] = route[r]
  BY <1>1, RoutesStay DEF TypeOK
<1>3. /\ progress'[stage[r]].attempt_count >= progress[stage[r]].attempt_count
      /\ progress[stage[r]].attempt_count \in Nat /\ progress'[stage[r]].attempt_count \in Nat
      /\ progress[stage[r]].attempt_count = 0 <=> progress[stage[r]].status = "NOT_STARTED"
      /\ progress'[stage[r]].attempt_count = 0 <=> progress'[stage[r]].status = "NOT_STARTED"
  BY <1>1, ProgressStep, AssessmentStep DEF Sound, TypeOK, Assessment, WorkflowProgress, progress,
     StageProgressEntry
<1>4. progress[stage[r]].attempt_count # 0 => progress'[stage[r]].attempt_count # 0
  BY <1>3
<1>5. template # NoTemplate => template' = template
  BY <1>1, AssessmentStep
<1>7. CASE Dispatch(r)
  BY <1>2, <1>7 DEF Dispatch, Goto, OriginOK, Attempting, HasRun
<1>8. CASE \E st \in StageType : DispatchNext(r, st)
  <2>1. PICK st \in StageType : DispatchNext(r, st)
    BY <1>8
  <2>2. /\ Head(f) \ {st} \in SUBSET StageType
        /\ Tail(f) \in Seq(SUBSET StageType)
    BY <1>2, <2>1, TailTypes DEF DispatchNext
  <2>3. frames'[r] # <<>> /\ pc'[r] \in {"execute", "loop"}
    BY <1>2, <2>1, <2>2, FrameTypes DEF DispatchNext, Goto
  <2> QED
    BY <2>3 DEF OriginOK, HasRun
<1>9. CASE DispatchEnd(r)
  <2>1. Tail(f) \in Seq(SUBSET StageType) /\ Len(Tail(f)) = Len(f) - 1 /\ frames'[r] = Tail(f)
    BY <1>2, <1>9, TailTypes DEF DispatchEnd
  <2>2. pc'[r] = IF Len(f) = 1 THEN "done" ELSE "loop"
    BY <1>2, <1>9 DEF DispatchEnd, Goto
  <2>3. Len(f) = 1 => Tail(f) = <<>>
    BY <1>2, <2>1
  <2> QED
    BY <2>1, <2>2, <2>3 DEF OriginOK, Attempting, HasRun
<1>10. CASE RunExecutor(r) \/ OnStageCompleted(r) \/ OnStageFailed(r)
  <2>1. frames'[r] = f /\ stage'[r] = stage[r]
    BY <1>10 DEF RunExecutor, OnStageCompleted, OnStageFailed
  <2>2. /\ pc[r] \in HasRun
        /\ pc'[r] \in Attempting => pc[r] \in Attempting
        /\ pc'[r] \notin {"idle", "start"}
        /\ pc'[r] = "done" => f = <<>>
        /\ pc'[r] = "advance" => template # NoTemplate
    BY <1>2, <1>10 DEF RunExecutor, OnStageCompleted, OnStageFailed, Return, AfterCall, Goto, Attempting, HasRun
  <2> QED
    BY <1>2, <1>4, <1>5, <2>1, <2>2 DEF OriginOK
<1>11. CASE ExecuteCommit(r) \/ CompletionCommit(r) \/ FailureCommit(r) \/ AdvanceCommit(r)
  <2>1. frames'[r] = f /\ stage'[r] = stage[r]
    BY <1>11 DEF ExecuteCommit, CompletionCommit, FailureCommit, AdvanceCommit, Commits
  <2>2. /\ pc'[r] \in Attempting => pc[r] \in Attempting
        /\ pc'[r] \notin {"idle", "start", "advance"}
        /\ pc'[r] = "done" => f = <<>>
        /\ pc'[r] = "executing" \/ pc[r] \in HasRun
    BY <1>2, <1>11 DEF ExecuteCommit, CompletionCommit, FailureCommit, AdvanceCommit,
       Commits, Return, AfterCall, Goto, Attempting, HasRun
  <2>3. ASSUME pc'[r] = "executing" PROVE progress'[stage[r]].attempt_count # 0
    <3>1. Effect([op |-> "start_stage", stage |-> stage[r]])
      BY <1>2, <1>11, <2>3 DEF ExecuteCommit, CompletionCommit, FailureCommit,
         AdvanceCommit, Commits, Return, AfterCall, Goto
    <3>2. progress'[stage[r]].status = "RUNNING"
      BY <1>1, <3>1, StageCommandStep DEF StageOp, TargetStageStatus
    <3> QED
      BY <1>3, <3>2
  <2> QED
    BY <1>2, <1>4, <1>5, <2>1, <2>2, <2>3 DEF OriginOK
<1> QED
  BY <1>7, <1>8, <1>9, <1>10, <1>11 DEF LocalStep

(* No step invents an attempt. *)
LEMMA OriginsStep ==
    ASSUME Inv, AtomicNext, OriginsOK
    PROVE  OriginsOK'
<1>1. TypeOK /\ Sound(assessment) /\ FramesOK
  BY DEF Inv
<1>2. CASE UNCHANGED <<assessment, pc, route, stage, frames>>
  BY <1>2, OriginCarried DEF OriginsOK
<1>3. ASSUME NEW c \in UserCommand, UserEffect(c)
      PROVE  OriginsOK'
  BY <1>3, OriginCarried DEF UserEffect, engineVars, OriginsOK
<1>4. ASSUME NEW r \in Request, LocalStep(r) \/ Gone(r)
      PROVE  OriginsOK'
  <2>1. \A q \in Request : q # r => OriginOK(q)'
    BY <1>1, <1>4, OthersStay, RoutesStay, OriginCarried DEF OriginsOK
  <2>2. CASE LocalStep(r)
    BY <2>1, <2>2, OriginOfStep DEF OriginsOK
  <2>3. CASE Gone(r)
    <3>1. pc'[r] \in {"raised", "lost", "abandoned"} /\ frames'[r] = <<>>
      BY <1>1, <2>3, GoneType
    <3>2. OriginOK(r)'
      BY <3>1 DEF OriginOK, Attempting, HasRun
    <3> QED
      BY <2>1, <3>2 DEF OriginsOK
  <2> QED
    BY <1>4, <2>2, <2>3
<1>5. ASSUME NEW r \in Request,
             \/ SendStart(r)
             \/ \E st \in StageType : ManualExecute(r, st)
             \/ \E t \in TemplateId : StartCommit(r, t)
      PROVE  OriginsOK'
  <2>1. \A q \in Request : q # r =>
           pc'[q] = pc[q] /\ frames'[q] = frames[q] /\ stage'[q] = stage[q] /\ route'[q] = route[q]
    BY <1>1, <1>5, OthersStay DEF SendStart, ManualExecute, StartCommit, Commits, TypeOK
  <2>2. \A q \in Request : q # r => OriginOK(q)'
    BY <2>1, OriginCarried DEF OriginsOK
  <2>3. OriginOK(r)'
    BY <1>1, <1>5 DEF SendStart, CanSend, ManualExecute, StartCommit, Commits, Goto, TypeOK,
       OriginOK, Attempting, HasRun
  <2> QED
    BY <2>2, <2>3 DEF OriginsOK
<1> QED
  BY <1>2, <1>3, <1>4, <1>5 DEF AtomicNext

-----------------------------------------------------------------------------
(* Nothing is forgotten *)

(* Stage st is in a list of a dispatch loop of request r. *)
Waits(r, st) == \E i \in 1..Len(frames[r]) : st \in frames[r][i]

(* Request r will still come to st, or has dropped what it had to do.      *)
Cares(r, st) ==
    \/ pc[r] \in {"raised", "lost", "abandoned", "dispatch", "completed", "advance"}
    \/ pc[r] \in Attempting /\ stage[r] = st
    \/ Waits(r, st)

(* While the workflow runs, every stage that could be dispatched has a     *)
(* request that cares for it, and a finished workflow one that advances it.*)
Watched ==
    assessment.status = "RUNNING" /\ template # NoTemplate =>
        /\ \A st \in Automatic(assessment) :
              HasRetryLeft(st) => \E r \in Request : Cares(r, st)
        /\ all_complete(progress, required_stage_types(template)) =>
              \E r \in Request : pc[r] \in {"raised", "lost", "abandoned", "completed", "advance"}

(* The list of a dispatch: runnable AUTOMATIC stages of the template.      *)
LEMMA AutomaticStages ==
    ASSUME NEW a, NEW t, a.workflow_template_id = t, t # NoTemplate, NEW p, p = a.workflow_progress
    PROVE  \A st : st \in Automatic(a) <=>
              /\ st \in required_stage_types(t)
              /\ p[st].status \in {"NOT_STARTED", "FAILED"}
              /\ all_complete(p, Template[t].required_predecessors[st])
              /\ Template[t].trigger_mode[st] = "AUTOMATIC"
  BY DEF Automatic, runnable_stages, required_stage_types

(* What a bound template is known to be. *)
LEMMA TemplateType ==
    ASSUME TypeOK, template # NoTemplate
    PROVE  /\ template \in TemplateId
           /\ required_stage_types(template) \subseteq StageType
           /\ required_stage_types(template) # {}
           /\ \A st \in StageType : /\ Template[template].required_predecessors[st] \subseteq StageType
                                   /\ Template[template].max_attempts[st] \in Nat \ {0}
<1>1. template \in TemplateId
  BY DEF TypeOK, Assessment, template
<1>2. Template[template] \in WorkflowTemplate
  BY <1>1, TemplateAssumption
<1>3. /\ Template[template].stages \in (SUBSET StageType) \ {{}}
      /\ Template[template].required_predecessors \in [StageType -> SUBSET StageType]
      /\ Template[template].max_attempts \in [StageType -> Nat \ {0}]
  BY <1>2 DEF WorkflowTemplate
<1> QED
  BY <1>1, <1>3 DEF required_stage_types

(* A step under which nothing new can be dispatched, no retry is granted   *)
(* and no request stops caring.                                            *)
LEMMA StillWatched ==
    ASSUME Watched,
           assessment'.status = "RUNNING" /\ template' # NoTemplate =>
               assessment.status = "RUNNING" /\ template # NoTemplate,
           \A st : st \in Automatic(assessment)' /\ HasRetryLeft(st)' =>
               \/ \E r \in Request : Cares(r, st)'
               \/ /\ st \in Automatic(assessment) /\ HasRetryLeft(st)
                  /\ \A r \in Request : Cares(r, st) => Cares(r, st)',
           all_complete(progress, required_stage_types(template))' =>
               \/ \E r \in Request : pc'[r] \in {"raised", "lost", "abandoned", "completed", "advance"}
               \/ /\ all_complete(progress, required_stage_types(template))
                  /\ \A r \in Request : pc[r] \in {"raised", "lost", "abandoned", "completed", "advance"} =>
                         pc'[r] \in {"raised", "lost", "abandoned", "completed", "advance"}
    PROVE  Watched'
  BY DEF Watched

(* A step that leaves the assessment alone and moves one request only.     *)
LEMMA WatchedByOthers ==
    ASSUME Watched, NEW r \in Request, assessment' = assessment,
           \A q \in Request : q # r =>
               pc'[q] = pc[q] /\ frames'[q] = frames[q] /\ stage'[q] = stage[q],
           \A st : st \in Automatic(assessment) /\ HasRetryLeft(st) /\ Cares(r, st) => Cares(r, st)',
           pc[r] \in {"raised", "lost", "abandoned", "completed", "advance"} =>
               \/ pc'[r] \in {"raised", "lost", "abandoned", "completed", "advance"}
               \/ template # NoTemplate =>
                     ~all_complete(progress, required_stage_types(template))
    PROVE  Watched'
<1>1. /\ Automatic(assessment)' = Automatic(assessment)
      /\ \A st : HasRetryLeft(st)' <=> HasRetryLeft(st)
      /\ template' = template /\ progress' = progress
  BY DEF Automatic, HasRetryLeft, template, progress
<1>2. \A q \in Request : \A st : q # r => (Cares(q, st)' <=> Cares(q, st))
  BY DEF Cares, Waits
<1>3. \A st : st \in Automatic(assessment) /\ HasRetryLeft(st) =>
         \A q \in Request : Cares(q, st) => Cares(q, st)'
  BY <1>2
<1> QED
  BY <1>1, <1>3 DEF Watched

(* What lists a dispatch loop is left with. *)
LEMMA DispatchNextWaits ==
    ASSUME TypeOK, NEW r \in Request, NEW s \in StageType, DispatchNext(r, s)
    PROVE  /\ \A st : Waits(r, st) /\ st # s => Waits(r, st)'
           /\ pc[r] = "loop" /\ s \in Head(frames[r])
           /\ \/ pc'[r] = "execute" /\ stage'[r] = s
              \/ ~StillRunnable(s)
<1> DEFINE f == frames[r]
           S == Head(f) \ {s}
           g == Tail(f)
<1>1. f \in Seq(SUBSET StageType) /\ r \in DOMAIN frames /\ r \in DOMAIN pc /\ r \in DOMAIN stage
  BY DEF TypeOK
<1>2. /\ f # <<>> /\ frames'[r] = <<S>> \o g /\ s \in Head(f) /\ pc[r] = "loop"
      /\ \/ pc'[r] = "execute" /\ stage'[r] = s
         \/ ~StillRunnable(s)
  BY <1>1 DEF DispatchNext, IsNext, Goto
<1>3. /\ g \in Seq(SUBSET StageType) /\ S \in SUBSET StageType
      /\ Head(f) = f[1] /\ Len(f) \in Nat /\ Len(f) > 0 /\ Len(g) = Len(f) - 1
      /\ \A i \in 1..(Len(f) - 1) : g[i] = f[i + 1]
  BY <1>1, <1>2, TailTypes
<1>4. ASSUME NEW st, st # s, NEW i \in 1..Len(f), st \in f[i]
      PROVE  i \in 1..Len(frames'[r]) /\ st \in frames'[r][i]
  <2> HIDE DEF S, g
  <2>1. /\ Len(<<S>> \o g) = Len(f)
        /\ (<<S>> \o g)[i] = IF i = 1 THEN S ELSE g[i - 1]
    BY <1>3, FrameTypes
  <2>2. CASE i = 1
    BY <1>2, <1>3, <1>4, <2>1, <2>2 DEF S
  <2>3. CASE i # 1
    <3>1. i - 1 \in 1..(Len(f) - 1) /\ (i - 1) + 1 = i
      BY <1>3, <2>3
    <3>2. g[i - 1] = f[i]
      BY <1>3, <3>1
    <3> QED
      BY <1>2, <1>4, <2>1, <2>3, <3>2
  <2> QED
    BY <2>2, <2>3
<1>5. \A st : Waits(r, st) /\ st # s => Waits(r, st)'
  BY <1>4 DEF Waits
<1> QED
  BY <1>2, <1>5

(* A stage command binds nothing, and unless it completes the stage no     *)
(* other stage becomes dispatchable by it, nor the workflow complete.      *)
LEMMA StageCommandWatch ==
    ASSUME TypeOK, template # NoTemplate, NEW op \in StageOp, NEW s \in StageType,
           Effect([op |-> op, stage |-> s])
    PROVE  /\ template' = template /\ assessment'.status = assessment.status
           /\ \A st : st # s => (HasRetryLeft(st)' <=> HasRetryLeft(st))
           /\ op = "start_stage" => s \notin Automatic(assessment)'
           /\ op # "complete_stage" =>
                 /\ \A st : st \in Automatic(assessment)' /\ st # s => st \in Automatic(assessment)
                 /\ all_complete(progress, required_stage_types(template))' =>
                       all_complete(progress, required_stage_types(template))
<1>1. /\ progress'[s].status = TargetStageStatus[op]
      /\ \A t \in StageType : t # s => progress'[t] = progress[t]
      /\ template' = template
  BY StageCommandStep
<1>2. assessment'.status = assessment.status
  <2> DEFINE c == [op |-> op, stage |-> s]
             new == TargetStageStatus[op]
  <2>1. c.op = op /\ c.stage = s /\ Legal(assessment, c) /\ assessment' = Apply(assessment, c)
    BY DEF Effect
  <2> HIDE DEF c
  <2>2. assessment' = move_stage(assessment, s, new) /\ new \in StageExecutionStatus
    BY <2>1, StageCommandMeaning DEF StageExecutionStatus
  <2> QED
    BY <2>2, MoveStageMeaning DEF TypeOK
<1>3. /\ required_stage_types(template) \subseteq StageType
      /\ \A st \in StageType : Template[template].required_predecessors[st] \subseteq StageType
  BY TemplateType
<1>4. \A st : st # s => (HasRetryLeft(st)' <=> HasRetryLeft(st))
  BY <1>1, <1>3 DEF HasRetryLeft, required_stage_types
<1>5. \A st : st \in Automatic(assessment) <=>
              /\ st \in required_stage_types(template)
              /\ progress[st].status \in {"NOT_STARTED", "FAILED"}
              /\ all_complete(progress, Template[template].required_predecessors[st])
              /\ Template[template].trigger_mode[st] = "AUTOMATIC"
  BY AutomaticStages DEF template, progress
<1>6. \A st : st \in Automatic(assessment)' <=>
              /\ st \in required_stage_types(template)
              /\ progress'[st].status \in {"NOT_STARTED", "FAILED"}
              /\ all_complete(progress', Template[template].required_predecessors[st])
              /\ Template[template].trigger_mode[st] = "AUTOMATIC"
  BY <1>1, AutomaticStages DEF template, progress
<1>7. op = "start_stage" => s \notin Automatic(assessment)'
  BY <1>1, <1>6 DEF TargetStageStatus
<1>8. ASSUME op # "complete_stage"
      PROVE  \A S \in SUBSET StageType : all_complete(progress', S) => all_complete(progress, S)
  <2>1. ~is_complete(progress', s)
    BY <1>1, <1>8 DEF StageOp, TargetStageStatus, is_complete
  <2> QED
    BY <1>1, <2>1 DEF all_complete, is_complete
<1>9. ASSUME op # "complete_stage", NEW st, st \in Automatic(assessment)', st # s
      PROVE  st \in Automatic(assessment)
  <2>1. st \in StageType /\ progress'[st] = progress[st]
    BY <1>1, <1>3, <1>6, <1>9
  <2>2. Template[template].required_predecessors[st] \in SUBSET StageType
    BY <1>3, <2>1
  <2> QED
    BY <1>5, <1>6, <1>8, <1>9, <2>1, <2>2
<1>10. op # "complete_stage" =>
          (all_complete(progress, required_stage_types(template))' =>
              all_complete(progress, required_stage_types(template)))
  BY <1>1, <1>3, <1>8 DEF required_stage_types
<1> QED
  BY <1>1, <1>2, <1>4, <1>7, <1>9, <1>10

(* An engine step leaves every stage and the end of the workflow watched.  *)
LEMMA WatchedEngineStep ==
    ASSUME Inv, AtomicNext, OriginsOK, Watched, NEW r \in Request, LocalStep(r)
    PROVE  Watched'
<1>1. TypeOK /\ Sound(assessment) /\ stage[r] \in StageType /\ RequestOK(r) /\ OriginOK(r)
  BY DEF Inv, TypeOK, FramesOK, OriginsOK
<1> DEFINE f == frames[r]
           s == stage[r]
           Over == {"raised", "lost", "abandoned", "completed", "advance"}
<1>2. f \in Seq(SUBSET StageType) /\ r \in DOMAIN frames /\ r \in DOMAIN pc /\ r \in DOMAIN stage
  BY <1>1 DEF TypeOK
<1>3. \A q \in Request : q # r =>
         pc'[q] = pc[q] /\ frames'[q] = frames[q] /\ stage'[q] = stage[q]
  BY <1>1, OthersStay
<1>4. \A q \in Request : \A st : q # r => (Cares(q, st)' <=> Cares(q, st))
  BY <1>3 DEF Cares, Waits
<1>6. CASE Dispatch(r)
  <2> DEFINE S == Automatic(assessment)
  <2>1. /\ assessment' = assessment /\ pc[r] = "dispatch" /\ frames'[r] = <<S>> \o f
    BY <1>2, <1>6 DEF Dispatch, Goto
  <2>2. S \in SUBSET StageType
    BY <1>1, AutomaticCleared DEF Cleared
  <2>3. 1 \in 1..Len(frames'[r]) /\ frames'[r][1] = S
    <3> HIDE DEF S
    <3>1. Len(f) \in Nat /\ Len(<<S>> \o f) = Len(f) + 1 /\ (<<S>> \o f)[1] = S
      BY <1>2, <2>2, FrameTypes
    <3> QED
      BY <2>1, <3>1
  <2>4. \A st : st \in Automatic(assessment) => Cares(r, st)'
    BY <2>3 DEF Cares, Waits
  <2> QED
    BY <1>3, <2>1, <2>4, WatchedByOthers
<1>7. CASE \E st \in StageType : DispatchNext(r, st)
  <2>1. PICK n \in StageType : DispatchNext(r, n)
    BY <1>7
  <2>2. /\ \A st : Waits(r, st) /\ st # n => Waits(r, st)'
        /\ pc[r] = "loop" /\ assessment' = assessment
        /\ (pc'[r] = "execute" /\ stage'[r] = n) \/ ~StillRunnable(n)
    BY <1>1, <2>1, DispatchNextWaits DEF DispatchNext
  <2>3. ~StillRunnable(n) => n \notin Automatic(assessment)
    BY DEF Automatic, runnable_stages, StillRunnable, progress
  <2>4. \A st : st \in Automatic(assessment) /\ HasRetryLeft(st) /\ Cares(r, st) => Cares(r, st)'
    BY <2>2, <2>3 DEF Cares, Attempting
  <2> QED
    BY <1>3, <2>2, <2>4, WatchedByOthers
<1>8. CASE DispatchEnd(r)
  <2>1. f # <<>> /\ Head(f) = {} /\ frames'[r] = Tail(f) /\ pc[r] = "loop" /\ assessment' = assessment
    BY <1>2, <1>8 DEF DispatchEnd
  <2>2. /\ Head(f) = f[1] /\ Len(f) \in Nat /\ Len(f) > 0 /\ Len(Tail(f)) = Len(f) - 1
        /\ \A i \in 1..(Len(f) - 1) : Tail(f)[i] = f[i + 1]
    BY <1>2, <2>1, TailTypes
  <2>3. ASSUME NEW st, NEW i \in 1..Len(f), st \in f[i]
        PROVE  \E k \in 1..Len(frames'[r]) : st \in frames'[r][k]
    <3>1. i # 1
      BY <2>1, <2>2, <2>3
    <3>2. i - 1 \in 1..(Len(f) - 1) /\ (i - 1) + 1 = i
      BY <2>2, <3>1
    <3>3. Tail(f)[i - 1] = f[i]
      BY <2>2, <3>2
    <3> QED
      BY <2>1, <2>2, <2>3, <3>2, <3>3
  <2>4. \A st : Cares(r, st) => Cares(r, st)'
    BY <2>1, <2>3 DEF Cares, Waits, Attempting
  <2> QED
    BY <1>3, <2>1, <2>4, WatchedByOthers
<1>9. CASE RunExecutor(r) \/ OnStageCompleted(r) \/ OnStageFailed(r)
  <2>1. assessment' = assessment /\ frames'[r] = f /\ stage'[r] = s
    BY <1>9 DEF RunExecutor, OnStageCompleted, OnStageFailed
  <2>2. \A st : Waits(r, st) => Waits(r, st)'
    BY <2>1 DEF Waits
  <2>3. CASE RunExecutor(r)
    <3>1. pc[r] = "executing" /\ pc'[r] \in {"succeeded", "failed"}
      BY <1>2, <2>3 DEF RunExecutor, Goto
    <3>2. \A st : Cares(r, st) => Cares(r, st)'
      BY <2>1, <2>2, <3>1 DEF Cares, Attempting
    <3> QED
      BY <1>3, <2>1, <3>1, <3>2, WatchedByOthers
  <2>4. CASE OnStageCompleted(r)
    <3>1. /\ pc[r] = "completed"
          /\ \/ template = NoTemplate
             \/ pc'[r] = "advance"
             \/ /\ pc'[r] = "dispatch"
                /\ ~all_complete(progress, required_stage_types(template))
      BY <1>2, <2>4 DEF OnStageCompleted, Goto
    <3>2. CASE template = NoTemplate
      BY <2>1, <3>2 DEF Watched, template
    <3>3. CASE template # NoTemplate
      <4>1. \A st : Cares(r, st)'
        BY <3>1, <3>3 DEF Cares
      <4> QED
        BY <1>3, <2>1, <3>1, <3>3, <4>1, WatchedByOthers
    <3> QED
      BY <3>2, <3>3
  <2>5. CASE OnStageFailed(r)
    <3>1. /\ pc[r] = "stage_failed"
          /\ HasRetryLeft(s) => pc'[r] = "execute"
      BY <1>2, <2>5 DEF OnStageFailed, Goto
    <3>2. \A st : HasRetryLeft(st) /\ Cares(r, st) => Cares(r, st)'
      BY <2>1, <2>2, <3>1 DEF Cares, Attempting
    <3> QED
      BY <1>3, <2>1, <3>1, <3>2, WatchedByOthers
  <2> QED
    BY <1>9, <2>3, <2>4, <2>5
<1>10. CASE template = NoTemplate /\ (ExecuteCommit(r) \/ CompletionCommit(r) \/ FailureCommit(r))
  <2>1. template' = NoTemplate
    BY <1>1, <1>10, StageCommandStep DEF ExecuteCommit, CompletionCommit,
       FailureCommit, Commits, StageOp, template
  <2> QED
    BY <2>1 DEF Watched
<1>11. CASE template # NoTemplate /\ ExecuteCommit(r)
  <2>1. /\ pc[r] = "execute" /\ pc'[r] = "executing" /\ frames'[r] = f /\ stage'[r] = s
        /\ Effect([op |-> "start_stage", stage |-> s])
    BY <1>2, <1>11 DEF ExecuteCommit, Commits, Goto
  <2>2. /\ template' = template /\ assessment'.status = assessment.status
        /\ \A st : st # s => (HasRetryLeft(st)' <=> HasRetryLeft(st))
        /\ \A st : st \in Automatic(assessment)' => st \in Automatic(assessment) /\ st # s
        /\ all_complete(progress, required_stage_types(template))' =>
               all_complete(progress, required_stage_types(template))
    BY <1>1, <1>11, <2>1, StageCommandWatch DEF StageOp
  <2>3. \A st : Cares(r, st) /\ st # s => Cares(r, st)'
    BY <2>1 DEF Cares, Waits, Attempting
  <2>4. \A q \in Request : pc[q] \in Over => pc'[q] \in Over
    BY <1>3, <2>1
  <2> QED
    BY <1>4, <1>11, <2>2, <2>3, <2>4, StillWatched
<1>12. CASE template # NoTemplate /\ FailureCommit(r)
  <2>1. /\ pc[r] = "failed" /\ pc'[r] = "stage_failed" /\ frames'[r] = f /\ stage'[r] = s
        /\ Effect([op |-> "fail_stage", stage |-> s])
    BY <1>2, <1>12 DEF FailureCommit, Commits, Goto
  <2>2. /\ template' = template /\ assessment'.status = assessment.status
        /\ \A st : st # s => (HasRetryLeft(st)' <=> HasRetryLeft(st))
        /\ \A st : st \in Automatic(assessment)' /\ st # s => st \in Automatic(assessment)
        /\ all_complete(progress, required_stage_types(template))' =>
               all_complete(progress, required_stage_types(template))
    BY <1>1, <1>12, <2>1, StageCommandWatch DEF StageOp
  <2>3. /\ \A st : Cares(r, st) => Cares(r, st)'
        /\ \A st : st = s => Cares(r, st)'
    BY <2>1 DEF Cares, Waits, Attempting
  <2>4. \A q \in Request : pc[q] \in Over => pc'[q] \in Over
    BY <1>3, <2>1
  <2>5. ASSUME NEW st, st \in Automatic(assessment)', HasRetryLeft(st)'
        PROVE  \/ \E q \in Request : Cares(q, st)'
               \/ /\ st \in Automatic(assessment) /\ HasRetryLeft(st)
                  /\ \A q \in Request : Cares(q, st) => Cares(q, st)'
    <3>1. CASE st = s
      BY <2>3, <3>1
    <3>2. CASE st # s
      BY <1>4, <2>2, <2>3, <2>5, <3>2
    <3> QED
      BY <3>1, <3>2
  <2> HIDE DEF s
  <2> QED
    BY <1>12, <2>2, <2>4, <2>5, StillWatched
<1>13. CASE template # NoTemplate /\ CompletionCommit(r)
  <2>1. /\ pc'[r] = "completed" /\ Effect([op |-> "complete_stage", stage |-> s])
    BY <1>2, <1>13 DEF CompletionCommit, Commits, Goto
  <2>2. \A st : Cares(r, st)'
    BY <2>1 DEF Cares
  <2>3. template' = template /\ assessment'.status = assessment.status
    BY <1>1, <1>13, <2>1, StageCommandWatch DEF StageOp
  <2> QED
    BY <1>13, <2>1, <2>2, <2>3, StillWatched
<1>14. CASE AdvanceCommit(r)
  <2> DEFINE c == [op |-> "advance_past_running"]
  <2>1. assessment' = Apply(assessment, c) /\ c.op = "advance_past_running"
    BY <1>14 DEF AdvanceCommit, Commits, Effect
  <2> HIDE DEF c
  <2>2. assessment' = [assessment EXCEPT !.status = "VALIDATED"]
    BY <2>1, AdvanceMeaning
  <2>3. assessment'.status # "RUNNING"
    BY <1>1, <2>2 DEF TypeOK, Assessment
  <2> QED
    BY <2>3 DEF Watched
<1> QED
  BY <1>6, <1>7, <1>8, <1>9, <1>10, <1>11, <1>12, <1>13, <1>14 DEF LocalStep

(* No step forgets a stage that could run, or a workflow that is complete. *)
LEMMA WatchedStep ==
    ASSUME Inv, AtomicNext, OriginsOK, Watched
    PROVE  Watched'
<1>1. TypeOK /\ Sound(assessment) /\ FramesOK
  BY DEF Inv
<1>2. CASE UNCHANGED <<assessment, pc, route, stage, frames>>
  BY <1>2 DEF Watched, Automatic, HasRetryLeft, Cares, Waits, template, progress
<1>3. ASSUME NEW c \in UserCommand, UserEffect(c)
      PROVE  Watched'
  <2>1. c \in LifecycleCommand /\ c.op \in LifecycleOp
    BY EngineAssumption DEF LifecycleCommand
  <2>2. /\ assessment' = [assessment EXCEPT !.status = TargetStatus[c.op]]
        /\ CanTransition(assessment, TargetStatus[c.op])
    BY <1>3, <2>1, LifecycleCommandMeaning DEF UserEffect, engineVars, Effect
  <2>3. progress' = progress /\ template' = template /\ assessment'.status = TargetStatus[c.op]
    BY <1>1, <2>2 DEF progress, template, TypeOK, Assessment
  <2>4. ASSUME assessment'.status = "RUNNING" PROVE template = NoTemplate
    <3>1. assessment \in Assessment /\ CanTransition(assessment, "RUNNING")
      BY <1>1, <2>2, <2>3, <2>4 DEF TypeOK
    <3>2. assessment.status = "READY"
      BY <3>1 DEF CanTransition, LEGAL_TRANSITIONS, Assessment, AssessmentStatus
    <3> QED
      BY <1>1, <3>2 DEF Sound, template
  <2> QED
    BY <2>3, <2>4 DEF Watched
<1>4. ASSUME NEW r \in Request, LocalStep(r)
      PROVE  Watched'
  BY <1>4, WatchedEngineStep
<1>5. ASSUME NEW r \in Request, Gone(r)
      PROVE  Watched'
  <2>1. pc'[r] \in {"raised", "lost", "abandoned"} /\ assessment' = assessment
    BY <1>1, <1>5, GoneType
  <2>2. \A st : Cares(r, st)'
    BY <2>1 DEF Cares
  <2> QED
    BY <1>1, <1>5, <2>1, <2>2, OthersStay, WatchedByOthers
<1>6. ASSUME NEW r \in Request, SendStart(r) \/ \E st \in StageType : ManualExecute(r, st)
      PROVE  Watched'
  <2>1. pc[r] = "idle" /\ frames[r] = <<>> /\ assessment' = assessment
    BY <1>1, <1>6 DEF SendStart, ManualExecute, CanSend, FramesOK, RequestOK
  <2>2. \A s : ~Cares(r, s)
    BY <2>1 DEF Cares, Waits, Attempting
  <2> QED
    BY <1>1, <1>6, <2>1, <2>2, OthersStay, WatchedByOthers
<1>7. ASSUME NEW r \in Request, NEW t \in TemplateId, StartCommit(r, t)
      PROVE  Watched'
  <2> DEFINE c == [op |-> "start_workflow", template |-> t]
  <2>1. /\ assessment' = Apply(assessment, c) /\ c.op = "start_workflow" /\ c.template = t
        /\ pc'[r] = "dispatch"
    BY <1>1, <1>7 DEF StartCommit, Commits, Effect, Goto, TypeOK
  <2> HIDE DEF c
  <2>2. assessment' = start_workflow(assessment, t)
    BY <2>1, StartWorkflowMeaning
  <2>3. template' = t /\ progress' = initialize
    BY <1>1, <2>2 DEF start_workflow, TypeOK, Assessment, template, progress
  <2>4. required_stage_types(t) # {} /\ required_stage_types(t) \subseteq StageType
    BY TemplateAssumption DEF WorkflowTemplate, required_stage_types
  <2>5. ~all_complete(progress, required_stage_types(template))'
    BY <2>3, <2>4 DEF all_complete, is_complete, initialize, FreshEntry, required_stage_types
  <2>6. \A st : Cares(r, st)'
    BY <2>1 DEF Cares
  <2> QED
    BY <2>5, <2>6 DEF Watched
<1> QED
  BY <1>2, <1>3, <1>4, <1>5, <1>6, <1>7 DEF AtomicNext

-----------------------------------------------------------------------------
(* Attempts are bounded *)

(* A dispatch that may still come to stage st: at depth 0 one whose list   *)
(* is not computed yet, at depth d the list with d loops from the outside. *)
Claim(q, d, st) ==
    IF d = 0 THEN pc[q] \in {"completed", "dispatch"}
    ELSE d <= Len(frames[q]) /\ st \in frames[q][Len(frames[q]) + 1 - d]

Claims(st) == {p \in Request \X Nat : Claim(p[1], p[2], st)}

\* Requests that attempt st, or will report its failure ...
Alive(st) == {q \in Request : pc[q] \in Attempting /\ stage[q] = st}

\* ... and those that are about to start it.
Starting(st) == {q \in Request : pc[q] = "execute" /\ stage[q] = st}

Manual == {q \in Request : route[q] = "execute_stage"}

Finished(st) == Complete \ {st}

(* Below max_attempts every attempt may be repeated, but it was a claim or *)
(* a manual call that brought it about; from max_attempts on each further  *)
(* attempt uses one of them up.                                            *)
WithinBudget(status, attempts, max, alive, starting, claims, credit) ==
    IF status = "COMPLETE" THEN attempts <= max + credit
    ELSE IF attempts < max THEN alive + claims <= 1 + credit
    ELSE attempts + starting + claims <= max + credit

BudgetOK(st) ==
    WithinBudget(progress[st].status, progress[st].attempt_count, Template[template].max_attempts[st],
                 Cardinality(Alive(st)), Cardinality(Starting(st)), Cardinality(Claims(st)),
                 Cardinality(Finished(st)) + Cardinality(Manual))

Finite(st) ==
    IsFiniteSet(Alive(st)) /\ IsFiniteSet(Starting(st)) /\ IsFiniteSet(Claims(st)) /\ IsFiniteSet(Finished(st))

Budget ==
    /\ IsFiniteSet(Manual)
    /\ template # NoTemplate => \A st \in required_stage_types(template) : Finite(st) /\ BudgetOK(st)

(* The arithmetic of a budget: while attempts stay, what is alive and what *)
(* is claimed may only grow with the credit ...                            *)
LEMMA BudgetKept ==
    ASSUME NEW status, NEW statusB, NEW attempts \in Nat, NEW max \in Nat,
           NEW alive \in Nat, NEW starting \in Nat, NEW claims \in Nat, NEW credit \in Nat,
           NEW aliveB \in Nat, NEW startingB \in Nat, NEW claimsB \in Nat, NEW creditB \in Nat,
           WithinBudget(status, attempts, max, alive, starting, claims, credit),
           status = "COMPLETE" => statusB = "COMPLETE",
           credit <= creditB,
           aliveB + claimsB + credit <= alive + claims + creditB,
           \/ attempts < max
           \/ startingB + claimsB + credit <= starting + claims + creditB
    PROVE  WithinBudget(statusB, attempts, max, aliveB, startingB, claimsB, creditB)
  BY DEF WithinBudget

(* ... and an attempt that is begun is no longer about to begin.           *)
LEMMA BudgetSpent ==
    ASSUME NEW status, NEW statusB, NEW attempts \in Nat, NEW max \in Nat,
           NEW alive \in Nat, NEW starting \in Nat, NEW claims \in Nat, NEW credit \in Nat,
           NEW startingB \in Nat,
           WithinBudget(status, attempts, max, alive, starting, claims, credit),
           status # "COMPLETE", statusB # "COMPLETE",
           startingB + 1 <= starting, startingB + 1 <= alive
    PROVE  WithinBudget(statusB, attempts + 1, max, alive, startingB, claims, credit)
  BY DEF WithinBudget

(* What is needed of a stage of the template.                              *)
LEMMA StageTypes ==
    ASSUME TypeOK, template # NoTemplate, NEW st \in required_stage_types(template), Finite(st),
           IsFiniteSet(Manual)
    PROVE  /\ st \in StageType
           /\ progress[st].attempt_count \in Nat
           /\ Template[template].max_attempts[st] \in Nat /\ Template[template].max_attempts[st] > 0
           /\ Cardinality(Alive(st)) \in Nat /\ Cardinality(Starting(st)) \in Nat
           /\ Cardinality(Claims(st)) \in Nat
           /\ Cardinality(Finished(st)) \in Nat /\ Cardinality(Manual) \in Nat
<1>1. st \in StageType /\ Template[template].max_attempts[st] \in Nat \ {0}
  BY TemplateType
<1>2. progress[st] \in StageProgressEntry
  BY <1>1 DEF TypeOK, Assessment, WorkflowProgress, progress
<1> QED
  BY <1>1, <1>2, FS_CardinalityType DEF Finite, StageProgressEntry

(* The budget of a stage after a step that gives it no attempt.            *)
LEMMA BudgetMoves ==
    ASSUME TypeOK, template # NoTemplate, NEW st \in required_stage_types(template), Finite(st), BudgetOK(st),
           IsFiniteSet(Manual), Finite(st)', IsFiniteSet(Manual'),
           template' = template,
           progress'[st].attempt_count = progress[st].attempt_count,
           progress[st].status = "COMPLETE" => progress'[st].status = "COMPLETE",
           Cardinality(Finished(st)) + Cardinality(Manual)
               <= Cardinality(Finished(st)') + Cardinality(Manual'),
           Cardinality(Alive(st)') + Cardinality(Claims(st)') + Cardinality(Finished(st)) + Cardinality(Manual)
               <= Cardinality(Alive(st)) + Cardinality(Claims(st)) + Cardinality(Finished(st)') + Cardinality(Manual'),
           \/ progress[st].attempt_count < Template[template].max_attempts[st]
           \/ Cardinality(Starting(st)') + Cardinality(Claims(st)') + Cardinality(Finished(st)) + Cardinality(Manual)
               <= Cardinality(Starting(st)) + Cardinality(Claims(st)) + Cardinality(Finished(st)') + Cardinality(Manual')
    PROVE  BudgetOK(st)'
<1> DEFINE credit == Cardinality(Finished(st)) + Cardinality(Manual)
           creditB == Cardinality(Finished(st)') + Cardinality(Manual')
<1>1. /\ progress[st].attempt_count \in Nat
      /\ Template[template].max_attempts[st] \in Nat
      /\ Cardinality(Alive(st)) \in Nat /\ Cardinality(Starting(st)) \in Nat
      /\ Cardinality(Claims(st)) \in Nat
      /\ Cardinality(Finished(st)) \in Nat /\ Cardinality(Manual) \in Nat
  BY StageTypes
<1>2. /\ Cardinality(Alive(st)') \in Nat /\ Cardinality(Starting(st)') \in Nat
      /\ Cardinality(Claims(st)') \in Nat
      /\ Cardinality(Finished(st)') \in Nat /\ Cardinality(Manual') \in Nat
  BY FS_CardinalityType DEF Finite
<1>3. /\ credit \in Nat /\ creditB \in Nat /\ credit <= creditB
      /\ Cardinality(Alive(st)') + Cardinality(Claims(st)') + credit
            <= Cardinality(Alive(st)) + Cardinality(Claims(st)) + creditB
      /\ \/ progress[st].attempt_count < Template[template].max_attempts[st]
         \/ Cardinality(Starting(st)') + Cardinality(Claims(st)') + credit
              <= Cardinality(Starting(st)) + Cardinality(Claims(st)) + creditB
  BY <1>1, <1>2
<1>4. WithinBudget(progress[st].status, progress[st].attempt_count, Template[template].max_attempts[st],
                 Cardinality(Alive(st)), Cardinality(Starting(st)), Cardinality(Claims(st)), credit)
  BY DEF BudgetOK
<1> HIDE DEF credit, creditB
<1>5. WithinBudget(progress'[st].status, progress[st].attempt_count, Template[template].max_attempts[st],
                 Cardinality(Alive(st)'), Cardinality(Starting(st)'), Cardinality(Claims(st)'), creditB)
  BY <1>1, <1>2, <1>3, <1>4, BudgetKept
<1> QED
  BY <1>5 DEF BudgetOK, creditB

(* A request that a step does not move counts as before. *)
LEMMA OthersCount ==
    ASSUME NEW q \in Request, pc'[q] = pc[q], frames'[q] = frames[q], stage'[q] = stage[q], NEW st
    PROVE  /\ q \in Alive(st)' <=> q \in Alive(st)
           /\ q \in Starting(st)' <=> q \in Starting(st)
           /\ \A d \in Nat : Claim(q, d, st)' <=> Claim(q, d, st)
  BY DEF Alive, Starting, Claim

(* A step of one request that leaves the progress alone and adds nothing:  *)
(* at most, a stage with a retry left is about to start again.             *)
LEMMA BudgetShrinks ==
    ASSUME TypeOK, template # NoTemplate, NEW st \in required_stage_types(template), Finite(st), BudgetOK(st),
           IsFiniteSet(Manual),
           template' = template, Manual' = Manual, Finished(st)' = Finished(st),
           progress'[st].attempt_count = progress[st].attempt_count,
           progress[st].status = "COMPLETE" => progress'[st].status = "COMPLETE",
           Alive(st)' \subseteq Alive(st), Claims(st)' \subseteq Claims(st),
           \/ Starting(st)' \subseteq Starting(st)
           \/ Starting(st)' \subseteq Alive(st) /\ HasRetryLeft(st)
    PROVE  Finite(st)' /\ BudgetOK(st)'
<1>1. /\ progress[st].attempt_count \in Nat
      /\ Template[template].max_attempts[st] \in Nat
      /\ Cardinality(Alive(st)) \in Nat /\ Cardinality(Starting(st)) \in Nat
      /\ Cardinality(Claims(st)) \in Nat
      /\ Cardinality(Finished(st)) \in Nat /\ Cardinality(Manual) \in Nat
  BY StageTypes
<1>2. /\ IsFiniteSet(Alive(st)') /\ Cardinality(Alive(st)') \in Nat
      /\ Cardinality(Alive(st)') <= Cardinality(Alive(st))
  BY Shrinks DEF Finite
<1>3. /\ IsFiniteSet(Claims(st)') /\ Cardinality(Claims(st)') \in Nat
      /\ Cardinality(Claims(st)') <= Cardinality(Claims(st))
  BY Shrinks DEF Finite
<1>4. /\ IsFiniteSet(Starting(st)') /\ Cardinality(Starting(st)') \in Nat
      /\ \/ Cardinality(Starting(st)') <= Cardinality(Starting(st))
         \/ HasRetryLeft(st)
  BY Shrinks DEF Finite
<1>5. Finite(st)'
  BY <1>2, <1>3, <1>4 DEF Finite
<1>6. HasRetryLeft(st) => progress[st].attempt_count < Template[template].max_attempts[st]
  BY DEF HasRetryLeft
<1> QED
  BY <1>1, <1>2, <1>3, <1>4, <1>5, <1>6, BudgetMoves

(* The same for the whole budget.                                          *)
LEMMA SameProgress ==
    ASSUME TypeOK, Budget, NEW r \in Request,
           template' = template, progress' = progress, route' = route,
           \A q \in Request : q # r =>
               pc'[q] = pc[q] /\ frames'[q] = frames[q] /\ stage'[q] = stage[q],
           template # NoTemplate => \A st \in required_stage_types(template) :
               /\ r \in Alive(st)' => r \in Alive(st)
               /\ r \in Starting(st)' => r \in Starting(st) \/ (r \in Alive(st) /\ HasRetryLeft(st))
               /\ \A d \in Nat : Claim(r, d, st)' => Claim(r, d, st)
    PROVE  Budget'
<1>1. Manual' = Manual /\ Complete' = Complete /\ IsFiniteSet(Manual)
  BY DEF Manual, Complete, Budget
<1>2. ASSUME template # NoTemplate, NEW st \in required_stage_types(template)
      PROVE  Finite(st)' /\ BudgetOK(st)'
  <2>1. Alive(st)' \subseteq Alive(st)
    BY <1>2, OthersCount DEF Alive
  <2>2. \/ Starting(st)' \subseteq Starting(st)
        \/ Starting(st)' \subseteq Alive(st) /\ HasRetryLeft(st)
    <3>1. Starting(st) \subseteq Alive(st)
      BY DEF Starting, Alive, Attempting
    <3>2. \A q \in Starting(st)' : q # r => q \in Starting(st)
      BY OthersCount DEF Starting
    <3> QED
      BY <1>2, <3>1, <3>2
  <2>3. Claims(st)' \subseteq Claims(st)
    <3> SUFFICES ASSUME NEW q \in Request, NEW d \in Nat, Claim(q, d, st)'
                 PROVE  Claim(q, d, st)
      BY DEF Claims
    <3> QED
      BY <1>2, OthersCount
  <2>4. Finite(st) /\ BudgetOK(st)
    BY <1>2 DEF Budget
  <2>5. Finished(st)' = Finished(st)
    BY <1>1 DEF Finished
  <2> QED
    BY <1>1, <1>2, <2>1, <2>2, <2>3, <2>4, <2>5, BudgetShrinks
<1>3. required_stage_types(template)' = required_stage_types(template)
  BY DEF required_stage_types
<1> QED
  BY <1>1, <1>2, <1>3 DEF Budget

(* The claims of a request whose innermost loop changes. *)
LEMMA DispatchClaims ==
    ASSUME TypeOK, NEW r \in Request, Dispatch(r), NEW st
    PROVE  /\ Claim(r, 0, st) /\ Len(frames[r]) \in Nat
           /\ \A d \in Nat : Claim(r, d, st)' => d = Len(frames[r]) + 1 \/ (d # 0 /\ Claim(r, d, st))
<1> DEFINE f == frames[r]
           S == Automatic(assessment)
<1>1. f \in Seq(SUBSET StageType) /\ r \in DOMAIN frames /\ r \in DOMAIN pc
  BY DEF TypeOK
<1>2. pc[r] = "dispatch" /\ pc'[r] = "loop" /\ frames'[r] = <<S>> \o f
  BY <1>1 DEF Dispatch, Goto
<1>3. S \in SUBSET StageType
  BY AutomaticCleared DEF Cleared
<1> HIDE DEF S
<1>4. /\ Len(<<S>> \o f) = Len(f) + 1 /\ Len(f) \in Nat
      /\ \A i \in 1..(Len(f) + 1) : (<<S>> \o f)[i] = IF i = 1 THEN S ELSE f[i - 1]
  BY <1>1, <1>3, FrameTypes
<1>5. ASSUME NEW d \in Nat, Claim(r, d, st)', d # Len(f) + 1
      PROVE  d # 0 /\ Claim(r, d, st)
  <2>1. d # 0 /\ d <= Len(f) + 1 /\ st \in (<<S>> \o f)[Len(f) + 1 + 1 - d]
    BY <1>2, <1>4, <1>5 DEF Claim
  <2>2. /\ Len(f) + 1 + 1 - d \in 1..(Len(f) + 1) /\ Len(f) + 1 + 1 - d # 1 /\ d <= Len(f)
        /\ (Len(f) + 1 + 1 - d) - 1 = Len(f) + 1 - d
    BY <1>4, <1>5, <2>1
  <2>3. st \in f[Len(f) + 1 - d]
    BY <1>4, <2>1, <2>2
  <2> QED
    BY <2>1, <2>2, <2>3 DEF Claim
<1> QED
  BY <1>2, <1>4, <1>5 DEF Claim

LEMMA DispatchNextClaims ==
    ASSUME TypeOK, NEW r \in Request, NEW n \in StageType, DispatchNext(r, n), NEW st
    PROVE  /\ Len(frames[r]) \in Nat /\ Claim(r, Len(frames[r]), n)
           /\ \A d \in Nat : Claim(r, d, st)' =>
                 Claim(r, d, st) /\ (st = n => d # Len(frames[r]))
<1> DEFINE f == frames[r]
           S == Head(f) \ {n}
           g == Tail(f)
<1>1. f \in Seq(SUBSET StageType) /\ r \in DOMAIN frames /\ r \in DOMAIN pc
  BY DEF TypeOK
<1>2. /\ f # <<>> /\ frames'[r] = <<S>> \o g /\ n \in Head(f)
      /\ pc[r] = "loop" /\ pc'[r] \in {"execute", "loop"}
  BY <1>1 DEF DispatchNext, IsNext, Goto
<1>3. /\ g \in Seq(SUBSET StageType) /\ S \in SUBSET StageType
      /\ Head(f) = f[1] /\ Len(f) \in Nat /\ Len(f) > 0 /\ Len(g) = Len(f) - 1
      /\ \A i \in 1..(Len(f) - 1) : g[i] = f[i + 1]
  BY <1>1, <1>2, TailTypes
<1>4. \A x \in S : x \in f[1] /\ x # n
  BY <1>3
<1> HIDE DEF S, g
<1>5. /\ Len(<<S>> \o g) = Len(f)
      /\ \A i \in 1..Len(f) : (<<S>> \o g)[i] = IF i = 1 THEN S ELSE g[i - 1]
  BY <1>3, FrameTypes
<1>6. ASSUME NEW d \in Nat, Claim(r, d, st)'
      PROVE  Claim(r, d, st) /\ (st = n => d # Len(f))
  <2>1. d # 0 /\ d <= Len(f) /\ st \in (<<S>> \o g)[Len(f) + 1 - d]
    BY <1>2, <1>5, <1>6 DEF Claim
  <2>2. Len(f) + 1 - d \in 1..Len(f)
    BY <1>3, <1>6, <2>1
  <2>3. CASE d = Len(f)
    <3>1. Len(f) + 1 - d = 1
      BY <1>3, <2>3
    <3> QED
      BY <1>4, <1>5, <2>1, <2>2, <3>1 DEF Claim
  <2>4. CASE d # Len(f)
    <3>1. /\ Len(f) + 1 - d # 1 /\ (Len(f) + 1 - d) - 1 \in 1..(Len(f) - 1)
          /\ ((Len(f) + 1 - d) - 1) + 1 = Len(f) + 1 - d
      BY <1>3, <1>6, <2>2, <2>4
    <3>2. (<<S>> \o g)[Len(f) + 1 - d] = f[Len(f) + 1 - d]
      BY <1>3, <1>5, <2>2, <3>1
    <3> QED
      BY <2>1, <2>4, <3>2 DEF Claim
  <2> QED
    BY <2>3, <2>4
<1>7. Claim(r, Len(f), n)
  <2>1. Len(f) + 1 - Len(f) = 1 /\ Len(f) # 0
    BY <1>3
  <2> QED
    BY <1>2, <1>3, <2>1 DEF Claim
<1> QED
  BY <1>3, <1>6, <1>7

LEMMA DispatchEndClaims ==
    ASSUME TypeOK, NEW r \in Request, DispatchEnd(r), NEW st, NEW d \in Nat, Claim(r, d, st)'
    PROVE  Claim(r, d, st)
<1> DEFINE f == frames[r]
<1>1. f \in Seq(SUBSET StageType) /\ r \in DOMAIN frames /\ r \in DOMAIN pc
  BY DEF TypeOK
<1>2. f # <<>> /\ frames'[r] = Tail(f) /\ pc'[r] \in {"done", "loop"}
  BY <1>1 DEF DispatchEnd, Goto
<1>3. /\ Len(f) \in Nat /\ Len(f) > 0 /\ Len(Tail(f)) = Len(f) - 1
      /\ \A i \in 1..(Len(f) - 1) : Tail(f)[i] = f[i + 1]
  BY <1>1, <1>2, TailTypes
<1>4. d # 0 /\ d <= Len(f) - 1 /\ st \in Tail(f)[(Len(f) - 1) + 1 - d]
  BY <1>2, <1>3 DEF Claim
<1>5. /\ (Len(f) - 1) + 1 - d \in 1..(Len(f) - 1) /\ d <= Len(f)
      /\ ((Len(f) - 1) + 1 - d) + 1 = Len(f) + 1 - d
  BY <1>3, <1>4
<1>6. st \in f[Len(f) + 1 - d]
  BY <1>3, <1>4, <1>5
<1> QED
  BY <1>4, <1>5, <1>6 DEF Claim

(* Computing a list turns the claim of a dispatch into claims of its list. *)
LEMMA BudgetDispatch ==
    ASSUME TypeOK, Budget, NEW r \in Request, Dispatch(r)
    PROVE  Budget'
<1>1. \A q \in Request : q # r =>
         pc'[q] = pc[q] /\ frames'[q] = frames[q] /\ stage'[q] = stage[q]
  BY OthersStay DEF LocalStep
<1>2. /\ pc[r] = "dispatch" /\ pc'[r] = "loop" /\ stage' = stage /\ route' = route
      /\ assessment' = assessment
  BY DEF Dispatch, Goto, TypeOK
<1>3. /\ Manual' = Manual /\ Complete' = Complete /\ IsFiniteSet(Manual)
      /\ template' = template /\ progress' = progress
  BY <1>2 DEF Manual, Complete, Budget, template, progress
<1>4. ASSUME template # NoTemplate, NEW st \in required_stage_types(template)
      PROVE  Finite(st)' /\ BudgetOK(st)'
  <2>1. Finite(st) /\ BudgetOK(st)
    BY <1>4 DEF Budget
  <2>2. Alive(st)' \subseteq Alive(st) /\ Starting(st)' \subseteq Starting(st)
    BY <1>1, <1>2, OthersCount DEF Alive, Starting, Attempting
  <2>3. <<r, 0>> \in Claims(st)
    BY DispatchClaims DEF Claims
  <2>4. Claims(st)' \subseteq (Claims(st) \ {<<r, 0>>}) \cup {<<r, Len(frames[r]) + 1>>}
    <3> SUFFICES ASSUME NEW q \in Request, NEW d \in Nat, Claim(q, d, st)'
                 PROVE  \/ Claim(q, d, st) /\ <<q, d>> # <<r, 0>>
                        \/ <<q, d>> = <<r, Len(frames[r]) + 1>>
      BY DEF Claims
    <3>1. CASE q # r
      BY <1>1, <3>1, OthersCount
    <3>2. CASE q = r
      BY <3>2, DispatchClaims
    <3> QED
      BY <3>1, <3>2
  <2>5. /\ IsFiniteSet(Claims(st)') /\ Cardinality(Claims(st)') \in Nat
        /\ Cardinality(Claims(st)') <= Cardinality(Claims(st))
    BY <2>1, <2>3, <2>4, Swaps DEF Finite
  <2>6. /\ IsFiniteSet(Alive(st)') /\ Cardinality(Alive(st)') \in Nat
        /\ Cardinality(Alive(st)') <= Cardinality(Alive(st))
    BY <2>1, <2>2, Shrinks DEF Finite
  <2>7. /\ IsFiniteSet(Starting(st)') /\ Cardinality(Starting(st)') \in Nat
        /\ Cardinality(Starting(st)') <= Cardinality(Starting(st))
    BY <2>1, <2>2, Shrinks DEF Finite
  <2>8. Finished(st)' = Finished(st)
    BY <1>3 DEF Finished
  <2>9. Finite(st)'
    BY <2>1, <2>5, <2>6, <2>7, <2>8 DEF Finite
  <2>10. /\ Cardinality(Alive(st)) \in Nat /\ Cardinality(Starting(st)) \in Nat
         /\ Cardinality(Claims(st)) \in Nat
         /\ Cardinality(Finished(st)) \in Nat /\ Cardinality(Manual) \in Nat
         /\ progress[st].attempt_count \in Nat
    BY <1>3, <1>4, <2>1, StageTypes
  <2>11. /\ Cardinality(Finished(st)) + Cardinality(Manual)
               <= Cardinality(Finished(st)') + Cardinality(Manual')
         /\ Cardinality(Alive(st)') + Cardinality(Claims(st)') + Cardinality(Finished(st)) + Cardinality(Manual)
               <= Cardinality(Alive(st)) + Cardinality(Claims(st)) + Cardinality(Finished(st)') + Cardinality(Manual')
         /\ Cardinality(Starting(st)') + Cardinality(Claims(st)') + Cardinality(Finished(st)) + Cardinality(Manual)
               <= Cardinality(Starting(st)) + Cardinality(Claims(st)) + Cardinality(Finished(st)') + Cardinality(Manual')
    BY <1>3, <2>5, <2>6, <2>7, <2>8, <2>10
  <2> QED
    BY <1>3, <1>4, <2>1, <2>9, <2>11, BudgetMoves
<1>5. required_stage_types(template)' = required_stage_types(template)
  BY <1>3 DEF required_stage_types
<1> QED
  BY <1>3, <1>4, <1>5 DEF Budget

(* Taking stage n from a list turns a claim into an attempt. *)
LEMMA BudgetDispatchNext ==
    ASSUME TypeOK, Budget, NEW r \in Request, NEW n \in StageType, DispatchNext(r, n)
    PROVE  Budget'
<1>1. \A q \in Request : q # r =>
         pc'[q] = pc[q] /\ frames'[q] = frames[q] /\ stage'[q] = stage[q]
  BY OthersStay DEF LocalStep
<1>2. /\ pc[r] = "loop" /\ route' = route /\ assessment' = assessment
      /\ \/ pc'[r] = "execute" /\ stage'[r] = n
         \/ pc'[r] = "loop"
  BY DEF DispatchNext, Goto, TypeOK
<1>3. /\ Manual' = Manual /\ Complete' = Complete /\ IsFiniteSet(Manual)
      /\ template' = template /\ progress' = progress
  BY <1>2 DEF Manual, Complete, Budget, template, progress
<1>4. ASSUME template # NoTemplate, NEW st \in required_stage_types(template)
      PROVE  Finite(st)' /\ BudgetOK(st)'
  <2>1. Finite(st) /\ BudgetOK(st)
    BY <1>4 DEF Budget
  <2>2. Finished(st)' = Finished(st)
    BY <1>3 DEF Finished
  <2>3. \A q \in Request, d \in Nat : Claim(q, d, st)' => Claim(q, d, st)
    BY <1>1, DispatchNextClaims, OthersCount
  <2>4. CASE st = n /\ pc'[r] = "execute"
    <3>1. Alive(st)' \subseteq Alive(st) \cup {r} /\ Starting(st)' \subseteq Starting(st) \cup {r}
      BY <1>1, OthersCount DEF Alive, Starting
    <3>2. <<r, Len(frames[r])>> \in Claims(st)
      BY <2>4, DispatchNextClaims DEF Claims
    <3>3. Claims(st)' \subseteq Claims(st) \ {<<r, Len(frames[r])>>}
      BY <2>3, <2>4, DispatchNextClaims DEF Claims
    <3>4. /\ IsFiniteSet(Claims(st)') /\ Cardinality(Claims(st)') \in Nat
          /\ Cardinality(Claims(st)') + 1 <= Cardinality(Claims(st))
      BY <2>1, <3>2, <3>3, Loses DEF Finite
    <3>5. /\ IsFiniteSet(Alive(st)') /\ Cardinality(Alive(st)') \in Nat
          /\ Cardinality(Alive(st)') <= Cardinality(Alive(st)) + 1
      BY <2>1, <3>1, Gains DEF Finite
    <3>6. /\ IsFiniteSet(Starting(st)') /\ Cardinality(Starting(st)') \in Nat
          /\ Cardinality(Starting(st)') <= Cardinality(Starting(st)) + 1
      BY <2>1, <3>1, Gains DEF Finite
    <3>7. Finite(st)'
      BY <2>1, <2>2, <3>4, <3>5, <3>6 DEF Finite
    <3>8. /\ Cardinality(Alive(st)) \in Nat /\ Cardinality(Starting(st)) \in Nat
          /\ Cardinality(Claims(st)) \in Nat
          /\ Cardinality(Finished(st)) \in Nat /\ Cardinality(Manual) \in Nat
          /\ progress[st].attempt_count \in Nat
      BY <1>3, <1>4, <2>1, StageTypes
    <3>9. /\ Cardinality(Finished(st)) + Cardinality(Manual)
               <= Cardinality(Finished(st)') + Cardinality(Manual')
         /\ Cardinality(Alive(st)') + Cardinality(Claims(st)') + Cardinality(Finished(st)) + Cardinality(Manual)
               <= Cardinality(Alive(st)) + Cardinality(Claims(st)) + Cardinality(Finished(st)') + Cardinality(Manual')
         /\ Cardinality(Starting(st)') + Cardinality(Claims(st)') + Cardinality(Finished(st)) + Cardinality(Manual)
               <= Cardinality(Starting(st)) + Cardinality(Claims(st)) + Cardinality(Finished(st)') + Cardinality(Manual')
      BY <1>3, <2>2, <3>4, <3>5, <3>6, <3>8
    <3> QED
      BY <1>3, <1>4, <2>1, <3>7, <3>9, BudgetMoves
  <2>5. CASE ~(st = n /\ pc'[r] = "execute")
    <3>1. r \notin Alive(st)' /\ r \notin Starting(st)'
      BY <1>2, <2>5 DEF Alive, Starting, Attempting
    <3>2. Alive(st)' \subseteq Alive(st) /\ Starting(st)' \subseteq Starting(st)
      BY <1>1, <3>1, OthersCount DEF Alive, Starting
    <3>3. Claims(st)' \subseteq Claims(st)
      BY <2>3 DEF Claims
    <3> QED
      BY <1>3, <1>4, <2>1, <2>2, <3>2, <3>3, BudgetShrinks
  <2> QED
    BY <2>4, <2>5
<1>5. required_stage_types(template)' = required_stage_types(template)
  BY <1>3 DEF required_stage_types
<1> QED
  BY <1>3, <1>4, <1>5 DEF Budget

(* A manual call pays for its own attempt. *)
LEMMA BudgetManual ==
    ASSUME Inv, OriginsOK, Budget, NEW r \in Request, NEW n \in StageType, ManualExecute(r, n)
    PROVE  Budget'
<1>1. TypeOK /\ OriginOK(r)
  BY DEF Inv, OriginsOK
<1>2. \A q \in Request : q # r =>
         pc'[q] = pc[q] /\ frames'[q] = frames[q] /\ stage'[q] = stage[q]
  BY <1>1, OthersStay
<1>3. /\ pc[r] = "idle" /\ pc'[r] = "execute" /\ frames'[r] = frames[r] /\ assessment' = assessment
      /\ route[r] = "none" /\ route' = [route EXCEPT ![r] = "execute_stage"]
  BY <1>1 DEF ManualExecute, CanSend, Goto, TypeOK, OriginOK
<1>4. r \notin Manual /\ Manual' = Manual \cup {r} /\ IsFiniteSet(Manual)
  BY <1>1, <1>3 DEF Manual, TypeOK, Budget
<1>5. /\ IsFiniteSet(Manual') /\ Cardinality(Manual') = Cardinality(Manual) + 1
  BY <1>4, FS_AddElement
<1>6. Complete' = Complete /\ template' = template /\ progress' = progress
  BY <1>3 DEF Complete, template, progress
<1>7. ASSUME template # NoTemplate, NEW st \in required_stage_types(template)
      PROVE  Finite(st)' /\ BudgetOK(st)'
  <2>1. Finite(st) /\ BudgetOK(st)
    BY <1>7 DEF Budget
  <2>2. Finished(st)' = Finished(st)
    BY <1>6 DEF Finished
  <2>3. Alive(st)' \subseteq Alive(st) \cup {r} /\ Starting(st)' \subseteq Starting(st) \cup {r}
    BY <1>2, OthersCount DEF Alive, Starting
  <2>4. Claims(st)' \subseteq Claims(st)
    <3> SUFFICES ASSUME NEW q \in Request, NEW d \in Nat, Claim(q, d, st)'
                 PROVE  Claim(q, d, st)
      BY DEF Claims
    <3>1. CASE q # r
      BY <1>2, <3>1, OthersCount
    <3>2. CASE q = r
      BY <1>3, <3>2 DEF Claim
    <3> QED
      BY <3>1, <3>2
  <2>5. /\ IsFiniteSet(Claims(st)') /\ Cardinality(Claims(st)') \in Nat
        /\ Cardinality(Claims(st)') <= Cardinality(Claims(st))
    BY <2>1, <2>4, Shrinks DEF Finite
  <2>6. /\ IsFiniteSet(Alive(st)') /\ Cardinality(Alive(st)') \in Nat
        /\ Cardinality(Alive(st)') <= Cardinality(Alive(st)) + 1
    BY <2>1, <2>3, Gains DEF Finite
  <2>7. /\ IsFiniteSet(Starting(st)') /\ Cardinality(Starting(st)') \in Nat
        /\ Cardinality(Starting(st)') <= Cardinality(Starting(st)) + 1
    BY <2>1, <2>3, Gains DEF Finite
  <2>8. Finite(st)'
    BY <2>1, <2>2, <2>5, <2>6, <2>7 DEF Finite
  <2>9. /\ Cardinality(Alive(st)) \in Nat /\ Cardinality(Starting(st)) \in Nat
        /\ Cardinality(Claims(st)) \in Nat
        /\ Cardinality(Finished(st)) \in Nat /\ Cardinality(Manual) \in Nat
        /\ progress[st].attempt_count \in Nat
    BY <1>1, <1>4, <1>7, <2>1, StageTypes
  <2>10. /\ Cardinality(Finished(st)) + Cardinality(Manual)
               <= Cardinality(Finished(st)') + Cardinality(Manual')
         /\ Cardinality(Alive(st)') + Cardinality(Claims(st)') + Cardinality(Finished(st)) + Cardinality(Manual)
               <= Cardinality(Alive(st)) + Cardinality(Claims(st)) + Cardinality(Finished(st)') + Cardinality(Manual')
         /\ Cardinality(Starting(st)') + Cardinality(Claims(st)') + Cardinality(Finished(st)) + Cardinality(Manual)
               <= Cardinality(Starting(st)) + Cardinality(Claims(st)) + Cardinality(Finished(st)') + Cardinality(Manual')
    BY <1>5, <2>2, <2>5, <2>6, <2>7, <2>9
  <2> QED
    BY <1>1, <1>4, <1>5, <1>6, <1>7, <2>1, <2>8, <2>10, BudgetMoves
<1>8. required_stage_types(template)' = required_stage_types(template)
  BY <1>6 DEF required_stage_types
<1> QED
  BY <1>5, <1>6, <1>7, <1>8 DEF Budget

(* What a stage command does to attempts and to the COMPLETE stages.       *)
LEMMA StageCommandCounts ==
    ASSUME TypeOK, NEW op \in StageOp, NEW s \in StageType, Effect([op |-> op, stage |-> s])
    PROVE  /\ s \notin Complete
           /\ Complete' = IF op = "complete_stage" THEN Complete \cup {s} ELSE Complete
           /\ op = "complete_stage" => progress'[s].status = "COMPLETE"
           /\ op # "complete_stage" => progress'[s].status # "COMPLETE"
           /\ progress'[s].attempt_count =
                 IF op = "start_stage" THEN progress[s].attempt_count + 1 ELSE progress[s].attempt_count
           /\ \A t \in StageType : t # s => progress'[t] = progress[t]
           /\ template' = template
<1> DEFINE c == [op |-> op, stage |-> s]
           new == TargetStageStatus[op]
<1>1. c.op = op /\ c.stage = s /\ Legal(assessment, c) /\ assessment' = Apply(assessment, c)
  BY DEF Effect
<1> HIDE DEF c
<1>2. /\ assessment' = move_stage(assessment, s, new) /\ new \in {"RUNNING", "COMPLETE", "FAILED"}
  BY <1>1, StageCommandMeaning
<1>3. /\ assessment \in Assessment /\ new \in StageExecutionStatus
      /\ DOMAIN progress = StageType /\ progress[s].status \in StageExecutionStatus
  BY <1>2 DEF TypeOK, StageExecutionStatus, Assessment, WorkflowProgress, progress, StageProgressEntry
<1>4. progress' = [progress EXCEPT ![s] = advance_to(progress[s], new)]
  BY <1>2, <1>3, MoveStageMeaning DEF progress
<1>5. /\ progress'[s] = advance_to(progress[s], new)
      /\ \A t \in StageType : t # s => progress'[t] = progress[t]
      /\ template' = template
  BY <1>3, <1>4, StageCommandStep
<1>6. new \in STAGE_LEGAL_TRANSITIONS[progress[s].status]
  BY StageCommandStep
<1>7. progress[s].status # "COMPLETE"
  BY <1>3, <1>6 DEF STAGE_LEGAL_TRANSITIONS, StageExecutionStatus
<1>8. /\ new = "COMPLETE" <=> op = "complete_stage"
      /\ new = "RUNNING" <=> op = "start_stage"
  BY DEF TargetStageStatus, StageOp
<1>9. /\ progress'[s].status = new
      /\ progress'[s].attempt_count =
            IF op = "start_stage" THEN progress[s].attempt_count + 1 ELSE progress[s].attempt_count
  BY <1>5, <1>8 DEF advance_to
<1>10. Complete' = IF op = "complete_stage" THEN Complete \cup {s} ELSE Complete
  BY <1>5, <1>7, <1>8, <1>9 DEF Complete, is_complete
<1> QED
  BY <1>5, <1>7, <1>8, <1>9, <1>10 DEF Complete, is_complete

(* An attempt begins. *)
LEMMA BudgetStart ==
    ASSUME TypeOK, Budget, NEW r \in Request, ExecuteCommit(r)
    PROVE  Budget'
<1> DEFINE s == stage[r]
<1>1. \A q \in Request : q # r =>
         pc'[q] = pc[q] /\ frames'[q] = frames[q] /\ stage'[q] = stage[q]
  BY OthersStay DEF LocalStep
<1>2. /\ pc[r] = "execute" /\ pc'[r] = "executing" /\ frames' = frames /\ stage' = stage /\ route' = route
      /\ Effect([op |-> "start_stage", stage |-> s]) /\ s \in StageType
  BY DEF ExecuteCommit, Commits, Goto, TypeOK
<1>3. /\ s \notin Complete /\ Complete' = Complete
      /\ progress'[s].status # "COMPLETE"
      /\ progress'[s].attempt_count = progress[s].attempt_count + 1
      /\ \A t \in StageType : t # s => progress'[t] = progress[t]
      /\ template' = template
  BY <1>2, StageCommandCounts DEF StageOp
<1> HIDE DEF s
<1>4. Manual' = Manual /\ IsFiniteSet(Manual)
  BY <1>2 DEF Manual, Budget
<1>5. ASSUME template # NoTemplate, NEW st \in required_stage_types(template)
      PROVE  Finite(st)' /\ BudgetOK(st)'
  <2>1. Finite(st) /\ BudgetOK(st) /\ st \in StageType
    BY <1>5, TemplateType DEF Budget
  <2>2. Finished(st)' = Finished(st)
    BY <1>3 DEF Finished
  <2>3. Alive(st)' = Alive(st)
    BY <1>1, <1>2 DEF Alive, Attempting
  <2>4. r \notin Starting(st)' /\ Starting(st)' \subseteq Starting(st)
    BY <1>1, <1>2 DEF Starting
  <2>5. Claims(st)' = Claims(st)
    <3>1. \A q \in Request, d \in Nat : Claim(q, d, st)' <=> Claim(q, d, st)
      BY <1>1, <1>2 DEF Claim
    <3> QED
      BY <3>1 DEF Claims
  <2>6. CASE st # s
    BY <1>3, <1>4, <1>5, <2>1, <2>2, <2>3, <2>4, <2>5, <2>6, BudgetShrinks
  <2>7. CASE st = s
    <3>1. r \in Starting(st) /\ r \in Alive(st)
      BY <1>2, <2>7 DEF Starting, Alive, Attempting, s
    <3>2. Starting(st)' \subseteq Starting(st) \ {r} /\ Starting(st)' \subseteq Alive(st) \ {r}
      BY <2>3, <2>4 DEF Starting, Alive, Attempting
    <3>3. /\ IsFiniteSet(Starting(st)') /\ Cardinality(Starting(st)') \in Nat
          /\ Cardinality(Starting(st)') + 1 <= Cardinality(Starting(st))
      BY <2>1, <3>1, <3>2, Loses DEF Finite
    <3>4. Cardinality(Starting(st)') + 1 <= Cardinality(Alive(st))
      BY <2>1, <3>1, <3>2, Loses DEF Finite
    <3>5. Finite(st)'
      BY <2>1, <2>2, <2>3, <2>5, <3>3 DEF Finite
    <3> DEFINE credit == Cardinality(Finished(st)) + Cardinality(Manual)
    <3>6. /\ progress[st].attempt_count \in Nat
          /\ Template[template].max_attempts[st] \in Nat
          /\ Cardinality(Alive(st)) \in Nat /\ Cardinality(Starting(st)) \in Nat
          /\ Cardinality(Claims(st)) \in Nat /\ credit \in Nat
      BY <1>4, <1>5, <2>1, StageTypes
    <3>7. WithinBudget(progress[st].status, progress[st].attempt_count, Template[template].max_attempts[st],
                 Cardinality(Alive(st)), Cardinality(Starting(st)), Cardinality(Claims(st)), credit)
      BY <2>1 DEF BudgetOK
    <3> HIDE DEF credit
    <3>8. progress[st].status # "COMPLETE"
      BY <1>3, <2>1, <2>7 DEF Complete, is_complete
    <3>9. WithinBudget(progress'[st].status, progress[st].attempt_count + 1, Template[template].max_attempts[st],
                 Cardinality(Alive(st)), Cardinality(Starting(st)'), Cardinality(Claims(st)), credit)
      BY <1>3, <2>7, <3>3, <3>4, <3>6, <3>7, <3>8, BudgetSpent
    <3> QED
      BY <1>3, <1>4, <2>2, <2>3, <2>5, <2>7, <3>5, <3>9 DEF BudgetOK, credit
  <2> QED
    BY <2>6, <2>7
<1>6. required_stage_types(template)' = required_stage_types(template)
  BY <1>3 DEF required_stage_types
<1> QED
  BY <1>3, <1>4, <1>5, <1>6 DEF Budget

(* A completion ends the attempts of its stage and dispatches once more.   *)
LEMMA BudgetComplete ==
    ASSUME TypeOK, Budget, NEW r \in Request, CompletionCommit(r)
    PROVE  Budget'
<1> DEFINE s == stage[r]
<1>1. \A q \in Request : q # r =>
         pc'[q] = pc[q] /\ frames'[q] = frames[q] /\ stage'[q] = stage[q]
  BY OthersStay DEF LocalStep
<1>2. /\ pc[r] = "succeeded" /\ pc'[r] = "completed" /\ frames' = frames /\ stage' = stage /\ route' = route
      /\ Effect([op |-> "complete_stage", stage |-> s]) /\ s \in StageType
  BY DEF CompletionCommit, Commits, Goto, TypeOK
<1>3. /\ s \notin Complete /\ Complete' = Complete \cup {s}
      /\ progress'[s].status = "COMPLETE"
      /\ progress'[s].attempt_count = progress[s].attempt_count
      /\ \A t \in StageType : t # s => progress'[t] = progress[t]
      /\ template' = template
  BY <1>2, StageCommandCounts DEF StageOp
<1> HIDE DEF s
<1>4. Manual' = Manual /\ IsFiniteSet(Manual)
  BY <1>2 DEF Manual, Budget
<1>5. ASSUME template # NoTemplate, NEW st \in required_stage_types(template)
      PROVE  Finite(st)' /\ BudgetOK(st)'
  <2>1. Finite(st) /\ BudgetOK(st) /\ st \in StageType
    BY <1>5, TemplateType DEF Budget
  <2>2. Alive(st)' \subseteq Alive(st) /\ Starting(st)' \subseteq Starting(st)
    BY <1>1, <1>2 DEF Alive, Starting, Attempting
  <2>3. Claims(st)' \subseteq Claims(st) \cup {<<r, 0>>}
    <3> SUFFICES ASSUME NEW q \in Request, NEW d \in Nat, Claim(q, d, st)'
                 PROVE  Claim(q, d, st) \/ <<q, d>> = <<r, 0>>
      BY DEF Claims
    <3> QED
      BY <1>1, <1>2 DEF Claim
  <2>4. /\ IsFiniteSet(Claims(st)') /\ Cardinality(Claims(st)') \in Nat
        /\ Cardinality(Claims(st)') <= Cardinality(Claims(st)) + 1
    BY <2>1, <2>3, Gains DEF Finite
  <2>5. /\ IsFiniteSet(Alive(st)') /\ Cardinality(Alive(st)') \in Nat
        /\ Cardinality(Alive(st)') <= Cardinality(Alive(st))
    BY <2>1, <2>2, Shrinks DEF Finite
  <2>6. /\ IsFiniteSet(Starting(st)') /\ Cardinality(Starting(st)') \in Nat
        /\ Cardinality(Starting(st)') <= Cardinality(Starting(st))
    BY <2>1, <2>2, Shrinks DEF Finite
  <2>7. /\ progress[st].attempt_count \in Nat
        /\ Template[template].max_attempts[st] \in Nat
        /\ Cardinality(Alive(st)) \in Nat /\ Cardinality(Starting(st)) \in Nat
        /\ Cardinality(Claims(st)) \in Nat
        /\ Cardinality(Finished(st)) \in Nat /\ Cardinality(Manual) \in Nat
    BY <1>4, <1>5, <2>1, StageTypes
  <2>8. CASE st = s
    <3>1. Finished(st)' = Finished(st)
      BY <1>3, <2>8 DEF Finished
    <3>2. Finite(st)'
      BY <2>1, <2>4, <2>5, <2>6, <3>1 DEF Finite
    <3>3. progress[st].attempt_count <=
             Template[template].max_attempts[st] + (Cardinality(Finished(st)) + Cardinality(Manual))
      BY <2>1, <2>7 DEF BudgetOK, WithinBudget
    <3>4. BudgetOK(st)'
      BY <1>3, <1>4, <2>8, <3>1, <3>3 DEF BudgetOK, WithinBudget
    <3> QED
      BY <3>2, <3>4
  <2>9. CASE st # s
    <3>1. Finished(st)' = Finished(st) \cup {s} /\ s \notin Finished(st)
      BY <1>3, <2>9 DEF Finished
    <3>2. IsFiniteSet(Finished(st)') /\ Cardinality(Finished(st)') = Cardinality(Finished(st)) + 1
      BY <2>1, <3>1, FS_AddElement DEF Finite
    <3>3. Finite(st)'
      BY <2>4, <2>5, <2>6, <3>2 DEF Finite
    <3>4. progress'[st] = progress[st]
      BY <1>3, <2>1, <2>9
    <3>5. /\ Cardinality(Finished(st)) + Cardinality(Manual)
               <= Cardinality(Finished(st)') + Cardinality(Manual')
         /\ Cardinality(Alive(st)') + Cardinality(Claims(st)') + Cardinality(Finished(st)) + Cardinality(Manual)
               <= Cardinality(Alive(st)) + Cardinality(Claims(st)) + Cardinality(Finished(st)') + Cardinality(Manual')
         /\ Cardinality(Starting(st)') + Cardinality(Claims(st)') + Cardinality(Finished(st)) + Cardinality(Manual)
               <= Cardinality(Starting(st)) + Cardinality(Claims(st)) + Cardinality(Finished(st)') + Cardinality(Manual')
      BY <1>4, <2>4, <2>5, <2>6, <2>7, <3>2
    <3> QED
      BY <1>3, <1>4, <1>5, <2>1, <3>3, <3>4, <3>5, BudgetMoves
  <2> QED
    BY <2>8, <2>9
<1>6. required_stage_types(template)' = required_stage_types(template)
  BY <1>3 DEF required_stage_types
<1> QED
  BY <1>3, <1>4, <1>5, <1>6 DEF Budget

(* A failure leaves the attempt alive until the engine has decided on it.  *)
LEMMA BudgetFailure ==
    ASSUME TypeOK, Budget, NEW r \in Request, FailureCommit(r)
    PROVE  Budget'
<1> DEFINE s == stage[r]
<1>1. \A q \in Request : q # r =>
         pc'[q] = pc[q] /\ frames'[q] = frames[q] /\ stage'[q] = stage[q]
  BY OthersStay DEF LocalStep
<1>2. /\ pc[r] = "failed" /\ pc'[r] = "stage_failed" /\ frames' = frames /\ stage' = stage /\ route' = route
      /\ Effect([op |-> "fail_stage", stage |-> s]) /\ s \in StageType
  BY DEF FailureCommit, Commits, Goto, TypeOK
<1>3. /\ s \notin Complete /\ Complete' = Complete
      /\ progress'[s].attempt_count = progress[s].attempt_count
      /\ \A t \in StageType : t # s => progress'[t] = progress[t]
      /\ template' = template
  BY <1>2, StageCommandCounts DEF StageOp
<1> HIDE DEF s
<1>4. Manual' = Manual /\ IsFiniteSet(Manual)
  BY <1>2 DEF Manual, Budget
<1>5. ASSUME template # NoTemplate, NEW st \in required_stage_types(template)
      PROVE  Finite(st)' /\ BudgetOK(st)'
  <2>1. Finite(st) /\ BudgetOK(st) /\ st \in StageType
    BY <1>5, TemplateType DEF Budget
  <2>2. Alive(st)' \subseteq Alive(st) /\ Starting(st)' \subseteq Starting(st)
    BY <1>1, <1>2 DEF Alive, Starting, Attempting
  <2>3. Claims(st)' \subseteq Claims(st)
    BY <1>1, <1>2 DEF Claims, Claim
  <2>4. /\ Finished(st)' = Finished(st)
        /\ progress'[st].attempt_count = progress[st].attempt_count
        /\ progress[st].status = "COMPLETE" => progress'[st].status = "COMPLETE"
    BY <1>3, <2>1 DEF Finished, Complete, is_complete
  <2> QED
    BY <1>3, <1>4, <1>5, <2>1, <2>2, <2>3, <2>4, BudgetShrinks
<1>6. required_stage_types(template)' = required_stage_types(template)
  BY <1>3 DEF required_stage_types
<1> QED
  BY <1>3, <1>4, <1>5, <1>6 DEF Budget

(* Binding a template: nothing has been attempted, the one dispatch is the *)
(* first claim, and who waits to start a stage was asked to by hand.       *)
LEMMA BudgetBinding ==
    ASSUME Inv, OriginsOK, Budget, NEW r \in Request, NEW t \in TemplateId, StartCommit(r, t)
    PROVE  Budget'
<1>1. TypeOK /\ Sound(assessment) /\ FramesOK
  BY DEF Inv
<1>2. \A q \in Request : q # r =>
         pc'[q] = pc[q] /\ frames'[q] = frames[q] /\ stage'[q] = stage[q]
  BY <1>1, OthersStay
<1>3. /\ pc[r] = "start" /\ pc'[r] = "dispatch" /\ frames' = frames /\ stage' = stage
      /\ route' = route
  BY <1>1 DEF StartCommit, Commits, Goto, TypeOK
<1>4. Manual' = Manual /\ IsFiniteSet(Manual)
  BY <1>3 DEF Manual, Budget
<1> DEFINE c == [op |-> "start_workflow", template |-> t]
<1>5. Legal(assessment, c) /\ assessment' = Apply(assessment, c) /\ c.op = "start_workflow" /\ c.template = t
  BY DEF StartCommit, Commits, Effect
<1> HIDE DEF c
<1>6. assessment' = start_workflow(assessment, t) /\ CanStartWorkflow(assessment, t)
  BY <1>5, StartWorkflowMeaning
<1>7. assessment.status = "READY"
  BY <1>1, <1>6 DEF CanStartWorkflow, CanTransition, LEGAL_TRANSITIONS, TypeOK, Assessment, AssessmentStatus
<1>8. template = NoTemplate /\ progress = initialize
  BY <1>1, <1>7 DEF Sound, template, progress
<1>9. template' = t /\ progress' = initialize
  BY <1>1, <1>6 DEF start_workflow, TypeOK, Assessment, template, progress
<1>10. \A q \in Request : frames[q] = <<>> /\ pc[q] # "dispatch" /\ pc[q] \notin HasRun
  BY <1>1, <1>8 DEF FramesOK, RequestOK, OriginsOK, OriginOK, initialize, FreshEntry, TypeOK
<1>11. \A q \in Request : pc[q] \in Attempting => q \in Manual
  BY <1>10 DEF OriginsOK, OriginOK, Manual
<1>12. ASSUME NEW st \in required_stage_types(t)
       PROVE  Finite(st)' /\ BudgetOK(st)'
  <2>1. /\ st \in StageType /\ Template[t].max_attempts[st] \in Nat /\ Template[t].max_attempts[st] > 0
    BY <1>12, TemplateAssumption DEF WorkflowTemplate, required_stage_types
  <2>2. Alive(st)' \subseteq Manual /\ Starting(st)' \subseteq Manual
    BY <1>2, <1>3, <1>11 DEF Alive, Starting, Attempting
  <2>3. Finished(st)' = {}
    BY <1>9 DEF Finished, Complete, is_complete, initialize, FreshEntry
  <2>4. Claims(st)' \subseteq {<<r, 0>>}
    <3> SUFFICES ASSUME NEW q \in Request, NEW d \in Nat, Claim(q, d, st)'
                 PROVE  <<q, d>> = <<r, 0>>
      BY DEF Claims
    <3>1. frames'[q] = <<>> /\ Len(frames'[q]) = 0
      BY <1>3, <1>10
    <3>2. d = 0 /\ pc'[q] \in {"completed", "dispatch"}
      BY <3>1 DEF Claim
    <3> QED
      BY <1>2, <1>10, <3>2 DEF HasRun
  <2>5. IsFiniteSet({}) /\ Cardinality({}) = 0
    BY FS_EmptySet
  <2>6. /\ IsFiniteSet(Claims(st)') /\ Cardinality(Claims(st)') \in Nat
        /\ Cardinality(Claims(st)') <= 1
    <3> DEFINE first == <<r, 0>>
               one == {first}
    <3>1. Claims(st)' \subseteq one
      BY <2>4
    <3> HIDE DEF first
    <3>2. IsFiniteSet(one) /\ Cardinality(one) = 1
      BY FS_Singleton
    <3> HIDE DEF one
    <3> QED
      BY <3>1, <3>2, Shrinks
  <2>7. /\ IsFiniteSet(Alive(st)') /\ Cardinality(Alive(st)') \in Nat
        /\ IsFiniteSet(Starting(st)') /\ Cardinality(Manual) \in Nat
        /\ Cardinality(Alive(st)') <= Cardinality(Manual)
    BY <1>4, <2>2, Shrinks
  <2>8. Finite(st)'
    BY <2>3, <2>5, <2>6, <2>7 DEF Finite
  <2>9. progress'[st].status = "NOT_STARTED" /\ progress'[st].attempt_count = 0
    BY <1>9, <2>1 DEF initialize, FreshEntry
  <2>10. Cardinality(Finished(st)') = 0
    BY <2>3, <2>5
  <2>11. Cardinality(Alive(st)') + Cardinality(Claims(st)') <= 1 + (0 + Cardinality(Manual))
    BY <2>6, <2>7
  <2>12. BudgetOK(st)'
    BY <1>4, <1>9, <2>1, <2>9, <2>10, <2>11 DEF BudgetOK, WithinBudget
  <2> QED
    BY <2>8, <2>12
<1>13. required_stage_types(template)' = required_stage_types(t)
  BY <1>9 DEF required_stage_types
<1> QED
  BY <1>4, <1>12, <1>13 DEF Budget

(* No step gives a stage an attempt that is not accounted for. *)
LEMMA BudgetStep ==
    ASSUME Inv, AtomicNext, OriginsOK, Budget
    PROVE  Budget'
<1>1. TypeOK /\ Sound(assessment) /\ FramesOK
  BY DEF Inv
<1>2. CASE UNCHANGED <<assessment, pc, route, stage, frames>>
  BY <1>2 DEF Budget, Finite, BudgetOK, Alive, Starting, Claims, Claim, Finished, Complete, Manual,
     template, progress, required_stage_types
<1>3. ASSUME NEW c \in UserCommand, UserEffect(c)
      PROVE  Budget'
  <2>1. c \in LifecycleCommand /\ c.op \in LifecycleOp
    BY EngineAssumption DEF LifecycleCommand
  <2>2. assessment' = [assessment EXCEPT !.status = TargetStatus[c.op]]
    BY <1>3, <2>1, LifecycleCommandMeaning DEF UserEffect, engineVars, Effect
  <2>3. progress' = progress /\ template' = template
    BY <1>1, <2>2 DEF progress, template, TypeOK, Assessment
  <2> QED
    BY <1>3, <2>3 DEF UserEffect, engineVars, Budget, Finite, BudgetOK, Alive, Starting, Claims, Claim, Finished,
       Complete, Manual, required_stage_types
<1>4. ASSUME NEW r \in Request, Gone(r)
      PROVE  Budget'
  <2>1. /\ pc'[r] \in {"raised", "lost", "abandoned"} /\ frames'[r] = <<>>
        /\ assessment' = assessment /\ route' = route
        /\ \A q \in Request : q # r =>
               pc'[q] = pc[q] /\ frames'[q] = frames[q] /\ stage'[q] = stage[q]
    BY <1>1, <1>4, GoneType
  <2>2. \A st : r \notin Alive(st)' /\ r \notin Starting(st)'
    BY <2>1 DEF Alive, Starting, Attempting
  <2>3. Len(frames'[r]) = 0
    BY <2>1
  <2>4. \A st : \A d \in Nat : ~Claim(r, d, st)'
    BY <2>1, <2>3 DEF Claim
  <2>5. template' = template /\ progress' = progress
    BY <2>1 DEF template, progress
  <2> QED
    BY <1>1, <2>1, <2>2, <2>4, <2>5, SameProgress
<1>5. ASSUME NEW r \in Request, LocalStep(r)
      PROVE  Budget'
  <2>1. \A q \in Request : q # r =>
           pc'[q] = pc[q] /\ frames'[q] = frames[q] /\ stage'[q] = stage[q]
    BY <1>1, <1>5, OthersStay
  <2>2. CASE Dispatch(r) \/ \E st \in StageType : DispatchNext(r, st)
    BY <1>1, <2>2, BudgetDispatch, BudgetDispatchNext
  <2>3. CASE ExecuteCommit(r) \/ CompletionCommit(r) \/ FailureCommit(r)
    BY <1>1, <2>3, BudgetStart, BudgetComplete, BudgetFailure
  <2>4. CASE DispatchEnd(r)
    <3>1. /\ pc'[r] \in {"done", "loop"} /\ assessment' = assessment /\ route' = route
      BY <1>1, <2>4 DEF DispatchEnd, Goto, TypeOK
    <3>2. \A st : r \notin Alive(st)' /\ r \notin Starting(st)'
      BY <3>1 DEF Alive, Starting, Attempting
    <3>3. template' = template /\ progress' = progress
      BY <3>1 DEF template, progress
    <3>4. \A st : \A d \in Nat : Claim(r, d, st)' => Claim(r, d, st)
      BY <1>1, <2>4, DispatchEndClaims
    <3> QED
      BY <1>1, <2>1, <3>1, <3>2, <3>3, <3>4, SameProgress
  <2>5. CASE RunExecutor(r) \/ OnStageCompleted(r) \/ OnStageFailed(r)
    <3>1. /\ assessment' = assessment /\ route' = route /\ frames' = frames /\ stage' = stage
      BY <2>5 DEF RunExecutor, OnStageCompleted, OnStageFailed
    <3>2. template' = template /\ progress' = progress
      BY <3>1 DEF template, progress
    <3>3. /\ pc'[r] \in Attempting => pc[r] \in Attempting
          /\ pc'[r] = "execute" => HasRetryLeft(stage[r])
          /\ pc'[r] \in {"completed", "dispatch"} => pc[r] \in {"completed", "dispatch"}
      BY <1>1, <2>5 DEF RunExecutor, OnStageCompleted, OnStageFailed, Return, AfterCall, Goto, TypeOK, Attempting
    <3>4. \A st : /\ r \in Alive(st)' => r \in Alive(st)
                  /\ r \in Starting(st)' => r \in Alive(st) /\ HasRetryLeft(st)
      BY <3>1, <3>3 DEF Alive, Starting, Attempting
    <3>5. \A st : \A d \in Nat : Claim(r, d, st)' => Claim(r, d, st)
      BY <3>1, <3>3 DEF Claim
    <3> QED
      BY <1>1, <2>1, <3>1, <3>2, <3>4, <3>5, SameProgress
  <2>6. CASE AdvanceCommit(r)
    <3> DEFINE c == [op |-> "advance_past_running"]
    <3>1. /\ assessment' = Apply(assessment, c) /\ c.op = "advance_past_running"
          /\ route' = route /\ frames' = frames /\ pc'[r] \in {"done", "loop"}
      BY <1>1, <2>6 DEF AdvanceCommit, Commits, Effect, Return, AfterCall, Goto, TypeOK
    <3> HIDE DEF c
    <3>2. assessment' = [assessment EXCEPT !.status = "VALIDATED"]
      BY <3>1, AdvanceMeaning
    <3>3. template' = template /\ progress' = progress
      BY <1>1, <3>2 DEF template, progress, TypeOK, Assessment
    <3>4. \A st : r \notin Alive(st)' /\ r \notin Starting(st)'
      BY <3>1 DEF Alive, Starting, Attempting
    <3>5. \A st : \A d \in Nat : Claim(r, d, st)' => Claim(r, d, st)
      BY <3>1 DEF Claim
    <3> QED
      BY <1>1, <2>1, <3>1, <3>3, <3>4, <3>5, SameProgress
  <2> QED
    BY <1>5, <2>2, <2>3, <2>4, <2>5, <2>6 DEF LocalStep
<1>6. ASSUME NEW r \in Request, NEW st \in StageType, ManualExecute(r, st)
      PROVE  Budget'
  BY <1>6, BudgetManual
<1>7. ASSUME NEW r \in Request, NEW t \in TemplateId, StartCommit(r, t)
      PROVE  Budget'
  BY <1>7, BudgetBinding
<1>8. ASSUME NEW r \in Request, SendStart(r)
      PROVE  Budget'
  <2>1. /\ pc[r] = "idle" /\ pc'[r] = "start" /\ frames' = frames /\ stage' = stage
        /\ assessment' = assessment
        /\ \A q \in Request : q # r => pc'[q] = pc[q] /\ route'[q] = route[q]
        /\ route[r] = "none" /\ route'[r] = "start_workflow"
    BY <1>1, <1>8 DEF SendStart, CanSend, Goto, TypeOK, OriginsOK, OriginOK
  <2>2. template' = template /\ progress' = progress /\ Complete' = Complete
    BY <2>1 DEF template, progress, Complete
  <2>3. Manual' = Manual
    BY <2>1 DEF Manual
  <2>4. \A st : /\ Alive(st)' = Alive(st) /\ Starting(st)' = Starting(st)
                /\ Claims(st)' = Claims(st) /\ Finished(st)' = Finished(st)
    BY <2>1, <2>2 DEF Alive, Starting, Attempting, Claims, Claim, Finished
  <2> QED
    BY <2>2, <2>3, <2>4 DEF Budget, Finite, BudgetOK, required_stage_types
<1> QED
  BY <1>2, <1>3, <1>4, <1>5, <1>6, <1>7, <1>8 DEF AtomicNext

-----------------------------------------------------------------------------
(* What a request owes, who watches over the stages, and the budget. *)
Obligations == OriginsOK /\ Watched /\ Budget

ObligationsUntilMet == met = {} => Obligations

(* The second inductive invariant of the engine, on top of the first: as   *)
(* long as no two handlers meet, every attempt is accounted for and every  *)
(* stage that could run is watched.                                        *)
THEOREM Accounting == Spec => []ObligationsUntilMet
<1>1. Init => ObligationsUntilMet
  <2> SUFFICES ASSUME Init PROVE Obligations
    BY DEF ObligationsUntilMet
  <2>1. /\ assessment.status = "DRAFT" /\ template = NoTemplate
        /\ \A r \in Request : pc[r] = "idle" /\ frames[r] = <<>> /\ route[r] = "none"
    BY DEF Init, Created, template
  <2>2. OriginsOK
    BY <2>1 DEF OriginsOK, OriginOK, Attempting, HasRun
  <2>3. Watched
    BY <2>1 DEF Watched
  <2>4. Manual = {}
    BY <2>1 DEF Manual
  <2>5. Budget
    BY <2>1, <2>4, FS_EmptySet DEF Budget
  <2> QED
    BY <2>2, <2>3, <2>5 DEF Obligations
<1>2. SafeUntilMet /\ ObligationsUntilMet /\ [Next]_vars => ObligationsUntilMet'
  <2> SUFFICES ASSUME SafeUntilMet, ObligationsUntilMet, [Next]_vars, met' = {}
               PROVE  Obligations'
    BY DEF ObligationsUntilMet
  <2>1. met = {}
    BY MetStays DEF SafeUntilMet
  <2>2. Serial /\ Inv /\ Obligations
    BY <2>1 DEF SafeUntilMet, ObligationsUntilMet
  <2>3. AtomicNext
    BY <2>2, AtomicView DEF Inv
  <2> QED
    BY <2>2, <2>3, OriginsStep, WatchedStep, BudgetStep DEF Obligations
<1> QED
  BY <1>1, <1>2, Invariance, PTL DEF Spec

(* Dispatches and manual calls are all that takes a stage past its         *)
(* max_attempts, one attempt each: retries of concurrent requests, decided *)
(* on a count that is out of date when they start, never do.               *)
THEOREM AttemptsStayBounded == Spec => []AttemptsBounded
<1>1. SafeUntilMet /\ ObligationsUntilMet => AttemptsBounded
  <2> SUFFICES ASSUME Inv, Obligations, template # NoTemplate, NEW st \in Template[template].stages
               PROVE  progress[st].attempt_count <= Template[template].max_attempts[st]
                        + Cardinality(Complete \ {st})
                        + Cardinality({r \in Request : route[r] = "execute_stage"})
    BY DEF AttemptsBounded, SafeUntilMet, ObligationsUntilMet
  <2>1. st \in required_stage_types(template) /\ TypeOK
    BY DEF required_stage_types, Inv
  <2>2. Finite(st) /\ BudgetOK(st) /\ IsFiniteSet(Manual)
    BY <2>1 DEF Obligations, Budget
  <2>3. /\ progress[st].attempt_count \in Nat
        /\ Template[template].max_attempts[st] \in Nat
        /\ Cardinality(Alive(st)) \in Nat /\ Cardinality(Starting(st)) \in Nat
        /\ Cardinality(Claims(st)) \in Nat
        /\ Cardinality(Finished(st)) \in Nat /\ Cardinality(Manual) \in Nat
    BY <2>1, <2>2, StageTypes
  <2>4. progress[st].attempt_count <=
           Template[template].max_attempts[st] + Cardinality(Finished(st)) + Cardinality(Manual)
    BY <2>2, <2>3 DEF BudgetOK, WithinBudget
  <2> QED
    BY <2>4 DEF Finished, Manual
<1> QED
  BY <1>1, Invariance, Accounting, PTL

(* When every request has returned and no two handlers met, a running      *)
(* workflow has stopped for a reason.                                      *)
THEOREM NoneForgotten == Spec => []NothingForgotten
<1>1. SafeUntilMet /\ ObligationsUntilMet => NothingForgotten
  <2> SUFFICES ASSUME Inv, Obligations, Answered, assessment.status = "RUNNING", template # NoTemplate
               PROVE  /\ \A st \in Automatic(assessment) : ~HasRetryLeft(st)
                      /\ ~all_complete(progress, required_stage_types(template))
    BY DEF NothingForgotten, SafeUntilMet, ObligationsUntilMet
  <2>1. \A r \in Request : pc[r] \in {"idle", "done"} /\ frames[r] = <<>>
    BY DEF Answered, Obligations, OriginsOK, OriginOK, Inv, FramesOK, RequestOK
  <2>2. \A r \in Request : \A st : ~Cares(r, st)
    BY <2>1 DEF Cares, Waits, Attempting
  <2> QED
    BY <2>1, <2>2 DEF Obligations, Watched
<1> QED
  BY <1>1, Invariance, Accounting, PTL


=============================================================================
