--------------------------- MODULE WorkflowEngine ---------------------------
(***************************************************************************)
(* application/workflow_engine.py over one assessment: API requests that   *)
(* start a workflow or execute a stage, each running the engine's call     *)
(* chain                                                                   *)
(*                                                                         *)
(*   start_workflow -> _dispatch_runnable_stages -> execute_stage          *)
(*     -> _on_stage_completed -> _dispatch_runnable_stages -> ...          *)
(*     -> _on_stage_failed -> execute_stage (retry)                        *)
(*                                                                         *)
(* step by step, interleaved with each other and with the lifecycle        *)
(* commands of other users.  A command handler takes two steps.  Check is  *)
(* everything up to repo.save's version check: the handler holds the row   *)
(* it loaded, its command is legal there and the row's version is still    *)
(* that one's.  Handle is the UPDATE and the commit, computed from the row *)
(* held and keyed by id alone.  A handler that does not pass the check is  *)
(* refused by the aggregate or meets a version conflict.  (Flush, row lock *)
(* and outbox, which lie between the two steps, are AssessmentStore's; so  *)
(* is the handler that passes the check with an older row because two      *)
(* handlers have met before and both written its version.)                 *)
(* The history variable met records which handlers were between check and  *)
(* commit together with another one; no step depends on it.                *)
(*                                                                         *)
(* The recursion of dispatch loops is the stack frames[r]: each frame is   *)
(* what is left of one loop's list "automatic", the innermost first.       *)
(***************************************************************************)
EXTENDS AssessmentDomain, Sequences, FiniteSets

CONSTANTS
    Request,      \* API requests, each used once
    StartRequest, \* those that may call start-workflow ...
    ManualRequest,\* ... and those that may call stages/{stage_type}/actions/execute
    User,         \* sessions of other users, a command at a time each
    MaxInFlight,  \* bound: requests running at the same time
    UserCommand   \* the lifecycle commands other users issue

ASSUME EngineAssumption ==
    /\ StageType # {}
    /\ StartRequest \subseteq Request
    /\ ManualRequest \subseteq Request
    /\ User \cap Request = {}
    /\ MaxInFlight \in Nat
    /\ UserCommand \subseteq LifecycleCommand

Actor == Request \cup User

VARIABLES
    assessment,   \* the committed assessment
    pc,           \* where each request is in the engine
    route,        \* the API route it came in by
    stage,        \* stage_type argument of its current execute_stage call
    frames,       \* dispatch loops it is inside of
    open,         \* the actors whose handler is between version check and commit
    cmd,          \* its command ...
    loaded,       \* ... and the assessment it loaded
    met           \* history: the actors that were open together with another one

engineVars == <<pc, route, stage, frames>>
txVars == <<open, cmd, loaded, met>>
vars == <<assessment, pc, route, stage, frames, open, cmd, loaded, met>>

progress == assessment.workflow_progress
template == assessment.workflow_template_id

Init ==
    /\ assessment = Created
    /\ pc = [r \in Request |-> "idle"]
    /\ route = [r \in Request |-> "none"]
    /\ stage = [r \in Request |-> CHOOSE st \in StageType : TRUE]
    /\ frames = [r \in Request |-> <<>>]
    /\ open = {}
    /\ cmd = [a \in Actor |-> NoCmd]
    /\ loaded = [a \in Actor |-> Created]
    /\ met = {}

-----------------------------------------------------------------------------
(* Control flow *)

Ended == {"done", "raised", "lost", "abandoned"}

InFlight == {r \in Request : pc[r] \notin Ended \cup {"idle"}}

\* A client may send request r.
CanSend(r) == pc[r] = "idle" /\ Cardinality(InFlight) < MaxInFlight

Goto(r, label) == pc' = [pc EXCEPT ![r] = label]

\* The call chain of a dispatched stage is over: back to the enclosing loop.
AfterCall(r) == IF frames[r] = <<>> THEN "done" ELSE "loop"
Return(r) == Goto(r, AfterCall(r))

\* Requests between their start_stage and the matching complete/fail_stage.
Executing == {r \in Request : pc[r] \in {"executing", "succeeded", "failed"}}

\* The request ends in the middle of its loops.
Leave(r, label) ==
    /\ Goto(r, label)
    /\ frames' = [frames EXCEPT ![r] = <<>>]
    /\ UNCHANGED <<assessment, route, stage>>

\* ... and leaves the stage it executes RUNNING.
Abandon(r, label) == Leave(r, IF r \in Executing THEN "abandoned" ELSE label)

-----------------------------------------------------------------------------
(* Command handlers *)

\* get_by_id, the entity method, and repo.save up to its version check.
Check(a, c) ==
    /\ a \notin open
    /\ Legal(assessment, c)
    /\ open' = open \cup {a}
    /\ cmd' = [cmd EXCEPT ![a] = c]
    /\ loaded' = [loaded EXCEPT ![a] = assessment]
    /\ met' = IF open = {} THEN met ELSE met \cup open \cup {a}
    /\ UNCHANGED assessment

\* The session is closed.
Close(a) ==
    /\ open' = open \ {a}
    /\ cmd' = [cmd EXCEPT ![a] = NoCmd]
    /\ loaded' = [loaded EXCEPT ![a] = Created]
    /\ UNCHANGED met

Written(a, c) == Overwrite(assessment, loaded[a], Apply(loaded[a], c), c)

\* The UPDATE and the commit.
Handle(a, c) ==
    /\ a \in open
    /\ cmd[a] = c
    /\ assessment' = Written(a, c)
    /\ Close(a)

\* The aggregate or a guard of the handler raises; the exception leaves every
\* loop of the request and becomes the response.
Refused(r, c) ==
    /\ r \notin open
    /\ ~Legal(assessment, c)
    /\ Leave(r, "raised")
    /\ UNCHANGED txVars

\* save raises OptimisticConcurrencyError: the handler had loaded the row before
\* a transaction, open now, that has committed when it compares versions.
Conflict(r) ==
    /\ r \notin open
    /\ open # {}
    /\ Abandon(r, "raised")
    /\ UNCHANGED txVars

\* The handler of command c in request r, which goes on at label.
Transaction(r, c, label) ==
    \/ Check(r, c) /\ UNCHANGED engineVars
    \/ Handle(r, c) /\ Goto(r, label) /\ UNCHANGED <<route, stage, frames>>
    \/ Refused(r, c)
    \/ Conflict(r)

-----------------------------------------------------------------------------
(* WorkflowEngine.start_workflow.  A request that does not get past the     *)
(* check has had no effect: no step.                                        *)

SendStartWorkflow(r, t) ==
    /\ r \in StartRequest
    /\ CanSend(r)
    /\ Check(r, [op |-> "start_workflow", template |-> t])
    /\ route' = [route EXCEPT ![r] = "start_workflow"]
    /\ Goto(r, "start")
    /\ UNCHANGED <<stage, frames>>

StartWorkflow(r) ==
    /\ pc[r] = "start"
    /\ \E t \in TemplateId : Handle(r, [op |-> "start_workflow", template |-> t])
    /\ Goto(r, "dispatch")
    /\ UNCHANGED <<route, stage, frames>>

(* _dispatch_runnable_stages: load, compute the list, run the loop. *)

Automatic(a) ==
    IF a.workflow_template_id = NoTemplate THEN {}
    ELSE LET t == a.workflow_template_id
         IN  {st \in runnable_stages(t, a.workflow_progress) :
                 Template[t].trigger_mode[st] = "AUTOMATIC"}

Dispatch(r) ==
    /\ pc[r] = "dispatch"
    /\ frames' = [frames EXCEPT ![r] = <<Automatic(assessment)>> \o @]
    /\ Goto(r, "loop")
    /\ UNCHANGED <<assessment, route, stage, txVars>>

\* The first stage of the list that is left, in template order.
IsNext(st, todo) ==
    /\ st \in todo
    /\ \A other \in todo : Template[template].rank[st] <= Template[template].rank[other]

\* One iteration: the live status is read again and decides.
StillRunnable(st) == progress[st].status \in {"NOT_STARTED", "FAILED"}

\* Faulty variant: a stage that is skipped stays in the list.
DispatchNextKeepsSkipped(r, st) ==
    /\ pc[r] = "loop"
    /\ frames[r] # <<>>
    /\ IsNext(st, Head(frames[r]))
    /\ StillRunnable(st)
    /\ frames' = [frames EXCEPT ![r] = <<Head(@) \ {st}>> \o Tail(@)]
    /\ stage' = [stage EXCEPT ![r] = st]
    /\ Goto(r, "execute")
    /\ UNCHANGED <<assessment, route, txVars>>

DispatchNext(r, st) ==
    /\ pc[r] = "loop"
    /\ frames[r] # <<>>
    /\ IsNext(st, Head(frames[r]))
    /\ frames' = [frames EXCEPT ![r] = <<Head(@) \ {st}>> \o Tail(@)]
    /\ \/ /\ StillRunnable(st)
          /\ stage' = [stage EXCEPT ![r] = st]
          /\ Goto(r, "execute")
       \/ /\ ~StillRunnable(st)
          /\ UNCHANGED <<pc, stage>>
    /\ UNCHANGED <<assessment, route, txVars>>

DispatchEnd(r) ==
    /\ pc[r] = "loop"
    /\ frames[r] # <<>>
    /\ Head(frames[r]) = {}
    /\ frames' = [frames EXCEPT ![r] = Tail(@)]
    /\ Goto(r, IF Len(frames[r]) = 1 THEN "done" ELSE "loop")
    /\ UNCHANGED <<assessment, route, stage, txVars>>

-----------------------------------------------------------------------------
(* WorkflowEngine.execute_stage *)

\* The route execute_stage_manually: any stage type, no look at the template.
ManualExecute(r, st) ==
    /\ r \in ManualRequest
    /\ CanSend(r)
    /\ route' = [route EXCEPT ![r] = "execute_stage"]
    /\ stage' = [stage EXCEPT ![r] = st]
    /\ Goto(r, "execute")
    /\ UNCHANGED <<assessment, frames, txVars>>

ExecuteStage(r) ==
    /\ pc[r] = "execute"
    /\ Transaction(r, [op |-> "start_stage", stage |-> stage[r]], "executing")

\* stage_executor.execute, outside any transaction on the assessment: it
\* reports success or failure.
RunExecutor(r) ==
    /\ pc[r] = "executing"
    /\ \E outcome \in {"succeeded", "failed"} : Goto(r, outcome)
    /\ UNCHANGED <<assessment, route, stage, frames, txVars>>

RecordStageCompletion(r) ==
    /\ pc[r] = "succeeded"
    /\ Transaction(r, [op |-> "complete_stage", stage |-> stage[r]], "completed")

\* Faulty variant: the failure is swallowed and never recorded.
RecordStageFailureSwallowed(r) ==
    /\ pc[r] = "failed"
    /\ Return(r)
    /\ UNCHANGED <<assessment, route, stage, frames, txVars>>

RecordStageFailure(r) ==
    /\ pc[r] = "failed"
    /\ Transaction(r, [op |-> "fail_stage", stage |-> stage[r]], "stage_failed")

-----------------------------------------------------------------------------
(* Reactions *)

\* Faulty variant: a completed stage triggers nothing.
OnStageCompletedNoDispatch(r) ==
    /\ pc[r] = "completed"
    /\ Return(r)
    /\ UNCHANGED <<assessment, route, stage, frames, txVars>>

OnStageCompleted(r) ==
    /\ pc[r] = "completed"
    /\ \/ template = NoTemplate /\ Return(r)
       \/ /\ template # NoTemplate
          /\ all_complete(progress, required_stage_types(template))
          /\ Goto(r, "advance")
       \/ /\ template # NoTemplate
          /\ ~all_complete(progress, required_stage_types(template))
          /\ Goto(r, "dispatch")
    /\ UNCHANGED <<assessment, route, stage, frames, txVars>>

AdvanceAssessment(r) ==
    /\ pc[r] = "advance"
    /\ Transaction(r, [op |-> "advance_past_running"], AfterCall(r))

\* Faulty variant: one attempt too many.
HasRetryLeftOffByOne(st) ==
    /\ template # NoTemplate
    /\ st \in Template[template].stages
    /\ progress[st].attempt_count <= Template[template].max_attempts[st]

HasRetryLeft(st) ==
    /\ template # NoTemplate
    /\ st \in Template[template].stages
    /\ progress[st].attempt_count < Template[template].max_attempts[st]

\* Faulty variant: a retry nobody handles.
OnStageFailedUnhandled(r) ==
    /\ pc[r] = "stage_failed"
    /\ \/ HasRetryLeft(stage[r]) /\ Goto(r, "retry")
       \/ ~HasRetryLeft(stage[r]) /\ Return(r)
    /\ UNCHANGED <<assessment, route, stage, frames, txVars>>

OnStageFailed(r) ==
    /\ pc[r] = "stage_failed"
    /\ \/ HasRetryLeft(stage[r]) /\ Goto(r, "execute")
       \/ ~HasRetryLeft(stage[r]) /\ Return(r)
    /\ UNCHANGED <<assessment, route, stage, frames, txVars>>

-----------------------------------------------------------------------------
\* A single-transaction lifecycle route: mark-ready, start, validate, report,
\* archive, cancel.
UserCheck(u, c) == Check(u, c) /\ UNCHANGED engineVars

UserCommit(u) == (\E c \in UserCommand : Handle(u, c)) /\ UNCHANGED engineVars

UserRollback(u) ==
    /\ u \in open
    /\ Close(u)
    /\ UNCHANGED <<assessment, pc, route, stage, frames>>

\* The request is lost: crash or dropped connection, inside a transaction
\* (which is rolled back) or between two of them.
RequestLost(r) ==
    /\ r \in InFlight
    /\ Abandon(r, "lost")
    /\ Close(r)

EngineStep(r) ==
    \/ StartWorkflow(r)
    \/ Dispatch(r) \/ (\E st \in StageType : DispatchNext(r, st)) \/ DispatchEnd(r)
    \/ ExecuteStage(r) \/ RunExecutor(r)
    \/ RecordStageCompletion(r) \/ RecordStageFailure(r)
    \/ OnStageCompleted(r) \/ AdvanceAssessment(r) \/ OnStageFailed(r)

Next ==
    \/ \E r \in Request :
          \/ \E t \in TemplateId : SendStartWorkflow(r, t)
          \/ \E st \in StageType : ManualExecute(r, st)
          \/ EngineStep(r)
          \/ RequestLost(r)
    \/ \E u \in User :
          \/ \E c \in UserCommand : UserCheck(u, c)
          \/ UserCommit(u)
          \/ UserRollback(u)

Spec == Init /\ [][Next]_vars

\* The event loop resumes every request that awaits, executors return, and a
\* user's transaction ends.  Nothing forces a user to send a request or a command.
Fairness ==
    /\ \A r \in Request : WF_vars(EngineStep(r))
    /\ \A u \in User : WF_vars(UserCommit(u))

FairSpec == Spec /\ Fairness

-----------------------------------------------------------------------------
(* Properties *)

Label == {"idle", "start", "dispatch", "loop", "execute", "executing", "succeeded", "failed",
          "completed", "advance", "stage_failed"} \cup Ended

TypeOK ==
    /\ assessment \in Assessment
    /\ pc \in [Request -> Label]
    /\ route \in [Request -> {"none", "start_workflow", "execute_stage"}]
    /\ stage \in [Request -> StageType]
    /\ frames \in [Request -> Seq(SUBSET StageType)]
    /\ open \subseteq Actor
    /\ cmd \in [Actor -> Command]
    /\ loaded \in [Actor -> Assessment]
    /\ met \subseteq Actor

(* A stage is executed by one request at a time, and is marked RUNNING for *)
(* as long as it is: dispatch loops of different requests overlap, and a   *)
(* manual call may hit a stage the engine is running.  So an outcome is    *)
(* always recorded for the attempt that produced it.  The version check    *)
(* and the legality of start_stage give this until two handlers of the     *)
(* assessment are between check and commit together (repositories.py:93);  *)
(* ExecutorsApart, without the exception, does not hold.                   *)
ExecutorsApart ==
    /\ \A r \in Executing : progress[stage[r]].status = "RUNNING"
    /\ \A r, q \in Executing : stage[r] = stage[q] => r = q

OneExecutorPerStage == met = {} => ExecutorsApart

(* entities.py leaves the DAG to the engine ("the caller ... is            *)
(* responsible for only invoking start_stage once a stage is actually      *)
(* runnable").  For stages run from a dispatch loop the engine delivers,   *)
(* unless two handlers met: when such a stage is (about to be) started all *)
(* its predecessors are COMPLETE, retries and lists gone stale in nested   *)
(* loops included.                                                         *)
DispatchRespectsDag ==
    met = {} =>
        \A r \in Request :
            frames[r] # <<>> /\ pc[r] \in {"execute", "executing", "succeeded", "failed", "stage_failed"} =>
                all_complete(progress, Template[template].required_predecessors[stage[r]])

Complete == {st \in StageType : is_complete(progress, st)}

(* How far attempts can go beyond max_attempts, unless two handlers met:   *)
(* every dispatch (the first and one per completed stage) and every manual *)
(* call may give an exhausted stage one more attempt, never more.          *)
AttemptsBounded ==
    met = {} /\ template # NoTemplate =>
        \A st \in Template[template].stages :
            progress[st].attempt_count <=
                Template[template].max_attempts[st]
                + Cardinality(Complete \ {st})
                + Cardinality({r \in Request : route[r] = "execute_stage"})

Answered == \A r \in Request : pc[r] \in {"idle", "done"}

(* No dispatch is forgotten, however the loops of two requests overlap:    *)
(* once every request has returned (an exception or a loss drops what is   *)
(* left in its loops, and nobody picks it up) and no two handlers met, a   *)
(* running workflow has stopped for a reason.  Every AUTOMATIC stage that  *)
(* could run has used up its attempts, and a workflow whose stages are all *)
(* COMPLETE has advanced.                                                  *)
NothingForgotten ==
    met = {} /\ Answered /\ assessment.status = "RUNNING" /\ template # NoTemplate =>
        /\ \A st \in Automatic(assessment) : ~HasRetryLeft(st)
        /\ ~all_complete(progress, required_stage_types(template))

\* The request that executed stage st has gone without an outcome for it.
Abandoned(st) == \E r \in Request : pc[r] = "abandoned" /\ stage[r] = st

(* A stage that was started is settled: it is recorded COMPLETE or FAILED, *)
(* unless the assessment leaves RUNNING first.  While it is RUNNING no     *)
(* command can start it again, so nothing else can unblock the workflow.   *)
(* A request that is lost, or that meets a version conflict when it        *)
(* records the outcome, breaks this.                                       *)
RunningStagesSettle ==
    \A st \in StageType :
        progress[st].status = "RUNNING" ~>
            progress[st].status # "RUNNING" \/ assessment.status # "RUNNING"

(* However deep dispatches and retries nest (_dispatch_runnable_stages,    *)
(* execute_stage), every request ends, and a stage left RUNNING for good   *)
(* has one cause: the very request that executed it was lost, or met a     *)
(* conflict, before it recorded the outcome.  No loss or conflict at any   *)
(* other place, of that request or another, has this effect.               *)
EngineSettles ==
    /\ \A r \in Request : pc[r] # "idle" ~> pc[r] \in Ended \/ met # {}
    /\ \A st \in StageType :
          progress[st].status = "RUNNING" ~>
              \/ progress[st].status # "RUNNING"
              \/ assessment.status # "RUNNING"
              \/ Abandoned(st)
              \/ met # {}

(* StageExecutionStatus: "FAILED -> RUNNING is the retry transition ...    *)
(* bounded by StageDefinition.max_attempts".  Stated for workflows nobody  *)
(* intervenes in by hand.                                                  *)
RetriesWithinBudget ==
    template # NoTemplate =>
        \A st \in Template[template].stages :
            progress[st].attempt_count <= Template[template].max_attempts[st]

=============================================================================
