------------------------- MODULE AssessmentResults -------------------------
(***************************************************************************)
(* The results of one assessment: stage results and risk layers            *)
(* (analysis), prediction runs, validation runs and reports, written by    *)
(* RecordStageResultHandler, GenerateRiskLayerHandler, RunPredictionHandler,*)
(* RunValidationHandler, RunRegressionValidationHandler,                   *)
(* GenerateReportHandler and FinalizeReportHandler, with the stage         *)
(* executors that call them for the workflow engine and the composition    *)
(* root's readers between the contexts.                                    *)
(*                                                                         *)
(* The five tables are one sequence in commit order.  Each request reads   *)
(* its inputs one SELECT at a time under READ COMMITTED, reads max(version)*)
(* + 1, and inserts; nothing is locked and no index is unique.             *)
(***************************************************************************)
EXTENDS Integers, Sequences, FiniteSets, FiniteSetsExt

CONSTANTS
    Workers,    \* concurrent requests
    Stages,     \* the stages of the instance
    MaxRows,    \* bound on rows written and being written (layers apart)
    PageLimit   \* get_latest_validation reads one page of this many runs (1000)

CoreStages == <<"HAZARD", "EXPOSURE", "VULNERABILITY", "RISK", "RESILIENCE">>

ASSUME ResultsAssumption ==
    /\ Stages \subseteq {CoreStages[i] : i \in DOMAIN CoreStages}
    /\ MaxRows \in Nat /\ PageLimit \in Nat \ {0}

VARIABLES
    table,      \* the rows
    worker,     \* what each request holds
    progress,   \* WorkflowProgress.stage_result_ref of each stage
    selection   \* status of the VariableSelection

vars == <<table, worker, progress, selection>>

(* What the workflow engine runs, and records a reference of *)
WorkflowStages == Stages \cup {"VALIDATION"}

(* Versioned tables by what next_version groups by.  Validation runs have  *)
(* no version.                                                             *)
VersionedKeys == Stages \cup {"LAYER", "PREDICTION", "REPORT"}

RowKeys == VersionedKeys \cup {"VALIDATION", "REGRESSION_VALIDATION"}

Op == Stages \cup {"PREDICTION", "VALIDATION", "REGRESSION_VALIDATION", "REPORT"}

Row ==
    [key : RowKeys, version : Nat,
     status : {"COMPLETE", "FAILED", "DRAFT", "FINALIZED"}, created : Nat, began : Nat]

NoRow == 0

Nobody == "nobody"      \* finalized_by of a report that is not FINALIZED

Idle == [at |-> "idle"]

Init ==
    /\ table = << >>
    /\ worker = [w \in Workers |-> Idle]
    /\ progress = [s \in WorkflowStages |-> NoRow]
    /\ selection = "DRAFT"

-----------------------------------------------------------------------------
(* Reads *)

RowsOf(k) == {i \in DOMAIN table : table[i].key = k}

Done(k) == {i \in RowsOf(k) : table[i].status = "COMPLETE"}

Greatest(rows, F(_)) ==
    IF rows = {} THEN {NoRow} ELSE {i \in rows : \A j \in rows : F(j) <= F(i)}

VersionOf(i) == table[i].version

CreatedOf(i) == table[i].created

(* Faulty variant: ordered by ascending version. *)
LatestStageAscending(s) ==
    IF Done(s) = {} THEN {NoRow}
    ELSE {i \in Done(s) : \A j \in Done(s) : VersionOf(i) <= VersionOf(j)}

(* StageResultRepository.get_latest: COMPLETE results only; equal versions *)
(* come back in no particular order.                                       *)
LatestStage(s) == Greatest(Done(s), VersionOf)

(* CompositionRootPredictionReader: newest COMPLETED run *)
LatestPrediction == Greatest(Done("PREDICTION"), CreatedOf)

(* CompositionRootValidationReader: the newest COMPLETED run on the first  *)
(* page, which starts at the oldest run.                                   *)
ValidationRuns == RowsOf("VALIDATION") \cup RowsOf("REGRESSION_VALIDATION")

FirstPage ==
    {i \in ValidationRuns :
        Cardinality({j \in ValidationRuns : CreatedOf(j) < CreatedOf(i)}) < PageLimit}

LatestValidation ==
    Greatest({i \in FirstPage : table[i].status = "COMPLETE"}, CreatedOf)

Latest(k) ==
    CASE k \in Stages -> LatestStage(k)
      [] k = "PREDICTION" -> LatestPrediction
      [] k = "VALIDATION" -> LatestValidation

(* Faulty variant: next_version as a count. *)
NextVersionByCount(k) == Cardinality(RowsOf(k)) + 1

(* Faulty variant: only successful rows are numbered. *)
NextVersionOfDone(k) == 1 + Max({0} \cup {VersionOf(i) : i \in Done(k)})

(* next_version: coalesce(max(version), 0) + 1 *)
NextVersion(k) ==
    1 + Max({0} \cup {VersionOf(i) : i \in RowsOf(k)})

(* created_at of an entity built now, kept for the two tables that are     *)
(* read in its order: a tick of the table's own clock.                     *)
Timed == {{"PREDICTION"}, {"VALIDATION", "REGRESSION_VALIDATION"}}

Ticks(keys) ==
    {CreatedOf(i) : i \in {j \in DOMAIN table : table[j].key \in keys}}
    \cup {worker[w].created : w \in {x \in Workers : worker[x].at = "saving" /\ worker[x].op \in keys}}

Now(op) ==
    IF \E keys \in Timed : op \in keys
    THEN 1 + Max({0} \cup Ticks(CHOOSE keys \in Timed : op \in keys))
    ELSE 0

-----------------------------------------------------------------------------
(* Requests *)

(* _INPUT_DEPENDENCIES, the same for FIRAS and WRRAS *)
InputDependencies(s) ==
    CASE s = "RISK" -> {"HAZARD", "EXPOSURE", "VULNERABILITY"}
      [] s = "RESILIENCE" -> {"VULNERABILITY"}
      [] OTHER -> {}

(* What a request reads ... *)
Reads(op) ==
    CASE op \in Stages -> InputDependencies(op) \cap Stages
      [] op = "REPORT" -> Stages \cup {"PREDICTION", "VALIDATION"}
      [] OTHER -> {}

(* ... in the order of the handlers' awaits *)
ReadOrder == CoreStages \o <<"PREDICTION", "VALIDATION">>

NoUses == [k \in {} |-> NoRow]

Versioned(op) == op \in VersionedKeys

(* A request arrives.  The two validations and the prediction name their   *)
(* subject when they begin: the RISK reference of the workflow (or a       *)
(* synthetic one), a prediction run chosen by the caller, the selection.   *)
(* began, how much was committed when it did, is kept with the rows that   *)
(* have a version.                                                         *)
Subjects(op) ==
    CASE op = "VALIDATION" -> {IF "RISK" \in Stages THEN progress["RISK"] ELSE NoRow}
      [] op = "REGRESSION_VALIDATION" -> RowsOf("PREDICTION")
      [] OTHER -> {NoRow}

Begin(w, op) ==
    /\ worker[w] = Idle
    /\ Len(table) + Cardinality({x \in Workers : worker[x].at \in {"gathering", "saving"}}) < MaxRows
    /\ \E subject \in Subjects(op) :
          worker' = [worker EXCEPT ![w] =
              [at |-> "gathering", op |-> op, subject |-> subject,
               began |-> IF Versioned(op) THEN Len(table) ELSE 0,
               uses |-> NoUses]]
    /\ UNCHANGED <<table, progress, selection>>

(* One SELECT of _gather_inputs or of a report reader. *)
Gather(w) ==
    /\ worker[w].at = "gathering"
    /\ LET unread == Reads(worker[w].op) \ DOMAIN worker[w].uses IN
          \E n \in DOMAIN ReadOrder :
              /\ ReadOrder[n] \in unread
              /\ \A m \in 1..(n - 1) : ReadOrder[m] \notin unread
              /\ \E i \in Latest(ReadOrder[n]) :
                    worker' = [worker EXCEPT ![w].uses =
                        [k \in DOMAIN @ \cup {ReadOrder[n]} |-> IF k = ReadOrder[n] THEN i ELSE @[k]]]
    /\ UNCHANGED <<table, progress, selection>>

(* The statuses each handler can persist: what is raised while it resolves *)
(* and computes becomes FAILED.                                            *)
If(condition, status) == IF condition THEN {status, "FAILED"} ELSE {"FAILED"}

(* Faulty variant: a missing dependency is not an error. *)
RecordStageResultAnyway(o) == If(TRUE, "COMPLETE")

(* Faulty variant: a status the enumeration does not have. *)
RecordStageResultMisnamed(o) ==
    If(\A k \in DOMAIN o.uses : o.uses[k] # NoRow, "COMPLETED")

(* A stage needs a result of every dependency; the missing ones are        *)
(* collected and raised together after the last SELECT.                    *)
RecordStageResult(o) ==
    If(\A k \in DOMAIN o.uses : o.uses[k] # NoRow, "COMPLETE")

(* A prediction needs a CONFIRMED selection; a campaign without points, a  *)
(* selection without hazard type and a singular system also fail it.       *)
RunPrediction(o) == If(selection = "CONFIRMED", "COMPLETE")

(* A validation completes with either verdict. *)
RunValidation(o) == If(TRUE, "COMPLETE")

(* A regression validation needs a COMPLETED prediction. *)
RunRegressionValidation(o) == If(table[o.subject].status = "COMPLETE", "COMPLETE")

(* A report is generated whatever sections are missing. *)
GenerateReport(o) == If(TRUE, "DRAFT")

Outcomes(o) ==
    CASE o.op \in Stages -> RecordStageResult(o)
      [] o.op = "PREDICTION" -> RunPrediction(o)
      [] o.op = "VALIDATION" -> RunValidation(o)
      [] o.op = "REGRESSION_VALIDATION" -> RunRegressionValidation(o)
      [] o.op = "REPORT" -> GenerateReport(o)

(* The computation and next_version. *)
Compute(w) ==
    /\ worker[w].at = "gathering"
    /\ DOMAIN worker[w].uses = Reads(worker[w].op)
    /\ \E status \in Outcomes(worker[w]) :
          worker' = [worker EXCEPT ![w] =
              [at |-> "saving", op |-> @.op, began |-> @.began, subject |-> @.subject,
               uses |-> @.uses, status |-> status, created |-> Now(@.op),
               version |-> IF Versioned(@.op) THEN NextVersion(@.op) ELSE 0]]
    /\ UNCHANGED <<table, progress, selection>>

NewRow(key, o) ==
    [key |-> key, version |-> o.version, status |-> o.status, created |-> o.created,
     began |-> o.began, subject |-> o.subject,
     uses |-> IF o.status = "FAILED" THEN NoUses ELSE o.uses, by |-> Nobody]

(* Faulty variant: the executor reports every saved result as a success. *)
CommitUnchecked(w) ==
    /\ worker[w].at = "saving"
    /\ LET o == worker[w] IN
          /\ table' = Append(table, NewRow(o.op, o))
          /\ worker' = [worker EXCEPT ![w] =
                IF o.op \in WorkflowStages THEN [at |-> "returning", op |-> o.op, row |-> Len(table) + 1]
                ELSE Idle]
    /\ UNCHANGED <<progress, selection>>

(* save, append_event, commit.  For a workflow stage the executor looks at *)
(* result.status before it reports back.                                   *)
Commit(w) ==
    /\ worker[w].at = "saving"
    /\ LET o == worker[w] IN
          /\ table' = Append(table, NewRow(o.op, o))
          /\ worker' = [worker EXCEPT ![w] =
                IF o.op \in WorkflowStages /\ o.status = "COMPLETE"
                THEN [at |-> "returning", op |-> o.op, row |-> Len(table) + 1]
                ELSE Idle]
    /\ UNCHANGED <<progress, selection>>

(* generate_if_possible after a RISK result: reads the layer version of a  *)
(* COMPLETE result whose geometry dataset exists.  Skipped otherwise, and  *)
(* on every exception.                                                     *)
BeginLayer(w) ==
    /\ worker[w].at = "returning"
    /\ worker[w].op = "RISK"
    /\ worker' = [worker EXCEPT ![w] =
          [at |-> "layering", op |-> "RISK", row |-> @.row, began |-> Len(table),
           version |-> NextVersion("LAYER")]]
    /\ UNCHANGED <<table, progress, selection>>

NewLayer(o) ==
    [key |-> "LAYER", version |-> o.version, status |-> "COMPLETE", created |-> 0, began |-> o.began,
     subject |-> o.row, uses |-> NoUses, by |-> Nobody]

CommitLayer(w) ==
    /\ worker[w].at = "layering"
    /\ LET o == worker[w] IN
          /\ table' = Append(table, NewLayer(o))
          /\ worker' = [worker EXCEPT ![w] = [at |-> "drawn", op |-> "RISK", row |-> o.row]]
    /\ UNCHANGED <<progress, selection>>

(* The workflow engine records the completed stage with its reference. *)
Return(w) ==
    /\ worker[w].at \in {"returning", "layering", "drawn"}
    /\ progress' = [progress EXCEPT ![worker[w].op] = worker[w].row]
    /\ worker' = [worker EXCEPT ![w] = Idle]
    /\ UNCHANGED <<table, selection>>

(* The request is lost after its commit (its process ends, or it came over *)
(* REST and no engine waits): the stage stays unrecorded.  Lost before its *)
(* commit a request leaves nothing behind, as one that never began.        *)
Lose(w) ==
    /\ worker[w].at \in {"returning", "layering", "drawn"}
    /\ worker' = [worker EXCEPT ![w] = Idle]
    /\ UNCHANGED <<table, progress, selection>>

(* FinalizeReportHandler: load, check DRAFT ... *)
LoadReport(w) ==
    /\ worker[w] = Idle
    /\ \E i \in RowsOf("REPORT") :
          /\ table[i].status = "DRAFT"
          /\ worker' = [worker EXCEPT ![w] = [at |-> "finalizing", row |-> i]]
    /\ UNCHANGED <<table, progress, selection>>

(* Faulty variant: finalizing numbers the report afresh. *)
FinalizeReportAfresh(w) ==
    /\ worker[w].at = "finalizing"
    /\ table' = [table EXCEPT ![worker[w].row].status = "FINALIZED", ![worker[w].row].by = w,
                              ![worker[w].row].began = Len(table)]
    /\ worker' = [worker EXCEPT ![w] = Idle]
    /\ UNCHANGED <<progress, selection>>

(* ... and save: the UPDATE sets the columns the session changed. *)
FinalizeReport(w) ==
    /\ worker[w].at = "finalizing"
    /\ table' = [table EXCEPT ![worker[w].row].status = "FINALIZED", ![worker[w].row].by = w]
    /\ worker' = [worker EXCEPT ![w] = Idle]
    /\ UNCHANGED <<progress, selection>>

(* ConfirmVariableSelectionHandler *)
ConfirmSelection ==
    /\ selection' = "CONFIRMED"
    /\ UNCHANGED <<table, worker, progress>>

Next ==
    \/ \E w \in Workers :
          \/ \E op \in Op : Begin(w, op)
          \/ Gather(w) \/ Compute(w) \/ Commit(w)
          \/ BeginLayer(w) \/ CommitLayer(w) \/ Return(w) \/ Lose(w)
          \/ LoadReport(w) \/ FinalizeReport(w)
    \/ ConfirmSelection

Spec == Init /\ [][Next]_vars

-----------------------------------------------------------------------------
(* Properties *)

(* Types of rows and of what a request holds. *)
TypeOK ==
    /\ \A i \in DOMAIN table :
          /\ [f \in {"key", "version", "status", "created", "began"} |-> table[i][f]] \in Row
          /\ table[i].subject \in {NoRow} \cup DOMAIN table
          /\ table[i].by \in {Nobody} \cup Workers
          /\ \A k \in DOMAIN table[i].uses : table[i].uses[k] \in {NoRow} \cup DOMAIN table
    /\ \A w \in Workers :
          worker[w].at \in {"idle", "gathering", "saving", "returning", "layering", "drawn",
                            "finalizing"}
    /\ progress \in [WorkflowStages -> {NoRow} \cup DOMAIN table]
    /\ selection \in {"DRAFT", "CONFIRMED"}

(* next_version follows the order of requests that do not overlap: a row   *)
(* has a greater version than every row of its key that was committed      *)
(* before its request began, whatever other requests read and insert       *)
(* meanwhile.  So two rows share a version only if their requests          *)
(* overlapped, and the newest version is never older than what a finished  *)
(* request wrote.                                                          *)
VersionsFollowRequests ==
    \A k \in VersionedKeys :
        \A i, j \in RowsOf(k) : i <= table[j].began => VersionOf(i) < VersionOf(j)

(* That a version names one row is false: two overlapping requests both    *)
(* read max(version), and nothing stops the second insert.                 *)
VersionsUnique ==
    \A k \in VersionedKeys : \A i, j \in RowsOf(k) : i # j => VersionOf(i) # VersionOf(j)

(* What a successful row was made from: a stage result from one COMPLETE   *)
(* result of each dependency, committed before it; a layer from a COMPLETE *)
(* RISK result; a prediction from a selection that is CONFIRMED; a         *)
(* regression validation from a COMPLETED prediction; a workflow           *)
(* validation from a COMPLETE RISK result or the synthetic reference.      *)
InputsAreComplete ==
    \A i \in DOMAIN table :
        LET r == table[i]
            done(j, k) == j < i /\ j \in Done(k)
        IN  r.status = "COMPLETE" =>
            /\ r.key \in Stages =>
                  /\ DOMAIN r.uses = Reads(r.key)
                  /\ \A k \in Reads(r.key) : done(r.uses[k], k)
            /\ r.key = "LAYER" => done(r.subject, "RISK")
            /\ r.key = "PREDICTION" => selection = "CONFIRMED"
            /\ r.key = "REGRESSION_VALIDATION" => done(r.subject, "PREDICTION")
            /\ r.key = "VALIDATION" => r.subject = NoRow \/ done(r.subject, "RISK")

(* A report shows, for every stage and for the prediction, nothing older   *)
(* than what was committed before its request began, whatever is written   *)
(* while its sections are read one by one; and the newest COMPLETED        *)
(* validation, as long as all validation runs fit on the one page that the *)
(* reader asks for.                                                        *)
ReportsAreFresh ==
    \A i \in {j \in RowsOf("REPORT") : table[j].status # "FAILED"} :
        LET r == table[i]
            before(k) == {j \in Done(k) : j <= r.began}
            covers(k, rows, F(_)) ==
                \A j \in rows : r.uses[k] # NoRow /\ F(j) <= F(r.uses[k])
        IN  /\ \A k \in Stages : covers(k, before(k), VersionOf)
            /\ covers("PREDICTION", before("PREDICTION"), CreatedOf)
            /\ Cardinality(ValidationRuns) <= PageLimit =>
                  covers("VALIDATION", before("VALIDATION") \cup before("REGRESSION_VALIDATION"),
                         CreatedOf)

(* A stage the engine has recorded as completed points to a COMPLETE       *)
(* result or validation run of that stage, though computing, saving,       *)
(* drawing the layer and recording are separate transactions and any of    *)
(* them can fail or be lost.                                               *)
ProgressIsSound ==
    \A s \in WorkflowStages : progress[s] # NoRow => progress[s] \in Done(s)

(* Rows are written once: a step appends at most one row and changes of an *)
(* old row nothing but a report's status to FINALIZED and its finalizer.   *)
(* Sections, version and creation time of a report stay as generated, also *)
(* when two requests that both loaded the DRAFT finalize it.               *)
RowsAreWrittenOnce ==
    [][/\ Len(table') \in {Len(table), Len(table) + 1}
       /\ \A i \in DOMAIN table :
             \/ table'[i] = table[i]
             \/ /\ table[i].key = "REPORT" /\ table[i].status # "FAILED"
                /\ \E w \in Workers :
                      table'[i] = [table[i] EXCEPT !.status = "FINALIZED", !.by = w]]_vars

(* "Once FINALIZED ... immutable" (ReportStatus): nothing changes a        *)
(* FINALIZED report.  Two overlapping finalizations violate it: the second *)
(* one overwrites finalized_by and finalized_at.                           *)
FinalizedIsFinal ==
    [][\A i \in DOMAIN table : table[i].status = "FINALIZED" => table'[i] = table[i]]_vars

(* The five tables implement VersionedLog: requests that overlap can share *)
(* a version but never skip one.                                           *)
Numbered == [i \in DOMAIN table |-> [key |-> table[i].key, version |-> table[i].version]]

Log == INSTANCE VersionedLog
       WITH Keys <- RowKeys, VersionedKeys <- VersionedKeys, log <- Numbered

LogSpec == Log!Spec

(* What the engine records of a stage is a COMPLETE result of that stage,  *)
(* made of COMPLETE results of its predecessors.                           *)
ResultsAreSound == TypeOK /\ InputsAreComplete /\ ProgressIsSound

(* The result tables are a VersionedLog whose rows are written once.       *)
ImplementsLog == LogSpec /\ RowsAreWrittenOnce
=============================================================================
