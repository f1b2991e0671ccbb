-------------------------- MODULE DataAcquisition --------------------------
(***************************************************************************)
(* The acquisition jobs and the dataset catalogue of the data_acquisition  *)
(* context, as its handlers use them: ScheduleAcquisitionJobHandler,       *)
(* ExecuteAcquisitionJobHandler (two transactions with a fetch between),   *)
(* CatalogDatasetHandler and ReviseDatasetHandler.                         *)
(*                                                                         *)
(* All jobs and edits are about one dataset name of one tenant.  A request *)
(* is served by an executor (execute) or an editor (revise); each has one  *)
(* database session.  There is no version column and no unique index on    *)
(* these tables: a commit writes the columns the session changed since its *)
(* own read.                                                               *)
(***************************************************************************)
EXTENDS AcquisitionPipeline, Sequences

CONSTANTS
    Jobs,          \* acquisition job ids
    Executors,     \* requests running ExecuteAcquisitionJobHandler
    Editors,       \* requests running ReviseDatasetHandler
    Requests,      \* the schedule requests that may arrive for each job
    MaxCatalogued  \* bound: direct CatalogDataset calls

ASSUME AcquisitionAssumption ==
    /\ DOMAIN Requests = Jobs /\ \A j \in Jobs : Requests[j] \subseteq Request
    /\ MaxCatalogued \in Nat
    /\ Executors \cap Editors = {}
    /\ "editor" \notin Jobs

VARIABLES
    jobs,        \* acquisition_job rows; NoJob before scheduling
    datasets,    \* dataset rows of the name, in insertion order
    session,     \* what each executor and editor holds
    catalogued,  \* number of direct CatalogDataset calls
    contested,   \* history: jobs started from a copy that was out of date
    forked,      \* history: a version was added beside the latest one
    abandoned    \* history: jobs whose executor stopped half way

vars == <<jobs, datasets, session, catalogued, contested, forked, abandoned>>

AcquisitionJobStatus == {"SCHEDULED", "RUNNING", "COMPLETED", "FAILED"}

NoJob == [status |-> "NONE"]

NoRow == 0

NoFeatures == [computed |-> {}, skipped |-> {}]

ScheduledJob(r) ==
    [status |-> "SCHEDULED", request |-> r, dataset |-> NoRow,
     applied |-> {}, features |-> NoFeatures]

DatasetStatus == {"CATALOGUED", "SUPERSEDED"}

(* acquisition_job and dataset rows *)
JobRow(j) ==
    [status : AcquisitionJobStatus, request : Requests[j], dataset : Nat,
     applied : SUBSET PreprocessingStep,
     features : [computed : SUBSET SpectralIndex, skipped : SUBSET SpectralIndex]]

DatasetRow == [version : Nat \ {0}, status : DatasetStatus, by : Jobs \cup {"editor"}]

Holder == Executors \cup Editors

Idle == [at |-> "idle"]

Init ==
    /\ jobs = [j \in Jobs |-> NoJob]
    /\ datasets = << >>
    /\ session = [h \in Holder |-> Idle]
    /\ catalogued = 0
    /\ contested = {}
    /\ forked = FALSE
    /\ abandoned = {}

-----------------------------------------------------------------------------
(* The catalogue *)

CataloguedRows == {i \in DOMAIN datasets : datasets[i].status = "CATALOGUED"}

(* get_latest: highest CATALOGUED version; equal versions come back in no  *)
(* particular order.                                                       *)
GetLatest ==
    IF CataloguedRows = {} THEN {NoRow}
    ELSE {i \in CataloguedRows :
             \A k \in CataloguedRows : datasets[k].version <= datasets[i].version}

(* Dataset.catalog *)
Catalogue(by) ==
    Append(datasets, [version |-> 1, status |-> "CATALOGUED", by |-> by])

(* Faulty variants: the old version stays CATALOGUED; its status is        *)
(* flipped rather than set.                                                *)
ReviseKeepsPrevious(i, by) ==
    Append(datasets, [version |-> datasets[i].version + 1, status |-> "CATALOGUED", by |-> by])

ReviseFlips(i, by) ==
    Append([datasets EXCEPT ![i].status = IF @ = "CATALOGUED" THEN "SUPERSEDED" ELSE "CATALOGUED"],
           [version |-> datasets[i].version + 1, status |-> "CATALOGUED", by |-> by])

(* Dataset.revise of row i and mark_superseded on it *)
Revise(i, by) ==
    Append([datasets EXCEPT ![i].status = "SUPERSEDED"],
           [version |-> datasets[i].version + 1, status |-> "CATALOGUED", by |-> by])

(* The catalogue after a commit that read `previous` as the latest row. *)
CatalogueOrRevise(previous, by) ==
    IF previous = NoRow THEN Catalogue(by) ELSE Revise(previous, by)

Stale(previous) == previous \notin GetLatest

-----------------------------------------------------------------------------
(* ScheduleAcquisitionJobHandler *)
Schedule(j) ==
    /\ jobs[j] = NoJob
    /\ \E r \in Requests[j] :
          /\ r.visible
          /\ Schedulable(r)
          /\ jobs' = [jobs EXCEPT ![j] = ScheduledJob(r)]
    /\ UNCHANGED <<datasets, session, catalogued, contested, forked, abandoned>>

(* CatalogDatasetHandler with a visible source: one insert at version 1,   *)
(* whatever is there.                                                      *)
CatalogDataset ==
    /\ catalogued < MaxCatalogued
    /\ catalogued' = catalogued + 1
    /\ datasets' = Catalogue("editor")
    /\ forked' = (forked \/ CataloguedRows # {})
    /\ UNCHANGED <<jobs, session, contested, abandoned>>

(* ReviseDatasetHandler, from the request to get_latest. *)
BeginRevision(h) ==
    /\ session[h] = Idle
    /\ \E previous \in GetLatest \ {NoRow} :
          session' = [session EXCEPT ![h] = [at |-> "revising", previous |-> previous]]
    /\ UNCHANGED <<jobs, datasets, catalogued, contested, forked, abandoned>>

(* Its commit.  Each editor serves one request. *)
CommitRevision(h) ==
    /\ session[h].at = "revising"
    /\ datasets' = Revise(session[h].previous, "editor")
    /\ forked' = (forked \/ Stale(session[h].previous))
    /\ session' = [session EXCEPT ![h] = [at |-> "done"]]
    /\ UNCHANGED <<jobs, catalogued, contested, abandoned>>

-----------------------------------------------------------------------------
(* ExecuteAcquisitionJobHandler *)

(* The copy of a row that a session works on. *)
Loaded(j) == [at |-> "loaded", job |-> j, seen |-> jobs[j].status]

(* Faulty variant: start() accepts any status. *)
LoadAnyStatus(h, j) ==
    /\ session[h] = Idle
    /\ jobs[j] # NoJob
    /\ session' = [session EXCEPT ![h] = Loaded(j)]
    /\ UNCHANGED <<jobs, datasets, catalogued, contested, forked, abandoned>>

(* get_by_id and job.start(): any other status raises and changes nothing. *)
Load(h, j) ==
    /\ session[h] = Idle
    /\ jobs[j].status = "SCHEDULED"
    /\ session' = [session EXCEPT ![h] = Loaded(j)]
    /\ UNCHANGED <<jobs, datasets, catalogued, contested, forked, abandoned>>

(* The first commit writes status (with started_at and provenance) from    *)
(* the copy that was loaded.                                               *)
Start(h) ==
    /\ session[h].at = "loaded"
    /\ LET j == session[h].job IN
          /\ jobs' = [jobs EXCEPT ![j].status = "RUNNING"]
          /\ contested' = IF jobs[j].status = session[h].seen THEN contested ELSE contested \cup {j}
          /\ session' = [session EXCEPT ![h] = [at |-> "running", job |-> j]]
    /\ UNCHANGED <<datasets, catalogued, forked, abandoned>>

(* The verdicts of everything between the two commits: AOI, decode, fetch, *)
(* validation, shapefile parse, feature extraction.  None of it touches    *)
(* these tables, so it is one step with what follows the verdict.          *)
Processed == [r \in UNION {Requests[j] : j \in Jobs} |-> Process(r)]

Verdicts(h, kinds) == {v \in Processed[jobs[session[h].job].request] : v.kind \in kinds}

(* An exception no except clause covers, the failed assertion included,    *)
(* ends the request: the session is closed without a commit.               *)
Escape(h) ==
    /\ session[h].at = "running"
    /\ Verdicts(h, {"LOST", "ASSERT"}) # {}
    /\ abandoned' = abandoned \cup {session[h].job}
    /\ session' = [session EXCEPT ![h] = Idle]
    /\ UNCHANGED <<jobs, datasets, catalogued, contested, forked>>

(* Faulty variant: the failed job is returned but not saved. *)
FailUnsaved(h) ==
    /\ session[h].at = "running"
    /\ Verdicts(h, {"FAILED"}) # {}
    /\ session' = [session EXCEPT ![h] = Idle]
    /\ UNCHANGED <<jobs, datasets, catalogued, contested, forked, abandoned>>

(* _fail *)
Fail(h) ==
    /\ session[h].at = "running"
    /\ Verdicts(h, {"FAILED"}) # {}
    /\ jobs' = [jobs EXCEPT ![session[h].job].status = "FAILED"]
    /\ session' = [session EXCEPT ![h] = Idle]
    /\ UNCHANGED <<datasets, catalogued, contested, forked, abandoned>>

(* A dataset to catalogue: get_latest for the job's source_reference *)
ReadLatest(h) ==
    /\ session[h].at = "running"
    /\ \E v \in Verdicts(h, {"READY"}), previous \in GetLatest :
          session' = [session EXCEPT ![h] = [at |-> "cataloguing", job |-> session[h].job,
                                             verdict |-> v, previous |-> previous]]
    /\ UNCHANGED <<jobs, datasets, catalogued, contested, forked, abandoned>>

(* The mapper assigns every column, but the UPDATE leaves out a column     *)
(* whose value is still the one this session loaded.                       *)
Written(stored, loaded, assigned) == IF assigned = loaded THEN stored ELSE assigned

(* job.complete() *)
Completed(job, row, v) ==
    [job EXCEPT !.status = "COMPLETED",
                !.dataset = row,
                !.applied = Written(@, {}, v.applied),
                !.features = [computed |-> Written(@.computed, {}, v.features.computed),
                              skipped |-> Written(@.skipped, {}, v.features.skipped)]]

(* Faulty variant: the dataset is committed without its job. *)
CommitDatasetAlone(h) ==
    /\ session[h].at = "cataloguing"
    /\ datasets' = CatalogueOrRevise(session[h].previous, session[h].job)
    /\ forked' = (forked \/ Stale(session[h].previous))
    /\ session' = [session EXCEPT ![h] = Idle]
    /\ UNCHANGED <<jobs, catalogued, contested, abandoned>>

(* The second commit: dataset rows and the job together. *)
CommitDataset(h) ==
    /\ session[h].at = "cataloguing"
    /\ LET s == session[h] IN
          /\ datasets' = CatalogueOrRevise(s.previous, s.job)
          /\ jobs' = [jobs EXCEPT ![s.job] = Completed(@, Len(datasets'), s.verdict)]
          /\ forked' = (forked \/ Stale(s.previous))
    /\ session' = [session EXCEPT ![h] = Idle]
    /\ UNCHANGED <<catalogued, contested, abandoned>>

(* The worker process stops; the open transaction is rolled back. *)
Die(h) ==
    /\ session[h].at \in {"loaded", "running", "cataloguing"}
    /\ abandoned' = IF session[h].at = "loaded" THEN abandoned
                    ELSE abandoned \cup {session[h].job}
    /\ session' = [session EXCEPT ![h] = Idle]
    /\ UNCHANGED <<jobs, datasets, catalogued, contested, forked>>

-----------------------------------------------------------------------------
Execute(h) ==
    Start(h) \/ Escape(h) \/ Fail(h) \/ ReadLatest(h) \/ CommitDataset(h)

Next ==
    \/ \E j \in Jobs : Schedule(j)
    \/ CatalogDataset
    \/ \E h \in Editors : BeginRevision(h) \/ CommitRevision(h)
    \/ \E h \in Executors : (\E j \in Jobs : Load(h, j)) \/ Execute(h) \/ Die(h)

(* A request that has begun is run by the event loop until it returns;     *)
(* nothing makes clients send requests.                                    *)
Fairness == \A h \in Executors : WF_vars(Execute(h))

Spec == Init /\ [][Next]_vars /\ Fairness

-----------------------------------------------------------------------------
(* Properties *)

(* Types of the rows and of what a session holds. *)
TypeOK ==
    /\ \A j \in Jobs : jobs[j] = NoJob \/
          /\ jobs[j] \in JobRow(j)
          /\ jobs[j].dataset \in {NoRow} \cup DOMAIN datasets
          /\ jobs[j].applied \subseteq jobs[j].request.steps
    /\ \A i \in DOMAIN datasets : datasets[i] \in DatasetRow /\ datasets[i].version <= Len(datasets)
    /\ \A h \in Holder :
          session[h].at \in {"idle", "revising", "done", "loaded", "running", "cataloguing"}
    /\ contested \subseteq Jobs /\ abandoned \subseteq Jobs

(* As long as no commit used a stale latest row and nobody catalogued an   *)
(* existing name, the rows are one chain of versions 1, 2, 3, ... of which *)
(* only the newest is CATALOGUED, whatever jobs crash, fail or race.       *)
CatalogueChain ==
    ~forked =>
        \A i \in DOMAIN datasets :
            /\ datasets[i].version = i
            /\ datasets[i].status = IF i = Len(datasets) THEN "CATALOGUED" ELSE "SUPERSEDED"

(* A dataset and its job appear together: a job that no stale executor     *)
(* restarted is COMPLETED exactly when one row carries its name, and that  *)
(* row is the one it points to.  A crash or failure in between leaves      *)
(* neither.                                                                *)
NoOrphanDatasets ==
    \A j \in Jobs \ contested :
        {i \in DOMAIN datasets : datasets[i].by = j}
            = IF jobs[j].status = "COMPLETED" THEN {jobs[j].dataset} ELSE {}

(* extract_features promises "an honest, complete accounting of every      *)
(* requested index": of a completed remote-sensing job every requested     *)
(* index is computed or skipped, never both, and nothing is computed that  *)
(* the source has no bands for, also when the raster itself was skipped.   *)
HonestAccounting ==
    \A j \in Jobs \ contested :
        (jobs[j].status = "COMPLETED" /\ jobs[j].request.source # NoSource) =>
            LET f == jobs[j].features
                r == jobs[j].request
            IN  /\ f.computed \cup f.skipped = r.indices
                /\ f.computed \cap f.skipped = {}
                /\ \A i \in f.computed :
                      IF i = "DNBR" THEN r.comparison /\ "SWIR2" \in BAND_NAMES_BY_SOURCE[r.source]
                      ELSE REQUIRED_BANDS_BY_INDEX[i] \subseteq BAND_NAMES_BY_SOURCE[r.source]

(* The assertion of the shapefile branch never fails, because a job that   *)
(* can succeed without content is never a shapefile job.                   *)
ShapefileHasContent ==
    \A h \in Executors : session[h].at = "running" => Verdicts(h, {"ASSERT"}) = {}

(* Rows are write-once per version: a step appends at most one row, never  *)
(* removes one, and changes of an old row nothing but CATALOGUED to        *)
(* SUPERSEDED, also when revisions race.                                   *)
VersionsAreWriteOnce ==
    [][/\ Len(datasets') \in {Len(datasets), Len(datasets) + 1}
       /\ \A i \in DOMAIN datasets :
             \/ datasets'[i] = datasets[i]
             \/ /\ datasets[i].status = "CATALOGUED"
                /\ datasets'[i] = [datasets[i] EXCEPT !.status = "SUPERSEDED"]]_vars

(* A job that only one executor started moves SCHEDULED, RUNNING, then to  *)
(* exactly one of COMPLETED and FAILED, and there it stays.                *)
JobMovesForward ==
    [][\A j \in Jobs \ contested' :
          jobs'[j].status # jobs[j].status =>
              <<jobs[j].status, jobs'[j].status>> \in
                  {<<"NONE", "SCHEDULED">>, <<"SCHEDULED", "RUNNING">>,
                   <<"RUNNING", "COMPLETED">>, <<"RUNNING", "FAILED">>}]_vars

(* A started job is settled or its executor was lost: no path through the  *)
(* pipeline simply forgets it.                                             *)
StartedJobsSettle ==
    \A j \in Jobs :
        jobs[j].status = "RUNNING" ~>
            (jobs[j].status \in {"COMPLETED", "FAILED"} \/ j \in abandoned)

(* The versions of a dataset, whatever executors and editors add to them,  *)
(* are chained as CatalogDatasetHandler and ReviseDatasetHandler chain     *)
(* them.                                                                   *)
CatalogueIsSound == TypeOK /\ CatalogueChain

(* A completed job has its dataset and every dataset of a job a completed  *)
(* job; the dataset accounts for all the job asked for, and the shapefile  *)
(* parser had content to parse.                                            *)
JobsMatchDatasets == NoOrphanDatasets /\ HonestAccounting /\ ShapefileHasContent

(* Neither jobs nor versions go back.                                      *)
RowsMoveForward == VersionsAreWriteOnce /\ JobMovesForward
=============================================================================
