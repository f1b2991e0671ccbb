------------------------ MODULE DataAcquisitionProofs ------------------------
(***************************************************************************)
(* Theorems about DataAcquisition: the versions of a dataset form a chain, *)
(* jobs and datasets match, and rows only move forward, for any sets of    *)
(* jobs, executors and editors and any requests.                           *)
(*                                                                         *)
(* The pipeline comes first: what it decides about a request schedule()    *)
(* accepted (ProcessVerdicts).  The invariant IInv adds to the types what  *)
(* each session holds (Typed), that one executor runs a job nobody started *)
(* from an old copy (OneRunner), and that such a job keeps its first       *)
(* column values until complete() writes them (Untouched): without that    *)
(* the UPDATE that leaves unchanged columns out could mix two runs.        *)
(***************************************************************************)
EXTENDS DataAcquisition, SequenceTheorems, TLAPS

-----------------------------------------------------------------------------
(* The pipeline *)

(* What a provider can answer: nothing, a file, or, the Earth Engine only, *)
(* statistics of bands the source has.                                     *)
LEMMA FetchShape ==
    ASSUME NEW r \in Request, NEW f \in Fetch(r)
    PROVE  \/ f = FetchFailed
           \/ \E k \in ContentKind : f = Bytes(k)
           \/ /\ r.provider = "GOOGLE_EARTH_ENGINE" /\ r.source # NoSource
              /\ \E k, stats, after :
                    /\ f = [success |-> TRUE, content |-> k, stats |-> stats, after |-> after,
                            applied |-> BuildComposite(r.source, r.steps), skipped |-> k = NoContent]
                    /\ stats \in BandStatistics(r.source)
                    /\ after \in BandStatistics(r.source) \cup {NoStats}
                    /\ after # NoStats => r.comparison
<1>1. CASE f \in LocalUploadFetch(r)
  BY <1>1 DEF LocalUploadFetch
<1>2. CASE f \in HttpFetch
  BY <1>2 DEF HttpFetch
<1>3. CASE r.provider = "GOOGLE_EARTH_ENGINE" /\ f \in EarthEngineFetch(r)
  <2>1. f = FetchFailed \/ (r.source # NoSource /\ f \in FetchSync(r))
    BY <1>3 DEF EarthEngineFetch
  <2>2. CASE r.source # NoSource /\ f \in FetchSync(r)
    BY <1>3, <2>2 DEF FetchSync
  <2> QED
    BY <2>1, <2>2
<1>4. CASE f = FetchFailed
  BY <1>4
<1> QED
  BY <1>1, <1>2, <1>3, <1>4 DEF Fetch

(* Bands have names, and every mean is of a band of the source. *)
LEMMA BandsOfSource ==
    ASSUME NEW source \in RemoteSensingSource, NEW stats \in BandStatistics(source)
    PROVE  stats \subseteq BAND_NAMES_BY_SOURCE[source] /\ stats # NoStats
<1>1. BAND_NAMES_BY_SOURCE[source] \subseteq Optical \cup {"THERMAL", "PRECIPITATION", "TEMPERATURE"}
  BY DEF RemoteSensingSource, BAND_NAMES_BY_SOURCE
<1>2. stats \subseteq BAND_NAMES_BY_SOURCE[source]
  BY DEF BandStatistics
<1>3. "NO_STATISTICS" \notin BAND_NAMES_BY_SOURCE[source]
  BY <1>1 DEF Optical
<1> QED
  BY <1>2, <1>3 DEF NoStats

(* A verdict is one of four, and the assertion is reached with a forgiven  *)
(* raster only.                                                            *)
LEMMA JudgeCases ==
    ASSUME NEW r, NEW f, NEW v \in Judge(r, f)
    PROVE  \/ v = Lost
           \/ v = Failing
           \/ v = Verdict("READY", r, f)
           \/ /\ v = AssertionFailed
              /\ r.format = "SHAPEFILE" /\ f.success /\ f.content = NoContent /\ f.skipped
  BY DEF Judge

(* extract_features accounts for every index once. *)
LEMMA Extracted ==
    ASSUME NEW requested, NEW stats, NEW after
    PROVE  LET e == ExtractFeatures(requested, stats, after) IN
           /\ e.computed \cup e.skipped = requested
           /\ e.computed \cap e.skipped = {}
           /\ \A i \in e.computed : Computable(i, stats, after)
  BY DEF ExtractFeatures

(* What HonestAccounting asks of the features of a job. *)
Honest(r, f) ==
    /\ f.computed \cup f.skipped = r.indices
    /\ f.computed \cap f.skipped = {}
    /\ \A i \in f.computed :
          IF i = "DNBR" THEN r.comparison /\ "SWIR2" \in BAND_NAMES_BY_SOURCE[r.source]
          ELSE REQUIRED_BANDS_BY_INDEX[i] \subseteq BAND_NAMES_BY_SOURCE[r.source]

(* A dataset to catalogue comes with an honest account. *)
LEMMA ReadyIsHonest ==
    ASSUME NEW r \in Request, NEW f \in Fetch(r), NEW v, v = Verdict("READY", r, f)
    PROVE  /\ v.applied \subseteq r.steps
           /\ v.features \in [computed : SUBSET SpectralIndex, skipped : SUBSET SpectralIndex]
           /\ v.features.computed \cup v.features.skipped \subseteq r.indices
           /\ r.source # NoSource => Honest(r, v.features)
<1>1. r.indices \subseteq SpectralIndex /\ r.source \in RemoteSensingSource \cup {NoSource}
  BY DEF Request
<1>2. v.applied = f.applied
  BY DEF Verdict
<1>3. f.applied \subseteq r.steps
  <2>1. BuildComposite(r.source, r.steps) \subseteq r.steps
    BY DEF BuildComposite, ApplyPreprocessing
  <2>2. FetchFailed.applied = {} /\ \A k : Bytes(k).applied = {}
    BY DEF FetchFailed, Bytes
  <2> QED
    BY <2>1, <2>2, FetchShape
<1>4. CASE r.indices # {} /\ r.source # NoSource /\ f.stats # NoStats
  <2> DEFINE e == ExtractFeatures(r.indices, f.stats, f.after)
  <2>1. v.features = e
    BY <1>4 DEF Verdict
  <2>2. /\ e.computed \cup e.skipped = r.indices
        /\ e.computed \cap e.skipped = {}
        /\ \A i \in e.computed : Computable(i, f.stats, f.after)
    BY Extracted
  <2>3. /\ f.stats \in BandStatistics(r.source)
        /\ f.after # NoStats => r.comparison
    <3>1. FetchFailed.stats = NoStats /\ \A k : Bytes(k).stats = NoStats
      BY DEF FetchFailed, Bytes
    <3> QED
      BY <1>4, <3>1, FetchShape
  <2>4. f.stats \subseteq BAND_NAMES_BY_SOURCE[r.source]
    BY <1>1, <1>4, <2>3, BandsOfSource
  <2>5. ASSUME NEW i \in e.computed
        PROVE  IF i = "DNBR" THEN r.comparison /\ "SWIR2" \in BAND_NAMES_BY_SOURCE[r.source]
               ELSE REQUIRED_BANDS_BY_INDEX[i] \subseteq BAND_NAMES_BY_SOURCE[r.source]
    BY <2>2, <2>3, <2>4 DEF Computable
  <2>6. e \in [computed : SUBSET SpectralIndex, skipped : SUBSET SpectralIndex]
    BY <1>1 DEF ExtractFeatures
  <2> HIDE DEF e
  <2> QED
    BY <1>2, <1>3, <2>1, <2>2, <2>5, <2>6 DEF Honest
<1>5. CASE ~(r.indices # {} /\ r.source # NoSource /\ f.stats # NoStats)
  <2>1. /\ v.features.computed = {}
        /\ v.features = [computed |-> {}, skipped |-> {}] \/ v.features = [computed |-> {}, skipped |-> r.indices]
        /\ r.source # NoSource => v.features.skipped = r.indices
    BY <1>5 DEF Verdict
  <2> QED
    BY <1>1, <1>2, <1>3, <2>1 DEF Honest
<1> QED
  BY <1>4, <1>5

(* What the pipeline decides about a request that schedule() accepted.     *)
LEMMA ProcessVerdicts ==
    ASSUME NEW r \in Request, Schedulable(r), NEW v \in Process(r)
    PROVE  /\ v.kind # "ASSERT"
           /\ v.kind = "READY" =>
                 /\ v.applied \subseteq r.steps
                 /\ v.features \in [computed : SUBSET SpectralIndex, skipped : SUBSET SpectralIndex]
                 /\ r.source # NoSource => Honest(r, v.features)
<1>1. Failing.kind = "FAILED" /\ Lost.kind = "LOST"
  BY DEF Failing, Lost
<1>2. ASSUME NEW f \in Fetch(r), v \in Judge(r, f)
      PROVE  /\ v.kind # "ASSERT"
             /\ v.kind = "READY" => v = Verdict("READY", r, f)
  <2>1. Verdict("READY", r, f).kind = "READY"
    BY DEF Verdict
  <2>2. ~(r.format = "SHAPEFILE" /\ f.success /\ f.content = NoContent /\ f.skipped)
    <3>1. /\ ~FetchFailed.success
          /\ \A k : ~Bytes(k).skipped
      BY DEF FetchFailed, Bytes
    <3>2. r.provider = "GOOGLE_EARTH_ENGINE" => r.format # "SHAPEFILE"
      BY DEF Schedulable
    <3> QED
      BY <3>1, <3>2, FetchShape
  <2> QED
    BY <1>1, <1>2, <2>1, <2>2, JudgeCases
<1>3. CASE v = Failing \/ v = Lost
  BY <1>1, <1>3
<1>4. CASE \E f \in Fetch(r) : v \in Judge(r, f)
  <2>1. PICK f \in Fetch(r) : v \in Judge(r, f)
    BY <1>4
  <2> QED
    BY <1>2, <2>1, ReadyIsHonest
<1> QED
  BY <1>3, <1>4 DEF Process

-----------------------------------------------------------------------------
(* The inductive invariant *)

(* A row is of a request that schedule() accepted. *)
JobsTyped ==
    /\ jobs = [j \in Jobs |-> jobs[j]]
    /\ \A j \in Jobs :
          jobs[j] # NoJob =>
              /\ jobs[j] \in JobRow(j)
              /\ Schedulable(jobs[j].request)
              /\ jobs[j].dataset \in {NoRow} \cup DOMAIN datasets
              /\ jobs[j].applied \subseteq jobs[j].request.steps

DatasetsTyped ==
    /\ datasets \in Seq(DatasetRow)
    /\ \A i \in DOMAIN datasets : datasets[i].version <= Len(datasets)

(* An executor works on a scheduled job; what it holds after the fetch is a *)
(* dataset to catalogue, and the latest row it read is still there.        *)
Executing(h) ==
    /\ h \in Executors
    /\ \E j \in Jobs :
          /\ jobs[j] # NoJob
          /\ \/ session[h] = [at |-> "loaded", job |-> j, seen |-> "SCHEDULED"]
             \/ session[h] = [at |-> "running", job |-> j]
             \/ \E v \in Process(jobs[j].request), previous \in {NoRow} \cup DOMAIN datasets :
                   /\ v.kind = "READY"
                   /\ session[h] = [at |-> "cataloguing", job |-> j,
                                    verdict |-> v, previous |-> previous]

Revising(h) ==
    /\ h \in Editors
    /\ \E previous \in DOMAIN datasets : session[h] = [at |-> "revising", previous |-> previous]

SessionsTyped ==
    /\ session = [h \in Holder |-> session[h]]
    /\ \A h \in Holder :
          session[h] = Idle \/ session[h] = [at |-> "done"] \/ Revising(h) \/ Executing(h)

HistoryTyped == contested \subseteq Jobs /\ abandoned \subseteq Jobs /\ forked \in BOOLEAN

Typed == JobsTyped /\ DatasetsTyped /\ SessionsTyped /\ HistoryTyped

(* h has committed the start of job j and not yet its end. *)
Runs(h, j) == session[h].at \in {"running", "cataloguing"} /\ session[h].job = j

(* A job no stale executor restarted is RUNNING while an executor runs it,  *)
(* and one executor does.                                                  *)
OneRunner ==
    \A j \in Jobs \ contested :
        /\ \A h \in Executors : Runs(h, j) => jobs[j].status = "RUNNING"
        /\ \A h, g \in Executors : Runs(h, j) /\ Runs(g, j) => h = g

(* Until it is COMPLETED such a job has the columns it was scheduled with, *)
(* so that complete() writes all of them.                                  *)
Untouched ==
    \A j \in Jobs \ contested :
        jobs[j] # NoJob /\ jobs[j].status # "COMPLETED" =>
            jobs[j].applied = {} /\ jobs[j].features = NoFeatures

Accounted ==
    \A j \in Jobs \ contested :
        (jobs[j].status = "COMPLETED" /\ jobs[j].request.source # NoSource) =>
            Honest(jobs[j].request, jobs[j].features)

IInv ==
    Typed /\ CatalogueChain /\ OneRunner /\ Untouched /\ NoOrphanDatasets /\ Accounted

-----------------------------------------------------------------------------
(* Rows and sessions *)

LEMMA NoJobIsNoRow == ASSUME NEW j, NEW x \in JobRow(j) PROVE x # NoJob
  BY DEF JobRow, NoJob, AcquisitionJobStatus

(* What a commit leaves of the catalogue. *)
LEMMA Grown ==
    ASSUME DatasetsTyped, NEW previous \in {NoRow} \cup DOMAIN datasets,
           NEW by \in Jobs \cup {"editor"},
           NEW d, d = CatalogueOrRevise(previous, by)
    PROVE  /\ d \in Seq(DatasetRow)
           /\ Len(d) = Len(datasets) + 1
           /\ DOMAIN d = 1..(Len(datasets) + 1)
           /\ \A i \in DOMAIN datasets :
                 d[i] = IF i = previous THEN [datasets[i] EXCEPT !.status = "SUPERSEDED"]
                        ELSE datasets[i]
           /\ d[Len(d)] = [version |-> IF previous = NoRow THEN 1
                                       ELSE datasets[previous].version + 1,
                           status |-> "CATALOGUED", by |-> by]
           /\ \A i \in DOMAIN d : d[i].version <= Len(d)
<1>0. /\ datasets \in Seq(DatasetRow) /\ Len(datasets) \in Nat /\ DOMAIN datasets = 1..Len(datasets)
      /\ \A i \in DOMAIN datasets : datasets[i] \in DatasetRow /\ datasets[i].version <= Len(datasets)
      /\ NoRow \notin DOMAIN datasets
  BY DEF DatasetsTyped, NoRow
<1> DEFINE row == [version |-> IF previous = NoRow THEN 1 ELSE datasets[previous].version + 1,
                   status |-> "CATALOGUED", by |-> by]
           old == IF previous = NoRow THEN datasets
                  ELSE [datasets EXCEPT ![previous].status = "SUPERSEDED"]
<1>1. d = Append(old, row)
  BY DEF CatalogueOrRevise, Catalogue, Revise
<1>2. row \in DatasetRow /\ row.version <= Len(datasets) + 1
  BY <1>0 DEF DatasetRow, DatasetStatus
<1>3. \A i \in DOMAIN datasets :
          [datasets[i] EXCEPT !.status = "SUPERSEDED"] \in DatasetRow
          /\ [datasets[i] EXCEPT !.status = "SUPERSEDED"].version = datasets[i].version
  BY <1>0 DEF DatasetRow, DatasetStatus
<1>4. /\ old \in Seq(DatasetRow) /\ Len(old) = Len(datasets)
      /\ \A i \in DOMAIN datasets :
            old[i] = IF i = previous THEN [datasets[i] EXCEPT !.status = "SUPERSEDED"]
                     ELSE datasets[i]
  <2>1. CASE previous = NoRow
    BY <1>0, <2>1
  <2>2. CASE previous \in DOMAIN datasets
    BY <1>0, <1>3, <2>2, ExceptSeq
  <2> QED
    BY <2>1, <2>2
<1> HIDE DEF row, old
<1>5. /\ d \in Seq(DatasetRow) /\ Len(d) = Len(datasets) + 1
      /\ \A i \in 1..Len(datasets) : d[i] = old[i]
      /\ d[Len(datasets) + 1] = row
  BY <1>0, <1>1, <1>2, <1>4
<1>6. \A i \in DOMAIN d : d[i].version <= Len(d)
  <2>1. \A i \in 1..Len(datasets) : d[i].version = datasets[i].version
    BY <1>0, <1>3, <1>4, <1>5
  <2>2. \A i \in 1..Len(datasets) : datasets[i].version \in Nat
    BY <1>0 DEF DatasetRow
  <2>3. \A i \in 1..Len(datasets) : d[i].version <= Len(datasets) + 1
    BY <1>0, <2>1, <2>2
  <2>4. DOMAIN d = 1..(Len(datasets) + 1)
    BY <1>0, <1>5
  <2>5. d[Len(datasets) + 1].version <= Len(datasets) + 1
    BY <1>2, <1>5
  <2>6. \A i \in DOMAIN d : i \in 1..Len(datasets) \/ i = Len(datasets) + 1
    BY <1>0, <2>4
  <2> QED
    BY <1>5, <2>3, <2>5, <2>6
<1> QED
  BY <1>0, <1>4, <1>5, <1>6 DEF row

(* The same of the catalogue after a step. *)
LEMMA GrownDatasets ==
    ASSUME DatasetsTyped, NEW previous \in {NoRow} \cup DOMAIN datasets,
           NEW by \in Jobs \cup {"editor"}, datasets' = CatalogueOrRevise(previous, by)
    PROVE  /\ datasets' \in Seq(DatasetRow)
           /\ Len(datasets') = Len(datasets) + 1
           /\ DOMAIN datasets' = 1..(Len(datasets) + 1)
           /\ \A i \in DOMAIN datasets :
                 datasets'[i] = IF i = previous THEN [datasets[i] EXCEPT !.status = "SUPERSEDED"]
                                ELSE datasets[i]
           /\ datasets'[Len(datasets')] = [version |-> IF previous = NoRow THEN 1
                                                       ELSE datasets[previous].version + 1,
                                           status |-> "CATALOGUED", by |-> by]
           /\ \A i \in DOMAIN datasets' : datasets'[i].version <= Len(datasets')
<1> DEFINE P(d) == /\ d \in Seq(DatasetRow)
                   /\ Len(d) = Len(datasets) + 1
                   /\ DOMAIN d = 1..(Len(datasets) + 1)
                   /\ \A i \in DOMAIN datasets :
                         d[i] = IF i = previous THEN [datasets[i] EXCEPT !.status = "SUPERSEDED"]
                                ELSE datasets[i]
                   /\ d[Len(d)] = [version |-> IF previous = NoRow THEN 1
                                               ELSE datasets[previous].version + 1,
                                   status |-> "CATALOGUED", by |-> by]
                   /\ \A i \in DOMAIN d : d[i].version <= Len(d)
<1>1. \A d : d = CatalogueOrRevise(previous, by) => P(d)
  BY Grown
<1> HIDE DEF P
<1>2. P(datasets')
  BY <1>1
<1> QED
  BY <1>2 DEF P

(* What a session that has reached a place holds. *)
LEMMA Holding ==
    ASSUME SessionsTyped, NEW h \in Holder
    PROVE  /\ session[h].at = "revising" => Revising(h) /\ session[h].previous \in DOMAIN datasets
           /\ session[h].at \in {"loaded", "running", "cataloguing"} =>
                 /\ Executing(h) /\ h \in Executors
                 /\ session[h].job \in Jobs /\ jobs[session[h].job] # NoJob
           /\ session[h].at = "loaded" => session[h].seen = "SCHEDULED"
           /\ session[h].at = "cataloguing" =>
                 /\ session[h].verdict \in Process(jobs[session[h].job].request)
                 /\ session[h].verdict.kind = "READY"
                 /\ session[h].previous \in {NoRow} \cup DOMAIN datasets
<1>1. session[h] = Idle \/ session[h] = [at |-> "done"] \/ Revising(h) \/ Executing(h)
  BY DEF SessionsTyped
<1>2. CASE session[h] = Idle \/ session[h] = [at |-> "done"]
  BY <1>2 DEF Idle
<1>3. CASE Revising(h)
  BY <1>3 DEF Revising
<1>4. CASE Executing(h)
  <2>1. h \in Executors
    BY <1>4 DEF Executing
  <2>2. PICK j \in Jobs :
          /\ jobs[j] # NoJob
          /\ \/ session[h] = [at |-> "loaded", job |-> j, seen |-> "SCHEDULED"]
             \/ session[h] = [at |-> "running", job |-> j]
             \/ \E v \in Process(jobs[j].request), previous \in {NoRow} \cup DOMAIN datasets :
                   /\ v.kind = "READY"
                   /\ session[h] = [at |-> "cataloguing", job |-> j,
                                    verdict |-> v, previous |-> previous]
    BY <1>4 DEF Executing
  <2>3. CASE session[h] = [at |-> "loaded", job |-> j, seen |-> "SCHEDULED"]
    BY <1>4, <2>1, <2>2, <2>3
  <2>4. CASE session[h] = [at |-> "running", job |-> j]
    BY <1>4, <2>1, <2>2, <2>4
  <2>5. CASE \E v \in Process(jobs[j].request), previous \in {NoRow} \cup DOMAIN datasets :
               /\ v.kind = "READY"
               /\ session[h] = [at |-> "cataloguing", job |-> j,
                                verdict |-> v, previous |-> previous]
    BY <1>4, <2>1, <2>2, <2>5
  <2> QED
    BY <2>2, <2>3, <2>4, <2>5
<1> QED
  BY <1>1, <1>2, <1>3, <1>4

LEMMA LatestIsARow == ASSUME NEW previous \in GetLatest PROVE previous \in {NoRow} \cup DOMAIN datasets
  BY DEF GetLatest, CataloguedRows

(* A commit of a session. *)
LEMMA CommitGrows ==
    ASSUME Typed, NEW h \in Holder,
           CommitRevision(h) \/ CommitDataset(h)
    PROVE  \E previous \in {NoRow} \cup DOMAIN datasets, by \in Jobs \cup {"editor"} :
              datasets' = CatalogueOrRevise(previous, by)
<1>1. CASE CommitRevision(h)
  BY <1>1, Holding DEF CommitRevision, Typed, DatasetsTyped, CatalogueOrRevise, NoRow
<1>2. CASE CommitDataset(h)
  BY <1>2, Holding DEF CommitDataset, Typed
<1> QED
  BY <1>1, <1>2

LEMMA StatusSet ==
    ASSUME NEW j, NEW x \in JobRow(j), NEW s \in AcquisitionJobStatus,
           NEW y, y = [x EXCEPT !.status = s]
    PROVE  /\ y \in JobRow(j) /\ y.status = s
           /\ y.request = x.request /\ y.dataset = x.dataset
           /\ y.applied = x.applied /\ y.features = x.features
  BY DEF JobRow

LEMMA CompletedRow ==
    ASSUME NEW j \in Jobs, NEW x \in JobRow(j), Schedulable(x.request),
           x.applied \subseteq x.request.steps, NEW row \in Nat,
           NEW v \in Process(x.request), v.kind = "READY",
           NEW y, y = Completed(x, row, v)
    PROVE  /\ y \in JobRow(j) /\ y.status = "COMPLETED"
           /\ y.request = x.request /\ y.dataset = row
           /\ y.applied \subseteq x.request.steps
           /\ x.features = NoFeatures => y.features = v.features
<1>1. x.request \in Requests[j] /\ Requests[j] \subseteq Request
  BY AcquisitionAssumption DEF JobRow
<1>2. x.request.steps \subseteq PreprocessingStep
  BY <1>1 DEF Request
<1>3. /\ v.applied \subseteq x.request.steps
      /\ v.features \in [computed : SUBSET SpectralIndex, skipped : SUBSET SpectralIndex]
  BY <1>1, ProcessVerdicts
<1>4. /\ x.features \in [computed : SUBSET SpectralIndex, skipped : SUBSET SpectralIndex]
      /\ x = [status |-> x.status, request |-> x.request, dataset |-> x.dataset,
              applied |-> x.applied, features |-> x.features]
  BY DEF JobRow
<1> DEFINE a == Written(x.applied, {}, v.applied)
           f == [computed |-> Written(x.features.computed, {}, v.features.computed),
                 skipped |-> Written(x.features.skipped, {}, v.features.skipped)]
<1>5. y = [status |-> "COMPLETED", request |-> x.request, dataset |-> row,
           applied |-> a, features |-> f]
  BY <1>4 DEF Completed
<1>6. a \subseteq x.request.steps
  BY <1>3 DEF Written
<1>7. f \in [computed : SUBSET SpectralIndex, skipped : SUBSET SpectralIndex]
  BY <1>3, <1>4 DEF Written
<1>8. x.features = NoFeatures => f = v.features
  <2> SUFFICES ASSUME x.features = NoFeatures PROVE f = v.features
    OBVIOUS
  <2>1. x.features.computed = {} /\ x.features.skipped = {}
    BY DEF NoFeatures
  <2>2. f.computed = v.features.computed /\ f.skipped = v.features.skipped
    BY <2>1 DEF Written
  <2> HIDE DEF f
  <2> QED
    BY <1>3, <1>7, <2>2
<1> HIDE DEF a, f
<1> QED
  BY <1>1, <1>2, <1>5, <1>6, <1>7, <1>8 DEF JobRow, AcquisitionJobStatus

(* What a step does to a job row. *)
JobStep(j) ==
    \/ jobs'[j] = jobs[j]
    \/ Schedule(j)
    \/ \E h \in Executors :
          /\ session[h].job = j
          /\ \/ Start(h) /\ jobs'[j] = [jobs[j] EXCEPT !.status = "RUNNING"]
             \/ Fail(h) /\ jobs'[j] = [jobs[j] EXCEPT !.status = "FAILED"]
             \/ CommitDataset(h) /\ jobs'[j] = Completed(jobs[j], Len(datasets'), session[h].verdict)

(* Every step is one of these to every row. *)
LEMMA JobsMove ==
    ASSUME Typed, [Next]_vars
    PROVE  /\ jobs' = [j \in Jobs |-> jobs'[j]]
           /\ \A j \in Jobs : JobStep(j)
<1>1. jobs = [j \in Jobs |-> jobs[j]]
  BY DEF Typed, JobsTyped
<1>2. ASSUME NEW j \in Jobs, Schedule(j)
      PROVE  jobs' = [k \in Jobs |-> jobs'[k]] /\ \A k \in Jobs : JobStep(k)
  <2>1. \A k \in Jobs : k # j => jobs'[k] = jobs[k]
    BY <1>1, <1>2 DEF Schedule
  <2>2. jobs' = [k \in Jobs |-> jobs'[k]]
    BY <1>1, <1>2 DEF Schedule
  <2> QED
    BY <1>2, <2>1, <2>2 DEF JobStep
<1>3. ASSUME NEW h \in Executors, Start(h)
      PROVE  jobs' = [k \in Jobs |-> jobs'[k]] /\ \A k \in Jobs : JobStep(k)
  <2>1. jobs' = [jobs EXCEPT ![session[h].job].status = "RUNNING"]
    BY <1>3 DEF Start
  <2>2. /\ \A k \in Jobs : k # session[h].job => jobs'[k] = jobs[k]
        /\ \A k \in Jobs : k = session[h].job => jobs'[k] = [jobs[k] EXCEPT !.status = "RUNNING"]
        /\ jobs' = [k \in Jobs |-> jobs'[k]]
    BY <1>1, <2>1
  <2> QED
    BY <1>3, <2>2 DEF JobStep
<1>4. ASSUME NEW h \in Executors, Fail(h)
      PROVE  jobs' = [k \in Jobs |-> jobs'[k]] /\ \A k \in Jobs : JobStep(k)
  <2>1. jobs' = [jobs EXCEPT ![session[h].job].status = "FAILED"]
    BY <1>4 DEF Fail
  <2>2. /\ \A k \in Jobs : k # session[h].job => jobs'[k] = jobs[k]
        /\ \A k \in Jobs : k = session[h].job => jobs'[k] = [jobs[k] EXCEPT !.status = "FAILED"]
        /\ jobs' = [k \in Jobs |-> jobs'[k]]
    BY <1>1, <2>1
  <2> QED
    BY <1>4, <2>2 DEF JobStep
<1>5. ASSUME NEW h \in Executors, CommitDataset(h)
      PROVE  jobs' = [k \in Jobs |-> jobs'[k]] /\ \A k \in Jobs : JobStep(k)
  <2>1. jobs' = [jobs EXCEPT ![session[h].job] =
                    Completed(@, Len(datasets'), session[h].verdict)]
    BY <1>5 DEF CommitDataset
  <2>2. /\ \A k \in Jobs : k # session[h].job => jobs'[k] = jobs[k]
        /\ \A k \in Jobs : k = session[h].job =>
              jobs'[k] = Completed(jobs[k], Len(datasets'), session[h].verdict)
        /\ jobs' = [k \in Jobs |-> jobs'[k]]
    BY <1>1, <2>1
  <2> QED
    BY <1>5, <2>2 DEF JobStep
<1>6. CASE UNCHANGED jobs
  BY <1>1, <1>6 DEF JobStep
<1> QED
  BY <1>2, <1>3, <1>4, <1>5, <1>6
  DEF Next, vars, CatalogDataset, BeginRevision, CommitRevision, Load, Execute, Escape, ReadLatest, Die

(* A step appends a row or none. *)
LEMMA DatasetsStep ==
    ASSUME Typed, [Next]_vars
    PROVE  /\ DatasetsTyped'
           /\ \/ datasets' = datasets
              \/ \E previous \in {NoRow} \cup DOMAIN datasets, by \in Jobs \cup {"editor"} :
                    datasets' = CatalogueOrRevise(previous, by)
           /\ {NoRow} \cup DOMAIN datasets \subseteq {NoRow} \cup DOMAIN datasets'
           /\ DOMAIN datasets \subseteq DOMAIN datasets'
<1>1. CASE \E previous \in {NoRow} \cup DOMAIN datasets, by \in Jobs \cup {"editor"} :
              datasets' = CatalogueOrRevise(previous, by)
  <2>1. PICK previous \in {NoRow} \cup DOMAIN datasets, by \in Jobs \cup {"editor"} :
            datasets' = CatalogueOrRevise(previous, by)
    BY <1>1
  <2>2. DatasetsTyped
    BY DEF Typed
  <2>3. /\ datasets' \in Seq(DatasetRow)
        /\ DOMAIN datasets' = 1..(Len(datasets) + 1)
        /\ \A i \in DOMAIN datasets' : datasets'[i].version <= Len(datasets')
    BY <2>1, <2>2, GrownDatasets
  <2>4. DatasetsTyped'
    BY <2>3 DEF DatasetsTyped
  <2>5. DOMAIN datasets = 1..Len(datasets) /\ Len(datasets) \in Nat
    BY <2>2 DEF DatasetsTyped
  <2> QED
    BY <2>1, <2>3, <2>4, <2>5
<1>2. CASE UNCHANGED datasets
  BY <1>2 DEF Typed, DatasetsTyped
<1>3. Executors \subseteq Holder /\ Editors \subseteq Holder
  BY DEF Holder
<1>4. CASE (\E h \in Editors : CommitRevision(h)) \/ (\E h \in Executors : CommitDataset(h))
  BY <1>1, <1>3, <1>4, CommitGrows
<1>5. CASE CatalogDataset
  BY <1>1, <1>5 DEF CatalogDataset, CatalogueOrRevise
<1> QED
  BY <1>2, <1>4, <1>5
  DEF Next, vars, Schedule, BeginRevision, CommitRevision, Load, Execute, Start, Escape, Fail,
      ReadLatest, CommitDataset, Die

LEMMA JobsStep ==
    ASSUME Typed, [Next]_vars
    PROVE  /\ JobsTyped'
           /\ \A j \in Jobs : jobs[j] # NoJob =>
                 jobs'[j] # NoJob /\ jobs'[j].request = jobs[j].request
<1> SUFFICES ASSUME NEW j \in Jobs
             PROVE  /\ jobs'[j] # NoJob =>
                         /\ jobs'[j] \in JobRow(j)
                         /\ Schedulable(jobs'[j].request)
                         /\ jobs'[j].dataset \in {NoRow} \cup DOMAIN datasets'
                         /\ jobs'[j].applied \subseteq jobs'[j].request.steps
                    /\ jobs[j] # NoJob => jobs'[j] # NoJob /\ jobs'[j].request = jobs[j].request
  BY JobsMove DEF JobsTyped
<1>1. /\ jobs[j] # NoJob =>
           /\ jobs[j] \in JobRow(j)
           /\ Schedulable(jobs[j].request)
           /\ jobs[j].dataset \in {NoRow} \cup DOMAIN datasets
           /\ jobs[j].applied \subseteq jobs[j].request.steps
      /\ {NoRow} \cup DOMAIN datasets \subseteq {NoRow} \cup DOMAIN datasets'
  BY DatasetsStep DEF Typed, JobsTyped
<1>2. CASE jobs'[j] = jobs[j]
  BY <1>1, <1>2
<1>3. CASE Schedule(j)
  <2>1. PICK r \in Requests[j] : Schedulable(r) /\ jobs' = [jobs EXCEPT ![j] = ScheduledJob(r)]
    BY <1>3 DEF Schedule
  <2>2. jobs'[j] = ScheduledJob(r)
    BY <2>1 DEF Typed, JobsTyped
  <2>3. ScheduledJob(r) \in JobRow(j)
    BY DEF ScheduledJob, JobRow, AcquisitionJobStatus, NoRow, NoFeatures
  <2>4. /\ ScheduledJob(r).request = r /\ ScheduledJob(r).dataset = NoRow
        /\ ScheduledJob(r).applied = {}
    BY DEF ScheduledJob
  <2>5. jobs[j] = NoJob
    BY <1>3 DEF Schedule
  <2> QED
    BY <2>1, <2>2, <2>3, <2>4, <2>5
<1>4. ASSUME NEW h \in Executors, session[h].job = j,
             \/ Start(h) /\ jobs'[j] = [jobs[j] EXCEPT !.status = "RUNNING"]
             \/ Fail(h) /\ jobs'[j] = [jobs[j] EXCEPT !.status = "FAILED"]
      PROVE  /\ jobs'[j] \in JobRow(j)
             /\ jobs'[j].request = jobs[j].request
             /\ jobs'[j].dataset = jobs[j].dataset
             /\ jobs'[j].applied = jobs[j].applied
             /\ jobs[j] # NoJob
  <2>1. jobs[j] # NoJob
    BY <1>4, Holding DEF Start, Fail, Typed, Holder
  <2> QED
    BY <1>1, <1>4, <2>1, StatusSet DEF AcquisitionJobStatus
<1>5. ASSUME NEW h \in Executors, session[h].job = j, CommitDataset(h),
             jobs'[j] = Completed(jobs[j], Len(datasets'), session[h].verdict)
      PROVE  /\ jobs'[j] \in JobRow(j)
             /\ jobs'[j].request = jobs[j].request
             /\ jobs'[j].dataset \in DOMAIN datasets'
             /\ jobs'[j].applied \subseteq jobs[j].request.steps
             /\ jobs[j] # NoJob
  <2>1. /\ jobs[j] # NoJob
        /\ session[h].verdict \in Process(jobs[j].request)
        /\ session[h].verdict.kind = "READY"
    BY <1>5, Holding DEF CommitDataset, Typed, Holder
  <2>2. Len(datasets') \in Nat /\ Len(datasets') \in DOMAIN datasets'
    <3>1. PICK previous \in {NoRow} \cup DOMAIN datasets, by \in Jobs \cup {"editor"} :
              datasets' = CatalogueOrRevise(previous, by)
      BY <1>5, CommitGrows DEF Holder
    <3>2. /\ Len(datasets') = Len(datasets) + 1
          /\ DOMAIN datasets' = 1..(Len(datasets) + 1)
      BY <3>1, GrownDatasets DEF Typed
    <3>3. Len(datasets) \in Nat
      BY DEF Typed, DatasetsTyped
    <3> QED
      BY <3>2, <3>3
  <2> QED
    BY <1>1, <1>5, <2>1, <2>2, CompletedRow
<1> QED
  BY <1>1, <1>2, <1>3, <1>4, <1>5, JobsMove, NoJobIsNoRow DEF JobStep

(* A session that a step leaves alone is as sound as it was. *)
LEMMA SessionKept ==
    ASSUME Typed, [Next]_vars, NEW h \in Holder, session'[h] = session[h]
    PROVE  \/ session'[h] = Idle
           \/ session'[h] = [at |-> "done"]
           \/ Revising(h)'
           \/ Executing(h)'
<1>1. /\ \A j \in Jobs : jobs[j] # NoJob => jobs'[j] # NoJob /\ jobs'[j].request = jobs[j].request
      /\ {NoRow} \cup DOMAIN datasets \subseteq {NoRow} \cup DOMAIN datasets'
      /\ DOMAIN datasets \subseteq DOMAIN datasets'
  BY JobsStep, DatasetsStep
<1>2. CASE session[h] = Idle \/ session[h] = [at |-> "done"]
  BY <1>2
<1>3. CASE Revising(h)
  BY <1>1, <1>3 DEF Revising
<1>4. CASE Executing(h)
  BY <1>1, <1>4 DEF Executing
<1> QED
  BY <1>2, <1>3, <1>4 DEF Typed, SessionsTyped

LEMMA SessionsStep ==
    ASSUME Typed, [Next]_vars
    PROVE  SessionsTyped'
<1>1. session = [g \in Holder |-> session[g]]
  BY DEF Typed, SessionsTyped
<1> DEFINE Sound(g) == \/ session'[g] = Idle
                       \/ session'[g] = [at |-> "done"]
                       \/ Revising(g)'
                       \/ Executing(g)'
<1>2. \A g \in Holder : session'[g] = session[g] => Sound(g)
  BY SessionKept
<1>3. ASSUME NEW h \in Holder, NEW s, session' = [session EXCEPT ![h] = s], session'[h] = s => Sound(h)
      PROVE  SessionsTyped'
  <2>1. /\ session' = [g \in Holder |-> session'[g]]
        /\ session'[h] = s
        /\ \A g \in Holder \ {h} : session'[g] = session[g]
    BY <1>1, <1>3
  <2> QED
    BY <1>2, <1>3, <2>1 DEF SessionsTyped
<1>4. Executors \subseteq Holder /\ Editors \subseteq Holder
  BY DEF Holder
<1>5. CASE UNCHANGED session
  BY <1>1, <1>2, <1>5 DEF SessionsTyped
<1>6. ASSUME NEW h \in Editors, BeginRevision(h) PROVE SessionsTyped'
  <2>1. PICK previous \in GetLatest \ {NoRow} :
          session' = [session EXCEPT ![h] = [at |-> "revising", previous |-> previous]]
    BY <1>6 DEF BeginRevision
  <2>2. previous \in DOMAIN datasets'
    BY <1>6, LatestIsARow DEF BeginRevision
  <2> QED
    BY <1>3, <1>4, <2>1, <2>2 DEF Revising
<1>7. ASSUME NEW h \in Editors, CommitRevision(h) PROVE SessionsTyped'
  BY <1>3, <1>4, <1>7 DEF CommitRevision
<1>8. ASSUME NEW h \in Executors, NEW j \in Jobs, Load(h, j) PROVE SessionsTyped'
  <2>1. /\ session' = [session EXCEPT ![h] = [at |-> "loaded", job |-> j, seen |-> "SCHEDULED"]]
        /\ jobs'[j] # NoJob
    BY <1>8 DEF Load, Loaded, NoJob
  <2> QED
    BY <1>3, <1>4, <2>1 DEF Executing
<1>9. ASSUME NEW h \in Executors, Start(h) PROVE SessionsTyped'
  <2>1. session' = [session EXCEPT ![h] = [at |-> "running", job |-> session[h].job]]
    BY <1>9 DEF Start
  <2>2. session[h].job \in Jobs /\ jobs'[session[h].job] # NoJob
    BY <1>4, <1>9, Holding, JobsStep DEF Start, Typed
  <2> QED
    BY <1>3, <1>4, <2>1, <2>2 DEF Executing
<1>10. ASSUME NEW h \in Executors, ReadLatest(h) PROVE SessionsTyped'
  <2> DEFINE j == session[h].job
  <2>1. PICK v \in Verdicts(h, {"READY"}), previous \in GetLatest :
          session' = [session EXCEPT ![h] = [at |-> "cataloguing", job |-> j,
                                             verdict |-> v, previous |-> previous]]
    BY <1>10 DEF ReadLatest
  <2>2. j \in Jobs /\ jobs[j] # NoJob /\ jobs' = jobs /\ datasets' = datasets
    BY <1>4, <1>10, Holding DEF ReadLatest, Typed
  <2>3. jobs[j].request \in Requests[j]
    BY <2>2 DEF Typed, JobsTyped, JobRow
  <2>4. v \in Process(jobs[j].request) /\ v.kind = "READY"
    BY <2>2, <2>3 DEF Verdicts, Processed
  <2>5. previous \in {NoRow} \cup DOMAIN datasets
    BY LatestIsARow
  <2> HIDE DEF j
  <2> QED
    BY <1>3, <1>4, <2>1, <2>2, <2>4, <2>5 DEF Executing
<1>11. ASSUME NEW h \in Executors, Escape(h) \/ Fail(h) \/ CommitDataset(h) \/ Die(h)
       PROVE  SessionsTyped'
  BY <1>3, <1>4, <1>11 DEF Escape, Fail, CommitDataset, Die
<1> QED
  BY <1>5, <1>6, <1>7, <1>8, <1>9, <1>10, <1>11
  DEF Next, vars, Schedule, CatalogDataset, Execute

LEMMA TypedStep == Typed /\ [Next]_vars => Typed'
<1> SUFFICES ASSUME Typed, [Next]_vars PROVE Typed'
  OBVIOUS
<1>1. Executors \subseteq Holder
  BY DEF Holder
<1>2. HistoryTyped'
  <2>1. HistoryTyped
    BY DEF Typed
  <2>2. \A h \in Executors : session[h].at \in {"loaded", "running", "cataloguing"} => session[h].job \in Jobs
    BY <1>1, Holding DEF Typed
  <2> QED
    BY <2>1, <2>2
    DEF HistoryTyped, Next, vars, Schedule, CatalogDataset, BeginRevision, CommitRevision, Load,
        Execute, Start, Escape, Fail, ReadLatest, CommitDataset, Die
<1> QED
  BY <1>2, JobsStep, DatasetsStep, SessionsStep DEF Typed

-----------------------------------------------------------------------------
(* The chain of versions *)

(* In a chain the latest row is the last one, or none of none. *)
LEMMA LatestOfChain ==
    ASSUME Typed, CatalogueChain, ~forked
    PROVE  /\ GetLatest = {Len(datasets)}
           /\ CataloguedRows = {} => Len(datasets) = NoRow
<1>1. /\ Len(datasets) \in Nat /\ DOMAIN datasets = 1..Len(datasets)
      /\ \A i \in DOMAIN datasets :
            datasets[i].status = IF i = Len(datasets) THEN "CATALOGUED" ELSE "SUPERSEDED"
      /\ \A i \in DOMAIN datasets : datasets[i].version = i
  BY DEF Typed, DatasetsTyped, CatalogueChain
<1>2. CataloguedRows = {i \in 1..Len(datasets) : i = Len(datasets)}
  BY <1>1 DEF CataloguedRows
<1>3. CASE Len(datasets) = 0
  <2>1. CataloguedRows = {}
    BY <1>2, <1>3
  <2> QED
    BY <1>3, <2>1 DEF GetLatest, NoRow
<1>4. CASE Len(datasets) > 0
  <2>1. CataloguedRows = {Len(datasets)} /\ Len(datasets) \in DOMAIN datasets
    BY <1>1, <1>2, <1>4
  <2>2. GetLatest = {Len(datasets)}
    BY <1>1, <2>1 DEF GetLatest
  <2> QED
    BY <2>1, <2>2
<1> QED
  BY <1>1, <1>3, <1>4

LEMMA ChainGrows ==
    ASSUME Typed, CatalogueChain, ~forked, NEW previous \in GetLatest,
           NEW by \in Jobs \cup {"editor"}, NEW d, d = CatalogueOrRevise(previous, by)
    PROVE  \A i \in DOMAIN d :
              /\ d[i].version = i
              /\ d[i].status = IF i = Len(d) THEN "CATALOGUED" ELSE "SUPERSEDED"
<1>1. previous = Len(datasets) /\ previous \in {NoRow} \cup DOMAIN datasets
  BY LatestOfChain, LatestIsARow
<1>2. /\ Len(d) = Len(datasets) + 1
      /\ DOMAIN d = 1..(Len(datasets) + 1)
      /\ \A i \in DOMAIN datasets :
            d[i] = IF i = previous THEN [datasets[i] EXCEPT !.status = "SUPERSEDED"]
                   ELSE datasets[i]
      /\ d[Len(d)] = [version |-> IF previous = NoRow THEN 1
                                  ELSE datasets[previous].version + 1,
                      status |-> "CATALOGUED", by |-> by]
  BY <1>1, Grown DEF Typed
<1>3. /\ Len(datasets) \in Nat /\ DOMAIN datasets = 1..Len(datasets)
      /\ \A i \in DOMAIN datasets :
            /\ datasets[i] \in DatasetRow
            /\ datasets[i].version = i
            /\ datasets[i].status = IF i = Len(datasets) THEN "CATALOGUED" ELSE "SUPERSEDED"
  BY DEF Typed, DatasetsTyped, CatalogueChain
<1>4. ASSUME NEW i \in 1..Len(datasets)
      PROVE  d[i].version = i /\ d[i].status = "SUPERSEDED"
  <2>1. CASE i = previous
    <3>1. d[i] = [datasets[i] EXCEPT !.status = "SUPERSEDED"]
      BY <1>2, <1>3, <2>1
    <3>2. datasets[i] \in DatasetRow /\ datasets[i].version = i
      BY <1>3
    <3> QED
      BY <3>1, <3>2 DEF DatasetRow
  <2>2. CASE i # previous
    BY <1>1, <1>2, <1>3, <2>2
  <2> QED
    BY <2>1, <2>2
<1>5. d[Len(d)].version = Len(d) /\ d[Len(d)].status = "CATALOGUED"
  <2>1. CASE previous = NoRow
    <3>1. d[Len(d)] = [version |-> 1, status |-> "CATALOGUED", by |-> by]
      BY <1>2, <2>1
    <3>2. Len(d) = 1
      BY <1>1, <1>2, <2>1 DEF NoRow
    <3> QED
      BY <3>1, <3>2
  <2>2. CASE previous # NoRow
    BY <1>1, <1>2, <1>3, <2>2
  <2> QED
    BY <2>1, <2>2
<1> QED
  BY <1>2, <1>3, <1>4, <1>5

LEMMA ChainStep == Typed /\ CatalogueChain /\ [Next]_vars => CatalogueChain'
<1> SUFFICES ASSUME Typed, CatalogueChain, [Next]_vars, ~forked' PROVE CatalogueChain'
  BY DEF CatalogueChain
<1>1. ASSUME ~forked, NEW previous \in GetLatest, NEW by \in Jobs \cup {"editor"},
             datasets' = CatalogueOrRevise(previous, by)
      PROVE  CatalogueChain'
  BY <1>1, ChainGrows DEF CatalogueChain
<1>2. Executors \subseteq Holder /\ Editors \subseteq Holder
  BY DEF Holder
<1>3. CASE UNCHANGED <<datasets, forked>>
  BY <1>3 DEF CatalogueChain
<1>4. CASE CatalogDataset
  BY <1>1, <1>4 DEF CatalogDataset, CatalogueOrRevise, GetLatest
<1>5. ASSUME NEW h \in Editors, CommitRevision(h) PROVE CatalogueChain'
  <2>1. session[h].previous \in DOMAIN datasets /\ session[h].previous # NoRow
    BY <1>2, <1>5, Holding DEF CommitRevision, Typed, DatasetsTyped, NoRow
  <2> QED
    BY <1>1, <1>5, <2>1 DEF CommitRevision, CatalogueOrRevise, Stale
<1>6. ASSUME NEW h \in Executors, CommitDataset(h) PROVE CatalogueChain'
  BY <1>1, <1>2, <1>6, Holding DEF CommitDataset, Typed, Stale
<1> QED
  BY <1>3, <1>4, <1>5, <1>6
  DEF Next, vars, Schedule, BeginRevision, Load, Execute, Start, Escape, Fail, ReadLatest, Die

-----------------------------------------------------------------------------
(* One executor runs a job *)

(* A job is uncontested after a start when the copy was up to date. *)
LEMMA FreshStart ==
    ASSUME Typed, NEW h \in Executors, Start(h), session[h].job \notin contested'
    PROVE  /\ session[h].job \notin contested
           /\ jobs[session[h].job].status = "SCHEDULED"
<1>1. session[h].at = "loaded" /\ session[h].seen = "SCHEDULED"
  BY Holding DEF Start, Typed, Holder
<1> QED
  BY <1>1 DEF Start

(* Only a start makes an executor run a job. *)
LEMMA RunsMove ==
    ASSUME Typed, [Next]_vars, NEW g \in Executors, NEW j, Runs(g, j)'
    PROVE  Runs(g, j) \/ (Start(g) /\ session[g].job = j)
<1>1. session = [h \in Holder |-> session[h]] /\ g \in Holder
  BY DEF Typed, SessionsTyped, Holder
<1>2. Idle.at = "idle"
  BY DEF Idle
<1>3. CASE UNCHANGED session
  BY <1>3 DEF Runs
<1>4. ASSUME NEW h \in Editors, BeginRevision(h) \/ CommitRevision(h) PROVE Runs(g, j)
  BY <1>1, <1>4 DEF BeginRevision, CommitRevision, Runs
<1>5. ASSUME NEW h \in Executors, NEW k, Load(h, k) PROVE Runs(g, j)
  BY <1>1, <1>5 DEF Load, Loaded, Runs
<1>6. ASSUME NEW h \in Executors, Start(h) PROVE Runs(g, j) \/ (Start(g) /\ session[g].job = j)
  BY <1>1, <1>6 DEF Start, Runs
<1>7. ASSUME NEW h \in Executors, ReadLatest(h) PROVE Runs(g, j)
  BY <1>1, <1>7 DEF ReadLatest, Runs
<1>8. ASSUME NEW h \in Executors, Escape(h) \/ Fail(h) \/ CommitDataset(h) \/ Die(h) PROVE Runs(g, j)
  BY <1>1, <1>2, <1>8 DEF Escape, Fail, CommitDataset, Die, Runs
<1> QED
  BY <1>3, <1>4, <1>5, <1>6, <1>7, <1>8 DEF Next, vars, Schedule, CatalogDataset, Execute

LEMMA ContestedGrows == [Next]_vars => contested \subseteq contested'
  BY DEF Next, vars, Schedule, CatalogDataset, BeginRevision, CommitRevision, Load, Execute,
         Start, Escape, Fail, ReadLatest, CommitDataset, Die

LEMMA OneRunnerStep == Typed /\ OneRunner /\ [Next]_vars => OneRunner'
<1> SUFFICES ASSUME Typed, OneRunner, [Next]_vars, NEW j \in Jobs \ contested'
             PROVE  /\ \A h \in Executors : Runs(h, j)' => jobs'[j].status = "RUNNING"
                    /\ \A h, g \in Executors : Runs(h, j)' /\ Runs(g, j)' => h = g
  BY DEF OneRunner
<1>1. /\ j \notin contested
      /\ \A h \in Executors : Runs(h, j) => jobs[j].status = "RUNNING"
      /\ \A h, g \in Executors : Runs(h, j) /\ Runs(g, j) => h = g
  BY ContestedGrows DEF OneRunner
<1>2. CASE \E h \in Executors : Start(h) /\ session[h].job = j
  <2>1. PICK h \in Executors : Start(h) /\ session[h].job = j
    BY <1>2
  <2>2. \A g \in Executors : ~Runs(g, j)
    BY <1>1, <2>1, FreshStart
  <2>3. \A g \in Executors : g # h => ~Start(g)
    <3>1. session = [g \in Holder |-> session[g]] /\ Executors \subseteq Holder
      BY DEF Typed, SessionsTyped, Holder
    <3> QED
      BY <2>1, <3>1 DEF Start
  <2>4. jobs'[j].status = "RUNNING"
    <3>1. jobs[j] \in JobRow(j) /\ jobs = [k \in Jobs |-> jobs[k]]
      BY <2>1, Holding DEF Start, Typed, JobsTyped, Holder
    <3> QED
      BY <2>1, <3>1, StatusSet DEF Start, AcquisitionJobStatus
  <2> QED
    BY <2>2, <2>3, <2>4, RunsMove
<1>3. CASE ~\E h \in Executors : Start(h) /\ session[h].job = j
  <2>1. \A h \in Executors : Runs(h, j)' => Runs(h, j)
    BY <1>3, RunsMove
  <2> SUFFICES ASSUME NEW g \in Executors, Runs(g, j)'
               PROVE  jobs'[j].status = "RUNNING"
    BY <1>1, <2>1
  <2>2. Runs(g, j) /\ jobs[j].status = "RUNNING"
    BY <1>1, <2>1
  <2>3. ~Schedule(j)
    BY <2>2 DEF Schedule, NoJob
  <2>4. ASSUME NEW h \in Executors, session[h].job = j, Fail(h) \/ CommitDataset(h)
        PROVE  FALSE
    <3>1. h = g
      BY <1>1, <2>2, <2>4 DEF Fail, CommitDataset, Runs
    <3>2. session'[h] = Idle
      BY <2>4 DEF Fail, CommitDataset, Typed, SessionsTyped, Holder
    <3> QED
      BY <3>1, <3>2 DEF Runs, Idle
  <2>5. jobs'[j] = jobs[j]
    BY <1>3, <2>3, <2>4, JobsMove DEF JobStep
  <2> QED
    BY <2>2, <2>5
<1> QED
  BY <1>2, <1>3

(* What a step does to the row of an uncontested job. *)
LEMMA CleanStep ==
    ASSUME Typed, OneRunner, [Next]_vars, NEW j \in Jobs \ contested'
    PROVE  /\ j \notin contested
           /\ \/ jobs'[j] = jobs[j]
              \/ jobs[j] = NoJob /\ \E r \in Requests[j] : jobs'[j] = ScheduledJob(r)
              \/ /\ jobs[j] \in JobRow(j) /\ jobs[j].status = "SCHEDULED"
                 /\ jobs'[j] = [jobs[j] EXCEPT !.status = "RUNNING"]
              \/ /\ jobs[j] \in JobRow(j) /\ jobs[j].status = "RUNNING"
                 /\ jobs'[j] = [jobs[j] EXCEPT !.status = "FAILED"]
              \/ /\ jobs[j] \in JobRow(j) /\ jobs[j].status = "RUNNING"
                 /\ \E h \in Executors :
                       /\ CommitDataset(h) /\ session[h].job = j
                       /\ jobs'[j] = Completed(jobs[j], Len(datasets'), session[h].verdict)
<1>1. j \notin contested
  BY ContestedGrows
<1>2. ASSUME Schedule(j)
      PROVE  jobs[j] = NoJob /\ \E r \in Requests[j] : jobs'[j] = ScheduledJob(r)
  BY <1>2 DEF Schedule, Typed, JobsTyped
<1>3. ASSUME NEW h \in Executors, session[h].job = j, Start(h) \/ Fail(h) \/ CommitDataset(h)
      PROVE  /\ jobs[j] \in JobRow(j)
             /\ Start(h) => jobs[j].status = "SCHEDULED"
             /\ Fail(h) \/ CommitDataset(h) => jobs[j].status = "RUNNING"
  <2>1. jobs[j] \in JobRow(j)
    BY <1>3, Holding DEF Start, Fail, CommitDataset, Typed, JobsTyped, Holder
  <2>2. Fail(h) \/ CommitDataset(h) => Runs(h, j)
    BY <1>3 DEF Fail, CommitDataset, Runs
  <2> QED
    BY <1>1, <1>3, <2>1, <2>2, FreshStart DEF OneRunner
<1> QED
  BY <1>1, <1>2, <1>3, JobsMove DEF JobStep

-----------------------------------------------------------------------------
(* Jobs and their datasets *)

LEMMA ScheduledRow ==
    ASSUME NEW r, NEW x, x = ScheduledJob(r)
    PROVE  x.status = "SCHEDULED" /\ x.applied = {} /\ x.features = NoFeatures
  BY DEF ScheduledJob

LEMMA UntouchedStep == Typed /\ OneRunner /\ Untouched /\ [Next]_vars => Untouched'
<1> SUFFICES ASSUME Typed, OneRunner, Untouched, [Next]_vars, NEW j \in Jobs \ contested',
                    jobs'[j] # NoJob, jobs'[j].status # "COMPLETED"
             PROVE  jobs'[j].applied = {} /\ jobs'[j].features = NoFeatures
  BY DEF Untouched
<1>1. j \notin contested
      /\ (jobs[j] # NoJob /\ jobs[j].status # "COMPLETED" =>
             jobs[j].applied = {} /\ jobs[j].features = NoFeatures)
  BY CleanStep DEF Untouched
<1>2. CASE jobs'[j] = jobs[j]
  BY <1>1, <1>2
<1>3. CASE \E r \in Requests[j] : jobs'[j] = ScheduledJob(r)
  BY <1>3, ScheduledRow
<1>4. CASE /\ jobs[j] \in JobRow(j) /\ jobs[j].status \in {"SCHEDULED", "RUNNING"}
           /\ \/ jobs'[j] = [jobs[j] EXCEPT !.status = "RUNNING"]
              \/ jobs'[j] = [jobs[j] EXCEPT !.status = "FAILED"]
  BY <1>1, <1>4, StatusSet, NoJobIsNoRow DEF AcquisitionJobStatus
<1>5. ASSUME NEW h \in Executors, CommitDataset(h), session[h].job = j,
             jobs'[j] = Completed(jobs[j], Len(datasets'), session[h].verdict),
             jobs[j] \in JobRow(j)
      PROVE  FALSE
  BY <1>5 DEF Completed, JobRow
<1> QED
  BY <1>2, <1>3, <1>4, <1>5, CleanStep

(* What the second commit of an executor leaves of an uncontested job. *)
LEMMA CommittedRow ==
    ASSUME Typed, Untouched, NEW h \in Executors, CommitDataset(h),
           NEW j \in Jobs \ contested, session[h].job = j, jobs[j].status = "RUNNING",
           NEW y, y = Completed(jobs[j], Len(datasets'), session[h].verdict)
    PROVE  /\ y.status = "COMPLETED" /\ y.request = jobs[j].request
           /\ y.dataset = Len(datasets')
           /\ y.request.source # NoSource => Honest(y.request, y.features)
<1>1. /\ jobs[j] # NoJob
      /\ session[h].verdict \in Process(jobs[j].request)
      /\ session[h].verdict.kind = "READY"
  BY Holding DEF CommitDataset, Typed, Holder
<1>2. /\ jobs[j] \in JobRow(j)
      /\ Schedulable(jobs[j].request)
      /\ jobs[j].applied \subseteq jobs[j].request.steps
      /\ jobs[j].features = NoFeatures
  BY <1>1 DEF Typed, JobsTyped, Untouched
<1>3. Len(datasets') \in Nat
  <2>1. PICK previous \in {NoRow} \cup DOMAIN datasets, by \in Jobs \cup {"editor"} :
            datasets' = CatalogueOrRevise(previous, by)
    BY CommitGrows DEF Holder
  <2>2. datasets' \in Seq(DatasetRow)
    BY <2>1, GrownDatasets DEF Typed
  <2> QED
    BY <2>2
<1>4. /\ y.status = "COMPLETED" /\ y.request = jobs[j].request
      /\ y.dataset = Len(datasets')
      /\ y.features = session[h].verdict.features
  BY <1>1, <1>2, <1>3, CompletedRow
<1>5. jobs[j].request \in Request
  BY <1>2, AcquisitionAssumption DEF JobRow
<1> QED
  BY <1>1, <1>2, <1>4, <1>5, ProcessVerdicts

LEMMA AccountedStep == Typed /\ OneRunner /\ Untouched /\ Accounted /\ [Next]_vars => Accounted'
<1> SUFFICES ASSUME Typed, OneRunner, Untouched, Accounted, [Next]_vars, NEW j \in Jobs \ contested',
                    jobs'[j].status = "COMPLETED", jobs'[j].request.source # NoSource
             PROVE  Honest(jobs'[j].request, jobs'[j].features)
  BY DEF Accounted
<1>1. j \notin contested
  BY CleanStep
<1>2. CASE jobs'[j] = jobs[j]
  BY <1>1, <1>2 DEF Accounted
<1>3. CASE \E r \in Requests[j] : jobs'[j] = ScheduledJob(r)
  BY <1>3, ScheduledRow
<1>4. CASE /\ jobs[j] \in JobRow(j)
           /\ \/ jobs'[j] = [jobs[j] EXCEPT !.status = "RUNNING"]
              \/ jobs'[j] = [jobs[j] EXCEPT !.status = "FAILED"]
  BY <1>4, StatusSet DEF AcquisitionJobStatus
<1>5. ASSUME NEW h \in Executors, CommitDataset(h), session[h].job = j,
             jobs'[j] = Completed(jobs[j], Len(datasets'), session[h].verdict),
             jobs[j].status = "RUNNING"
      PROVE  Honest(jobs'[j].request, jobs'[j].features)
  BY <1>1, <1>5, CommittedRow
<1> QED
  BY <1>2, <1>3, <1>4, <1>5, CleanStep

(* The rows that carry the name of a job. *)
Rows(j) == {i \in DOMAIN datasets : datasets[i].by = j}

LEMMA RowsGrow ==
    ASSUME Typed, NEW previous \in {NoRow} \cup DOMAIN datasets, NEW by \in Jobs \cup {"editor"},
           datasets' = CatalogueOrRevise(previous, by), NEW j
    PROVE  Rows(j)' = IF by = j THEN Rows(j) \cup {Len(datasets')} ELSE Rows(j)
<1>1. /\ Len(datasets') = Len(datasets) + 1
      /\ DOMAIN datasets' = 1..(Len(datasets) + 1)
      /\ \A i \in DOMAIN datasets :
            datasets'[i] = IF i = previous THEN [datasets[i] EXCEPT !.status = "SUPERSEDED"]
                           ELSE datasets[i]
      /\ datasets'[Len(datasets')] = [version |-> IF previous = NoRow THEN 1
                                                  ELSE datasets[previous].version + 1,
                                      status |-> "CATALOGUED", by |-> by]
  BY GrownDatasets DEF Typed
<1>2. /\ Len(datasets) \in Nat /\ DOMAIN datasets = 1..Len(datasets)
      /\ \A i \in DOMAIN datasets : datasets[i] \in DatasetRow
  BY DEF Typed, DatasetsTyped
<1>3. \A i \in DOMAIN datasets : datasets'[i].by = datasets[i].by
  BY <1>1, <1>2 DEF DatasetRow
<1>4. \A i : i \in DOMAIN datasets' <=> i \in DOMAIN datasets \/ i = Len(datasets')
  BY <1>1, <1>2
<1> QED
  BY <1>1, <1>3, <1>4 DEF Rows

LEMMA MatchStep == Typed /\ OneRunner /\ Untouched /\ NoOrphanDatasets /\ [Next]_vars => NoOrphanDatasets'
<1> SUFFICES ASSUME Typed, OneRunner, Untouched, NoOrphanDatasets, [Next]_vars,
                    NEW j \in Jobs \ contested'
             PROVE  Rows(j)' = IF jobs'[j].status = "COMPLETED" THEN {jobs'[j].dataset} ELSE {}
  BY DEF NoOrphanDatasets, Rows
<1>1. /\ j \notin contested /\ j # "editor"
      /\ Rows(j) = IF jobs[j].status = "COMPLETED" THEN {jobs[j].dataset} ELSE {}
  <2>1. j \in Jobs \ contested
    BY CleanStep
  <2>2. {i \in DOMAIN datasets : datasets[i].by = j}
            = IF jobs[j].status = "COMPLETED" THEN {jobs[j].dataset} ELSE {}
    BY <2>1 DEF NoOrphanDatasets
  <2> QED
    BY <2>1, <2>2, AcquisitionAssumption DEF Rows
<1>2. Executors \subseteq Holder /\ Editors \subseteq Holder
  BY DEF Holder
<1>3. ASSUME NEW h \in Executors, CommitDataset(h), session[h].job = j
      PROVE  Rows(j)' = IF jobs'[j].status = "COMPLETED" THEN {jobs'[j].dataset} ELSE {}
  <2>1. Runs(h, j) /\ jobs[j].status = "RUNNING"
    BY <1>1, <1>3 DEF CommitDataset, Runs, OneRunner
  <2>2. Rows(j)' = Rows(j) \cup {Len(datasets')}
    <3>1. /\ session[h].previous \in {NoRow} \cup DOMAIN datasets
          /\ datasets' = CatalogueOrRevise(session[h].previous, j)
      BY <1>2, <1>3, Holding DEF CommitDataset, Typed
    <3> QED
      BY <3>1, RowsGrow
  <2>3. jobs'[j] = Completed(jobs[j], Len(datasets'), session[h].verdict)
    BY <1>3 DEF CommitDataset, Typed, JobsTyped
  <2> QED
    BY <1>1, <1>3, <2>1, <2>2, <2>3, CommittedRow
<1>4. CASE ~\E h \in Executors : CommitDataset(h) /\ session[h].job = j
  <2>1. Rows(j)' = Rows(j)
    <3>1. CASE UNCHANGED datasets
      BY <3>1 DEF Rows
    <3>2. CASE CatalogDataset
      <4>1. datasets' = CatalogueOrRevise(NoRow, "editor")
        BY <3>2 DEF CatalogDataset, CatalogueOrRevise
      <4> QED
        BY <1>1, <4>1, RowsGrow
    <3>3. ASSUME NEW h \in Editors, CommitRevision(h) PROVE Rows(j)' = Rows(j)
      <4>1. session[h].previous \in DOMAIN datasets /\ session[h].previous # NoRow
        BY <1>2, <3>3, Holding DEF CommitRevision, Typed, DatasetsTyped, NoRow
      <4>2. datasets' = CatalogueOrRevise(session[h].previous, "editor")
        BY <3>3, <4>1 DEF CommitRevision, CatalogueOrRevise
      <4> QED
        BY <1>1, <4>1, <4>2, RowsGrow
    <3>4. ASSUME NEW h \in Executors, CommitDataset(h) PROVE Rows(j)' = Rows(j)
      <4>1. /\ session[h].previous \in {NoRow} \cup DOMAIN datasets
            /\ session[h].job \in Jobs /\ session[h].job # j
            /\ datasets' = CatalogueOrRevise(session[h].previous, session[h].job)
        BY <1>2, <1>4, <3>4, Holding DEF CommitDataset, Typed
      <4> QED
        BY <4>1, RowsGrow
    <3> QED
      BY <3>1, <3>2, <3>3, <3>4
      DEF Next, vars, Schedule, BeginRevision, Load, Execute, Start, Escape, Fail, ReadLatest, Die
  <2>2. CASE jobs'[j] = jobs[j]
    BY <1>1, <2>1, <2>2
  <2>3. CASE jobs[j] = NoJob /\ \E r \in Requests[j] : jobs'[j] = ScheduledJob(r)
    BY <1>1, <2>1, <2>3, ScheduledRow DEF NoJob
  <2>4. CASE /\ jobs[j] \in JobRow(j) /\ jobs[j].status \in {"SCHEDULED", "RUNNING"}
             /\ \/ jobs'[j] = [jobs[j] EXCEPT !.status = "RUNNING"]
                \/ jobs'[j] = [jobs[j] EXCEPT !.status = "FAILED"]
    BY <1>1, <2>1, <2>4, StatusSet DEF AcquisitionJobStatus
  <2> QED
    BY <1>4, <2>2, <2>3, <2>4, CleanStep
<1> QED
  BY <1>3, <1>4

-----------------------------------------------------------------------------
LEMMA InitIInv == Init => IInv
<1> SUFFICES ASSUME Init PROVE IInv
  OBVIOUS
<1> USE DEF Init
<1>1. NoJob.status = "NONE" /\ Idle.at = "idle"
  BY DEF NoJob, Idle
<1>2. datasets \in Seq(DatasetRow) /\ DOMAIN datasets = {}
  OBVIOUS
<1>3. Typed
  BY <1>2 DEF Typed, JobsTyped, DatasetsTyped, SessionsTyped, HistoryTyped
<1>4. CatalogueChain
  BY <1>2 DEF CatalogueChain
<1>5. OneRunner
  BY <1>1 DEF OneRunner, Runs, Holder
<1>6. Untouched /\ NoOrphanDatasets /\ Accounted
  BY <1>1, <1>2 DEF Untouched, NoOrphanDatasets, Accounted
<1> QED
  BY <1>3, <1>4, <1>5, <1>6 DEF IInv

LEMMA NextIInv == IInv /\ [Next]_vars => IInv'
  BY TypedStep, ChainStep, OneRunnerStep, UntouchedStep, MatchStep, AccountedStep DEF IInv

LEMMA Invariance == Spec => []IInv
  BY InitIInv, NextIInv, PTL DEF Spec

(* The versions of a dataset stay one chain 1, 2, 3, ... with only the     *)
(* newest CATALOGUED, for any number of jobs, executors, editors and       *)
(* crashes, as long as no commit used a stale latest row and nobody        *)
(* catalogued an existing name (CatalogDatasetHandler, ReviseDatasetHandler *)
(* and the second transaction of ExecuteAcquisitionJobHandler).            *)
THEOREM CatalogueSound == Spec => []CatalogueIsSound
<1>1. IInv => CatalogueIsSound
  <2> SUFFICES ASSUME IInv PROVE TypeOK
    BY DEF IInv, CatalogueIsSound
  <2>1. \A i \in DOMAIN datasets : datasets[i] \in DatasetRow /\ datasets[i].version <= Len(datasets)
    BY DEF IInv, Typed, DatasetsTyped
  <2>2. ASSUME NEW h \in Holder
        PROVE  session[h].at \in {"idle", "revising", "done", "loaded", "running", "cataloguing"}
    <3>1. session[h] = Idle \/ session[h] = [at |-> "done"] \/ Revising(h) \/ Executing(h)
      BY DEF IInv, Typed, SessionsTyped
    <3>2. CASE Executing(h)
      <4>1. PICK j \in Jobs :
              \/ session[h] = [at |-> "loaded", job |-> j, seen |-> "SCHEDULED"]
              \/ session[h] = [at |-> "running", job |-> j]
              \/ \E v, previous : session[h] = [at |-> "cataloguing", job |-> j,
                                               verdict |-> v, previous |-> previous]
        BY <3>2 DEF Executing
      <4>2. CASE session[h] = [at |-> "loaded", job |-> j, seen |-> "SCHEDULED"]
        BY <4>2
      <4>3. CASE session[h] = [at |-> "running", job |-> j]
        BY <4>3
      <4>4. CASE \E v, previous : session[h] = [at |-> "cataloguing", job |-> j,
                                                verdict |-> v, previous |-> previous]
        BY <4>4
      <4> QED
        BY <4>1, <4>2, <4>3, <4>4
    <3>3. CASE session[h] = Idle \/ session[h] = [at |-> "done"]
      BY <3>3 DEF Idle
    <3>4. CASE Revising(h)
      BY <3>4 DEF Revising
    <3> QED
      BY <3>1, <3>2, <3>3, <3>4
  <2> QED
    BY <2>1, <2>2 DEF IInv, Typed, JobsTyped, HistoryTyped, TypeOK
<1> QED
  BY <1>1, Invariance, PTL

(* A job no stale executor restarted is COMPLETED exactly when one dataset *)
(* row carries its name, its features account for every requested index,   *)
(* and the shapefile parser always has content: the two commits of         *)
(* ExecuteAcquisitionJobHandler with any pipeline verdict and any crash     *)
(* between them.                                                           *)
THEOREM DatasetsBelongToJobs == Spec => []JobsMatchDatasets
<1>1. IInv => JobsMatchDatasets
  <2> SUFFICES ASSUME IInv PROVE HonestAccounting /\ ShapefileHasContent
    BY DEF IInv, JobsMatchDatasets
  <2>1. HonestAccounting
    BY DEF IInv, Accounted, Honest, HonestAccounting
  <2>2. ASSUME NEW h \in Executors, session[h].at = "running" PROVE Verdicts(h, {"ASSERT"}) = {}
    <3> DEFINE j == session[h].job
    <3>1. j \in Jobs /\ jobs[j] # NoJob
      BY <2>2, Holding DEF IInv, Typed, Holder
    <3>2. jobs[j] \in JobRow(j) /\ Schedulable(jobs[j].request)
      BY <3>1 DEF IInv, Typed, JobsTyped
    <3>3. jobs[j].request \in Requests[j] /\ jobs[j].request \in Request
      BY <3>1, <3>2, AcquisitionAssumption DEF JobRow
    <3>4. Processed[jobs[j].request] = Process(jobs[j].request)
      BY <3>1, <3>3 DEF Processed
    <3> QED
      BY <3>2, <3>3, <3>4, ProcessVerdicts DEF Verdicts
  <2> QED
    BY <2>1, <2>2 DEF ShapefileHasContent
<1> QED
  BY <1>1, Invariance, PTL

(* No step removes a version or changes more of one than CATALOGUED to     *)
(* SUPERSEDED, and a job only one executor started goes SCHEDULED, RUNNING *)
(* and then to one of COMPLETED and FAILED, for good.                      *)
THEOREM NothingGoesBack == Spec => RowsMoveForward
<1> DEFINE Versions == /\ Len(datasets') \in {Len(datasets), Len(datasets) + 1}
                       /\ \A i \in DOMAIN datasets :
                             \/ datasets'[i] = datasets[i]
                             \/ /\ datasets[i].status = "CATALOGUED"
                                /\ datasets'[i] = [datasets[i] EXCEPT !.status = "SUPERSEDED"]
           Forward == \A j \in Jobs \ contested' :
                         jobs'[j].status # jobs[j].status =>
                             <<jobs[j].status, jobs'[j].status>> \in
                                 {<<"NONE", "SCHEDULED">>, <<"SCHEDULED", "RUNNING">>,
                                  <<"RUNNING", "COMPLETED">>, <<"RUNNING", "FAILED">>}
<1>1. IInv /\ [Next]_vars => [Versions]_vars
  <2> SUFFICES ASSUME IInv, [Next]_vars PROVE Versions
    OBVIOUS
  <2>1. \A i \in DOMAIN datasets : datasets[i] \in DatasetRow
    BY DEF IInv, Typed, DatasetsTyped
  <2>2. CASE datasets' = datasets
    BY <2>2
  <2>3. ASSUME NEW previous \in {NoRow} \cup DOMAIN datasets, NEW by \in Jobs \cup {"editor"},
               datasets' = CatalogueOrRevise(previous, by)
        PROVE  Versions
    <3> HIDE DEF Versions, Forward
    <3>0. DatasetsTyped
      BY DEF IInv, Typed
    <3>1. /\ Len(datasets') = Len(datasets) + 1
          /\ \A i \in DOMAIN datasets :
                datasets'[i] = IF i = previous THEN [datasets[i] EXCEPT !.status = "SUPERSEDED"]
                               ELSE datasets[i]
      BY <2>3, <3>0, GrownDatasets
    <3>2. \A i \in DOMAIN datasets :
              datasets[i].status # "CATALOGUED" =>
                  [datasets[i] EXCEPT !.status = "SUPERSEDED"] = datasets[i]
      BY <2>1 DEF DatasetRow, DatasetStatus
    <3> QED
      BY <3>1, <3>2 DEF Versions
  <2> QED
    BY <2>2, <2>3, DatasetsStep DEF IInv
<1>2. IInv /\ [Next]_vars => [Forward]_vars
  <2> SUFFICES ASSUME IInv, [Next]_vars, NEW j \in Jobs \ contested',
                      jobs'[j].status # jobs[j].status
               PROVE  <<jobs[j].status, jobs'[j].status>> \in
                          {<<"NONE", "SCHEDULED">>, <<"SCHEDULED", "RUNNING">>,
                           <<"RUNNING", "COMPLETED">>, <<"RUNNING", "FAILED">>}
    OBVIOUS
  <2>1. Typed /\ OneRunner /\ Untouched /\ j \notin contested
    BY ContestedGrows DEF IInv
  <2>2. CASE jobs[j] = NoJob /\ \E r \in Requests[j] : jobs'[j] = ScheduledJob(r)
    BY <2>2, ScheduledRow DEF NoJob
  <2>3. CASE /\ jobs[j] \in JobRow(j) /\ jobs[j].status = "SCHEDULED"
             /\ jobs'[j] = [jobs[j] EXCEPT !.status = "RUNNING"]
    BY <2>3, StatusSet DEF AcquisitionJobStatus
  <2>4. CASE /\ jobs[j] \in JobRow(j) /\ jobs[j].status = "RUNNING"
             /\ jobs'[j] = [jobs[j] EXCEPT !.status = "FAILED"]
    BY <2>4, StatusSet DEF AcquisitionJobStatus
  <2>5. ASSUME jobs[j].status = "RUNNING", NEW h \in Executors,
               CommitDataset(h), session[h].job = j,
               jobs'[j] = Completed(jobs[j], Len(datasets'), session[h].verdict)
        PROVE  jobs'[j].status = "COMPLETED"
    BY <2>1, <2>5, CommittedRow
  <2> QED
    BY <2>1, <2>2, <2>3, <2>4, <2>5, CleanStep
<1> HIDE DEF Versions, Forward
<1>3. Spec => [][Versions]_vars
  BY <1>1, Invariance, PTL DEF Spec
<1>4. Spec => [][Forward]_vars
  BY <1>2, Invariance, PTL DEF Spec
<1> USE DEF Versions, Forward
<1>5. VersionsAreWriteOnce <=> [][Versions]_vars
  BY DEF VersionsAreWriteOnce
<1>6. JobMovesForward <=> [][Forward]_vars
  BY DEF JobMovesForward
<1> QED
  BY <1>3, <1>4, <1>5, <1>6 DEF RowsMoveForward
=============================================================================
