----------------------- MODULE TemplateAndResultProofs -----------------------
(***************************************************************************)
(* Proofs about the two ends of an assessment's work: the template its     *)
(* stages come from (WorkflowTemplate) and the rows they leave             *)
(* (AssessmentResults).                                                    *)
(*                                                                         *)
(* Templates: _validate_dag is correct for every set of stage types and    *)
(* every list of definitions; what it accepts can always go on, what it    *)
(* refuses as cyclic is cyclic.                                            *)
(*                                                                         *)
(* Results: for any number of requests, rows and selections.  ResultsInv   *)
(* says what each row and each request in flight holds of the tables;      *)
(* since tables only grow (Later), what a request has read stays true      *)
(* until it commits.  The tables implement a VersionedLog without gaps.    *)
(***************************************************************************)
EXTENDS WorkflowTemplate, AssessmentResults,
        SequenceTheorems, FiniteSetTheorems, WellFoundedInduction, TLAPS

(* Templates: how far _validate_dag has come *)

\* Every key of the dict stands for a definition of the list, and outside of
\* "building" no predecessor is unknown.
GraphFromDefinitions ==
    /\ known = {sd.stage_type : sd \in stage_definitions}
    /\ \A st \in known :
          [stage_type |-> st, required_predecessors |-> graph[st]] \in stage_definitions

PredecessorsKnown ==
    phase \in {"resolving", "created", "published", "cyclic"} =>
        \A st \in known : graph[st] \subseteq known

\* The keys are split into resolved and remaining ones.
Partition ==
    phase \in {"resolving", "created", "published", "cyclic"} =>
        /\ resolved = known \ remaining
        /\ todo \subseteq remaining

\* Kahn's order: no set of stages holds back all the resolved ones.
ResolvedInOrder ==
    \A done \in SUBSET known :
        resolved \subseteq done \/ \E st \in resolved \ done : graph[st] \subseteq done

\* A pass that has resolved nothing so far has visited only blocked stages.
BlockedWhenIdle ==
    phase = "resolving" /\ ~progressed =>
        \A st \in remaining \ todo : ~CanResolve(st)

Verdict ==
    /\ phase \in {"created", "published"} => resolved = known
    /\ phase = "cyclic" =>
          /\ remaining # {}
          /\ \A st \in remaining : ~CanResolve(st)
    /\ phase \notin {"resolving", "created", "published", "cyclic"} =>
          resolved = {} /\ remaining = {} /\ todo = {}

TemplateInv ==
    /\ TemplateTypeOK
    /\ GraphFromDefinitions
    /\ PredecessorsKnown
    /\ Partition
    /\ ResolvedInOrder
    /\ BlockedWhenIdle
    /\ Verdict

(* The initial state satisfies the inductive invariant. *)
LEMMA TemplateStart == TemplateInit => TemplateInv
  BY DEF TemplateInit, TemplateInv, TemplateTypeOK, GraphFromDefinitions, PredecessorsKnown, Partition,
         ResolvedInOrder, BlockedWhenIdle, Verdict, known, CanResolve, StageDefinition, Phase

(* Growing the list keeps the dict in step with it. *)
LEMMA AddDefinitionInv ==
    ASSUME TemplateInv, NEW sd \in StageDefinition, AddDefinition(sd)
    PROVE  TemplateInv'
<1> USE DEF AddDefinition, loopVars
<1>1. /\ known' = known \cup {sd.stage_type}
      /\ known \subseteq StageType
      /\ sd.stage_type \in StageType
      /\ sd.required_predecessors \in SUBSET StageType
  BY DEF TemplateInv, TemplateTypeOK, known, StageDefinition
<1>2. \A st \in known' :
         graph'[st] = IF st = sd.stage_type THEN sd.required_predecessors ELSE graph[st]
  BY <1>1 DEF known
<1>3. TemplateTypeOK'
  <2>1. graph' \in [known' -> SUBSET StageType]
    BY <1>1, <1>2 DEF known, TemplateInv, TemplateTypeOK
  <2> QED
    BY <1>1, <2>1 DEF TemplateInv, TemplateTypeOK, StageDefinition
<1>4. GraphFromDefinitions'
  <2>1. known' = {d.stage_type : d \in stage_definitions'}
    BY <1>1 DEF TemplateInv, GraphFromDefinitions
  <2>2. ASSUME NEW st \in known'
        PROVE  [stage_type |-> st, required_predecessors |-> graph'[st]] \in stage_definitions'
    <3>1. CASE st = sd.stage_type
      <4>1. sd = [stage_type |-> sd.stage_type, required_predecessors |-> sd.required_predecessors]
        BY DEF StageDefinition
      <4> QED
        BY <3>1, <4>1, <1>2
    <3>2. CASE st # sd.stage_type
      BY <3>2, <1>1, <1>2 DEF TemplateInv, GraphFromDefinitions
    <3> QED
      BY <3>1, <3>2
  <2> QED
    BY <2>1, <2>2 DEF GraphFromDefinitions
<1>5. resolved = {} /\ resolved' = {}
  BY DEF TemplateInv, Verdict
<1> QED
  BY <1>3, <1>4, <1>5 DEF TemplateInv, PredecessorsKnown, Partition, ResolvedInOrder, BlockedWhenIdle, Verdict

(* The rejections before the loop change nothing the invariant speaks of. *)
LEMMA RejectInv ==
    ASSUME TemplateInv,
           \/ \E sd \in StageDefinition : RejectSelfDependency(sd)
           \/ RejectEmpty
           \/ RejectUnknownPredecessor
    PROVE  TemplateInv'
<1>1. /\ UNCHANGED <<stage_definitions, graph, loopVars>>
      /\ phase = "building"
      /\ phase' \in {"self_dependency", "empty", "unknown_predecessor"}
  BY DEF RejectSelfDependency, RejectEmpty, RejectUnknownPredecessor
<1>2. known' = known
  BY <1>1 DEF known
<1> QED
  BY <1>1, <1>2 DEF loopVars, TemplateInv, TemplateTypeOK, GraphFromDefinitions, PredecessorsKnown, Partition,
     ResolvedInOrder, BlockedWhenIdle, Verdict, Phase, CanResolve

(* Entering the loop: every predecessor is a key of the dict. *)
LEMMA BeginValidationInv ==
    ASSUME TemplateInv, BeginValidation
    PROVE  TemplateInv'
<1> USE DEF BeginValidation
<1>1. known' = known /\ graph' = graph
  BY DEF known
<1>2. \A st \in known : graph[st] \subseteq known
  <2> SUFFICES ASSUME NEW st \in known PROVE graph[st] \subseteq known
    OBVIOUS
  <2>1. [stage_type |-> st, required_predecessors |-> graph[st]] \in stage_definitions
    BY DEF TemplateInv, GraphFromDefinitions
  <2> QED
    BY <2>1 DEF HasUnknownPredecessor
<1> QED
  BY <1>1, <1>2 DEF TemplateInv, TemplateTypeOK, GraphFromDefinitions, PredecessorsKnown, Partition,
     ResolvedInOrder, BlockedWhenIdle, Verdict, Phase, CanResolve

(* A new pass has visited nothing yet. *)
LEMMA BeginPassInv ==
    ASSUME TemplateInv, BeginPass
    PROVE  TemplateInv'
<1>1. known' = known
  BY DEF BeginPass, known
<1> QED
  BY <1>1 DEF BeginPass, TemplateInv, TemplateTypeOK, GraphFromDefinitions, PredecessorsKnown, Partition,
     ResolvedInOrder, BlockedWhenIdle, Verdict, Phase, CanResolve

(* Resolving a stage keeps Kahn's order; passing over one leaves it blocked. *)
LEMMA VisitInv ==
    ASSUME TemplateInv, NEW st \in StageType, Visit(st)
    PROVE  TemplateInv'
<1>1. /\ known' = known /\ graph' = graph /\ phase' = phase /\ phase = "resolving"
      /\ st \in todo /\ todo' = todo \ {st}
      /\ stage_definitions' = stage_definitions
      /\ todo \subseteq remaining /\ remaining \subseteq known
      /\ resolved = known \ remaining
  BY DEF Visit, known, TemplateInv, TemplateTypeOK, Partition
<1>2. CASE /\ CanResolve(st)
           /\ resolved' = resolved \cup {st}
           /\ remaining' = remaining \ {st}
           /\ progressed' = TRUE
  <2>1. ResolvedInOrder'
    <3> SUFFICES ASSUME NEW done \in SUBSET known, ~(resolved' \subseteq done)
                 PROVE  \E s \in resolved' \ done : graph[s] \subseteq done
      BY <1>1 DEF ResolvedInOrder
    <3>1. CASE resolved \subseteq done
      BY <3>1, <1>2 DEF CanResolve
    <3>2. CASE ~(resolved \subseteq done)
      BY <3>2, <1>2 DEF TemplateInv, ResolvedInOrder
    <3> QED
      BY <3>1, <3>2
  <2>2. TemplateTypeOK' /\ GraphFromDefinitions' /\ PredecessorsKnown'
    BY <1>1, <1>2 DEF TemplateInv, TemplateTypeOK, GraphFromDefinitions, PredecessorsKnown
  <2>3. Partition' /\ BlockedWhenIdle' /\ Verdict'
    BY <1>1, <1>2 DEF TemplateInv, Partition, BlockedWhenIdle, Verdict
  <2> QED
    BY <2>1, <2>2, <2>3 DEF TemplateInv
<1>3. CASE /\ ~CanResolve(st)
           /\ UNCHANGED <<remaining, resolved, progressed>>
  <2>1. BlockedWhenIdle'
    BY <1>1, <1>3 DEF TemplateInv, BlockedWhenIdle, CanResolve
  <2>2. TemplateTypeOK' /\ GraphFromDefinitions' /\ PredecessorsKnown'
    BY <1>1, <1>3 DEF TemplateInv, TemplateTypeOK, GraphFromDefinitions, PredecessorsKnown
  <2>3. Partition' /\ ResolvedInOrder' /\ Verdict'
    BY <1>1, <1>3 DEF TemplateInv, Partition, ResolvedInOrder, Verdict
  <2> QED
    BY <2>1, <2>2, <2>3 DEF TemplateInv
<1> QED
  BY <1>2, <1>3 DEF Visit

(* The verdict follows from how the loop ended. *)
LEMMA EndValidationInv ==
    ASSUME TemplateInv, EndValidation
    PROVE  TemplateInv'
<1>1. known' = known /\ graph' = graph
  BY DEF EndValidation, known
<1>2. UNCHANGED <<stage_definitions, remaining, resolved, progressed, todo>>
  BY DEF EndValidation, loopVars
<1>3. CASE remaining = {}
  BY <1>1, <1>2, <1>3 DEF EndValidation, TemplateInv, TemplateTypeOK, GraphFromDefinitions, PredecessorsKnown,
     Partition, ResolvedInOrder, BlockedWhenIdle, Verdict, Phase, CanResolve
<1>4. CASE remaining # {}
  <2>1. \A st \in remaining : ~CanResolve(st)
    BY <1>4 DEF EndValidation, TemplateInv, BlockedWhenIdle, TemplateTypeOK
  <2> QED
    BY <1>1, <1>2, <1>4, <2>1 DEF EndValidation, TemplateInv, TemplateTypeOK, GraphFromDefinitions,
       PredecessorsKnown, Partition, ResolvedInOrder, BlockedWhenIdle, Verdict, Phase, CanResolve
<1> QED
  BY <1>3, <1>4

(* Every step preserves the inductive invariant. *)
LEMMA TemplateStep == TemplateInv /\ [TemplateNext]_templateVars => TemplateInv'
<1> SUFFICES ASSUME TemplateInv, [TemplateNext]_templateVars PROVE TemplateInv'
  OBVIOUS
<1>1. CASE Publish
  <2>1. known' = known
    BY <1>1 DEF Publish, known
  <2> QED
    BY <1>1, <2>1 DEF Publish, loopVars, TemplateInv, TemplateTypeOK, GraphFromDefinitions, PredecessorsKnown,
       Partition, ResolvedInOrder, BlockedWhenIdle, Verdict, Phase, CanResolve
<1>2. CASE UNCHANGED templateVars
  <2>1. known' = known
    BY <1>2 DEF templateVars, known
  <2> QED
    BY <1>2, <2>1 DEF templateVars, TemplateInv, TemplateTypeOK, GraphFromDefinitions, PredecessorsKnown, Partition,
       ResolvedInOrder, BlockedWhenIdle, Verdict, CanResolve
<1> QED
  BY <1>1, <1>2, AddDefinitionInv, RejectInv, BeginValidationInv, BeginPassInv, VisitInv,
     EndValidationInv DEF TemplateNext, Validation

(* The inductive invariant holds in every reachable state. *)
THEOREM TemplateInvariance == TemplateSpec => []TemplateInv
  BY TemplateStart, TemplateStep, PTL DEF TemplateSpec

(* Type correctness of template creation, for every set of stage types. *)
THEOREM TemplateTypeCorrect == TemplateSpec => []TemplateTypeOK
<1>1. TemplateInv => TemplateTypeOK
  BY DEF TemplateInv
<1> QED
  BY <1>1, TemplateInvariance, PTL

(* A template _validate_dag accepts never gets stuck, whatever its stages  *)
(* and in whatever order they complete.                                    *)
THEOREM NeverStuck == TemplateSpec => []AcceptedNeverStuck
<1>1. TemplateInv => AcceptedNeverStuck
  <2> SUFFICES ASSUME TemplateInv, phase \in {"created", "published"},
                      NEW done \in SUBSET known, done # known
               PROVE  \E sd \in stage_definitions :
                         /\ sd.stage_type \notin done
                         /\ sd.required_predecessors \subseteq done
    BY DEF AcceptedNeverStuck
  <2>1. PICK st \in known \ done : graph[st] \subseteq done
    BY DEF TemplateInv, Verdict, ResolvedInOrder
  <2>2. [stage_type |-> st, required_predecessors |-> graph[st]] \in stage_definitions
    BY <2>1 DEF TemplateInv, GraphFromDefinitions
  <2> QED
    BY <2>1, <2>2
<1> QED
  BY <1>1, TemplateInvariance, PTL

(* _validate_dag refuses a template as cyclic exactly when it has a cycle. *)
THEOREM ExactVerdict == TemplateSpec => []VerdictIsExact
<1>1. TemplateInv => VerdictIsExact
  <2> SUFFICES ASSUME TemplateInv PROVE VerdictIsExact
    OBVIOUS
  <2>1. ASSUME phase \in {"created", "published"}, HasCycle PROVE FALSE
    <3>1. PICK S \in SUBSET known : S # {} /\ \A st \in S : graph[st] \cap S # {}
      BY <2>1 DEF HasCycle
    <3>2. PICK st \in known \ (known \ S) : graph[st] \subseteq known \ S
      BY <2>1, <3>1 DEF TemplateInv, Verdict, ResolvedInOrder
    <3> QED
      BY <3>1, <3>2
  <2>2. ASSUME phase = "cyclic" PROVE HasCycle
    <3>1. \A st \in remaining : graph[st] \cap remaining # {}
      BY <2>2 DEF TemplateInv, Verdict, CanResolve, Partition, PredecessorsKnown, TemplateTypeOK
    <3>2. remaining \in SUBSET known /\ remaining # {}
      BY <2>2 DEF TemplateInv, Verdict, TemplateTypeOK
    <3> QED
      BY <3>1, <3>2 DEF HasCycle
  <2> QED
    BY <2>1, <2>2 DEF VerdictIsExact
<1> QED
  BY <1>1, TemplateInvariance, PTL

-----------------------------------------------------------------------------
(* The results: what rows and requests hold *)

Sources == Stages \cup {"PREDICTION", "VALIDATION"}

Uses == UNION {[K -> Nat] : K \in SUBSET Sources}

ResultRow ==
    [key : RowKeys, version : Nat, status : {"COMPLETE", "FAILED", "DRAFT", "FINALIZED"},
     created : Nat, began : Nat, subject : Nat, uses : Uses, by : Workers \cup {Nobody}]

RowsIn(t, k) == {i \in DOMAIN t : t[i].key = k}

DoneIn(t, k) == {i \in RowsIn(t, k) : t[i].status = "COMPLETE"}

NextVersionIn(t, k) == 1 + Max({0} \cup {t[i].version : i \in RowsIn(t, k)})

(* The rows that source k is read from *)
SourceIn(t, k) ==
    IF k = "VALIDATION" THEN DoneIn(t, "VALIDATION") \cup DoneIn(t, "REGRESSION_VALIDATION")
    ELSE DoneIn(t, k)

ValidationsIn(t) == RowsIn(t, "VALIDATION") \cup RowsIn(t, "REGRESSION_VALIDATION")

(* What was read is a row of its source, or missing. *)
UsesSound(t, op, uses) ==
    /\ DOMAIN uses \subseteq Reads(op)
    /\ \A k \in DOMAIN uses : uses[k] # NoRow => uses[k] \in SourceIn(t, k)

SubjectSound(t, op, subject) ==
    /\ op = "VALIDATION" => subject = NoRow \/ subject \in DoneIn(t, "RISK")
    /\ op = "REGRESSION_VALIDATION" => subject \in RowsIn(t, "PREDICTION")
    /\ op \notin {"VALIDATION", "REGRESSION_VALIDATION"} => subject = NoRow

(* Section k of a report is no older than what was committed before the    *)
(* report's request began.                                                 *)
SectionFresh(t, began, uses, k) ==
    /\ k \in Stages =>
          \A j \in DoneIn(t, k) : j <= began => uses[k] # NoRow /\ t[j].version <= t[uses[k]].version
    /\ k = "PREDICTION" =>
          \A j \in DoneIn(t, k) : j <= began => uses[k] # NoRow /\ t[j].created <= t[uses[k]].created
    /\ (k = "VALIDATION" /\ Cardinality(ValidationsIn(t)) <= PageLimit) =>
          \A j \in SourceIn(t, k) : j <= began => uses[k] # NoRow /\ t[j].created <= t[uses[k]].created

ReportFresh(t, began, uses) ==
    /\ began <= Len(t)
    /\ \A k \in DOMAIN uses : SectionFresh(t, began, uses, k)

(* A version that was read when the first began rows were committed, or    *)
(* later, is above theirs.                                                 *)
InOrder(t, k, began, version) ==
    began <= Len(t) /\ \A j \in RowsIn(t, k) : j <= began => t[j].version < version

(* What a successful row is made from *)
MadeFrom(t, sel, op, status, subject, uses) ==
    status = "COMPLETE" =>
        /\ op \in Stages => DOMAIN uses = Reads(op) /\ \A k \in Reads(op) : uses[k] \in DoneIn(t, k)
        /\ op = "LAYER" => subject \in DoneIn(t, "RISK")
        /\ op = "PREDICTION" => sel = "CONFIRMED"
        /\ op = "REGRESSION_VALIDATION" => subject \in DoneIn(t, "PREDICTION")
        /\ op = "VALIDATION" => subject = NoRow \/ subject \in DoneIn(t, "RISK")

RowSound(t, sel, i) ==
    /\ t[i].subject < i
    /\ \A k \in DOMAIN t[i].uses : t[i].uses[k] < i
    /\ MadeFrom(t, sel, t[i].key, t[i].status, t[i].subject, t[i].uses)
    /\ UsesSound(t, t[i].key, t[i].uses)
    /\ (t[i].key = "REPORT" /\ t[i].status # "FAILED") =>
          /\ DOMAIN t[i].uses = Reads("REPORT")
          /\ ReportFresh(t, t[i].began, t[i].uses)
    /\ t[i].key \in VersionedKeys => InOrder(t, t[i].key, t[i].began, t[i].version)

Gathering ==
    [at : {"gathering"}, op : Op, subject : Nat, began : Nat, uses : Uses]

Saving ==
    [at : {"saving"}, op : Op, began : Nat, subject : Nat, uses : Uses,
     status : {"COMPLETE", "FAILED", "DRAFT"}, created : Nat, version : Nat]

Returning == [at : {"returning", "drawn"}, op : WorkflowStages, row : Nat]

Layering == [at : {"layering"}, op : {"RISK"} \cap Stages, row : Nat, began : Nat, version : Nat]

Finalizing == [at : {"finalizing"}, row : Nat]

(* What a request o has read, against the table *)
ReadSound(t, o) ==
    /\ UsesSound(t, o.op, o.uses)
    /\ SubjectSound(t, o.op, o.subject)
    /\ o.op = "REPORT" => ReportFresh(t, o.began, o.uses)
    /\ o.began <= Len(t)

RequestSound(t, sel, o) ==
    \/ o = Idle
    \/ o \in Gathering /\ ReadSound(t, o)
    \/ /\ o \in Saving /\ ReadSound(t, o)
       /\ DOMAIN o.uses = Reads(o.op)
       /\ MadeFrom(t, sel, o.op, o.status, o.subject, o.uses)
       /\ o.version \in IF o.op \in VersionedKeys THEN 1..NextVersionIn(t, o.op) ELSE {0}
       /\ o.op \in VersionedKeys => InOrder(t, o.op, o.began, o.version)
    \/ o \in Returning /\ o.row \in DoneIn(t, o.op)
    \/ /\ o \in Layering /\ o.row \in DoneIn(t, "RISK")
       /\ o.version \in 1..NextVersionIn(t, "LAYER")
       /\ InOrder(t, "LAYER", o.began, o.version)
    \/ o \in Finalizing /\ o.row \in RowsIn(t, "REPORT") /\ t[o.row].status # "FAILED"

(* A number no request's clock has passed *)
ClockBound(b) == \A w \in Workers : worker[w].at = "saving" => worker[w].created <= b

ResultsTyped ==
    /\ table \in Seq(ResultRow)
    /\ worker = [w \in Workers |-> worker[w]]
    /\ progress \in [WorkflowStages -> Nat]
    /\ selection \in {"DRAFT", "CONFIRMED"}
    /\ \E b \in Nat : ClockBound(b)

RowsSound == \A i \in DOMAIN table : RowSound(table, selection, i)

RequestsSound == \A w \in Workers : RequestSound(table, selection, worker[w])

ResultsInv == ResultsTyped /\ RowsSound /\ RequestsSound /\ ProgressIsSound

-----------------------------------------------------------------------------
(* Numbers and versions *)

(* A set of numbers that is not empty has a least one. *)
LEMMA LeastNumber ==
    ASSUME NEW S \in SUBSET Nat, S # {}
    PROVE  \E m \in S : \A n \in S : m <= n
<1> DEFINE T == {0..n : n \in S}
<1>1. T # {} /\ T \subseteq FiniteSubsetsOf(Nat)
  <2>1. \A n \in S : 0..n \in FiniteSubsetsOf(Nat)
    <3> SUFFICES ASSUME NEW n \in S PROVE 0..n \in FiniteSubsetsOf(Nat)
      OBVIOUS
    <3>1. IsFiniteSet(0..n)
      BY FS_Interval
    <3> QED
      BY <3>1 DEF FiniteSubsetsOf
  <2> QED
    BY <2>1
<1>2. PICK A \in T : \A B \in T : ~(<<B, A>> \in StrictSubsetOrdering(Nat))
  <2> HIDE DEF T
  <2> QED
    BY <1>1, FS_StrictSubsetOrderingWellFounded, WFMin
<1>3. PICK m \in S : A = 0..m
  BY <1>2
<1>4. \A n \in S : m <= n
  <2> SUFFICES ASSUME NEW n \in S, n < m PROVE FALSE
    OBVIOUS
  <2>1. 0..n \in T /\ 0..n \subseteq 0..m /\ 0..n # 0..m
    OBVIOUS
  <2>2. 0..n \subseteq Nat /\ 0..m \subseteq Nat
    OBVIOUS
  <2> HIDE DEF T
  <2> QED
    BY <1>2, <1>3, <2>1, <2>2 DEF StrictSubsetOrdering
<1> QED
  BY <1>4

(* A set of numbers with a bound has a greatest one. *)
LEMMA MaxIs ==
    ASSUME NEW S \in SUBSET Nat, NEW x \in S, NEW b \in Nat, \A y \in S : y <= b
    PROVE  Max(S) \in S /\ \A y \in S : y <= Max(S)
<1> DEFINE Gap == {b - y : y \in S}
<1>1. Gap \subseteq Nat /\ b - x \in Gap
  OBVIOUS
<1>2. PICK g \in Gap : \A d \in Gap : g <= d
  <2> HIDE DEF Gap
  <2> QED
    BY <1>1, LeastNumber
<1>3. PICK m \in S : g = b - m
  BY <1>2
<1>4. \A y \in S : y <= m
  <2> SUFFICES ASSUME NEW y \in S PROVE y <= m
    OBVIOUS
  <2>1. b - m <= b - y
    BY <1>2, <1>3
  <2>2. m \in Nat /\ y \in Nat
    OBVIOUS
  <2> QED
    BY <2>1, <2>2
<1> QED
  BY <1>4 DEF Max

(* The versions and clocks of finitely many rows have an upper bound. *)
LEMMA RowsBounded ==
    ASSUME NEW t \in Seq(ResultRow)
    PROVE  \E b \in Nat : \A i \in DOMAIN t : t[i].version <= b /\ t[i].created <= b
<1> DEFINE Below(n) == \E b \in Nat : \A i \in 1..n : t[i].version <= b /\ t[i].created <= b
           Bad == {n \in 0..Len(t) : ~Below(n)}
<1>1. Len(t) \in Nat /\ DOMAIN t = 1..Len(t)
      /\ \A i \in 1..Len(t) : t[i].version \in Nat /\ t[i].created \in Nat
  <2>1. Len(t) \in Nat /\ DOMAIN t = 1..Len(t) /\ \A i \in 1..Len(t) : t[i] \in ResultRow
    OBVIOUS
  <2> QED
    BY <2>1 DEF ResultRow
<1>2. SUFFICES ASSUME Bad # {} PROVE FALSE
  <2>1. Bad = {} => Below(Len(t))
    <3> SUFFICES ASSUME Bad = {} PROVE Below(Len(t))
      OBVIOUS
    <3>1. Len(t) \in 0..Len(t)
      BY <1>1
    <3> HIDE DEF Below
    <3> QED
      BY <3>1
  <2> QED
    BY <1>1, <2>1
<1>3. Bad \subseteq Nat
  BY <1>1
<1>4. PICK m \in Bad : \A n \in Bad : m <= n
  <2> HIDE DEF Bad
  <2> QED
    BY <1>2, <1>3, LeastNumber
<1>5. m # 0
  <2>1. Below(0)
    <3>1. \A i \in 1..0 : t[i].version <= 0 /\ t[i].created <= 0
      OBVIOUS
    <3> QED
      BY <3>1
  <2> QED
    BY <2>1
<1>6. m - 1 \in 0..Len(t) /\ m \in 1..Len(t) /\ ~(m <= m - 1)
  BY <1>1, <1>5
<1>7. Below(m - 1)
  BY <1>4, <1>6
<1>8. PICK b \in Nat : \A i \in 1..(m - 1) : t[i].version <= b /\ t[i].created <= b
  BY <1>7
<1> DEFINE c == b + t[m].version + t[m].created
<1>9. c \in Nat /\ b <= c /\ t[m].version <= c /\ t[m].created <= c
  <2>1. t[m].version \in Nat /\ t[m].created \in Nat
    BY <1>1, <1>6
  <2>2. \A x, y, z \in Nat : x + y + z \in Nat /\ x <= x + y + z /\ y <= x + y + z /\ z <= x + y + z
    OBVIOUS
  <2> HIDE DEF Bad, Below
  <2> QED
    BY <2>1, <2>2
<1>10. \A i \in 1..m : t[i].version <= c /\ t[i].created <= c
  <2> SUFFICES ASSUME NEW i \in 1..m PROVE t[i].version <= c /\ t[i].created <= c
    OBVIOUS
  <2>1. CASE i = m
    BY <1>9, <2>1
  <2>2. CASE i # m
    <3>0. m \in Nat /\ Len(t) \in Nat /\ m <= Len(t)
      BY <1>1, <1>3, <1>6
    <3>1. i \in 1..(m - 1) /\ i \in 1..Len(t)
      <4> HIDE DEF c, Bad, Below
      <4> QED
        BY <2>2, <3>0
    <3>2. t[i].version <= b /\ t[i].created <= b /\ t[i].version \in Nat /\ t[i].created \in Nat
      BY <1>1, <1>8, <3>1
    <3> HIDE DEF c, Bad, Below
    <3> QED
      BY <1>9, <3>2
  <2> QED
    BY <2>1, <2>2
<1>11. Below(m)
  <2> HIDE DEF c
  <2> QED
    BY <1>9, <1>10
<1> QED
  BY <1>11

LEMMA NextVersionIs ==
    ASSUME NEW t \in Seq(ResultRow), NEW k
    PROVE  /\ NextVersionIn(t, k) \in Nat \ {0}
           /\ \A i \in RowsIn(t, k) : t[i].version \in Nat /\ t[i].version < NextVersionIn(t, k)
           /\ NextVersionIn(t, k) = 1 \/ \E i \in RowsIn(t, k) : NextVersionIn(t, k) = 1 + t[i].version
<1> DEFINE S == {0} \cup {t[i].version : i \in RowsIn(t, k)}
<1>1. PICK b \in Nat : \A i \in DOMAIN t : t[i].version <= b
  BY RowsBounded
<1>2. RowsIn(t, k) \subseteq DOMAIN t /\ \A i \in DOMAIN t : t[i].version \in Nat
  <2>1. \A i \in DOMAIN t : t[i] \in ResultRow
    OBVIOUS
  <2> QED
    BY <2>1 DEF RowsIn, ResultRow
<1>3. S \subseteq Nat /\ 0 \in S /\ \A y \in S : y <= b
  BY <1>1, <1>2
<1> HIDE DEF S
<1>4. Max(S) \in S /\ \A y \in S : y <= Max(S)
  BY <1>3, MaxIs
<1>5. NextVersionIn(t, k) = 1 + Max(S)
  BY DEF NextVersionIn, S
<1>6. Max(S) \in Nat
  BY <1>3, <1>4
<1>7. \A i \in RowsIn(t, k) : t[i].version \in S
  BY DEF S
<1>8. Max(S) = 0 \/ \E i \in RowsIn(t, k) : Max(S) = t[i].version
  BY <1>4 DEF S
<1> QED
  BY <1>2, <1>4, <1>5, <1>6, <1>7, <1>8

-----------------------------------------------------------------------------
(* A later state of the tables *)

(* u has the rows of t, with what never changes unchanged. *)
Later(t, u) ==
    /\ t \in Seq(ResultRow) /\ u \in Seq(ResultRow)
    /\ Len(t) <= Len(u)
    /\ \A i \in DOMAIN t :
          /\ u[i].key = t[i].key /\ u[i].version = t[i].version /\ u[i].created = t[i].created
          /\ u[i].began = t[i].began /\ u[i].subject = t[i].subject /\ u[i].uses = t[i].uses
          /\ u[i].status = t[i].status \/ (t[i].key = "REPORT" /\ t[i].status # "FAILED"
                                           /\ u[i].status = "FINALIZED")

LEMMA LaterRows ==
    ASSUME NEW t, NEW u, Later(t, u)
    PROVE  /\ DOMAIN t \subseteq DOMAIN u
           /\ \A k : RowsIn(t, k) \subseteq RowsIn(u, k)
           /\ \A k : k # "REPORT" =>
                 /\ DoneIn(t, k) \subseteq DoneIn(u, k)
                 /\ \A j \in DoneIn(u, k) : j <= Len(t) => j \in DoneIn(t, k)
<1>1. /\ Len(t) \in Nat /\ Len(u) \in Nat /\ Len(t) <= Len(u)
      /\ DOMAIN t = 1..Len(t) /\ DOMAIN u = 1..Len(u)
  BY DEF Later
<1>2. DOMAIN t \subseteq DOMAIN u
  BY <1>1
<1>3. \A j \in DOMAIN u : j <= Len(t) => j \in DOMAIN t
  BY <1>1
<1> QED
  BY <1>2, <1>3 DEF Later, RowsIn, DoneIn

LEMMA SourcesAreRead ==
    ASSUME NEW op
    PROVE  /\ Reads(op) \subseteq Sources
           /\ "REPORT" \notin Sources
           /\ op \in Stages => Reads(op) \subseteq Stages
           /\ op \notin Stages \cup {"REPORT"} => Reads(op) = {}
           /\ Reads("REPORT") = Sources
           /\ Stages \cap {"LAYER", "PREDICTION", "REPORT", "VALIDATION", "REGRESSION_VALIDATION"} = {}
<1>1. Stages \cap {"LAYER", "PREDICTION", "REPORT", "VALIDATION", "REGRESSION_VALIDATION"} = {}
  <2>1. \A i \in 1..5 : CoreStages[i] \in {"HAZARD", "EXPOSURE", "VULNERABILITY", "RISK", "RESILIENCE"}
    BY DEF CoreStages
  <2>2. DOMAIN CoreStages = 1..5
    BY DEF CoreStages
  <2> QED
    BY <2>1, <2>2, ResultsAssumption
<1>2. op \in Stages => Reads(op) = InputDependencies(op) \cap Stages
  <2> SUFFICES ASSUME op \in Stages PROVE Reads(op) = InputDependencies(op) \cap Stages
    OBVIOUS
  <2>1. op # "REPORT"
    BY <1>1
  <2> QED
    BY <2>1, Zenon DEF Reads
<1>3. Reads("REPORT") = Sources
  BY <1>1 DEF Reads, Sources
<1>4. op \notin Stages \cup {"REPORT"} => Reads(op) = {}
  BY DEF Reads
<1>5. "REPORT" \notin Sources /\ Stages \subseteq Sources
  BY <1>1 DEF Sources
<1>6. CASE op \in Stages
  BY <1>1, <1>2, <1>3, <1>5, <1>6
<1>7. CASE op = "REPORT"
  BY <1>1, <1>3, <1>5, <1>7
<1>8. CASE op \notin Stages \cup {"REPORT"}
  BY <1>1, <1>3, <1>4, <1>5, <1>8
<1> QED
  BY <1>6, <1>7, <1>8

LEMMA LaterSources ==
    ASSUME NEW t, NEW u, Later(t, u), NEW k \in Sources
    PROVE  /\ SourceIn(t, k) \subseteq SourceIn(u, k)
           /\ \A j \in SourceIn(u, k) : j <= Len(t) => j \in SourceIn(t, k)
           /\ SourceIn(t, k) \subseteq DOMAIN t
<1>1. k # "REPORT"
  BY SourcesAreRead
<1>2. \A x : x # "REPORT" => /\ DoneIn(t, x) \subseteq DoneIn(u, x)
                             /\ \A j \in DoneIn(u, x) : j <= Len(t) => j \in DoneIn(t, x)
  BY LaterRows
<1>3. \A x : DoneIn(t, x) \subseteq DOMAIN t
  BY DEF DoneIn, RowsIn
<1>4. CASE k = "VALIDATION"
  BY <1>2, <1>3, <1>4 DEF SourceIn
<1>5. CASE k # "VALIDATION"
  BY <1>1, <1>2, <1>3, <1>5 DEF SourceIn
<1> QED
  BY <1>4, <1>5

LEMMA LaterVersions ==
    ASSUME NEW t, NEW u, Later(t, u), NEW k
    PROVE  NextVersionIn(t, k) <= NextVersionIn(u, k)
<1>1. t \in Seq(ResultRow) /\ u \in Seq(ResultRow)
  BY DEF Later
<1>2. /\ NextVersionIn(t, k) \in Nat \ {0} /\ NextVersionIn(u, k) \in Nat \ {0}
      /\ NextVersionIn(t, k) = 1 \/ \E i \in RowsIn(t, k) : NextVersionIn(t, k) = 1 + t[i].version
      /\ \A i \in RowsIn(u, k) : u[i].version \in Nat /\ u[i].version < NextVersionIn(u, k)
  BY <1>1, NextVersionIs
<1>3. \A i \in RowsIn(t, k) : i \in RowsIn(u, k) /\ u[i].version = t[i].version
  BY LaterRows DEF Later, RowsIn
<1> QED
  BY <1>2, <1>3

LEMMA LaterUses ==
    ASSUME NEW t, NEW u, Later(t, u), NEW op, NEW uses, UsesSound(t, op, uses)
    PROVE  UsesSound(u, op, uses)
<1>1. DOMAIN uses \subseteq Sources
  BY SourcesAreRead DEF UsesSound
<1> QED
  BY <1>1, LaterSources DEF UsesSound

LEMMA LaterMade ==
    ASSUME NEW t, NEW u, Later(t, u), NEW sel, NEW sel2, sel = "CONFIRMED" => sel2 = "CONFIRMED",
           NEW op, NEW status, NEW subject, NEW uses, MadeFrom(t, sel, op, status, subject, uses)
    PROVE  MadeFrom(u, sel2, op, status, subject, uses)
<1>1. \A k : k # "REPORT" => DoneIn(t, k) \subseteq DoneIn(u, k)
  BY LaterRows
<1>2. op \in Stages => \A k \in Reads(op) : k # "REPORT"
  BY SourcesAreRead
<1> QED
  BY <1>1, <1>2 DEF MadeFrom

LEMMA LaterSubject ==
    ASSUME NEW t, NEW u, Later(t, u), NEW op, NEW subject, SubjectSound(t, op, subject)
    PROVE  SubjectSound(u, op, subject)
<1>1. DoneIn(t, "RISK") \subseteq DoneIn(u, "RISK") /\ RowsIn(t, "PREDICTION") \subseteq RowsIn(u, "PREDICTION")
  BY LaterRows
<1> QED
  BY <1>1 DEF SubjectSound

(* As long as they fit on a page, the validation runs fitted before. *)
LEMMA LaterPage ==
    ASSUME NEW t, NEW u, Later(t, u), Cardinality(ValidationsIn(u)) <= PageLimit
    PROVE  Cardinality(ValidationsIn(t)) <= PageLimit
<1>1. ValidationsIn(t) \subseteq ValidationsIn(u)
  BY LaterRows DEF ValidationsIn
<1>2. IsFiniteSet(ValidationsIn(u))
  <2>1. Len(u) \in Nat /\ DOMAIN u = 1..Len(u)
    BY DEF Later
  <2>2. IsFiniteSet(1..Len(u)) /\ ValidationsIn(u) \subseteq 1..Len(u)
    BY <2>1, FS_Interval DEF ValidationsIn, RowsIn
  <2> QED
    BY <2>2, FS_Subset
<1>3. Cardinality(ValidationsIn(t)) <= Cardinality(ValidationsIn(u))
  BY <1>1, <1>2, FS_Subset
<1>4. /\ Cardinality(ValidationsIn(t)) \in Nat /\ Cardinality(ValidationsIn(u)) \in Nat
  BY <1>1, <1>2, FS_Subset, FS_CardinalityType
<1> QED
  BY <1>3, <1>4, ResultsAssumption

LEMMA LaterFresh ==
    ASSUME NEW t, NEW u, Later(t, u), NEW began \in Nat, NEW uses,
           UsesSound(t, "REPORT", uses), ReportFresh(t, began, uses)
    PROVE  ReportFresh(u, began, uses)
<1>1. began <= Len(t) /\ Len(t) \in Nat /\ Len(u) \in Nat /\ Len(t) <= Len(u)
  BY DEF ReportFresh, Later
<1>2. began <= Len(u)
  BY <1>1
<1> SUFFICES ASSUME NEW k \in DOMAIN uses PROVE SectionFresh(u, began, uses, k)
  BY <1>2 DEF ReportFresh
<1>3. SectionFresh(t, began, uses, k)
  BY DEF ReportFresh
<1>4. k \in Sources /\ k # "REPORT"
  BY SourcesAreRead DEF UsesSound
<1>5. /\ \A j \in SourceIn(u, k) : j <= began => j \in SourceIn(t, k)
      /\ k # "VALIDATION" => \A j \in DoneIn(u, k) : j <= began => j \in DoneIn(t, k)
  <2>1. \A j \in DOMAIN u : j \in Nat
    BY DEF Later
  <2>2. SourceIn(u, k) \subseteq DOMAIN u /\ DoneIn(u, k) \subseteq DOMAIN u
    BY DEF SourceIn, DoneIn, RowsIn
  <2>3. \A j \in DOMAIN u : j <= began => j <= Len(t)
    BY <1>1, <2>1
  <2> QED
    BY <1>4, <2>2, <2>3, LaterSources, LaterRows
<1>6. \A j \in DOMAIN t : u[j].version = t[j].version /\ u[j].created = t[j].created
  BY DEF Later
<1>7. uses[k] # NoRow => uses[k] \in DOMAIN t
  BY <1>4, LaterSources DEF UsesSound
<1>8. SourceIn(t, k) \subseteq DOMAIN t /\ DoneIn(t, k) \subseteq DOMAIN t
  BY <1>4, LaterSources DEF DoneIn, RowsIn
<1>9. k \in Stages => k # "VALIDATION"
  BY SourcesAreRead
<1>10. Cardinality(ValidationsIn(u)) <= PageLimit => Cardinality(ValidationsIn(t)) <= PageLimit
  BY LaterPage
<1> QED
  BY <1>3, <1>5, <1>6, <1>7, <1>8, <1>9, <1>10 DEF SectionFresh

LEMMA LaterOrder ==
    ASSUME NEW t, NEW u, Later(t, u), NEW k, NEW began \in Nat, NEW version, InOrder(t, k, began, version)
    PROVE  InOrder(u, k, began, version)
<1>1. /\ began <= Len(t) /\ Len(t) \in Nat /\ Len(u) \in Nat /\ Len(t) <= Len(u)
      /\ DOMAIN t = 1..Len(t) /\ DOMAIN u = 1..Len(u)
  BY DEF InOrder, Later
<1>2. began <= Len(u) /\ \A j \in DOMAIN u : j <= began => j \in DOMAIN t
  BY <1>1
<1>3. ASSUME NEW j \in RowsIn(u, k), j <= began PROVE u[j].version < version
  <2>1. j \in RowsIn(t, k) /\ u[j].version = t[j].version
    BY <1>2, <1>3 DEF RowsIn, Later
  <2> QED
    BY <1>3, <2>1 DEF InOrder
<1> QED
  BY <1>2, <1>3 DEF InOrder

LEMMA LaterRow ==
    ASSUME NEW t, NEW u, Later(t, u), NEW sel, NEW sel2, sel = "CONFIRMED" => sel2 = "CONFIRMED",
           NEW i \in DOMAIN t, RowSound(t, sel, i)
    PROVE  RowSound(u, sel2, i)
<1>1. t[i] \in ResultRow
  BY DEF Later
<1>2. /\ u[i].key = t[i].key /\ u[i].subject = t[i].subject /\ u[i].uses = t[i].uses
      /\ u[i].began = t[i].began
      /\ u[i].status = t[i].status \/ (t[i].status # "FAILED" /\ u[i].status = "FINALIZED")
  BY DEF Later
<1>3. t[i].began \in Nat /\ u[i].version = t[i].version
  BY <1>1 DEF ResultRow, Later
<1>4. /\ UsesSound(t, t[i].key, t[i].uses)
      /\ MadeFrom(t, sel, t[i].key, t[i].status, t[i].subject, t[i].uses)
      /\ t[i].subject < i /\ \A k \in DOMAIN t[i].uses : t[i].uses[k] < i
      /\ (t[i].key = "REPORT" /\ t[i].status # "FAILED") =>
            DOMAIN t[i].uses = Reads("REPORT") /\ ReportFresh(t, t[i].began, t[i].uses)
  BY DEF RowSound
<1>5. UsesSound(u, t[i].key, t[i].uses)
  BY <1>4, LaterUses
<1>6. MadeFrom(u, sel2, t[i].key, u[i].status, t[i].subject, t[i].uses)
  <2>1. CASE u[i].status = t[i].status
    BY <1>4, <2>1, LaterMade
  <2>2. CASE u[i].status = "FINALIZED"
    BY <2>2 DEF MadeFrom
  <2> QED
    BY <1>2, <2>1, <2>2
<1>7. (t[i].key = "REPORT" /\ u[i].status # "FAILED") =>
          DOMAIN t[i].uses = Reads("REPORT") /\ ReportFresh(u, t[i].began, t[i].uses)
  <2> SUFFICES ASSUME t[i].key = "REPORT", u[i].status # "FAILED"
               PROVE  DOMAIN t[i].uses = Reads("REPORT") /\ ReportFresh(u, t[i].began, t[i].uses)
    OBVIOUS
  <2>1. DOMAIN t[i].uses = Reads("REPORT") /\ ReportFresh(t, t[i].began, t[i].uses)
        /\ UsesSound(t, "REPORT", t[i].uses)
    BY <1>2, <1>4
  <2> QED
    BY <1>3, <2>1, LaterFresh
<1>8. t[i].key \in VersionedKeys => InOrder(u, t[i].key, t[i].began, t[i].version)
  BY <1>3, LaterOrder DEF RowSound
<1> QED
  BY <1>2, <1>3, <1>4, <1>5, <1>6, <1>7, <1>8 DEF RowSound

LEMMA LaterRequest ==
    ASSUME NEW t, NEW u, Later(t, u), NEW sel, NEW sel2, sel = "CONFIRMED" => sel2 = "CONFIRMED",
           NEW o, RequestSound(t, sel, o)
    PROVE  RequestSound(u, sel2, o)
<1>1. o \in Gathering \cup Saving \cup Layering => o.began \in Nat
  BY DEF Gathering, Saving, Layering
<1>2. o \in Gathering \cup Saving /\ ReadSound(t, o) => ReadSound(u, o)
  <2> SUFFICES ASSUME o \in Gathering \cup Saving, ReadSound(t, o) PROVE ReadSound(u, o)
    OBVIOUS
  <2>1. o.began <= Len(u)
    <3>1. Len(t) \in Nat /\ Len(u) \in Nat /\ Len(t) <= Len(u) /\ o.began <= Len(t) /\ o.began \in Nat
      BY <1>1 DEF Later, ReadSound
    <3> QED
      BY <3>1
  <2> QED
    BY <1>1, <2>1, LaterUses, LaterSubject, LaterFresh DEF ReadSound
<1>3. CASE o = Idle \/ (o \in Gathering /\ ReadSound(t, o))
  BY <1>2, <1>3 DEF RequestSound
<1>4. \A k : /\ NextVersionIn(t, k) \in Nat /\ NextVersionIn(u, k) \in Nat
             /\ NextVersionIn(t, k) <= NextVersionIn(u, k)
  BY LaterVersions, NextVersionIs DEF Later
<1>5. CASE /\ o \in Saving /\ ReadSound(t, o)
           /\ DOMAIN o.uses = Reads(o.op)
           /\ MadeFrom(t, sel, o.op, o.status, o.subject, o.uses)
           /\ o.version \in IF o.op \in VersionedKeys THEN 1..NextVersionIn(t, o.op) ELSE {0}
           /\ o.op \in VersionedKeys => InOrder(t, o.op, o.began, o.version)
  <2>1. MadeFrom(u, sel2, o.op, o.status, o.subject, o.uses)
    BY <1>5, LaterMade
  <2>2. o.version \in IF o.op \in VersionedKeys THEN 1..NextVersionIn(u, o.op) ELSE {0}
    BY <1>4, <1>5
  <2>3. o.op \in VersionedKeys => InOrder(u, o.op, o.began, o.version)
    BY <1>1, <1>5, LaterOrder
  <2> QED
    BY <1>2, <1>5, <2>1, <2>2, <2>3 DEF RequestSound
<1>6. CASE o \in Returning /\ o.row \in DoneIn(t, o.op)
  <2>1. o.op # "REPORT"
    BY <1>6, SourcesAreRead DEF Returning, WorkflowStages
  <2> QED
    BY <1>6, <2>1, LaterRows DEF RequestSound
<1>7. CASE /\ o \in Layering /\ o.row \in DoneIn(t, "RISK") /\ o.version \in 1..NextVersionIn(t, "LAYER")
           /\ InOrder(t, "LAYER", o.began, o.version)
  <2>1. InOrder(u, "LAYER", o.began, o.version)
    BY <1>1, <1>7, LaterOrder
  <2>2. o.row \in DoneIn(u, "RISK") /\ o.version \in 1..NextVersionIn(u, "LAYER")
    BY <1>4, <1>7, LaterRows
  <2> QED
    BY <1>7, <2>1, <2>2 DEF RequestSound
<1>8. CASE o \in Finalizing /\ o.row \in RowsIn(t, "REPORT") /\ t[o.row].status # "FAILED"
  <2>1. o.row \in RowsIn(u, "REPORT") /\ o.row \in DOMAIN t
    BY <1>8, LaterRows DEF RowsIn
  <2>2. u[o.row].status # "FAILED"
    BY <1>8, <2>1 DEF Later
  <2> QED
    BY <1>8, <2>1, <2>2 DEF RequestSound
<1> QED
  BY <1>3, <1>5, <1>6, <1>7, <1>8 DEF RequestSound

-----------------------------------------------------------------------------
(* What a request reads *)

LEMMA RowsHave ==
    ASSUME NEW t \in Seq(ResultRow)
    PROVE  /\ Len(t) \in Nat /\ DOMAIN t = 1..Len(t)
           /\ \A i \in DOMAIN t :
                 /\ t[i] \in ResultRow /\ i # NoRow /\ i \in Nat /\ i <= Len(t)
                 /\ t[i].key \in RowKeys /\ t[i].version \in Nat /\ t[i].created \in Nat
                 /\ t[i].began \in Nat /\ t[i].subject \in Nat /\ t[i].uses \in Uses
                 /\ t[i].status \in {"COMPLETE", "FAILED", "DRAFT", "FINALIZED"}
                 /\ t[i].by \in Workers \cup {Nobody}
<1>1. Len(t) \in Nat /\ DOMAIN t = 1..Len(t) /\ \A i \in DOMAIN t : t[i] \in ResultRow
  OBVIOUS
<1>2. \A i \in DOMAIN t : i # NoRow /\ i \in Nat /\ i <= Len(t)
  BY <1>1 DEF NoRow
<1> QED
  BY <1>1, <1>2 DEF ResultRow

(* get_latest_validation asks for one page: as long as all runs fit, it    *)
(* sees them all.                                                          *)
LEMMA PageShowsAll ==
    ASSUME table \in Seq(ResultRow), Cardinality(ValidationsIn(table)) <= PageLimit
    PROVE  FirstPage = ValidationsIn(table)
<1> DEFINE V == ValidationsIn(table)
           Older(i) == {j \in V : table[j].created < table[i].created}
<1>1. ValidationRuns = V /\ FirstPage = {i \in V : Cardinality(Older(i)) < PageLimit}
  BY DEF FirstPage, ValidationRuns, ValidationsIn, RowsIn, RowsOf, CreatedOf
<1>2. IsFiniteSet(V)
  <2>1. IsFiniteSet(1..Len(table)) /\ V \subseteq 1..Len(table)
    BY RowsHave, FS_Interval DEF ValidationsIn, RowsIn
  <2> HIDE DEF V
  <2> QED
    BY <2>1, FS_Subset
<1>3. ASSUME NEW i \in V PROVE Cardinality(Older(i)) < PageLimit
  <2>1. Older(i) \subseteq V \ {i}
    <3>1. table[i].created \in Int
      BY RowsHave DEF ValidationsIn, RowsIn
    <3> QED
      BY <3>1
  <2> HIDE DEF V, Older
  <2>2. IsFiniteSet(V \ {i}) /\ Cardinality(V \ {i}) = Cardinality(V) - 1
    BY <1>2, <1>3, FS_RemoveElement
  <2>3. Cardinality(Older(i)) <= Cardinality(V \ {i})
    BY <2>1, <2>2, FS_Subset
  <2>4. IsFiniteSet(Older(i))
    BY <2>1, <2>2, FS_Subset
  <2>5. Cardinality(V) \in Nat /\ Cardinality(Older(i)) \in Nat /\ Cardinality(V) <= PageLimit
    BY <1>2, <2>4, FS_CardinalityType DEF V
  <2> QED
    BY <2>2, <2>3, <2>5, ResultsAssumption
<1> HIDE DEF V, Older
<1>4. FirstPage = V
  BY <1>1, <1>3
<1> QED
  BY <1>4 DEF V

(* A reader returns a row of its source, and the newest one. *)
LEMMA LatestIs ==
    ASSUME table \in Seq(ResultRow), NEW k \in Sources, NEW i \in Latest(k)
    PROVE  /\ i # NoRow => i \in SourceIn(table, k)
           /\ i \in Nat
           /\ k \in Stages =>
                 \A j \in DoneIn(table, k) : i # NoRow /\ table[j].version <= table[i].version
           /\ k = "PREDICTION" =>
                 \A j \in DoneIn(table, k) : i # NoRow /\ table[j].created <= table[i].created
           /\ (k = "VALIDATION" /\ Cardinality(ValidationsIn(table)) <= PageLimit) =>
                 \A j \in SourceIn(table, k) : i # NoRow /\ table[j].created <= table[i].created
<1>1. \A x : Done(x) = DoneIn(table, x) /\ RowsOf(x) = RowsIn(table, x)
  BY DEF Done, DoneIn, RowsOf, RowsIn
<1>2. \A x : \A j \in RowsIn(table, x) : j # NoRow /\ j \in Nat
  BY RowsHave DEF RowsIn
<1>3. Stages \cap {"LAYER", "PREDICTION", "REPORT", "VALIDATION", "REGRESSION_VALIDATION"} = {}
  BY SourcesAreRead
<1>4. NoRow \in Nat
  BY DEF NoRow
<1>5. CASE k \in Stages
  <2>1. k # "VALIDATION" /\ k # "PREDICTION"
    BY <1>3, <1>5
  <2>2. Latest(k) = LatestStage(k)
    BY <1>5, <2>1, Zenon DEF Latest
  <2>3. SourceIn(table, k) = DoneIn(table, k)
    BY <2>1 DEF SourceIn
  <2>4. \/ DoneIn(table, k) = {} /\ i = NoRow
        \/ i \in DoneIn(table, k) /\ \A j \in DoneIn(table, k) : table[j].version <= table[i].version
    BY <1>1, <2>2 DEF LatestStage, Greatest, VersionOf
  <2> QED
    BY <1>2, <1>4, <2>1, <2>3, <2>4 DEF DoneIn
<1>6. CASE k = "PREDICTION"
  <2>1. k \notin Stages
    BY <1>3, <1>6
  <2>2. Latest(k) = LatestPrediction
    BY <1>6, <2>1, Zenon DEF Latest
  <2>3. SourceIn(table, k) = DoneIn(table, k)
    BY <1>6 DEF SourceIn
  <2>4. \/ DoneIn(table, k) = {} /\ i = NoRow
        \/ i \in DoneIn(table, k) /\ \A j \in DoneIn(table, k) : table[j].created <= table[i].created
    BY <1>1, <1>6, <2>2 DEF LatestPrediction, Greatest, CreatedOf
  <2> QED
    BY <1>2, <1>4, <1>6, <2>1, <2>3, <2>4 DEF DoneIn
<1>7. CASE k = "VALIDATION"
  <2>1. k \notin Stages
    BY <1>3, <1>7
  <2>2. Latest(k) = LatestValidation
    BY <1>7, <2>1, Zenon DEF Latest
  <2> DEFINE D == {x \in FirstPage : table[x].status = "COMPLETE"}
  <2>3. \/ D = {} /\ i = NoRow
        \/ i \in D /\ \A j \in D : table[j].created <= table[i].created
    BY <2>2 DEF LatestValidation, Greatest, CreatedOf
  <2>4. D \subseteq SourceIn(table, k)
    BY <1>1, <1>7 DEF FirstPage, ValidationRuns, SourceIn, DoneIn
  <2>5. Cardinality(ValidationsIn(table)) <= PageLimit => SourceIn(table, k) \subseteq D
    BY <1>7, PageShowsAll DEF SourceIn, DoneIn, ValidationsIn
  <2>6. SourceIn(table, k) \subseteq Nat \ {NoRow}
    BY <1>2, <1>7 DEF SourceIn, DoneIn
  <2> HIDE DEF D
  <2> QED
    BY <1>4, <1>7, <2>1, <2>3, <2>4, <2>5, <2>6
<1> QED
  BY <1>5, <1>6, <1>7 DEF Sources

(* created_at: the table's clock goes on. *)
LEMMA NowIs ==
    ASSUME ResultsTyped, RequestsSound, NEW op
    PROVE  Now(op) \in Nat
<1> SUFFICES ASSUME \E keys \in Timed : op \in keys PROVE Now(op) \in Nat
  BY DEF Now
<1> DEFINE keys == CHOOSE ks \in Timed : op \in ks
           S == {0} \cup Ticks(keys)
<1>1. Now(op) = 1 + Max(S)
  BY DEF Now
<1>2. PICK b \in Nat : ClockBound(b)
  BY DEF ResultsTyped
<1>3. PICK c \in Nat : \A i \in DOMAIN table : table[i].created <= c
  BY RowsBounded DEF ResultsTyped
<1>4. \A i \in DOMAIN table : table[i].created \in Nat /\ table[i].created <= b + c
  <2>1. \A i \in DOMAIN table : table[i].created \in Nat
    BY RowsHave DEF ResultsTyped
  <2>2. \A x \in Nat : x <= c => x <= b + c
    OBVIOUS
  <2> QED
    BY <1>3, <2>1, <2>2
<1>5. \A w \in Workers : worker[w].at = "saving" =>
          worker[w].created \in Nat /\ worker[w].created <= b + c
  <2> SUFFICES ASSUME NEW w \in Workers, worker[w].at = "saving"
               PROVE  worker[w].created \in Nat /\ worker[w].created <= b + c
    OBVIOUS
  <2>1. worker[w] \in Saving
    BY DEF RequestsSound, RequestSound, Idle, Gathering, Returning, Layering, Finalizing
  <2>2. worker[w].created \in Nat /\ worker[w].created <= b
    BY <1>2, <2>1 DEF ClockBound, Saving
  <2> QED
    BY <2>2
<1>6. Ticks(keys) \subseteq Nat /\ \A y \in Ticks(keys) : y <= b + c
  BY <1>4, <1>5 DEF Ticks, CreatedOf
<1>7. S \subseteq Nat /\ 0 \in S /\ b + c \in Nat /\ \A y \in S : y <= b + c
  BY <1>6
<1> HIDE DEF S
<1>8. Max(S) \in Nat
  BY <1>7, MaxIs
<1> QED
  BY <1>1, <1>8

-----------------------------------------------------------------------------
(* Steps *)

LEMMA TableIsLater ==
    ASSUME table \in Seq(ResultRow) PROVE Later(table, table)
  BY DEF Later

LEMMA AppendIsLater ==
    ASSUME NEW t \in Seq(ResultRow), NEW r \in ResultRow
    PROVE  /\ Later(t, Append(t, r))
           /\ Len(Append(t, r)) = Len(t) + 1
           /\ Append(t, r)[Len(t) + 1] = r
           /\ DOMAIN Append(t, r) = DOMAIN t \cup {Len(t) + 1}
           /\ Len(t) + 1 \notin DOMAIN t
           /\ \A i \in DOMAIN t : Append(t, r)[i] = t[i]
<1>1. /\ Append(t, r) \in Seq(ResultRow) /\ Len(Append(t, r)) = Len(t) + 1
      /\ Len(t) \in Nat /\ DOMAIN t = 1..Len(t)
      /\ DOMAIN Append(t, r) = 1..(Len(t) + 1)
      /\ \A i \in 1..Len(t) : Append(t, r)[i] = t[i]
      /\ Append(t, r)[Len(t) + 1] = r
  OBVIOUS
<1>2. Len(t) <= Len(Append(t, r))
  BY <1>1
<1>3. Later(t, Append(t, r))
  BY <1>1, <1>2 DEF Later
<1> QED
  BY <1>1, <1>3

(* What a step that only adds to the tables leaves sound. *)
LEMMA OthersStaySound ==
    ASSUME ResultsInv, Later(table, table'), selection = "CONFIRMED" => selection' = "CONFIRMED"
    PROVE  /\ \A i \in DOMAIN table : RowSound(table', selection', i)
           /\ \A x \in Workers : RequestSound(table', selection', worker[x])
           /\ \A s \in WorkflowStages :
                 progress[s] # NoRow => progress[s] \in DoneIn(table', s)
<1>1. \A i \in DOMAIN table : RowSound(table', selection', i)
  BY LaterRow DEF ResultsInv, RowsSound
<1>2. \A x \in Workers : RequestSound(table', selection', worker[x])
  BY LaterRequest DEF ResultsInv, RequestsSound
<1>3. ASSUME NEW s \in WorkflowStages, progress[s] # NoRow PROVE progress[s] \in DoneIn(table', s)
  <2>1. s # "REPORT"
    BY SourcesAreRead DEF WorkflowStages
  <2>2. progress[s] \in DoneIn(table, s)
    BY <1>3 DEF ResultsInv, ProgressIsSound, DoneIn, Done, RowsIn, RowsOf
  <2> QED
    BY <2>1, <2>2, LaterRows
<1> QED
  BY <1>1, <1>2, <1>3

(* A step of one request that writes nothing. *)
LEMMA RequestStep ==
    ASSUME ResultsInv, NEW w \in Workers, NEW o, NEW c \in Nat,
           worker' = [worker EXCEPT ![w] = o],
           RequestSound(table, selection, o), o.at = "saving" => o.created <= c,
           UNCHANGED <<table, selection>>,
           progress' \in [WorkflowStages -> Nat],
           \A s \in WorkflowStages : progress'[s] # NoRow => progress'[s] \in DoneIn(table, s)
    PROVE  ResultsInv'
<1> USE DEF ResultsInv
<1>1. /\ worker' = [x \in Workers |-> worker'[x]]
      /\ worker'[w] = o
      /\ \A x \in Workers \ {w} : worker'[x] = worker[x]
  BY DEF ResultsTyped
<1>2. RequestsSound'
  BY <1>1 DEF RequestsSound
<1>3. \E b \in Nat : \A x \in Workers : worker'[x].at = "saving" => worker'[x].created <= b
  <2>1. PICK b \in Nat : ClockBound(b)
    BY DEF ResultsTyped
  <2>2. \A x \in Workers : worker'[x].at = "saving" =>
            worker'[x].created \in Nat /\ (worker'[x].created <= b \/ worker'[x].created <= c)
    <3> SUFFICES ASSUME NEW x \in Workers, worker'[x].at = "saving"
                 PROVE  worker'[x].created \in Nat /\ (worker'[x].created <= b \/ worker'[x].created <= c)
      OBVIOUS
    <3>1. worker'[x] \in Saving
      <4>1. RequestSound(table, selection, worker'[x])
        BY <1>2 DEF RequestsSound
      <4> QED
        BY <4>1 DEF RequestSound, Idle, Gathering, Returning, Layering, Finalizing
    <3>2. worker'[x].created \in Nat
      BY <3>1 DEF Saving
    <3> QED
      BY <1>1, <2>1, <3>2 DEF ClockBound
  <2>3. \A y \in Nat : y <= b \/ y <= c => y <= b + c
    OBVIOUS
  <2> QED
    BY <2>2, <2>3
<1>4. ResultsTyped'
  BY <1>1, <1>3 DEF ResultsTyped, ClockBound
<1>5. ProgressIsSound'
  BY DEF ProgressIsSound, DoneIn, Done, RowsIn, RowsOf
<1>6. RowsSound'
  BY DEF RowsSound
<1> QED
  BY <1>2, <1>4, <1>5, <1>6

(* As RequestStep, for the steps that leave the workflow's record alone. *)
LEMMA RequestMoves ==
    ASSUME ResultsInv, NEW w \in Workers, NEW o, NEW c \in Nat,
           worker' = [worker EXCEPT ![w] = o],
           RequestSound(table, selection, o), o.at = "saving" => o.created <= c,
           UNCHANGED <<table, progress, selection>>
    PROVE  ResultsInv'
<1>1. /\ progress' \in [WorkflowStages -> Nat]
      /\ \A s \in WorkflowStages : progress'[s] # NoRow => progress'[s] \in DoneIn(table, s)
  BY DEF ResultsInv, ResultsTyped, ProgressIsSound, DoneIn, Done, RowsIn, RowsOf
<1> QED
  BY <1>1, RequestStep

(* Each request's steps.  First, a row of sources read so far is one of    *)
(* the maps a row can hold.                                                *)
LEMMA UsesGrow ==
    ASSUME NEW uses \in Uses, NEW k \in Sources, NEW i \in Nat
    PROVE  [x \in DOMAIN uses \cup {k} |-> IF x = k THEN i ELSE uses[x]] \in Uses
<1>1. DOMAIN uses \subseteq Sources /\ \A x \in DOMAIN uses : uses[x] \in Nat
  BY DEF Uses
<1> DEFINE K == DOMAIN uses \cup {k}
           f == [x \in K |-> IF x = k THEN i ELSE uses[x]]
<1>2. f \in [K -> Nat] /\ K \in SUBSET Sources
  BY <1>1
<1> QED
  BY <1>2 DEF Uses

LEMMA NoUsesIs == NoUses \in Uses /\ DOMAIN NoUses = {}
<1>1. NoUses \in [{} -> Nat] /\ DOMAIN NoUses = {}
  BY DEF NoUses
<1> QED
  BY <1>1 DEF Uses

LEMMA OpsAre ==
    /\ Op = Stages \cup {"PREDICTION", "VALIDATION", "REGRESSION_VALIDATION", "REPORT"}
    /\ Op \subseteq RowKeys
    /\ "LAYER" \notin Op /\ "LAYER" \in VersionedKeys /\ VersionedKeys \subseteq RowKeys
    /\ WorkflowStages \subseteq Op
    /\ "REPORT" \notin WorkflowStages /\ "LAYER" \notin WorkflowStages
    /\ "RISK" \in WorkflowStages => "RISK" \in Stages
  BY SourcesAreRead DEF Op, RowKeys, VersionedKeys, WorkflowStages

LEMMA BeginStep ==
    ASSUME ResultsInv, NEW w \in Workers, NEW op \in Op, Begin(w, op)
    PROVE  ResultsInv'
<1>1. PICK subject \in Subjects(op) :
        worker' = [worker EXCEPT ![w] =
            [at |-> "gathering", op |-> op, subject |-> subject,
             began |-> IF Versioned(op) THEN Len(table) ELSE 0, uses |-> NoUses]]
  BY DEF Begin
<1> USE DEF Versioned
<1> DEFINE o == [at |-> "gathering", op |-> op, subject |-> subject,
                 began |-> IF Versioned(op) THEN Len(table) ELSE 0, uses |-> NoUses]
<1>2. table \in Seq(ResultRow) /\ Len(table) \in Nat
  BY DEF ResultsInv, ResultsTyped
<1>3. subject \in Nat /\ SubjectSound(table, op, subject)
  <2>1. CASE op = "VALIDATION"
    <3>1. subject = IF "RISK" \in Stages THEN progress["RISK"] ELSE NoRow
      BY <1>1, <2>1, Zenon DEF Subjects
    <3>2. CASE "RISK" \in Stages
      <4>1. subject = progress["RISK"] /\ "RISK" \in WorkflowStages
        BY <3>1, <3>2 DEF WorkflowStages
      <4>2. subject \in Nat /\ (subject = NoRow \/ subject \in DoneIn(table, "RISK"))
        BY <4>1 DEF ResultsInv, ResultsTyped, ProgressIsSound, DoneIn, Done, RowsIn, RowsOf
      <4> QED
        BY <2>1, <4>2 DEF SubjectSound
    <3>3. CASE "RISK" \notin Stages
      BY <2>1, <3>1, <3>3 DEF SubjectSound, NoRow
    <3> QED
      BY <3>2, <3>3
  <2>2. CASE op = "REGRESSION_VALIDATION"
    <3>1. subject \in RowsIn(table, "PREDICTION")
      BY <1>1, <2>2, Zenon DEF Subjects, RowsIn, RowsOf
    <3> QED
      BY <1>2, <2>2, <3>1, RowsHave DEF SubjectSound, RowsIn
  <2>3. CASE op \notin {"VALIDATION", "REGRESSION_VALIDATION"}
    <3>1. subject = NoRow
      BY <1>1, <2>3, Zenon DEF Subjects
    <3> QED
      BY <2>3, <3>1 DEF SubjectSound, NoRow
  <2> QED
    BY <2>1, <2>2, <2>3
<1>4. o \in Gathering
  BY <1>2, <1>3, NoUsesIs DEF Gathering
<1>5. o.op = op /\ o.subject = subject /\ o.uses = NoUses /\ (op = "REPORT" => o.began = Len(table))
      /\ o.at = "gathering" /\ o.began <= Len(table)
  BY <1>2 DEF VersionedKeys
<1> HIDE DEF o
<1>6. ReadSound(table, o)
  <2>1. UsesSound(table, op, NoUses)
    BY NoUsesIs DEF UsesSound
  <2>2. op = "REPORT" => ReportFresh(table, o.began, NoUses)
    BY <1>2, <1>5, NoUsesIs DEF ReportFresh
  <2> QED
    BY <1>3, <1>5, <2>1, <2>2 DEF ReadSound
<1>7. RequestSound(table, selection, o)
  BY <1>4, <1>6 DEF RequestSound
<1>8. worker' = [worker EXCEPT ![w] = o] /\ UNCHANGED <<table, progress, selection>>
  BY <1>1 DEF Begin, o
<1> QED
  BY <1>5, <1>7, <1>8, RequestMoves

LEMMA GatherStep ==
    ASSUME ResultsInv, NEW w \in Workers, Gather(w)
    PROVE  ResultsInv'
<1>1. PICK k \in Reads(worker[w].op) \ DOMAIN worker[w].uses : \E i \in Latest(k) :
        worker' = [worker EXCEPT ![w].uses =
            [x \in DOMAIN @ \cup {k} |-> IF x = k THEN i ELSE @[x]]]
  BY DEF Gather
<1>2. PICK i \in Latest(k) :
        worker' = [worker EXCEPT ![w].uses =
            [x \in DOMAIN @ \cup {k} |-> IF x = k THEN i ELSE @[x]]]
  BY <1>1
<1> DEFINE p == worker[w]
           uses == [x \in DOMAIN p.uses \cup {k} |-> IF x = k THEN i ELSE p.uses[x]]
           o == [p EXCEPT !.uses = uses]
<1>3. p \in Gathering /\ ReadSound(table, p)
  <2>1. RequestSound(table, selection, worker[w]) /\ worker[w].at = "gathering"
    BY DEF ResultsInv, RequestsSound, Gather
  <2> QED
    BY <2>1 DEF RequestSound, Idle, Saving, Returning, Layering, Finalizing
<1>4. table \in Seq(ResultRow) /\ k \in Sources /\ k \in Reads(p.op) /\ k \notin DOMAIN p.uses
  BY <1>1, SourcesAreRead DEF ResultsInv, ResultsTyped
<1>5. /\ i \in Nat /\ (i # NoRow => i \in SourceIn(table, k))
  BY <1>2, <1>4, LatestIs
<1>6. uses \in Uses /\ DOMAIN uses = DOMAIN p.uses \cup {k} /\ uses[k] = i
      /\ \A x \in DOMAIN p.uses : uses[x] = p.uses[x]
  BY <1>3, <1>4, <1>5, UsesGrow DEF Gathering
<1> HIDE DEF uses
<1>7. /\ o \in Gathering /\ o.op = p.op /\ o.subject = p.subject /\ o.began = p.began
      /\ o.uses = uses /\ o.at = "gathering"
  BY <1>3, <1>6 DEF Gathering
<1>8. worker' = [worker EXCEPT ![w] = o]
  BY <1>2 DEF uses
<1> HIDE DEF o, p
<1>9. UsesSound(table, p.op, uses)
  BY <1>3, <1>4, <1>5, <1>6 DEF ReadSound, UsesSound
<1>10. p.op = "REPORT" => ReportFresh(table, p.began, uses)
  <2> SUFFICES ASSUME p.op = "REPORT" PROVE ReportFresh(table, p.began, uses)
    OBVIOUS
  <2>1. ReportFresh(table, p.began, p.uses)
    BY <1>3 DEF ReadSound
  <2>2. SectionFresh(table, p.began, uses, k)
    BY <1>2, <1>4, <1>6, LatestIs DEF SectionFresh
  <2>3. ASSUME NEW x \in DOMAIN p.uses PROVE SectionFresh(table, p.began, uses, x)
    <3>1. SectionFresh(table, p.began, p.uses, x) /\ uses[x] = p.uses[x]
      BY <1>6, <2>1, <2>3 DEF ReportFresh
    <3> QED
      BY <3>1 DEF SectionFresh
  <2> QED
    BY <1>6, <2>1, <2>2, <2>3 DEF ReportFresh
<1>11. RequestSound(table, selection, o)
  BY <1>3, <1>7, <1>9, <1>10 DEF RequestSound, ReadSound
<1>12. UNCHANGED <<table, progress, selection>>
  BY DEF Gather
<1> QED
  BY <1>7, <1>8, <1>11, <1>12, RequestMoves

(* What a handler may persist as a success has what it needs. *)
LEMMA OutcomeIsSound ==
    ASSUME table \in Seq(ResultRow), selection \in {"DRAFT", "CONFIRMED"},
           NEW o, o.op \in Op, DOMAIN o.uses = Reads(o.op), ReadSound(table, o),
           NEW status \in Outcomes(o)
    PROVE  /\ status \in {"COMPLETE", "FAILED", "DRAFT"}
           /\ status = "COMPLETE" => o.op # "REPORT"
           /\ MadeFrom(table, selection, o.op, status, o.subject, o.uses)
<1>1. Stages \cap {"LAYER", "PREDICTION", "REPORT", "VALIDATION", "REGRESSION_VALIDATION"} = {}
      /\ o.op # "LAYER"
  BY SourcesAreRead, OpsAre
<1>2. CASE o.op \in Stages
  <2>1. Outcomes(o) = RecordStageResult(o)
    BY <1>1, <1>2, Zenon DEF Outcomes
  <2>2. status \in {"COMPLETE", "FAILED"}
        /\ (status = "COMPLETE" => \A k \in DOMAIN o.uses : o.uses[k] # NoRow)
    BY <2>1 DEF RecordStageResult, If
  <2>3. \A k \in Reads(o.op) : k \in Stages /\ k # "VALIDATION"
    BY <1>1, <1>2, SourcesAreRead
  <2>4. status = "COMPLETE" => \A k \in Reads(o.op) : o.uses[k] \in DoneIn(table, k)
    BY <2>2, <2>3 DEF ReadSound, UsesSound, SourceIn
  <2> QED
    BY <1>1, <1>2, <2>2, <2>4 DEF MadeFrom
<1>3. CASE o.op = "PREDICTION"
  <2>1. Outcomes(o) = RunPrediction(o)
    BY <1>1, <1>3, Zenon DEF Outcomes
  <2> QED
    BY <1>1, <1>3, <2>1 DEF RunPrediction, If, MadeFrom
<1>4. CASE o.op = "VALIDATION"
  <2>1. Outcomes(o) = RunValidation(o)
    BY <1>1, <1>4, Zenon DEF Outcomes
  <2>2. o.subject = NoRow \/ o.subject \in DoneIn(table, "RISK")
    BY <1>4 DEF ReadSound, SubjectSound
  <2> QED
    BY <1>1, <1>4, <2>1, <2>2 DEF RunValidation, If, MadeFrom
<1>5. CASE o.op = "REGRESSION_VALIDATION"
  <2>1. Outcomes(o) = RunRegressionValidation(o)
    BY <1>1, <1>5, Zenon DEF Outcomes
  <2>2. o.subject \in RowsIn(table, "PREDICTION")
    BY <1>5 DEF ReadSound, SubjectSound
  <2>3. status \in {"COMPLETE", "FAILED"}
        /\ (status = "COMPLETE" => o.subject \in DoneIn(table, "PREDICTION"))
    BY <2>1, <2>2 DEF RunRegressionValidation, If, DoneIn
  <2> QED
    BY <1>1, <1>5, <2>3 DEF MadeFrom
<1>6. CASE o.op = "REPORT"
  <2>1. Outcomes(o) = GenerateReport(o)
    BY <1>1, <1>6, Zenon DEF Outcomes
  <2>2. status \in {"DRAFT", "FAILED"}
    BY <2>1 DEF GenerateReport, If
  <2> QED
    BY <2>2 DEF MadeFrom
<1> QED
  BY <1>2, <1>3, <1>4, <1>5, <1>6, OpsAre

LEMMA VersionsInTable ==
    \A k : /\ RowsOf(k) = RowsIn(table, k)
           /\ Done(k) = DoneIn(table, k)
           /\ NextVersion(k) = NextVersionIn(table, k)
  BY DEF RowsOf, RowsIn, Done, DoneIn, NextVersion, NextVersionIn, VersionOf

LEMMA ComputeStep ==
    ASSUME ResultsInv, NEW w \in Workers, Compute(w)
    PROVE  ResultsInv'
<1> DEFINE p == worker[w]
<1>1. PICK status \in Outcomes(p) :
        worker' = [worker EXCEPT ![w] =
            [at |-> "saving", op |-> @.op, began |-> @.began, subject |-> @.subject,
             uses |-> @.uses, status |-> status, created |-> Now(@.op),
             version |-> IF Versioned(@.op) THEN NextVersion(@.op) ELSE 0]]
  BY DEF Compute
<1> DEFINE version == IF Versioned(p.op) THEN NextVersion(p.op) ELSE 0
           o == [at |-> "saving", op |-> p.op, began |-> p.began, subject |-> p.subject,
                 uses |-> p.uses, status |-> status, created |-> Now(p.op), version |-> version]
<1>2. p \in Gathering /\ ReadSound(table, p) /\ DOMAIN p.uses = Reads(p.op)
  <2>1. /\ RequestSound(table, selection, worker[w]) /\ worker[w].at = "gathering"
        /\ DOMAIN p.uses = Reads(p.op)
    BY DEF ResultsInv, RequestsSound, Compute
  <2> QED
    BY <2>1 DEF RequestSound, Idle, Saving, Returning, Layering, Finalizing
<1>3. table \in Seq(ResultRow) /\ selection \in {"DRAFT", "CONFIRMED"} /\ Now(p.op) \in Nat
  BY NowIs DEF ResultsInv, ResultsTyped
<1>4. /\ p.op \in Op /\ p.began \in Nat /\ p.subject \in Nat /\ p.uses \in Uses
  BY <1>2 DEF Gathering
<1>5. version \in IF p.op \in VersionedKeys THEN 1..NextVersionIn(table, p.op) ELSE {0}
  <2>1. NextVersion(p.op) \in Nat \ {0} /\ NextVersion(p.op) = NextVersionIn(table, p.op)
    BY <1>3, NextVersionIs, VersionsInTable
  <2> QED
    BY <2>1 DEF Versioned
<1>6. version \in Nat
  <2>1. NextVersionIn(table, p.op) \in Nat
    BY <1>3, NextVersionIs
  <2> HIDE DEF version, p
  <2> QED
    BY <1>5, <2>1
<1>13. p.op \in VersionedKeys => InOrder(table, p.op, p.began, version)
  <2> SUFFICES ASSUME p.op \in VersionedKeys PROVE InOrder(table, p.op, p.began, version)
    OBVIOUS
  <2>1. version = NextVersionIn(table, p.op)
    BY VersionsInTable DEF Versioned
  <2>2. \A j \in RowsIn(table, p.op) : table[j].version < NextVersionIn(table, p.op)
    BY <1>3, NextVersionIs
  <2> HIDE DEF version, p
  <2> QED
    BY <1>2, <2>1, <2>2 DEF InOrder, ReadSound
<1> HIDE DEF version, p
<1>7. /\ status \in {"COMPLETE", "FAILED", "DRAFT"}
      /\ MadeFrom(table, selection, p.op, status, p.subject, p.uses)
  BY <1>1, <1>2, <1>3, <1>4, OutcomeIsSound
<1>8. /\ o \in Saving
      /\ o.op = p.op /\ o.subject = p.subject /\ o.uses = p.uses /\ o.began = p.began
      /\ o.status = status /\ o.version = version /\ o.created = Now(p.op)
  BY <1>3, <1>4, <1>6, <1>7 DEF Saving
<1>9. worker' = [worker EXCEPT ![w] = o] /\ UNCHANGED <<table, progress, selection>>
  BY <1>1 DEF Compute, p, version
<1> HIDE DEF o
<1>10. ReadSound(table, o)
  BY <1>2, <1>8 DEF ReadSound
<1>11. RequestSound(table, selection, o)
  BY <1>2, <1>5, <1>7, <1>8, <1>10, <1>13 DEF RequestSound
<1>12. o.created <= Now(p.op)
  BY <1>3, <1>8
<1> QED
  BY <1>3, <1>9, <1>11, <1>12, RequestMoves

(* A request that is on its way back to the engine. *)
LEMMA ReturningIs ==
    ASSUME ResultsInv, NEW w \in Workers,
           worker[w].at \in {"returning", "layering", "drawn"}
    PROVE  /\ worker[w].op \in WorkflowStages /\ worker[w].row \in Nat
           /\ worker[w].row \in DoneIn(table, worker[w].op)
           /\ worker[w].at = "layering" =>
                 /\ worker[w] \in Layering /\ worker[w].op = "RISK"
                 /\ worker[w].version \in 1..NextVersionIn(table, "LAYER")
                 /\ InOrder(table, "LAYER", worker[w].began, worker[w].version)
<1>1. RequestSound(table, selection, worker[w])
  BY DEF ResultsInv, RequestsSound
<1>2. \/ worker[w] \in Returning /\ worker[w].row \in DoneIn(table, worker[w].op)
      \/ /\ worker[w] \in Layering /\ worker[w].row \in DoneIn(table, "RISK")
         /\ worker[w].version \in 1..NextVersionIn(table, "LAYER")
         /\ InOrder(table, "LAYER", worker[w].began, worker[w].version)
  BY <1>1 DEF RequestSound, Idle, Gathering, Saving, Finalizing
<1>3. CASE worker[w] \in Returning /\ worker[w].row \in DoneIn(table, worker[w].op)
  BY <1>3 DEF Returning
<1>4. CASE /\ worker[w] \in Layering /\ worker[w].row \in DoneIn(table, "RISK")
           /\ worker[w].version \in 1..NextVersionIn(table, "LAYER")
           /\ InOrder(table, "LAYER", worker[w].began, worker[w].version)
  BY <1>4 DEF Layering, WorkflowStages
<1> QED
  BY <1>2, <1>3, <1>4

LEMMA BeginLayerStep ==
    ASSUME ResultsInv, NEW w \in Workers, BeginLayer(w)
    PROVE  ResultsInv'
<1> DEFINE o == [at |-> "layering", op |-> "RISK", row |-> worker[w].row, began |-> Len(table),
                 version |-> NextVersion("LAYER")]
<1>1. worker' = [worker EXCEPT ![w] = o] /\ UNCHANGED <<table, progress, selection>>
  BY DEF BeginLayer
<1>2. /\ worker[w].row \in Nat /\ worker[w].row \in DoneIn(table, "RISK") /\ "RISK" \in Stages
  BY ReturningIs, OpsAre DEF BeginLayer
<1>3. NextVersion("LAYER") \in 1..NextVersionIn(table, "LAYER") /\ NextVersion("LAYER") \in Nat
  BY NextVersionIs, VersionsInTable DEF ResultsInv, ResultsTyped
<1>6. table \in Seq(ResultRow) /\ Len(table) \in Nat
  BY DEF ResultsInv, ResultsTyped
<1>4. /\ o \in Layering /\ o.row = worker[w].row /\ o.version = NextVersion("LAYER")
      /\ o.at = "layering" /\ o.began = Len(table)
  BY <1>2, <1>3, <1>6 DEF Layering
<1> HIDE DEF o
<1>7. InOrder(table, "LAYER", o.began, o.version)
  BY <1>4, <1>6, NextVersionIs, VersionsInTable DEF InOrder
<1>5. RequestSound(table, selection, o)
  BY <1>2, <1>3, <1>4, <1>7 DEF RequestSound
<1> QED
  BY <1>1, <1>4, <1>5, RequestMoves

LEMMA IdleIsSound == Idle.at = "idle" /\ RequestSound(table, selection, Idle)
  BY DEF Idle, RequestSound

LEMMA ReturnStep ==
    ASSUME ResultsInv, NEW w \in Workers, Return(w)
    PROVE  ResultsInv'
<1>1. worker[w].op \in WorkflowStages /\ worker[w].row \in Nat
      /\ worker[w].row \in DoneIn(table, worker[w].op)
  BY ReturningIs DEF Return
<1>2. /\ progress' = [progress EXCEPT ![worker[w].op] = worker[w].row]
      /\ worker' = [worker EXCEPT ![w] = Idle] /\ UNCHANGED <<table, selection>>
  BY DEF Return
<1>3. /\ progress \in [WorkflowStages -> Nat]
      /\ \A s \in WorkflowStages : progress[s] # NoRow => progress[s] \in DoneIn(table, s)
  BY VersionsInTable DEF ResultsInv, ResultsTyped, ProgressIsSound
<1>4. /\ progress' \in [WorkflowStages -> Nat]
      /\ \A s \in WorkflowStages : progress'[s] # NoRow => progress'[s] \in DoneIn(table, s)
  BY <1>1, <1>2, <1>3
<1> QED
  BY <1>2, <1>4, IdleIsSound, RequestStep

LEMMA LoseStep ==
    ASSUME ResultsInv, NEW w \in Workers, Lose(w)
    PROVE  ResultsInv'
<1>1. worker' = [worker EXCEPT ![w] = Idle] /\ UNCHANGED <<table, progress, selection>>
  BY DEF Lose
<1> QED
  BY <1>1, IdleIsSound, RequestMoves

LEMMA LoadReportStep ==
    ASSUME ResultsInv, NEW w \in Workers, LoadReport(w)
    PROVE  ResultsInv'
<1>1. PICK i \in RowsOf("REPORT") :
        table[i].status = "DRAFT" /\ worker' = [worker EXCEPT ![w] = [at |-> "finalizing", row |-> i]]
  BY DEF LoadReport
<1> DEFINE o == [at |-> "finalizing", row |-> i]
<1>2. i \in RowsIn(table, "REPORT") /\ i \in Nat
  BY <1>1, VersionsInTable, RowsHave DEF RowsIn, ResultsInv, ResultsTyped
<1>3. o \in Finalizing /\ o.row = i /\ o.at = "finalizing"
  BY <1>2 DEF Finalizing
<1>4. worker' = [worker EXCEPT ![w] = o] /\ UNCHANGED <<table, progress, selection>>
  BY <1>1 DEF LoadReport
<1> HIDE DEF o
<1>5. RequestSound(table, selection, o)
  BY <1>1, <1>2, <1>3 DEF RequestSound
<1> QED
  BY <1>3, <1>4, <1>5, RequestMoves

(* A step that writes a row. *)
LEMMA WriteStep ==
    ASSUME ResultsInv, NEW w \in Workers, NEW o, NEW r \in ResultRow,
           table' = Append(table, r),
           worker' = [worker EXCEPT ![w] = o], o.at # "saving",
           RowSound(table', selection, Len(table) + 1), RequestSound(table', selection, o),
           UNCHANGED <<progress, selection>>
    PROVE  ResultsInv'
<1> DEFINE n == Len(table) + 1
<1>1. table \in Seq(ResultRow)
  BY DEF ResultsInv, ResultsTyped
<1>2. /\ Later(table, table') /\ table'[n] = r
      /\ DOMAIN table' = DOMAIN table \cup {n} /\ n \notin DOMAIN table
      /\ \A i \in DOMAIN table : table'[i] = table[i]
  BY <1>1, AppendIsLater
<1>3. /\ \A i \in DOMAIN table : RowSound(table', selection', i)
      /\ \A x \in Workers : RequestSound(table', selection', worker[x])
      /\ \A s \in WorkflowStages : progress[s] # NoRow => progress[s] \in DoneIn(table', s)
  BY <1>2, OthersStaySound
<1>4. /\ worker' = [x \in Workers |-> worker'[x]]
      /\ worker'[w] = o
      /\ \A x \in Workers \ {w} : worker'[x] = worker[x]
  BY DEF ResultsInv, ResultsTyped
<1>5. ResultsTyped'
  <2>1. PICK b \in Nat : ClockBound(b)
    BY DEF ResultsInv, ResultsTyped
  <2>2. \A x \in Workers : worker'[x].at = "saving" => worker'[x].created <= b
    BY <1>4, <2>1 DEF ClockBound
  <2>3. table' \in Seq(ResultRow)
    BY <1>2 DEF Later
  <2> QED
    BY <1>4, <2>2, <2>3 DEF ResultsInv, ResultsTyped, ClockBound
<1>6. RowsSound'
  BY <1>2, <1>3 DEF RowsSound
<1>7. RequestsSound'
  BY <1>3, <1>4 DEF RequestsSound
<1>8. ProgressIsSound'
  BY <1>3 DEF ProgressIsSound, Done, DoneIn, RowsOf, RowsIn
<1> QED
  BY <1>5, <1>6, <1>7, <1>8 DEF ResultsInv

LEMMA CommitStep ==
    ASSUME ResultsInv, NEW w \in Workers, Commit(w)
    PROVE  ResultsInv'
<1> DEFINE o == worker[w]
           r == NewRow(o.op, o)
           n == Len(table) + 1
           q == IF o.op \in WorkflowStages /\ o.status = "COMPLETE"
                THEN [at |-> "returning", op |-> o.op, row |-> n] ELSE Idle
<1>1. /\ table' = Append(table, r)
      /\ worker' = [worker EXCEPT ![w] = q] /\ UNCHANGED <<progress, selection>>
  BY DEF Commit
<1>2. /\ o \in Saving /\ ReadSound(table, o) /\ DOMAIN o.uses = Reads(o.op)
      /\ MadeFrom(table, selection, o.op, o.status, o.subject, o.uses)
      /\ o.op \in VersionedKeys => InOrder(table, o.op, o.began, o.version)
  <2>1. RequestSound(table, selection, worker[w]) /\ worker[w].at = "saving"
    BY DEF ResultsInv, RequestsSound, Commit
  <2> QED
    BY <2>1 DEF RequestSound, Idle, Gathering, Returning, Layering, Finalizing
<1>3. /\ o.op \in Op /\ o.began \in Nat /\ o.subject \in Nat /\ o.uses \in Uses
      /\ o.status \in {"COMPLETE", "FAILED", "DRAFT"} /\ o.created \in Nat /\ o.version \in Nat
  BY <1>2 DEF Saving
<1> HIDE DEF o
<1> DEFINE uses == IF o.status = "FAILED" THEN NoUses ELSE o.uses
<1>4. /\ r \in ResultRow
      /\ r.key = o.op /\ r.version = o.version /\ r.status = o.status /\ r.subject = o.subject
      /\ r.began = o.began /\ r.uses = uses
  <2>1. uses \in Uses /\ o.op \in RowKeys
    BY <1>3, NoUsesIs, OpsAre
  <2> HIDE DEF uses
  <2>2. r = [key |-> o.op, version |-> o.version, status |-> o.status, created |-> o.created,
             began |-> o.began, subject |-> o.subject, uses |-> uses, by |-> Nobody]
    BY DEF NewRow, uses
  <2> QED
    BY <1>3, <2>1, <2>2 DEF ResultRow
<1> HIDE DEF r
<1>5. table \in Seq(ResultRow)
  BY DEF ResultsInv, ResultsTyped
<1>6. /\ Later(table, table') /\ table'[n] = r
      /\ DOMAIN table' = DOMAIN table \cup {n} /\ n \in Nat
      /\ \A i \in DOMAIN table : i < n /\ NoRow < n
  <2>1. Len(table) \in Nat /\ DOMAIN table = 1..Len(table)
    BY <1>5
  <2> QED
    BY <1>1, <1>4, <1>5, <2>1, AppendIsLater DEF NoRow
<1>7. RowSound(table', selection, n)
  <2>1. UsesSound(table, o.op, uses)
    BY <1>2, NoUsesIs DEF ReadSound, UsesSound
  <2>2. \A k \in DOMAIN uses : uses[k] < n
    <3>1. \A k \in DOMAIN uses : k \in Sources /\ (uses[k] = NoRow \/ uses[k] \in SourceIn(table, k))
      BY <2>1, SourcesAreRead DEF UsesSound
    <3>2. \A k \in Sources : SourceIn(table, k) \subseteq DOMAIN table
      BY <1>6, LaterSources
    <3>3. NoRow < n
      BY <1>6 DEF NoRow
    <3> QED
      BY <1>6, <3>1, <3>2, <3>3
  <2>3. o.subject < n
    <3>1. SubjectSound(table, o.op, o.subject)
      BY <1>2 DEF ReadSound
    <3>2. o.subject = NoRow \/ o.subject \in DOMAIN table
      BY <3>1 DEF SubjectSound, DoneIn, RowsIn
    <3>3. NoRow < n
      BY <1>6 DEF NoRow
    <3> QED
      BY <1>6, <3>2, <3>3
  <2>4. MadeFrom(table, selection, o.op, o.status, o.subject, uses)
    <3>1. CASE o.status = "FAILED"
      BY <3>1 DEF MadeFrom
    <3>2. CASE o.status # "FAILED"
      BY <1>2, <3>2
    <3> QED
      BY <3>1, <3>2
  <2>5. MadeFrom(table', selection, o.op, o.status, o.subject, uses)
    BY <1>6, <2>4, LaterMade
  <2>6. UsesSound(table', o.op, uses)
    BY <1>6, <2>1, LaterUses
  <2>7. (o.op = "REPORT" /\ o.status # "FAILED") =>
            DOMAIN uses = Reads("REPORT") /\ ReportFresh(table', o.began, uses)
    <3> SUFFICES ASSUME o.op = "REPORT", o.status # "FAILED"
                 PROVE  DOMAIN uses = Reads("REPORT") /\ ReportFresh(table', o.began, uses)
      OBVIOUS
    <3>1. uses = o.uses /\ UsesSound(table, "REPORT", o.uses) /\ ReportFresh(table, o.began, o.uses)
      BY <1>2 DEF ReadSound
    <3> HIDE DEF uses
    <3> QED
      BY <1>2, <1>3, <1>6, <3>1, LaterFresh
  <2>8. o.op \in VersionedKeys => InOrder(table', o.op, o.began, o.version)
    BY <1>2, <1>3, <1>6, LaterOrder
  <2> HIDE DEF uses, n
  <2> QED
    BY <1>4, <1>6, <2>2, <2>3, <2>5, <2>6, <2>7, <2>8 DEF RowSound
<1>8. RequestSound(table', selection, q) /\ q.at # "saving"
  <2>1. CASE o.op \in WorkflowStages /\ o.status = "COMPLETE"
    <3>1. q \in Returning /\ q.op = o.op /\ q.row = n /\ q.at = "returning"
      BY <1>6, <2>1 DEF Returning
    <3>2. n \in DoneIn(table', o.op)
      BY <1>4, <1>6, <2>1 DEF DoneIn, RowsIn
    <3> HIDE DEF q
    <3> QED
      BY <3>1, <3>2 DEF RequestSound
  <2>2. CASE ~(o.op \in WorkflowStages /\ o.status = "COMPLETE")
    <3>1. q = Idle
      BY <2>2
    <3> HIDE DEF q
    <3> QED
      BY <3>1 DEF RequestSound, Idle
  <2> QED
    BY <2>1, <2>2
<1> HIDE DEF q
<1> QED
  BY <1>1, <1>4, <1>7, <1>8, WriteStep

LEMMA CommitLayerStep ==
    ASSUME ResultsInv, NEW w \in Workers, CommitLayer(w)
    PROVE  ResultsInv'
<1> DEFINE o == worker[w]
           r == NewLayer(o)
           n == Len(table) + 1
           q == [at |-> "drawn", op |-> "RISK", row |-> o.row]
<1>1. /\ table' = Append(table, r)
      /\ worker' = [worker EXCEPT ![w] = q] /\ UNCHANGED <<progress, selection>>
      /\ o.at = "layering"
  BY DEF CommitLayer
<1>2. /\ o.row \in Nat /\ o.row \in DoneIn(table, "RISK") /\ "RISK" \in WorkflowStages
      /\ o.version \in 1..NextVersionIn(table, "LAYER")
      /\ InOrder(table, "LAYER", o.began, o.version) /\ o.began \in Nat
  BY <1>1, ReturningIs DEF Layering
<1>3. table \in Seq(ResultRow) /\ o.version \in Nat
  <2>1. NextVersionIn(table, "LAYER") \in Nat /\ table \in Seq(ResultRow)
    BY NextVersionIs DEF ResultsInv, ResultsTyped
  <2> QED
    BY <1>2, <2>1
<1> HIDE DEF o
<1>4. /\ r \in ResultRow
      /\ r.key = "LAYER" /\ r.version = o.version /\ r.status = "COMPLETE" /\ r.subject = o.row
      /\ r.uses = NoUses /\ r.began = o.began
  BY <1>2, <1>3, NoUsesIs, OpsAre DEF NewLayer, ResultRow
<1> HIDE DEF r
<1>5. /\ Later(table, table') /\ table'[n] = r /\ \A i \in DOMAIN table : i < n
  <2>1. Len(table) \in Nat /\ DOMAIN table = 1..Len(table)
    BY <1>3
  <2> QED
    BY <1>1, <1>3, <1>4, <2>1, AppendIsLater
<1>6. o.row \in DoneIn(table', "RISK") /\ o.row \in DOMAIN table
  BY <1>2, <1>5, LaterRows DEF DoneIn, RowsIn
<1>7. RowSound(table', selection, n)
  <2>1. UsesSound(table', "LAYER", NoUses)
    BY NoUsesIs DEF UsesSound
  <2>2. MadeFrom(table', selection, "LAYER", "COMPLETE", o.row, NoUses)
    BY <1>6, SourcesAreRead DEF MadeFrom
  <2>3. InOrder(table', "LAYER", o.began, o.version)
    BY <1>2, <1>5, LaterOrder
  <2> HIDE DEF n
  <2> QED
    BY <1>4, <1>5, <1>6, <2>1, <2>2, <2>3, NoUsesIs DEF RowSound
<1>8. RequestSound(table', selection, q) /\ q.at # "saving"
  <2>1. q \in Returning /\ q.op = "RISK" /\ q.row = o.row /\ q.at = "drawn"
    BY <1>2 DEF Returning
  <2> HIDE DEF q
  <2> QED
    BY <1>6, <2>1 DEF RequestSound
<1> HIDE DEF q
<1> QED
  BY <1>1, <1>4, <1>7, <1>8, WriteStep

(* What FinalizeReport writes. *)
LEMMA FinalizedRow ==
    ASSUME ResultsInv, NEW w \in Workers, FinalizeReport(w)
    PROVE  /\ worker[w].row \in RowsIn(table, "REPORT") /\ table[worker[w].row].status # "FAILED"
           /\ DOMAIN table' = DOMAIN table /\ Len(table') = Len(table)
           /\ table'[worker[w].row] = [table[worker[w].row] EXCEPT !.status = "FINALIZED", !.by = w]
           /\ \A i \in DOMAIN table \ {worker[w].row} : table'[i] = table[i]
           /\ Later(table, table')
<1> DEFINE n == worker[w].row
<1>1. n \in RowsIn(table, "REPORT") /\ table[n].status # "FAILED"
  <2>1. RequestSound(table, selection, worker[w]) /\ worker[w].at = "finalizing"
    BY DEF ResultsInv, RequestsSound, FinalizeReport
  <2> QED
    BY <2>1 DEF RequestSound, Idle, Gathering, Saving, Returning, Layering
<1>2. table \in Seq(ResultRow) /\ n \in DOMAIN table /\ table[n].key = "REPORT"
  BY <1>1 DEF RowsIn, ResultsInv, ResultsTyped
<1>3. table' = [table EXCEPT ![n] = [table[n] EXCEPT !.status = "FINALIZED", !.by = w]]
  BY DEF FinalizeReport
<1> HIDE DEF n
<1> DEFINE r == [table[n] EXCEPT !.status = "FINALIZED", !.by = w]
<1>4. /\ r \in ResultRow
      /\ r.key = table[n].key /\ r.version = table[n].version /\ r.created = table[n].created
      /\ r.began = table[n].began /\ r.subject = table[n].subject /\ r.uses = table[n].uses
      /\ r.status = "FINALIZED"
  <2>1. table[n] \in ResultRow
    BY <1>2
  <2> QED
    BY <2>1 DEF ResultRow
<1> HIDE DEF r
<1>5. table' = [table EXCEPT ![n] = r]
  BY <1>3 DEF r
<1>6. table' \in Seq(ResultRow) /\ Len(table') = Len(table) /\ Len(table) \in Nat
      /\ DOMAIN table' = DOMAIN table
      /\ table'[n] = r /\ \A i \in DOMAIN table \ {n} : table'[i] = table[i]
  BY <1>2, <1>4, <1>5
<1>7. Later(table, table')
  BY <1>1, <1>2, <1>4, <1>6 DEF Later
<1> QED
  BY <1>1, <1>6, <1>7 DEF n, r

LEMMA FinalizeReportStep ==
    ASSUME ResultsInv, NEW w \in Workers, FinalizeReport(w)
    PROVE  ResultsInv'
<1>1. Later(table, table') /\ DOMAIN table' = DOMAIN table
  BY FinalizedRow
<1>2. UNCHANGED <<progress, selection>> /\ worker' = [worker EXCEPT ![w] = Idle]
  BY DEF FinalizeReport
<1>3. /\ \A i \in DOMAIN table : RowSound(table', selection', i)
      /\ \A x \in Workers : RequestSound(table', selection', worker[x])
      /\ \A s \in WorkflowStages : progress[s] # NoRow => progress[s] \in DoneIn(table', s)
  BY <1>1, <1>2, OthersStaySound
<1>4. /\ worker' = [x \in Workers |-> worker'[x]]
      /\ worker'[w] = Idle
      /\ \A x \in Workers \ {w} : worker'[x] = worker[x]
  BY <1>2 DEF ResultsInv, ResultsTyped
<1>5. ResultsTyped'
  <2>1. PICK b \in Nat : ClockBound(b)
    BY DEF ResultsInv, ResultsTyped
  <2>2. \A x \in Workers : worker'[x].at = "saving" => worker'[x].created <= b
    BY <1>4, <2>1, IdleIsSound DEF ClockBound
  <2> QED
    BY <1>1, <1>2, <1>4, <2>1, <2>2 DEF Later, ResultsInv, ResultsTyped, ClockBound
<1>6. RowsSound'
  BY <1>1, <1>3 DEF RowsSound
<1>7. RequestsSound'
  <2>1. RequestSound(table', selection', Idle)
    BY DEF RequestSound
  <2> QED
    BY <1>3, <1>4, <2>1 DEF RequestsSound
<1>8. ProgressIsSound'
  BY <1>2, <1>3 DEF ProgressIsSound, Done, DoneIn, RowsOf, RowsIn
<1> QED
  BY <1>5, <1>6, <1>7, <1>8 DEF ResultsInv

LEMMA ConfirmStep ==
    ASSUME ResultsInv, ConfirmSelection
    PROVE  ResultsInv'
<1>1. /\ selection' = "CONFIRMED" /\ UNCHANGED <<table, worker, progress>>
      /\ Later(table, table')
  BY TableIsLater DEF ConfirmSelection, ResultsInv, ResultsTyped
<1>2. /\ \A i \in DOMAIN table : RowSound(table', selection', i)
      /\ \A x \in Workers : RequestSound(table', selection', worker[x])
  BY <1>1, OthersStaySound
<1>3. ResultsTyped'
  BY <1>1 DEF ResultsInv, ResultsTyped, ClockBound
<1>4. RowsSound' /\ RequestsSound'
  BY <1>1, <1>2 DEF RowsSound, RequestsSound
<1>5. ProgressIsSound'
  BY <1>1 DEF ResultsInv, ProgressIsSound, Done, RowsOf
<1> QED
  BY <1>3, <1>4, <1>5 DEF ResultsInv

LEMMA ResultsStart == Init => ResultsInv
<1> SUFFICES ASSUME Init PROVE ResultsInv
  OBVIOUS
<1>1. table = << >> /\ DOMAIN table = {}
  BY DEF Init
<1>2. \A w \in Workers : worker[w] = Idle
  BY DEF Init
<1>3. ResultsTyped
  <2>1. ClockBound(0)
    BY <1>2, IdleIsSound DEF ClockBound
  <2>2. progress \in [WorkflowStages -> Nat]
    BY DEF Init, NoRow
  <2>3. table \in Seq(ResultRow)
    BY <1>1
  <2>4. worker = [w \in Workers |-> worker[w]] /\ selection \in {"DRAFT", "CONFIRMED"}
    BY DEF Init
  <2> QED
    BY <2>1, <2>2, <2>3, <2>4 DEF ResultsTyped
<1>4. RowsSound
  BY <1>1 DEF RowsSound
<1>5. RequestsSound
  BY <1>2, IdleIsSound DEF RequestsSound
<1>6. ProgressIsSound
  BY DEF Init, ProgressIsSound
<1> QED
  BY <1>3, <1>4, <1>5, <1>6 DEF ResultsInv

LEMMA ResultsStep == ResultsInv /\ [Next]_vars => ResultsInv'
<1> SUFFICES ASSUME ResultsInv, [Next]_vars PROVE ResultsInv'
  OBVIOUS
<1>1. ASSUME NEW w \in Workers, NEW op \in Op, Begin(w, op) PROVE ResultsInv'
  BY <1>1, BeginStep
<1>2. ASSUME NEW w \in Workers, Gather(w) \/ Compute(w) \/ Commit(w) PROVE ResultsInv'
  BY <1>2, GatherStep, ComputeStep, CommitStep
<1>3. ASSUME NEW w \in Workers, BeginLayer(w) \/ CommitLayer(w) \/ Return(w) \/ Lose(w) PROVE ResultsInv'
  BY <1>3, BeginLayerStep, CommitLayerStep, ReturnStep, LoseStep
<1>4. ASSUME NEW w \in Workers, LoadReport(w) \/ FinalizeReport(w) PROVE ResultsInv'
  BY <1>4, LoadReportStep, FinalizeReportStep
<1>5. CASE ConfirmSelection
  BY <1>5, ConfirmStep
<1>6. CASE UNCHANGED vars
  BY <1>6 DEF vars, ResultsInv, ResultsTyped, ClockBound, RowsSound, RequestsSound, ProgressIsSound,
              Done, RowsOf
<1> QED
  BY <1>1, <1>2, <1>3, <1>4, <1>5, <1>6 DEF Next

LEMMA ResultsInvariant == Spec => []ResultsInv
  BY ResultsStart, ResultsStep, PTL DEF Spec

-----------------------------------------------------------------------------
(* What the tables promise *)

LEMMA SoundMeansProperties == ResultsInv => ResultsAreSound
<1> SUFFICES ASSUME ResultsInv PROVE ResultsAreSound
  OBVIOUS
<1>1. table \in Seq(ResultRow) /\ \A i \in DOMAIN table : RowSound(table, selection, i)
  BY DEF ResultsInv, ResultsTyped, RowsSound
<1>2. \A k \in Sources : SourceIn(table, k) \subseteq DOMAIN table
  BY <1>1, TableIsLater, LaterSources
<1>3. \A i \in DOMAIN table : \A k \in DOMAIN table[i].uses :
          table[i].uses[k] \in {NoRow} \cup DOMAIN table
  BY <1>1, <1>2, SourcesAreRead DEF RowSound, UsesSound
<1>4. TypeOK
  <2>1. ASSUME NEW i \in DOMAIN table
        PROVE  /\ [f \in {"key", "version", "status", "created", "began"} |-> table[i][f]] \in Row
               /\ table[i].subject \in {NoRow} \cup DOMAIN table
               /\ table[i].by \in {Nobody} \cup Workers
    <3>1. /\ table[i].key \in RowKeys /\ table[i].version \in Nat /\ table[i].created \in Nat
          /\ table[i].began \in Nat /\ table[i].subject \in Nat
          /\ table[i].status \in {"COMPLETE", "FAILED", "DRAFT", "FINALIZED"}
          /\ table[i].by \in Workers \cup {Nobody}
      BY <1>1, <2>1, RowsHave
    <3>2. [f \in {"key", "version", "status", "created", "began"} |-> table[i][f]] \in Row
      BY <3>1 DEF Row
    <3>3. table[i].subject \in {NoRow} \cup DOMAIN table
      <4>1. table[i].subject < i /\ i \in 1..Len(table) /\ Len(table) \in Nat
            /\ DOMAIN table = 1..Len(table)
        BY <1>1, <2>1, RowsHave DEF RowSound
      <4> QED
        BY <3>1, <4>1 DEF NoRow
    <3> QED
      BY <3>1, <3>2, <3>3
  <2>2. \A w \in Workers : worker[w].at \in {"idle", "gathering", "saving", "returning", "layering",
                                             "drawn", "finalizing"}
    <3> SUFFICES ASSUME NEW w \in Workers
                 PROVE  worker[w].at \in {"idle", "gathering", "saving", "returning", "layering",
                                          "drawn", "finalizing"}
      OBVIOUS
    <3>1. RequestSound(table, selection, worker[w])
      BY DEF ResultsInv, RequestsSound
    <3> QED
      BY <3>1 DEF RequestSound, Idle, Gathering, Saving, Returning, Layering, Finalizing
  <2>3. progress \in [WorkflowStages -> {NoRow} \cup DOMAIN table]
    BY DEF ResultsInv, ResultsTyped, ProgressIsSound, Done, RowsOf
  <2>4. selection \in {"DRAFT", "CONFIRMED"}
    BY DEF ResultsInv, ResultsTyped
  <2> QED
    BY <1>3, <2>1, <2>2, <2>3, <2>4 DEF TypeOK
<1>5. InputsAreComplete
  <2> SUFFICES ASSUME NEW i \in DOMAIN table, table[i].status = "COMPLETE"
               PROVE  /\ table[i].key \in Stages =>
                            /\ DOMAIN table[i].uses = Reads(table[i].key)
                            /\ \A k \in Reads(table[i].key) :
                                  table[i].uses[k] < i /\ table[i].uses[k] \in Done(k)
                      /\ table[i].key = "LAYER" => table[i].subject < i /\ table[i].subject \in Done("RISK")
                      /\ table[i].key = "PREDICTION" => selection = "CONFIRMED"
                      /\ table[i].key = "REGRESSION_VALIDATION" =>
                            table[i].subject < i /\ table[i].subject \in Done("PREDICTION")
                      /\ table[i].key = "VALIDATION" =>
                            \/ table[i].subject = NoRow
                            \/ table[i].subject < i /\ table[i].subject \in Done("RISK")
    BY DEF InputsAreComplete
  <2>1. /\ table[i].subject < i /\ \A k \in DOMAIN table[i].uses : table[i].uses[k] < i
        /\ MadeFrom(table, selection, table[i].key, table[i].status, table[i].subject, table[i].uses)
    BY <1>1 DEF RowSound
  <2> QED
    BY <2>1, VersionsInTable DEF MadeFrom
<1> QED
  BY <1>4, <1>5 DEF ResultsAreSound, ResultsInv

(* A stage's successful result is made from one COMPLETE result of each of *)
(* the stages it depends on, committed before it (_gather_inputs of the    *)
(* stage executors), a layer from a COMPLETE RISK result, a prediction     *)
(* from a CONFIRMED selection, a validation from what it names; and what   *)
(* the workflow engine records as completed is a COMPLETE result of that   *)
(* stage.                                                                  *)
THEOREM ResultsSound == Spec => []ResultsAreSound
  BY ResultsInvariant, SoundMeansProperties, PTL

(* next_version reads max(version) + 1 without a lock, yet a row has a     *)
(* greater version than every row of its key that was committed before its *)
(* request began, however requests overlap: only overlapping ones share a  *)
(* version.                                                                *)
THEOREM VersionsInOrder == Spec => []VersionsFollowRequests
<1>1. ResultsInv => VersionsFollowRequests
  <2> SUFFICES ASSUME ResultsInv, NEW k \in VersionedKeys, NEW i \in RowsOf(k), NEW j \in RowsOf(k),
                      i <= table[j].began
               PROVE  table[i].version < table[j].version
    BY DEF VersionsFollowRequests, VersionOf
  <2>1. RowSound(table, selection, j) /\ table[j].key = k
    BY DEF ResultsInv, RowsSound, RowsOf
  <2>2. InOrder(table, k, table[j].began, table[j].version) /\ i \in RowsIn(table, k)
    BY <2>1, VersionsInTable DEF RowSound
  <2> QED
    BY <2>2 DEF InOrder
<1> QED
  BY <1>1, ResultsInvariant, PTL

(* A report shows nothing older than what was committed before its request *)
(* began, though its sections are read one SELECT at a time while other    *)
(* requests write (GenerateReportHandler with the composition root's       *)
(* readers); for the validation, while all runs fit on the one page read.  *)
THEOREM FreshReports == Spec => []ReportsAreFresh
<1>1. ResultsInv => ReportsAreFresh
  <2> SUFFICES ASSUME ResultsInv, NEW i \in RowsIn(table, "REPORT"), table[i].status # "FAILED"
               PROVE  /\ \A k \in Stages : \A j \in DoneIn(table, k) : j <= table[i].began =>
                            table[i].uses[k] # NoRow /\ table[j].version <= table[table[i].uses[k]].version
                      /\ \A j \in DoneIn(table, "PREDICTION") : j <= table[i].began =>
                            /\ table[i].uses["PREDICTION"] # NoRow
                            /\ table[j].created <= table[table[i].uses["PREDICTION"]].created
                      /\ Cardinality(ValidationsIn(table)) <= PageLimit =>
                            \A j \in SourceIn(table, "VALIDATION") : j <= table[i].began =>
                               /\ table[i].uses["VALIDATION"] # NoRow
                               /\ table[j].created <= table[table[i].uses["VALIDATION"]].created
    BY DEF ReportsAreFresh, ValidationRuns, ValidationsIn, SourceIn, RowsOf, RowsIn, Done, DoneIn,
           VersionOf, CreatedOf
  <2>1. DOMAIN table[i].uses = Sources /\ ReportFresh(table, table[i].began, table[i].uses)
    BY SourcesAreRead DEF ResultsInv, RowsSound, RowSound, RowsIn
  <2>2. \A k \in Sources : SectionFresh(table, table[i].began, table[i].uses, k)
    BY <2>1 DEF ReportFresh
  <2> QED
    BY <2>2 DEF SectionFresh, Sources
<1> QED
  BY <1>1, ResultsInvariant, PTL

(* Only the commit of a run or a layer and the finalizing of a report     *)
(* write a row.                                                            *)
LEMMA StepWritesOrNot ==
    ASSUME [Next]_vars
    PROVE  \/ UNCHANGED table
           \/ \E w \in Workers : Commit(w) \/ CommitLayer(w)
           \/ \E w \in Workers : FinalizeReport(w)
  BY DEF Next, vars, Begin, Gather, Compute, BeginLayer, Return, Lose, LoadReport, ConfirmSelection

(* Rows are written once: a step adds at most one row, and of an old row   *)
(* it changes only a report's status to FINALIZED and its finalizer.       *)
LEMMA WrittenOnce ==
    ASSUME ResultsInv, [Next]_vars
    PROVE  /\ Len(table') \in {Len(table), Len(table) + 1}
           /\ \A i \in DOMAIN table :
                 \/ table'[i] = table[i]
                 \/ /\ table[i].key = "REPORT" /\ table[i].status # "FAILED"
                    /\ \E w \in Workers :
                          table'[i] = [table[i] EXCEPT !.status = "FINALIZED", !.by = w]
<1>1. table \in Seq(ResultRow)
  BY DEF ResultsInv, ResultsTyped
<1>2. CASE UNCHANGED table
  BY <1>2
<1>3. ASSUME NEW r, table' = Append(table, r)
      PROVE  Len(table') = Len(table) + 1 /\ \A i \in DOMAIN table : table'[i] = table[i]
  BY <1>1, <1>3
<1>4. ASSUME NEW w \in Workers, Commit(w) \/ CommitLayer(w) PROVE \E r : table' = Append(table, r)
  BY <1>4 DEF Commit, CommitLayer
<1>5. ASSUME NEW w \in Workers, FinalizeReport(w)
      PROVE  /\ Len(table') = Len(table)
             /\ \A i \in DOMAIN table :
                   \/ table'[i] = table[i]
                   \/ /\ table[i].key = "REPORT" /\ table[i].status # "FAILED"
                      /\ table'[i] = [table[i] EXCEPT !.status = "FINALIZED", !.by = w]
  BY <1>5, FinalizedRow DEF RowsIn
<1> QED
  BY <1>2, <1>3, <1>4, <1>5, StepWritesOrNot

-----------------------------------------------------------------------------
(* The tables as a VersionedLog *)

LEMMA NumberedIs ==
    ASSUME table \in Seq(ResultRow)
    PROVE  /\ DOMAIN Numbered = DOMAIN table
           /\ \A i \in DOMAIN table :
                 Numbered[i].key = table[i].key /\ Numbered[i].version = table[i].version
           /\ \A k : 1 + Log!Highest(k) = NextVersionIn(table, k)
                     /\ Log!Versions(k) = {table[i].version : i \in RowsIn(table, k)}
<1>1. /\ DOMAIN Numbered = DOMAIN table
      /\ \A i \in DOMAIN table :
            Numbered[i].key = table[i].key /\ Numbered[i].version = table[i].version
  BY DEF Numbered
<1>2. ASSUME NEW k PROVE Log!Versions(k) = {table[i].version : i \in RowsIn(table, k)}
  <2>1. {j \in DOMAIN Numbered : Numbered[j].key = k} = RowsIn(table, k)
    BY <1>1 DEF RowsIn
  <2>2. \A i \in RowsIn(table, k) : Numbered[i].version = table[i].version
    BY <1>1 DEF RowsIn
  <2> QED
    BY <2>1, <2>2 DEF Log!Versions
<1>3. \A S : Log!Max(S) = Max(S)
  BY DEF Log!Max, Max
<1>4. \A k : 1 + Log!Highest(k) = NextVersionIn(table, k)
  BY <1>2, <1>3 DEF Log!Highest, NextVersionIn
<1> QED
  BY <1>1, <1>2, <1>4

(* What a request writes: one row, whose version is at most one above the  *)
(* highest of its key.                                                     *)
LEMMA WritesOneNumber ==
    ASSUME ResultsInv, NEW w \in Workers, Commit(w) \/ CommitLayer(w)
    PROVE  \E r \in ResultRow :
              /\ table' = Append(table, r)
              /\ r.version \in IF r.key \in VersionedKeys THEN 1..NextVersionIn(table, r.key) ELSE {0}
<1>1. CASE Commit(w)
  <2> DEFINE o == worker[w]
             r == NewRow(o.op, o)
  <2>1. table' = Append(table, r)
    BY <1>1 DEF Commit
  <2>2. /\ o \in Saving
        /\ o.version \in IF o.op \in VersionedKeys THEN 1..NextVersionIn(table, o.op) ELSE {0}
    <3>1. RequestSound(table, selection, worker[w]) /\ worker[w].at = "saving"
      BY <1>1 DEF ResultsInv, RequestsSound, Commit
    <3> QED
      BY <3>1 DEF RequestSound, Idle, Gathering, Returning, Layering, Finalizing
  <2>3. /\ o.op \in RowKeys /\ o.began \in Nat /\ o.subject \in Nat /\ o.uses \in Uses
        /\ o.status \in {"COMPLETE", "FAILED", "DRAFT"} /\ o.created \in Nat /\ o.version \in Nat
    BY <2>2, OpsAre DEF Saving
  <2> HIDE DEF o
  <2>4. r \in ResultRow /\ r.key = o.op /\ r.version = o.version
    <3> DEFINE uses == IF o.status = "FAILED" THEN NoUses ELSE o.uses
    <3>1. uses \in Uses
      BY <2>3, NoUsesIs
    <3>2. r = [key |-> o.op, version |-> o.version, status |-> o.status, created |-> o.created,
               began |-> o.began, subject |-> o.subject, uses |-> uses, by |-> Nobody]
      BY DEF NewRow
    <3> HIDE DEF uses, r
    <3> QED
      BY <2>3, <3>1, <3>2 DEF ResultRow
  <2> HIDE DEF r
  <2> QED
    BY <2>1, <2>2, <2>4
<1>2. CASE CommitLayer(w)
  <2> DEFINE o == worker[w]
             r == NewLayer(o)
  <2>1. table' = Append(table, r) /\ o.at = "layering"
    BY <1>2 DEF CommitLayer
  <2>2. o.row \in Nat /\ o.began \in Nat /\ o.version \in 1..NextVersionIn(table, "LAYER")
    BY <2>1, ReturningIs DEF Layering
  <2>3. NextVersionIn(table, "LAYER") \in Nat
    BY NextVersionIs DEF ResultsInv, ResultsTyped
  <2>4. o.version \in Nat
    BY <2>2, <2>3
  <2> HIDE DEF o
  <2>5. r \in ResultRow /\ r.key = "LAYER" /\ r.version = o.version
    BY <2>2, <2>4, NoUsesIs, OpsAre DEF NewLayer, ResultRow
  <2> HIDE DEF r
  <2> QED
    BY <2>1, <2>2, <2>5, OpsAre
<1> QED
  BY <1>1, <1>2

LEMMA LogStep ==
    ASSUME ResultsInv, [Next]_vars
    PROVE  [Log!Next]_Numbered
<1>1. table \in Seq(ResultRow) /\ DOMAIN table = 1..Len(table) /\ Len(table) \in Nat
  BY DEF ResultsInv, ResultsTyped
<1>2. CASE UNCHANGED table
  BY <1>2 DEF Numbered
<1>3. ASSUME NEW w \in Workers, Commit(w) \/ CommitLayer(w) PROVE Log!Next
  <2>1. PICK r \in ResultRow :
          /\ table' = Append(table, r)
          /\ r.version \in IF r.key \in VersionedKeys THEN 1..NextVersionIn(table, r.key) ELSE {0}
    BY <1>3, WritesOneNumber
  <2> DEFINE e == [key |-> r.key, version |-> r.version]
             n == Len(table) + 1
  <2>2. r.key \in RowKeys
    BY DEF ResultRow
  <2>3. Numbered' = [i \in DOMAIN table' |-> [key |-> table'[i].key, version |-> table'[i].version]]
    BY DEF Numbered
  <2>4. /\ DOMAIN table' = 1..n /\ table'[n] = r
        /\ \A i \in 1..Len(table) : table'[i] = table[i]
    BY <1>1, <2>1
  <2>5. Numbered = [i \in 1..Len(table) |-> [key |-> table[i].key, version |-> table[i].version]]
    BY <1>1 DEF Numbered
  <2>6. Numbered' = Append(Numbered, e)
    <3> DEFINE E == {[key |-> table[i].key, version |-> table[i].version] : i \in 1..Len(table)}
    <3>1. Numbered \in Seq(E) /\ Len(Numbered) = Len(table)
      BY <1>1, <2>5
    <3>2. /\ Append(Numbered, e) = [i \in 1..n |-> IF i = n THEN e ELSE Numbered[i]]
      BY <1>1, <3>1
    <3>3. \A i \in 1..n : [key |-> table'[i].key, version |-> table'[i].version]
                          = IF i = n THEN e ELSE Numbered[i]
      BY <1>1, <2>4, <2>5
    <3> QED
      BY <2>3, <2>4, <3>2, <3>3
  <2>7. r.version \in IF r.key \in VersionedKeys THEN 1 .. (Log!Highest(r.key) + 1) ELSE {0}
    <3>1. Log!Highest(r.key) + 1 = NextVersionIn(table, r.key)
      <4>1. 1 + Log!Highest(r.key) = NextVersionIn(table, r.key) /\ NextVersionIn(table, r.key) \in Nat
        BY <1>1, NumberedIs, NextVersionIs
      <4>2. Log!Highest(r.key) \in Nat
        <5> DEFINE S == {0} \cup {table[i].version : i \in RowsIn(table, r.key)}
        <5>1. PICK b \in Nat : \A i \in DOMAIN table : table[i].version <= b
          BY <1>1, RowsBounded
        <5>2. S \subseteq Nat /\ 0 \in S /\ \A y \in S : y <= b
          BY <1>1, <5>1, RowsHave DEF RowsIn
        <5>3. Log!Highest(r.key) = Max(S)
          <6>1. \A T : Log!Max(T) = Max(T)
            BY DEF Log!Max, Max
          <6> QED
            BY <1>1, <6>1, NumberedIs DEF Log!Highest
        <5> HIDE DEF S
        <5> QED
          BY <5>2, <5>3, MaxIs
      <4> QED
        BY <4>1, <4>2
    <3> QED
      BY <2>1, <3>1
  <2>8. Log!Add(r.key)
    BY <2>6, <2>7 DEF Log!Add
  <2> QED
    BY <2>2, <2>8 DEF Log!Next
<1>4. ASSUME NEW w \in Workers, FinalizeReport(w) PROVE UNCHANGED Numbered
  <2>1. DOMAIN table' = DOMAIN table
        /\ \A i \in DOMAIN table : table'[i].key = table[i].key /\ table'[i].version = table[i].version
    BY <1>4, FinalizedRow DEF Later
  <2>2. Numbered' = [i \in DOMAIN table' |-> [key |-> table'[i].key, version |-> table'[i].version]]
    BY DEF Numbered
  <2> QED
    BY <2>1, <2>2 DEF Numbered
<1> QED
  BY <1>2, <1>3, <1>4, StepWritesOrNot

(* The five tables implement VersionedLog: whatever requests overlap, a    *)
(* row's version is at most one above the highest committed of its key,    *)
(* and rows are written once.                                              *)
THEOREM TablesAreALog == Spec => ImplementsLog
<1>1. Init => Log!Init
  BY DEF Init, Log!Init, Numbered
<1>2. ResultsInv /\ [Next]_vars => [Log!Next]_Numbered
  BY LogStep
<1>3. Spec => LogSpec
  BY <1>1, <1>2, ResultsInvariant, PTL DEF Spec, LogSpec, Log!Spec
<1>4. ResultsInv /\ [Next]_vars =>
        [/\ Len(table') \in {Len(table), Len(table) + 1}
         /\ \A i \in DOMAIN table :
               \/ table'[i] = table[i]
               \/ /\ table[i].key = "REPORT" /\ table[i].status # "FAILED"
                  /\ \E w \in Workers :
                        table'[i] = [table[i] EXCEPT !.status = "FINALIZED", !.by = w]]_vars
  BY WrittenOnce
<1>5. Spec => RowsAreWrittenOnce
  BY <1>4, ResultsInvariant, PTL DEF Spec, RowsAreWrittenOnce
<1> QED
  BY <1>3, <1>5 DEF ImplementsLog

(* No version of a key is skipped. *)
Gapless == \A k \in VersionedKeys : \E m \in Nat : {table[i].version : i \in RowsIn(table, k)} = 1..m

LEMMA GaplessStep ==
    ASSUME ResultsInv, Gapless, [Next]_vars
    PROVE  Gapless'
<1>1. table \in Seq(ResultRow)
  BY DEF ResultsInv, ResultsTyped
<1>2. CASE UNCHANGED table
  BY <1>2 DEF Gapless, RowsIn
<1>3. ASSUME NEW w \in Workers, Commit(w) \/ CommitLayer(w) PROVE Gapless'
  <2>1. PICK r \in ResultRow :
          /\ table' = Append(table, r)
          /\ r.version \in IF r.key \in VersionedKeys THEN 1..NextVersionIn(table, r.key) ELSE {0}
    BY <1>3, WritesOneNumber
  <2> DEFINE n == Len(table) + 1
  <2>2. /\ DOMAIN table' = DOMAIN table \cup {n} /\ n \notin DOMAIN table /\ table'[n] = r
        /\ \A i \in DOMAIN table : table'[i] = table[i]
    BY <1>1, <2>1, AppendIsLater
  <2> HIDE DEF n
  <2> SUFFICES ASSUME NEW k \in VersionedKeys
               PROVE  \E m \in Nat : {table'[i].version : i \in RowsIn(table', k)} = 1..m
    BY DEF Gapless
  <2> DEFINE V == {table[i].version : i \in RowsIn(table, k)}
             W == {table'[i].version : i \in RowsIn(table', k)}
  <2>3. PICK m \in Nat : V = 1..m
    BY DEF Gapless
  <2>4. CASE r.key # k
    <3>1. RowsIn(table', k) = RowsIn(table, k) /\ RowsIn(table, k) \subseteq DOMAIN table
      BY <2>2, <2>4 DEF RowsIn
    <3>2. W = V
      BY <2>2, <3>1
    <3> QED
      BY <2>3, <3>2
  <2>5. CASE r.key = k
    <3>1. RowsIn(table', k) = RowsIn(table, k) \cup {n} /\ RowsIn(table, k) \subseteq DOMAIN table
      BY <2>2, <2>5 DEF RowsIn
    <3>2. W = V \cup {r.version}
      BY <2>2, <3>1
    <3>3. r.version \in 1..NextVersionIn(table, k) /\ NextVersionIn(table, k) \in Nat \ {0}
      BY <1>1, <2>1, <2>5, NextVersionIs
    <3>4. NextVersionIn(table, k) = 1 \/ NextVersionIn(table, k) \in {x + 1 : x \in V}
      <4>1. NextVersionIn(table, k) = 1
            \/ \E i \in RowsIn(table, k) : NextVersionIn(table, k) = 1 + table[i].version
        BY <1>1, NextVersionIs
      <4>2. \A i \in RowsIn(table, k) : table[i].version \in V /\ table[i].version \in Nat
        BY <1>1, RowsHave DEF RowsIn
      <4>3. \A x \in Nat : 1 + x = x + 1
        OBVIOUS
      <4> HIDE DEF V
      <4> QED
        BY <4>1, <4>2, <4>3
    <3> HIDE DEF V, W
    <3>5. NextVersionIn(table, k) <= m + 1
      BY <2>3, <3>3, <3>4
    <3>6. W = 1..m \/ W = 1..(m + 1)
      BY <2>3, <3>2, <3>3, <3>5
    <3> QED
      BY <3>6 DEF W
  <2> QED
    BY <2>4, <2>5
<1>4. ASSUME NEW w \in Workers, FinalizeReport(w) PROVE Gapless'
  <2>1. DOMAIN table' = DOMAIN table
        /\ \A i \in DOMAIN table : table'[i].key = table[i].key /\ table'[i].version = table[i].version
    BY <1>4, FinalizedRow DEF Later
  <2>2. \A k : /\ RowsIn(table', k) = RowsIn(table, k)
               /\ {table'[i].version : i \in RowsIn(table', k)} = {table[i].version : i \in RowsIn(table, k)}
    BY <2>1 DEF RowsIn
  <2> QED
    BY <2>2 DEF Gapless
<1> QED
  BY <1>2, <1>3, <1>4, StepWritesOrNot

(* next_version never skips a number: the versions of a key are 1 up to    *)
(* the highest one, whatever requests fail, overlap or end between reading *)
(* max(version) and their insert.                                          *)
THEOREM NoVersionIsSkipped == Spec => []Log!GapFree
<1>1. Init => Gapless
  <2> SUFFICES ASSUME Init PROVE Gapless
    OBVIOUS
  <2>1. \A k : {table[i].version : i \in RowsIn(table, k)} = 1..0
    BY DEF Init, RowsIn
  <2> QED
    BY <2>1 DEF Gapless
<1>2. ResultsInv /\ Gapless /\ [Next]_vars => Gapless'
  BY GaplessStep
<1>3. ResultsInv /\ Gapless => Log!GapFree
  <2> SUFFICES ASSUME ResultsInv, Gapless, NEW k \in VersionedKeys
               PROVE  Log!Versions(k) = 1 .. Log!Highest(k)
    BY DEF Log!GapFree
  <2> DEFINE V == {table[i].version : i \in RowsIn(table, k)}
  <2>1. PICK m \in Nat : V = 1..m
    BY DEF Gapless
  <2>2. table \in Seq(ResultRow)
    BY DEF ResultsInv, ResultsTyped
  <2>3. Log!Versions(k) = V /\ Log!Highest(k) = Max({0} \cup V)
    <3>1. \A T : Log!Max(T) = Max(T)
      BY DEF Log!Max, Max
    <3> QED
      BY <2>2, <3>1, NumberedIs DEF Log!Highest
  <2> HIDE DEF V
  <2>4. {0} \cup V \in SUBSET Nat /\ 0 \in {0} \cup V /\ \A y \in {0} \cup V : y <= m
    BY <2>1
  <2>5. Max({0} \cup V) \in {0} \cup V /\ \A y \in {0} \cup V : y <= Max({0} \cup V)
    BY <2>4, MaxIs
  <2>6. m \in {0} \cup V
    BY <2>1
  <2>7. Max({0} \cup V) = m
    BY <2>4, <2>5, <2>6
  <2> QED
    BY <2>1, <2>3, <2>7
<1> QED
  BY <1>1, <1>2, <1>3, ResultsInvariant, PTL DEF Spec
==============================================================================
