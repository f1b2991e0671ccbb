----------------------- MODULE LifecycleAndAoiProofs -----------------------
(***************************************************************************)
(* Four parts of the system, for every set of stage types, templates,      *)
(* requests, areas, sampling strategies, surveys and series of numbers.    *)
(*                                                                         *)
(* AssessmentLifecycle: WorkIsNeverUndone and BindingIsPermanent are not   *)
(* guarded by the commands themselves (start_workflow overwrites both the  *)
(* binding and the progress); they follow from UntouchedBeforeRunning.     *)
(*                                                                         *)
(* Geospatial: AoiInv says what a request may rely on after others have    *)
(* committed.  What a campaign counts rests on the sums of finite sets of  *)
(* integers and on how far rounded shares can be off.                      *)
(*                                                                         *)
(* RiskIndices: every index is a rounded, clamped sum or product, and each *)
(* of these keeps the order of two surveys; Harmful says that no key is on *)
(* the wrong side.                                                         *)
(*                                                                         *)
(* Statistics: an average rank is a count of smaller and of equal values,  *)
(* and so are the concordant pairs of Kendall's tau, the pairs a rank-sum  *)
(* AUC counts and the trapezoids under the ROC points; what is left is     *)
(* counting in two ways and the inequality of Cauchy and Schwarz.          *)
(***************************************************************************)
EXTENDS AssessmentLifecycle, AssessmentDomainProofs, Geospatial, RiskIndices, Statistics,
        FunctionTheorems, FiniteSetTheorems

(* Every step is one legal command. *)
LEMMA NextIsCommand ==
    ASSUME Next
    PROVE  \E c \in Command : Handle(c)
<1>1. CASE MarkReady \/ Start \/ Validate \/ Report \/ Archive \/ Cancel
  BY <1>1 DEF MarkReady, Start, Validate, Report, Archive, Cancel,
              Command, LifecycleCommand, LifecycleOp
<1>2. CASE \E t \in TemplateId : StartWorkflow(t)
  BY <1>2 DEF StartWorkflow, Command, StartWorkflowCmd
<1>3. CASE \E st \in StageType : ExecuteStage(st) \/ RecordStageCompletion(st)
                                                  \/ RecordStageFailure(st)
  BY <1>3 DEF ExecuteStage, RecordStageCompletion, RecordStageFailure,
              Command, StageCommand, StageOp
<1>4. CASE AdvanceAssessment
  BY <1>4 DEF AdvanceAssessment, Command, AdvanceCmd
<1> QED
  BY <1>1, <1>2, <1>3, <1>4 DEF Next

(* The invariant says that the assessment is sound. *)
LEMMA InvIsSound == Inv <=> assessment \in Assessment /\ Sound(assessment)
  BY DEF Inv, TypeOK, UntouchedBeforeRunning, AttemptsMatchStatus, Sound, progress

(* What a step can do, given the invariant. *)
LEMMA NextStep ==
    ASSUME Inv, Next
    PROVE  /\ Inv'
           /\ assessment.workflow_template_id # NoTemplate =>
                 assessment'.workflow_template_id = assessment.workflow_template_id
           /\ \A st \in StageType :
                 /\ is_complete(progress, st) => is_complete(progress', st)
                 /\ progress'[st].attempt_count >= progress[st].attempt_count
<1>1. PICK c \in Command : Legal(assessment, c) /\ assessment' = Apply(assessment, c)
  BY NextIsCommand DEF Handle
<1>2. assessment \in Assessment /\ Sound(assessment)
  BY InvIsSound
<1>3. assessment' \in Assessment
  BY <1>1, <1>2, ApplyType
<1>4. /\ Sound(assessment')
      /\ assessment.workflow_template_id # NoTemplate =>
            assessment'.workflow_template_id = assessment.workflow_template_id
      /\ \A st \in StageType :
            /\ is_complete(progress, st) => is_complete(progress', st)
            /\ progress'[st].attempt_count >= progress[st].attempt_count
  BY <1>1, <1>2, CommandStep DEF progress
<1> QED
  BY <1>3, <1>4 DEF Inv, TypeOK, UntouchedBeforeRunning, AttemptsMatchStatus, Sound, progress

(* The three invariants of an assessment, together inductive. *)
THEOREM Invariance == Spec => []Inv
<1>1. Init => Inv
  BY CreatedType, CreatedSound, InvIsSound DEF Init
<1>2. Inv /\ [Next]_assessment => Inv'
  BY NextStep DEF Inv, TypeOK, UntouchedBeforeRunning, AttemptsMatchStatus, progress
<1> QED
  BY <1>1, <1>2, PTL DEF Spec

(* Type correctness of the aggregate. *)
THEOREM TypeCorrect == Spec => []TypeOK
<1>1. Inv => TypeOK
  BY DEF Inv
<1> QED
  BY <1>1, Invariance, PTL

(* An assessment that was never started is untouched. *)
THEOREM Untouched == Spec => []UntouchedBeforeRunning
<1>1. Inv => UntouchedBeforeRunning
  BY DEF Inv
<1> QED
  BY <1>1, Invariance, PTL

(* Attempts are counted exactly for the stages that were started. *)
THEOREM AttemptsAgree == Spec => []AttemptsMatchStatus
<1>1. Inv => AttemptsMatchStatus
  BY DEF Inv
<1> QED
  BY <1>1, Invariance, PTL

(* A bound assessment is never bound to another template. *)
THEOREM PermanentBinding == Spec => BindingIsPermanent
<1>1. Inv /\ [Next]_assessment =>
        [assessment.workflow_template_id # NoTemplate =>
            assessment'.workflow_template_id = assessment.workflow_template_id]_assessment
  BY NextStep
<1> QED
  BY <1>1, Invariance, PTL DEF Spec, BindingIsPermanent

(* No command undoes a COMPLETE stage or forgets an attempt. *)
THEOREM NeverUndone == Spec => WorkIsNeverUndone
<1>1. Inv /\ [Next]_assessment =>
        [\A st \in StageType :
            /\ is_complete(progress, st) => is_complete(progress', st)
            /\ progress'[st].attempt_count >= progress[st].attempt_count]_assessment
  BY NextStep
<1> QED
  BY <1>1, Invariance, PTL DEF Spec, WorkIsNeverUndone

-----------------------------------------------------------------------------
(* Sums over finite sets: the folds of the community modules, which choose *)
(* the next element, computed without choosing. *)

(* Induction over a finite set, for a set of subsets in place of a         *)
(* predicate. *)
LEMMA Growing ==
    ASSUME NEW S, IsFiniteSet(S), NEW C \in SUBSET (SUBSET S),
           {} \in C, \A T \in C, x \in S : x \notin T => T \cup {x} \in C
    PROVE  S \in C
<1> DEFINE rests == {S \ T : T \in C}
<1>1. rests # {} /\ rests \subseteq FiniteSubsetsOf(S)
  <2>1. ASSUME NEW T \in C PROVE S \ T \in FiniteSubsetsOf(S)
    <3>1. IsFiniteSet(S \ T)
      BY FS_Subset
    <3> QED
      BY <3>1 DEF FiniteSubsetsOf
  <2> QED
    BY <2>1
<1> HIDE DEF rests
<1>2. PICK A \in rests : \A B \in rests : ~(<<B, A>> \in StrictSubsetOrdering(S))
  BY <1>1, FS_StrictSubsetOrderingWellFounded, WFMin
<1>3. PICK T \in C : A = S \ T
  BY <1>2 DEF rests
<1>4. CASE A = {}
  BY <1>3, <1>4
<1>5. CASE A # {}
  <2>1. PICK x \in S : x \notin T
    BY <1>3, <1>5
  <2>2. S \ (T \cup {x}) \in rests
    BY <2>1 DEF rests
  <2>3. S \ (T \cup {x}) \subseteq A /\ S \ (T \cup {x}) # A
        /\ S \ (T \cup {x}) \in SUBSET S /\ A \in SUBSET S
    BY <2>1, <1>3
  <2>4. <<S \ (T \cup {x}), A>> \in StrictSubsetOrdering(S)
    BY <2>3 DEF StrictSubsetOrdering
  <2> QED
    BY <1>2, <2>2, <2>4
<1> QED
  BY <1>4, <1>5

(* The sum of f over S, counted: the units of its positive values less     *)
(* those of its negative ones. *)
Units(f, S) == {u \in S \X Nat : u[2] >= 1 /\ u[2] <= f[u[1]]}

Debts(f, S) == {u \in S \X Nat : u[2] >= 1 /\ u[2] <= -f[u[1]]}

Counted(f, S) == Cardinality(Units(f, S)) - Cardinality(Debts(f, S))

(* One more element adds a column of as many units as its value. *)
Column(x, n) == {u \in {x} \X Nat : u[2] >= 1 /\ u[2] <= n}

LEMMA UnitColumn ==
    ASSUME NEW x, NEW n \in Int
    PROVE  IsFiniteSet(Column(x, n)) /\ Cardinality(Column(x, n)) = IF n > 0 THEN n ELSE 0
<1> DEFINE c == Column(x, n)
           h == [k \in 1..n |-> <<x, k>>]
<1>1. c = {<<x, k>> : k \in 1..n}
  BY DEF Column
<1>2. h \in Bijection(1..n, c)
  <2>1. h \in [1..n -> c]
    BY <1>1
  <2>2. \A j, k \in 1..n : h[j] = h[k] => j = k
    OBVIOUS
  <2>3. \A u \in c : \E k \in 1..n : h[k] = u
    BY <1>1
  <2> HIDE DEF h, c
  <2> QED
    BY <2>1, <2>2, <2>3, Fun_IsBij
<1>3. IsFiniteSet(1..n) /\ Cardinality(1..n) = IF n > 0 THEN n ELSE 0
  BY FS_Interval
<1>4. ExistsBijection(1..n, c)
  BY <1>2 DEF ExistsBijection
<1> HIDE DEF c, h
<1>5. IsFiniteSet(c) /\ Cardinality(c) = Cardinality(1..n)
  BY ONLY <1>3, <1>4, FS_Bijection
<1> QED
  BY <1>3, <1>5 DEF c

LEMMA UnitsFinite ==
    ASSUME NEW S, IsFiniteSet(S), NEW f, \A x \in S : f[x] \in Int
    PROVE  IsFiniteSet(Units(f, S)) /\ IsFiniteSet(Debts(f, S))
<1> DEFINE C == {T \in SUBSET S : IsFiniteSet(Units(f, T)) /\ IsFiniteSet(Debts(f, T))}
<1>1. {} \in C
  <2>1. Units(f, {}) = {} /\ Debts(f, {}) = {}
    BY DEF Units, Debts
  <2> QED
    BY <2>1, FS_EmptySet
<1>2. ASSUME NEW T \in C, NEW x \in S, x \notin T PROVE T \cup {x} \in C
  <2> DEFINE up == Column(x, f[x])
             down == Column(x, -f[x])
  <2>1. Units(f, T \cup {x}) = Units(f, T) \cup up
    BY DEF Units, Column
  <2>2. Debts(f, T \cup {x}) = Debts(f, T) \cup down
    BY DEF Debts, Column
  <2>3. IsFiniteSet(up) /\ IsFiniteSet(down)
    BY UnitColumn
  <2> HIDE DEF up, down
  <2> QED
    BY <2>1, <2>2, <2>3, FS_Union
<1> HIDE DEF C
<1>3. C \in SUBSET (SUBSET S)
  BY DEF C
<1>4. S \in C
  BY <1>1, <1>2, <1>3, Growing
<1> QED
  BY <1>4 DEF C

LEMMA CountedAdd ==
    ASSUME NEW T, IsFiniteSet(T), NEW x, x \notin T, NEW f,
           f[x] \in Int, \A y \in T : f[y] \in Int
    PROVE  /\ Counted(f, T) \in Int
           /\ Counted(f, T \cup {x}) = f[x] + Counted(f, T)
<1> DEFINE up == Column(x, f[x])
           down == Column(x, -f[x])
<1>1. Units(f, T \cup {x}) = Units(f, T) \cup up /\ Units(f, T) \cap up = {}
  BY DEF Units, Column
<1>2. Debts(f, T \cup {x}) = Debts(f, T) \cup down /\ Debts(f, T) \cap down = {}
  BY DEF Debts, Column
<1>3. IsFiniteSet(up) /\ Cardinality(up) = IF f[x] > 0 THEN f[x] ELSE 0
  BY UnitColumn
<1>4. IsFiniteSet(down) /\ Cardinality(down) = IF -f[x] > 0 THEN -f[x] ELSE 0
  BY UnitColumn
<1>5. IsFiniteSet(Units(f, T)) /\ IsFiniteSet(Debts(f, T))
  BY UnitsFinite
<1>6. Cardinality(Units(f, T)) \in Nat /\ Cardinality(Debts(f, T)) \in Nat
  BY <1>5, FS_CardinalityType
<1> HIDE DEF up, down
<1>7. Cardinality(Units(f, T \cup {x})) = Cardinality(Units(f, T)) + Cardinality(up)
  <2>1. Cardinality(Units(f, T) \cap up) = 0
    BY <1>1, FS_EmptySet
  <2>2. Cardinality(up) \in Nat
    BY <1>3, FS_CardinalityType
  <2>3. Cardinality(Units(f, T) \cup up)
          = Cardinality(Units(f, T)) + Cardinality(up) - Cardinality(Units(f, T) \cap up)
    BY <1>3, <1>5, FS_Union
  <2> DEFINE a == Cardinality(Units(f, T))
             b == Cardinality(up)
             d == Cardinality(Units(f, T) \cap up)
  <2>4. a \in Nat /\ b \in Nat /\ d = 0
    BY <2>1, <2>2, <1>6
  <2>5. Cardinality(Units(f, T) \cup up) = a + b - d
    BY <2>3
  <2> HIDE DEF a, b, d
  <2>6. Cardinality(Units(f, T) \cup up) = a + b
    BY <2>4, <2>5
  <2> QED
    BY <2>6, <1>1 DEF a, b
<1>8. Cardinality(Debts(f, T \cup {x})) = Cardinality(Debts(f, T)) + Cardinality(down)
  <2>1. Cardinality(Debts(f, T) \cap down) = 0
    BY <1>2, FS_EmptySet
  <2>2. Cardinality(down) \in Nat
    BY <1>4, FS_CardinalityType
  <2>3. Cardinality(Debts(f, T) \cup down)
          = Cardinality(Debts(f, T)) + Cardinality(down) - Cardinality(Debts(f, T) \cap down)
    BY <1>4, <1>5, FS_Union
  <2> DEFINE a == Cardinality(Debts(f, T))
             b == Cardinality(down)
             d == Cardinality(Debts(f, T) \cap down)
  <2>4. a \in Nat /\ b \in Nat /\ d = 0
    BY <2>1, <2>2, <1>6
  <2>5. Cardinality(Debts(f, T) \cup down) = a + b - d
    BY <2>3
  <2> HIDE DEF a, b, d
  <2>6. Cardinality(Debts(f, T) \cup down) = a + b
    BY <2>4, <2>5
  <2> QED
    BY <2>6, <1>2 DEF a, b
<1> QED
  BY <1>3, <1>4, <1>6, <1>7, <1>8 DEF Counted

LEMMA CountedEmpty == ASSUME NEW f PROVE Counted(f, {}) = 0
<1>1. Units(f, {}) = {} /\ Debts(f, {}) = {}
  BY DEF Units, Debts
<1> QED
  BY <1>1, FS_EmptySet DEF Counted

(* What the folds compute: the element taken next is any. *)
Some(s) == CHOOSE x \in s : TRUE

Folds(f, S, g) ==
    g = [s \in SUBSET S |-> IF s = {} THEN 0 ELSE f[Some(s)] + g[s \ {Some(s)}]]

LEMMA CountedFolds ==
    ASSUME NEW S, IsFiniteSet(S), NEW f, \A x \in S : f[x] \in Int
    PROVE  Folds(f, S, [s \in SUBSET S |-> Counted(f, s)])
<1> DEFINE g == [s \in SUBSET S |-> Counted(f, s)]
<1> SUFFICES ASSUME NEW s \in SUBSET S
             PROVE  g[s] = IF s = {} THEN 0 ELSE f[Some(s)] + g[s \ {Some(s)}]
  BY DEF Folds
<1>1. CASE s = {}
  BY <1>1, CountedEmpty
<1>2. CASE s # {}
  <2>1. Some(s) \in s
    BY <1>2 DEF Some
  <2> DEFINE x == Some(s)
             r == s \ {x}
  <2>2. s = r \cup {x} /\ x \notin r /\ x \in S /\ r \in SUBSET S
    BY <2>1
  <2>3. IsFiniteSet(r)
    BY <2>2, FS_Subset
  <2> HIDE DEF x, r
  <2>4. \A y \in r : f[y] \in Int
    BY <2>2
  <2>5. Counted(f, r \cup {x}) = f[x] + Counted(f, r)
    BY <2>2, <2>3, <2>4, CountedAdd
  <2>6. g[s] = f[x] + g[r]
    BY <2>2, <2>5
  <2> QED
    BY <1>2, <2>6 DEF x, r
<1> QED
  BY <1>1, <1>2

(* A fold is determined by what it does to each element. *)
LEMMA FoldsAgree ==
    ASSUME NEW S, IsFiniteSet(S), NEW f, NEW g, NEW h, Folds(f, S, g), Folds(f, S, h)
    PROVE  g[S] = h[S]
<1> SUFFICES ASSUME g[S] # h[S] PROVE FALSE
  OBVIOUS
<1> DEFINE D == {s \in SUBSET S : g[s] # h[s]}
<1>1. D # {} /\ D \subseteq FiniteSubsetsOf(S)
  <2>1. S \in D
    OBVIOUS
  <2>2. \A s \in D : IsFiniteSet(s)
    BY FS_Subset
  <2> QED
    BY <2>1, <2>2 DEF FiniteSubsetsOf
<1> HIDE DEF D
<1>2. PICK s \in D : \A r \in D : ~(<<r, s>> \in StrictSubsetOrdering(S))
  BY <1>1, FS_StrictSubsetOrderingWellFounded, WFMin
<1>3. s \in SUBSET S /\ g[s] # h[s]
  BY <1>2 DEF D
<1>4. s # {}
  BY <1>3 DEF Folds
<1>5. Some(s) \in s
  BY <1>4 DEF Some
<1>6. g[s] = f[Some(s)] + g[s \ {Some(s)}] /\ h[s] = f[Some(s)] + h[s \ {Some(s)}]
  BY <1>3, <1>4 DEF Folds
<1>7. s \ {Some(s)} \in D
  BY <1>3, <1>5, <1>6 DEF D
<1>8. <<s \ {Some(s)}, s>> \in StrictSubsetOrdering(S)
  BY <1>3, <1>5 DEF StrictSubsetOrdering
<1> QED
  BY <1>2, <1>7, <1>8

LEMMA SumIsCounted ==
    ASSUME NEW S, IsFiniteSet(S), NEW f, \A x \in S : f[x] \in Int
    PROVE  SumFunctionOnSet(f, S) = Counted(f, S)
<1> DEFINE g == [s \in SUBSET S |-> Counted(f, s)]
           h == CHOOSE h : Folds(f, S, h)
<1>1. Folds(f, S, g)
  BY CountedFolds
<1> HIDE DEF g
<1>2. Folds(f, S, h)
  BY <1>1
<1>3. SumFunctionOnSet(f, S) = h[S]
  BY DEF SumFunctionOnSet, FoldFunctionOnSet, MapThenFoldSet, Folds, Some
<1> HIDE DEF h
<1>4. h[S] = g[S]
  BY <1>1, <1>2, FoldsAgree
<1> QED
  BY <1>3, <1>4 DEF g

(* The two facts about sums that all others follow from *)
LEMMA SumEmpty == ASSUME NEW f PROVE SumFunctionOnSet(f, {}) = 0
  BY SumIsCounted, CountedEmpty, FS_EmptySet

LEMMA SumAdd ==
    ASSUME NEW T, IsFiniteSet(T), NEW x, x \notin T, NEW f,
           f[x] \in Int, \A y \in T : f[y] \in Int
    PROVE  /\ SumFunctionOnSet(f, T) \in Int
           /\ SumFunctionOnSet(f, T \cup {x}) = f[x] + SumFunctionOnSet(f, T)
<1>1. IsFiniteSet(T \cup {x})
  BY FS_AddElement
<1>2. \A y \in T \cup {x} : f[y] \in Int
  OBVIOUS
<1>3. SumFunctionOnSet(f, T) = Counted(f, T)
      /\ SumFunctionOnSet(f, T \cup {x}) = Counted(f, T \cup {x})
  BY <1>1, <1>2, SumIsCounted
<1> QED
  BY <1>3, CountedAdd

LEMMA SumInt ==
    ASSUME NEW S, IsFiniteSet(S), NEW f, \A x \in S : f[x] \in Int
    PROVE  SumFunctionOnSet(f, S) \in Int
<1> DEFINE C == {T \in SUBSET S : SumFunctionOnSet(f, T) \in Int}
<1>1. {} \in C
  BY SumEmpty
<1>2. ASSUME NEW T \in C, NEW x \in S, x \notin T PROVE T \cup {x} \in C
  <2>1. IsFiniteSet(T)
    BY FS_Subset
  <2>2. SumFunctionOnSet(f, T \cup {x}) = f[x] + SumFunctionOnSet(f, T)
    BY <1>2, <2>1, SumAdd
  <2> QED
    BY <2>2
<1>3. C \in SUBSET (SUBSET S)
  OBVIOUS
<1> HIDE DEF C
<1>4. S \in C
  BY <1>1, <1>2, <1>3, Growing
<1> QED
  BY <1>4 DEF C

(* Sums compare, and combine, as their terms do. *)
LEMMA SumAtMostSum ==
    ASSUME NEW S, IsFiniteSet(S), NEW f, NEW g,
           \A x \in S : f[x] \in Int /\ g[x] \in Int /\ f[x] <= g[x]
    PROVE  SumFunctionOnSet(f, S) <= SumFunctionOnSet(g, S)
<1> DEFINE C == {T \in SUBSET S : SumFunctionOnSet(f, T) <= SumFunctionOnSet(g, T)}
<1>1. {} \in C
  BY SumEmpty
<1>2. ASSUME NEW T \in C, NEW x \in S, x \notin T PROVE T \cup {x} \in C
  <2>1. IsFiniteSet(T)
    BY FS_Subset
  <2>2. /\ SumFunctionOnSet(f, T \cup {x}) = f[x] + SumFunctionOnSet(f, T)
        /\ SumFunctionOnSet(f, T) \in Int
    BY <1>2, <2>1, SumAdd
  <2>3. /\ SumFunctionOnSet(g, T \cup {x}) = g[x] + SumFunctionOnSet(g, T)
        /\ SumFunctionOnSet(g, T) \in Int
    BY <1>2, <2>1, SumAdd
  <2> QED
    BY <2>2, <2>3
<1>3. C \in SUBSET (SUBSET S)
  OBVIOUS
<1> HIDE DEF C
<1>4. S \in C
  BY <1>1, <1>2, <1>3, Growing
<1> QED
  BY <1>4 DEF C

LEMMA SumSame ==
    ASSUME NEW S, IsFiniteSet(S), NEW f, NEW g,
           \A x \in S : f[x] \in Int /\ g[x] = f[x]
    PROVE  SumFunctionOnSet(f, S) = SumFunctionOnSet(g, S)
<1>1. SumFunctionOnSet(f, S) \in Int /\ SumFunctionOnSet(g, S) \in Int
  BY SumInt
<1>2. \A x \in S : f[x] <= g[x] /\ g[x] <= f[x] /\ g[x] \in Int
  OBVIOUS
<1>3. SumFunctionOnSet(f, S) <= SumFunctionOnSet(g, S)
  BY <1>2, SumAtMostSum
<1>4. SumFunctionOnSet(g, S) <= SumFunctionOnSet(f, S)
  BY <1>2, SumAtMostSum
<1> QED
  BY <1>1, <1>3, <1>4

LEMMA SumConstant ==
    ASSUME NEW S, IsFiniteSet(S), NEW f, NEW k \in Int, \A x \in S : f[x] = k
    PROVE  SumFunctionOnSet(f, S) = k * Cardinality(S)
<1> DEFINE C == {T \in SUBSET S : SumFunctionOnSet(f, T) = k * Cardinality(T)}
<1>1. {} \in C
  BY SumEmpty, FS_EmptySet
<1>2. ASSUME NEW T \in C, NEW x \in S, x \notin T PROVE T \cup {x} \in C
  <2>1. IsFiniteSet(T) /\ Cardinality(T) \in Nat
    BY FS_Subset, FS_CardinalityType
  <2>2. SumFunctionOnSet(f, T \cup {x}) = k + SumFunctionOnSet(f, T)
    <3>1. f[x] = k /\ \A y \in T : f[y] \in Int
      OBVIOUS
    <3> QED
      BY <1>2, <2>1, <3>1, SumAdd
  <2>3. Cardinality(T \cup {x}) = Cardinality(T) + 1
    BY <1>2, <2>1, FS_AddElement
  <2>4. \A i \in Nat : k + k * i = k * (i + 1)
    OBVIOUS
  <2>5. SumFunctionOnSet(f, T) = k * Cardinality(T)
    OBVIOUS
  <2> QED
    BY <2>1, <2>2, <2>3, <2>4, <2>5
<1>3. C \in SUBSET (SUBSET S)
  OBVIOUS
<1> HIDE DEF C
<1>4. S \in C
  BY <1>1, <1>2, <1>3, Growing
<1> QED
  BY <1>4 DEF C

LEMMA SumBetween ==
    ASSUME NEW S, IsFiniteSet(S), NEW f, NEW a \in Int, NEW b \in Int,
           \A x \in S : f[x] \in Int /\ a <= f[x] /\ f[x] <= b
    PROVE  /\ a * Cardinality(S) <= SumFunctionOnSet(f, S)
           /\ SumFunctionOnSet(f, S) <= b * Cardinality(S)
<1> DEFINE low == [x \in S |-> a]
           high == [x \in S |-> b]
<1>1. SumFunctionOnSet(low, S) = a * Cardinality(S)
  BY SumConstant
<1>2. SumFunctionOnSet(high, S) = b * Cardinality(S)
  BY SumConstant
<1>3. SumFunctionOnSet(low, S) <= SumFunctionOnSet(f, S)
  BY SumAtMostSum
<1>4. SumFunctionOnSet(f, S) <= SumFunctionOnSet(high, S)
  BY SumAtMostSum
<1> QED
  BY <1>1, <1>2, <1>3, <1>4

LEMMA SumLinear ==
    ASSUME NEW S, IsFiniteSet(S), NEW f, NEW g, NEW h, NEW a \in Int, NEW b \in Int,
           \A x \in S : f[x] \in Int /\ g[x] \in Int /\ h[x] = a * f[x] + b * g[x]
    PROVE  SumFunctionOnSet(h, S) = a * SumFunctionOnSet(f, S) + b * SumFunctionOnSet(g, S)
<1> DEFINE C == {T \in SUBSET S : SumFunctionOnSet(h, T)
                     = a * SumFunctionOnSet(f, T) + b * SumFunctionOnSet(g, T)}
<1>1. {} \in C
  BY SumEmpty
<1>2. ASSUME NEW T \in C, NEW x \in S, x \notin T PROVE T \cup {x} \in C
  <2>1. IsFiniteSet(T)
    BY FS_Subset
  <2>2. /\ SumFunctionOnSet(f, T \cup {x}) = f[x] + SumFunctionOnSet(f, T)
        /\ SumFunctionOnSet(f, T) \in Int
    BY <1>2, <2>1, SumAdd
  <2>3. /\ SumFunctionOnSet(g, T \cup {x}) = g[x] + SumFunctionOnSet(g, T)
        /\ SumFunctionOnSet(g, T) \in Int
    BY <1>2, <2>1, SumAdd
  <2>4. \A y \in S : h[y] \in Int
    OBVIOUS
  <2>5. SumFunctionOnSet(h, T \cup {x}) = h[x] + SumFunctionOnSet(h, T)
    BY <1>2, <2>1, <2>4, SumAdd
  <2>6. SumFunctionOnSet(h, T) = a * SumFunctionOnSet(f, T) + b * SumFunctionOnSet(g, T)
    OBVIOUS
  <2>7. \A i, j, k, l \in Int :
            (a * i + b * j) + (a * k + b * l) = a * (i + k) + b * (j + l)
    OBVIOUS
  <2>8. SumFunctionOnSet(h, T \cup {x})
          = (a * f[x] + b * g[x]) + (a * SumFunctionOnSet(f, T) + b * SumFunctionOnSet(g, T))
    BY <2>5, <2>6
  <2>9. SumFunctionOnSet(h, T \cup {x})
          = a * (f[x] + SumFunctionOnSet(f, T)) + b * (g[x] + SumFunctionOnSet(g, T))
    BY <2>2, <2>3, <2>7, <2>8
  <2> QED
    BY <2>2, <2>3, <2>9
<1>3. C \in SUBSET (SUBSET S)
  OBVIOUS
<1> HIDE DEF C
<1>4. S \in C
  BY <1>1, <1>2, <1>3, Growing
<1> QED
  BY <1>4 DEF C

(* Renaming the elements changes nothing. *)
LEMMA SumImage ==
    ASSUME NEW S, IsFiniteSet(S), NEW f, NEW g, NEW b,
           \A x, y \in S : b[x] = b[y] => x = y,
           \A x \in S : f[x] \in Int /\ g[b[x]] = f[x]
    PROVE  /\ IsFiniteSet({b[x] : x \in S})
           /\ SumFunctionOnSet(g, {b[x] : x \in S}) = SumFunctionOnSet(f, S)
<1> DEFINE I(T) == {b[x] : x \in T}
           C == {T \in SUBSET S : IsFiniteSet(I(T))
                                  /\ SumFunctionOnSet(g, I(T)) = SumFunctionOnSet(f, T)}
<1>1. {} \in C
  <2>1. I({}) = {}
    OBVIOUS
  <2> QED
    BY <2>1, SumEmpty, FS_EmptySet
<1>2. ASSUME NEW T \in C, NEW x \in S, x \notin T PROVE T \cup {x} \in C
  <2>1. IsFiniteSet(T)
    BY FS_Subset
  <2>2. I(T \cup {x}) = I(T) \cup {b[x]} /\ b[x] \notin I(T)
    BY <1>2
  <2>3. g[b[x]] \in Int /\ \A y \in I(T) : g[y] \in Int
    OBVIOUS
  <2>4. IsFiniteSet(I(T)) /\ SumFunctionOnSet(g, I(T)) = SumFunctionOnSet(f, T)
    OBVIOUS
  <2> HIDE DEF I
  <2>5. SumFunctionOnSet(g, I(T) \cup {b[x]}) = g[b[x]] + SumFunctionOnSet(g, I(T))
    BY <2>2, <2>3, <2>4, SumAdd
  <2>6. SumFunctionOnSet(f, T \cup {x}) = f[x] + SumFunctionOnSet(f, T)
    BY <1>2, <2>1, SumAdd
  <2>7. IsFiniteSet(I(T) \cup {b[x]})
    BY <2>4, FS_AddElement
  <2> QED
    BY <2>2, <2>4, <2>5, <2>6, <2>7
<1>3. C \in SUBSET (SUBSET S)
  OBVIOUS
<1> HIDE DEF C
<1>4. S \in C
  BY <1>1, <1>2, <1>3, Growing
<1> QED
  BY <1>4 DEF C

-----------------------------------------------------------------------------
(* The allocation of samples to strata *)

(* Division and products, as the arithmetic of shares needs them *)
LEMMA DivisionBounds ==
    ASSUME NEW n \in Nat, NEW d \in Nat \ {0}
    PROVE  /\ n \div d \in Nat /\ n % d \in 0..(d - 1)
           /\ n = d * (n \div d) + (n % d)
  OBVIOUS

LEMMA RoundNear ==
    ASSUME NEW n \in Nat, NEW d \in Nat \ {0}
    PROVE  /\ Round(n, d) \in Nat
           /\ -d <= 2 * (d * Round(n, d) - n) /\ 2 * (d * Round(n, d) - n) <= d
<1> DEFINE q == n \div d
           r == n % d
<1>1. q \in Nat /\ r \in 0..(d - 1) /\ n = d * q + r
  BY DivisionBounds
<1>2. Round(n, d) = q \/ Round(n, d) = q + 1
  BY DEF Round
<1>3. Round(n, d) = q => 2 * r <= d
  BY <1>1 DEF Round
<1>4. Round(n, d) = q + 1 => 2 * r >= d
  BY <1>1 DEF Round
<1> HIDE DEF q, r
<1>5. d * (q + 1) = d * q + d /\ d * q \in Int
  BY <1>1
<1>6. CASE Round(n, d) = q
  BY <1>1, <1>3, <1>5, <1>6
<1>7. CASE Round(n, d) = q + 1
  BY <1>1, <1>4, <1>5, <1>7
<1> QED
  BY <1>2, <1>6, <1>7

LEMMA CancelFactor ==
    ASSUME NEW p \in Nat \ {0}, NEW x \in Int, NEW y \in Int, p * x <= p * y
    PROVE  x <= y
<1> SUFFICES ASSUME y + 1 <= x PROVE FALSE
  OBVIOUS
<1>1. PICK k \in Nat : x = y + 1 + k
  <2>1. x - (y + 1) \in Nat /\ x = y + 1 + (x - (y + 1))
    OBVIOUS
  <2> QED
    BY <2>1
<1>2. p * x = p * y + p + p * k
  BY <1>1
<1>3. p * k \in Nat /\ p * y \in Int
  OBVIOUS
<1> QED
  BY <1>2, <1>3

(* Of the terms of a finite sum one is greatest. *)
LEMMA GreatestTerm ==
    ASSUME NEW S, IsFiniteSet(S), S # {}, NEW f, \A x \in S : f[x] \in Int
    PROVE  \E x \in S : \A y \in S : f[y] <= f[x]
<1> DEFINE C == {T \in SUBSET S : T = {} \/ \E x \in T : \A y \in T : f[y] <= f[x]}
<1>1. {} \in C /\ C \in SUBSET (SUBSET S)
  OBVIOUS
<1>2. ASSUME NEW T \in C, NEW z \in S, z \notin T PROVE T \cup {z} \in C
  <2>1. f[z] \in Int /\ T \subseteq S
    OBVIOUS
  <2>2. CASE T = {}
    BY <2>1, <2>2
  <2>3. CASE \E x \in T : \A y \in T : f[y] <= f[x]
    <3> PICK x \in T : \A y \in T : f[y] <= f[x]
      BY <2>3
    <3>1. f[x] \in Int /\ \A y \in T : f[y] \in Int
      BY <2>1
    <3>2. CASE f[z] <= f[x]
      BY <2>1, <3>2
    <3>3. CASE ~(f[z] <= f[x])
      <4>1. \A y \in T \cup {z} : f[y] <= f[z]
        BY <2>1, <3>1, <3>3
      <4> QED
        BY <2>1, <4>1
    <3> QED
      BY <3>2, <3>3
  <2> QED
    BY <2>2, <2>3
<1> HIDE DEF C
<1>3. S \in C
  BY <1>1, <1>2, Growing
<1> QED
  BY <1>3 DEF C

LEMMA LeastIndex ==
    ASSUME NEW n \in Nat, NEW S \in SUBSET (1..n), S # {}
    PROVE  Min(S) \in S
<1> DEFINE f == [i \in S |-> -i]
<1>1. IsFiniteSet(S)
  <2>1. IsFiniteSet(1..n)
    BY FS_Interval
  <2> QED
    BY <2>1, FS_Subset
<1>2. \A i \in S : f[i] = -i /\ i \in Int /\ f[i] \in Int
  OBVIOUS
<1> HIDE DEF f
<1>3. PICK m \in S : \A k \in S : f[k] <= f[m]
  BY <1>1, <1>2, GreatestTerm
<1>4. \A k \in S : m <= k
  BY <1>2, <1>3
<1> QED
  BY <1>4 DEF Min

(* Strata that labels tell apart, with the sizes a campaign may ask for *)
Stratification(c) ==
    /\ c.strata \in Seq(Range(c.strata)) /\ c.strata # <<>>
    /\ c.size \in Nat
    /\ c.allocation \in {"PROPORTIONAL", "EQUAL"}
    /\ \A s \in Range(c.strata) : s.proportion \in Nat \ {0}
    /\ Cardinality(Labels(c.strata)) = Len(c.strata)
    /\ Len(c.strata) * (Len(c.strata) - 2) < 2 * c.size

LEMMA LabelsDiffer ==
    ASSUME NEW c, Stratification(c)
    PROVE  /\ Len(c.strata) \in Nat \ {0} /\ DOMAIN c.strata = 1..Len(c.strata)
           /\ IsFiniteSet(Labels(c.strata))
           /\ Labels(c.strata) = {c.strata[i].label : i \in 1..Len(c.strata)}
           /\ \A i, j \in 1..Len(c.strata) : c.strata[i].label = c.strata[j].label => i = j
<1> DEFINE n == Len(c.strata)
           label == [i \in 1..n |-> c.strata[i].label]
<1>1. n \in Nat \ {0} /\ DOMAIN c.strata = 1..n
  BY DEF Stratification
<1> HIDE DEF n
<1>2. Labels(c.strata) = {c.strata[i].label : i \in 1..n}
  BY <1>1 DEF Labels, Range
<1>3. IsFiniteSet(1..n) /\ Cardinality(1..n) = n
  BY <1>1, FS_Interval
<1>4. label \in Surjection(1..n, Labels(c.strata))
  BY <1>2, Fun_IsSurj
<1>5. IsFiniteSet(Labels(c.strata))
  BY <1>3, <1>4, FS_Surjection
<1>6. label \in Injection(1..n, Labels(c.strata))
  BY <1>3, <1>4, <1>5, FS_SurjSameCardinalityImpliesInj DEF Stratification, n
<1>7. \A i, j \in 1..n : label[i] = label[j] => i = j
  BY <1>6 DEF Injection, IsInjective
<1> QED
  BY <1>1, <1>2, <1>5, <1>7 DEF n

LEMMA LastOfLabel ==
    ASSUME NEW c, Stratification(c), NEW i \in 1..Len(c.strata)
    PROVE  LastStratum(c.strata, c.strata[i].label) = c.strata[i]
<1> DEFINE I == {j \in DOMAIN c.strata : c.strata[j].label = c.strata[i].label}
<1>1. I = {i}
  BY LabelsDiffer
<1>2. Max({i}) = i
  <2>1. i \in Int
    BY LabelsDiffer
  <2>2. \A m \in {i} : (\A k \in {i} : m >= k) <=> m = i
    BY <2>1
  <2> QED
    BY <2>2 DEF Max
<1> QED
  BY <1>1, <1>2 DEF LastStratum

(* The proportion of each label; they add up to the total. *)
Proportions(c) == [l \in Labels(c.strata) |-> LastStratum(c.strata, l).proportion]

LEMMA ProportionsAddUp ==
    ASSUME NEW c, Stratification(c)
    PROVE  /\ \A l \in Labels(c.strata) : Proportions(c)[l] \in Nat \ {0}
           /\ TotalProportion(c.strata) = SumFunctionOnSet(Proportions(c), Labels(c.strata))
           /\ TotalProportion(c.strata) \in Nat \ {0}
<1> DEFINE I == DOMAIN c.strata
           f == [i \in I |-> c.strata[i].proportion]
           b == [i \in I |-> c.strata[i].label]
           p == Proportions(c)
<1>1. I = 1..Len(c.strata) /\ Len(c.strata) \in Nat \ {0}
  BY LabelsDiffer
<1>2. IsFiniteSet(I) /\ Cardinality(I) = Len(c.strata)
  BY <1>1, FS_Interval
<1>3. \A i \in I : f[i] \in Nat \ {0}
  BY DEF Stratification, Range
<1>4. \A i, j \in I : b[i] = b[j] => i = j
  BY <1>1, LabelsDiffer
<1>5. Labels(c.strata) = {b[i] : i \in I}
  <2>1. Labels(c.strata) = {c.strata[i].label : i \in I}
    BY DEF Labels, Range
  <2> QED
    BY <2>1
<1>6. \A i \in I : p[b[i]] = f[i]
  <2> SUFFICES ASSUME NEW i \in I PROVE p[b[i]] = f[i]
    OBVIOUS
  <2>1. LastStratum(c.strata, c.strata[i].label) = c.strata[i]
    BY <1>1, LastOfLabel
  <2>2. b[i] = c.strata[i].label /\ b[i] \in Labels(c.strata)
    BY <1>5
  <2> QED
    BY <2>1, <2>2 DEF Proportions
<1>7. TotalProportion(c.strata) = SumFunctionOnSet(f, I)
  BY DEF TotalProportion, SumFunction
<1> HIDE DEF I, f, b, p
<1>8. SumFunctionOnSet(p, Labels(c.strata)) = SumFunctionOnSet(f, I)
  <2>1. \A i \in I : f[i] \in Int /\ p[b[i]] = f[i]
    BY <1>3, <1>6
  <2>2. SumFunctionOnSet(p, {b[i] : i \in I}) = SumFunctionOnSet(f, I)
    BY ONLY <1>2, <1>4, <2>1, SumImage
  <2> QED
    BY <1>5, <2>2
<1>9. SumFunctionOnSet(f, I) \in Nat \ {0}
  <2> DEFINE one == [i \in I |-> 1]
  <2>1. \A i \in I : f[i] \in Int /\ one[i] = 1 /\ one[i] \in Int /\ one[i] <= f[i]
    BY <1>3
  <2> HIDE DEF one
  <2>2. SumFunctionOnSet(f, I) \in Int
    BY ONLY <1>2, <2>1, SumInt
  <2>3. SumFunctionOnSet(one, I) = 1 * Cardinality(I)
    BY ONLY <1>2, <2>1, SumConstant, 1 \in Int
  <2>4. SumFunctionOnSet(one, I) <= SumFunctionOnSet(f, I)
    BY ONLY <1>2, <2>1, SumAtMostSum
  <2> QED
    BY <1>1, <1>2, <2>2, <2>3, <2>4
<1>10. \A l \in Labels(c.strata) : p[l] \in Nat \ {0}
  BY <1>3, <1>5, <1>6
<1> QED
  BY <1>7, <1>8, <1>9, <1>10 DEF p

Shares(c) == [l \in Labels(c.strata) |-> Share(c, l)]

(* The remainder goes to a stratum that has a label, and the most. *)
LEMMA LargestHasMost ==
    ASSUME NEW c, Stratification(c), NEW f, \A l \in Labels(c.strata) : f[l] \in Int
    PROVE  \E i \in 1..Len(c.strata) :
              /\ Largest(c.strata, f) = c.strata[i].label
              /\ \A l \in Labels(c.strata) : f[l] <= f[c.strata[i].label]
<1> DEFINE I == DOMAIN c.strata
           S == {i \in I : \A j \in I : f[c.strata[j].label] <= f[c.strata[i].label]}
<1>1. /\ I = 1..Len(c.strata) /\ Len(c.strata) \in Nat \ {0}
      /\ Labels(c.strata) = {c.strata[i].label : i \in 1..Len(c.strata)}
      /\ IsFiniteSet(Labels(c.strata))
  BY LabelsDiffer
<1>2. Labels(c.strata) = {c.strata[i].label : i \in I} /\ Labels(c.strata) # {}
  <2>1. 1 \in I
    BY <1>1
  <2>2. Labels(c.strata) = {c.strata[i].label : i \in I}
    BY DEF Labels, Range
  <2> QED
    BY <2>1, <2>2
<1> HIDE DEF I
<1>3. PICK l \in Labels(c.strata) : \A k \in Labels(c.strata) : f[k] <= f[l]
  BY <1>1, <1>2, GreatestTerm
<1>4. S # {}
  BY <1>2, <1>3
<1>5. S \in SUBSET (1..Len(c.strata))
  BY <1>1
<1>6. Min(S) \in S
  BY <1>1, <1>4, <1>5, LeastIndex
<1>7. Largest(c.strata, f) = c.strata[Min(S)].label
  BY DEF Largest, I
<1> QED
  BY <1>1, <1>2, <1>6, <1>7

(* Rounding: no share is off by more than one half, so together they are   *)
(* off by at most half a point each. *)
LEMMA ProportionalShares ==
    ASSUME NEW c, Stratification(c), c.allocation = "PROPORTIONAL"
    PROVE  LET P == TotalProportion(c.strata)
               n == Len(c.strata)
               R == Remainder(c, Shares(c))
           IN  /\ \A l \in Labels(c.strata) :
                    /\ Shares(c)[l] \in Nat
                    /\ -P <= 2 * (P * Shares(c)[l] - c.size * Proportions(c)[l])
                    /\ 2 * (P * Shares(c)[l] - c.size * Proportions(c)[l]) <= P
               /\ SumFunctionOnSet(Shares(c), Labels(c.strata)) \in Int
               /\ R = c.size - SumFunctionOnSet(Shares(c), Labels(c.strata))
               /\ R \in Int /\ -n <= 2 * R /\ 2 * R <= n
               /\ \A l \in Labels(c.strata) :
                    /\ -(P * (n - 1)) <= 2 * (P * (Shares(c)[l] + R) - c.size * Proportions(c)[l])
                    /\ 2 * (P * (Shares(c)[l] + R) - c.size * Proportions(c)[l]) <= P * (n - 1)
<1> DEFINE P == TotalProportion(c.strata)
           n == Len(c.strata)
           R == Remainder(c, Shares(c))
           L == Labels(c.strata)
           s == Shares(c)
           p == Proportions(c)
           z == c.size
           e == [l \in L |-> (2 * P) * s[l] + (-(2 * z)) * p[l]]
           A == SumFunctionOnSet(s, L)
           E == SumFunctionOnSet(e, L)
<1>1. n \in Nat \ {0} /\ IsFiniteSet(L) /\ Cardinality(L) = n
  BY LabelsDiffer DEF Stratification
<1>2. P \in Nat \ {0} /\ P = SumFunctionOnSet(p, L) /\ \A l \in L : p[l] \in Nat \ {0}
  BY ProportionsAddUp
<1>3. z \in Nat
  BY DEF Stratification
<1>4. ASSUME NEW l \in L
      PROVE  /\ s[l] \in Nat
             /\ -P <= 2 * (P * s[l] - z * p[l]) /\ 2 * (P * s[l] - z * p[l]) <= P
  <2>1. s[l] = Round(z * p[l], P)
    BY DEF Shares, Share, Proportions
  <2>2. z * p[l] \in Nat
    <3>1. p[l] \in Nat
      BY <1>2
    <3> HIDE DEF z, p
    <3> QED
      BY <1>3, <3>1
  <2> QED
    BY <1>2, <2>1, <2>2, RoundNear
<1>5. R = z - A
  <2>1. DOMAIN s = L
    BY DEF Shares
  <2> QED
    BY <2>1 DEF Remainder, SumFunction
<1> HIDE DEF P, n, R, s, p, z, L
<1>6. \A l \in L : e[l] = (2 * P) * s[l] + (-(2 * z)) * p[l]
  OBVIOUS
<1>7. ASSUME NEW l \in L
      PROVE  e[l] \in Int /\ e[l] = 2 * (P * s[l] - z * p[l]) /\ -P <= e[l] /\ e[l] <= P
  <2>1. s[l] \in Int /\ p[l] \in Int /\ P \in Int /\ z \in Int
    BY <1>2, <1>3, <1>4
  <2>2. (2 * P) * s[l] + (-(2 * z)) * p[l] = 2 * (P * s[l] - z * p[l])
    BY <2>1
  <2>3. 2 * (P * s[l] - z * p[l]) \in Int
    BY <2>1
  <2> QED
    BY <1>4, <1>6, <2>2, <2>3
<1> HIDE DEF e
<1>8. A \in Int /\ R \in Int
  BY <1>1, <1>3, <1>4, <1>5, SumInt
<1>9. E = (2 * P) * A + (-(2 * z)) * P
  <2>1. \A l \in L : s[l] \in Int /\ p[l] \in Int
    BY <1>2, <1>4
  <2>2. 2 * P \in Int /\ -(2 * z) \in Int
    BY <1>2, <1>3
  <2>3. SumFunctionOnSet(e, L)
          = (2 * P) * SumFunctionOnSet(s, L) + (-(2 * z)) * SumFunctionOnSet(p, L)
    BY ONLY <1>1, <1>6, <2>1, <2>2, SumLinear
  <2> QED
    BY <1>2, <2>3
<1>10. E \in Int /\ (-P) * n <= E /\ E <= P * n
  <2>1. -P \in Int /\ P \in Int
    BY <1>2
  <2>2. \A l \in L : e[l] \in Int /\ -P <= e[l] /\ e[l] <= P
    BY <1>7
  <2>3. /\ (-P) * Cardinality(L) <= SumFunctionOnSet(e, L)
        /\ SumFunctionOnSet(e, L) <= P * Cardinality(L)
    BY ONLY <1>1, <2>1, <2>2, SumBetween
  <2>4. SumFunctionOnSet(e, L) \in Int
    BY ONLY <1>1, <2>2, SumInt
  <2> QED
    BY <1>1, <2>3, <2>4
<1> HIDE DEF A, E
<1>11. E = -(P * (2 * R))
  <2>1. P \in Int /\ z \in Int /\ A \in Int
    BY <1>2, <1>3, <1>8
  <2>2. (2 * P) * A + (-(2 * z)) * P = -(P * (2 * (z - A)))
    BY <2>1
  <2> QED
    BY <1>5, <1>9, <2>2
<1>12. -n <= 2 * R /\ 2 * R <= n
  <2>1. P \in Nat \ {0} /\ n \in Int /\ -n \in Int /\ 2 * R \in Int
    BY <1>1, <1>2, <1>8
  <2>2. P * (-n) = (-P) * n /\ P * (-(2 * R)) = -(P * (2 * R)) /\ -(2 * R) \in Int
    BY <2>1
  <2>3. P * (-n) <= P * (-(2 * R)) /\ P * (-(2 * R)) <= P * n
    BY <1>10, <1>11, <2>2
  <2>4. -n <= -(2 * R) /\ -(2 * R) <= n
    BY ONLY <2>1, <2>2, <2>3, CancelFactor
  <2> QED
    BY <2>1, <2>4
<1>13. ASSUME NEW l \in L
       PROVE  /\ -(P * (n - 1)) <= 2 * (P * (s[l] + R) - z * p[l])
              /\ 2 * (P * (s[l] + R) - z * p[l]) <= P * (n - 1)
  <2> DEFINE K == L \ {l}
             F == SumFunctionOnSet(e, K)
  <2>1. IsFiniteSet(K) /\ Cardinality(K) = n - 1 /\ L = K \cup {l} /\ l \notin K
    BY <1>1, FS_RemoveElement
  <2>2. \A k \in K : e[k] \in Int /\ -P <= e[k] /\ e[k] <= P
    BY <1>7
  <2>3. e[l] \in Int /\ e[l] = 2 * (P * s[l] - z * p[l])
    BY <1>7
  <2> HIDE DEF K
  <2>4. F \in Int /\ SumFunctionOnSet(e, K \cup {l}) = e[l] + F
    BY ONLY <2>1, <2>2, <2>3, SumAdd
  <2>5. -P \in Int /\ P \in Int
    BY <1>2
  <2>6. (-P) * Cardinality(K) <= F /\ F <= P * Cardinality(K)
    BY ONLY <2>1, <2>2, <2>5, SumBetween
  <2>7. E = e[l] + F
    BY <2>1, <2>4 DEF E
  <2> HIDE DEF F
  <2>8. s[l] \in Int /\ p[l] \in Int /\ z \in Int /\ R \in Int /\ n \in Int
    BY <1>1, <1>2, <1>3, <1>4, <1>8
  <2>9. 2 * (P * (s[l] + R) - z * p[l]) = 2 * (P * s[l] - z * p[l]) + P * (2 * R)
    BY <2>5, <2>8
  <2>10. 2 * (P * (s[l] + R) - z * p[l]) = -F
    <3>1. e[l] + F = -(P * (2 * R)) /\ P * (2 * R) \in Int
      BY <1>11, <2>5, <2>7, <2>8
    <3>2. 2 * (P * (s[l] + R) - z * p[l]) = e[l] + P * (2 * R)
      BY <2>3, <2>9
    <3> QED
      BY <2>3, <2>4, <3>1, <3>2
  <2>11. (-P) * (n - 1) = -(P * (n - 1)) /\ P * (n - 1) \in Int
    BY <2>5, <2>8
  <2> QED
    BY <2>1, <2>4, <2>6, <2>10, <2>11
<1> QED
  BY <1>4, <1>5, <1>8, <1>12, <1>13 DEF P, n, R, s, p, z, L, A

(* In either way of sharing, the shares and the remainder make up the      *)
(* size, and the remainder takes no more than the largest share has: what  *)
(* it is short of is at most half a point for each stratum. *)
LEMMA SharesAddUp ==
    ASSUME NEW c, Stratification(c), NEW g \in Labels(c.strata),
           \A l \in Labels(c.strata) : Shares(c)[l] <= Shares(c)[g]
    PROVE  /\ \A l \in Labels(c.strata) : Shares(c)[l] \in Nat
           /\ SumFunctionOnSet(Shares(c), Labels(c.strata)) \in Int
           /\ Remainder(c, Shares(c)) \in Int
           /\ SumFunctionOnSet(Shares(c), Labels(c.strata)) + Remainder(c, Shares(c)) = c.size
           /\ Shares(c)[g] + Remainder(c, Shares(c)) \in Nat
<1> DEFINE n == Len(c.strata)
           L == Labels(c.strata)
           s == Shares(c)
           z == c.size
           A == SumFunctionOnSet(s, L)
           R == Remainder(c, s)
<1>1. n \in Nat \ {0} /\ IsFiniteSet(L) /\ Cardinality(L) = n
  BY LabelsDiffer DEF Stratification
<1>2. z \in Nat /\ n * (n - 2) < 2 * z
  BY DEF Stratification
<1>3. g \in L /\ \A l \in L : s[l] <= s[g]
  OBVIOUS
<1>4. CASE c.allocation = "EQUAL"
  <2> DEFINE q == z \div n
  <2>1. q \in Nat /\ z % n \in 0..(n - 1) /\ z = n * q + (z % n)
    <3> HIDE DEF z, n
    <3> QED
      BY <1>1, <1>2, DivisionBounds
  <2>2. \A l \in L : s[l] = q
    BY <1>4 DEF Shares, Share
  <2>3. R = z - q * n
    BY <1>4 DEF Remainder
  <2> HIDE DEF q, z, n, s, L, R
  <2>4. A = q * Cardinality(L)
    BY ONLY <1>1, <2>1, <2>2, SumConstant, q \in Int
  <2>5. q * n \in Nat /\ q * n = n * q /\ A = q * n
    BY <1>1, <2>1, <2>4
  <2>6. R = z % n
    BY <1>2, <2>1, <2>3, <2>5
  <2>7. R \in Nat /\ A + R = z
    BY <1>2, <2>1, <2>3, <2>5, <2>6
  <2> QED
    BY <1>3, <2>1, <2>2, <2>5, <2>7 DEF s, L, R, z
<1>5. CASE c.allocation = "PROPORTIONAL"
  <2>1. /\ \A l \in L : s[l] \in Nat
        /\ A \in Int /\ R = z - A /\ R \in Int /\ -n <= 2 * R
    BY <1>5, ProportionalShares
  <2> HIDE DEF n, L, s, z, A, R
  <2>2. A <= s[g] * n
    <3>1. 0 \in Int /\ s[g] \in Int /\ \A l \in L : s[l] \in Int /\ 0 <= s[l] /\ s[l] <= s[g]
      BY <1>3, <2>1
    <3>2. SumFunctionOnSet(s, L) <= s[g] * Cardinality(L)
      BY ONLY <1>1, <3>1, SumBetween
    <3> QED
      BY <1>1, <3>2 DEF A
  <2>3. s[g] \in Nat
    BY <1>3, <2>1
  <2>4. s[g] + R \in Nat
    <3> SUFFICES ASSUME s[g] + R < 0 PROVE FALSE
      BY <2>1, <2>3
    <3>1. 2 * s[g] <= n - 2
      BY <1>1, <2>1, <2>3
    <3>2. PICK d \in Nat : n - 2 = 2 * s[g] + d
      <4>1. (n - 2) - 2 * s[g] \in Nat /\ n - 2 = 2 * s[g] + ((n - 2) - 2 * s[g])
        BY <1>1, <2>3, <3>1
      <4> QED
        BY <4>1
    <3>3. n * (n - 2) = 2 * (s[g] * n) + n * d /\ n * d \in Nat /\ s[g] * n \in Nat
      <4>1. n \in Nat /\ s[g] \in Nat
        BY <1>1, <2>3
      <4>2. n * (n - 2) = n * (2 * s[g] + d)
        BY <3>2
      <4>3. n * (2 * s[g] + d) = 2 * (s[g] * n) + n * d
        BY <4>1
      <4> QED
        BY <4>1, <4>2, <4>3
    <3>4. n * (n - 2) \in Int
      BY <1>1
    <3>5. 2 * z <= n * (n - 2)
      BY <1>2, <2>1, <2>2, <2>3, <3>3
    <3> QED
      BY <1>2, <3>4, <3>5
  <2>5. A + R = z
    BY <1>2, <2>1
  <2> QED
    BY <2>1, <2>4, <2>5 DEF A, R, s, L, z
<1> QED
  BY <1>4, <1>5 DEF Stratification

(* allocate_stratified_samples: the shares, with what rounding left over   *)
(* at one of the largest; nothing is negative, and all add up to the size. *)
LEMMA AllocationAddsUp ==
    ASSUME NEW c, Stratification(c)
    PROVE  LET a == AllocateStratifiedSamples(c)
               L == Labels(c.strata)
           IN  /\ DOMAIN a = L /\ IsFiniteSet(L)
               /\ \A l \in L : a[l] \in Nat
               /\ SumFunctionOnSet(a, L) = c.size
               /\ \E i \in 1..Len(c.strata) :
                    LET g == c.strata[i].label
                    IN  /\ g \in L
                        /\ \A l \in L : Shares(c)[l] <= Shares(c)[g]
                        /\ a[g] = Shares(c)[g] + Remainder(c, Shares(c))
                        /\ \A l \in L \ {g} : a[l] = Shares(c)[l]
<1> DEFINE a == AllocateStratifiedSamples(c)
           L == Labels(c.strata)
           s == Shares(c)
           R == Remainder(c, s)
<1>1. DOMAIN s = L
  BY DEF Shares
<1>2. \A l \in L : s[l] \in Int
  <2>1. CASE c.allocation = "PROPORTIONAL"
    BY <2>1, ProportionalShares
  <2>2. CASE c.allocation = "EQUAL"
    <3> DEFINE n == Len(c.strata)
               z == c.size
    <3>1. n \in Nat \ {0} /\ z \in Nat
      BY LabelsDiffer DEF Stratification
    <3>2. \A l \in L : s[l] = z \div n
      BY <2>2 DEF Shares, Share
    <3>3. z \div n \in Nat
      <4> HIDE DEF n, z
      <4> QED
        BY <3>1, DivisionBounds
    <3> QED
      BY <3>2, <3>3
  <2> QED
    BY <2>1, <2>2 DEF Stratification
<1>3. PICK i \in 1..Len(c.strata) :
        /\ Largest(c.strata, s) = c.strata[i].label
        /\ \A l \in L : s[l] <= s[c.strata[i].label]
  <2> HIDE DEF s
  <2> QED
    BY <1>2, LargestHasMost
<1> DEFINE g == c.strata[i].label
<1>4. g \in L /\ IsFiniteSet(L)
  BY LabelsDiffer
<1>5. a = [s EXCEPT ![g] = @ + R]
  BY <1>3 DEF AllocateStratifiedSamples, Shares
<1>6. /\ \A l \in L : s[l] \in Nat
      /\ SumFunctionOnSet(s, L) \in Int /\ R \in Int
      /\ SumFunctionOnSet(s, L) + R = c.size
      /\ s[g] + R \in Nat
  BY <1>3, <1>4, SharesAddUp
<1> DEFINE K == L \ {g}
<1>7. IsFiniteSet(K) /\ g \notin K /\ K \cup {g} = L
  BY <1>4, FS_RemoveElement
<1> HIDE DEF a, L, s, R, g
<1>8. DOMAIN a = L /\ a[g] = s[g] + R /\ \A l \in K : a[l] = s[l]
  BY <1>1, <1>4, <1>5
<1>9. \A l \in L : a[l] \in Nat
  BY <1>6, <1>8
<1>10. SumFunctionOnSet(a, L) = c.size
  <2>1. \A l \in K : s[l] \in Int /\ a[l] \in Int /\ a[l] = s[l]
    BY <1>6, <1>8
  <2>2. s[g] \in Int /\ a[g] \in Int
    BY <1>4, <1>6, <1>9
  <2> HIDE DEF K
  <2>3. SumFunctionOnSet(a, K) = SumFunctionOnSet(s, K)
    BY ONLY <1>7, <2>1, SumSame
  <2>4. /\ SumFunctionOnSet(s, K) \in Int
        /\ SumFunctionOnSet(s, K \cup {g}) = s[g] + SumFunctionOnSet(s, K)
    BY ONLY <1>7, <2>1, <2>2, SumAdd
  <2>5. SumFunctionOnSet(a, K \cup {g}) = a[g] + SumFunctionOnSet(a, K)
    BY ONLY <1>7, <2>1, <2>2, SumAdd
  <2>6. /\ SumFunctionOnSet(s, L) = s[g] + SumFunctionOnSet(s, K)
        /\ SumFunctionOnSet(a, L) = a[g] + SumFunctionOnSet(s, K)
    BY ONLY <1>7, <2>3, <2>4, <2>5
  <2> DEFINE rest == SumFunctionOnSet(s, K)
             all == SumFunctionOnSet(s, L)
             sum == SumFunctionOnSet(a, L)
  <2>7. rest \in Int /\ all = s[g] + rest /\ sum = a[g] + rest /\ all + R = c.size
    BY <1>6, <2>4, <2>6
  <2> HIDE DEF rest, all, sum
  <2>8. sum = c.size
    BY <1>6, <1>8, <2>2, <2>7
  <2> QED
    BY <2>8 DEF sum
<1> QED
  BY <1>3, <1>4, <1>8, <1>9, <1>10 DEF a, L, s, R, g

-----------------------------------------------------------------------------
(* The geospatial context *)

(* An AOI row, a campaign and its points, as NewAoi, NewCampaign and       *)
(* CommitPoints leave them. *)
AoiRow(v, s, g) ==
    [exists |-> TRUE, version |-> v, status |-> s, geometry |-> g, twiceArea |-> TwiceArea(g)]

Retired(row) == [row EXCEPT !.status = "SUPERSEDED"]

CampaignRow(s, a, strategy, p) ==
    [exists |-> TRUE, status |-> s, aoi |-> a, strategy |-> strategy, points |-> p]

Revision(g, e) == [at |-> "define", geometry |-> g, existing |-> e]

Generation(c, p) == [at |-> "generate", campaign |-> c, points |-> p]

(* Versions count revisions: none exceeds the number of rows. *)
AoiTable ==
    /\ DOMAIN aoi = AoiIds
    /\ \A a \in AoiIds :
          \/ aoi[a] = NoRow
          \/ \E v \in 1..Cardinality(Rows(aoi)), s \in {"ACTIVE", "SUPERSEDED"}, g \in Geometries :
                ValidGeometry(g) /\ aoi[a] = AoiRow(v, s, g)

Inside(c, p) == PointInGeometry(p.at, aoi[campaign[c].aoi].geometry)

(* A campaign is an untouched draft or holds the points that its area and  *)
(* its strategy determine. *)
CampaignTable ==
    /\ DOMAIN campaign = CampaignIds
    /\ \A c \in CampaignIds :
          \/ campaign[c] = NoRow
          \/ \E a \in Rows(aoi), strategy \in Strategies :
                /\ ValidStrategy(strategy)
                /\ \/ campaign[c] = CampaignRow("DRAFT", a, strategy, NoRow)
                   \/ /\ campaign[c] = CampaignRow("GENERATED", a, strategy, GeneratePoints(c))
                      /\ Inside(c, GeneratePoints(c))

(* What a request holds stays valid while others commit: the row it read   *)
(* still exists, superseded or not, and the points it computed are still   *)
(* the ones that would be computed now. *)
Holdings ==
    /\ DOMAIN worker = Workers
    /\ \A w \in Workers :
          \/ worker[w] = Idle
          \/ \E g \in Geometries, e \in Rows(aoi) \cup {NoAoi} :
                ValidGeometry(g) /\ worker[w] = Revision(g, e)
          \/ \E c \in Rows(campaign) :
                /\ worker[w] = Generation(c, GeneratePoints(c))
                /\ Inside(c, GeneratePoints(c))

AoiTypes == AoiTable /\ CampaignTable /\ Holdings /\ raced \in BOOLEAN

AoiInv == AoiTypes /\ HeadIsActive /\ OneActiveUnlessRaced

(* No record of a table is the absent row. *)
LEMMA RowsExist ==
    /\ NoRow.exists = FALSE
    /\ \A v, s, g : AoiRow(v, s, g).exists /\ AoiRow(v, s, g) # NoRow
    /\ \A s, a, t, p : CampaignRow(s, a, t, p).exists
  BY DEF NoRow, AoiRow, CampaignRow

LEMMA FreshIsUnused ==
    ASSUME NEW table, NEW i \in Fresh(table)
    PROVE  i \in DOMAIN table /\ i \notin Rows(table)
  BY DEF Fresh

LEMMA AoiRows ==
    ASSUME AoiTable
    PROVE  /\ Rows(aoi) \subseteq AoiIds
           /\ IsFiniteSet(Rows(aoi))
           /\ Cardinality(Rows(aoi)) \in Nat
           /\ Cardinality(Rows(aoi)) <= Cardinality(AoiIds)
           /\ Cardinality(AoiIds) \in Nat
           /\ \A a \in Rows(aoi) :
                \E v \in 1..Cardinality(Rows(aoi)), s \in {"ACTIVE", "SUPERSEDED"},
                   g \in Geometries : ValidGeometry(g) /\ aoi[a] = AoiRow(v, s, g)
<1>1. Rows(aoi) \subseteq AoiIds
  BY DEF AoiTable, Rows
<1>2. IsFiniteSet(Rows(aoi)) /\ Cardinality(Rows(aoi)) <= Cardinality(AoiIds)
  BY <1>1, FS_Subset, GeospatialAssumption DEF GeospatialAssumption
<1>3. Cardinality(Rows(aoi)) \in Nat /\ Cardinality(AoiIds) \in Nat
  BY <1>2, FS_CardinalityType, GeospatialAssumption DEF GeospatialAssumption
<1>4. \A a \in Rows(aoi) : aoi[a] # NoRow
  BY RowsExist DEF Rows
<1> QED
  BY <1>1, <1>2, <1>3, <1>4 DEF AoiTable

(* The type invariant is the least of what AoiTypes says. *)
LEMMA AoiTypesSuffice == AoiTypes => AoiTypeOK
<1> SUFFICES ASSUME AoiTypes PROVE AoiTypeOK
  OBVIOUS
<1>1. ASSUME NEW a \in Rows(aoi)
      PROVE  /\ aoi[a].version \in 1..Cardinality(AoiIds)
             /\ aoi[a].status \in {"ACTIVE", "SUPERSEDED"}
             /\ ValidGeometry(aoi[a].geometry)
  <2> PICK v \in 1..Cardinality(Rows(aoi)), s \in {"ACTIVE", "SUPERSEDED"}, g \in Geometries :
              ValidGeometry(g) /\ aoi[a] = AoiRow(v, s, g)
    BY AoiRows DEF AoiTypes
  <2>1. aoi[a].version = v /\ aoi[a].status = s /\ aoi[a].geometry = g
    BY DEF AoiRow
  <2>2. v \in 1..Cardinality(AoiIds)
    BY AoiRows DEF AoiTypes
  <2> QED
    BY <2>1, <2>2
<1>2. ASSUME NEW c \in Rows(campaign)
      PROVE  /\ campaign[c].aoi \in Rows(aoi)
             /\ campaign[c].status \in {"DRAFT", "GENERATED"}
             /\ (campaign[c].status = "GENERATED") <=> (campaign[c].points # NoRow)
  <2>1. c \in CampaignIds /\ campaign[c] # NoRow
    BY RowsExist DEF Rows, AoiTypes, CampaignTable
  <2>2. PICK a \in Rows(aoi), strategy \in Strategies :
            \/ campaign[c] = CampaignRow("DRAFT", a, strategy, NoRow)
            \/ campaign[c] = CampaignRow("GENERATED", a, strategy, GeneratePoints(c))
    BY <2>1 DEF AoiTypes, CampaignTable
  <2>3. GeneratePoints(c) # NoRow
    BY DEF GeneratePoints, NoRow
  <2>4. CASE campaign[c] = CampaignRow("DRAFT", a, strategy, NoRow)
    BY <2>4 DEF CampaignRow
  <2>5. CASE campaign[c] = CampaignRow("GENERATED", a, strategy, GeneratePoints(c))
    <3>1. /\ campaign[c].aoi = a /\ campaign[c].status = "GENERATED"
          /\ campaign[c].points = GeneratePoints(c)
      BY <2>5 DEF CampaignRow
    <3> QED
      BY <3>1, <2>3
  <2> QED
    BY <2>2, <2>4, <2>5
<1> QED
  BY <1>1, <1>2 DEF AoiTypeOK

LEMMA CampaignRows ==
    ASSUME AoiTypes, NEW c \in Rows(campaign)
    PROVE  /\ c \in CampaignIds
           /\ \E a \in Rows(aoi), strategy \in Strategies :
                /\ ValidStrategy(strategy)
                /\ \/ campaign[c] = CampaignRow("DRAFT", a, strategy, NoRow)
                   \/ /\ campaign[c] = CampaignRow("GENERATED", a, strategy, GeneratePoints(c))
                      /\ Inside(c, GeneratePoints(c))
           /\ campaign[c].aoi \in Rows(aoi)
<1>1. c \in CampaignIds /\ campaign[c] # NoRow
  BY RowsExist DEF Rows, AoiTypes, CampaignTable
<1>2. PICK a \in Rows(aoi), strategy \in Strategies :
          /\ ValidStrategy(strategy)
          /\ \/ campaign[c] = CampaignRow("DRAFT", a, strategy, NoRow)
             \/ /\ campaign[c] = CampaignRow("GENERATED", a, strategy, GeneratePoints(c))
                /\ Inside(c, GeneratePoints(c))
  BY <1>1 DEF AoiTypes, CampaignTable
<1>3. campaign[c].aoi = a
  BY <1>2 DEF CampaignRow
<1> QED
  BY <1>1, <1>2, <1>3

(* What a commit of campaigns or of nothing leaves: with the areas kept    *)
(* and no campaign taken back or moved, what is held stays valid. *)
LEMMA HoldingsKept ==
    ASSUME AoiTypes, Rows(aoi) \subseteq Rows(aoi)', stream' = stream,
           \A a \in Rows(aoi) : aoi'[a].geometry = aoi[a].geometry,
           \A c \in Rows(campaign) :
              /\ c \in Rows(campaign)'
              /\ campaign'[c].aoi = campaign[c].aoi
              /\ campaign'[c].strategy = campaign[c].strategy,
           NEW w \in Workers, worker'[w] = worker[w]
    PROVE  \/ worker'[w] = Idle
           \/ \E g \in Geometries, e \in Rows(aoi)' \cup {NoAoi} :
                ValidGeometry(g) /\ worker'[w] = Revision(g, e)
           \/ \E c \in Rows(campaign)' :
                /\ worker'[w] = Generation(c, GeneratePoints(c)')
                /\ Inside(c, GeneratePoints(c))'
<1>1. CASE worker[w] = Idle
  BY <1>1
<1>2. CASE \E g \in Geometries, e \in Rows(aoi) \cup {NoAoi} :
              ValidGeometry(g) /\ worker[w] = Revision(g, e)
  BY <1>2
<1>3. CASE \E c \in Rows(campaign) :
              /\ worker[w] = Generation(c, GeneratePoints(c))
              /\ Inside(c, GeneratePoints(c))
  <2> PICK c \in Rows(campaign) :
          /\ worker[w] = Generation(c, GeneratePoints(c))
          /\ Inside(c, GeneratePoints(c))
    BY <1>3
  <2>1. campaign[c].aoi \in Rows(aoi)
    BY CampaignRows
  <2>2. GeneratePoints(c)' = GeneratePoints(c) /\ Inside(c, GeneratePoints(c))'
    <3>1. /\ campaign'[c].aoi = campaign[c].aoi
          /\ campaign'[c].strategy = campaign[c].strategy
          /\ aoi'[campaign[c].aoi].geometry = aoi[campaign[c].aoi].geometry
      BY <2>1
    <3>2. GeneratePoints(c)' = GeneratePoints(c)
      BY <3>1 DEF GeneratePoints
    <3>3. Inside(c, GeneratePoints(c))' <=> Inside(c, GeneratePoints(c))
      BY <3>1, <3>2 DEF Inside
    <3> QED
      BY <3>2, <3>3
  <2> QED
    BY <2>2
<1> QED
  BY <1>1, <1>2, <1>3 DEF AoiTypes, Holdings

(* The same for the campaigns, under a commit of areas. *)
LEMMA CampaignsKept ==
    ASSUME AoiTypes, Rows(aoi) \subseteq Rows(aoi)', stream' = stream,
           \A a \in Rows(aoi) : aoi'[a].geometry = aoi[a].geometry,
           campaign' = campaign
    PROVE  CampaignTable'
<1> SUFFICES ASSUME NEW c \in CampaignIds, campaign[c] # NoRow
             PROVE  \E a \in Rows(aoi)', strategy \in Strategies :
                      /\ ValidStrategy(strategy)
                      /\ \/ campaign[c] = CampaignRow("DRAFT", a, strategy, NoRow)
                         \/ /\ campaign[c] = CampaignRow("GENERATED", a, strategy, GeneratePoints(c)')
                            /\ Inside(c, GeneratePoints(c))'
  BY DEF CampaignTable, AoiTypes
<1>1. PICK a \in Rows(aoi), strategy \in Strategies :
          /\ ValidStrategy(strategy)
          /\ \/ campaign[c] = CampaignRow("DRAFT", a, strategy, NoRow)
             \/ /\ campaign[c] = CampaignRow("GENERATED", a, strategy, GeneratePoints(c))
                /\ Inside(c, GeneratePoints(c))
  BY DEF AoiTypes, CampaignTable
<1>2. campaign[c].aoi = a
  BY <1>1 DEF CampaignRow
<1>3. GeneratePoints(c)' = GeneratePoints(c)
  BY <1>2 DEF GeneratePoints
<1>4. Inside(c, GeneratePoints(c))' <=> Inside(c, GeneratePoints(c))
  BY <1>2, <1>3 DEF Inside
<1> QED
  BY <1>1, <1>3, <1>4

LEMMA RetiredRow ==
    ASSUME NEW v, NEW s, NEW g
    PROVE  Retired(AoiRow(v, s, g)) = AoiRow(v, "SUPERSEDED", g)
<1> DEFINE t == TwiceArea(g)
           S == [exists : {TRUE}, version : {v}, status : {s, "SUPERSEDED"}, geometry : {g},
                 twiceArea : {t}]
<1> HIDE DEF t
<1>1. AoiRow(v, s, g) = [exists |-> TRUE, version |-> v, status |-> s, geometry |-> g,
                         twiceArea |-> t]
  BY DEF AoiRow, t
<1>2. AoiRow(v, "SUPERSEDED", g)
        = [exists |-> TRUE, version |-> v, status |-> "SUPERSEDED", geometry |-> g,
           twiceArea |-> t]
  BY DEF AoiRow, t
<1>3. AoiRow(v, s, g) \in S
  BY <1>1
<1>4. Retired(AoiRow(v, s, g)) \in S
  BY <1>3 DEF Retired
<1>5. Retired(AoiRow(v, s, g)).status = "SUPERSEDED"
  BY <1>3 DEF Retired
<1> QED
  BY <1>2, <1>4, <1>5

LEMMA AoiInitTypes == AoiInit => AoiInv
<1> SUFFICES ASSUME AoiInit PROVE AoiInv
  OBVIOUS
<1>1. Rows(aoi) = {} /\ Rows(campaign) = {}
  BY RowsExist DEF AoiInit, Rows
<1>2. AoiTypes
  BY <1>1 DEF AoiTypes, AoiTable, CampaignTable, Holdings, AoiInit
<1>3. HeadIsActive
  BY <1>1 DEF HeadIsActive
<1>4. OneActiveUnlessRaced
  <2>1. Cardinality(Rows(aoi)) = 0
    BY <1>1, FS_EmptySet
  <2>2. {aoi[a].version : a \in Rows(aoi)} = {}
    BY <1>1
  <2>3. 1..0 = {}
    OBVIOUS
  <2> QED
    BY <1>1, <2>1, <2>2, <2>3 DEF OneActiveUnlessRaced
<1> QED
  BY <1>2, <1>3, <1>4 DEF AoiInv

(* What a revision commits, said once for both tables: one unused id takes *)
(* the new row, the row that was read is superseded, nothing else moves. *)
LEMMA CommitEffect ==
    ASSUME AoiTypes, NEW w \in Workers, CommitAoi(w)
    PROVE  \E g \in Geometries, e \in Rows(aoi) \cup {NoAoi}, a \in AoiIds :
              /\ ValidGeometry(g) /\ worker[w] = Revision(g, e)
              /\ a \notin Rows(aoi)
              /\ DOMAIN aoi' = AoiIds
              /\ aoi'[a] = AoiRow(IF e = NoAoi THEN 1 ELSE aoi[e].version + 1, "ACTIVE", g)
              /\ \A b \in AoiIds \ {a} :
                    aoi'[b] = IF b = e THEN Retired(aoi[b]) ELSE aoi[b]
<1>1. worker[w].at = "define"
  BY DEF CommitAoi
<1>2. PICK g \in Geometries, e \in Rows(aoi) \cup {NoAoi} :
          ValidGeometry(g) /\ worker[w] = Revision(g, e)
  BY <1>1 DEF AoiTypes, Holdings, Idle, Generation
<1>3. worker[w].existing = e /\ worker[w].geometry = g
  BY <1>2 DEF Revision
<1>4. PICK a \in Fresh(aoi) : aoi' = [Superseded(aoi, e) EXCEPT ![a] = NewAoi(worker[w])]
  BY <1>3 DEF CommitAoi
<1>5. a \in AoiIds /\ a \notin Rows(aoi) /\ DOMAIN aoi = AoiIds
  BY <1>4, FreshIsUnused DEF AoiTypes, AoiTable
<1>6. NewAoi(worker[w]) = AoiRow(IF e = NoAoi THEN 1 ELSE aoi[e].version + 1, "ACTIVE", g)
  BY <1>3 DEF NewAoi, AoiRow
<1>7. DOMAIN Superseded(aoi, e) = AoiIds
  BY <1>5 DEF Superseded
<1>8. ASSUME NEW b \in AoiIds
      PROVE  Superseded(aoi, e)[b] =
                IF b = e THEN Retired(aoi[b]) ELSE aoi[b]
  <2>1. CASE e = NoAoi
    <3>1. b # e
      BY <2>1, GeospatialAssumption DEF GeospatialAssumption
    <3> QED
      BY <2>1, <3>1 DEF Superseded
  <2>2. CASE e # NoAoi
    BY <2>2, <1>5 DEF Superseded, Retired
  <2> QED
    BY <2>1, <2>2
<1>9. DOMAIN aoi' = AoiIds
  BY <1>4, <1>7
<1>10. aoi'[a] = NewAoi(worker[w])
  BY <1>4, <1>5, <1>7
<1>11. \A b \in AoiIds \ {a} : aoi'[b] = Superseded(aoi, e)[b]
  BY <1>4, <1>7
<1>12. \A b \in AoiIds \ {a} : aoi'[b] = IF b = e THEN Retired(aoi[b]) ELSE aoi[b]
  BY <1>8, <1>11
<1>13. aoi'[a] = AoiRow(IF e = NoAoi THEN 1 ELSE aoi[e].version + 1, "ACTIVE", g)
  BY <1>6, <1>10
<1> HIDE DEF Retired
<1> QED
  BY <1>2, <1>5, <1>9, <1>12, <1>13

(* ... and so the rows, their versions and which of them are active. *)
LEMMA CommitRows ==
    ASSUME AoiTypes,
           NEW g \in Geometries, NEW e \in Rows(aoi) \cup {NoAoi}, NEW a \in AoiIds,
           a \notin Rows(aoi), DOMAIN aoi' = AoiIds,
           aoi'[a] = AoiRow(IF e = NoAoi THEN 1 ELSE aoi[e].version + 1, "ACTIVE", g),
           \A b \in AoiIds \ {a} :
              aoi'[b] = IF b = e THEN Retired(aoi[b]) ELSE aoi[b]
    PROVE  /\ Rows(aoi)' = Rows(aoi) \cup {a}
           /\ Cardinality(Rows(aoi)') = Cardinality(Rows(aoi)) + 1
           /\ \A b \in Rows(aoi) : /\ aoi'[b].version = aoi[b].version
                                   /\ aoi'[b].geometry = aoi[b].geometry
           /\ Active' = (Active \ {e}) \cup {a}
<1>1. Rows(aoi) \subseteq AoiIds /\ DOMAIN aoi = AoiIds
  BY AoiRows DEF AoiTypes, AoiTable
<1>2. ASSUME NEW b \in Rows(aoi)
      PROVE  /\ aoi'[b].exists
             /\ aoi'[b].version = aoi[b].version
             /\ aoi'[b].geometry = aoi[b].geometry
             /\ b = e => aoi'[b].status = "SUPERSEDED"
             /\ b # e => aoi'[b] = aoi[b]
  <2> PICK v \in 1..Cardinality(Rows(aoi)), s \in {"ACTIVE", "SUPERSEDED"}, h \in Geometries :
              ValidGeometry(h) /\ aoi[b] = AoiRow(v, s, h)
    BY AoiRows DEF AoiTypes
  <2>1. b \in AoiIds \ {a}
    BY <1>1
  <2>2. CASE b = e
    <3>1. aoi'[b] = AoiRow(v, "SUPERSEDED", h)
      BY <2>1, <2>2, RetiredRow
    <3> QED
      BY <3>1, <2>2 DEF AoiRow
  <2>3. CASE b # e
    BY <2>1, <2>3, RowsExist
  <2> QED
    BY <2>2, <2>3
<1>3. aoi'[a].exists /\ aoi'[a].status = "ACTIVE"
  BY DEF AoiRow
<1>4. ASSUME NEW b \in AoiIds \ {a}, b \notin Rows(aoi) PROVE ~aoi'[b].exists
  <2>1. aoi[b] = NoRow
    <3>1. ~aoi[b].exists
      BY <1>1, <1>4 DEF Rows
    <3>2. aoi[b] = NoRow \/ \E v, s, h : aoi[b] = AoiRow(v, s, h)
      BY DEF AoiTypes, AoiTable
    <3> QED
      BY <3>1, <3>2, RowsExist
  <2>2. b # e
    BY <1>4, GeospatialAssumption DEF GeospatialAssumption
  <2> QED
    BY <2>1, <2>2, RowsExist
<1>5. Rows(aoi)' = Rows(aoi) \cup {a}
  BY <1>1, <1>2, <1>3, <1>4 DEF Rows
<1>6. Cardinality(Rows(aoi)') = Cardinality(Rows(aoi)) + 1
  BY <1>5, AoiRows, FS_AddElement DEF AoiTypes
<1>7. Active' = (Active \ {e}) \cup {a}
  <2>1. ASSUME NEW b \in Rows(aoi) PROVE b \in Active' <=> b \in Active \ {e}
    <3>1. b \in Active' <=> aoi'[b].status = "ACTIVE"
      BY <1>5 DEF Active
    <3>2. b \in Active <=> aoi[b].status = "ACTIVE"
      BY DEF Active
    <3> QED
      BY <1>2, <3>1, <3>2
  <2>2. a \in Active' /\ Active' \subseteq Rows(aoi)' /\ Active \subseteq Rows(aoi)
    BY <1>3, <1>5 DEF Active
  <2> QED
    BY <2>1, <2>2, <1>5
<1> QED
  BY <1>2, <1>5, <1>6, <1>7

(* A committed revision keeps the tables well typed. *)
LEMMA CommitAoiTypes ==
    ASSUME AoiTypes, NEW w \in Workers, CommitAoi(w)
    PROVE  AoiTypes'
<1> PICK g \in Geometries, e \in Rows(aoi) \cup {NoAoi}, a \in AoiIds :
        /\ ValidGeometry(g) /\ worker[w] = Revision(g, e)
        /\ a \notin Rows(aoi)
        /\ DOMAIN aoi' = AoiIds
        /\ aoi'[a] = AoiRow(IF e = NoAoi THEN 1 ELSE aoi[e].version + 1, "ACTIVE", g)
        /\ \A b \in AoiIds \ {a} : aoi'[b] = IF b = e THEN Retired(aoi[b]) ELSE aoi[b]
  BY CommitEffect
<1> HIDE DEF Retired
<1> DEFINE n == Cardinality(Rows(aoi))
<1>1. /\ Rows(aoi)' = Rows(aoi) \cup {a}
      /\ Cardinality(Rows(aoi)') = n + 1
      /\ \A b \in Rows(aoi) : aoi'[b].version = aoi[b].version
                              /\ aoi'[b].geometry = aoi[b].geometry
  BY CommitRows
<1>2. n \in Nat
  BY AoiRows DEF AoiTypes
<1>3. /\ campaign' = campaign /\ stream' = stream
      /\ worker' = [worker EXCEPT ![w] = Idle] /\ raced' \in BOOLEAN
  BY DEF CommitAoi, AoiTypes
<1> HIDE DEF n
<1>4. AoiTable'
  <2> SUFFICES ASSUME NEW b \in AoiIds
               PROVE  \/ aoi'[b] = NoRow
                      \/ \E v \in 1..(n + 1), s \in {"ACTIVE", "SUPERSEDED"}, h \in Geometries :
                            ValidGeometry(h) /\ aoi'[b] = AoiRow(v, s, h)
    BY <1>1 DEF AoiTable
  <2>1. CASE b = a
    <3> DEFINE v == IF e = NoAoi THEN 1 ELSE aoi[e].version + 1
    <3>1. v \in 1..(n + 1)
      <4>1. CASE e = NoAoi
        BY <4>1, <1>2
      <4>2. CASE e # NoAoi
        <5>1. PICK u \in 1..n, s \in {"ACTIVE", "SUPERSEDED"}, h \in Geometries :
                  aoi[e] = AoiRow(u, s, h)
          BY <4>2, AoiRows DEF AoiTypes, n
        <5>2. aoi[e].version = u
          BY <5>1 DEF AoiRow
        <5> QED
          BY <4>2, <5>2, <1>2
      <4> QED
        BY <4>1, <4>2
    <3>2. aoi'[b] = AoiRow(v, "ACTIVE", g)
      BY <2>1
    <3> HIDE DEF v
    <3> QED
      BY <3>1, <3>2
  <2>2. CASE b # a
    <3>1. aoi[b] = NoRow \/ \E v \in 1..n, s \in {"ACTIVE", "SUPERSEDED"}, h \in Geometries :
                                ValidGeometry(h) /\ aoi[b] = AoiRow(v, s, h)
      BY DEF AoiTypes, AoiTable, n
    <3>2. CASE aoi[b] = NoRow
      <4>1. b # e
        <5>1. b \notin Rows(aoi)
          BY <3>2, RowsExist DEF Rows
        <5> QED
          BY <5>1, GeospatialAssumption DEF GeospatialAssumption
      <4> QED
        BY <2>2, <3>2, <4>1
    <3>3. CASE \E v \in 1..n, s \in {"ACTIVE", "SUPERSEDED"}, h \in Geometries :
                   ValidGeometry(h) /\ aoi[b] = AoiRow(v, s, h)
      <4> PICK v \in 1..n, s \in {"ACTIVE", "SUPERSEDED"}, h \in Geometries :
              ValidGeometry(h) /\ aoi[b] = AoiRow(v, s, h)
        BY <3>3
      <4>1. v \in 1..(n + 1)
        BY <1>2
      <4>2. aoi'[b] = AoiRow(v, "SUPERSEDED", h) \/ aoi'[b] = AoiRow(v, s, h)
        BY <2>2, RetiredRow
      <4> QED
        BY <4>1, <4>2
    <3> QED
      BY <3>1, <3>2, <3>3
  <2> QED
    BY <2>1, <2>2
<1>5. CampaignTable'
  BY <1>1, <1>3, CampaignsKept
<1>6. Holdings'
  <2>1. DOMAIN worker' = Workers
    BY <1>3 DEF AoiTypes, Holdings
  <2>2. worker'[w] = Idle /\ \A x \in Workers \ {w} : worker'[x] = worker[x]
    BY <1>3 DEF AoiTypes, Holdings
  <2>3. \A c \in Rows(campaign) : /\ c \in Rows(campaign)'
                                  /\ campaign'[c].aoi = campaign[c].aoi
                                  /\ campaign'[c].strategy = campaign[c].strategy
    BY <1>3
  <2>4. ASSUME NEW x \in Workers
        PROVE  \/ worker'[x] = Idle
               \/ \E h \in Geometries, f \in Rows(aoi)' \cup {NoAoi} :
                    ValidGeometry(h) /\ worker'[x] = Revision(h, f)
               \/ \E c \in Rows(campaign)' :
                    /\ worker'[x] = Generation(c, GeneratePoints(c)')
                    /\ Inside(c, GeneratePoints(c))'
    <3>1. CASE x = w
      BY <3>1, <2>2
    <3>2. CASE x # w
      BY ONLY <1>1, <1>3, <2>2, <2>3, <3>2, AoiTypes, HoldingsKept
    <3> QED
      BY <3>1, <3>2
  <2> QED
    BY <2>1, <2>4 DEF Holdings
<1> QED
  BY <1>3, <1>4, <1>5, <1>6 DEF AoiTypes

(* A step that leaves the rows of both tables where they are, and gives    *)
(* worker w something valid to hold. *)
LEMMA WorkerStep ==
    ASSUME AoiTypes, NEW w \in Workers, NEW o,
           worker' = [worker EXCEPT ![w] = o],
           UNCHANGED <<aoi, campaign, stream, raced>>,
           \/ o = Idle
           \/ \E g \in Geometries, e \in Rows(aoi) \cup {NoAoi} :
                ValidGeometry(g) /\ o = Revision(g, e)
           \/ \E c \in Rows(campaign) :
                o = Generation(c, GeneratePoints(c)) /\ Inside(c, GeneratePoints(c))
    PROVE  AoiTypes'
<1>1. AoiTable' /\ raced' \in BOOLEAN
  BY DEF AoiTypes, AoiTable, Rows
<1>2. CampaignTable'
  BY DEF AoiTypes, CampaignTable, Rows, Inside, GeneratePoints
<1>3. Holdings'
  <2>1. DOMAIN worker' = Workers /\ worker'[w] = o
        /\ \A x \in Workers \ {w} : worker'[x] = worker[x]
    BY DEF AoiTypes, Holdings
  <2>2. Rows(aoi)' = Rows(aoi) /\ Rows(campaign)' = Rows(campaign)
    BY DEF Rows
  <2>3. \A c : /\ GeneratePoints(c)' = GeneratePoints(c)
               /\ Inside(c, GeneratePoints(c))' <=> Inside(c, GeneratePoints(c))
    BY DEF GeneratePoints, Inside
  <2> QED
    BY <2>1, <2>2, <2>3 DEF AoiTypes, Holdings
<1> QED
  BY <1>1, <1>2, <1>3 DEF AoiTypes

LEMMA DefineTypes ==
    ASSUME AoiTypes, NEW w \in Workers, NEW g \in Geometries, DefineOrReviseAoi(w, g)
    PROVE  AoiTypes'
<1> DEFINE e == IF Active = {} THEN NoAoi ELSE CHOOSE a \in Active : TRUE
<1>1. worker' = [worker EXCEPT ![w] = Revision(g, e)]
      /\ UNCHANGED <<aoi, campaign, stream, raced>> /\ ValidGeometry(g)
  BY DEF DefineOrReviseAoi, GetActiveForAssessment, Revision
<1>2. e \in Rows(aoi) \cup {NoAoi}
  BY DEF Active
<1> HIDE DEF e
<1> QED
  BY <1>1, <1>2, WorkerStep

LEMMA GenerateTypes ==
    ASSUME AoiTypes, NEW w \in Workers, NEW c \in CampaignIds, GenerateSamplePoints(w, c)
    PROVE  AoiTypes'
<1>1. c \in Rows(campaign)
  BY DEF GenerateSamplePoints, Rows, AoiTypes, CampaignTable
<1>2. /\ worker' = [worker EXCEPT ![w] = Generation(c, GeneratePoints(c))]
      /\ UNCHANGED <<aoi, campaign, stream, raced>>
      /\ Inside(c, GeneratePoints(c))
  BY DEF GenerateSamplePoints, Generation, Inside
<1> QED
  BY <1>1, <1>2, WorkerStep

LEMMA LoseTypes ==
    ASSUME AoiTypes, NEW w \in Workers, Lose(w)
    PROVE  AoiTypes'
  BY WorkerStep DEF Lose

(* A committed generation turns a draft into what it already would be. *)
LEMMA CommitPointsEffect ==
    ASSUME AoiTypes, NEW w \in Workers, CommitPoints(w)
    PROVE  \E c \in Rows(campaign), a \in Rows(aoi), strategy \in Strategies :
              /\ ValidStrategy(strategy)
              /\ \/ campaign[c] = CampaignRow("DRAFT", a, strategy, NoRow)
                 \/ campaign[c] = CampaignRow("GENERATED", a, strategy, GeneratePoints(c))
              /\ Inside(c, GeneratePoints(c))
              /\ DOMAIN campaign' = CampaignIds
              /\ campaign'[c] = CampaignRow("GENERATED", a, strategy, GeneratePoints(c))
              /\ \A d \in CampaignIds \ {c} : campaign'[d] = campaign[d]
<1>1. worker[w].at = "generate"
  BY DEF CommitPoints
<1>2. PICK c \in Rows(campaign) :
          worker[w] = Generation(c, GeneratePoints(c)) /\ Inside(c, GeneratePoints(c))
  BY <1>1 DEF AoiTypes, Holdings, Idle, Revision
<1> DEFINE p == GeneratePoints(c)
<1>3. worker[w].campaign = c /\ worker[w].points = p
  BY <1>2 DEF Generation
<1>4. PICK a \in Rows(aoi), strategy \in Strategies :
          /\ ValidStrategy(strategy)
          /\ \/ campaign[c] = CampaignRow("DRAFT", a, strategy, NoRow)
             \/ campaign[c] = CampaignRow("GENERATED", a, strategy, p)
  BY CampaignRows
<1>5. c \in CampaignIds /\ DOMAIN campaign = CampaignIds
  BY CampaignRows DEF AoiTypes, CampaignTable
<1>6. campaign' = [campaign EXCEPT ![c].points = p, ![c].status = "GENERATED"]
  BY <1>3 DEF CommitPoints
<1> HIDE DEF p
<1>7. campaign'[c] = [[campaign[c] EXCEPT !.points = p] EXCEPT !.status = "GENERATED"]
      /\ DOMAIN campaign' = CampaignIds
      /\ \A d \in CampaignIds \ {c} : campaign'[d] = campaign[d]
  BY <1>5, <1>6
<1>8. campaign'[c] = CampaignRow("GENERATED", a, strategy, p)
  <2> DEFINE S == [exists : {TRUE}, status : {"DRAFT", "GENERATED"}, aoi : {a},
                   strategy : {strategy}, points : {NoRow, p}]
  <2>1. campaign[c] \in S
    <3>1. CampaignRow("DRAFT", a, strategy, NoRow) \in S
      BY DEF CampaignRow
    <3>2. CampaignRow("GENERATED", a, strategy, p) \in S
      BY DEF CampaignRow
    <3> QED
      BY <1>4, <3>1, <3>2
  <2>2. campaign'[c] \in S
    BY <1>7, <2>1
  <2>3. campaign'[c].points = p /\ campaign'[c].status = "GENERATED"
    BY <1>7, <2>1
  <2> QED
    BY <2>2, <2>3 DEF CampaignRow
<1> QED
  BY <1>2, <1>4, <1>7, <1>8 DEF p

(* A step that changes the row of one campaign without moving it. *)
LEMMA CampaignStep ==
    ASSUME AoiTypes, NEW c \in CampaignIds, NEW a \in Rows(aoi), NEW strategy \in Strategies,
           ValidStrategy(strategy), UNCHANGED <<aoi, stream, raced>>,
           DOMAIN campaign' = CampaignIds,
           \/ campaign'[c] = CampaignRow("DRAFT", a, strategy, NoRow)
           \/ campaign'[c] = CampaignRow("GENERATED", a, strategy, GeneratePoints(c)')
              /\ Inside(c, GeneratePoints(c))',
           c \in Rows(campaign) => campaign[c].aoi = a /\ campaign[c].strategy = strategy,
           \A d \in CampaignIds \ {c} : campaign'[d] = campaign[d],
           DOMAIN worker' = Workers,
           \A w \in Workers : worker'[w] \in {Idle, worker[w]}
    PROVE  AoiTypes'
<1>1. AoiTable' /\ raced' \in BOOLEAN /\ Rows(aoi)' = Rows(aoi)
  BY DEF AoiTypes, AoiTable, Rows
<1>2. campaign'[c].aoi = a /\ campaign'[c].strategy = strategy /\ campaign'[c].exists
  BY DEF CampaignRow
<1>3. ASSUME NEW d \in Rows(campaign)
      PROVE  /\ d \in Rows(campaign)'
             /\ campaign'[d].aoi = campaign[d].aoi
             /\ campaign'[d].strategy = campaign[d].strategy
  <2>1. d \in CampaignIds /\ campaign[d].exists
    BY DEF Rows, AoiTypes, CampaignTable
  <2>2. CASE d = c
    BY <2>2, <1>2 DEF Rows
  <2>3. CASE d # c
    BY <2>1, <2>3 DEF Rows
  <2> QED
    BY <2>2, <2>3
<1>4. CampaignTable'
  <2> SUFFICES ASSUME NEW d \in CampaignIds, campaign'[d] # NoRow
               PROVE  \E b \in Rows(aoi)', t \in Strategies :
                        /\ ValidStrategy(t)
                        /\ \/ campaign'[d] = CampaignRow("DRAFT", b, t, NoRow)
                           \/ /\ campaign'[d] = CampaignRow("GENERATED", b, t, GeneratePoints(d)')
                              /\ Inside(d, GeneratePoints(d))'
    BY DEF CampaignTable
  <2>1. CASE d = c
    BY <2>1, <1>1
  <2>2. CASE d # c
    <3>1. campaign'[d] = campaign[d]
      BY <2>2
    <3>2. GeneratePoints(d)' = GeneratePoints(d)
          /\ (Inside(d, GeneratePoints(d))' <=> Inside(d, GeneratePoints(d)))
      BY <3>1 DEF GeneratePoints, Inside
    <3> QED
      BY <3>1, <3>2, <1>1 DEF AoiTypes, CampaignTable
  <2> QED
    BY <2>1, <2>2
<1>5. Holdings'
  <2> SUFFICES ASSUME NEW w \in Workers
               PROVE  \/ worker'[w] = Idle
                      \/ \E g \in Geometries, e \in Rows(aoi)' \cup {NoAoi} :
                           ValidGeometry(g) /\ worker'[w] = Revision(g, e)
                      \/ \E d \in Rows(campaign)' :
                           /\ worker'[w] = Generation(d, GeneratePoints(d)')
                           /\ Inside(d, GeneratePoints(d))'
    BY DEF Holdings
  <2>1. CASE worker'[w] = Idle
    BY <2>1
  <2>2. CASE worker'[w] = worker[w]
    BY <2>2, <1>1, <1>3, HoldingsKept
  <2> QED
    BY <2>1, <2>2
<1> QED
  BY <1>1, <1>4, <1>5 DEF AoiTypes

LEMMA CommitPointsTypes ==
    ASSUME AoiTypes, NEW w \in Workers, CommitPoints(w)
    PROVE  AoiTypes'
<1> PICK c \in Rows(campaign), a \in Rows(aoi), strategy \in Strategies :
        /\ ValidStrategy(strategy)
        /\ \/ campaign[c] = CampaignRow("DRAFT", a, strategy, NoRow)
           \/ campaign[c] = CampaignRow("GENERATED", a, strategy, GeneratePoints(c))
        /\ Inside(c, GeneratePoints(c))
        /\ DOMAIN campaign' = CampaignIds
        /\ campaign'[c] = CampaignRow("GENERATED", a, strategy, GeneratePoints(c))
        /\ \A d \in CampaignIds \ {c} : campaign'[d] = campaign[d]
  BY CommitPointsEffect
<1>1. UNCHANGED <<aoi, stream, raced>> /\ worker' = [worker EXCEPT ![w] = Idle]
  BY DEF CommitPoints
<1>2. DOMAIN worker' = Workers /\ \A x \in Workers : worker'[x] \in {Idle, worker[x]}
  BY <1>1 DEF AoiTypes, Holdings
<1>3. /\ campaign[c].aoi = a /\ campaign[c].strategy = strategy
      /\ campaign'[c].aoi = a /\ campaign'[c].strategy = strategy
      /\ c \in CampaignIds
  BY CampaignRows DEF CampaignRow
<1>4. GeneratePoints(c)' = GeneratePoints(c)
      /\ (Inside(c, GeneratePoints(c))' <=> Inside(c, GeneratePoints(c)))
  BY <1>1, <1>3 DEF GeneratePoints, Inside
<1> QED
  BY <1>1, <1>2, <1>3, <1>4, CampaignStep

LEMMA ConfigureTypes ==
    ASSUME AoiTypes, NEW a \in AoiIds, NEW strategy \in Strategies,
           ConfigureSamplingCampaign(a, strategy)
    PROVE  AoiTypes'
<1>1. PICK c \in Fresh(campaign) : campaign' = [campaign EXCEPT ![c] = NewCampaign(a, strategy)]
  BY DEF ConfigureSamplingCampaign
<1>2. c \in CampaignIds /\ c \notin Rows(campaign) /\ DOMAIN campaign = CampaignIds
  BY FreshIsUnused DEF AoiTypes, CampaignTable
<1>3. a \in Rows(aoi) /\ ValidStrategy(strategy)
  BY DEF ConfigureSamplingCampaign, Rows, AoiTypes, AoiTable
<1>4. /\ DOMAIN campaign' = CampaignIds
      /\ campaign'[c] = CampaignRow("DRAFT", a, strategy, NoRow)
      /\ \A d \in CampaignIds \ {c} : campaign'[d] = campaign[d]
  BY <1>1, <1>2 DEF NewCampaign, CampaignRow
<1>5. UNCHANGED <<aoi, stream, raced>> /\ worker' = worker
  BY DEF ConfigureSamplingCampaign
<1>6. DOMAIN worker' = Workers /\ \A x \in Workers : worker'[x] \in {Idle, worker[x]}
  BY <1>5 DEF AoiTypes, Holdings
<1> QED
  BY <1>2, <1>3, <1>4, <1>5, <1>6, CampaignStep

LEMMA AoiTypesStep == AoiTypes /\ [AoiNext]_aoiVars => AoiTypes'
<1> SUFFICES ASSUME AoiTypes, [AoiNext]_aoiVars PROVE AoiTypes'
  OBVIOUS
<1>1. CASE \E w \in Workers, g \in Geometries : DefineOrReviseAoi(w, g)
  BY <1>1, DefineTypes
<1>2. CASE \E w \in Workers, c \in CampaignIds : GenerateSamplePoints(w, c)
  BY <1>2, GenerateTypes
<1>3. CASE \E w \in Workers : CommitAoi(w)
  BY <1>3, CommitAoiTypes
<1>4. CASE \E w \in Workers : CommitPoints(w)
  BY <1>4, CommitPointsTypes
<1>5. CASE \E w \in Workers : Lose(w)
  BY <1>5, LoseTypes
<1>6. CASE \E a \in AoiIds, strategy \in Strategies : ConfigureSamplingCampaign(a, strategy)
  BY <1>6, ConfigureTypes
<1>7. CASE UNCHANGED aoiVars
  <2>1. UNCHANGED <<aoi, campaign, worker, stream, raced>>
    BY <1>7 DEF aoiVars
  <2>2. Rows(aoi)' = Rows(aoi) /\ Rows(campaign)' = Rows(campaign)
    BY <2>1 DEF Rows
  <2>3. AoiTable' /\ raced' \in BOOLEAN
    BY <2>1, <2>2 DEF AoiTypes, AoiTable
  <2>4. CampaignTable'
    BY <2>1, <2>2, CampaignsKept
  <2>5. Holdings'
    <3>1. DOMAIN worker' = Workers /\ \A w \in Workers : worker'[w] = worker[w]
      BY <2>1 DEF AoiTypes, Holdings
    <3> QED
      BY <2>1, <2>2, <3>1, HoldingsKept DEF Holdings
  <2> QED
    BY <2>3, <2>4, <2>5 DEF AoiTypes
<1> QED
  BY <1>1, <1>2, <1>3, <1>4, <1>5, <1>6, <1>7 DEF AoiNext

(* Only a committed revision changes the areas, or what raced says. *)
LEMMA OtherSteps ==
    ASSUME [AoiNext]_aoiVars, ~\E w \in Workers : CommitAoi(w)
    PROVE  UNCHANGED <<aoi, stream, raced>>
  BY DEF AoiNext, aoiVars, DefineOrReviseAoi, GenerateSamplePoints, CommitPoints, Lose,
         ConfigureSamplingCampaign

(* A revision is one version above the row it supersedes.  A row that is   *)
(* not the newest is not the one whose loss matters, and the newest one is *)
(* superseded only by a newer one. *)
LEMMA HeadStep ==
    ASSUME AoiTypes, HeadIsActive, NEW w \in Workers, CommitAoi(w)
    PROVE  HeadIsActive'
<1> PICK g \in Geometries, e \in Rows(aoi) \cup {NoAoi}, a \in AoiIds :
        /\ ValidGeometry(g) /\ worker[w] = Revision(g, e)
        /\ a \notin Rows(aoi)
        /\ DOMAIN aoi' = AoiIds
        /\ aoi'[a] = AoiRow(IF e = NoAoi THEN 1 ELSE aoi[e].version + 1, "ACTIVE", g)
        /\ \A b \in AoiIds \ {a} : aoi'[b] = IF b = e THEN Retired(aoi[b]) ELSE aoi[b]
  BY CommitEffect
<1> HIDE DEF Retired
<1>1. /\ Rows(aoi)' = Rows(aoi) \cup {a}
      /\ \A b \in Rows(aoi) : aoi'[b].version = aoi[b].version
      /\ Active' = (Active \ {e}) \cup {a}
  BY CommitRows
<1>2. \A b \in Rows(aoi) : aoi[b].version \in Nat /\ aoi[b].version >= 1
  <2> SUFFICES ASSUME NEW b \in Rows(aoi) PROVE aoi[b].version \in Nat /\ aoi[b].version >= 1
    OBVIOUS
  <2>1. PICK v \in 1..Cardinality(Rows(aoi)), s \in {"ACTIVE", "SUPERSEDED"}, h \in Geometries :
            aoi[b] = AoiRow(v, s, h)
    BY AoiRows DEF AoiTypes
  <2>2. aoi[b].version = v /\ Cardinality(Rows(aoi)) \in Nat
    BY <2>1, AoiRows DEF AoiRow, AoiTypes
  <2> QED
    BY <2>2
<1>3. aoi'[a].version = IF e = NoAoi THEN 1 ELSE aoi[e].version + 1
  BY DEF AoiRow
<1>4. aoi'[a].version \in Nat /\ aoi'[a].version >= 1
  BY <1>2, <1>3
<1>5. CASE Rows(aoi) = {}
  BY <1>1, <1>4, <1>5 DEF HeadIsActive
<1>6. CASE Rows(aoi) # {}
  <2> PICK h \in Active : \A b \in Rows(aoi) : aoi[b].version <= aoi[h].version
    BY <1>6 DEF HeadIsActive
  <2>1. h \in Rows(aoi)
    BY DEF Active
  <2>2. CASE aoi'[a].version <= aoi[h].version
    <3>1. h # e
      BY <1>2, <1>3, <2>1, <2>2, GeospatialAssumption, AoiRows DEF AoiTypes, GeospatialAssumption
    <3>2. h \in Active'
      BY <1>1, <3>1
    <3>3. \A b \in Rows(aoi)' : aoi'[b].version <= aoi'[h].version
      BY <1>1, <2>1, <2>2
    <3> QED
      BY <3>2, <3>3 DEF HeadIsActive
  <2>3. CASE ~(aoi'[a].version <= aoi[h].version)
    <3>1. a \in Active'
      BY <1>1
    <3>2. \A b \in Rows(aoi) : aoi'[b].version <= aoi'[a].version
      BY <1>1, <1>2, <1>4, <2>1, <2>3
    <3>3. \A b \in Rows(aoi)' : aoi'[b].version <= aoi'[a].version
      BY <1>1, <3>2, <1>4
    <3> QED
      BY <3>1, <3>3 DEF HeadIsActive
  <2> QED
    BY <2>2, <2>3
<1> QED
  BY <1>5, <1>6

(* Unless it races, a revision replaces the one active row, which is the   *)
(* newest by HeadIsActive: the versions stay a chain. *)
LEMMA OneActiveStep ==
    ASSUME AoiTypes, HeadIsActive, OneActiveUnlessRaced, NEW w \in Workers, CommitAoi(w)
    PROVE  OneActiveUnlessRaced'
<1> SUFFICES ASSUME ~raced'
             PROVE  /\ Cardinality(Active') = 1
                    /\ {aoi'[b].version : b \in Rows(aoi)'} = 1..Cardinality(Rows(aoi)')
  BY DEF OneActiveUnlessRaced
<1> PICK g \in Geometries, e \in Rows(aoi) \cup {NoAoi}, a \in AoiIds :
        /\ ValidGeometry(g) /\ worker[w] = Revision(g, e)
        /\ a \notin Rows(aoi)
        /\ DOMAIN aoi' = AoiIds
        /\ aoi'[a] = AoiRow(IF e = NoAoi THEN 1 ELSE aoi[e].version + 1, "ACTIVE", g)
        /\ \A b \in AoiIds \ {a} : aoi'[b] = IF b = e THEN Retired(aoi[b]) ELSE aoi[b]
  BY CommitEffect
<1> HIDE DEF Retired
<1> DEFINE n == Cardinality(Rows(aoi))
<1>1. /\ Rows(aoi)' = Rows(aoi) \cup {a}
      /\ Cardinality(Rows(aoi)') = n + 1
      /\ \A b \in Rows(aoi) : aoi'[b].version = aoi[b].version
      /\ Active' = (Active \ {e}) \cup {a}
  BY CommitRows
<1>2. n \in Nat /\ IsFiniteSet(Rows(aoi))
  BY AoiRows DEF AoiTypes
<1>3. ~raced /\ Active = Held(e)
  <2>1. worker[w].existing = e
    BY DEF Revision
  <2> QED
    BY <2>1 DEF CommitAoi
<1>4. Active' = {a}
  BY <1>1, <1>3 DEF Held
<1>5. Cardinality(Active') = 1
  BY <1>4, FS_Singleton
<1>6. aoi'[a].version = IF e = NoAoi THEN 1 ELSE aoi[e].version + 1
  BY DEF AoiRow
<1>7. {aoi[b].version : b \in Rows(aoi)} = 1..n
  BY <1>3 DEF OneActiveUnlessRaced, n
<1> HIDE DEF n
<1>8. aoi'[a].version = n + 1
  <2>1. CASE e = NoAoi
    <3>1. Active = {}
      BY <1>3, <2>1 DEF Held
    <3>2. Rows(aoi) = {}
      BY <3>1 DEF HeadIsActive
    <3>3. n = 0
      BY <3>2, FS_EmptySet DEF n
    <3> QED
      BY <1>6, <2>1, <3>3
  <2>2. CASE e # NoAoi
    <3>1. e \in Rows(aoi) /\ Active = {e}
      BY <1>3, <2>2 DEF Held
    <3>2. \A b \in Rows(aoi) : aoi[b].version <= aoi[e].version
      BY <3>1 DEF HeadIsActive
    <3>3. n >= 1
      BY <3>1, <1>2, FS_EmptySet DEF n
    <3>4. aoi[e].version \in 1..n
      BY <1>7, <3>1
    <3>5. n \in 1..n
      BY <1>2, <3>3
    <3>6. PICK b \in Rows(aoi) : aoi[b].version = n
      BY <1>7, <3>5
    <3>7. n <= aoi[e].version
      BY <3>2, <3>6
    <3> QED
      BY <1>2, <1>6, <2>2, <3>4, <3>7
  <2> QED
    BY <2>1, <2>2
<1>9. {aoi'[b].version : b \in Rows(aoi)'} = {aoi[b].version : b \in Rows(aoi)} \cup {n + 1}
  BY <1>1, <1>8
<1>10. 1..(n + 1) = (1..n) \cup {n + 1}
  BY <1>2
<1> QED
  BY <1>1, <1>5, <1>7, <1>9, <1>10

LEMMA AoiInvStep == AoiInv /\ [AoiNext]_aoiVars => AoiInv'
<1> SUFFICES ASSUME AoiInv, [AoiNext]_aoiVars PROVE AoiInv'
  OBVIOUS
<1>1. AoiTypes'
  BY AoiTypesStep DEF AoiInv
<1>2. CASE \E w \in Workers : CommitAoi(w)
  BY <1>1, <1>2, HeadStep, OneActiveStep DEF AoiInv
<1>3. CASE ~\E w \in Workers : CommitAoi(w)
  <2>1. aoi' = aoi /\ raced' = raced
    BY <1>3, OtherSteps
  <2>2. Rows(aoi)' = Rows(aoi) /\ Active' = Active
    BY <2>1 DEF Rows, Active
  <2> QED
    BY <1>1, <2>1, <2>2 DEF AoiInv, HeadIsActive, OneActiveUnlessRaced
<1> QED
  BY <1>2, <1>3

LEMMA AoiInvariance == AoiSpec => []AoiInv
  BY AoiInitTypes, AoiInvStep, PTL DEF AoiSpec

(* Once an area is defined, a row of the newest version is active: no      *)
(* revision is lost behind an older one, however requests overlap.  It is  *)
(* the only active one, and the versions count the revisions without gap,  *)
(* unless a request of DefineOrReviseAoiHandler committed over a change of *)
(* what it had read. *)
THEOREM AreaIsActive == AoiSpec => []ActiveAoi
<1>1. AoiInv => ActiveAoi
  BY AoiTypesSuffice DEF AoiInv, ActiveAoi
<1> QED
  BY <1>1, AoiInvariance, PTL

(* Every point of a GENERATED campaign lies in the area the campaign was   *)
(* drawn on, though GenerateSamplePointsHandler checks this before others  *)
(* may commit and never again, and whatever is revised afterwards. *)
THEOREM PointsInside == AoiSpec => []SamplesStayInside
<1>1. AoiInv => SamplesStayInside
  <2> SUFFICES ASSUME AoiInv, NEW c \in Rows(campaign), campaign[c].status = "GENERATED"
               PROVE  PointInGeometry(campaign[c].points.at, aoi[campaign[c].aoi].geometry)
    BY DEF SamplesStayInside
  <2> PICK a \in Rows(aoi), strategy \in Strategies :
          \/ campaign[c] = CampaignRow("DRAFT", a, strategy, NoRow)
          \/ /\ campaign[c] = CampaignRow("GENERATED", a, strategy, GeneratePoints(c))
             /\ Inside(c, GeneratePoints(c))
    BY CampaignRows DEF AoiInv
  <2>1. campaign[c].points = GeneratePoints(c) /\ Inside(c, GeneratePoints(c))
    BY DEF CampaignRow
  <2> QED
    BY <2>1 DEF Inside
<1> QED
  BY <1>1, AoiInvariance, PTL

(* "edits create a new version, never mutate in place" *)
LEMMA VersionsStep ==
    ASSUME AoiTypes, [AoiNext]_aoiVars, NEW b \in Rows(aoi)
    PROVE  /\ aoi'[b].exists
           /\ aoi'[b] = aoi[b] \/ aoi'[b] = [aoi[b] EXCEPT !.status = "SUPERSEDED"]
<1>1. CASE \E w \in Workers : CommitAoi(w)
  <2> PICK w \in Workers : CommitAoi(w)
    BY <1>1
  <2> PICK g \in Geometries, e \in Rows(aoi) \cup {NoAoi}, a \in AoiIds :
          /\ ValidGeometry(g) /\ worker[w] = Revision(g, e)
          /\ a \notin Rows(aoi)
          /\ DOMAIN aoi' = AoiIds
          /\ aoi'[a] = AoiRow(IF e = NoAoi THEN 1 ELSE aoi[e].version + 1, "ACTIVE", g)
          /\ \A c \in AoiIds \ {a} : aoi'[c] = IF c = e THEN Retired(aoi[c]) ELSE aoi[c]
    BY CommitEffect
  <2>1. Rows(aoi)' = Rows(aoi) \cup {a}
    BY CommitRows
  <2>2. aoi'[b].exists
    BY <2>1 DEF Rows
  <2>3. b \in AoiIds \ {a}
    BY AoiRows DEF AoiTypes
  <2>4. aoi'[b] = aoi[b] \/ aoi'[b] = Retired(aoi[b])
    <3> HIDE DEF Retired
    <3> QED
      BY <2>3
  <2>5. Retired(aoi[b]) = [aoi[b] EXCEPT !.status = "SUPERSEDED"]
    BY DEF Retired
  <2> QED
    BY ONLY <2>2, <2>4, <2>5
<1>2. CASE ~\E w \in Workers : CommitAoi(w)
  <2>1. aoi' = aoi
    BY <1>2, OtherSteps
  <2>2. aoi[b].exists
    BY DEF Rows
  <2> QED
    BY ONLY <2>1, <2>2
<1> QED
  BY ONLY <1>1, <1>2

LEMMA CampaignFrame ==
    ASSUME [AoiNext]_aoiVars, ~\E w \in Workers : CommitPoints(w),
           ~\E a \in AoiIds, strategy \in Strategies : ConfigureSamplingCampaign(a, strategy)
    PROVE  campaign' = campaign
<1>1. CASE \E w \in Workers : (\E g \in Geometries : DefineOrReviseAoi(w, g)) \/ CommitAoi(w)
  BY <1>1 DEF DefineOrReviseAoi, CommitAoi
<1>2. CASE \E w \in Workers : (\E c \in CampaignIds : GenerateSamplePoints(w, c)) \/ Lose(w)
  BY <1>2 DEF GenerateSamplePoints, Lose
<1>3. CASE UNCHANGED aoiVars
  BY <1>3 DEF aoiVars
<1> QED
  BY <1>1, <1>2, <1>3 DEF AoiNext

(* A second generation writes what the first one wrote. *)
LEMMA SamplesStep ==
    ASSUME AoiTypes, [AoiNext]_aoiVars, NEW c \in Rows(campaign),
           campaign[c].status = "GENERATED"
    PROVE  campaign'[c] = campaign[c]
<1> PICK b \in Rows(aoi), t \in Strategies :
        \/ campaign[c] = CampaignRow("DRAFT", b, t, NoRow)
        \/ campaign[c] = CampaignRow("GENERATED", b, t, GeneratePoints(c))
  BY CampaignRows
<1>1. campaign[c] = CampaignRow("GENERATED", b, t, GeneratePoints(c)) /\ c \in CampaignIds
  BY CampaignRows DEF CampaignRow
<1>2. CASE \E w \in Workers : CommitPoints(w)
  <2> PICK w \in Workers : CommitPoints(w)
    BY <1>2
  <2> PICK d \in Rows(campaign), a \in Rows(aoi), strategy \in Strategies :
          /\ \/ campaign[d] = CampaignRow("DRAFT", a, strategy, NoRow)
             \/ campaign[d] = CampaignRow("GENERATED", a, strategy, GeneratePoints(d))
          /\ campaign'[d] = CampaignRow("GENERATED", a, strategy, GeneratePoints(d))
          /\ \A x \in CampaignIds \ {d} : campaign'[x] = campaign[x]
    BY CommitPointsEffect
  <2>1. CASE c = d
    <3>1. campaign[d] # CampaignRow("DRAFT", a, strategy, NoRow)
      BY <2>1 DEF CampaignRow
    <3> QED
      BY <2>1, <3>1
  <2>2. CASE c # d
    BY <2>2, <1>1
  <2> QED
    BY <2>1, <2>2
<1>3. CASE \E a \in AoiIds, strategy \in Strategies : ConfigureSamplingCampaign(a, strategy)
  <2> PICK a \in AoiIds, strategy \in Strategies : ConfigureSamplingCampaign(a, strategy)
    BY <1>3
  <2>1. PICK d \in Fresh(campaign) : campaign' = [campaign EXCEPT ![d] = NewCampaign(a, strategy)]
    BY DEF ConfigureSamplingCampaign
  <2>2. d # c
    BY FreshIsUnused
  <2> QED
    BY <2>1, <2>2
<1>4. CASE /\ ~\E w \in Workers : CommitPoints(w)
           /\ ~\E a \in AoiIds, strategy \in Strategies : ConfigureSamplingCampaign(a, strategy)
  <2>1. campaign' = campaign
    BY ONLY <1>4, [AoiNext]_aoiVars, CampaignFrame
  <2> QED
    BY <2>1
<1> QED
  BY <1>2, <1>3, <1>4

(* With two active rows no area can be read, so none can be revised. *)
LEMMA StuckStep ==
    ASSUME AoiTypes, [AoiNext]_aoiVars, Cardinality(Active) > 1,
           \A w \in Workers : worker[w].at # "define"
    PROVE  aoi' = aoi /\ \A w \in Workers : worker'[w].at # "define"
<1>1. ~\E w \in Workers : CommitAoi(w)
  BY DEF CommitAoi
<1>2. ~\E w \in Workers, g \in Geometries : DefineOrReviseAoi(w, g)
  <2>1. ~(Cardinality(Active) <= 1)
    <3>1. IsFiniteSet(Active)
      BY AoiRows, FS_Subset DEF AoiTypes, Active
    <3>2. Cardinality(Active) \in Nat
      BY <3>1, FS_CardinalityType
    <3> QED
      BY <3>2
  <2> QED
    BY <2>1 DEF DefineOrReviseAoi, GetActiveForAssessment
<1>3. aoi' = aoi
  BY <1>1, OtherSteps
<1>4. DOMAIN worker = Workers
  BY DEF AoiTypes, Holdings
<1>5. CASE \E w \in Workers, c \in CampaignIds : GenerateSamplePoints(w, c)
  <2> PICK w \in Workers, c \in CampaignIds : GenerateSamplePoints(w, c)
    BY <1>5
  <2>1. worker' = [worker EXCEPT ![w] = Generation(c, GeneratePoints(c))]
    BY DEF GenerateSamplePoints, Generation
  <2>2. Generation(c, GeneratePoints(c)).at # "define"
    BY DEF Generation
  <2> QED
    BY <1>3, <1>4, <2>1, <2>2
<1>6. CASE \E w \in Workers : CommitPoints(w) \/ Lose(w)
  <2> PICK w \in Workers : CommitPoints(w) \/ Lose(w)
    BY <1>6
  <2>1. worker' = [worker EXCEPT ![w] = Idle]
    BY DEF CommitPoints, Lose
  <2>2. Idle.at # "define"
    BY DEF Idle
  <2> QED
    BY <1>3, <1>4, <2>1, <2>2
<1>7. CASE worker' = worker
  BY <1>3, <1>7
<1> QED
  BY <1>1, <1>2, <1>5, <1>6, <1>7 DEF AoiNext, aoiVars, ConfigureSamplingCampaign

(* A version of an area keeps its number, geometry and size and is never   *)
(* revived, not even by a request that read it while it was active; the    *)
(* points of a GENERATED campaign never move, though two requests may both *)
(* have found it in DRAFT; and with two active rows, which an overlap of   *)
(* two revisions leaves, every later revision fails at its read. *)
THEOREM HistoryIsImmutable == AoiSpec => RowsAreImmutable
<1>1. AoiInv /\ [AoiNext]_aoiVars =>
        [\A a \in Rows(aoi) :
            /\ aoi'[a].exists
            /\ aoi'[a] = aoi[a] \/ aoi'[a] = [aoi[a] EXCEPT !.status = "SUPERSEDED"]]_aoiVars
  BY VersionsStep DEF AoiInv
<1>2. AoiInv /\ [AoiNext]_aoiVars =>
        [\A c \in Rows(campaign) : campaign[c].status = "GENERATED" =>
            campaign'[c] = campaign[c]]_aoiVars
  BY SamplesStep DEF AoiInv
<1>3. AoiInv /\ [AoiNext]_aoiVars =>
        [(Cardinality(Active) > 1 /\ \A w \in Workers : worker[w].at # "define") =>
            aoi' = aoi /\ \A w \in Workers : worker'[w].at # "define"]_aoiVars
  BY StuckStep DEF AoiInv
<1>4. AoiSpec => VersionsAreImmutable
  BY <1>1, AoiInvariance, PTL DEF AoiSpec, VersionsAreImmutable
<1>5. AoiSpec => SamplesAreStable
  BY <1>2, AoiInvariance, PTL DEF AoiSpec, SamplesAreStable
<1>6. AoiSpec => TwoActiveIsPermanent
  BY <1>3, AoiInvariance, PTL DEF AoiSpec, TwoActiveIsPermanent
<1> QED
  BY <1>4, <1>5, <1>6 DEF RowsAreImmutable

(* What Countable and the checks of a campaign's configuration give *)
LEMMA CountableStrategies ==
    ASSUME NEW c \in Strategies, ValidStrategy(c), Countable(c), c.method = "STRATIFIED_RANDOM"
    PROVE  Stratification(c)
<1>1. /\ c.allocation \in {"PROPORTIONAL", "EQUAL"} /\ c.size \in Nat
      /\ c.strata \in Seq(Range(c.strata))
      /\ \A s \in Range(c.strata) : s.proportion \in Nat \ {0}
  BY GeospatialAssumption
<1>2. c.strata # <<>>
  BY DEF ValidStrategy
<1>3. /\ Cardinality(Labels(c.strata)) = Len(c.strata)
      /\ Len(c.strata) * (Len(c.strata) - 2) < 2 * c.size
  BY DEF Countable
<1> QED
  BY ONLY <1>1, <1>2, <1>3 DEF Stratification

LEMMA CountsAllocated ==
    ASSUME NEW c, Stratification(c), c.method = "STRATIFIED_RANDOM"
    PROVE  SampleCounts(c) = AllocateStratifiedSamples(c)
<1> DEFINE a == AllocateStratifiedSamples(c)
           L == Labels(c.strata)
<1>1. DOMAIN a = L /\ \A l \in L : a[l] \in Nat
  BY AllocationAddsUp
<1>2. a = [l \in L |-> a[l]]
  <2>1. a = [l \in DOMAIN a |-> a[l]]
    BY DEF AllocateStratifiedSamples
  <2> QED
    BY <1>1, <2>1
<1>3. SampleCounts(c) = [l \in L |-> Max({0, a[l]})]
  BY DEF SampleCounts
<1> HIDE DEF a, L
<1>4. ASSUME NEW l \in L PROVE Max({0, a[l]}) = a[l]
  <2>1. a[l] \in Nat
    BY <1>1
  <2>2. \A x \in {0, a[l]} : (\A y \in {0, a[l]} : x >= y) <=> x = a[l]
    BY <2>1
  <2>3. a[l] \in {0, a[l]}
    OBVIOUS
  <2> QED
    BY <2>2, <2>3 DEF Max
<1> QED
  BY <1>2, <1>3, <1>4 DEF a

LEMMA CountsMatch ==
    ASSUME NEW c \in Strategies, ValidStrategy(c), Countable(c)
    PROVE  SumFunction(SampleCounts(c)) = c.size
<1>1. CASE c.method = "STRATIFIED_RANDOM"
  <2>1. Stratification(c)
    BY <1>1, CountableStrategies
  <2>2. SampleCounts(c) = AllocateStratifiedSamples(c)
    BY <1>1, <2>1, CountsAllocated
  <2> QED
    BY <2>1, <2>2, AllocationAddsUp DEF SumFunction
<1>2. CASE c.method # "STRATIFIED_RANDOM"
  <2> DEFINE f == [l \in {"none"} |-> c.size]
  <2>1. SampleCounts(c) = f /\ DOMAIN f = {"none"} /\ f["none"] = c.size /\ c.size \in Int
    BY <1>2, GeospatialAssumption DEF SampleCounts
  <2> HIDE DEF f
  <2>2. SumFunctionOnSet(f, {} \cup {"none"}) = f["none"] + SumFunctionOnSet(f, {})
    BY <2>1, SumAdd, FS_EmptySet
  <2>3. SumFunctionOnSet(f, {}) = 0 /\ {} \cup {"none"} = {"none"}
    BY SumEmpty
  <2>4. SumFunctionOnSet(f, {"none"}) = c.size
    BY <2>1, <2>2, <2>3
  <2> QED
    BY <2>1, <2>4 DEF SumFunction
<1> QED
  BY <1>1, <1>2

LEMMA AbsBound ==
    ASSUME NEW x \in Int, NEW b \in Int, -b <= 2 * x, 2 * x <= b
    PROVE  2 * Abs(x) <= b
  BY DEF Abs

(* Every stratum but the one that took the remainder is within half a      *)
(* point of its exact share. *)
LEMMA CountsFair ==
    ASSUME NEW c, Stratification(c), c.method = "STRATIFIED_RANDOM", c.allocation = "PROPORTIONAL"
    PROVE  LET P == TotalProportion(c.strata)
               off(t) == Abs(SampleCounts(c)[t.label] * P - c.size * t.proportion)
           IN  \E s \in Range(c.strata) :
                  /\ \A t \in Range(c.strata) :
                        /\ c.size * (t.proportion - s.proportion) <= P
                        /\ t # s => 2 * off(t) <= P
                  /\ 2 * off(s) <= P * (Len(c.strata) - 1)
<1> DEFINE P == TotalProportion(c.strata)
           n == Len(c.strata)
           L == Labels(c.strata)
           a == SampleCounts(c)
           h == Shares(c)
           p == Proportions(c)
           z == c.size
           R == Remainder(c, h)
           off(t) == Abs(a[t.label] * P - z * t.proportion)
<1>1. a = AllocateStratifiedSamples(c)
  BY CountsAllocated
<1>2. PICK i \in 1..n :
        /\ c.strata[i].label \in L
        /\ \A l \in L : h[l] <= h[c.strata[i].label]
        /\ a[c.strata[i].label] = h[c.strata[i].label] + R
        /\ \A l \in L \ {c.strata[i].label} : a[l] = h[l]
  BY <1>1, AllocationAddsUp
<1> DEFINE s == c.strata[i]
<1>3. s \in Range(c.strata)
  BY LabelsDiffer DEF Range
<1>4. ASSUME NEW t \in Range(c.strata)
      PROVE  /\ t.label \in L /\ p[t.label] = t.proportion
             /\ t.proportion \in Nat
             /\ t # s => t.label # s.label
  <2> PICK j \in 1..n : t = c.strata[j]
    BY LabelsDiffer DEF Range
  <2>1. t.label \in L
    BY DEF Labels
  <2>2. p[t.label] = t.proportion
    <3>1. LastStratum(c.strata, t.label) = t
      BY LastOfLabel
    <3> QED
      BY <2>1, <3>1 DEF Proportions
  <2>3. t # s => t.label # s.label
    BY LabelsDiffer
  <2>4. t.proportion \in Nat
    BY DEF Stratification
  <2> QED
    BY <2>1, <2>2, <2>3, <2>4
<1>5. P \in Nat \ {0} /\ z \in Nat /\ n \in Nat \ {0}
  BY ProportionsAddUp, LabelsDiffer DEF Stratification
<1>6. /\ R \in Int
      /\ \A l \in L :
            /\ h[l] \in Nat
            /\ -P <= 2 * (P * h[l] - z * p[l]) /\ 2 * (P * h[l] - z * p[l]) <= P
            /\ -(P * (n - 1)) <= 2 * (P * (h[l] + R) - z * p[l])
            /\ 2 * (P * (h[l] + R) - z * p[l]) <= P * (n - 1)
  BY ProportionalShares
<1> HIDE DEF P, n, L, a, h, p, z, R, s
<1>7. ASSUME NEW t \in Range(c.strata) PROVE z * (t.proportion - s.proportion) <= P
  <2> DEFINE x == h[t.label]
             y == h[s.label]
  <2>1. x \in Nat /\ y \in Nat /\ x <= y
    BY <1>2, <1>3, <1>4, <1>6 DEF s
  <2>2. -P <= 2 * (P * x - z * t.proportion) /\ 2 * (P * y - z * s.proportion) <= P
    BY <1>3, <1>4, <1>6
  <2>3. t.proportion \in Nat /\ s.proportion \in Nat
    BY <1>3, <1>4
  <2> HIDE DEF x, y
  <2>4. PICK k \in Nat : y = x + k
    <3>1. y - x \in Nat /\ y = x + (y - x)
      BY <2>1
    <3> QED
      BY <3>1
  <2>5. P * y = P * x + P * k /\ P * k \in Nat /\ P * x \in Nat
    BY <1>5, <2>1, <2>4
  <2>6. /\ z * (t.proportion - s.proportion) = z * t.proportion - z * s.proportion
        /\ z * t.proportion \in Nat /\ z * s.proportion \in Nat
    BY <1>5, <2>3
  <2> QED
    BY <1>5, <2>2, <2>5, <2>6
<1>8. ASSUME NEW t \in Range(c.strata), t # s PROVE 2 * off(t) <= P
  <2> DEFINE x == h[t.label]
  <2>1. a[t.label] = x /\ x \in Nat /\ t.proportion \in Nat
    BY <1>2, <1>4, <1>6, <1>8 DEF s
  <2>2. -P <= 2 * (P * x - z * t.proportion) /\ 2 * (P * x - z * t.proportion) <= P
    BY <1>4, <1>6
  <2> HIDE DEF x
  <2>3. P * x = x * P /\ x * P - z * t.proportion \in Int
    BY <1>5, <2>1
  <2>4. 2 * Abs(x * P - z * t.proportion) <= P
    BY <1>5, <2>2, <2>3, AbsBound
  <2> QED
    BY <2>1, <2>4
<1>9. 2 * off(s) <= P * (n - 1)
  <2> DEFINE x == h[s.label] + R
  <2>1. a[s.label] = x /\ x \in Int /\ s.proportion \in Nat
    BY <1>2, <1>3, <1>4, <1>6 DEF s
  <2>2. /\ -(P * (n - 1)) <= 2 * (P * x - z * s.proportion)
        /\ 2 * (P * x - z * s.proportion) <= P * (n - 1)
    BY <1>3, <1>4, <1>6
  <2> HIDE DEF x
  <2>3. P * x = x * P /\ x * P - z * s.proportion \in Int /\ P * (n - 1) \in Int
    BY <1>5, <2>1
  <2>4. 2 * Abs(x * P - z * s.proportion) <= P * (n - 1)
    BY <2>2, <2>3, AbsBound
  <2> QED
    BY <2>1, <2>4
<1> QED
  BY <1>3, <1>7, <1>8, <1>9 DEF P, n, a, z

(* The points of a GENERATED campaign are as many as its strategy asked    *)
(* for, and a proportional allocation shares them as well as rounding      *)
(* allows, for every strategy with labels that tell the strata apart and   *)
(* no more strata than Countable lets it have: no line of                  *)
(* generate_stratified_samples checks either. *)
THEOREM SamplesShared == AoiSpec => [](SampleCountMatches /\ AllocationIsFair)
<1>1. ASSUME AoiInv, NEW c \in Rows(campaign), campaign[c].status = "GENERATED"
      PROVE  /\ campaign[c].points.counts = SampleCounts(campaign[c].strategy)
             /\ campaign[c].strategy \in Strategies
             /\ ValidStrategy(campaign[c].strategy)
  <2> PICK a \in Rows(aoi), strategy \in Strategies :
          /\ ValidStrategy(strategy)
          /\ \/ campaign[c] = CampaignRow("DRAFT", a, strategy, NoRow)
             \/ campaign[c] = CampaignRow("GENERATED", a, strategy, GeneratePoints(c))
    BY <1>1, CampaignRows DEF AoiInv
  <2>1. campaign[c].points = GeneratePoints(c) /\ campaign[c].strategy = strategy
    BY <1>1 DEF CampaignRow
  <2>2. GeneratePoints(c).counts = SampleCounts(campaign[c].strategy)
    BY DEF GeneratePoints
  <2> QED
    BY <2>1, <2>2
<1>2. AoiInv => SampleCountMatches
  BY <1>1, CountsMatch DEF SampleCountMatches
<1>3. AoiInv => AllocationIsFair
  <2> SUFFICES ASSUME AoiInv, NEW c \in Rows(campaign), campaign[c].status = "GENERATED",
                      campaign[c].strategy.method = "STRATIFIED_RANDOM",
                      campaign[c].strategy.allocation = "PROPORTIONAL",
                      Countable(campaign[c].strategy)
               PROVE
        LET strategy == campaign[c].strategy
            total == TotalProportion(strategy.strata)
            counts == campaign[c].points.counts
            off(s) == Abs(counts[s.label] * total - strategy.size * s.proportion)
        IN  \E s \in Range(strategy.strata) :
                  /\ \A t \in Range(strategy.strata) :
                        /\ strategy.size * (t.proportion - s.proportion) <= total
                        /\ t # s => 2 * off(t) <= total
                  /\ 2 * off(s) <= total * (Len(strategy.strata) - 1)
    BY DEF AllocationIsFair
  <2>1. Stratification(campaign[c].strategy)
    BY <1>1, CountableStrategies
  <2>2. campaign[c].points.counts = SampleCounts(campaign[c].strategy)
    BY <1>1
  <2> QED
    BY <2>1, <2>2, CountsFair
<1>4. AoiInv => SampleCountMatches /\ AllocationIsFair
  BY <1>2, <1>3
<1> QED
  BY <1>4, AoiInvariance, PTL

(* The geometries whose shoelace area is made up of the cells of four      *)
(* around their drawable points, as ray casting finds them *)
CellsMakeUpAreas ==
    \A g \in Geometries : ValidGeometry(g) => TwiceArea(g) = TwiceCellArea(g)

(* SamplesAreSound as a whole.  That ray casting and the shoelace formula  *)
(* agree on a ring is a hypothesis on the geometries, which TLC evaluates  *)
(* for those of its instance; what the handlers add, that an area is never *)
(* kept with another geometry than the one it was computed of, is proved.  *)
THEOREM SamplesSound == CellsMakeUpAreas => (AoiSpec => []SamplesAreSound)
<1>1. CellsMakeUpAreas /\ AoiInv => AreaAgreesWithInterior
  <2> SUFFICES ASSUME CellsMakeUpAreas, AoiInv, NEW a \in Rows(aoi)
               PROVE  aoi[a].twiceArea = TwiceCellArea(aoi[a].geometry)
    BY DEF AreaAgreesWithInterior
  <2> PICK v \in 1..Cardinality(Rows(aoi)), s \in {"ACTIVE", "SUPERSEDED"}, g \in Geometries :
          ValidGeometry(g) /\ aoi[a] = AoiRow(v, s, g)
    BY AoiRows DEF AoiInv, AoiTypes
  <2>1. aoi[a].twiceArea = TwiceArea(g) /\ aoi[a].geometry = g
    BY DEF AoiRow
  <2> QED
    BY <2>1 DEF CellsMakeUpAreas
<1>2. CellsMakeUpAreas => (AoiSpec => []AreaAgreesWithInterior)
  <2> SUFFICES ASSUME CellsMakeUpAreas PROVE AoiSpec => []AreaAgreesWithInterior
    OBVIOUS
  <2>1. AoiInv => AreaAgreesWithInterior
    BY <1>1
  <2> QED
    BY <2>1, AoiInvariance, PTL
<1> QED
  BY <1>2, PointsInside, SamplesShared, PTL DEF SamplesAreSound

-----------------------------------------------------------------------------
(* The index formulas: rounding and products are monotone. *)

LEMMA Quotient ==
    ASSUME NEW n \in Int, NEW d \in Nat \ {0}
    PROVE  n \div d \in Int /\ d * (n \div d) <= n /\ n < d * (n \div d) + d
<1>1. n \div d \in Int /\ n % d \in 0..(d - 1) /\ n = d * (n \div d) + (n % d)
  OBVIOUS
<1> DEFINE q == n \div d
           r == n % d
<1> HIDE DEF q, r
<1>2. q \in Int /\ r \in 0..(d - 1) /\ n = d * q + r
  BY <1>1 DEF q, r
<1>3. d * q \in Int
  BY <1>2
<1>4. d * q <= n /\ n < d * q + d
  BY <1>2, <1>3
<1> QED
  BY <1>2, <1>4 DEF q

LEMMA QuotientOrder ==
    ASSUME NEW d \in Nat \ {0}, NEW n \in Int, NEW q \in Int, NEW p \in Int,
           d * q <= n, n < d * p + d
    PROVE  q <= p
<1> SUFFICES ASSUME p + 1 <= q PROVE FALSE
  OBVIOUS
<1>1. PICK k \in Nat : q = p + 1 + k
  <2>1. q - (p + 1) \in Nat /\ q = p + 1 + (q - (p + 1))
    OBVIOUS
  <2> QED
    BY <2>1
<1>2. d * q = d * p + d + d * k
  BY <1>1
<1>3. d * k \in Nat /\ d * p \in Int
  OBVIOUS
<1> QED
  BY <1>2, <1>3

LEMMA RoundInt ==
    ASSUME NEW n \in Int, NEW d \in Nat \ {0}
    PROVE  /\ RoundOver(n, d) \in Int
           /\ (2 * d) * RoundOver(n, d) <= 2 * n + d
           /\ 2 * n + d < (2 * d) * RoundOver(n, d) + 2 * d
<1>1. 2 * n + d \in Int /\ 2 * d \in Nat \ {0}
  OBVIOUS
<1> QED
  BY <1>1, Quotient DEF RoundOver

LEMMA RoundMonotone ==
    ASSUME NEW n \in Int, NEW m \in Int, NEW d \in Nat \ {0}, n <= m
    PROVE  RoundOver(n, d) <= RoundOver(m, d)
<1> DEFINE a == RoundOver(n, d)
           b == RoundOver(m, d)
           D == 2 * d
<1>1. a \in Int /\ D * a <= 2 * n + d
  BY RoundInt
<1>2. b \in Int /\ 2 * m + d < D * b + D
  BY RoundInt
<1>3. D \in Nat \ {0} /\ 2 * n + d \in Int /\ 2 * m + d \in Int /\ 2 * n + d <= 2 * m + d
  OBVIOUS
<1> HIDE DEF a, b, D
<1>4. 2 * n + d < D * b + D
  <2>1. D * b + D \in Int
    BY <1>2, <1>3
  <2> QED
    BY <1>2, <1>3, <2>1
<1>5. a <= b
  BY ONLY <1>1, <1>2, <1>3, <1>4, QuotientOrder
<1> QED
  BY <1>5 DEF a, b

(* A whole number of units is added or taken as it is. *)
LEMMA RoundShift ==
    ASSUME NEW n \in Int, NEW c \in Int, NEW d \in Nat \ {0}
    PROVE  RoundOver(n + d * c, d) = RoundOver(n, d) + c
<1> DEFINE a == RoundOver(n, d)
           b == RoundOver(n + d * c, d)
           D == 2 * d
           N == 2 * (n + d * c) + d
<1>1. d * c \in Int /\ n + d * c \in Int
  OBVIOUS
<1>2. a \in Int /\ D * a <= 2 * n + d /\ 2 * n + d < D * a + D
  BY RoundInt
<1>3. b \in Int /\ D * b <= N /\ N < D * b + D
  BY <1>1, RoundInt
<1>4. N = 2 * n + d + D * c /\ D \in Nat \ {0} /\ N \in Int /\ D * c \in Int
  BY <1>1
<1> HIDE DEF a, b, D, N
<1>5. D * (a + c) = D * a + D * c /\ D * a \in Int /\ D * b \in Int
  BY <1>2, <1>3, <1>4
<1>6. D * (a + c) <= N /\ N < D * (a + c) + D /\ a + c \in Int
  BY <1>2, <1>4, <1>5
<1>7. a + c <= b
  BY ONLY <1>3, <1>4, <1>6, QuotientOrder
<1>8. b <= a + c
  BY ONLY <1>3, <1>4, <1>6, QuotientOrder
<1>9. b = a + c
  BY <1>2, <1>3, <1>7, <1>8
<1> QED
  BY <1>9 DEF a, b

LEMMA RoundWithin ==
    ASSUME NEW d \in Nat \ {0}, NEW a \in Int, NEW b \in Int, NEW n \in Int,
           d * a <= n, n <= d * b
    PROVE  a <= RoundOver(n, d) /\ RoundOver(n, d) <= b
<1>1. RoundOver(0, d) = 0
  <2>1. RoundOver(0, d) \in Int
        /\ (2 * d) * RoundOver(0, d) <= d /\ d < (2 * d) * RoundOver(0, d) + 2 * d
    BY RoundInt
  <2>2. 2 * d \in Nat \ {0} /\ (2 * d) * 0 = 0 /\ d \in Int
    OBVIOUS
  <2> DEFINE x == RoundOver(0, d)
             D == 2 * d
  <2>3. x \in Int /\ D \in Nat \ {0} /\ D * x <= d /\ d < D * x + D
        /\ D * 0 <= d /\ d < D * 0 + D /\ d \in Int /\ 0 \in Int
    BY <2>1, <2>2
  <2> HIDE DEF x, D
  <2>4. x <= 0 /\ 0 <= x
    BY ONLY <2>3, QuotientOrder
  <2> QED
    BY <2>3, <2>4 DEF x
<1>2. d * a \in Int /\ d * b \in Int /\ 0 + d * a = d * a /\ 0 + d * b = d * b
  OBVIOUS
<1>3. RoundOver(d * a, d) = a /\ RoundOver(d * b, d) = b
  <2>1. RoundOver(0 + d * a, d) = RoundOver(0, d) + a
    BY RoundShift
  <2>2. RoundOver(0 + d * b, d) = RoundOver(0, d) + b
    BY RoundShift
  <2> QED
    BY <1>1, <1>2, <2>1, <2>2
<1> QED
  BY <1>2, <1>3, RoundMonotone

LEMMA ClampedIndex ==
    /\ \A x \in Int : InRange(Clamped(x)) /\ Clamped(x) \in Int
    /\ \A x, y \in Int : x <= y => Clamped(x) <= Clamped(y)
    /\ \A x \in Int : InRange(x) => Clamped(x) = x
  BY DEF Clamped, InRange, Unit

LEMMA ProductsOrdered ==
    ASSUME NEW a \in Nat, NEW b \in Nat, NEW c \in Nat, NEW d \in Nat, a <= c, b <= d
    PROVE  a * b <= c * d /\ a * b \in Nat /\ c * d \in Nat
<1>1. PICK i \in Nat : c = a + i
  <2>1. c - a \in Nat /\ c = a + (c - a)
    OBVIOUS
  <2> QED
    BY <2>1
<1>2. PICK j \in Nat : d = b + j
  <2>1. d - b \in Nat /\ d = b + (d - b)
    OBVIOUS
  <2> QED
    BY <2>1
<1>3. c * d = a * b + a * j + i * b + i * j
  BY <1>1, <1>2
<1>4. a * b \in Nat /\ a * j \in Nat /\ i * b \in Nat /\ i * j \in Nat
  OBVIOUS
<1> QED
  BY <1>3, <1>4

LEMMA TallyOrder ==
    ASSUME NEW S, IsFiniteSet(S), NEW f, NEW g,
           \A k \in S : f[k] \in Int /\ g[k] \in Int /\ f[k] <= g[k]
    PROVE  Tally(f, S) \in Int /\ Tally(g, S) \in Int /\ Tally(f, S) <= Tally(g, S)
  BY SumInt, SumAtMostSum DEF Tally

LEMMA TallyWithin ==
    ASSUME NEW S, IsFiniteSet(S), S # {}, NEW f, \A k \in S : f[k] \in Int /\ InRange(f[k])
    PROVE  /\ Cardinality(S) \in Nat \ {0}
           /\ RoundOver(Tally(f, S), Cardinality(S)) \in Int
           /\ InRange(RoundOver(Tally(f, S), Cardinality(S)))
<1>1. Cardinality(S) \in Nat \ {0}
  BY FS_CardinalityType, FS_EmptySet
<1> DEFINE n == Cardinality(S)
           t == SumFunctionOnSet(f, S)
<1>2. 0 \in Int /\ Unit \in Int /\ \A k \in S : f[k] \in Int /\ 0 <= f[k] /\ f[k] <= Unit
  BY DEF InRange, Unit
<1>3. t \in Int /\ 0 * Cardinality(S) <= t /\ t <= Unit * Cardinality(S)
  <2>1. \A k \in S : f[k] \in Int
    BY <1>2
  <2> HIDE DEF t
  <2>2. t \in Int
    BY ONLY IsFiniteSet(S), <2>1, SumInt DEF t
  <2>3. 0 * Cardinality(S) <= SumFunctionOnSet(f, S)
        /\ SumFunctionOnSet(f, S) <= Unit * Cardinality(S)
    BY ONLY IsFiniteSet(S), <1>2, SumBetween
  <2> QED
    BY <2>2, <2>3 DEF t
<1> HIDE DEF n, t
<1>4. n * 0 <= t /\ t <= n * Unit /\ n \in Nat \ {0}
  BY <1>1, <1>2, <1>3 DEF n
<1>5. 0 <= RoundOver(t, n) /\ RoundOver(t, n) <= Unit /\ RoundOver(t, n) \in Int
  BY <1>2, <1>3, <1>4, RoundWithin, RoundInt
<1> QED
  BY <1>1, <1>5 DEF t, n, Tally, InRange

LEMMA WeightedTallyOrder ==
    ASSUME NEW w, IsFiniteSet(DOMAIN w), \A k \in DOMAIN w : w[k] \in Nat,
           NEW f, NEW g, \A k \in DOMAIN w : f[k] \in Int /\ g[k] \in Int /\ f[k] <= g[k]
    PROVE  /\ WeightedTally(w, f) \in Int /\ WeightedTally(w, g) \in Int
           /\ WeightedTally(w, f) <= WeightedTally(w, g)
<1> DEFINE K == DOMAIN w
           p == [k \in K |-> w[k] * f[k]]
           q == [k \in K |-> w[k] * g[k]]
<1>1. WeightedTally(w, f) = SumFunctionOnSet(p, K) /\ WeightedTally(w, g) = SumFunctionOnSet(q, K)
  BY DEF WeightedTally, SumFunction
<1>2. ASSUME NEW k \in K PROVE p[k] \in Int /\ q[k] \in Int /\ p[k] <= q[k]
  <2>1. PICK i \in Nat : g[k] = f[k] + i
    <3>1. g[k] - f[k] \in Nat /\ g[k] = f[k] + (g[k] - f[k])
      OBVIOUS
    <3> QED
      BY <3>1
  <2>2. w[k] \in Nat /\ f[k] \in Int
    OBVIOUS
  <2>3. w[k] * g[k] = w[k] * f[k] + w[k] * i /\ w[k] * i \in Nat /\ w[k] * f[k] \in Int
    BY <2>1, <2>2
  <2> QED
    BY <2>3
<1> HIDE DEF K, p, q
<1>3. IsFiniteSet(K)
  BY DEF K
<1>4. SumFunctionOnSet(p, K) \in Int /\ SumFunctionOnSet(q, K) \in Int
  BY <1>2, <1>3, SumInt
<1>5. SumFunctionOnSet(p, K) <= SumFunctionOnSet(q, K)
  BY <1>2, <1>3, SumAtMostSum
<1> QED
  BY <1>1, <1>4, <1>5

(* A weighting of some keys: shares of their sum, which is not zero. *)
Weighs(w, keys) == w \in [keys -> Nat] /\ \E k \in keys : w[k] # 0

LEMMA WeightsAddUp ==
    ASSUME NEW w, NEW keys, IsFiniteSet(keys), Weighs(w, keys)
    PROVE  SumFunction(w) \in Nat \ {0}
<1> PICK k \in keys : w[k] # 0
  BY DEF Weighs
<1>1. \A j \in keys : w[j] \in Int /\ w[j] >= 0
  BY DEF Weighs
<1>2. DOMAIN w = keys
  BY DEF Weighs
<1> DEFINE T == keys \ {k}
<1>3. IsFiniteSet(T) /\ k \notin T /\ T \cup {k} = keys
  BY FS_Subset
<1>4. \A j \in T : w[j] \in Int /\ 0 <= w[j]
  BY <1>1
<1> HIDE DEF T
<1>5. /\ SumFunctionOnSet(w, T) \in Int
      /\ SumFunctionOnSet(w, T \cup {k}) = w[k] + SumFunctionOnSet(w, T)
  BY <1>1, <1>3, <1>4, SumAdd
<1>6. 0 <= SumFunctionOnSet(w, T)
  <2> DEFINE zero == [j \in T |-> 0]
  <2>1. \A j \in T : zero[j] \in Int /\ w[j] \in Int /\ zero[j] <= w[j]
    BY <1>4
  <2>2. \A j \in T : zero[j] = 0
    OBVIOUS
  <2> HIDE DEF zero
  <2>3. SumFunctionOnSet(zero, T) <= SumFunctionOnSet(w, T)
    BY ONLY <1>3, <2>1, SumAtMostSum
  <2>4. SumFunctionOnSet(zero, T) = 0 * Cardinality(T)
    BY ONLY <1>3, <2>2, 0 \in Int, SumConstant
  <2>5. Cardinality(T) \in Nat
    BY <1>3, FS_CardinalityType
  <2> QED
    BY <2>3, <2>4, <2>5
<1>7. SumFunction(w) = w[k] + SumFunctionOnSet(w, T)
  BY <1>2, <1>3, <1>5 DEF SumFunction
<1> QED
  BY <1>1, <1>5, <1>6, <1>7

LEMMA WeighsOrder ==
    ASSUME NEW w, NEW keys, IsFiniteSet(keys), Weighs(w, keys),
           NEW f, NEW g, \A k \in keys : f[k] \in Int /\ g[k] \in Int /\ f[k] <= g[k]
    PROVE  /\ WeightedTally(w, f) \in Int /\ WeightedTally(w, g) \in Int
           /\ WeightedTally(w, f) <= WeightedTally(w, g)
<1>1. DOMAIN w = keys /\ \A k \in keys : w[k] \in Nat
  BY DEF Weighs
<1>2. IsFiniteSet(DOMAIN w) /\ \A k \in DOMAIN w : w[k] \in Nat
  BY <1>1
<1>3. \A k \in DOMAIN w : f[k] \in Int /\ g[k] \in Int /\ f[k] <= g[k]
  BY <1>1
<1> QED
  BY ONLY <1>2, <1>3, WeightedTallyOrder

(* round(h * e * v, 4) *)
LEMMA RiskIsProduct ==
    ASSUME NEW h \in Int, NEW e \in Int, NEW v \in Int, InRange(h), InRange(e), InRange(v)
    PROVE  /\ RiskIndex(h, e, v) = RoundOver(h * e * v, Unit * Unit)
           /\ RiskIndex(h, e, v) \in Int /\ InRange(RiskIndex(h, e, v))
           /\ RiskIndex(h, e, v) <= h /\ RiskIndex(h, e, v) <= e /\ RiskIndex(h, e, v) <= v
           /\ h \in Nat /\ e \in Nat /\ v \in Nat /\ h * e \in Nat /\ h * e * v \in Nat
<1> DEFINE U == Unit
           D == Unit * Unit
           n == h * e
           a == n \div U
           b == n % U
           m == a * v
           c == m \div U
           d == m % U
<1>1. /\ h \in Nat /\ e \in Nat /\ v \in Nat /\ U \in Nat \ {0} /\ D \in Nat \ {0} /\ D = U * U
      /\ h <= U /\ e <= U /\ v <= U
  BY DEF InRange, Unit
<1> HIDE DEF U, D
<1>2. n \in Nat
  BY <1>1
<1> HIDE DEF n
<1>3. a \in Nat /\ b \in 0..(U - 1) /\ n = U * a + b
  BY <1>1, <1>2, DivisionBounds
<1> HIDE DEF a, b
<1>4. m \in Nat
  BY <1>1, <1>3
<1> HIDE DEF m
<1>5. c \in Nat /\ d \in 0..(U - 1) /\ m = U * c + d
  BY <1>1, <1>4, DivisionBounds
<1> HIDE DEF c, d
<1>6. n * v = (d * U + b * v) + D * c
  <2>1. n * v = U * (a * v) + b * v
    BY <1>1, <1>3
  <2>2. U * (a * v) = U * (U * c) + U * d
    BY <1>1, <1>5 DEF m
  <2>3. U * (U * c) = (U * U) * c /\ U * d = d * U
    BY <1>1, <1>5
  <2> DEFINE x == (U * U) * c
             y == d * U
             z == b * v
  <2>4. x \in Int /\ y \in Int /\ z \in Int
    BY <1>1, <1>3, <1>5
  <2>5. D * c = x
    BY <1>1
  <2>6. n * v = (x + y) + z
    BY <2>1, <2>2, <2>3
  <2> HIDE DEF x, y, z
  <2>7. n * v = (y + z) + x
    BY <2>4, <2>6
  <2> QED
    BY <2>5, <2>7 DEF y, z
<1>7. d * U + b * v \in Int /\ n * v \in Nat
  BY <1>1, <1>2, <1>3, <1>5
<1> DEFINE rest == d * U + b * v
           all == n * v
           r == RoundOver(all, D)
<1>8. /\ rest \in Int /\ all \in Int /\ c \in Int /\ D \in Nat \ {0}
      /\ all = rest + D * c
  BY <1>1, <1>5, <1>6, <1>7
<1> HIDE DEF rest, all
<1>9. /\ r \in Int /\ RoundOver(rest, D) \in Int
      /\ r = RoundOver(rest, D) + c
  BY ONLY <1>8, RoundInt, RoundShift
<1>10. all <= D * h /\ all <= D * e /\ all <= D * v /\ D * 0 <= all
  <2>1. n <= h * U /\ n <= U * e /\ n <= U * U /\ h * U \in Nat /\ U * e \in Nat /\ U * U \in Nat
    BY <1>1, ProductsOrdered DEF n
  <2>2. n * v <= (h * U) * U
    BY <1>1, <1>2, <2>1, ProductsOrdered
  <2>3. n * v <= (U * e) * U
    BY <1>1, <1>2, <2>1, ProductsOrdered
  <2>4. n * v <= (U * U) * v
    BY <1>1, <1>2, <2>1, ProductsOrdered
  <2>5. (h * U) * U = (U * U) * h /\ (U * e) * U = (U * U) * e
    BY <1>1
  <2> QED
    BY <1>1, <1>7, <2>2, <2>3, <2>4, <2>5 DEF all
<1>11. h \in Int /\ e \in Int /\ v \in Int /\ 0 \in Int
  BY <1>1
<1>12. 0 <= r /\ r <= h /\ r <= e /\ r <= v
  BY ONLY <1>8, <1>10, <1>11, RoundWithin
<1>13. InRange(r)
  BY <1>1, <1>9, <1>12 DEF InRange, U
<1>14. RiskIndex(h, e, v) = Clamped(c + RoundOver(rest, D))
  <2>1. \A x \in {h, e, v} : InRange(x)
    OBVIOUS
  <2>2. rest = ((a * v) % U) * U + b * v
    BY DEF rest, d, m
  <2> QED
    BY <2>1, <2>2 DEF RiskIndex, U, D, a, b, c, m, n
<1>15. RiskIndex(h, e, v) = r
  <2>1. c + RoundOver(rest, D) = r
    BY <1>8, <1>9
  <2> QED
    BY <1>9, <1>13, <1>14, <2>1, ClampedIndex
<1>16. h * e * v = all /\ Unit * Unit = D /\ all \in Nat
  BY <1>7 DEF n, D, all
<1> QED
  BY <1>1, <1>2, <1>9, <1>12, <1>13, <1>15, <1>16 DEF n

LEMMA RiskOrder ==
    ASSUME NEW h \in Int, NEW e \in Int, NEW v \in Int, InRange(h), InRange(e), InRange(v),
           NEW i \in Int, NEW f \in Int, NEW w \in Int, InRange(i), InRange(f), InRange(w),
           h <= i, e <= f, v <= w
    PROVE  RiskIndex(h, e, v) <= RiskIndex(i, f, w)
<1>1. /\ h \in Nat /\ e \in Nat /\ v \in Nat /\ h * e \in Nat /\ h * e * v \in Nat
      /\ RiskIndex(h, e, v) = RoundOver(h * e * v, Unit * Unit)
  BY RiskIsProduct
<1>2. /\ i \in Nat /\ f \in Nat /\ w \in Nat /\ i * f \in Nat /\ i * f * w \in Nat
      /\ RiskIndex(i, f, w) = RoundOver(i * f * w, Unit * Unit)
  BY RiskIsProduct
<1>3. h * e <= i * f
  BY <1>1, <1>2, ProductsOrdered
<1>4. h * e * v <= i * f * w
  BY <1>1, <1>2, <1>3, ProductsOrdered
<1>5. Unit * Unit \in Nat \ {0}
  BY DEF Unit
<1> QED
  BY <1>1, <1>2, <1>4, <1>5, RoundMonotone

-----------------------------------------------------------------------------
(* The keys of the two strategies: which are summed, and on which side of  *)
(* a formula they stand. *)

LEMMA FiveFinite ==
    ASSUME NEW a, NEW b, NEW c, NEW d, NEW e
    PROVE  IsFiniteSet({a, b, c, d, e}) /\ {a, b, c, d, e} # {}
<1>1. IsFiniteSet({a}) /\ IsFiniteSet({b}) /\ IsFiniteSet({c}) /\ IsFiniteSet({d}) /\ IsFiniteSet({e})
  BY FS_Singleton
<1>2. IsFiniteSet({a} \cup {b}) /\ IsFiniteSet({c} \cup {d})
  BY <1>1, FS_Union
<1>3. IsFiniteSet(({a} \cup {b}) \cup ({c} \cup {d}))
  BY <1>2, FS_Union
<1>4. IsFiniteSet((({a} \cup {b}) \cup ({c} \cup {d})) \cup {e})
  BY <1>1, <1>3, FS_Union
<1>5. (({a} \cup {b}) \cup ({c} \cup {d})) \cup {e} = {a, b, c, d, e}
  OBVIOUS
<1> QED
  BY <1>4, <1>5

LEMMA CapacityNames ==
    /\ UNION FirasSubIndices =
         {"emergency_plans", "community_training", "evacuation_preparedness",
          "resource_availability", "warning_timeliness", "warning_accuracy",
          "warning_accessibility", "flood_awareness", "previous_experience",
          "understanding_of_risk", "response_speed", "relief_distribution", "coordination",
          "economic_recovery", "infrastructure_recovery", "social_recovery"}
    /\ UNION WrrasSubIndices =
         {"firebreak_coverage", "community_training", "fire_committee_presence",
          "equipment_availability", "warning_timeliness", "warning_accessibility",
          "warning_accuracy", "fire_awareness", "fire_prevention_knowledge",
          "evacuation_knowledge", "response_time_index", "suppression_efficiency",
          "resource_adequacy", "forest_restoration", "economic_recovery",
          "community_recovery"}
<1>1. ASSUME NEW a, NEW b, NEW c, NEW d, NEW e
      PROVE  UNION {a, b, c, d, e} = a \cup b \cup c \cup d \cup e
  OBVIOUS
<1>2. UNION FirasSubIndices =
        {"emergency_plans", "community_training", "evacuation_preparedness",
         "resource_availability"} \cup
        {"warning_timeliness", "warning_accuracy", "warning_accessibility"} \cup
        {"flood_awareness", "previous_experience", "understanding_of_risk"} \cup
        {"response_speed", "relief_distribution", "coordination"} \cup
        {"economic_recovery", "infrastructure_recovery", "social_recovery"}
  BY <1>1 DEF FirasSubIndices
<1>3. UNION WrrasSubIndices =
        {"firebreak_coverage", "community_training", "fire_committee_presence",
         "equipment_availability"} \cup
        {"warning_timeliness", "warning_accessibility", "warning_accuracy"} \cup
        {"fire_awareness", "fire_prevention_knowledge", "evacuation_knowledge"} \cup
        {"response_time_index", "suppression_efficiency", "resource_adequacy"} \cup
        {"forest_restoration", "economic_recovery", "community_recovery"}
  BY <1>1 DEF WrrasSubIndices
<1> QED
  BY <1>2, <1>3

(* No key that a formula adds is one that it should subtract. *)
LEMMA Harmful ==
    /\ \A k \in DOMAIN FirasHazardWeights : k \notin Protective
    /\ \A k \in DOMAIN WrrasHazardWeights : k \in Protective <=> k = "rainfall"
    /\ \A k \in FirasVulnerabilityKeys : k \in Protective <=> k \in FirasInverse
    /\ \A k \in UNION WrrasDimensions : k \in Protective <=> k \in WrrasInverse
    /\ \A k \in Assets("FIRAS") \cup Assets("WRRAS") : k \notin Protective
<1>1. Protective =
        ({"emergency_plans", "community_training", "evacuation_preparedness",
          "resource_availability", "warning_timeliness", "warning_accuracy",
          "warning_accessibility", "flood_awareness", "previous_experience",
          "understanding_of_risk", "response_speed", "relief_distribution", "coordination",
          "economic_recovery", "infrastructure_recovery", "social_recovery"} \cup
         {"firebreak_coverage", "community_training", "fire_committee_presence",
          "equipment_availability", "warning_timeliness", "warning_accessibility",
          "warning_accuracy", "fire_awareness", "fire_prevention_knowledge",
          "evacuation_knowledge", "response_time_index", "suppression_efficiency",
          "resource_adequacy", "forest_restoration", "economic_recovery",
          "community_recovery"}) \cup
        {"education_level", "housing_quality", "building_materials",
         "infrastructure_condition", "household_income", "rainfall", "literacy_level",
         "access_road_quality", "forest_condition"}
  BY CapacityNames DEF Protective, Capacities
<1>2. \A k \in DOMAIN FirasHazardWeights : k \notin Protective
  BY <1>1 DEF FirasHazardWeights
<1>3. \A k \in DOMAIN WrrasHazardWeights : k \in Protective <=> k = "rainfall"
  BY <1>1 DEF WrrasHazardWeights
<1>4. \A k \in FirasVulnerabilityKeys : k \in Protective <=> k \in FirasInverse
  BY <1>1 DEF FirasVulnerabilityKeys, FirasInverse
<1>5. \A k \in UNION WrrasDimensions : k \in Protective <=> k \in WrrasInverse
  <2> SUFFICES ASSUME NEW keys \in WrrasDimensions, NEW k \in keys
               PROVE  k \in Protective <=> k \in WrrasInverse
    OBVIOUS
  <2> QED
    BY <1>1 DEF WrrasDimensions, WrrasInverse
<1>6. \A k \in Assets("FIRAS") \cup Assets("WRRAS") : k \notin Protective
  BY <1>1 DEF Assets, FirasAssetWeights, WrrasCategories
<1> QED
  BY <1>2, <1>3, <1>4, <1>5, <1>6

LEMMA KeysFinite ==
    /\ IsFiniteSet(DOMAIN FirasHazardWeights)
    /\ \A k \in DOMAIN FirasHazardWeights : FirasHazardWeights[k] \in Nat
    /\ IsFiniteSet(DOMAIN FirasAssetWeights)
    /\ \A k \in DOMAIN FirasAssetWeights : FirasAssetWeights[k] \in Nat
    /\ IsFiniteSet(DOMAIN WrrasHazardWeights)
    /\ \A k \in DOMAIN WrrasHazardWeights : WrrasHazardWeights[k] \in Nat
    /\ IsFiniteSet(FirasVulnerabilityKeys) /\ FirasVulnerabilityKeys # {}
    /\ IsFiniteSet(WrrasCategories) /\ WrrasCategories # {}
    /\ \A S \in {FirasSubIndices, WrrasSubIndices, WrrasDimensions} :
          /\ IsFiniteSet(S) /\ S # {}
          /\ \A keys \in S : IsFiniteSet(keys) /\ keys # {}
<1>1. IsFiniteSet(DOMAIN FirasHazardWeights)
  <2>1. DOMAIN FirasHazardWeights =
          {"rainfall_index", "water_level_index", "slope_index", "drainage_index",
           "land_use_index"} \cup {"soil_index"}
    BY DEF FirasHazardWeights
  <2>2. IsFiniteSet({"rainfall_index", "water_level_index", "slope_index",
                     "drainage_index", "land_use_index"})
    BY FiveFinite
  <2>3. IsFiniteSet({"soil_index"})
    BY FS_Singleton
  <2> QED
    BY ONLY <2>1, <2>2, <2>3, FS_Union
<1>2. IsFiniteSet(DOMAIN FirasAssetWeights)
  <2>1. DOMAIN FirasAssetWeights =
          {"population", "houses", "hospitals", "schools", "roads"} \cup
          {"agricultural_land", "power_infrastructure", "livestock", "livestock", "livestock"}
    BY DEF FirasAssetWeights
  <2>2. IsFiniteSet({"population", "houses", "hospitals", "schools", "roads"})
    BY FiveFinite
  <2>3. IsFiniteSet({"agricultural_land", "power_infrastructure", "livestock",
                     "livestock", "livestock"})
    BY FiveFinite
  <2> QED
    BY ONLY <2>1, <2>2, <2>3, FS_Union
<1>3. IsFiniteSet(DOMAIN WrrasHazardWeights)
  <2>1. DOMAIN WrrasHazardWeights =
          {"temperature", "wind_speed", "drought_index", "fuel_load", "vegetation_density"} \cup
          {"slope", "human_activity", "rainfall", "rainfall", "rainfall"}
    BY DEF WrrasHazardWeights
  <2>2. IsFiniteSet({"temperature", "wind_speed", "drought_index",
                     "fuel_load", "vegetation_density"})
    BY FiveFinite
  <2>3. IsFiniteSet({"slope", "human_activity", "rainfall", "rainfall", "rainfall"})
    BY FiveFinite
  <2> QED
    BY ONLY <2>1, <2>2, <2>3, FS_Union
<1>4. /\ \A k \in DOMAIN FirasHazardWeights : FirasHazardWeights[k] \in Nat
      /\ \A k \in DOMAIN FirasAssetWeights : FirasAssetWeights[k] \in Nat
      /\ \A k \in DOMAIN WrrasHazardWeights : WrrasHazardWeights[k] \in Nat
  BY DEF FirasHazardWeights, FirasAssetWeights, WrrasHazardWeights
<1>5. IsFiniteSet(FirasVulnerabilityKeys) /\ FirasVulnerabilityKeys # {}
  <2>1. IsFiniteSet(FirasInverse) /\ FirasInverse # {}
    BY FiveFinite DEF FirasInverse
  <2>2. FirasVulnerabilityKeys =
          FirasInverse \cup
          ({"population_density", "elderly_population", "children_population",
            "disability_status", "poverty_level"} \cup
           {"livelihood_dependence", "crop_dependence", "crop_dependence", "crop_dependence",
            "crop_dependence"})
    BY DEF FirasVulnerabilityKeys
  <2>3. IsFiniteSet({"population_density", "elderly_population", "children_population",
                     "disability_status", "poverty_level"} \cup
                    {"livelihood_dependence", "crop_dependence", "crop_dependence",
                     "crop_dependence", "crop_dependence"})
    BY FiveFinite, FS_Union
  <2> QED
    BY <2>1, <2>2, <2>3, FS_Union
<1>6. IsFiniteSet(WrrasCategories) /\ WrrasCategories # {}
  <2>1. WrrasCategories =
          {"population", "infrastructure", "environmental", "economic", "economic"}
    BY DEF WrrasCategories
  <2> QED
    BY <2>1, FiveFinite
<1>7. ASSUME NEW a, NEW b, NEW c, NEW d
      PROVE  IsFiniteSet({a, b, c, d}) /\ {a, b, c, d} # {} /\ IsFiniteSet({a, b, c})
  <2>1. {a, b, c, d} = {a, b, c, d, d} /\ {a, b, c} = {a, b, c, c, c}
    OBVIOUS
  <2> QED
    BY <2>1, FiveFinite
<1>8. IsFiniteSet(FirasSubIndices) /\ FirasSubIndices # {}
  BY FiveFinite DEF FirasSubIndices
<1>9. IsFiniteSet(WrrasSubIndices) /\ WrrasSubIndices # {}
  BY FiveFinite DEF WrrasSubIndices
<1>10. IsFiniteSet(WrrasDimensions) /\ WrrasDimensions # {}
  BY <1>7 DEF WrrasDimensions
<1>11. \A keys \in FirasSubIndices : IsFiniteSet(keys) /\ keys # {}
  <2>1. IsFiniteSet({"emergency_plans", "community_training",
                     "evacuation_preparedness", "resource_availability"})
    BY <1>7
  <2>2. IsFiniteSet({"warning_timeliness", "warning_accuracy",
                     "warning_accessibility"})
    BY <1>7
  <2>3. IsFiniteSet({"flood_awareness", "previous_experience",
                     "understanding_of_risk"})
    BY <1>7
  <2>4. IsFiniteSet({"response_speed", "relief_distribution", "coordination"})
    BY <1>7
  <2>5. IsFiniteSet({"economic_recovery", "infrastructure_recovery",
                     "social_recovery"})
    BY <1>7
  <2> QED
    BY ONLY <2>1, <2>2, <2>3, <2>4, <2>5 DEF FirasSubIndices
<1>12. \A keys \in WrrasSubIndices : IsFiniteSet(keys) /\ keys # {}
  <2>1. IsFiniteSet({"firebreak_coverage", "community_training",
                     "fire_committee_presence", "equipment_availability"})
    BY <1>7
  <2>2. IsFiniteSet({"warning_timeliness", "warning_accessibility",
                     "warning_accuracy"})
    BY <1>7
  <2>3. IsFiniteSet({"fire_awareness", "fire_prevention_knowledge",
                     "evacuation_knowledge"})
    BY <1>7
  <2>4. IsFiniteSet({"response_time_index", "suppression_efficiency",
                     "resource_adequacy"})
    BY <1>7
  <2>5. IsFiniteSet({"forest_restoration", "economic_recovery",
                     "community_recovery"})
    BY <1>7
  <2> QED
    BY ONLY <2>1, <2>2, <2>3, <2>4, <2>5 DEF WrrasSubIndices
<1>13. \A keys \in WrrasDimensions : IsFiniteSet(keys) /\ keys # {}
  <2>1. IsFiniteSet({"poverty_rate", "literacy_level",
                     "age_dependency_ratio", "disability_ratio"})
    BY <1>7
  <2>2. IsFiniteSet({"building_flammability", "roof_material_index",
                     "building_density", "access_road_quality"})
    BY <1>7
  <2>3. IsFiniteSet({"fuel_accumulation_index", "ecosystem_sensitivity",
                     "forest_condition"})
    BY <1>7
  <2>4. IsFiniteSet({"tourism_dependence", "forest_livelihood_dependence",
                     "agricultural_dependence"})
    BY <1>7
  <2> QED
    BY ONLY <2>1, <2>2, <2>3, <2>4 DEF WrrasDimensions
<1> QED
  BY ONLY <1>1, <1>2, <1>3, <1>4, <1>5, <1>6, <1>8, <1>9, <1>10, <1>11, <1>12, <1>13

-----------------------------------------------------------------------------
(* Indices of two surveys *)

(* Whatever weights FIRAS may give, for whatever earlier assessments *)
IsWeighting(w) ==
    /\ \A keys \in FirasGroups : Weighs(w.indicator[keys], keys)
    /\ Weighs(w.insecurity, FirasGroups)
    /\ Weighs(w.resilience, FirasSubIndices)

(* t is nowhere better than s: every harmful indicator and every exposure  *)
(* at least as high, every protective indicator at most as high, and the   *)
(* same weights given to both. *)
NowhereBetter(st, s, t) ==
    /\ st = "FIRAS" => IsWeighting(s.weights) /\ t.weights = s.weights
    /\ DOMAIN s.value = Indicators(st) /\ DOMAIN t.value = Indicators(st)
    /\ \A k \in Indicators(st) :
          /\ s.value[k] \in Int /\ t.value[k] \in Int
          /\ k \in Protective => t.value[k] <= s.value[k]
          /\ k \notin Protective => s.value[k] <= t.value[k]
    /\ \A k \in Assets(st) :
          /\ s.exposed[k] \in Int /\ t.exposed[k] \in Int /\ s.total[k] \in Int
          /\ s.exposed[k] <= t.exposed[k] /\ s.total[k] = t.total[k]

(* Both indices are stored as indices or not at all, the second no lower. *)
Ordered(a, b) ==
    /\ a \in Int /\ b \in Int
    /\ a = Rejected \/ InRange(a)
    /\ b = Rejected \/ InRange(b)
    /\ InRange(a) /\ InRange(b) => a <= b

LEMMA ClampedOrder ==
    ASSUME NEW n \in Int, NEW m \in Int, NEW d \in Nat \ {0}, n <= m
    PROVE  /\ Clamped(RoundOver(n, d)) \in Int /\ InRange(Clamped(RoundOver(n, d)))
           /\ Clamped(RoundOver(m, d)) \in Int /\ InRange(Clamped(RoundOver(m, d)))
           /\ Clamped(RoundOver(n, d)) <= Clamped(RoundOver(m, d))
<1> DEFINE a == RoundOver(n, d)
           b == RoundOver(m, d)
<1>1. a \in Int /\ b \in Int /\ a <= b
  BY RoundInt, RoundMonotone
<1> HIDE DEF a, b
<1> QED
  BY <1>1, ClampedIndex DEF a, b

LEMMA InvertedOrder ==
    ASSUME NEW f, NEW g, NEW keys, NEW k \in DOMAIN f, k \in DOMAIN g,
           f[k] \in Int, g[k] \in Int,
           k \in keys => g[k] <= f[k], k \notin keys => f[k] <= g[k]
    PROVE  /\ Inverted(f, keys)[k] \in Int /\ Inverted(g, keys)[k] \in Int
           /\ Inverted(f, keys)[k] <= Inverted(g, keys)[k]
           /\ InRange(f[k]) => InRange(Inverted(f, keys)[k])
           /\ InRange(g[k]) => InRange(Inverted(g, keys)[k])
  BY DEF Inverted, Unit, InRange

LEMMA FloodKeys ==
    /\ DOMAIN FirasHazardWeights \subseteq Indicators("FIRAS")
    /\ FirasVulnerabilityKeys \subseteq Indicators("FIRAS")
    /\ \A keys \in FirasSubIndices : keys \subseteq Indicators("FIRAS")
    /\ \A keys \in FirasSubIndices : \A k \in keys : k \in Capacities /\ k \in Protective
    /\ Assets("FIRAS") = DOMAIN FirasAssetWeights
<1>1. Indicators("FIRAS")
        = DOMAIN FirasHazardWeights \cup FirasVulnerabilityKeys \cup (UNION FirasSubIndices)
  BY DEF Indicators
<1>2. \A keys \in FirasSubIndices : keys \subseteq UNION FirasSubIndices
  OBVIOUS
<1>3. Protective = Capacities \cup
        {"education_level", "housing_quality", "building_materials",
         "infrastructure_condition", "household_income", "rainfall", "literacy_level",
         "access_road_quality", "forest_condition"}
  BY DEF Protective
<1>4. UNION FirasSubIndices \subseteq Capacities
  BY DEF Capacities
<1>5. Assets("FIRAS") = DOMAIN FirasAssetWeights
  BY DEF Assets
<1> QED
  BY ONLY <1>1, <1>2, <1>3, <1>4, <1>5

LEMMA FloodGroups ==
    /\ IsFiniteSet(FirasGroups) /\ FirasGroups # {}
    /\ \A keys \in FirasGroups : IsFiniteSet(keys) /\ keys # {}
    /\ FirasSubIndices \subseteq FirasGroups /\ FirasVulnerabilityKeys \in FirasGroups
    /\ \A keys \in FirasGroups : keys # FirasVulnerabilityKeys => keys \in FirasSubIndices
<1>1. IsFiniteSet(FirasSubIndices) /\ \A keys \in FirasSubIndices : IsFiniteSet(keys) /\ keys # {}
  BY KeysFinite
<1>2. IsFiniteSet(FirasVulnerabilityKeys) /\ FirasVulnerabilityKeys # {}
  BY KeysFinite
<1>3. FirasGroups = FirasSubIndices \cup {FirasVulnerabilityKeys}
  BY DEF FirasGroups
<1>4. IsFiniteSet(FirasGroups)
  BY <1>1, <1>3, FS_AddElement
<1> QED
  BY ONLY <1>1, <1>2, <1>3, <1>4

LEMMA FloodHazardOrder ==
    ASSUME NEW s, NEW t, NowhereBetter("FIRAS", s, t)
    PROVE  Ordered(FloodHazardIndex(s.value), FloodHazardIndex(t.value))
<1> DEFINE w == FirasHazardWeights
           f == s.value
           g == t.value
<1>1. \A k \in DOMAIN w : f[k] \in Int /\ g[k] \in Int /\ f[k] <= g[k]
  BY FloodKeys, Harmful DEF NowhereBetter
<1>2. /\ WeightedTally(w, f) \in Int /\ WeightedTally(w, g) \in Int
      /\ WeightedTally(w, f) <= WeightedTally(w, g)
  <2>1. IsFiniteSet(DOMAIN w) /\ \A k \in DOMAIN w : w[k] \in Nat
    BY KeysFinite
  <2> HIDE DEF w, f, g
  <2> QED
    BY ONLY <1>1, <2>1, WeightedTallyOrder
<1> DEFINE a == Clamped(RoundOver(WeightedTally(w, f), 100))
           b == Clamped(RoundOver(WeightedTally(w, g), 100))
<1>3. a \in Int /\ b \in Int /\ InRange(a) /\ InRange(b) /\ a <= b
  <2>1. 100 \in Nat \ {0}
    OBVIOUS
  <2> HIDE DEF w, f, g
  <2> QED
    BY ONLY <1>2, <2>1, ClampedOrder
<1>4. FloodHazardIndex(f) \in {Rejected, a} /\ FloodHazardIndex(g) \in {Rejected, b}
  BY DEF FloodHazardIndex
<1> HIDE DEF a, b
<1> QED
  BY <1>3, <1>4 DEF Ordered, Rejected, InRange

LEMMA AssetRatioOrder ==
    ASSUME NEW x \in Int, NEW y \in Int, NEW total \in Int, x <= y
    PROVE  /\ AssetExposureRatio(x, total) \in Int /\ AssetExposureRatio(y, total) \in Int
           /\ AssetExposureRatio(x, total) <= AssetExposureRatio(y, total)
<1>1. CASE total <= 0
  BY <1>1 DEF AssetExposureRatio
<1>2. CASE ~(total <= 0)
  <2> DEFINE a == RoundOver(Unit * x, total)
             b == RoundOver(Unit * y, total)
  <2>1. Unit * x \in Int /\ Unit * y \in Int /\ Unit * x <= Unit * y /\ total \in Nat \ {0}
    BY <1>2 DEF Unit
  <2>2. a \in Int /\ b \in Int /\ a <= b
    BY <2>1, RoundInt, RoundMonotone
  <2>3. /\ AssetExposureRatio(x, total) = IF a > Unit THEN Unit ELSE a
        /\ AssetExposureRatio(y, total) = IF b > Unit THEN Unit ELSE b
    BY <1>2 DEF AssetExposureRatio
  <2> HIDE DEF a, b
  <2> QED
    BY <2>2, <2>3 DEF Unit
<1> QED
  BY <1>1, <1>2

LEMMA FloodExposureOrder ==
    ASSUME NEW s, NEW t, NowhereBetter("FIRAS", s, t)
    PROVE  Ordered(FloodExposureIndex(s.exposed, s.total), FloodExposureIndex(t.exposed, t.total))
<1> DEFINE w == FirasAssetWeights
           f == [k \in DOMAIN w |-> AssetExposureRatio(s.exposed[k], s.total[k])]
           g == [k \in DOMAIN w |-> AssetExposureRatio(t.exposed[k], t.total[k])]
<1>1. \A k \in DOMAIN w : f[k] \in Int /\ g[k] \in Int /\ f[k] <= g[k]
  <2> SUFFICES ASSUME NEW k \in DOMAIN w PROVE f[k] \in Int /\ g[k] \in Int /\ f[k] <= g[k]
    OBVIOUS
  <2>1. /\ s.exposed[k] \in Int /\ t.exposed[k] \in Int /\ s.total[k] \in Int
        /\ s.exposed[k] <= t.exposed[k] /\ s.total[k] = t.total[k]
    BY FloodKeys DEF NowhereBetter
  <2> QED
    BY <2>1, AssetRatioOrder
<1>2. FloodExposureIndex(s.exposed, s.total)
        \in {Rejected, Clamped(RoundOver(WeightedTally(w, f), 100))}
  BY DEF FloodExposureIndex
<1>3. FloodExposureIndex(t.exposed, t.total)
        \in {Rejected, Clamped(RoundOver(WeightedTally(w, g), 100))}
  BY DEF FloodExposureIndex
<1>4. IsFiniteSet(DOMAIN w) /\ \A k \in DOMAIN w : w[k] \in Nat
  BY KeysFinite
<1> HIDE DEF w, f, g
<1>5. /\ WeightedTally(w, f) \in Int /\ WeightedTally(w, g) \in Int
      /\ WeightedTally(w, f) <= WeightedTally(w, g)
  BY ONLY <1>1, <1>4, WeightedTallyOrder
<1> DEFINE a == Clamped(RoundOver(WeightedTally(w, f), 100))
           b == Clamped(RoundOver(WeightedTally(w, g), 100))
<1>6. a \in Int /\ b \in Int /\ InRange(a) /\ InRange(b) /\ a <= b
  BY ONLY <1>5, ClampedOrder, 100 \in Nat \ {0}
<1> HIDE DEF a, b
<1> QED
  BY <1>2, <1>3, <1>6 DEF Ordered, Rejected, InRange, a, b

LEMMA FloodVulnerabilityOrder ==
    ASSUME NEW s, NEW t, NowhereBetter("FIRAS", s, t)
    PROVE  Ordered(FloodVulnerabilityIndex(s.value, s.weights),
                   FloodVulnerabilityIndex(t.value, t.weights))
<1> DEFINE K == FirasVulnerabilityKeys
           f == Inverted(s.value, FirasInverse)
           g == Inverted(t.value, FirasInverse)
           w == s.weights.indicator[K]
           n == SumFunction(w)
<1>1. \A k \in K : f[k] \in Int /\ g[k] \in Int /\ f[k] <= g[k]
  <2> SUFFICES ASSUME NEW k \in K PROVE f[k] \in Int /\ g[k] \in Int /\ f[k] <= g[k]
    OBVIOUS
  <2>1. /\ k \in DOMAIN s.value /\ k \in DOMAIN t.value
        /\ s.value[k] \in Int /\ t.value[k] \in Int
        /\ k \in FirasInverse => t.value[k] <= s.value[k]
        /\ k \notin FirasInverse => s.value[k] <= t.value[k]
    BY FloodKeys, Harmful DEF NowhereBetter
  <2> QED
    BY ONLY <2>1, InvertedOrder
<1>2. IsFiniteSet(K) /\ Weighs(w, K) /\ t.weights = s.weights
  BY FloodGroups DEF NowhereBetter, IsWeighting
<1>3. FloodVulnerabilityIndex(s.value, s.weights)
         \in {Rejected, Clamped(RoundOver(WeightedTally(w, f), n))}
  BY DEF FloodVulnerabilityIndex, WeightedMean
<1>4. FloodVulnerabilityIndex(t.value, t.weights)
         \in {Rejected, Clamped(RoundOver(WeightedTally(w, g), n))}
  BY <1>2 DEF FloodVulnerabilityIndex, WeightedMean
<1> HIDE DEF K, f, g, w
<1>5. n \in Nat \ {0}
  BY ONLY <1>2, WeightsAddUp
<1>6. /\ WeightedTally(w, f) \in Int /\ WeightedTally(w, g) \in Int
      /\ WeightedTally(w, f) <= WeightedTally(w, g)
  BY ONLY <1>1, <1>2, WeighsOrder
<1> HIDE DEF n
<1> DEFINE a == Clamped(RoundOver(WeightedTally(w, f), n))
           b == Clamped(RoundOver(WeightedTally(w, g), n))
<1>7. a \in Int /\ b \in Int /\ InRange(a) /\ InRange(b) /\ a <= b
  BY ONLY <1>5, <1>6, ClampedOrder
<1> HIDE DEF a, b
<1> QED
  BY <1>3, <1>4, <1>7 DEF Ordered, Rejected, InRange, a, b

LEMMA SubScoreOrder ==
    ASSUME NEW w, IsWeighting(w), NEW keys \in FirasSubIndices, NEW f, NEW g,
           \A k \in keys : f[k] \in Int /\ g[k] \in Int /\ f[k] <= g[k]
    PROVE  /\ FirasSubScore(f, keys, w) \in Int /\ FirasSubScore(g, keys, w) \in Int
           /\ FirasSubScore(f, keys, w) <= FirasSubScore(g, keys, w)
<1> DEFINE u == w.indicator[keys]
           n == SumFunction(u)
           a == WeightedTally(u, f)
           b == WeightedTally(u, g)
<1>1. IsFiniteSet(keys) /\ Weighs(u, keys)
  BY FloodGroups DEF IsWeighting
<1>2. /\ FirasSubScore(f, keys, w) = RoundOver(100 * a, n)
      /\ FirasSubScore(g, keys, w) = RoundOver(100 * b, n)
  BY DEF FirasSubScore
<1> HIDE DEF u
<1>3. n \in Nat \ {0}
  BY ONLY <1>1, WeightsAddUp
<1>4. a \in Int /\ b \in Int /\ a <= b
  BY <1>1, WeighsOrder
<1> HIDE DEF n, a, b
<1>5. 100 * a \in Int /\ 100 * b \in Int /\ 100 * a <= 100 * b
  BY <1>4
<1> QED
  BY <1>2, <1>3, <1>5, RoundInt, RoundMonotone

(* Means of ordered parts, rounded to an index *)
LEMMA MeansOrdered ==
    ASSUME NEW w, NEW keys, IsFiniteSet(keys), Weighs(w, keys),
           NEW f, NEW g, \A k \in keys : f[k] \in Int /\ g[k] \in Int /\ f[k] <= g[k],
           NEW x, NEW y,
           x = Clamped(RoundOver(WeightedTally(w, f), 100 * SumFunction(w))),
           y = Clamped(RoundOver(WeightedTally(w, g), 100 * SumFunction(w)))
    PROVE  x \in Int /\ InRange(x) /\ y \in Int /\ InRange(y) /\ x <= y
<1> DEFINE d == 100 * SumFunction(w)
           a == WeightedTally(w, f)
           b == WeightedTally(w, g)
<1>1. d \in Nat \ {0}
  BY WeightsAddUp
<1>2. a \in Int /\ b \in Int /\ a <= b
  BY WeighsOrder
<1>3. x = Clamped(RoundOver(a, d)) /\ y = Clamped(RoundOver(b, d))
  OBVIOUS
<1> HIDE DEF a, b, d
<1> QED
  BY ONLY <1>1, <1>2, <1>3, ClampedOrder

(* The sub-scores enter insecurity with one sign and resilience with the   *)
(* other. *)
LEMMA FloodScoresOrder ==
    ASSUME NEW w, IsWeighting(w), NEW f, NEW g, NEW x \in Int, NEW y \in Int, x <= y,
           \A keys \in FirasSubIndices : \A k \in keys :
              f[k] \in Int /\ g[k] \in Int /\ g[k] <= f[k]
    PROVE  /\ FloodInsecurityIndex(f, x, w) \in Int /\ InRange(FloodInsecurityIndex(f, x, w))
           /\ FloodInsecurityIndex(g, y, w) \in Int /\ InRange(FloodInsecurityIndex(g, y, w))
           /\ FloodInsecurityIndex(f, x, w) <= FloodInsecurityIndex(g, y, w)
           /\ CommunityResilienceIndex(f, w) \in Int /\ InRange(CommunityResilienceIndex(f, w))
           /\ CommunityResilienceIndex(g, w) \in Int /\ InRange(CommunityResilienceIndex(g, w))
           /\ CommunityResilienceIndex(g, w) <= CommunityResilienceIndex(f, w)
<1> DEFINE S == FirasSubIndices
           P == FirasGroups
           V == FirasVulnerabilityKeys
           F == [keys \in S |-> FirasSubScore(f, keys, w)]
           G == [keys \in S |-> FirasSubScore(g, keys, w)]
           A == [keys \in P |-> IF keys = V THEN 100 * x ELSE 100 * Unit - FirasSubScore(f, keys, w)]
           B == [keys \in P |-> IF keys = V THEN 100 * y ELSE 100 * Unit - FirasSubScore(g, keys, w)]
           a == FloodInsecurityIndex(f, x, w)
           b == FloodInsecurityIndex(g, y, w)
           c == CommunityResilienceIndex(f, w)
           d == CommunityResilienceIndex(g, w)
           insecurity == w.insecurity
           resilience == w.resilience
<1>1. /\ IsFiniteSet(S) /\ Weighs(resilience, S)
      /\ IsFiniteSet(P) /\ Weighs(insecurity, P)
  BY KeysFinite, FloodGroups DEF IsWeighting
<1>2. ASSUME NEW keys \in S
      PROVE  /\ FirasSubScore(f, keys, w) \in Int /\ FirasSubScore(g, keys, w) \in Int
             /\ FirasSubScore(g, keys, w) <= FirasSubScore(f, keys, w)
  BY SubScoreOrder
<1>3. \A keys \in S : G[keys] \in Int /\ F[keys] \in Int /\ G[keys] <= F[keys]
  BY <1>2
<1>4. ASSUME NEW keys \in P
      PROVE  A[keys] \in Int /\ B[keys] \in Int /\ A[keys] <= B[keys]
  <2>1. CASE keys = V
    <3>1. A[keys] = 100 * x /\ B[keys] = 100 * y
      BY <2>1
    <3> QED
      BY <3>1
  <2>2. CASE keys # V
    <3>1. keys \in S
      BY <2>2, FloodGroups
    <3>2. /\ A[keys] = 100 * Unit - FirasSubScore(f, keys, w)
          /\ B[keys] = 100 * Unit - FirasSubScore(g, keys, w)
      BY <2>2
    <3> QED
      BY <1>2, <3>1, <3>2 DEF Unit
  <2> QED
    BY <2>1, <2>2
<1>5. /\ a = Clamped(RoundOver(WeightedTally(insecurity, A), 100 * SumFunction(insecurity)))
      /\ b = Clamped(RoundOver(WeightedTally(insecurity, B), 100 * SumFunction(insecurity)))
  BY DEF FloodInsecurityIndex
<1>6. /\ c = Clamped(RoundOver(WeightedTally(resilience, F), 100 * SumFunction(resilience)))
      /\ d = Clamped(RoundOver(WeightedTally(resilience, G), 100 * SumFunction(resilience)))
  BY DEF CommunityResilienceIndex
<1> HIDE DEF S, P, V, F, G, A, B, a, b, c, d, insecurity, resilience
<1>7. a \in Int /\ InRange(a) /\ b \in Int /\ InRange(b) /\ a <= b
  BY ONLY <1>1, <1>4, <1>5, MeansOrdered
<1>8. c \in Int /\ InRange(c) /\ d \in Int /\ InRange(d) /\ d <= c
  BY ONLY <1>1, <1>3, <1>6, MeansOrdered
<1> QED
  BY <1>7, <1>8 DEF a, b, c, d

(* compute_risk multiplies what it accepts and keeps the order. *)
LEMMA RiskOrdered ==
    ASSUME NEW h, NEW e, NEW v, NEW i, NEW f, NEW w,
           Ordered(h, i), Ordered(e, f), Ordered(v, w)
    PROVE  /\ Ordered(RiskIndex(h, e, v), RiskIndex(i, f, w))
           /\ Rejected \notin {h, e, v} =>
                 /\ InRange(RiskIndex(h, e, v))
                 /\ \A x \in {h, e, v} : RiskIndex(h, e, v) <= x
<1>1. /\ h \in Int /\ e \in Int /\ v \in Int /\ i \in Int /\ f \in Int /\ w \in Int
      /\ ~InRange(Rejected) /\ Rejected \in Int
  BY DEF Ordered, InRange, Rejected
<1>2. /\ InRange(h) /\ InRange(e) /\ InRange(v) =>
            /\ RiskIndex(h, e, v) \in Int /\ InRange(RiskIndex(h, e, v))
            /\ RiskIndex(h, e, v) <= h /\ RiskIndex(h, e, v) <= e /\ RiskIndex(h, e, v) <= v
      /\ ~(InRange(h) /\ InRange(e) /\ InRange(v)) => RiskIndex(h, e, v) = Rejected
  <2>1. ~(\A x \in {h, e, v} : InRange(x)) => RiskIndex(h, e, v) = Rejected
    BY DEF RiskIndex
  <2> QED
    BY <1>1, <2>1, RiskIsProduct
<1>3. /\ InRange(i) /\ InRange(f) /\ InRange(w) =>
            RiskIndex(i, f, w) \in Int /\ InRange(RiskIndex(i, f, w))
      /\ ~(InRange(i) /\ InRange(f) /\ InRange(w)) => RiskIndex(i, f, w) = Rejected
  <2>1. ~(\A x \in {i, f, w} : InRange(x)) => RiskIndex(i, f, w) = Rejected
    BY DEF RiskIndex
  <2> QED
    BY <1>1, <2>1, RiskIsProduct
<1>4. /\ InRange(h) /\ InRange(e) /\ InRange(v) /\ InRange(i) /\ InRange(f) /\ InRange(w)
      => RiskIndex(h, e, v) <= RiskIndex(i, f, w)
  BY <1>1, RiskOrder DEF Ordered
<1>5. Ordered(RiskIndex(h, e, v), RiskIndex(i, f, w))
  <2> DEFINE r == RiskIndex(h, e, v)
             u == RiskIndex(i, f, w)
  <2>1. /\ r = Rejected \/ (r \in Int /\ InRange(r) /\ InRange(h) /\ InRange(e) /\ InRange(v))
        /\ u = Rejected \/ (u \in Int /\ InRange(u) /\ InRange(i) /\ InRange(f) /\ InRange(w))
    BY <1>2, <1>3
  <2> QED
    BY <1>1, <1>4, <2>1 DEF Ordered
<1>6. Rejected \notin {h, e, v} => InRange(h) /\ InRange(e) /\ InRange(v)
  BY DEF Ordered
<1> QED
  BY <1>2, <1>5, <1>6

(* What the stages of two assessments store, the second nowhere better. *)
OutcomesOrdered(a, b) ==
    /\ Ordered(a.hazard, b.hazard) /\ Ordered(a.exposure, b.exposure)
    /\ Ordered(a.vulnerability, b.vulnerability)
    /\ Ordered(a.risk, b.risk)
    /\ Ordered(b.resilience, a.resilience)
    /\ Rejected \notin {a.hazard, a.exposure, a.vulnerability} =>
          /\ InRange(a.risk)
          /\ \A x \in {a.hazard, a.exposure, a.vulnerability} : a.risk <= x
    /\ a.vulnerability # Rejected => InRange(a.resilience)

LEMMA FloodOrder ==
    ASSUME NEW s, NEW t, NowhereBetter("FIRAS", s, t)
    PROVE  OutcomesOrdered(FloodOutcome(s), FloodOutcome(t))
<1> DEFINE a == FloodOutcome(s)
           b == FloodOutcome(t)
           w == s.weights
           x == FloodVulnerabilityIndex(s.value, w)
           y == FloodVulnerabilityIndex(t.value, w)
<1>1. Ordered(a.hazard, b.hazard)
  BY FloodHazardOrder DEF FloodOutcome
<1>2. Ordered(a.exposure, b.exposure)
  BY FloodExposureOrder DEF FloodOutcome
<1>0. IsWeighting(w) /\ t.weights = w
  BY DEF NowhereBetter
<1>3. Ordered(x, y)
  BY <1>0, FloodVulnerabilityOrder
<1>4. /\ a.vulnerability = IF x = Rejected THEN Rejected ELSE FloodInsecurityIndex(s.value, x, w)
      /\ b.vulnerability = IF y = Rejected THEN Rejected ELSE FloodInsecurityIndex(t.value, y, w)
      /\ a.resilience = IF a.vulnerability = Rejected THEN Rejected
                        ELSE CommunityResilienceIndex(s.value, w)
      /\ b.resilience = IF b.vulnerability = Rejected THEN Rejected
                        ELSE CommunityResilienceIndex(t.value, w)
      /\ a.risk = RiskIndex(a.hazard, a.exposure, a.vulnerability)
      /\ b.risk = RiskIndex(b.hazard, b.exposure, b.vulnerability)
  BY <1>0 DEF FloodOutcome
<1>5. \A keys \in FirasSubIndices : \A k \in keys :
         s.value[k] \in Int /\ t.value[k] \in Int /\ t.value[k] <= s.value[k]
  BY FloodKeys DEF NowhereBetter
<1>6. \A keys \in FirasSubIndices : \A k \in keys :
         /\ s.value[k] \in Int /\ s.value[k] <= s.value[k]
         /\ t.value[k] \in Int /\ t.value[k] <= t.value[k]
  BY <1>5
<1>7. /\ FloodInsecurityIndex(s.value, x, w) \in Int /\ InRange(FloodInsecurityIndex(s.value, x, w))
      /\ FloodInsecurityIndex(t.value, y, w) \in Int /\ InRange(FloodInsecurityIndex(t.value, y, w))
      /\ CommunityResilienceIndex(s.value, w) \in Int /\ InRange(CommunityResilienceIndex(s.value, w))
      /\ CommunityResilienceIndex(t.value, w) \in Int /\ InRange(CommunityResilienceIndex(t.value, w))
      /\ CommunityResilienceIndex(t.value, w) <= CommunityResilienceIndex(s.value, w)
      /\ x <= y => FloodInsecurityIndex(s.value, x, w) <= FloodInsecurityIndex(t.value, y, w)
  <2>1. x \in Int /\ y \in Int /\ x <= x /\ y <= y
    BY <1>3 DEF Ordered
  <2>2. /\ FloodInsecurityIndex(s.value, x, w) \in Int /\ InRange(FloodInsecurityIndex(s.value, x, w))
        /\ CommunityResilienceIndex(s.value, w) \in Int
        /\ InRange(CommunityResilienceIndex(s.value, w))
    BY <1>0, <1>6, <2>1, FloodScoresOrder
  <2>3. /\ FloodInsecurityIndex(t.value, y, w) \in Int /\ InRange(FloodInsecurityIndex(t.value, y, w))
        /\ CommunityResilienceIndex(t.value, w) \in Int
        /\ InRange(CommunityResilienceIndex(t.value, w))
    BY <1>0, <1>6, <2>1, FloodScoresOrder
  <2>4. CommunityResilienceIndex(t.value, w) <= CommunityResilienceIndex(s.value, w)
    BY <1>0, <1>5, <2>1, FloodScoresOrder
  <2>5. x <= y => FloodInsecurityIndex(s.value, x, w) <= FloodInsecurityIndex(t.value, y, w)
    BY <1>0, <1>5, <2>1, FloodScoresOrder
  <2> QED
    BY <2>2, <2>3, <2>4, <2>5
<1> HIDE DEF a, b, w, x, y
<1>8. Ordered(a.vulnerability, b.vulnerability)
  BY <1>3, <1>4, <1>7 DEF Ordered, Rejected, InRange
<1>9. Ordered(b.resilience, a.resilience)
  BY <1>4, <1>7 DEF Ordered, Rejected, InRange
<1>10. /\ Ordered(a.risk, b.risk)
       /\ Rejected \notin {a.hazard, a.exposure, a.vulnerability} =>
             /\ InRange(a.risk)
             /\ \A f \in {a.hazard, a.exposure, a.vulnerability} : a.risk <= f
  BY <1>1, <1>2, <1>4, <1>8, RiskOrdered
<1>11. a.vulnerability # Rejected => InRange(a.resilience)
  BY <1>4, <1>7
<1> QED
  BY <1>1, <1>2, <1>8, <1>9, <1>10, <1>11 DEF OutcomesOrdered, a, b

(* Resilience reads nothing but the capacities and the weights. *)
LEMMA FloodResilienceSame ==
    ASSUME NEW s, NEW t, NEW w, IsWeighting(w), s.weights = w, t.weights = w,
           \A keys \in FirasSubIndices : \A k \in keys :
              s.value[k] \in Int /\ t.value[k] = s.value[k],
           FloodOutcome(s).resilience # Rejected, FloodOutcome(t).resilience # Rejected
    PROVE  FloodOutcome(t).resilience = FloodOutcome(s).resilience
<1>1. /\ FloodOutcome(s).resilience = CommunityResilienceIndex(s.value, w)
      /\ FloodOutcome(t).resilience = CommunityResilienceIndex(t.value, w)
  BY DEF FloodOutcome
<1>2. /\ CommunityResilienceIndex(s.value, w) \in Int
      /\ CommunityResilienceIndex(t.value, w) \in Int
      /\ CommunityResilienceIndex(t.value, w) <= CommunityResilienceIndex(s.value, w)
  <2>1. \A keys \in FirasSubIndices : \A k \in keys :
           s.value[k] \in Int /\ t.value[k] \in Int /\ t.value[k] <= s.value[k]
    OBVIOUS
  <2> QED
    BY <2>1, FloodScoresOrder, 0 \in Int, 0 <= 0
<1>3. CommunityResilienceIndex(s.value, w) <= CommunityResilienceIndex(t.value, w)
  <2>1. \A keys \in FirasSubIndices : \A k \in keys :
           s.value[k] \in Int /\ t.value[k] \in Int /\ s.value[k] <= t.value[k]
    OBVIOUS
  <2> QED
    BY <2>1, FloodScoresOrder, 0 \in Int, 0 <= 0
<1> QED
  BY <1>1, <1>2, <1>3

LEMMA FireKeys ==
    /\ DOMAIN WrrasHazardWeights \subseteq Indicators("WRRAS")
    /\ \A keys \in WrrasDimensions : keys \subseteq Indicators("WRRAS")
    /\ \A keys \in WrrasSubIndices : keys \subseteq Indicators("WRRAS")
    /\ \A keys \in WrrasSubIndices : \A k \in keys : k \in Capacities /\ k \in Protective
    /\ Assets("WRRAS") = WrrasCategories
<1>1. Indicators("WRRAS")
        = DOMAIN WrrasHazardWeights \cup (UNION WrrasDimensions) \cup (UNION WrrasSubIndices)
  BY DEF Indicators
<1>2. /\ \A keys \in WrrasSubIndices : keys \subseteq UNION WrrasSubIndices
      /\ \A keys \in WrrasDimensions : keys \subseteq UNION WrrasDimensions
  OBVIOUS
<1>3. Capacities \subseteq Protective
  BY DEF Protective
<1>4. UNION WrrasSubIndices \subseteq Capacities
  BY DEF Capacities
<1>5. Assets("WRRAS") = WrrasCategories
  BY DEF Assets
<1> QED
  BY ONLY <1>1, <1>2, <1>3, <1>4, <1>5

LEMMA WildfireHazardOrder ==
    ASSUME NEW s, NEW t, NowhereBetter("WRRAS", s, t)
    PROVE  Ordered(WildfireHazardIndex(s.value), WildfireHazardIndex(t.value))
<1> DEFINE w == WrrasHazardWeights
           f == Inverted(s.value, {"rainfall"})
           g == Inverted(t.value, {"rainfall"})
<1>1. \A k \in DOMAIN w : f[k] \in Int /\ g[k] \in Int /\ f[k] <= g[k]
  <2> SUFFICES ASSUME NEW k \in DOMAIN w PROVE f[k] \in Int /\ g[k] \in Int /\ f[k] <= g[k]
    OBVIOUS
  <2>1. /\ k \in DOMAIN s.value /\ k \in DOMAIN t.value
        /\ s.value[k] \in Int /\ t.value[k] \in Int
        /\ k \in {"rainfall"} => t.value[k] <= s.value[k]
        /\ k \notin {"rainfall"} => s.value[k] <= t.value[k]
    BY FireKeys, Harmful DEF NowhereBetter
  <2> QED
    BY ONLY <2>1, InvertedOrder
<1>2. /\ WildfireHazardIndex(s.value) \in {Rejected, Clamped(RoundOver(WeightedTally(w, f), 100))}
      /\ WildfireHazardIndex(t.value) \in {Rejected, Clamped(RoundOver(WeightedTally(w, g), 100))}
  BY DEF WildfireHazardIndex
<1>3. IsFiniteSet(DOMAIN w) /\ \A k \in DOMAIN w : w[k] \in Nat
  BY KeysFinite
<1> HIDE DEF w, f, g
<1>4. /\ WeightedTally(w, f) \in Int /\ WeightedTally(w, g) \in Int
      /\ WeightedTally(w, f) <= WeightedTally(w, g)
  BY ONLY <1>1, <1>3, WeightedTallyOrder
<1> DEFINE a == Clamped(RoundOver(WeightedTally(w, f), 100))
           b == Clamped(RoundOver(WeightedTally(w, g), 100))
<1>5. a \in Int /\ b \in Int /\ InRange(a) /\ InRange(b) /\ a <= b
  BY ONLY <1>4, ClampedOrder, 100 \in Nat \ {0}
<1> HIDE DEF a, b
<1> QED
  BY <1>2, <1>5 DEF Ordered, Rejected, InRange, a, b

LEMMA CategoryRatioOrder ==
    ASSUME NEW x \in Int, NEW y \in Int, NEW total \in Int, x <= y
    PROVE  Ordered(CategoryRatio(x, total), CategoryRatio(y, total))
<1>1. ASSUME NEW z \in Int
      PROVE  \/ CategoryRatio(z, total) = Rejected
             \/ z >= 0 /\ total = 0 /\ CategoryRatio(z, total) = 0
             \/ /\ 0 <= z /\ z <= total /\ total \in Nat \ {0}
                /\ CategoryRatio(z, total) = RoundOver(Unit * z, total)
                /\ CategoryRatio(z, total) \in Int /\ InRange(CategoryRatio(z, total))
  <2>1. CASE total < 0 \/ z < 0 \/ total = 0 \/ z > total
    BY <2>1 DEF CategoryRatio
  <2>2. CASE total > 0 /\ 0 <= z /\ z <= total
    <3>1. total \in Nat \ {0} /\ Unit * z \in Int /\ 0 \in Int /\ Unit \in Int
          /\ total * 0 <= Unit * z /\ Unit * z <= total * Unit
      BY <2>2 DEF Unit
    <3>2. CategoryRatio(z, total) = RoundOver(Unit * z, total)
      BY <2>2, <3>1 DEF CategoryRatio
    <3>3. /\ RoundOver(Unit * z, total) \in Int
          /\ 0 <= RoundOver(Unit * z, total) /\ RoundOver(Unit * z, total) <= Unit
      BY <3>1, RoundInt, RoundWithin
    <3> QED
      BY <2>2, <3>1, <3>2, <3>3 DEF InRange
  <2> QED
    BY <2>1, <2>2
<1>2. total \in Nat \ {0} => RoundOver(Unit * x, total) <= RoundOver(Unit * y, total)
  <2>1. Unit * x \in Int /\ Unit * y \in Int /\ Unit * x <= Unit * y
    BY DEF Unit
  <2> QED
    BY <2>1, RoundMonotone
<1> DEFINE a == CategoryRatio(x, total)
           b == CategoryRatio(y, total)
           p == RoundOver(Unit * x, total)
           q == RoundOver(Unit * y, total)
<1>3. \/ a = Rejected
      \/ total = 0 /\ a = 0
      \/ total \in Nat \ {0} /\ a = p /\ a \in Int /\ InRange(a)
  BY <1>1
<1>4. \/ b = Rejected
      \/ total = 0 /\ b = 0
      \/ total \in Nat \ {0} /\ b = q /\ b \in Int /\ InRange(b)
  BY <1>1
<1>5. total \in Nat \ {0} => p <= q
  BY <1>2
<1> HIDE DEF a, b, p, q
<1>6. Ordered(a, b)
  BY <1>3, <1>4, <1>5 DEF Ordered, Rejected, InRange, Unit
<1> QED
  BY <1>6 DEF a, b

LEMMA WildfireExposureOrder ==
    ASSUME NEW s, NEW t, NowhereBetter("WRRAS", s, t)
    PROVE  Ordered(WildfireExposureIndex(s.exposed, s.total),
                   WildfireExposureIndex(t.exposed, t.total))
<1> DEFINE K == WrrasCategories
           n == Cardinality(K)
           f == [k \in K |-> CategoryRatio(s.exposed[k], s.total[k])]
           g == [k \in K |-> CategoryRatio(t.exposed[k], t.total[k])]
           a == WildfireExposureIndex(s.exposed, s.total)
           b == WildfireExposureIndex(t.exposed, t.total)
<1>1. \A k \in K : Ordered(f[k], g[k])
  <2> SUFFICES ASSUME NEW k \in K PROVE Ordered(f[k], g[k])
    OBVIOUS
  <2>1. /\ s.exposed[k] \in Int /\ t.exposed[k] \in Int /\ s.total[k] \in Int
        /\ s.exposed[k] <= t.exposed[k] /\ s.total[k] = t.total[k]
    BY FireKeys DEF NowhereBetter
  <2> QED
    BY <2>1, CategoryRatioOrder
<1>2. /\ a = IF \E k \in K : f[k] = Rejected THEN Rejected ELSE RoundOver(Tally(f, K), n)
      /\ b = IF \E k \in K : g[k] = Rejected THEN Rejected ELSE RoundOver(Tally(g, K), n)
  BY DEF WildfireExposureIndex
<1>3. IsFiniteSet(K) /\ K # {}
  BY KeysFinite
<1> HIDE DEF K, f, g, a, b
<1>4. a = Rejected \/ (a = RoundOver(Tally(f, K), n) /\ \A k \in K : f[k] \in Int /\ InRange(f[k]))
  BY <1>1, <1>2 DEF Ordered
<1>5. b = Rejected \/ (b = RoundOver(Tally(g, K), n) /\ \A k \in K : g[k] \in Int /\ InRange(g[k]))
  BY <1>1, <1>2 DEF Ordered
<1>6. (\A k \in K : f[k] \in Int /\ InRange(f[k])) =>
         RoundOver(Tally(f, K), n) \in Int /\ InRange(RoundOver(Tally(f, K), n))
  BY <1>3, TallyWithin
<1>7. (\A k \in K : g[k] \in Int /\ InRange(g[k])) =>
         RoundOver(Tally(g, K), n) \in Int /\ InRange(RoundOver(Tally(g, K), n))
  BY <1>3, TallyWithin
<1>8. (\A k \in K : f[k] \in Int /\ InRange(f[k]) /\ g[k] \in Int /\ InRange(g[k])) =>
         RoundOver(Tally(f, K), n) <= RoundOver(Tally(g, K), n)
  <2> SUFFICES ASSUME \A k \in K : f[k] \in Int /\ InRange(f[k]) /\ g[k] \in Int /\ InRange(g[k])
               PROVE  RoundOver(Tally(f, K), n) <= RoundOver(Tally(g, K), n)
    OBVIOUS
  <2>1. \A k \in K : f[k] \in Int /\ g[k] \in Int /\ f[k] <= g[k]
    BY <1>1 DEF Ordered
  <2>2. Tally(f, K) \in Int /\ Tally(g, K) \in Int /\ Tally(f, K) <= Tally(g, K)
    BY ONLY <1>3, <2>1, TallyOrder
  <2>3. n \in Nat \ {0}
    BY <1>3, FS_CardinalityType, FS_EmptySet
  <2> QED
    BY ONLY <2>2, <2>3, RoundMonotone
<1> DEFINE p == RoundOver(Tally(f, K), n)
           q == RoundOver(Tally(g, K), n)
<1>9. /\ a = Rejected \/ (a = p /\ p \in Int /\ InRange(p) /\ \A k \in K : f[k] \in Int /\ InRange(f[k]))
      /\ b = Rejected \/ (b = q /\ q \in Int /\ InRange(q) /\ \A k \in K : g[k] \in Int /\ InRange(g[k]))
      /\ (\A k \in K : f[k] \in Int /\ InRange(f[k]) /\ g[k] \in Int /\ InRange(g[k])) => p <= q
  BY <1>4, <1>5, <1>6, <1>7, <1>8
<1> HIDE DEF p, q
<1>10. Rejected \in Int /\ ~InRange(Rejected)
  BY DEF Rejected, InRange
<1>11. Ordered(a, b)
  BY ONLY <1>9, <1>10 DEF Ordered
<1> QED
  BY <1>11 DEF a, b

(* Scores of sets of keys, and the index that averages them: *)
(* _dimension_score and what is made of it. *)
AverageOfScores(f, S) ==
    RoundOver(SumFunction([keys \in S |-> DimensionScore(f, keys)]), Cardinality(S))

LEMMA ScoresOrder ==
    ASSUME NEW S, IsFiniteSet(S), S # {}, \A keys \in S : IsFiniteSet(keys) /\ keys # {},
           NEW f, NEW g,
           \A keys \in S : \A k \in keys : f[k] \in Int /\ g[k] \in Int /\ f[k] <= g[k]
    PROVE  AverageOfScores(f, S) <= AverageOfScores(g, S)
<1> DEFINE F == [keys \in S |-> DimensionScore(f, keys)]
           G == [keys \in S |-> DimensionScore(g, keys)]
           n == Cardinality(S)
<1>1. ASSUME NEW keys \in S PROVE F[keys] \in Int /\ G[keys] \in Int /\ F[keys] <= G[keys]
  <2> DEFINE m == Cardinality(keys)
             a == Tally(f, keys)
             b == Tally(g, keys)
  <2>1. a \in Int /\ b \in Int /\ a <= b
    BY TallyOrder
  <2>2. m \in Nat \ {0}
    BY FS_CardinalityType, FS_EmptySet
  <2>3. F[keys] = RoundOver(a, m) /\ G[keys] = RoundOver(b, m)
    BY DEF DimensionScore
  <2> HIDE DEF a, b, m, F, G
  <2> QED
    BY <2>1, <2>2, <2>3, RoundInt, RoundMonotone
<1>2. n \in Nat \ {0}
  BY FS_CardinalityType, FS_EmptySet
<1>3. /\ AverageOfScores(f, S) = RoundOver(SumFunctionOnSet(F, S), n)
      /\ AverageOfScores(g, S) = RoundOver(SumFunctionOnSet(G, S), n)
  BY DEF AverageOfScores, SumFunction
<1> HIDE DEF F, G, n
<1>4. SumFunctionOnSet(F, S) \in Int /\ SumFunctionOnSet(G, S) \in Int
  BY <1>1, SumInt
<1>5. SumFunctionOnSet(F, S) <= SumFunctionOnSet(G, S)
  BY <1>1, SumAtMostSum
<1> QED
  BY ONLY <1>2, <1>3, <1>4, <1>5, RoundMonotone

LEMMA ScoresWithin ==
    ASSUME NEW S, IsFiniteSet(S), S # {}, \A keys \in S : IsFiniteSet(keys) /\ keys # {},
           NEW f, \A keys \in S : \A k \in keys : f[k] \in Int /\ InRange(f[k])
    PROVE  /\ \A keys \in S : DimensionScore(f, keys) \in Int /\ InRange(DimensionScore(f, keys))
           /\ AverageOfScores(f, S) \in Int /\ InRange(AverageOfScores(f, S))
<1> DEFINE F == [keys \in S |-> DimensionScore(f, keys)]
<1>1. \A keys \in S : F[keys] \in Int /\ InRange(F[keys])
  <2> SUFFICES ASSUME NEW keys \in S PROVE F[keys] \in Int /\ InRange(F[keys])
    OBVIOUS
  <2>1. F[keys] = RoundOver(Tally(f, keys), Cardinality(keys))
    BY DEF DimensionScore
  <2>2. IsFiniteSet(keys) /\ keys # {} /\ \A k \in keys : f[k] \in Int /\ InRange(f[k])
    OBVIOUS
  <2>3. /\ RoundOver(Tally(f, keys), Cardinality(keys)) \in Int
        /\ InRange(RoundOver(Tally(f, keys), Cardinality(keys)))
    BY ONLY <2>2, TallyWithin
  <2> QED
    BY <2>1, <2>3
<1>2. AverageOfScores(f, S) = RoundOver(Tally(F, S), Cardinality(S))
  BY DEF AverageOfScores, SumFunction, Tally
<1>3. \A keys \in S : F[keys] = DimensionScore(f, keys)
  OBVIOUS
<1> HIDE DEF F
<1>4. /\ RoundOver(Tally(F, S), Cardinality(S)) \in Int
      /\ InRange(RoundOver(Tally(F, S), Cardinality(S)))
  BY <1>1, TallyWithin
<1> QED
  BY <1>1, <1>2, <1>3, <1>4

LEMMA WildfireVulnerabilityOrder ==
    ASSUME NEW s, NEW t, NowhereBetter("WRRAS", s, t)
    PROVE  Ordered(WildfireVulnerabilityIndex(s.value), WildfireVulnerabilityIndex(t.value))
<1> DEFINE S == WrrasDimensions
           f == Inverted(s.value, WrrasInverse)
           g == Inverted(t.value, WrrasInverse)
           a == WildfireVulnerabilityIndex(s.value)
           b == WildfireVulnerabilityIndex(t.value)
           p == AverageOfScores(f, S)
           q == AverageOfScores(g, S)
<1>1. ASSUME NEW keys \in S, NEW k \in keys
      PROVE  /\ f[k] \in Int /\ g[k] \in Int /\ f[k] <= g[k]
             /\ InRange(s.value[k]) => InRange(f[k])
             /\ InRange(t.value[k]) => InRange(g[k])
  <2>1. k \in Indicators("WRRAS") /\ k \in UNION WrrasDimensions
    BY FireKeys
  <2>2. /\ k \in DOMAIN s.value /\ k \in DOMAIN t.value
        /\ s.value[k] \in Int /\ t.value[k] \in Int
        /\ k \in WrrasInverse => t.value[k] <= s.value[k]
        /\ k \notin WrrasInverse => s.value[k] <= t.value[k]
    BY <2>1, Harmful DEF NowhereBetter
  <2> QED
    BY ONLY <2>2, InvertedOrder
<1>2. /\ a = IF \A k \in UNION S : InRange(s.value[k]) THEN p ELSE Rejected
      /\ b = IF \A k \in UNION S : InRange(t.value[k]) THEN q ELSE Rejected
  BY DEF WildfireVulnerabilityIndex, AverageOfScores
<1>3. IsFiniteSet(S) /\ S # {} /\ \A keys \in S : IsFiniteSet(keys) /\ keys # {}
  BY KeysFinite
<1> HIDE DEF S, f, g, a, b
<1>4. p <= q
  BY <1>1, <1>3, ScoresOrder
<1>5. a = Rejected \/ (a = p /\ p \in Int /\ InRange(p))
  <2>1. CASE \A k \in UNION S : InRange(s.value[k])
    <3>1. \A keys \in S : \A k \in keys : f[k] \in Int /\ InRange(f[k])
      BY <1>1, <2>1
    <3> QED
      BY <1>2, <1>3, <2>1, <3>1, ScoresWithin
  <2>2. CASE ~\A k \in UNION S : InRange(s.value[k])
    BY <1>2, <2>2
  <2> QED
    BY <2>1, <2>2
<1>6. b = Rejected \/ (b = q /\ q \in Int /\ InRange(q))
  <2>1. CASE \A k \in UNION S : InRange(t.value[k])
    <3>1. \A keys \in S : \A k \in keys : g[k] \in Int /\ InRange(g[k])
      BY <1>1, <2>1
    <3> QED
      BY <1>2, <1>3, <2>1, <3>1, ScoresWithin
  <2>2. CASE ~\A k \in UNION S : InRange(t.value[k])
    BY <1>2, <2>2
  <2> QED
    BY <2>1, <2>2
<1> HIDE DEF p, q
<1>7. Rejected \in Int /\ ~InRange(Rejected)
  BY DEF Rejected, InRange
<1>8. Ordered(a, b)
  BY ONLY <1>4, <1>5, <1>6, <1>7 DEF Ordered
<1> QED
  BY <1>8 DEF a, b

(* The resilience stage reads what the insecurity index has accepted. *)
LEMMA WildfireResilienceStored ==
    ASSUME NEW s, \A keys \in WrrasSubIndices : \A k \in keys : s.value[k] \in Int,
           WildfireOutcome(s).vulnerability # Rejected
    PROVE  /\ WildfireOutcome(s).resilience = AverageOfScores(s.value, WrrasSubIndices)
           /\ WildfireOutcome(s).resilience \in Int /\ InRange(WildfireOutcome(s).resilience)
<1> DEFINE S == WrrasSubIndices
           f == s.value
           x == WildfireVulnerabilityIndex(f)
<1>1. WildfireInsecurityIndex(f, x) # Rejected
      /\ WildfireOutcome(s).resilience = WildfireResilienceIndex(f)
  BY DEF WildfireOutcome
<1>2. \A k \in UNION S : InRange(f[k])
  BY <1>1 DEF WildfireInsecurityIndex
<1>3. \A keys \in S : \A k \in keys : f[k] \in Int /\ InRange(f[k])
  BY <1>2
<1>4. IsFiniteSet(S) /\ S # {} /\ \A keys \in S : IsFiniteSet(keys) /\ keys # {}
  BY KeysFinite
<1>5. /\ \A keys \in S : InRange(DimensionScore(f, keys))
      /\ AverageOfScores(f, S) \in Int /\ InRange(AverageOfScores(f, S))
  <2> HIDE DEF S, f
  <2> QED
    BY ONLY <1>3, <1>4, ScoresWithin
<1>6. WildfireResilienceIndex(f) = AverageOfScores(f, S)
  BY <1>5 DEF WildfireResilienceIndex, AverageOfScores
<1> QED
  BY <1>1, <1>5, <1>6

LEMMA WildfireOrder ==
    ASSUME NEW s, NEW t, NowhereBetter("WRRAS", s, t)
    PROVE  OutcomesOrdered(WildfireOutcome(s), WildfireOutcome(t))
<1> DEFINE a == WildfireOutcome(s)
           b == WildfireOutcome(t)
           x == WildfireVulnerabilityIndex(s.value)
           y == WildfireVulnerabilityIndex(t.value)
           p == AverageOfScores(s.value, WrrasSubIndices)
           q == AverageOfScores(t.value, WrrasSubIndices)
<1>1. Ordered(a.hazard, b.hazard)
  BY WildfireHazardOrder DEF WildfireOutcome
<1>2. Ordered(a.exposure, b.exposure)
  BY WildfireExposureOrder DEF WildfireOutcome
<1>3. Ordered(x, y)
  BY WildfireVulnerabilityOrder
<1>4. /\ a.vulnerability \in {Rejected, x} /\ b.vulnerability \in {Rejected, y}
      /\ a.vulnerability = Rejected => a.resilience = Rejected
      /\ b.vulnerability = Rejected => b.resilience = Rejected
      /\ a.risk = RiskIndex(a.hazard, a.exposure, a.vulnerability)
      /\ b.risk = RiskIndex(b.hazard, b.exposure, b.vulnerability)
  BY DEF WildfireOutcome
<1>5. \A keys \in WrrasSubIndices : \A k \in keys :
         s.value[k] \in Int /\ t.value[k] \in Int /\ t.value[k] <= s.value[k]
  BY FireKeys DEF NowhereBetter
<1>6. a.vulnerability # Rejected => a.resilience = p /\ p \in Int /\ InRange(p)
  BY <1>5, WildfireResilienceStored
<1>7. b.vulnerability # Rejected => b.resilience = q /\ q \in Int /\ InRange(q)
  BY <1>5, WildfireResilienceStored
<1>8. q <= p
  <2> DEFINE S == WrrasSubIndices
             f == s.value
             g == t.value
  <2>1. IsFiniteSet(S) /\ S # {} /\ \A keys \in S : IsFiniteSet(keys) /\ keys # {}
    BY KeysFinite
  <2>2. \A keys \in S : \A k \in keys : g[k] \in Int /\ f[k] \in Int /\ g[k] <= f[k]
    BY <1>5
  <2> HIDE DEF S, f, g
  <2>3. AverageOfScores(g, S) <= AverageOfScores(f, S)
    BY ONLY <2>1, <2>2, ScoresOrder
  <2> QED
    BY <2>3 DEF S, f, g
<1> HIDE DEF a, b, x, y, p, q
<1>9. Rejected \in Int /\ ~InRange(Rejected)
  BY DEF Rejected, InRange
<1>10. Ordered(a.vulnerability, b.vulnerability)
  BY ONLY <1>3, <1>4, <1>9 DEF Ordered
<1>11. Ordered(b.resilience, a.resilience)
  BY ONLY <1>4, <1>6, <1>7, <1>8, <1>9 DEF Ordered
<1>12. /\ Ordered(a.risk, b.risk)
       /\ Rejected \notin {a.hazard, a.exposure, a.vulnerability} =>
             /\ InRange(a.risk)
             /\ \A f \in {a.hazard, a.exposure, a.vulnerability} : a.risk <= f
  BY <1>1, <1>2, <1>4, <1>10, RiskOrdered
<1>13. a.vulnerability # Rejected => InRange(a.resilience)
  BY <1>6
<1> QED
  BY <1>1, <1>2, <1>10, <1>11, <1>12, <1>13 DEF OutcomesOrdered, a, b

LEMMA WildfireResilienceSame ==
    ASSUME NEW s, NEW t,
           \A keys \in WrrasSubIndices : \A k \in keys :
              s.value[k] \in Int /\ t.value[k] = s.value[k],
           WildfireOutcome(s).resilience # Rejected, WildfireOutcome(t).resilience # Rejected
    PROVE  WildfireOutcome(t).resilience = WildfireOutcome(s).resilience
<1> DEFINE S == WrrasSubIndices
           f == s.value
           g == t.value
<1>1. /\ WildfireOutcome(s).vulnerability # Rejected
      /\ WildfireOutcome(t).vulnerability # Rejected
  BY DEF WildfireOutcome
<1>2. /\ WildfireOutcome(s).resilience = AverageOfScores(f, S)
      /\ WildfireOutcome(t).resilience = AverageOfScores(g, S)
      /\ AverageOfScores(f, S) \in Int /\ AverageOfScores(g, S) \in Int
  BY <1>1, WildfireResilienceStored
<1>3. IsFiniteSet(S) /\ S # {} /\ \A keys \in S : IsFiniteSet(keys) /\ keys # {}
  BY KeysFinite
<1>4. \A keys \in S : \A k \in keys :
         f[k] \in Int /\ g[k] \in Int /\ f[k] <= g[k] /\ g[k] <= f[k]
  OBVIOUS
<1> HIDE DEF S, f, g
<1>5. AverageOfScores(f, S) <= AverageOfScores(g, S)
  BY <1>3, <1>4, ScoresOrder
<1>6. AverageOfScores(g, S) <= AverageOfScores(f, S)
  BY <1>3, <1>4, ScoresOrder
<1> QED
  BY <1>2, <1>5, <1>6

(* Whatever the indicators are and whatever weights the earlier assessments *)
(* give them, as long as two surveys get the same and one is nowhere better *)
(* than the other: its hazard, exposure, vulnerability and risk are no      *)
(* lower and its resilience no higher, when both are computed, and none of  *)
(* the calculators behind them rejects what the one before it has stored.   *)
THEOREM NowhereSafer ==
    ASSUME NEW st \in {"FIRAS", "WRRAS"}, NEW s, NEW t,
           s.strategy = st, t.strategy = st, NowhereBetter(st, s, t)
    PROVE  OutcomesOrdered(Outcome(s), Outcome(t))
<1>1. CASE st = "FIRAS"
  BY <1>1, FloodOrder DEF Outcome
<1>2. CASE st = "WRRAS"
  BY <1>2, WildfireOrder DEF Outcome
<1> QED
  BY <1>1, <1>2

(* A survey with each indicator and each asset at any level, in thirds of  *)
(* what is allowed, any totals and any weighting *)
IsSurvey(s, st) ==
    \E level \in [Indicators(st) \cup Assets(st) -> Int], total \in [Assets(st) -> Int] :
        \E w : IsWeighting(w) /\ s = SurveyOf(st, level, total, w)

LEMMA LevelsOrdered ==
    ASSUME NEW st \in {"FIRAS", "WRRAS"},
           NEW level \in [Indicators(st) \cup Assets(st) -> Int],
           NEW more \in [Indicators(st) \cup Assets(st) -> Int],
           NEW total \in [Assets(st) -> Int], NEW w, IsWeighting(w),
           \A k \in Indicators(st) \cup Assets(st) :
              /\ k \in Protective => more[k] <= level[k]
              /\ k \notin Protective => level[k] <= more[k]
    PROVE  NowhereBetter(st, SurveyOf(st, level, total, w), SurveyOf(st, more, total, w))
<1> DEFINE s == SurveyOf(st, level, total, w)
           t == SurveyOf(st, more, total, w)
<1>1. /\ s.value = [k \in Indicators(st) |-> ValueOf(level[k])]
      /\ t.value = [k \in Indicators(st) |-> ValueOf(more[k])]
      /\ s.exposed = [k \in Assets(st) |-> level[k]] /\ s.total = total
      /\ t.exposed = [k \in Assets(st) |-> more[k]] /\ t.total = total
      /\ s.weights = w /\ t.weights = w
  BY DEF SurveyOf
<1>2. ASSUME NEW x \in Int, NEW y \in Int
      PROVE  ValueOf(x) \in Int /\ (x <= y => ValueOf(x) <= ValueOf(y))
  BY DEF ValueOf, Unit
<1>3. ASSUME NEW k \in Indicators(st)
      PROVE  /\ s.value[k] \in Int /\ t.value[k] \in Int
             /\ k \in Protective => t.value[k] <= s.value[k]
             /\ k \notin Protective => s.value[k] <= t.value[k]
  <2>1. level[k] \in Int /\ more[k] \in Int
    OBVIOUS
  <2>2. /\ k \in Protective => more[k] <= level[k]
        /\ k \notin Protective => level[k] <= more[k]
    OBVIOUS
  <2>3. s.value[k] = ValueOf(level[k]) /\ t.value[k] = ValueOf(more[k])
    BY <1>1
  <2> HIDE DEF s, t
  <2> QED
    BY ONLY <1>2, <2>1, <2>2, <2>3
<1>4. ASSUME NEW k \in Assets(st)
      PROVE  /\ s.exposed[k] \in Int /\ t.exposed[k] \in Int /\ s.total[k] \in Int
             /\ s.exposed[k] <= t.exposed[k] /\ s.total[k] = t.total[k]
  <2>1. k \notin Protective
    BY Harmful
  <2> QED
    BY <1>1, <2>1
<1> HIDE DEF s, t
<1>5. DOMAIN s.value = Indicators(st) /\ DOMAIN t.value = Indicators(st)
  BY <1>1
<1>6. NowhereBetter(st, s, t)
  BY ONLY <1>1, <1>3, <1>4, <1>5, IsWeighting(w) DEF NowhereBetter
<1> QED
  BY <1>6 DEF s, t

LEMMA OneLevelMore ==
    ASSUME NEW st \in {"FIRAS", "WRRAS"},
           NEW level \in [Indicators(st) \cup Assets(st) -> Int],
           NEW total \in [Assets(st) -> Int], NEW w, IsWeighting(w),
           NEW k \in Indicators(st) \cup Assets(st)
    PROVE  OnItsSide(k, Outcome(SurveyOf(st, level, total, w)),
                    Outcome(SurveyOf(st, [level EXCEPT ![k] = @ + 1], total, w)))
<1> DEFINE up == [level EXCEPT ![k] = @ + 1]
           s == SurveyOf(st, level, total, w)
           t == SurveyOf(st, up, total, w)
           now == Outcome(s)
           more == Outcome(t)
<1>1. /\ up \in [Indicators(st) \cup Assets(st) -> Int]
      /\ up[k] = level[k] + 1 /\ level[k] \in Int
      /\ \A j \in (Indicators(st) \cup Assets(st)) \ {k} : up[j] = level[j] /\ level[j] \in Int
  OBVIOUS
<1>2. s.strategy = st /\ t.strategy = st /\ s.weights = w /\ t.weights = w
  BY DEF SurveyOf
<1>3. s.value = [j \in Indicators(st) |-> ValueOf(level[j])]
      /\ t.value = [j \in Indicators(st) |-> ValueOf(up[j])]
  BY DEF SurveyOf
<1> HIDE DEF up, s, t
<1>4. ASSUME k \in Protective
      PROVE  Ordered(more.risk, now.risk) /\ Ordered(now.resilience, more.resilience)
  <2>1. \A j \in Indicators(st) \cup Assets(st) :
           /\ j \in Protective => level[j] <= up[j]
           /\ j \notin Protective => up[j] <= level[j]
    BY <1>1, <1>4
  <2>2. NowhereBetter(st, t, s)
    BY <1>1, <2>1, LevelsOrdered DEF s, t
  <2>3. OutcomesOrdered(more, now)
    BY <1>2, <2>2, NowhereSafer
  <2> QED
    BY <2>3 DEF OutcomesOrdered
<1>5. ASSUME k \notin Protective
      PROVE  Ordered(now.risk, more.risk)
  <2>1. \A j \in Indicators(st) \cup Assets(st) :
           /\ j \in Protective => up[j] <= level[j]
           /\ j \notin Protective => level[j] <= up[j]
    BY <1>1, <1>5
  <2>2. NowhereBetter(st, s, t)
    BY <1>1, <2>1, LevelsOrdered DEF s, t
  <2>3. OutcomesOrdered(now, more)
    BY <1>2, <2>2, NowhereSafer
  <2> QED
    BY <2>3 DEF OutcomesOrdered
<1>6. ASSUME k \notin Capacities, Rejected \notin {now.resilience, more.resilience}
      PROVE  more.resilience = now.resilience
  <2>1. ASSUME NEW j \in Indicators(st), j \in Capacities
        PROVE  s.value[j] \in Int /\ t.value[j] = s.value[j]
    <3>1. up[j] = level[j] /\ level[j] \in Int
      BY <1>1, <1>6, <2>1
    <3>2. ValueOf(level[j]) \in Int
      BY <3>1 DEF ValueOf, Unit
    <3> QED
      BY <1>3, <3>1, <3>2
  <2>2. CASE st = "FIRAS"
    <3>1. \A keys \in FirasSubIndices : \A j \in keys :
             s.value[j] \in Int /\ t.value[j] = s.value[j]
      BY <2>1, <2>2, FloodKeys
    <3>2. now = FloodOutcome(s) /\ more = FloodOutcome(t)
      BY <1>2, <2>2 DEF Outcome
    <3> QED
      BY <1>2, <1>6, <3>1, <3>2, FloodResilienceSame
  <2>3. CASE st = "WRRAS"
    <3>1. \A keys \in WrrasSubIndices : \A j \in keys :
             s.value[j] \in Int /\ t.value[j] = s.value[j]
      BY <2>1, <2>3, FireKeys
    <3>2. now = WildfireOutcome(s) /\ more = WildfireOutcome(t)
      BY <1>2, <2>3 DEF Outcome
    <3> QED
      BY <1>6, <3>1, <3>2, WildfireResilienceSame
  <2> QED
    BY <2>2, <2>3
<1>7. k \in Capacities => k \in Protective
  BY DEF Protective
<1> HIDE DEF now, more
<1>8. Rejected \notin {now.risk, more.risk} =>
         IF k \in Protective THEN more.risk <= now.risk ELSE more.risk >= now.risk
  BY <1>4, <1>5 DEF Ordered
<1>9. Rejected \notin {now.resilience, more.resilience} =>
         IF k \in Capacities THEN more.resilience >= now.resilience
         ELSE more.resilience = now.resilience
  BY <1>4, <1>6, <1>7 DEF Ordered
<1>10. OnItsSide(k, now, more)
  BY <1>8, <1>9 DEF OnItsSide
<1> QED
  BY <1>10 DEF now, more, s, t, up

(* The surveys TLC is given are among those the next theorem is about. *)
LEMMA ComputedWeighting ==
    ASSUME NEW differed
    PROVE  IsWeighting(WeightsOf(differed))
<1>1. ASSUME NEW some, NEW keys, keys # {}
      PROVE  Weighs(ComputeWeights(some, keys), keys)
  <2>1. ComputeWeights(some, keys) \in [keys -> Nat]
    BY DEF ComputeWeights
  <2>2. CASE keys \cap some = {}
    <3> PICK k \in keys : TRUE
      BY <1>1
    <3>1. ComputeWeights(some, keys)[k] = 1
      BY <2>2 DEF ComputeWeights
    <3> QED
      BY <2>1, <3>1 DEF Weighs
  <2>3. CASE keys \cap some # {}
    <3> PICK k \in keys : k \in some
      BY <2>3
    <3>1. ComputeWeights(some, keys)[k] = 1
      BY DEF ComputeWeights
    <3> QED
      BY <2>1, <3>1 DEF Weighs
  <2> QED
    BY <2>2, <2>3
<1> DEFINE changed == {keys \in FirasGroups : keys \cap differed # {}}
           w == WeightsOf(differed)
<1>2. /\ w.indicator = [keys \in FirasGroups |-> ComputeWeights(differed, keys)]
      /\ w.insecurity = ComputeWeights(changed, FirasGroups)
      /\ w.resilience = ComputeWeights(changed, FirasSubIndices)
  BY DEF WeightsOf
<1>3. \A keys \in FirasGroups : Weighs(w.indicator[keys], keys)
  BY <1>1, <1>2, FloodGroups
<1>4. Weighs(w.insecurity, FirasGroups)
  BY <1>1, <1>2, FloodGroups
<1>5. Weighs(w.resilience, FirasSubIndices)
  BY <1>1, <1>2, KeysFinite
<1> HIDE DEF w
<1>6. IsWeighting(w)
  BY <1>3, <1>4, <1>5 DEF IsWeighting
<1> QED
  BY <1>6 DEF w

LEMMA CheckedSurveys ==
    \A s \in Surveys : \E st \in {"FIRAS", "WRRAS"} : IsSurvey(s, st)
<1>1. ASSUME NEW st \in {"FIRAS", "WRRAS"}, NEW base \in 0..3, NEW l \in Levels, NEW key,
             NEW missing \in {"none", "population"}
      PROVE  /\ LevelBut(st, base, key, l) \in [Indicators(st) \cup Assets(st) -> Int]
             /\ TotalBut(st, missing) \in [Assets(st) -> Int]
  BY DEF LevelBut, TotalBut, Levels
<1>2. ASSUME NEW st \in {"FIRAS", "WRRAS"}, NEW s \in SurveysOf(st)
      PROVE  IsSurvey(s, st)
  <2> PICK base \in 0..3, l \in Levels, missing \in {"none", "population"},
           key \in Indicators(st) \cup Assets(st) :
           s = SurveyOf(st, LevelBut(st, base, key, l), TotalBut(st, missing), EqualWeights)
    BY DEF SurveysOf
  <2>1. IsWeighting(EqualWeights)
    BY ComputedWeighting DEF EqualWeights
  <2> QED
    BY <1>1, <2>1 DEF IsSurvey
<1>3. ASSUME NEW s \in SurveysWithHistory
      PROVE  IsSurvey(s, "FIRAS")
  <2> PICK base \in 1..2, l \in Levels, key \in UNION FirasGroups :
           s = SurveyAfter(base, l, key)
    BY DEF SurveysWithHistory
  <2>1. IsWeighting(WeightsOf({key}))
    BY ComputedWeighting
  <2>2. base \in 0..3 /\ "none" \in {"none", "population"} /\ "FIRAS" \in {"FIRAS", "WRRAS"}
    OBVIOUS
  <2>3. /\ LevelBut("FIRAS", base, key, l) \in [Indicators("FIRAS") \cup Assets("FIRAS") -> Int]
        /\ TotalBut("FIRAS", "none") \in [Assets("FIRAS") -> Int]
    BY ONLY <1>1, <2>2, l \in Levels
  <2> QED
    BY <2>1, <2>3 DEF IsSurvey, SurveyAfter
<1> QED
  BY <1>2, <1>3 DEF Surveys

(* The formulas of both strategies for every survey and every weighting of *)
(* it, of which TLC sees those with all indicators but one at one level:   *)
(* the inversions and the signs along the chain of calculators agree, and  *)
(* each accepts what the one before it stored. *)
THEOREM IndicesSound ==
    ASSUME survey = NoSurvey \/ \E st \in {"FIRAS", "WRRAS"} : IsSurvey(survey, st)
    PROVE  IndicesAreSound
<1>1. CASE survey = NoSurvey
  BY <1>1 DEF IndicesAreSound, WorseIsNeverSafer, StoredIndicesAreAccepted
<1>2. ASSUME NEW st \in {"FIRAS", "WRRAS"}, IsSurvey(survey, st)
      PROVE  IndicesAreSound
  <2> PICK level \in [Indicators(st) \cup Assets(st) -> Int], total \in [Assets(st) -> Int] :
          \E w : IsWeighting(w) /\ survey = SurveyOf(st, level, total, w)
    BY <1>2 DEF IsSurvey
  <2> PICK w : IsWeighting(w) /\ survey = SurveyOf(st, level, total, w)
    OBVIOUS
  <2>1. /\ survey.strategy = st /\ survey.level = level
        /\ survey.total = total /\ survey.weights = w
    BY DEF SurveyOf
  <2>2. WorseIsNeverSafer
    <3> SUFFICES ASSUME NEW k \in DOMAIN survey.level
                 PROVE  OnItsSide(k, Outcome(survey), OneMore(k, survey.weights))
      BY DEF WorseIsNeverSafer
    <3>1. k \in Indicators(st) \cup Assets(st)
      BY <2>1
    <3>2. OneMore(k, survey.weights)
            = Outcome(SurveyOf(st, [level EXCEPT ![k] = @ + 1], total, w))
      BY <2>1 DEF OneMore
    <3>3. OnItsSide(k, Outcome(SurveyOf(st, level, total, w)),
                   Outcome(SurveyOf(st, [level EXCEPT ![k] = @ + 1], total, w)))
      BY <3>1, OneLevelMore
    <3> QED
      BY <3>2, <3>3
  <2>3. StoredIndicesAreAccepted
    <3>1. \A k \in Indicators(st) \cup Assets(st) : level[k] <= level[k]
      OBVIOUS
    <3>2. NowhereBetter(st, survey, survey)
      BY <3>1, LevelsOrdered
    <3>3. OutcomesOrdered(Outcome(survey), Outcome(survey))
      BY <2>1, <3>2, NowhereSafer
    <3> QED
      BY <3>3 DEF OutcomesOrdered, StoredIndicesAreAccepted
  <2> QED
    BY <2>2, <2>3 DEF IndicesAreSound
<1> QED
  BY <1>1, <1>2

-----------------------------------------------------------------------------
(* Statistics: the subsample of Kendall's tau. *)

(* The positions taken of n, and the first one past the end. *)
Taken(n) == Append(Subsample(n), n + 1)

LEMMA TakenAt ==
    ASSUME NEW n \in Nat \ {0}, n > KendallLimit
    PROVE  /\ Len(Taken(n)) = KendallLimit + 1
           /\ \A i \in 1..(KendallLimit + 1) :
                 Taken(n)[i] = 1 + ((i - 1) * n) \div KendallLimit
<1> DEFINE K == KendallLimit
           s == [i \in 1..K |-> 1 + ((i - 1) * n) \div K]
<1>1. K \in Nat \ {0}
  BY StatisticsAssumption
<1>2. Subsample(n) = s
  BY <1>1 DEF Subsample
<1>3. s \in Seq(Int) /\ Len(s) = K
  <2>1. \A i \in 1..K : (i - 1) * n \in Nat
    BY <1>1
  <2>2. \A i \in 1..K : s[i] \in Int
    BY <1>1, <2>1
  <2> QED
    BY <1>1, <2>2
<1>4. (K * n) \div K = n
  BY <1>1
<1>5. n + 1 \in Int
  OBVIOUS
<1> HIDE DEF s
<1>6. Len(Append(s, n + 1)) = K + 1 /\ Append(s, n + 1)[K + 1] = n + 1
      /\ \A i \in 1..K : Append(s, n + 1)[i] = s[i]
  BY <1>1, <1>3, <1>5
<1>7. ASSUME NEW i \in 1..(K + 1)
      PROVE  Taken(n)[i] = 1 + ((i - 1) * n) \div K
  <2>1. CASE i = K + 1
    BY <1>1, <1>2, <1>4, <1>6, <2>1 DEF Taken
  <2>2. CASE i \in 1..K
    BY <1>1, <1>2, <1>6, <2>2 DEF Taken, s
  <2> QED
    BY <1>1, <2>1, <2>2
<1> QED
  BY <1>2, <1>6, <1>7 DEF Taken

LEMMA StepOfPositions ==
    ASSUME NEW n \in Nat, NEW K \in Nat \ {0}, n > K, NEW m \in Nat
    PROVE  (m + n) \div K - m \div K \in 1..((n + K - 1) \div K)
<1> DEFINE q == m \div K
           r == m % K
           Q == (m + n) \div K
           R == (m + n) % K
           s == (n + K - 1) \div K
           u == (n + K - 1) % K
<1>1. q \in Nat /\ r \in 0..(K - 1) /\ m = K * q + r
  BY DivisionBounds
<1>2. Q \in Nat /\ R \in 0..(K - 1) /\ m + n = K * Q + R
  BY DivisionBounds
<1>3. s \in Nat /\ u \in 0..(K - 1) /\ n + K - 1 = K * s + u
  BY DivisionBounds, n + K - 1 \in Nat
<1> HIDE DEF q, r, Q, R, s, u
<1>4. K * (q + 1) <= K * Q + (K - 1)
  BY <1>1, <1>2
<1>5. K * Q <= K * (q + s) + (K - 1)
  BY <1>1, <1>2, <1>3
<1>6. ASSUME NEW a \in Int, NEW b \in Int, K * a <= K * b + (K - 1)
      PROVE  a <= b
  <2> SUFFICES ASSUME b + 1 <= a PROVE FALSE
    OBVIOUS
  <2>1. K * (b + 1) <= K * a
    OBVIOUS
  <2> QED
    BY <1>6, <2>1
<1>7. q + 1 <= Q /\ Q <= q + s
  BY <1>1, <1>2, <1>3, <1>4, <1>5, <1>6
<1> QED
  BY <1>1, <1>2, <1>3, <1>7 DEF q, Q, s

LEMMA TakenStep ==
    ASSUME NEW n \in Nat \ {0}, n > KendallLimit, NEW i \in 1..KendallLimit
    PROVE  Taken(n)[i + 1] - Taken(n)[i] \in 1..((n + KendallLimit - 1) \div KendallLimit)
<1> DEFINE K == KendallLimit
<1>1. K \in Nat \ {0}
  BY StatisticsAssumption
<1>2. PICK m \in Nat : m = (i - 1) * n /\ i * n = m + n
  <2>1. (i - 1) * n \in Nat /\ (i - 1) * n + n = i * n
    BY <1>1
  <2> QED
    BY <2>1
<1>3. (m + n) \div K - m \div K \in 1..((n + K - 1) \div K)
  BY <1>1, StepOfPositions
<1>4. i \in 1..(K + 1) /\ i + 1 \in 1..(K + 1) /\ i = (i + 1) - 1
  BY <1>1
<1>5. Taken(n)[i] = 1 + m \div K
  BY <1>2, <1>4, TakenAt
<1>6. Taken(n)[i + 1] = 1 + (m + n) \div K
  <2>1. Taken(n)[i + 1] = 1 + (((i + 1) - 1) * n) \div K
    BY <1>4, TakenAt
  <2> QED
    BY <1>2, <1>4, <2>1
<1>7. m \div K \in Int /\ (m + n) \div K \in Int
  BY <1>1
<1> QED
  BY <1>3, <1>5, <1>6, <1>7

LEMMA TakenIsSpread ==
    ASSUME NEW n \in Nat \ {0}
    PROVE  /\ Taken(n)[1] = 1
           /\ \A i \in 1..(Len(Taken(n)) - 1) :
                 Taken(n)[i + 1] - Taken(n)[i]
                     \in 1..(IF n <= KendallLimit THEN 1
                             ELSE (n + KendallLimit - 1) \div KendallLimit)
<1>1. KendallLimit \in Nat \ {0}
  BY StatisticsAssumption
<1>2. CASE n <= KendallLimit
  <2> DEFINE s == [i \in 1..n |-> i]
  <2>1. s \in Seq(Int) /\ Len(s) = n /\ n + 1 \in Int
    OBVIOUS
  <2>2. Taken(n) = Append(s, n + 1)
    BY <1>2 DEF Taken, Subsample
  <2>3. Len(Taken(n)) = n + 1 /\ \A i \in 1..(n + 1) : Taken(n)[i] = i
    BY <2>1, <2>2
  <2>4. ASSUME NEW i \in 1..n PROVE Taken(n)[i + 1] - Taken(n)[i] \in 1..1
    BY <2>3
  <2> QED
    BY <1>2, <2>3, <2>4
<1>3. CASE n > KendallLimit
  <2>1. Taken(n)[1] = 1 + ((1 - 1) * n) \div KendallLimit
    BY <1>1, <1>3, TakenAt
  <2>2. (1 - 1) * n = 0 /\ 0 \div KendallLimit = 0
    BY <1>1
  <2>3. Len(Taken(n)) - 1 = KendallLimit
    BY <1>1, <1>3, TakenAt
  <2>4. Taken(n)[1] = 1
    BY <2>1, <2>2
  <2>5. ~(n <= KendallLimit)
    BY <1>1, <1>3
  <2>6. \A i \in 1..KendallLimit :
           Taken(n)[i + 1] - Taken(n)[i] \in 1..((n + KendallLimit - 1) \div KendallLimit)
    BY <1>3, TakenStep
  <2> QED
    BY <2>3, <2>4, <2>5, <2>6
<1> QED
  BY <1>1, <1>2, <1>3

(* Kendall's tau of a long series is computed from positions that are      *)
(* spread over all of it, whatever its length and the limit are. *)
THEOREM SubsamplesAreSpread ==
    ASSUME observations.kind = "size" => observations.n \in Nat \ {0}
    PROVE  SubsampleIsSpread
  BY TakenIsSpread DEF SubsampleIsSpread, Taken

-----------------------------------------------------------------------------
(* Statistics: ranks.  Twice the average rank of a value is a count of the *)
(* values below it and of those equal to it. *)

Lower(values, v) == {j \in DOMAIN values : values[j] < values[v]}
Alike(values, v) == {j \in DOMAIN values : values[j] = values[v]}
AlikeBefore(values, v) == {j \in Alike(values, v) : j < v}

LEMMA LeastIs ==
    ASSUME NEW S \in SUBSET Int, NEW m \in S, \A y \in S : m <= y
    PROVE  Min(S) = m
<1>1. \A x \in S : (\A y \in S : x <= y) => x = m
  OBVIOUS
<1> QED
  BY <1>1 DEF Min

LEMMA GreatestIs ==
    ASSUME NEW S \in SUBSET Int, NEW m \in S, \A y \in S : y <= m
    PROVE  Max(S) = m
<1>1. \A x \in S : (\A y \in S : x >= y) => x = m
  OBVIOUS
<1>2. \A y \in S : m >= y
  OBVIOUS
<1> QED
  BY <1>1, <1>2 DEF Max

LEMMA PositionsFinite ==
    ASSUME NEW values \in Seq(Int)
    PROVE  /\ DOMAIN values = 1..Len(values) /\ Len(values) \in Nat
           /\ IsFiniteSet(DOMAIN values) /\ Cardinality(DOMAIN values) = Len(values)
           /\ \A i \in DOMAIN values : values[i] \in Int
<1>1. DOMAIN values = 1..Len(values) /\ Len(values) \in Nat
  OBVIOUS
<1>2. IsFiniteSet(1..Len(values)) /\ Cardinality(1..Len(values)) = Len(values)
  BY <1>1, FS_Interval
<1> QED
  BY <1>1, <1>2

LEMMA Counts ==
    ASSUME NEW values \in Seq(Int), NEW S \in SUBSET DOMAIN values
    PROVE  IsFiniteSet(S) /\ Cardinality(S) \in Nat
  BY PositionsFinite, FS_Subset, FS_CardinalityType

LEMMA PlaceByCounting ==
    ASSUME NEW values \in Seq(Int), NEW v \in DOMAIN values
    PROVE  Places(values)[v]
             = 1 + Cardinality(Lower(values, v)) + Cardinality(AlikeBefore(values, v))
<1> DEFINE L == Lower(values, v)
           B == AlikeBefore(values, v)
<1>1. {j \in DOMAIN values : Precedes(values, j, v)} = L \cup B
  BY PositionsFinite DEF Precedes, Lower, AlikeBefore, Alike
<1>2. L \cap B = {}
  BY PositionsFinite DEF Lower, AlikeBefore, Alike
<1>3. L \in SUBSET DOMAIN values /\ B \in SUBSET DOMAIN values
  BY DEF Lower, AlikeBefore, Alike
<1> HIDE DEF L, B
<1>4. IsFiniteSet(L) /\ IsFiniteSet(B) /\ Cardinality(L) \in Nat /\ Cardinality(B) \in Nat
  BY <1>3, Counts
<1>5. Cardinality(L \cup B) = Cardinality(L) + Cardinality(B)
  <2>1. Cardinality(L \cup B) = Cardinality(L) + Cardinality(B) - Cardinality(L \cap B)
    BY <1>4, FS_Union
  <2>2. Cardinality(L \cap B) = 0
    BY <1>2, FS_EmptySet
  <2> QED
    BY <1>4, <2>1, <2>2
<1>6. Places(values)[v] = 1 + Cardinality(L \cup B)
  BY <1>1 DEF Places
<1> QED
  BY <1>4, <1>5, <1>6 DEF L, B

LEMMA RankByCounting ==
    ASSUME NEW values \in Seq(Int), NEW v \in DOMAIN values
    PROVE  TwiceAverageRanks(values)[v]
             = 2 * Cardinality(Lower(values, v)) + Cardinality(Alike(values, v)) + 1
<1> DEFINE A == Alike(values, v)
           l == Cardinality(Lower(values, v))
           b(j) == Cardinality(AlikeBefore(values, j))
           T == TiedPlaces(values, v)
<1>1. A \in SUBSET DOMAIN values /\ v \in A /\ Lower(values, v) \in SUBSET DOMAIN values
  BY DEF Alike, Lower
<1>2. IsFiniteSet(A) /\ Cardinality(A) \in Nat \ {0} /\ l \in Nat
  BY <1>1, Counts, FS_EmptySet
<1>3. ASSUME NEW j \in A
      PROVE  /\ Lower(values, j) = Lower(values, v) /\ Alike(values, j) = A
             /\ AlikeBefore(values, j) = {i \in A : i < j}
  BY <1>3 DEF Alike, Lower, AlikeBefore
<1>4. ASSUME NEW j \in A
      PROVE  b(j) \in Nat /\ b(j) <= Cardinality(A) - 1
  <2>1. AlikeBefore(values, j) \in SUBSET (A \ {j})
    BY <1>1, <1>3, PositionsFinite
  <2>2. IsFiniteSet(A \ {j}) /\ Cardinality(A \ {j}) = Cardinality(A) - 1
    BY <1>2, FS_RemoveElement
  <2> QED
    BY <2>1, <2>2, FS_Subset, FS_CardinalityType
<1>5. T = {1 + l + b(j) : j \in A}
  <2>1. ASSUME NEW j \in A PROVE Places(values)[j] = 1 + l + b(j)
    BY <1>1, <1>3, PlaceByCounting
  <2>2. T = {Places(values)[j] : j \in A}
    BY DEF TiedPlaces, Alike
  <2> QED
    BY <2>1, <2>2
<1>6. \E i \in A : \A j \in A : i <= j
  <2>1. DOMAIN values = 1..Len(values) /\ Len(values) \in Nat
    BY PositionsFinite
  <2> DEFINE f == [i \in A |-> -i]
  <2>2. \A i \in A : i \in Int /\ f[i] \in Int
    BY <1>1, <2>1
  <2> HIDE DEF f
  <2>3. \E i \in A : \A j \in A : f[j] <= f[i]
    BY <1>1, <1>2, <2>2, GreatestTerm
  <2> QED
    BY <2>2, <2>3 DEF f
<1>7. \E i \in A : \A j \in A : j <= i
  <2>1. DOMAIN values = 1..Len(values) /\ Len(values) \in Nat
    BY PositionsFinite
  <2> DEFINE f == [i \in A |-> i]
  <2>2. \A i \in A : i \in Int /\ f[i] \in Int
    BY <1>1, <2>1
  <2> HIDE DEF f
  <2>3. \E i \in A : \A j \in A : f[j] <= f[i]
    BY <1>1, <1>2, <2>2, GreatestTerm
  <2> QED
    BY <2>2, <2>3 DEF f
<1>8. \A j \in A : j \in Int
  BY <1>1, PositionsFinite
<1>9. \E j \in A : b(j) = 0
  <2> PICK i \in A : \A j \in A : i <= j
    BY <1>6
  <2>1. AlikeBefore(values, i) = {}
    BY <1>3, <1>8
  <2> QED
    BY <2>1, FS_EmptySet
<1>10. \E j \in A : b(j) = Cardinality(A) - 1
  <2> PICK i \in A : \A j \in A : j <= i
    BY <1>7
  <2>1. AlikeBefore(values, i) = A \ {i}
    BY <1>3, <1>8
  <2> QED
    BY <1>2, <2>1, FS_RemoveElement
<1> HIDE DEF A, l, b, T
<1>11. T \in SUBSET Int /\ \A t \in T : 1 + l <= t /\ t <= l + Cardinality(A)
  BY <1>2, <1>4, <1>5
<1>12. 1 + l \in T /\ l + Cardinality(A) \in T
  <2>1. PICK i \in A : b(i) = 0
    BY <1>9
  <2>2. PICK j \in A : b(j) = Cardinality(A) - 1
    BY <1>10
  <2>3. 1 + l + b(i) \in T /\ 1 + l + b(j) \in T
    BY <1>5
  <2>4. 1 + l + b(i) = 1 + l /\ 1 + l + b(j) = l + Cardinality(A)
    BY <1>2, <2>1, <2>2
  <2> QED
    BY <2>3, <2>4
<1>13. Min(T) = 1 + l
  BY <1>11, <1>12, LeastIs
<1>14. Max(T) = l + Cardinality(A)
  BY <1>11, <1>12, GreatestIs
<1>15. TwiceAverageRanks(values)[v] = Min(T) + Max(T)
  BY DEF TwiceAverageRanks, T
<1> QED
  BY <1>2, <1>13, <1>14, <1>15 DEF A, l

LEMMA RanksAreNumbers ==
    ASSUME NEW values \in Seq(Int)
    PROVE  TwiceAverageRanks(values) \in [1..Len(values) -> Int]
<1>1. ASSUME NEW v \in DOMAIN values PROVE TwiceAverageRanks(values)[v] \in Int
  <2>1. Lower(values, v) \in SUBSET DOMAIN values /\ Alike(values, v) \in SUBSET DOMAIN values
    BY DEF Lower, Alike
  <2>2. Cardinality(Lower(values, v)) \in Nat /\ Cardinality(Alike(values, v)) \in Nat
    BY <2>1, Counts
  <2> QED
    BY <2>2, RankByCounting
<1>2. TwiceAverageRanks(values) = [v \in DOMAIN values |-> TwiceAverageRanks(values)[v]]
  BY DEF TwiceAverageRanks
<1> HIDE DEF TwiceAverageRanks
<1> QED
  BY <1>1, <1>2, PositionsFinite

-----------------------------------------------------------------------------
(* Statistics: Kendall's tau. *)

LEMMA SignOfProduct ==
    ASSUME NEW a \in Int, NEW b \in Int
    PROVE  /\ a * b > 0 <=> (a > 0 /\ b > 0) \/ (a < 0 /\ b < 0)
           /\ a * b < 0 <=> (a > 0 /\ b < 0) \/ (a < 0 /\ b > 0)
<1>1. CASE a = 0 \/ b = 0
  BY <1>1
<1>2. CASE a > 0 /\ b > 0
  BY <1>2
<1>3. CASE a > 0 /\ b < 0
  <2>1. a * (-b) > 0 /\ a * b = -(a * (-b))
    BY <1>3
  <2> QED
    BY <1>3, <2>1
<1>4. CASE a < 0 /\ b > 0
  <2>1. (-a) * b > 0 /\ a * b = -((-a) * b)
    BY <1>4
  <2> QED
    BY <1>4, <2>1
<1>5. CASE a < 0 /\ b < 0
  <2>1. (-a) * (-b) > 0 /\ a * b = (-a) * (-b)
    BY <1>5
  <2> QED
    BY <1>5, <2>1
<1> QED
  BY <1>1, <1>2, <1>3, <1>4, <1>5

LEMMA ProductsGrow ==
    ASSUME NEW a \in Nat, NEW b \in Int, NEW c \in Int, b <= c
    PROVE  a * b <= a * c
<1>1. PICK k \in Nat : c = b + k
  BY c - b \in Nat, c = b + (c - b)
<1>2. a * k \in Nat /\ a * c = a * b + a * k
  BY <1>1
<1> QED
  BY <1>2

(* Between -u and u as well as -v and v, its square is at most u * v, and  *)
(* that much only at the end of both. *)
LEMMA SquareWithin ==
    ASSUME NEW u \in Nat, NEW v \in Nat, NEW e \in Int,
           -u <= e, e <= u, -v <= e, e <= v
    PROVE  /\ Square(e) <= u * v
           /\ (e > 0 /\ Square(e) = u * v) => (e = u /\ e = v)
<1>1. PICK s \in Nat : (s = e \/ s = -e) /\ s <= u /\ s <= v
  <2>1. CASE e >= 0
    BY <2>1
  <2>2. CASE e < 0
    BY <2>2
  <2> QED
    BY <2>1, <2>2
<1>2. Square(e) = s * s
  BY <1>1 DEF Square
<1>3. s * s <= s * v /\ v * s <= v * u
  BY <1>1, ProductsGrow
<1>4. s * v = v * s /\ u * v = v * u
  OBVIOUS
<1>5. Square(e) <= u * v
  BY <1>2, <1>3, <1>4
<1>6. ASSUME e > 0, Square(e) = u * v PROVE e = u /\ e = v
  <2>1. s = e
    BY <1>1, <1>6
  <2>2. e * v = e * e /\ v * e = v * u
    BY <1>2, <1>3, <1>4, <1>6, <2>1
  <2>3. v <= e
    BY <1>6, <2>2, CancelFactor
  <2>4. v = e
    BY <1>1, <2>1, <2>3
  <2>5. u <= e
    BY <1>6, <2>2, <2>4, CancelFactor
  <2> QED
    BY <1>1, <2>1, <2>4, <2>5
<1> QED
  BY <1>5, <1>6

(* Pairs of differences, f of x and g of y: how many agree in sign.        *)
Agreeing(P, f, g) == {p \in P : f[p] * g[p] > 0}
Opposed(P, f, g) == {p \in P : f[p] * g[p] < 0}
Zeroed(P, f) == {p \in P : f[p] = 0}
Balance(P, f, g) == Cardinality(Agreeing(P, f, g)) - Cardinality(Opposed(P, f, g))
Moving(P, f) == Cardinality(P) - Cardinality(Zeroed(P, f))
SameSigns(P, f, g) ==
    /\ \E p \in P : f[p] # 0
    /\ \A p \in P : (f[p] > 0 <=> g[p] > 0) /\ (f[p] < 0 <=> g[p] < 0)

LEMMA MovingCounts ==
    ASSUME NEW P, IsFiniteSet(P), NEW f
    PROVE  /\ Moving(P, f) = Cardinality({p \in P : f[p] # 0})
           /\ Moving(P, f) \in Nat
<1>1. {p \in P : f[p] # 0} = P \ Zeroed(P, f)
  BY DEF Zeroed
<1>2. P \cap Zeroed(P, f) = Zeroed(P, f)
  BY DEF Zeroed
<1>3. Cardinality(P \ Zeroed(P, f)) = Cardinality(P) - Cardinality(P \cap Zeroed(P, f))
      /\ IsFiniteSet(P \ Zeroed(P, f))
  <2>1. IsFiniteSet(Zeroed(P, f))
    BY FS_Subset DEF Zeroed
  <2> QED
    BY <2>1, FS_Difference
<1> QED
  BY <1>1, <1>2, <1>3, FS_CardinalityType DEF Moving

LEMMA TauOfSigns ==
    ASSUME NEW P, IsFiniteSet(P), NEW f, NEW g, \A p \in P : f[p] \in Int /\ g[p] \in Int
    PROVE  /\ Balance(P, f, g) \in Int /\ Moving(P, f) \in Nat /\ Moving(P, g) \in Nat
           /\ Square(Balance(P, f, g)) <= Moving(P, f) * Moving(P, g)
           /\ (Balance(P, f, g) > 0 /\ Square(Balance(P, f, g)) = Moving(P, f) * Moving(P, g))
                <=> SameSigns(P, f, g)
<1> DEFINE C == Agreeing(P, f, g)
           D == Opposed(P, f, g)
           U == {p \in P : f[p] # 0}
           V == {p \in P : g[p] # 0}
           c == Cardinality(C)
           d == Cardinality(D)
           u == Cardinality(U)
           v == Cardinality(V)
<1>1. \A p \in P : /\ p \in C <=> (f[p] > 0 /\ g[p] > 0) \/ (f[p] < 0 /\ g[p] < 0)
                   /\ p \in D <=> (f[p] > 0 /\ g[p] < 0) \/ (f[p] < 0 /\ g[p] > 0)
  BY SignOfProduct DEF Agreeing, Opposed
<1>2. C \in SUBSET P /\ D \in SUBSET P /\ U \in SUBSET P /\ V \in SUBSET P
  BY DEF Agreeing, Opposed
<1>3. C \cap D = {} /\ C \cup D \subseteq U /\ C \cup D \subseteq V
  BY <1>1, <1>2
<1>4. \A S \in SUBSET P : IsFiniteSet(S) /\ Cardinality(S) \in Nat
  BY FS_Subset, FS_CardinalityType
<1>5. Moving(P, f) = u /\ Moving(P, g) = v /\ Balance(P, f, g) = c - d
  BY MovingCounts DEF Balance
<1>6. SameSigns(P, f, g) <=> (C # {} /\ C = U /\ C = V)
  <2>1. ASSUME SameSigns(P, f, g) PROVE C # {} /\ C = U /\ C = V
    BY <1>1, <1>2, <2>1 DEF SameSigns
  <2>2. ASSUME C # {}, C = U, C = V PROVE SameSigns(P, f, g)
    BY <1>1, <1>2, <2>2 DEF SameSigns
  <2> QED
    BY <2>1, <2>2
<1>7. D \subseteq U \ C
  BY <1>3
<1> HIDE DEF C, D, U, V
<1>8. c \in Nat /\ d \in Nat /\ u \in Nat /\ v \in Nat
  BY <1>2, <1>4
<1>9. c + d <= u /\ c + d <= v
  <2>1. Cardinality(C \cup D) = c + d
    <3>1. Cardinality(C \cup D) = c + d - Cardinality(C \cap D)
      BY <1>2, <1>4, FS_Union
    <3>2. Cardinality(C \cap D) = 0
      BY <1>3, FS_EmptySet
    <3> QED
      BY <1>8, <3>1, <3>2
  <2>2. Cardinality(C \cup D) <= u /\ Cardinality(C \cup D) <= v
    BY <1>2, <1>3, <1>4, FS_Subset
  <2> QED
    BY <2>1, <2>2
<1>10. /\ Square(c - d) <= u * v
       /\ (c - d > 0 /\ Square(c - d) = u * v) => (c - d = u /\ c - d = v)
  BY <1>8, <1>9, SquareWithin
<1>11. (c - d > 0 /\ Square(c - d) = u * v) => (C # {} /\ C = U /\ C = V)
  <2> SUFFICES ASSUME c - d = u, c - d = v, c - d > 0 PROVE C # {} /\ C = U /\ C = V
    BY <1>10
  <2>1. c = u /\ c = v /\ c > 0
    BY <1>8, <1>9
  <2>2. C \in SUBSET U /\ C \in SUBSET V
    BY <1>3
  <2>3. C = U /\ C = V
    BY <1>2, <1>4, <2>1, <2>2, FS_Subset
  <2> QED
    BY <2>1, <2>3, FS_EmptySet
<1>12. (C # {} /\ C = U /\ C = V) => (c - d > 0 /\ Square(c - d) = u * v)
  <2> SUFFICES ASSUME C # {}, C = U, C = V PROVE c - d > 0 /\ Square(c - d) = u * v
    OBVIOUS
  <2>1. D = {}
    BY <1>7
  <2>2. d = 0 /\ c > 0 /\ c = u /\ c = v
    BY <1>2, <1>4, <1>8, <2>1, FS_EmptySet
  <2> QED
    BY <1>8, <2>2 DEF Square
<1> QED
  BY <1>5, <1>6, <1>8, <1>10, <1>11, <1>12

LEMMA SubsampleType ==
    ASSUME NEW n \in Nat
    PROVE  /\ IsFiniteSet(DOMAIN Subsample(n))
           /\ \A i \in DOMAIN Subsample(n) : Subsample(n)[i] \in 1..n
           /\ n <= KendallLimit => Subsample(n) = [i \in 1..n |-> i]
<1> DEFINE K == KendallLimit
<1>1. K \in Nat \ {0} /\ IsFiniteSet(1..n) /\ IsFiniteSet(1..K)
  BY StatisticsAssumption, FS_Interval
<1>2. CASE n <= K
  BY <1>1, <1>2 DEF Subsample
<1>3. CASE n > K
  <2>1. Subsample(n) = [i \in 1..K |-> 1 + ((i - 1) * n) \div K]
    BY <1>1, <1>3 DEF Subsample
  <2>2. ASSUME NEW i \in 1..K PROVE 1 + ((i - 1) * n) \div K \in 1..n
    <3>1. PICK j \in Nat : i - 1 = j /\ j + 1 <= K
      BY i - 1 \in Nat
    <3>2. PICK m \in Nat : m = (i - 1) * n /\ m + n <= n * K
      <4>1. n * (j + 1) <= n * K
        BY <1>1, <3>1, ProductsGrow
      <4>2. n * (j + 1) = (i - 1) * n + n /\ (i - 1) * n \in Nat
        BY <3>1
      <4> QED
        BY <4>1, <4>2
    <3>3. m \div K \in Nat /\ m = K * (m \div K) + (m % K) /\ m % K \in 0..(K - 1)
      BY <1>1, DivisionBounds
    <3>4. m \div K < n
      <4> SUFFICES ASSUME n <= m \div K PROVE FALSE
        BY <3>3
      <4>1. K * n <= K * (m \div K)
        BY <1>1, <3>3, ProductsGrow
      <4>2. K * n = n * K
        BY <1>1
      <4> QED
        BY <1>1, <1>3, <3>2, <3>3, <4>1, <4>2
    <3> QED
      BY <3>2, <3>3, <3>4
  <2>3. DOMAIN Subsample(n) = 1..K /\ \A i \in 1..K : Subsample(n)[i] \in 1..n
    BY <2>1, <2>2
  <2>4. ~(n <= K)
    BY <1>1, <1>3
  <2> QED
    BY <1>1, <2>3, <2>4
<1> QED
  BY <1>1, <1>2, <1>3

(* The pairs of positions KendallTau looks at, and their differences. *)
DrawnPairs(n) ==
    {p \in (DOMAIN Subsample(n)) \X (DOMAIN Subsample(n)) : p[1] < p[2]}

Differences(s) ==
    [p \in DrawnPairs(Len(s)) |-> s[Subsample(Len(s))[p[1]]] - s[Subsample(Len(s))[p[2]]]]

LEMMA DifferencesType ==
    ASSUME NEW s \in Seq(Int)
    PROVE  IsFiniteSet(DrawnPairs(Len(s))) /\ Differences(s) \in [DrawnPairs(Len(s)) -> Int]
<1> DEFINE at == Subsample(Len(s))
<1>1. Len(s) \in Nat /\ DOMAIN s = 1..Len(s)
  OBVIOUS
<1>2. IsFiniteSet(DOMAIN at) /\ \A i \in DOMAIN at : s[at[i]] \in Int
  BY <1>1, SubsampleType
<1>3. IsFiniteSet((DOMAIN at) \X (DOMAIN at))
  BY <1>2, FS_Product
<1>4. IsFiniteSet(DrawnPairs(Len(s)))
  BY <1>3, FS_Subset DEF DrawnPairs
<1>5. \A p \in DrawnPairs(Len(s)) : p[1] \in DOMAIN at /\ p[2] \in DOMAIN at
  BY DEF DrawnPairs
<1> QED
  BY <1>2, <1>4, <1>5 DEF Differences

LEMMA TauCountsSigns ==
    ASSUME NEW x \in Seq(Int), NEW y \in Seq(Int), Len(x) = Len(y)
    PROVE  KendallTau(x, y)
             = Coefficient(Balance(DrawnPairs(Len(x)), Differences(x), Differences(y)),
                           Moving(DrawnPairs(Len(x)), Differences(x))
                             * Moving(DrawnPairs(Len(x)), Differences(y)))
<1> DEFINE at == Subsample(Len(x))
           P == DrawnPairs(Len(x))
           dx(p) == x[at[p[1]]] - x[at[p[2]]]
           dy(p) == y[at[p[1]]] - y[at[p[2]]]
<1>1. \A p \in P : Differences(x)[p] = dx(p) /\ Differences(y)[p] = dy(p)
  BY DEF Differences
<1>2. /\ Agreeing(P, Differences(x), Differences(y)) = {p \in P : dx(p) * dy(p) > 0}
      /\ Opposed(P, Differences(x), Differences(y)) = {p \in P : dx(p) * dy(p) < 0}
      /\ Zeroed(P, Differences(x)) = {p \in P : dx(p) = 0}
      /\ Zeroed(P, Differences(y)) = {p \in P : YTie(dx(p), dy(p))}
  BY <1>1 DEF Agreeing, Opposed, Zeroed, YTie
<1>3. KendallTau(x, y)
        = Coefficient(Cardinality({p \in P : dx(p) * dy(p) > 0})
                        - Cardinality({p \in P : dx(p) * dy(p) < 0}),
                      (Cardinality(P) - Cardinality({p \in P : dx(p) = 0}))
                        * (Cardinality(P) - Cardinality({p \in P : YTie(dx(p), dy(p))})))
  BY DEF KendallTau, DrawnPairs
<1> HIDE DEF P, dx, dy
<1>4. KendallTau(x, y)
        = Coefficient(Balance(P, Differences(x), Differences(y)),
                      Moving(P, Differences(x)) * Moving(P, Differences(y)))
  BY <1>2, <1>3 DEF Balance, Moving
<1> QED
  BY <1>4 DEF P

(* Kendall's tau-b is a correlation: it stays between -1 and 1 before it   *)
(* is clamped, on every pair of series, ties and subsamples included. *)
LEMMA TauWithinOne ==
    ASSUME NEW x \in Seq(Int), NEW y \in Seq(Int), Len(x) = Len(y)
    PROVE  Square(KendallTau(x, y).numerator) <= KendallTau(x, y).square
<1> DEFINE P == DrawnPairs(Len(x))
           f == Differences(x)
           g == Differences(y)
           b == Balance(P, f, g)
           u == Moving(P, f)
           v == Moving(P, g)
           q == u * v
<1>1. IsFiniteSet(P) /\ \A p \in P : f[p] \in Int /\ g[p] \in Int
  BY DifferencesType
<1>2. KendallTau(x, y) = Coefficient(b, q)
  BY TauCountsSigns
<1> HIDE DEF P, f, g
<1>3. b \in Int /\ u \in Nat /\ v \in Nat /\ Square(b) <= u * v
  BY <1>1, TauOfSigns
<1> HIDE DEF b, u, v
<1> QED
  BY <1>2, <1>3 DEF Coefficient, Square

(* A coefficient is 1. *)
IsOne(c) == c.numerator > 0 /\ Square(c.numerator) = c.square

(* Two series that order, and tie, their observations alike, not all tied *)
OrderedAlike(x, y) ==
    /\ Cardinality(ToSet(x)) > 1
    /\ \A i, j \in DOMAIN x : x[i] < x[j] <=> y[i] < y[j]

LEMMA TwoMembers ==
    ASSUME NEW a, NEW b, a # b
    PROVE  IsFiniteSet({a, b}) /\ Cardinality({a, b}) = 2
<1>1. IsFiniteSet({a}) /\ Cardinality({a}) = 1
  BY FS_Singleton
<1>2. {a, b} = {a} \cup {b} /\ b \notin {a}
  OBVIOUS
<1> QED
  BY <1>1, <1>2, FS_AddElement

LEMMA SeveralValues ==
    ASSUME NEW x \in Seq(Int)
    PROVE  Cardinality(ToSet(x)) > 1 <=> \E i, j \in DOMAIN x : x[i] # x[j]
<1>1. IsFiniteSet(ToSet(x))
  <2>1. x \in Surjection(DOMAIN x, ToSet(x))
    BY DEF Surjection, ToSet
  <2> QED
    BY <2>1, PositionsFinite, FS_Surjection
<1>2. ASSUME NEW i \in DOMAIN x, NEW j \in DOMAIN x, x[i] # x[j]
      PROVE  Cardinality(ToSet(x)) > 1
  <2>1. {x[i], x[j]} \in SUBSET ToSet(x)
    BY DEF ToSet
  <2>2. Cardinality({x[i], x[j]}) = 2
    BY <1>2, TwoMembers
  <2> QED
    BY <1>1, <2>1, <2>2, FS_Subset, FS_CardinalityType
<1>3. ASSUME \A i, j \in DOMAIN x : x[i] = x[j]
      PROVE  ~(Cardinality(ToSet(x)) > 1)
  <2>1. CASE ToSet(x) = {}
    BY <2>1, FS_EmptySet
  <2>2. CASE ToSet(x) # {}
    <3>1. PICK i \in DOMAIN x : TRUE
      BY <2>2 DEF ToSet
    <3>2. ToSet(x) = {x[i]}
      BY <1>3, <3>1 DEF ToSet
    <3>3. Cardinality(ToSet(x)) = 1
      BY <3>2, FS_Singleton
    <3> QED
      BY <3>3
  <2> QED
    BY <2>1, <2>2
<1> QED
  BY <1>2, <1>3

LEMMA SignOfDifference ==
    ASSUME NEW a \in Int, NEW c \in Int, NEW d \in Int, NEW e \in Int,
           a < c <=> d < e, c < a <=> e < d
    PROVE  /\ a - c > 0 <=> d - e > 0
           /\ a - c < 0 <=> d - e < 0
  OBVIOUS

LEMMA TauIsOne ==
    ASSUME NEW x \in Seq(Int), NEW y \in Seq(Int), Len(x) = Len(y), Len(x) <= KendallLimit
    PROVE  IsOne(KendallTau(x, y)) <=> OrderedAlike(x, y)
<1> DEFINE P == DrawnPairs(Len(x))
           f == Differences(x)
           g == Differences(y)
           b == Balance(P, f, g)
           u == Moving(P, f)
           v == Moving(P, g)
           q == u * v
<1>1. IsFiniteSet(P) /\ \A p \in P : f[p] \in Int /\ g[p] \in Int
  BY DifferencesType
<1>2. /\ b \in Int /\ u \in Nat /\ v \in Nat /\ Square(b) <= u * v
      /\ (b > 0 /\ Square(b) = u * v) <=> SameSigns(P, f, g)
  <2> HIDE DEF P, f, g
  <2> QED
    BY <1>1, TauOfSigns
<1>3. KendallTau(x, y) = Coefficient(b, q)
  BY TauCountsSigns
<1>4. b > 0 => Square(b) > 0
  BY <1>2 DEF Square
<1>5. SameSigns(P, f, g) <=> OrderedAlike(x, y)
  <2>1. /\ DOMAIN x = 1..Len(x) /\ DOMAIN y = 1..Len(x) /\ Len(x) \in Nat
        /\ \A i \in 1..Len(x) : x[i] \in Int /\ y[i] \in Int
    OBVIOUS
  <2>2. Subsample(Len(x)) = [i \in 1..Len(x) |-> i]
    BY <2>1, SubsampleType
  <2>3. P = {p \in (1..Len(x)) \X (1..Len(x)) : p[1] < p[2]}
    BY <2>2 DEF DrawnPairs
  <2>4. \A p \in P : f[p] = x[p[1]] - x[p[2]] /\ g[p] = y[p[1]] - y[p[2]]
    BY <2>2, <2>3 DEF Differences
  <2> HIDE DEF P, f, g
  <2>5. ASSUME SameSigns(P, f, g) PROVE OrderedAlike(x, y)
    <3>1. \E i, j \in DOMAIN x : x[i] # x[j]
      <4> PICK p \in P : f[p] # 0
        BY <2>5 DEF SameSigns
      <4>1. p[1] \in DOMAIN x /\ p[2] \in DOMAIN x
        BY <2>1, <2>3
      <4>2. x[p[1]] # x[p[2]]
        BY <2>1, <2>4, <4>1
      <4> QED
        BY <4>1, <4>2
    <3>2. ASSUME NEW i \in DOMAIN x, NEW j \in DOMAIN x PROVE x[i] < x[j] <=> y[i] < y[j]
      <4>1. CASE i < j
        <5>1. <<i, j>> \in P
          BY <2>1, <2>3, <4>1
        <5>2. f[<<i, j>>] = x[i] - x[j] /\ g[<<i, j>>] = y[i] - y[j]
          BY <2>4, <5>1
        <5>3. f[<<i, j>>] < 0 <=> g[<<i, j>>] < 0
          BY <2>5, <5>1 DEF SameSigns
        <5> QED
          BY <2>1, <5>2, <5>3
      <4>2. CASE j < i
        <5>1. <<j, i>> \in P
          BY <2>1, <2>3, <4>2
        <5>2. f[<<j, i>>] = x[j] - x[i] /\ g[<<j, i>>] = y[j] - y[i]
          BY <2>4, <5>1
        <5>3. f[<<j, i>>] > 0 <=> g[<<j, i>>] > 0
          BY <2>5, <5>1 DEF SameSigns
        <5> QED
          BY <2>1, <5>2, <5>3
      <4>3. CASE i = j
        BY <2>1, <4>3
      <4> QED
        BY <2>1, <4>1, <4>2, <4>3
    <3> QED
      BY <3>1, <3>2, SeveralValues DEF OrderedAlike
  <2>6. ASSUME OrderedAlike(x, y) PROVE SameSigns(P, f, g)
    <3>1. \E p \in P : f[p] # 0
      <4>1. PICK i \in DOMAIN x, j \in DOMAIN x : x[i] # x[j]
        BY <2>6, SeveralValues DEF OrderedAlike
      <4>2. CASE i < j
        <5>1. <<i, j>> \in P
          BY <2>1, <2>3, <4>2
        <5>2. f[<<i, j>>] = x[i] - x[j]
          BY <2>4, <5>1
        <5> QED
          BY <2>1, <4>1, <5>1, <5>2
      <4>3. CASE j < i
        <5>1. <<j, i>> \in P
          BY <2>1, <2>3, <4>3
        <5>2. f[<<j, i>>] = x[j] - x[i]
          BY <2>4, <5>1
        <5> QED
          BY <2>1, <4>1, <5>1, <5>2
      <4> QED
        BY <2>1, <4>1, <4>2, <4>3
    <3>2. ASSUME NEW p \in P PROVE (f[p] > 0 <=> g[p] > 0) /\ (f[p] < 0 <=> g[p] < 0)
      <4>1. p[1] \in DOMAIN x /\ p[2] \in DOMAIN x
        BY <2>1, <2>3
      <4>2. /\ x[p[1]] < x[p[2]] <=> y[p[1]] < y[p[2]]
            /\ x[p[2]] < x[p[1]] <=> y[p[2]] < y[p[1]]
        BY <2>6, <4>1 DEF OrderedAlike
      <4>3. f[p] = x[p[1]] - x[p[2]] /\ g[p] = y[p[1]] - y[p[2]]
        BY <2>4
      <4>4. x[p[1]] \in Int /\ x[p[2]] \in Int /\ y[p[1]] \in Int /\ y[p[2]] \in Int
        BY <2>1, <4>1
      <4>5. PICK a, c, d, e \in Int :
                   a = x[p[1]] /\ c = x[p[2]] /\ d = y[p[1]] /\ e = y[p[2]]
        BY <4>4
      <4>6. /\ a < c <=> d < e
            /\ c < a <=> e < d
            /\ f[p] = a - c /\ g[p] = d - e
        BY <4>2, <4>3, <4>5
      <4> QED
        BY <4>6, SignOfDifference
    <3> QED
      BY <3>1, <3>2 DEF SameSigns
  <2> QED
    BY <2>5, <2>6
<1> HIDE DEF b, u, v, P, f, g
<1>6. IsOne(KendallTau(x, y)) <=> (b > 0 /\ Square(b) = q)
  BY <1>2, <1>3, <1>4 DEF IsOne, Coefficient
<1> QED
  BY <1>2, <1>5, <1>6

-----------------------------------------------------------------------------
(* Statistics: Pearson's and Spearman's coefficients. *)

LEMMA SumOfNonnegatives ==
    ASSUME NEW S, IsFiniteSet(S), NEW f, \A x \in S : f[x] \in Nat
    PROVE  /\ SumFunctionOnSet(f, S) \in Nat
           /\ \A x \in S : f[x] <= SumFunctionOnSet(f, S)
<1>1. ASSUME NEW T \in SUBSET S PROVE SumFunctionOnSet(f, T) \in Nat
  <2> DEFINE z == [x \in S |-> 0]
  <2>1. IsFiniteSet(T) /\ \A x \in T : z[x] = 0 /\ z[x] \in Int /\ f[x] \in Int /\ z[x] <= f[x]
    BY FS_Subset
  <2> HIDE DEF z
  <2>2. SumFunctionOnSet(z, T) = 0 * Cardinality(T)
    BY <2>1, SumConstant
  <2>3. SumFunctionOnSet(z, T) <= SumFunctionOnSet(f, T)
    BY <2>1, SumAtMostSum
  <2>4. 0 * Cardinality(T) = 0
    BY <2>1, FS_CardinalityType
  <2> QED
    BY <2>1, <2>2, <2>3, <2>4, SumInt
<1>2. ASSUME NEW x \in S PROVE f[x] <= SumFunctionOnSet(f, S)
  <2>1. IsFiniteSet(S \ {x}) /\ x \notin S \ {x} /\ S = (S \ {x}) \cup {x}
    BY FS_Subset
  <2>2. f[x] \in Int /\ \A y \in S \ {x} : f[y] \in Int
    OBVIOUS
  <2>3. SumFunctionOnSet(f, (S \ {x}) \cup {x}) = f[x] + SumFunctionOnSet(f, S \ {x})
    BY <2>1, <2>2, SumAdd
  <2>4. SumFunctionOnSet(f, S \ {x}) \in Nat
    BY <1>1
  <2>5. SumFunctionOnSet(f, S) = f[x] + SumFunctionOnSet(f, S \ {x})
    BY <2>1, <2>3
  <2> HIDE <2>1
  <2> QED
    BY <2>2, <2>4, <2>5
<1> QED
  BY <1>1, <1>2

(* Sums of products *)
Dot(a, b, S) == SumFunctionOnSet([i \in S |-> a[i] * b[i]], S)

LEMMA SquaresNonnegative == ASSUME NEW i \in Int PROVE i * i \in Nat /\ (i * i = 0 => i = 0)
<1>1. CASE i >= 0
  BY <1>1
<1>2. CASE i < 0
  <2>1. (-i) * (-i) \in Nat /\ (-i) * (-i) = i * i /\ (-i) * (-i) > 0
    BY <1>2
  <2> QED
    BY <2>1
<1> QED
  BY <1>1, <1>2

LEMMA DotType ==
    ASSUME NEW S, IsFiniteSet(S), NEW a, NEW b, \A i \in S : a[i] \in Int /\ b[i] \in Int
    PROVE  Dot(a, b, S) \in Int
<1> DEFINE f == [i \in S |-> a[i] * b[i]]
<1>1. \A i \in S : f[i] \in Int
  OBVIOUS
<1> HIDE DEF f
<1>2. SumFunctionOnSet(f, S) \in Int
  BY <1>1, SumInt
<1> QED
  BY <1>2 DEF Dot, f

LEMMA DotSelf ==
    ASSUME NEW S, IsFiniteSet(S), NEW a, \A i \in S : a[i] \in Int
    PROVE  /\ Dot(a, a, S) \in Nat
           /\ Dot(a, a, S) = 0 <=> \A i \in S : a[i] = 0
<1> DEFINE f == [i \in S |-> a[i] * a[i]]
<1>1. \A i \in S : f[i] = a[i] * a[i] /\ f[i] \in Nat /\ (f[i] = 0 => a[i] = 0)
  BY SquaresNonnegative
<1>2. ASSUME \A i \in S : a[i] = 0 PROVE \A i \in S : f[i] = 0
  BY <1>2
<1>3. Dot(a, a, S) = SumFunctionOnSet(f, S)
  BY DEF Dot
<1> HIDE DEF f
<1>4. Dot(a, a, S) \in Nat /\ \A i \in S : f[i] <= Dot(a, a, S)
  BY <1>1, <1>3, SumOfNonnegatives
<1>5. ASSUME \A i \in S : a[i] = 0 PROVE Dot(a, a, S) = 0
  <2>1. SumFunctionOnSet(f, S) = 0 * Cardinality(S)
    BY <1>2, <1>5, SumConstant
  <2>2. 0 * Cardinality(S) = 0
    BY FS_CardinalityType
  <2> QED
    BY <1>3, <2>1, <2>2
<1>6. ASSUME Dot(a, a, S) = 0 PROVE \A i \in S : a[i] = 0
  BY <1>1, <1>4, <1>6
<1> QED
  BY <1>4, <1>5, <1>6

(* Lagrange's identity, of which the inequality of Cauchy and Schwarz is   *)
(* that the left side is not negative. *)
LEMMA SumOfErrors ==
    ASSUME NEW S, IsFiniteSet(S), NEW a, NEW b, \A i \in S : a[i] \in Int /\ b[i] \in Int,
           NEW A \in Int, NEW P \in Int, A = Dot(a, a, S), P = Dot(a, b, S),
           NEW e, \A i \in S : e[i] = A * b[i] - P * a[i]
    PROVE  Dot(e, e, S) = A * (A * Dot(b, b, S) - P * P)
<1> DEFINE B == Dot(b, b, S)
           aa == [i \in S |-> a[i] * a[i]]
           ab == [i \in S |-> a[i] * b[i]]
           bb == [i \in S |-> b[i] * b[i]]
           ee == [i \in S |-> e[i] * e[i]]
           rest == [i \in S |-> (-2 * (A * P)) * ab[i] + (P * P) * aa[i]]
<1>1. /\ SumFunctionOnSet(aa, S) = A /\ SumFunctionOnSet(ab, S) = P
      /\ SumFunctionOnSet(bb, S) = B /\ Dot(e, e, S) = SumFunctionOnSet(ee, S)
  BY DEF Dot
<1>2. \A i \in S : aa[i] = a[i] * a[i] /\ ab[i] = a[i] * b[i] /\ bb[i] = b[i] * b[i]
                   /\ ee[i] = e[i] * e[i]
                   /\ rest[i] = (-2 * (A * P)) * ab[i] + (P * P) * aa[i]
  OBVIOUS
<1>3. \A i \in S : aa[i] \in Int /\ ab[i] \in Int /\ bb[i] \in Int
  OBVIOUS
<1>4. B \in Int
  BY DotType
<1> HIDE DEF B, aa, ab, bb, ee, rest
<1>5. PICK c \in Int, d \in Int, k \in Int : c = -2 * (A * P) /\ d = P * P /\ k = A * A
  OBVIOUS
<1>6. \A i \in S : rest[i] = c * ab[i] + d * aa[i] /\ rest[i] \in Int
  BY <1>2, <1>3, <1>5
<1>7. SumFunctionOnSet(rest, S) = c * P + d * A
  <2>1. SumFunctionOnSet(rest, S)
          = c * SumFunctionOnSet(ab, S) + d * SumFunctionOnSet(aa, S)
    <3>1. \A x \in S : ab[x] \in Int /\ aa[x] \in Int /\ rest[x] = c * ab[x] + d * aa[x]
      BY <1>3, <1>6
    <3> QED
      BY ONLY IsFiniteSet(S), c \in Int, d \in Int, <3>1, SumLinear
  <2> QED
    BY <1>1, <2>1
<1>8. ASSUME NEW i \in S PROVE ee[i] = k * bb[i] + 1 * rest[i]
  <2> DEFINE p == a[i]
             q == b[i]
  <2>1. p \in Int /\ q \in Int
    OBVIOUS
  <2>2. ee[i] = (A * q - P * p) * (A * q - P * p)
    BY <1>2
  <2>3. bb[i] = q * q /\ rest[i] = (-2 * (A * P)) * (p * q) + (P * P) * (p * p)
    BY <1>2
  <2> HIDE DEF p, q
  <2>4. (A * q - P * p) * (A * q - P * p)
          = (A * A) * (q * q) + ((-2 * (A * P)) * (p * q) + (P * P) * (p * p))
    BY <2>1
  <2> QED
    BY <1>5, <1>6, <2>1, <2>2, <2>3, <2>4
<1>9. SumFunctionOnSet(ee, S) = k * B + 1 * SumFunctionOnSet(rest, S)
  BY <1>1, <1>3, <1>6, <1>8, SumLinear
<1>10. k * B + 1 * (c * P + d * A) = A * (A * B - P * P)
  <2>1. k * B + 1 * (c * P + d * A)
          = (A * A) * B + ((-2 * (A * P)) * P + (P * P) * A)
    BY <1>4, <1>5
  <2>2. (A * A) * B + ((-2 * (A * P)) * P + (P * P) * A) = A * (A * B - P * P)
    BY <1>4
  <2> QED
    BY <2>1, <2>2
<1> QED
  BY <1>1, <1>7, <1>9, <1>10 DEF B

LEMMA CauchySchwarz ==
    ASSUME NEW S, IsFiniteSet(S), NEW a, NEW b, \A i \in S : a[i] \in Int /\ b[i] \in Int
    PROVE  /\ Dot(a, b, S) * Dot(a, b, S) <= Dot(a, a, S) * Dot(b, b, S)
           /\ Dot(a, b, S) * Dot(a, b, S) = Dot(a, a, S) * Dot(b, b, S) =>
                 \A i \in S : Dot(a, a, S) * b[i] = Dot(a, b, S) * a[i]
<1> DEFINE A == Dot(a, a, S)
           B == Dot(b, b, S)
           P == Dot(a, b, S)
           e == [i \in S |-> A * b[i] - P * a[i]]
           ab == [i \in S |-> a[i] * b[i]]
<1>1. A \in Nat /\ B \in Nat /\ P \in Int
  BY DotSelf, DotType
<1>2. A = 0 => \A i \in S : a[i] = 0
  BY DotSelf
<1>3. P = SumFunctionOnSet(ab, S) /\ \A i \in S : ab[i] = a[i] * b[i]
  BY DEF Dot
<1>4. A = Dot(a, a, S) /\ B = Dot(b, b, S) /\ P = Dot(a, b, S)
  OBVIOUS
<1> HIDE DEF A, B, P, ab
<1>5. \A i \in S : e[i] = A * b[i] - P * a[i] /\ e[i] \in Int
  BY <1>1
<1> HIDE DEF e
<1>6. Dot(e, e, S) = A * (A * B - P * P)
  BY <1>1, <1>4, <1>5, SumOfErrors
<1>7. Dot(e, e, S) \in Nat /\ (Dot(e, e, S) = 0 => \A i \in S : e[i] = 0)
  BY <1>5, DotSelf
<1>8. CASE A = 0
  <2>1. \A i \in S : ab[i] = 0
    BY <1>2, <1>3, <1>8
  <2>2. P = 0 * Cardinality(S) /\ 0 * Cardinality(S) = 0
    BY <1>3, <2>1, SumConstant, FS_CardinalityType
  <2>3. P * P <= A * B
    BY <1>1, <1>8, <2>2
  <2>4. \A i \in S : A * b[i] = P * a[i]
    BY <1>8, <2>2
  <2> QED
    BY <1>4, <2>3, <2>4
<1>9. CASE A > 0
  <2> DEFINE D == A * B - P * P
  <2>1. D \in Int /\ A * D >= A * 0
    BY <1>1, <1>6, <1>7
  <2> HIDE DEF D
  <2>2. 0 <= D
    BY <1>1, <1>9, <2>1, CancelFactor
  <2>3. P * P <= A * B
    BY <1>1, <2>2 DEF D
  <2>4. ASSUME P * P = A * B PROVE \A i \in S : A * b[i] = P * a[i]
    <3>1. Dot(e, e, S) = 0
      BY <1>1, <1>6, <2>4
    <3>2. \A i \in S : e[i] = 0
      BY <1>7, <3>1
    <3>3. \A i \in S : A * b[i] \in Int /\ P * a[i] \in Int
      BY <1>1
    <3> QED
      BY <1>5, <3>2, <3>3
  <2> QED
    BY <1>4, <2>3, <2>4
<1> QED
  BY <1>1, <1>8, <1>9

(* Deviations from the mean, times the number of observations *)
Deviations(s) == [i \in DOMAIN s |-> Len(s) * s[i] - Sum(s)]

LEMMA DeviationsType ==
    ASSUME NEW s \in Seq(Int)
    PROVE  /\ Sum(s) \in Int
           /\ \A i \in DOMAIN s : /\ Deviations(s)[i] \in Int
                                  /\ Deviations(s)[i] = Len(s) * s[i] - Sum(s)
<1>1. IsFiniteSet(DOMAIN s) /\ \A i \in DOMAIN s : s[i] \in Int
  BY PositionsFinite
<1>2. SumFunctionOnSet(s, DOMAIN s) \in Int
  BY <1>1, SumInt
<1>3. Sum(s) \in Int
  BY <1>2 DEF Sum, SumFunction
<1> QED
  BY <1>1, <1>3 DEF Deviations

LEMMA PearsonIsDot ==
    ASSUME NEW x \in Seq(Int), NEW y \in Seq(Int), Len(x) = Len(y)
    PROVE  Pearson(x, y)
             = Coefficient(Dot(Deviations(x), Deviations(y), DOMAIN x),
                           Dot(Deviations(x), Deviations(x), DOMAIN x)
                             * Dot(Deviations(y), Deviations(y), DOMAIN x))
<1> DEFINE dx == Deviations(x)
           dy == Deviations(y)
           dot(a, b) == Sum([i \in DOMAIN a |-> a[i] * b[i]])
<1>1. DOMAIN dx = DOMAIN x /\ DOMAIN dy = DOMAIN x
  BY PositionsFinite DEF Deviations
<1>2. Pearson(x, y) = Coefficient(dot(dx, dy), dot(dx, dx) * dot(dy, dy))
  BY DEF Pearson, Deviations
<1> HIDE DEF dx, dy
<1>3. /\ dot(dx, dy) = Dot(dx, dy, DOMAIN x) /\ dot(dx, dx) = Dot(dx, dx, DOMAIN x)
      /\ dot(dy, dy) = Dot(dy, dy, DOMAIN x)
  BY <1>1 DEF Dot, Sum, SumFunction
<1> QED
  BY <1>2, <1>3 DEF dx, dy

LEMMA PearsonWithinOne ==
    ASSUME NEW x \in Seq(Int), NEW y \in Seq(Int), Len(x) = Len(y)
    PROVE  Square(Pearson(x, y).numerator) <= Pearson(x, y).square
<1> DEFINE D == DOMAIN x
           dx == Deviations(x)
           dy == Deviations(y)
           p == Dot(dx, dy, D)
           a == Dot(dx, dx, D)
           b == Dot(dy, dy, D)
<1>1. IsFiniteSet(D) /\ \A i \in D : dx[i] \in Int /\ dy[i] \in Int
  BY PositionsFinite, DeviationsType
<1>2. Pearson(x, y) = Coefficient(p, a * b)
  BY PearsonIsDot
<1> HIDE DEF D, dx, dy
<1>3. p \in Int /\ a \in Nat /\ b \in Nat /\ p * p <= a * b
  BY <1>1, DotType, DotSelf, CauchySchwarz
<1> HIDE DEF p, a, b
<1>4. a * b = 0 \/ a * b # 0
  OBVIOUS
<1> QED
  BY <1>2, <1>3, <1>4 DEF Coefficient, Square

LEMMA RanksGrow ==
    ASSUME NEW l1 \in Nat, NEW e1 \in Nat \ {0}, NEW l2 \in Nat, NEW e2 \in Nat \ {0},
           l1 + e1 <= l2
    PROVE  2 * l1 + e1 + 1 < 2 * l2 + e2 + 1
  OBVIOUS

LEMMA SeriesOfFunction ==
    ASSUME NEW n \in Nat, NEW f \in [1..n -> Int]
    PROVE  f \in Seq(Int) /\ Len(f) = n /\ DOMAIN f = 1..n
  OBVIOUS

(* A rank is above another exactly when its value is. *)
LEMMA RanksFollowValues ==
    ASSUME NEW values \in Seq(Int), NEW i \in DOMAIN values, NEW j \in DOMAIN values
    PROVE  TwiceAverageRanks(values)[i] < TwiceAverageRanks(values)[j] <=> values[i] < values[j]
<1> DEFINE r(v) == TwiceAverageRanks(values)[v]
           l(v) == Cardinality(Lower(values, v))
           e(v) == Cardinality(Alike(values, v))
<1>1. ASSUME NEW v \in DOMAIN values
      PROVE  /\ r(v) = 2 * l(v) + e(v) + 1
             /\ IsFiniteSet(Lower(values, v)) /\ IsFiniteSet(Alike(values, v))
             /\ l(v) \in Nat /\ e(v) \in Nat \ {0}
  <2>1. /\ Lower(values, v) \in SUBSET DOMAIN values
        /\ Alike(values, v) \in SUBSET DOMAIN values /\ v \in Alike(values, v)
    BY DEF Lower, Alike
  <2>2. r(v) = 2 * l(v) + e(v) + 1
    BY RankByCounting
  <2>3. Cardinality(Alike(values, v)) # 0
    BY <2>1, Counts, FS_EmptySet
  <2> QED
    BY <2>1, <2>2, <2>3, Counts
<1>2. ASSUME NEW v \in DOMAIN values, NEW w \in DOMAIN values, values[v] < values[w]
      PROVE  r(v) < r(w)
  <2>1. Lower(values, v) \cup Alike(values, v) \in SUBSET Lower(values, w)
    BY <1>2, PositionsFinite DEF Lower, Alike
  <2>2. Lower(values, v) \cap Alike(values, v) = {}
    BY PositionsFinite DEF Lower, Alike
  <2>3. Cardinality(Lower(values, v) \cup Alike(values, v))
          = l(v) + e(v) - Cardinality(Lower(values, v) \cap Alike(values, v))
    BY <1>1, FS_Union
  <2>4. Cardinality(Lower(values, v) \cap Alike(values, v)) = 0
    BY <2>2, FS_EmptySet
  <2>5. Cardinality(Lower(values, v) \cup Alike(values, v)) <= l(w)
    BY <1>1, <2>1, FS_Subset
  <2> HIDE DEF r, l, e
  <2>6. l(v) + e(v) <= l(w)
    BY <1>1, <2>3, <2>4, <2>5
  <2>7. r(v) = 2 * l(v) + e(v) + 1 /\ r(w) = 2 * l(w) + e(w) + 1
        /\ l(v) \in Nat /\ e(v) \in Nat \ {0} /\ l(w) \in Nat /\ e(w) \in Nat \ {0}
    BY <1>1
  <2> QED
    BY <2>6, <2>7, RanksGrow
<1>3. ASSUME values[i] = values[j] PROVE r(i) = r(j)
  <2>1. Lower(values, i) = Lower(values, j) /\ Alike(values, i) = Alike(values, j)
    BY <1>3 DEF Lower, Alike
  <2> QED
    BY <1>1, <2>1
<1> HIDE DEF r, l, e
<1>4. values[i] \in Int /\ values[j] \in Int /\ r(i) \in Int /\ r(j) \in Int
  <2>1. values[i] \in Int /\ values[j] \in Int
    BY PositionsFinite
  <2>2. /\ r(i) = 2 * l(i) + e(i) + 1 /\ l(i) \in Nat /\ e(i) \in Nat
        /\ r(j) = 2 * l(j) + e(j) + 1 /\ l(j) \in Nat /\ e(j) \in Nat
    BY <1>1
  <2> QED
    BY <2>1, <2>2
<1>5. r(i) < r(j) <=> values[i] < values[j]
  BY <1>2, <1>3, <1>4
<1> QED
  BY <1>5 DEF r

LEMMA OrderKept ==
    ASSUME NEW k \in Nat \ {0}, NEW a \in Int, NEW b \in Int, NEW c \in Int
    PROVE  k * a - c < k * b - c <=> a < b
<1>1. ASSUME a < b PROVE k * a - c < k * b - c
  <2>1. k * (a + 1) <= k * b
    BY <1>1, ProductsGrow
  <2> QED
    BY <2>1
<1>2. ASSUME b <= a PROVE k * b <= k * a
  BY <1>2, ProductsGrow
<1> QED
  BY <1>1, <1>2

LEMMA SameOrderSameRanks ==
    ASSUME NEW x \in Seq(Int), NEW y \in Seq(Int), Len(x) = Len(y), OrderedAlike(x, y)
    PROVE  TwiceAverageRanks(x) = TwiceAverageRanks(y)
<1>1. DOMAIN x = DOMAIN y /\ \A i \in DOMAIN x : x[i] \in Int /\ y[i] \in Int
  BY PositionsFinite
<1>2. \A i, j \in DOMAIN x : x[i] < x[j] <=> y[i] < y[j]
  BY DEF OrderedAlike
<1>3. ASSUME NEW v \in DOMAIN x PROVE TwiceAverageRanks(x)[v] = TwiceAverageRanks(y)[v]
  <2>1. Lower(x, v) = Lower(y, v)
    BY <1>1, <1>2 DEF Lower
  <2>2. \A j \in DOMAIN x : x[j] = x[v] <=> y[j] = y[v]
    BY <1>1, <1>2
  <2>3. Alike(x, v) = Alike(y, v)
    BY <1>1, <2>2 DEF Alike
  <2> QED
    BY <1>1, <2>1, <2>3, RankByCounting
<1>4. TwiceAverageRanks(x) \in [DOMAIN x -> Int] /\ TwiceAverageRanks(y) \in [DOMAIN x -> Int]
  BY RanksAreNumbers, PositionsFinite
<1> QED
  BY <1>3, <1>4

(* Two series of ranks are perfectly correlated exactly when they are in   *)
(* the same order, ties included. *)
LEMMA SpearmanIsOne ==
    ASSUME NEW x \in Seq(Int), NEW y \in Seq(Int), Len(x) = Len(y)
    PROVE  /\ Square(Spearman(x, y).numerator) <= Spearman(x, y).square
           /\ IsOne(Spearman(x, y)) <=> OrderedAlike(x, y)
<1> DEFINE n == Len(x)
           D == 1..n
           rx == TwiceAverageRanks(x)
           ry == TwiceAverageRanks(y)
           dx == Deviations(rx)
           dy == Deviations(ry)
           sx == Sum(rx)
           sy == Sum(ry)
           p == Dot(dx, dy, D)
           a == Dot(dx, dx, D)
           b == Dot(dy, dy, D)
<1>1. n \in Nat /\ DOMAIN x = D /\ DOMAIN y = D /\ IsFiniteSet(D) /\ Cardinality(D) = n
      /\ \A i \in D : x[i] \in Int /\ y[i] \in Int
  BY PositionsFinite
<1>2. rx \in [D -> Int] /\ ry \in [D -> Int]
  BY RanksAreNumbers
<1>3. /\ \A i, j \in D : rx[i] < rx[j] <=> x[i] < x[j]
      /\ \A i, j \in D : ry[i] < ry[j] <=> y[i] < y[j]
  BY <1>1, RanksFollowValues
<1>4. Spearman(x, y) = Pearson(rx, ry)
  BY DEF Spearman
<1>5. OrderedAlike(x, y) => rx = ry
  BY SameOrderSameRanks
<1> HIDE DEF rx, ry
<1>6. rx \in Seq(Int) /\ ry \in Seq(Int) /\ Len(rx) = n /\ Len(ry) = n /\ DOMAIN rx = D
      /\ DOMAIN ry = D
  BY <1>1, <1>2, SeriesOfFunction
<1>7. Square(Spearman(x, y).numerator) <= Spearman(x, y).square
  BY <1>4, <1>6, PearsonWithinOne
<1>8. Spearman(x, y) = Coefficient(p, a * b)
  BY <1>4, <1>6, PearsonIsDot
<1>9. sx \in Int /\ sy \in Int
      /\ \A i \in D : dx[i] = n * rx[i] - sx /\ dy[i] = n * ry[i] - sy
  BY <1>6, DeviationsType
<1>10. sx = SumFunctionOnSet(rx, D)
  BY <1>6 DEF Sum, SumFunction
<1>11. rx = ry => p = a /\ b = a
  OBVIOUS
<1> HIDE DEF dx, dy, sx, sy
<1>12. \A i \in D : dx[i] \in Int /\ dy[i] \in Int /\ rx[i] \in Int /\ ry[i] \in Int
  <2> HIDE DEF D, n
  <2>1. n \in Int
    BY <1>1
  <2>2. \A i \in D : rx[i] \in Int /\ ry[i] \in Int
    BY <1>2
  <2> QED
    BY <1>9, <2>1, <2>2
<1>13. p \in Int /\ a \in Nat /\ b \in Nat
       /\ (p * p = a * b => \A i \in D : a * dy[i] = p * dx[i])
       /\ (a = 0 <=> \A i \in D : dx[i] = 0)
  <2>1. IsFiniteSet(D) /\ \A i \in D : dx[i] \in Int /\ dy[i] \in Int
    BY <1>1, <1>12
  <2> HIDE DEF D
  <2>2. p \in Int /\ a \in Nat /\ b \in Nat /\ (a = 0 <=> \A i \in D : dx[i] = 0)
    BY <2>1, DotType, DotSelf
  <2>3. p * p = a * b => \A i \in D : a * dy[i] = p * dx[i]
    BY <2>1, CauchySchwarz
  <2> QED
    BY <2>2, <2>3
<1> HIDE DEF p, a, b
<1>14. ASSUME NEW i \in D, NEW j \in D
       PROVE  /\ dx[i] < dx[j] <=> x[i] < x[j]
              /\ dy[i] < dy[j] <=> y[i] < y[j]
  <2>1. n \in Nat \ {0}
    BY <1>1
  <2>2. /\ rx[i] \in Int /\ rx[j] \in Int /\ ry[i] \in Int /\ ry[j] \in Int
        /\ dx[i] = n * rx[i] - sx /\ dx[j] = n * rx[j] - sx
        /\ dy[i] = n * ry[i] - sy /\ dy[j] = n * ry[j] - sy
    BY <1>9, <1>12
  <2>3. n * rx[i] - sx < n * rx[j] - sx <=> rx[i] < rx[j]
    BY <1>9, <2>1, <2>2, OrderKept
  <2>4. n * ry[i] - sy < n * ry[j] - sy <=> ry[i] < ry[j]
    BY <1>9, <2>1, <2>2, OrderKept
  <2>5. /\ rx[i] < rx[j] <=> x[i] < x[j]
        /\ ry[i] < ry[j] <=> y[i] < y[j]
    BY <1>3
  <2> QED
    BY <2>2, <2>3, <2>4, <2>5
<1> HIDE DEF D, n
<1>15. ASSUME IsOne(Spearman(x, y)) PROVE OrderedAlike(x, y)
  <2>1. p > 0 /\ p * p = a * b
    <3>1. CASE a * b = 0
      BY <1>8, <1>15, <3>1 DEF IsOne, Coefficient
    <3>2. CASE a * b # 0
      BY <1>8, <1>15, <3>2 DEF IsOne, Coefficient, Square
    <3> QED
      BY <3>1, <3>2
  <2>2. a \in Nat \ {0} /\ p \in Nat \ {0}
    <3>1. p * p # 0
      BY <1>13, <2>1, SquaresNonnegative
    <3>2. a # 0
      BY <1>13, <2>1, <3>1
    <3> QED
      BY <1>13, <2>1, <3>2
  <2>3. ASSUME NEW i \in D, NEW j \in D PROVE x[i] < x[j] <=> y[i] < y[j]
    <3>1. a * dy[i] = p * dx[i] /\ a * dy[j] = p * dx[j]
      BY <1>13, <2>1
    <3>2. dx[i] \in Int /\ dx[j] \in Int /\ dy[i] \in Int /\ dy[j] \in Int
      BY <1>12
    <3>3. a * dy[i] - 0 < a * dy[j] - 0 <=> dy[i] < dy[j]
      BY <2>2, <3>2, OrderKept
    <3>4. p * dx[i] - 0 < p * dx[j] - 0 <=> dx[i] < dx[j]
      BY <2>2, <3>2, OrderKept
    <3> QED
      BY <1>14, <3>1, <3>3, <3>4
  <2>4. \E i, j \in D : x[i] # x[j]
    <3> SUFFICES ASSUME \A i, j \in D : x[i] = x[j] PROVE FALSE
      OBVIOUS
    <3>1. PICK i \in D : dx[i] # 0
      BY <1>13, <2>2
    <3>2. ASSUME NEW j \in D PROVE rx[j] = rx[i]
      <4>1. ~(x[i] < x[j]) /\ ~(x[j] < x[i])
        BY <1>1
      <4> QED
        BY <1>3, <1>12, <4>1
    <3>3. sx = rx[i] * n
      BY <1>1, <1>10, <1>12, <3>2, SumConstant
    <3>4. dx[i] = n * rx[i] - rx[i] * n
      BY <1>9, <3>3
    <3> QED
      BY <1>1, <1>12, <3>1, <3>4
  <2> QED
    BY <1>1, <2>3, <2>4, SeveralValues DEF OrderedAlike
<1>16. ASSUME OrderedAlike(x, y) PROVE IsOne(Spearman(x, y))
  <2>1. p = a /\ b = a
    BY <1>5, <1>11, <1>16
  <2>2. PICK i \in D, j \in D : x[i] # x[j]
    BY <1>1, <1>16, SeveralValues DEF OrderedAlike
  <2>3. dx[i] # dx[j]
    <3>1. x[i] < x[j] \/ x[j] < x[i]
      BY <1>1, <2>2
    <3> QED
      BY <1>12, <1>14, <3>1
  <2>4. a \in Nat \ {0}
    BY <1>13, <2>3
  <2>5. a * a # 0
    BY <2>4
  <2> QED
    BY <1>8, <2>1, <2>4, <2>5 DEF IsOne, Coefficient, Square
<1> QED
  BY <1>7, <1>15, <1>16

(* Two series of numbers of the same length, any numbers and any length *)
SeriesArePaired ==
    observations.kind = "pair" =>
        /\ observations.x \in Seq(Int) /\ observations.y \in Seq(Int)
        /\ Len(observations.x) = Len(observations.y)

(* The observations that are model-checked are such series. *)
LEMMA CheckedObservations ==
    ASSUME observations \in Observations \cup {NoObservations}
    PROVE  SeriesArePaired
<1>1. CASE observations \in Pairs
  <2>1. PICK n \in 2..MaxSamples :
             observations \in [kind : {"pair"}, x : [1..n -> 0..MaxValue],
                                               y : [1..n -> 0..MaxValue]]
    BY <1>1 DEF Pairs
  <2>2. observations.x \in [1..n -> Int] /\ observations.y \in [1..n -> Int] /\ n \in Nat
    BY <2>1, StatisticsAssumption
  <2> QED
    BY <2>2, SeriesOfFunction DEF SeriesArePaired
<1>2. CASE observations \in Designs
  <2>1. observations.kind = "design"
    BY <1>2 DEF Designs
  <2> QED
    BY <2>1 DEF SeriesArePaired
<1>3. CASE observations \in Sizes
  <2>1. observations.kind = "size"
    BY <1>3 DEF Sizes
  <2> QED
    BY <2>1 DEF SeriesArePaired
<1>4. CASE observations = NoObservations
  BY <1>4 DEF NoObservations, SeriesArePaired
<1> QED
  BY <1>1, <1>2, <1>3, <1>4 DEF Observations

(* Two algorithms that treat ties in two ways agree about every pair of    *)
(* series: both stay between -1 and 1 before they are clamped, and both    *)
(* are 1 exactly when the series order, and tie, the observations alike.   *)
THEOREM CorrelationsAgree ==
    ASSUME SeriesArePaired
    PROVE  RankCorrelationsAgree
<1> SUFFICES ASSUME NEW x \in Seq(Int), NEW y \in Seq(Int), Len(x) = Len(y),
                    Len(x) <= KendallLimit
             PROVE  LET rho == Spearman(x, y)
                        tau == KendallTau(x, y)
                    IN  /\ Square(rho.numerator) <= rho.square
                        /\ Square(tau.numerator) <= tau.square
                        /\ IsOne(rho) <=> OrderedAlike(x, y)
                        /\ IsOne(tau) <=> OrderedAlike(x, y)
  BY DEF SeriesArePaired, RankCorrelationsAgree, IsOne, OrderedAlike
<1> QED
  BY SpearmanIsOne, TauWithinOne, TauIsOne

-----------------------------------------------------------------------------
(* Statistics: the area under the ROC curve. *)

LEMMA DisjointUnion ==
    ASSUME NEW S, NEW T, IsFiniteSet(S), IsFiniteSet(T), S \cap T = {}
    PROVE  /\ IsFiniteSet(S \cup T)
           /\ Cardinality(S \cup T) = Cardinality(S) + Cardinality(T)
<1>1. /\ IsFiniteSet(S \cup T)
      /\ Cardinality(S \cup T) = Cardinality(S) + Cardinality(T) - Cardinality(S \cap T)
  BY FS_Union
<1>2. Cardinality(S \cap T) = 0
  BY FS_EmptySet
<1>3. Cardinality(S) \in Nat /\ Cardinality(T) \in Nat
  BY FS_CardinalityType
<1> QED
  BY <1>1, <1>2, <1>3

(* A finite set, counted by the values of a function on it. *)
Fibre(h, R, s) == {p \in R : h[p] = s}

LEMMA CountByFibres ==
    ASSUME NEW R, IsFiniteSet(R), NEW S, IsFiniteSet(S), NEW h, \A p \in R : h[p] \in S,
           NEW f, \A s \in S : f[s] = Cardinality(Fibre(h, R, s))
    PROVE  Cardinality(R) = SumFunctionOnSet(f, S)
<1> DEFINE part(U) == {p \in R : h[p] \in U}
           C == {U \in SUBSET S : Cardinality(part(U)) = SumFunctionOnSet(f, U)}
<1>1. {} \in C
  <2>1. part({}) = {}
    OBVIOUS
  <2> QED
    BY <2>1, FS_EmptySet, SumEmpty
<1>2. \A Q \in SUBSET R : IsFiniteSet(Q) /\ Cardinality(Q) \in Nat
  BY FS_Subset, FS_CardinalityType
<1>3. ASSUME NEW s \in S PROVE f[s] \in Int
  <2>1. Fibre(h, R, s) \in SUBSET R
    BY DEF Fibre
  <2>2. Cardinality(Fibre(h, R, s)) \in Nat
    BY <1>2, <2>1
  <2> QED
    BY <2>2
<1>4. ASSUME NEW U \in C, NEW s \in S, s \notin U PROVE U \cup {s} \in C
  <2> DEFINE fibre == Fibre(h, R, s)
  <2>1. IsFiniteSet(U) /\ \A u \in U : f[u] \in Int
    BY <1>3, FS_Subset
  <2>2. part(U \cup {s}) = part(U) \cup fibre /\ part(U) \cap fibre = {}
    BY <1>4 DEF Fibre
  <2>3. part(U) \in SUBSET R /\ fibre \in SUBSET R
    BY DEF Fibre
  <2>4. Cardinality(part(U)) = SumFunctionOnSet(f, U) /\ f[s] = Cardinality(fibre)
    OBVIOUS
  <2> HIDE DEF part, fibre
  <2>5. IsFiniteSet(part(U)) /\ IsFiniteSet(fibre)
        /\ Cardinality(part(U)) \in Nat /\ Cardinality(fibre) \in Nat
    BY <1>2, <2>3
  <2>6. Cardinality(part(U \cup {s})) = Cardinality(part(U)) + Cardinality(fibre)
    BY <2>2, <2>5, DisjointUnion
  <2>7. f[s] \in Int
    BY <1>3
  <2>8. SumFunctionOnSet(f, U \cup {s}) = f[s] + SumFunctionOnSet(f, U)
    BY <1>4, <2>1, <2>7, SumAdd
  <2>9. Cardinality(part(U \cup {s})) = SumFunctionOnSet(f, U \cup {s})
    BY <2>4, <2>5, <2>6, <2>8
  <2> QED
    BY <2>9 DEF C
<1>5. C \in SUBSET (SUBSET S)
  OBVIOUS
<1> HIDE DEF C
<1>6. S \in C
  BY <1>1, <1>4, <1>5, Growing
<1>7. part(S) = R
  OBVIOUS
<1> HIDE DEF part
<1> QED
  BY <1>6, <1>7 DEF C

(* Pairs of a given first member *)
LEMMA CountRow ==
    ASSUME NEW v, NEW T, IsFiniteSet(T)
    PROVE  Cardinality({v} \X T) = Cardinality(T)
<1>1. IsFiniteSet({v}) /\ Cardinality({v}) = 1
  BY FS_Singleton
<1>2. Cardinality({v} \X T) = 1 * Cardinality(T) /\ Cardinality(T) \in Nat
  BY <1>1, FS_Product, FS_CardinalityType
<1> QED
  BY <1>2

(* Pairs, counted by their first member. *)
Row(R, T, v) == {u \in T : <<v, u>> \in R}

LEMMA CountRows ==
    ASSUME NEW S, IsFiniteSet(S), NEW T, IsFiniteSet(T), NEW R \in SUBSET (S \X T),
           NEW f, \A v \in S : f[v] = Cardinality(Row(R, T, v))
    PROVE  Cardinality(R) = SumFunctionOnSet(f, S)
<1> DEFINE h == [p \in R |-> p[1]]
<1>1. IsFiniteSet(R)
  BY FS_Product, FS_Subset
<1>2. \A p \in R : h[p] \in S
  OBVIOUS
<1>3. ASSUME NEW v \in S PROVE f[v] = Cardinality(Fibre(h, R, v))
  <2>1. Fibre(h, R, v) = {v} \X Row(R, T, v)
    BY DEF Fibre, Row
  <2>2. IsFiniteSet(Row(R, T, v))
    BY FS_Subset DEF Row
  <2>3. Cardinality({v} \X Row(R, T, v)) = Cardinality(Row(R, T, v))
    BY <2>2, CountRow
  <2> HIDE DEF h
  <2> QED
    BY <2>1, <2>3
<1>4. \A v \in S : f[v] = Cardinality(Fibre(h, R, v))
  BY <1>3
<1> HIDE DEF h
<1> QED
  BY <1>1, <1>2, <1>4, CountByFibres

(* Of the pairs of one set, each of two members in both orders and each    *)
(* with itself, twice those in order and those equal are all. *)
Falling(O, Z, s) == {p \in O \X Z : s[p[2]] < s[p[1]]}
Level(O, Z, s) == {p \in O \X Z : s[p[2]] = s[p[1]]}

LEMMA PairsInOrder ==
    ASSUME NEW O, IsFiniteSet(O), NEW s, \A v \in O : s[v] \in Int
    PROVE  2 * Cardinality(Falling(O, O, s)) + Cardinality(Level(O, O, s))
             = Cardinality(O) * Cardinality(O)
<1> DEFINE lt == Falling(O, O, s)
           eq == Level(O, O, s)
           gt == {p \in O \X O : s[p[1]] < s[p[2]]}
           swap == [p \in lt |-> <<p[2], p[1]>>]
<1>1. IsFiniteSet(O \X O) /\ Cardinality(O \X O) = Cardinality(O) * Cardinality(O)
  BY FS_Product
<1>2. lt \in SUBSET (O \X O) /\ eq \in SUBSET (O \X O) /\ gt \in SUBSET (O \X O)
  BY DEF Falling, Level
<1>3. \A p \in O \X O : p[1] \in O /\ p[2] \in O /\ p = <<p[1], p[2]>>
  OBVIOUS
<1>4. O \X O = (lt \cup eq) \cup gt /\ lt \cap eq = {} /\ (lt \cup eq) \cap gt = {}
  BY <1>3 DEF Falling, Level
<1>5. swap \in Bijection(lt, gt)
  <2>1. \A p \in lt : swap[p] = <<p[2], p[1]>> /\ swap[p] \in gt
    BY DEF Falling
  <2>2. \A p, q \in lt : swap[p] = swap[q] => p = q
    BY <1>2, <1>3, <2>1
  <2>3. \A q \in gt : \E p \in lt : swap[p] = q
    <3> TAKE q \in gt
    <3>1. <<q[2], q[1]>> \in lt
      BY <1>3 DEF Falling
    <3>2. swap[<<q[2], q[1]>>] = q
      BY <1>2, <1>3, <2>1, <3>1
    <3> QED
      BY <3>1, <3>2
  <2>4. swap \in [lt -> gt]
    BY <2>1
  <2> HIDE DEF lt, gt, swap
  <2>5. swap \in Injection(lt, gt)
    BY <2>2, <2>4 DEF Injection, IsInjective
  <2>6. swap \in Surjection(lt, gt)
    BY <2>3, <2>4 DEF Surjection
  <2> QED
    BY <2>5, <2>6 DEF Bijection
<1> HIDE DEF lt, eq, gt, swap
<1>6. IsFiniteSet(lt) /\ IsFiniteSet(eq) /\ IsFiniteSet(gt)
  BY <1>1, <1>2, FS_Subset
<1>7. Cardinality(gt) = Cardinality(lt)
  BY <1>5, <1>6, FS_Bijection DEF ExistsBijection
<1>8. IsFiniteSet(lt \cup eq) /\ Cardinality(lt \cup eq) = Cardinality(lt) + Cardinality(eq)
  BY <1>4, <1>6, DisjointUnion
<1>9. Cardinality(O \X O) = Cardinality(lt \cup eq) + Cardinality(gt)
  BY <1>4, <1>6, <1>8, DisjointUnion
<1>10. Cardinality(lt) \in Nat /\ Cardinality(eq) \in Nat
  BY <1>6, FS_CardinalityType
<1>11. 2 * Cardinality(lt) + Cardinality(eq) = Cardinality(O) * Cardinality(O)
  BY <1>1, <1>7, <1>8, <1>9, <1>10
<1> QED
  BY <1>11 DEF lt, eq

LEMMA CountParts ==
    ASSUME NEW S, IsFiniteSet(S), NEW O, NEW Z,
           \A x \in S : (x \in O /\ x \notin Z) \/ (x \in Z /\ x \notin O)
    PROVE  Cardinality(S) = Cardinality(S \cap O) + Cardinality(S \cap Z)
<1>1. S = (S \cap O) \cup (S \cap Z) /\ (S \cap O) \cap (S \cap Z) = {}
  OBVIOUS
<1>2. IsFiniteSet(S \cap O) /\ IsFiniteSet(S \cap Z)
  <2>1. S \cap O \in SUBSET S /\ S \cap Z \in SUBSET S
    OBVIOUS
  <2> QED
    BY <2>1, FS_Subset
<1>3. Cardinality((S \cap O) \cup (S \cap Z)) = Cardinality(S \cap O) + Cardinality(S \cap Z)
  BY <1>1, <1>2, DisjointUnion
<1> QED
  BY <1>1, <1>3

LEMMA RankOfParts ==
    ASSUME NEW values \in Seq(Int), NEW O, NEW Z,
           O \cap Z = {}, O \cup Z = DOMAIN values, NEW v \in O
    PROVE  LET lower(Q) == Cardinality(Row(Falling(O, Q, values), Q, v))
               alike(Q) == Cardinality(Row(Level(O, Q, values), Q, v))
           IN  /\ TwiceAverageRanks(values)[v]
                    = 2 * (lower(O) + lower(Z)) + (alike(O) + alike(Z)) + 1
               /\ lower(O) \in Nat /\ lower(Z) \in Nat /\ alike(O) \in Nat /\ alike(Z) \in Nat
<1> DEFINE lower(Q) == Cardinality(Row(Falling(O, Q, values), Q, v))
           alike(Q) == Cardinality(Row(Level(O, Q, values), Q, v))
<1>1. O \in SUBSET DOMAIN values /\ Z \in SUBSET DOMAIN values /\ v \in DOMAIN values
  OBVIOUS
<1>2. /\ lower(O) = Cardinality(Lower(values, v) \cap O)
      /\ lower(Z) = Cardinality(Lower(values, v) \cap Z)
      /\ alike(O) = Cardinality(Alike(values, v) \cap O)
      /\ alike(Z) = Cardinality(Alike(values, v) \cap Z)
  <2>1. /\ Row(Falling(O, O, values), O, v) = Lower(values, v) \cap O
        /\ Row(Level(O, O, values), O, v) = Alike(values, v) \cap O
    BY <1>1 DEF Row, Falling, Level, Lower, Alike
  <2>2. /\ Row(Falling(O, Z, values), Z, v) = Lower(values, v) \cap Z
        /\ Row(Level(O, Z, values), Z, v) = Alike(values, v) \cap Z
    BY <1>1 DEF Row, Falling, Level, Lower, Alike
  <2> QED
    BY <2>1, <2>2
<1>3. Lower(values, v) \in SUBSET DOMAIN values /\ Alike(values, v) \in SUBSET DOMAIN values
  BY DEF Lower, Alike
<1>4. /\ Cardinality(Lower(values, v))
           = Cardinality(Lower(values, v) \cap O) + Cardinality(Lower(values, v) \cap Z)
      /\ Cardinality(Alike(values, v))
           = Cardinality(Alike(values, v) \cap O) + Cardinality(Alike(values, v) \cap Z)
  <2> DEFINE S == Lower(values, v)
             T == Alike(values, v)
  <2>1. IsFiniteSet(S) /\ IsFiniteSet(T)
    BY <1>3, Counts
  <2>2. /\ \A x \in S : (x \in O /\ x \notin Z) \/ (x \in Z /\ x \notin O)
        /\ \A x \in T : (x \in O /\ x \notin Z) \/ (x \in Z /\ x \notin O)
    BY <1>3
  <2> HIDE DEF S, T
  <2>3. Cardinality(S) = Cardinality(S \cap O) + Cardinality(S \cap Z)
    BY ONLY <2>1, <2>2, CountParts
  <2>4. Cardinality(T) = Cardinality(T \cap O) + Cardinality(T \cap Z)
    BY ONLY <2>1, <2>2, CountParts
  <2> QED
    BY <2>3, <2>4 DEF S, T
<1>5. TwiceAverageRanks(values)[v]
        = 2 * Cardinality(Lower(values, v)) + Cardinality(Alike(values, v)) + 1
  BY <1>1, RankByCounting
<1>6. /\ Cardinality(Lower(values, v) \cap O) \in Nat
      /\ Cardinality(Lower(values, v) \cap Z) \in Nat
      /\ Cardinality(Alike(values, v) \cap O) \in Nat
      /\ Cardinality(Alike(values, v) \cap Z) \in Nat
  <2>1. /\ Lower(values, v) \cap O \in SUBSET DOMAIN values
        /\ Lower(values, v) \cap Z \in SUBSET DOMAIN values
        /\ Alike(values, v) \cap O \in SUBSET DOMAIN values
        /\ Alike(values, v) \cap Z \in SUBSET DOMAIN values
    BY <1>3
  <2> QED
    BY <2>1, Counts
<1> QED
  BY <1>2, <1>4, <1>5, <1>6

(* The ranks of the positives add up to what they are among themselves,    *)
(* twice the pairs they win and the pairs in which they tie. *)
LEMMA RankSum ==
    ASSUME NEW values \in Seq(Int), NEW O, NEW Z,
           O \cap Z = {}, O \cup Z = DOMAIN values
    PROVE  SumFunctionOnSet(TwiceAverageRanks(values), O)
             = Cardinality(O) * (Cardinality(O) + 1)
                 + (2 * Cardinality(Falling(O, Z, values)) + Cardinality(Level(O, Z, values)))
<1> DEFINE lo == [v \in O |-> Cardinality(Row(Falling(O, O, values), O, v))]
           lz == [v \in O |-> Cardinality(Row(Falling(O, Z, values), Z, v))]
           eo == [v \in O |-> Cardinality(Row(Level(O, O, values), O, v))]
           ez == [v \in O |-> Cardinality(Row(Level(O, Z, values), Z, v))]
           r == TwiceAverageRanks(values)
           A == Cardinality(Falling(O, O, values))
           B == Cardinality(Falling(O, Z, values))
           C == Cardinality(Level(O, O, values))
           E == Cardinality(Level(O, Z, values))
<1>1. IsFiniteSet(O) /\ IsFiniteSet(Z) /\ Cardinality(O) \in Nat
      /\ \A v \in O : values[v] \in Int
  <2>1. O \in SUBSET DOMAIN values /\ Z \in SUBSET DOMAIN values
    OBVIOUS
  <2> QED
    BY <2>1, Counts, PositionsFinite
<1>2. /\ \A v \in O : lo[v] = Cardinality(Row(Falling(O, O, values), O, v))
      /\ \A v \in O : lz[v] = Cardinality(Row(Falling(O, Z, values), Z, v))
      /\ \A v \in O : eo[v] = Cardinality(Row(Level(O, O, values), O, v))
      /\ \A v \in O : ez[v] = Cardinality(Row(Level(O, Z, values), Z, v))
  OBVIOUS
<1>3. ASSUME NEW v \in O
      PROVE  /\ r[v] = 2 * (lo[v] + lz[v]) + (eo[v] + ez[v]) + 1
             /\ lo[v] \in Nat /\ lz[v] \in Nat /\ eo[v] \in Nat /\ ez[v] \in Nat
  BY RankOfParts
<1>4. /\ Falling(O, O, values) \in SUBSET (O \X O) /\ Falling(O, Z, values) \in SUBSET (O \X Z)
      /\ Level(O, O, values) \in SUBSET (O \X O) /\ Level(O, Z, values) \in SUBSET (O \X Z)
  BY DEF Falling, Level
<1> HIDE DEF lo, lz, eo, ez, r
<1>5. /\ A = SumFunctionOnSet(lo, O) /\ B = SumFunctionOnSet(lz, O)
      /\ C = SumFunctionOnSet(eo, O) /\ E = SumFunctionOnSet(ez, O)
  BY <1>1, <1>2, <1>4, CountRows
<1>6. A \in Int /\ B \in Int /\ C \in Int /\ E \in Int
  BY <1>1, <1>3, <1>5, SumInt
<1>7. 2 * A + C = Cardinality(O) * Cardinality(O)
  BY <1>1, PairsInOrder
<1> HIDE DEF A, B, C, E
<1> DEFINE own == [v \in O |-> 2 * lo[v] + 1 * eo[v]]
           won == [v \in O |-> 2 * lz[v] + 1 * ez[v]]
           both == [v \in O |-> 1 * own[v] + 1 * won[v]]
           one == [v \in O |-> 1]
<1>8. \A v \in O : /\ lo[v] \in Int /\ lz[v] \in Int /\ eo[v] \in Int /\ ez[v] \in Int
                   /\ own[v] = 2 * lo[v] + 1 * eo[v] /\ own[v] \in Int
                   /\ won[v] = 2 * lz[v] + 1 * ez[v] /\ won[v] \in Int
                   /\ both[v] = 1 * own[v] + 1 * won[v] /\ both[v] \in Int
                   /\ one[v] = 1
  <2> TAKE v \in O
  <2>1. lo[v] \in Int /\ lz[v] \in Int /\ eo[v] \in Int /\ ez[v] \in Int
    BY <1>3
  <2>2. own[v] = 2 * lo[v] + 1 * eo[v] /\ own[v] \in Int
    BY <2>1
  <2>3. won[v] = 2 * lz[v] + 1 * ez[v] /\ won[v] \in Int
    BY <2>1
  <2> HIDE DEF own, won
  <2>4. both[v] = 1 * own[v] + 1 * won[v] /\ both[v] \in Int
    BY <2>2, <2>3
  <2> QED
    BY <2>1, <2>2, <2>3, <2>4
<1> HIDE DEF own, won, both, one
<1>9. ASSUME NEW v \in O PROVE r[v] = 1 * both[v] + 1 * one[v]
  <2>1. /\ r[v] = 2 * (lo[v] + lz[v]) + (eo[v] + ez[v]) + 1
        /\ lo[v] \in Int /\ lz[v] \in Int /\ eo[v] \in Int /\ ez[v] \in Int
    BY <1>3, <1>8
  <2>2. both[v] = 1 * (2 * lo[v] + 1 * eo[v]) + 1 * (2 * lz[v] + 1 * ez[v]) /\ one[v] = 1
    BY <1>8
  <2>3. PICK a, b, c, d \in Int : a = lo[v] /\ b = lz[v] /\ c = eo[v] /\ d = ez[v]
    BY <2>1
  <2>4. r[v] = 2 * (a + b) + (c + d) + 1
    BY <2>1, <2>3
  <2>5. both[v] = 1 * (2 * a + 1 * c) + 1 * (2 * b + 1 * d)
    BY <2>2, <2>3
  <2> QED
    BY <2>2, <2>4, <2>5
<1>10. /\ SumFunctionOnSet(own, O) = 2 * A + 1 * C
       /\ SumFunctionOnSet(won, O) = 2 * B + 1 * E
  <2>1. SumFunctionOnSet(own, O) = 2 * SumFunctionOnSet(lo, O) + 1 * SumFunctionOnSet(eo, O)
    BY ONLY <1>1, <1>8, SumLinear
  <2>2. SumFunctionOnSet(won, O) = 2 * SumFunctionOnSet(lz, O) + 1 * SumFunctionOnSet(ez, O)
    BY ONLY <1>1, <1>8, SumLinear
  <2> QED
    BY <1>5, <2>1, <2>2
<1>11. SumFunctionOnSet(both, O)
         = 1 * SumFunctionOnSet(own, O) + 1 * SumFunctionOnSet(won, O)
  BY ONLY <1>1, <1>8, SumLinear
<1>12. SumFunctionOnSet(one, O) = 1 * Cardinality(O)
  BY <1>1, <1>8, SumConstant
<1>13. SumFunctionOnSet(r, O) = 1 * SumFunctionOnSet(both, O) + 1 * SumFunctionOnSet(one, O)
  <2>1. \A v \in O : both[v] \in Int /\ one[v] \in Int /\ r[v] = 1 * both[v] + 1 * one[v]
    BY <1>8, <1>9
  <2> QED
    BY ONLY <1>1, <2>1, SumLinear
<1>14. Cardinality(O) * Cardinality(O) + Cardinality(O) = Cardinality(O) * (Cardinality(O) + 1)
  BY <1>1
<1>15. SumFunctionOnSet(r, O) = Cardinality(O) * (Cardinality(O) + 1) + (2 * B + E)
  BY <1>1, <1>6, <1>7, <1>10, <1>11, <1>12, <1>13, <1>14
<1> QED
  BY <1>15 DEF r, B, E

(* The rank-sum formula counts the pairs of a positive and a negative that *)
(* the scores order rightly, ties by half. *)
LEMMA AucByPairs ==
    ASSUME NEW y \in Seq(Int), NEW scores \in Seq(Int), Len(y) = Len(scores),
           ToSet(y) = {0, 1}
    PROVE  /\ Ones(y) \cap Zeros(y) = {} /\ Ones(y) \cup Zeros(y) = DOMAIN scores
           /\ IsFiniteSet(Ones(y)) /\ IsFiniteSet(Zeros(y))
           /\ Auc(y, scores)
                = Frac(2 * Cardinality(Falling(Ones(y), Zeros(y), scores))
                           + Cardinality(Level(Ones(y), Zeros(y), scores)),
                       2 * Cardinality(Ones(y) \X Zeros(y)))
<1> DEFINE O == Ones(y)
           Z == Zeros(y)
           B == Cardinality(Falling(O, Z, scores))
           E == Cardinality(Level(O, Z, scores))
           pos == Cardinality(O)
           neg == Len(y) - pos
           r == SumFunctionOnSet(TwiceAverageRanks(scores), O)
<1>1. /\ DOMAIN y = DOMAIN scores /\ IsFiniteSet(DOMAIN scores)
      /\ Cardinality(DOMAIN scores) = Len(y) /\ Len(y) \in Nat
  <2>1. DOMAIN y = 1..Len(y) /\ DOMAIN scores = 1..Len(y)
    BY PositionsFinite
  <2> QED
    BY <2>1, PositionsFinite
<1>2. \A i \in DOMAIN y : y[i] = 0 \/ y[i] = 1
  BY DEF ToSet
<1>3. O \cap Z = {} /\ O \cup Z = DOMAIN scores
  BY <1>1, <1>2 DEF Ones, Zeros
<1>4. IsFiniteSet(O) /\ IsFiniteSet(Z)
  <2>1. O \in SUBSET DOMAIN scores /\ Z \in SUBSET DOMAIN scores
    BY <1>3
  <2> QED
    BY <1>1, <2>1, FS_Subset
<1>5. pos \in Nat /\ Cardinality(Z) \in Nat
  BY <1>4, FS_CardinalityType
<1>6. neg = Cardinality(Z)
  <2>1. Cardinality(O \cup Z) = Cardinality(O) + Cardinality(Z)
    BY <1>3, <1>4, DisjointUnion
  <2>2. Cardinality(O \cup Z) = Len(y)
    BY <1>1, <1>3
  <2> HIDE DEF O, Z
  <2> QED
    BY <1>1, <1>5, <2>1, <2>2
<1>7. pos # 0 /\ neg # 0
  <2>1. (\E i \in DOMAIN y : y[i] = 1) /\ \E i \in DOMAIN y : y[i] = 0
    BY DEF ToSet
  <2>2. O # {} /\ Z # {}
    BY <2>1 DEF Ones, Zeros
  <2> QED
    BY <1>4, <1>6, <2>2, FS_EmptySet
<1>8. Cardinality(O \X Z) = pos * Cardinality(Z)
  BY <1>4, FS_Product
<1>9. r = pos * (pos + 1) + (2 * B + E)
  BY <1>3, RankSum
<1>10. B \in Int /\ E \in Int
  <2>1. Falling(O, Z, scores) \in SUBSET (O \X Z) /\ Level(O, Z, scores) \in SUBSET (O \X Z)
    BY DEF Falling, Level
  <2>2. IsFiniteSet(O \X Z)
    BY <1>4, FS_Product
  <2>3. IsFiniteSet(Falling(O, Z, scores)) /\ IsFiniteSet(Level(O, Z, scores))
    BY <2>1, <2>2, FS_Subset
  <2> QED
    BY <2>3, FS_CardinalityType
<1>11. Auc(y, scores) = Frac(r - pos * (pos + 1), 2 * pos * neg)
  BY <1>7 DEF Auc
<1> HIDE DEF O, Z, B, E, pos, neg, r
<1>12. r - pos * (pos + 1) = 2 * B + E
  <2>1. PICK q \in Int : q = pos * (pos + 1)
    BY <1>5
  <2> QED
    BY <1>9, <1>10, <2>1
<1>13. 2 * pos * neg = 2 * Cardinality(O \X Z)
  BY <1>5, <1>6, <1>8
<1>14. Auc(y, scores) = Frac(2 * B + E, 2 * Cardinality(O \X Z))
  BY <1>11, <1>12, <1>13
<1> QED
  BY <1>3, <1>4, <1>14 DEF O, Z, B, E

(* The thresholds, the different scores in descending order. *)
Above(T, t) == {u \in T : u > t}

LEMMA AboveBelow ==
    ASSUME NEW T \in SUBSET Int, IsFiniteSet(T), NEW t \in T
    PROVE  /\ Cardinality(Above(T, t)) \in 0..(Cardinality(T) - 1)
           /\ Cardinality(T) \in Nat
           /\ \A u \in T : u < t => Cardinality(Above(T, t)) < Cardinality(Above(T, u))
<1>1. ASSUME NEW S \in SUBSET T
      PROVE  IsFiniteSet(S) /\ Cardinality(S) \in Nat
  BY FS_Subset, FS_CardinalityType
<1>2. ASSUME NEW S \in SUBSET T, NEW R \in SUBSET S, NEW x \in S, x \notin R
      PROVE  Cardinality(R) < Cardinality(S)
  <2>1. IsFiniteSet(S) /\ Cardinality(S) \in Nat /\ Cardinality(R) \in Nat
    BY <1>1
  <2>2. Cardinality(R) <= Cardinality(S) /\ (Cardinality(S) = Cardinality(R) => S = R)
    BY <2>1, FS_Subset
  <2> QED
    BY <1>2, <2>1, <2>2
<1>3. Above(T, t) \in SUBSET T /\ t \notin Above(T, t)
  BY DEF Above
<1>4. Cardinality(Above(T, t)) \in Nat /\ Cardinality(T) \in Nat
  BY <1>1, <1>3
<1>5. Cardinality(Above(T, t)) < Cardinality(T)
  BY <1>2, <1>3
<1>6. ASSUME NEW u \in T, u < t
      PROVE  Cardinality(Above(T, t)) < Cardinality(Above(T, u))
  <2>1. \A v \in T : v > t => v > u
    BY <1>6
  <2>2. Above(T, u) \in SUBSET T /\ Above(T, t) \in SUBSET Above(T, u)
    BY <2>1 DEF Above
  <2>3. t \in Above(T, u)
    BY <1>6 DEF Above
  <2> QED
    BY <1>2, <1>3, <2>2, <2>3
<1> QED
  BY <1>4, <1>5, <1>6

LEMMA ThresholdsDescend ==
    ASSUME NEW scores \in Seq(Int)
    PROVE  LET T == ToSet(scores)
               at == Thresholds(scores)
           IN  /\ T \in SUBSET Int /\ IsFiniteSet(T) /\ Cardinality(T) \in Nat
               /\ DOMAIN at = 1..Cardinality(T)
               /\ \A k \in DOMAIN at : at[k] \in T
               /\ \A t \in T : /\ 1 + Cardinality(Above(T, t)) \in DOMAIN at
                               /\ at[1 + Cardinality(Above(T, t))] = t
               /\ \A k, j \in DOMAIN at : k < j => at[k] > at[j]
<1> DEFINE T == ToSet(scores)
           at == Thresholds(scores)
           K == Cardinality(T)
           rank == [t \in T |-> 1 + Cardinality(Above(T, t))]
<1>1. T \in SUBSET Int
  BY PositionsFinite DEF ToSet
<1>2. IsFiniteSet(T)
  <2>1. scores \in Surjection(DOMAIN scores, T)
    <3>1. scores \in [DOMAIN scores -> T]
      BY DEF ToSet
    <3>2. \A t \in T : \E i \in DOMAIN scores : scores[i] = t
      BY DEF ToSet
    <3> QED
      BY <3>1, <3>2 DEF Surjection
  <2>2. IsFiniteSet(DOMAIN scores)
    BY PositionsFinite
  <2> QED
    BY <2>1, <2>2, FS_Surjection
<1>3. K \in Nat /\ \A t \in T : Cardinality(Above(T, t)) \in 0..(K - 1)
  <2>1. K \in Nat
    BY <1>2, FS_CardinalityType
  <2>2. ASSUME NEW t \in T PROVE Cardinality(Above(T, t)) \in 0..(K - 1)
    <3> HIDE DEF T
    <3> QED
      BY <1>1, <1>2, AboveBelow
  <2> QED
    BY <2>1, <2>2
<1>4. \A t, u \in T : u < t => Cardinality(Above(T, t)) < Cardinality(Above(T, u))
  <2> HIDE DEF T
  <2> QED
    BY <1>1, <1>2, AboveBelow
<1>5. DOMAIN at = 1..K
      /\ \A k \in 1..K : at[k] = CHOOSE t \in T : Cardinality(Above(T, t)) = k - 1
  BY DEF Thresholds, Above
<1> HIDE DEF T, at, K
<1>6. \A t, u \in T : Cardinality(Above(T, t)) = Cardinality(Above(T, u)) => t = u
  <2> SUFFICES ASSUME NEW t \in T, NEW u \in T,
                      Cardinality(Above(T, t)) = Cardinality(Above(T, u))
               PROVE  t = u
    OBVIOUS
  <2>1. ~(u < t) /\ ~(t < u)
    BY <1>3, <1>4
  <2> QED
    BY <1>1, <2>1
<1>7. rank \in Surjection(T, 1..K)
  <2>1. \A t \in T : rank[t] \in 1..K
    BY <1>3
  <2>2. \A t, u \in T : rank[t] = rank[u] => t = u
    BY <1>3, <1>6
  <2>3. rank \in [T -> 1..K]
    BY <2>1
  <2> HIDE DEF rank
  <2>4. rank \in Injection(T, 1..K)
    BY <2>2, <2>3 DEF Injection, IsInjective
  <2>5. IsFiniteSet(1..K) /\ Cardinality(1..K) = K
    BY <1>3, FS_Interval
  <2> QED
    BY <2>4, <2>5, FS_Injection DEF K
<1>8. \A k \in 1..K : \E t \in T : Cardinality(Above(T, t)) = k - 1
  <2> TAKE k \in 1..K
  <2>1. PICK t \in T : rank[t] = k
    BY <1>7 DEF Surjection
  <2>2. Cardinality(Above(T, t)) = k - 1
    BY <1>3, <2>1
  <2> QED
    BY <2>2
<1>9. \A k \in 1..K : at[k] \in T /\ Cardinality(Above(T, at[k])) = k - 1
  <2> TAKE k \in 1..K
  <2>1. \E t \in T : Cardinality(Above(T, t)) = k - 1
    BY <1>8
  <2>2. at[k] = CHOOSE t \in T : Cardinality(Above(T, t)) = k - 1
    BY <1>5
  <2> QED
    BY <2>1, <2>2
<1>10. ASSUME NEW t \in T
       PROVE  /\ 1 + Cardinality(Above(T, t)) \in 1..K
              /\ at[1 + Cardinality(Above(T, t))] = t
  <2>1. PICK k \in 1..K : k = 1 + Cardinality(Above(T, t))
    BY <1>3
  <2>2. at[k] \in T /\ Cardinality(Above(T, at[k])) = Cardinality(Above(T, t))
    BY <1>3, <1>9, <2>1
  <2> QED
    BY <1>6, <2>1, <2>2
<1>11. ASSUME NEW k \in 1..K, NEW j \in 1..K, k < j
       PROVE  at[k] > at[j]
  <2>1. at[k] \in Int /\ at[j] \in Int
    BY <1>1, <1>9
  <2>2. ~(at[k] < at[j]) /\ at[k] # at[j]
    BY <1>3, <1>4, <1>9, <1>11
  <2> QED
    BY <2>1, <2>2
<1>12. /\ T \in SUBSET Int /\ IsFiniteSet(T) /\ Cardinality(T) \in Nat
       /\ DOMAIN at = 1..Cardinality(T)
       /\ \A k \in DOMAIN at : at[k] \in T
       /\ \A t \in T : /\ 1 + Cardinality(Above(T, t)) \in DOMAIN at
                       /\ at[1 + Cardinality(Above(T, t))] = t
       /\ \A k, j \in DOMAIN at : k < j => at[k] > at[j]
  BY <1>1, <1>2, <1>3, <1>5, <1>9, <1>10, <1>11 DEF K
<1> QED
  BY <1>12 DEF T, at

(* The pairs of a positive and a negative, counted by the threshold the    *)
(* negative's score is. *)
Higher(scores, t) == {s \in DOMAIN scores : scores[s] > t}
Exactly(scores, t) == {s \in DOMAIN scores : scores[s] = t}

WonAt(scores, O, Z, t) ==
    Cardinality(Higher(scores, t) \cap O) * Cardinality(Exactly(scores, t) \cap Z)
TiedAt(scores, O, Z, t) ==
    Cardinality(Exactly(scores, t) \cap O) * Cardinality(Exactly(scores, t) \cap Z)

LEMMA PairsByThreshold ==
    ASSUME NEW scores \in Seq(Int), NEW O \in SUBSET DOMAIN scores,
           NEW Z \in SUBSET DOMAIN scores
    PROVE  LET at == Thresholds(scores)
               won == [k \in DOMAIN at |-> WonAt(scores, O, Z, at[k])]
               tied == [k \in DOMAIN at |-> TiedAt(scores, O, Z, at[k])]
           IN  /\ IsFiniteSet(DOMAIN at)
               /\ Cardinality(Falling(O, Z, scores)) = SumFunctionOnSet(won, DOMAIN at)
               /\ Cardinality(Level(O, Z, scores)) = SumFunctionOnSet(tied, DOMAIN at)
<1> DEFINE at == Thresholds(scores)
           D == DOMAIN at
           f == [k \in D |-> WonAt(scores, O, Z, at[k])]
           g == [k \in D |-> TiedAt(scores, O, Z, at[k])]
           T == ToSet(scores)
           F == Falling(O, Z, scores)
           L == Level(O, Z, scores)
           rank(p) == 1 + Cardinality(Above(T, scores[p[2]]))
           hf == [p \in F |-> rank(p)]
           hl == [p \in L |-> rank(p)]
<1>1. /\ T \in SUBSET Int /\ Cardinality(T) \in Nat /\ D = 1..Cardinality(T)
      /\ \A k \in D : at[k] \in T
      /\ \A t \in T : /\ 1 + Cardinality(Above(T, t)) \in D
                      /\ at[1 + Cardinality(Above(T, t))] = t
      /\ \A k, j \in D : k < j => at[k] > at[j]
  BY ThresholdsDescend
<1>2. IsFiniteSet(D)
  BY <1>1, FS_Interval
<1>3. F \in SUBSET (O \X Z) /\ L \in SUBSET (O \X Z) /\ IsFiniteSet(O \X Z)
  <2>1. IsFiniteSet(O) /\ IsFiniteSet(Z)
    BY Counts
  <2> QED
    BY <2>1, FS_Product DEF Falling, Level
<1>4. IsFiniteSet(F) /\ IsFiniteSet(L)
  BY <1>3, FS_Subset
<1>5. \A k, j \in D : at[k] = at[j] => k = j
  <2> SUFFICES ASSUME NEW k \in D, NEW j \in D, at[k] = at[j] PROVE k = j
    OBVIOUS
  <2>1. k \in Int /\ j \in Int /\ at[k] \in Int /\ ~(at[k] > at[j]) /\ ~(at[j] > at[k])
    BY <1>1
  <2> QED
    BY <1>1, <2>1
<1>6. ASSUME NEW p \in O \X Z
      PROVE  /\ rank(p) \in D
             /\ \A k \in D : rank(p) = k <=> scores[p[2]] = at[k]
  <2>1. scores[p[2]] \in T
    BY DEF ToSet
  <2>2. rank(p) \in D /\ at[rank(p)] = scores[p[2]]
    BY <1>1, <2>1
  <2> QED
    BY <1>5, <2>2
<1> HIDE DEF T, rank
<1>7. ASSUME NEW k \in D
      PROVE  /\ Fibre(hf, F, k) = (Higher(scores, at[k]) \cap O) \X (Exactly(scores, at[k]) \cap Z)
             /\ Fibre(hl, L, k) = (Exactly(scores, at[k]) \cap O) \X (Exactly(scores, at[k]) \cap Z)
  <2>1. \A p \in O \X Z : /\ p[1] \in O /\ p[2] \in Z /\ p = <<p[1], p[2]>>
                          /\ p[1] \in DOMAIN scores /\ p[2] \in DOMAIN scores
    OBVIOUS
  <2>2. \A p \in O \X Z : rank(p) = k <=> scores[p[2]] = at[k]
    BY <1>6
  <2>3. Fibre(hf, F, k) = {p \in O \X Z : scores[p[2]] < scores[p[1]] /\ scores[p[2]] = at[k]}
    BY <2>2 DEF Fibre, Falling
  <2>4. Fibre(hl, L, k) = {p \in O \X Z : scores[p[2]] = scores[p[1]] /\ scores[p[2]] = at[k]}
    BY <2>2 DEF Fibre, Level
  <2>5. {p \in O \X Z : scores[p[2]] < scores[p[1]] /\ scores[p[2]] = at[k]}
          = (Higher(scores, at[k]) \cap O) \X (Exactly(scores, at[k]) \cap Z)
    BY <2>1 DEF Higher, Exactly
  <2>6. {p \in O \X Z : scores[p[2]] = scores[p[1]] /\ scores[p[2]] = at[k]}
          = (Exactly(scores, at[k]) \cap O) \X (Exactly(scores, at[k]) \cap Z)
    BY <2>1 DEF Higher, Exactly
  <2> QED
    BY <2>3, <2>4, <2>5, <2>6
<1>8. ASSUME NEW t
      PROVE  IsFiniteSet(Higher(scores, t) \cap O) /\ IsFiniteSet(Exactly(scores, t) \cap O)
             /\ IsFiniteSet(Exactly(scores, t) \cap Z)
  <2>1. /\ Higher(scores, t) \cap O \in SUBSET DOMAIN scores
        /\ Exactly(scores, t) \cap O \in SUBSET DOMAIN scores
        /\ Exactly(scores, t) \cap Z \in SUBSET DOMAIN scores
    OBVIOUS
  <2> QED
    BY <2>1, Counts
<1>9. ASSUME NEW k \in D
      PROVE  f[k] = Cardinality(Fibre(hf, F, k)) /\ g[k] = Cardinality(Fibre(hl, L, k))
  <2> DEFINE H == Higher(scores, at[k]) \cap O
             Q == Exactly(scores, at[k]) \cap O
             R == Exactly(scores, at[k]) \cap Z
  <2>1. Fibre(hf, F, k) = H \X R /\ Fibre(hl, L, k) = Q \X R
    BY <1>7
  <2>2. IsFiniteSet(H) /\ IsFiniteSet(Q) /\ IsFiniteSet(R)
    BY <1>8
  <2>3. f[k] = Cardinality(H) * Cardinality(R) /\ g[k] = Cardinality(Q) * Cardinality(R)
    BY DEF WonAt, TiedAt
  <2> HIDE DEF H, Q, R
  <2>4. Cardinality(H \X R) = Cardinality(H) * Cardinality(R)
        /\ Cardinality(Q \X R) = Cardinality(Q) * Cardinality(R)
    BY <2>2, FS_Product
  <2> QED
    BY <2>1, <2>3, <2>4
<1>10. (\A p \in F : hf[p] \in D) /\ \A p \in L : hl[p] \in D
  BY <1>3, <1>6
<1> HIDE DEF F, L, hf, hl, f, g, D
<1>11. Cardinality(F) = SumFunctionOnSet(f, D)
  <2>1. \A k \in D : f[k] = Cardinality(Fibre(hf, F, k))
    BY <1>9
  <2> QED
    BY ONLY <1>2, <1>4, <1>10, <2>1, CountByFibres
<1>12. Cardinality(L) = SumFunctionOnSet(g, D)
  <2>1. \A k \in D : g[k] = Cardinality(Fibre(hl, L, k))
    BY <1>9
  <2> QED
    BY ONLY <1>2, <1>4, <1>10, <2>1, CountByFibres
<1> QED
  BY <1>2, <1>11, <1>12 DEF F, L, f, g, D

(* The point before a threshold counts what scores above it. *)
LEMMA RocBefore ==
    ASSUME NEW y \in Seq(Int), NEW scores \in Seq(Int), Len(y) = Len(scores),
           NEW k \in DOMAIN Thresholds(scores)
    PROVE  LET roc == RocPoints(y, scores)
               tp(j) == IF j = 0 THEN 0 ELSE roc[j].tp
               fp(j) == IF j = 0 THEN 0 ELSE roc[j].fp
               over == Higher(scores, Thresholds(scores)[k])
               equal == Exactly(scores, Thresholds(scores)[k])
           IN  /\ tp(k) = Cardinality(over \cap Ones(y)) + Cardinality(equal \cap Ones(y))
               /\ fp(k) = Cardinality(over \cap Zeros(y)) + Cardinality(equal \cap Zeros(y))
               /\ tp(k - 1) = Cardinality(over \cap Ones(y))
               /\ fp(k - 1) = Cardinality(over \cap Zeros(y))
<1> DEFINE T == ToSet(scores)
           at == Thresholds(scores)
           D == DOMAIN at
           roc == RocPoints(y, scores)
           tp(j) == IF j = 0 THEN 0 ELSE roc[j].tp
           fp(j) == IF j = 0 THEN 0 ELSE roc[j].fp
           hit(j) == {s \in DOMAIN scores : scores[s] >= at[j]}
           over == Higher(scores, at[k])
           equal == Exactly(scores, at[k])
<1>1. /\ T \in SUBSET Int /\ Cardinality(T) \in Nat /\ D = 1..Cardinality(T)
      /\ \A j \in D : at[j] \in T
      /\ \A t \in T : /\ 1 + Cardinality(Above(T, t)) \in D
                      /\ at[1 + Cardinality(Above(T, t))] = t
      /\ \A i, j \in D : i < j => at[i] > at[j]
  BY ThresholdsDescend
<1>0. k \in D /\ \A j \in D : j \in Int /\ j >= 1 /\ at[j] \in Int
  <2>1. ASSUME NEW j \in D PROVE j \in 1..Cardinality(T)
    BY <1>1
  <2>2. ASSUME NEW j \in D PROVE at[j] \in Int
    BY <1>1
  <2>3. ASSUME NEW j \in 1..Cardinality(T) PROVE j \in Int /\ j >= 1
    BY <1>1
  <2> QED
    BY <2>1, <2>2, <2>3
<1>2. \A j \in D : roc[j].tp = Cardinality(hit(j) \cap Ones(y))
                   /\ roc[j].fp = Cardinality(hit(j) \cap Zeros(y))
  BY DEF RocPoints
<1>3. \A s \in DOMAIN scores : scores[s] \in Int /\ scores[s] \in T
  BY PositionsFinite DEF ToSet
<1>4. \A s \in DOMAIN scores : \E j \in D : at[j] = scores[s]
  BY <1>1, <1>3
<1> HIDE DEF T, at, roc
<1>5. hit(k) = over \cup equal /\ over \cap equal = {}
  <2>1. at[k] \in Int
    BY <1>0, <1>1
  <2>2. \A s \in DOMAIN scores : /\ scores[s] >= at[k] <=> scores[s] > at[k] \/ scores[s] = at[k]
                                 /\ ~(scores[s] > at[k] /\ scores[s] = at[k])
    BY <1>3, <2>1
  <2> QED
    BY <2>2 DEF Higher, Exactly
<1>6. ASSUME k # 1 PROVE k - 1 \in D /\ hit(k - 1) = over
  <2>1. k - 1 \in D /\ k - 1 < k
    BY <1>0, <1>1, <1>6
  <2>2. at[k - 1] \in Int /\ at[k] \in Int /\ at[k - 1] > at[k]
    BY <1>0, <1>1, <2>1
  <2>3. ASSUME NEW s \in DOMAIN scores
        PROVE  scores[s] >= at[k - 1] <=> scores[s] > at[k]
    <3>1. PICK j \in D : at[j] = scores[s]
      BY <1>4
    <3>2. j \in Int /\ k \in Int /\ at[j] \in Int
      BY <1>0, <1>1
    <3>3. CASE j < k - 1
      <4>1. at[j] > at[k - 1]
        BY <1>0, <1>1, <2>1, <3>3
      <4> QED
        BY <2>2, <3>1, <3>2, <4>1
    <3>4. CASE j = k - 1
      BY <2>2, <3>1, <3>4
    <3>5. CASE j = k
      BY <2>2, <3>1, <3>5
    <3>6. CASE j > k
      <4>1. at[k] > at[j]
        BY <1>0, <1>1, <3>6
      <4> QED
        BY <2>2, <3>1, <3>2, <4>1
    <3> QED
      BY <3>2, <3>3, <3>4, <3>5, <3>6
  <2> QED
    BY <2>1, <2>3 DEF Higher
<1>7. ASSUME k = 1 PROVE over = {}
  <2> SUFFICES ASSUME NEW s \in over PROVE FALSE
    OBVIOUS
  <2>1. s \in DOMAIN scores /\ scores[s] > at[1]
    BY <1>7 DEF Higher
  <2>2. PICK j \in D : at[j] = scores[s]
    BY <1>4, <2>1
  <2>3. at[j] \in Int /\ at[1] \in Int /\ j \in Int /\ j >= 1
    BY <1>0, <1>1, <1>7
  <2>4. CASE j = 1
    BY <2>1, <2>2, <2>3, <2>4
  <2>5. CASE j > 1
    <3>1. at[1] > at[j]
      BY <1>0, <1>1, <1>7, <2>5
    <3> QED
      BY <2>1, <2>2, <2>3, <3>1
  <2> QED
    BY <2>3, <2>4, <2>5
<1>8. ASSUME NEW P
      PROVE  Cardinality(hit(k) \cap P) = Cardinality(over \cap P) + Cardinality(equal \cap P)
  <2>1. over \cap P \in SUBSET DOMAIN scores /\ equal \cap P \in SUBSET DOMAIN scores
    BY DEF Higher, Exactly
  <2>2. IsFiniteSet(over \cap P) /\ IsFiniteSet(equal \cap P)
    BY <2>1, Counts
  <2>3. hit(k) \cap P = (over \cap P) \cup (equal \cap P) /\ (over \cap P) \cap (equal \cap P) = {}
    BY <1>5
  <2> HIDE DEF over, equal, hit
  <2> QED
    BY <2>2, <2>3, DisjointUnion
<1>9. k \in Int /\ k # 0
  BY <1>0, <1>1
<1> HIDE DEF over, equal, hit
<1>10. /\ tp(k) = Cardinality(over \cap Ones(y)) + Cardinality(equal \cap Ones(y))
       /\ fp(k) = Cardinality(over \cap Zeros(y)) + Cardinality(equal \cap Zeros(y))
  BY <1>0, <1>2, <1>8, <1>9
<1>11. tp(k - 1) = Cardinality(over \cap Ones(y)) /\ fp(k - 1) = Cardinality(over \cap Zeros(y))
  <2>1. CASE k = 1
    <3>1. over \cap Ones(y) = {} /\ over \cap Zeros(y) = {}
      BY <1>7, <2>1
    <3>2. Cardinality(over \cap Ones(y)) = 0 /\ Cardinality(over \cap Zeros(y)) = 0
      BY <3>1, FS_EmptySet
    <3>3. k - 1 = 0
      BY <2>1
    <3> QED
      BY <3>2, <3>3
  <2>2. CASE k # 1
    <3>1. k - 1 \in D /\ hit(k - 1) = over /\ k - 1 # 0
      BY <1>6, <1>9, <2>2
    <3> QED
      BY <1>2, <3>1
  <2> QED
    BY <2>1, <2>2
<1> QED
  BY <1>10, <1>11 DEF over, equal, at, roc

(* The trapezoids under the ROC points add up to the same pairs: a         *)
(* threshold's trapezoid holds its negatives against the positives above   *)
(* it, twice, and against those level with it. *)
LEMMA AreaByPairs ==
    ASSUME NEW y \in Seq(Int), NEW scores \in Seq(Int), Len(y) = Len(scores),
           ToSet(y) = {0, 1}
    PROVE  LET roc == RocPoints(y, scores)
               tp(k) == IF k = 0 THEN 0 ELSE roc[k].tp
               fp(k) == IF k = 0 THEN 0 ELSE roc[k].fp
           IN  Sum([k \in DOMAIN roc |-> (fp(k) - fp(k - 1)) * (tp(k) + tp(k - 1))])
                 = 2 * Cardinality(Falling(Ones(y), Zeros(y), scores))
                     + Cardinality(Level(Ones(y), Zeros(y), scores))
<1> DEFINE O == Ones(y)
           Z == Zeros(y)
           at == Thresholds(scores)
           D == DOMAIN at
           roc == RocPoints(y, scores)
           tp(k) == IF k = 0 THEN 0 ELSE roc[k].tp
           fp(k) == IF k = 0 THEN 0 ELSE roc[k].fp
           trapezoid == [k \in DOMAIN roc |-> (fp(k) - fp(k - 1)) * (tp(k) + tp(k - 1))]
           ho(k) == Cardinality(Higher(scores, at[k]) \cap O)
           eo(k) == Cardinality(Exactly(scores, at[k]) \cap O)
           hz(k) == Cardinality(Higher(scores, at[k]) \cap Z)
           ez(k) == Cardinality(Exactly(scores, at[k]) \cap Z)
           f == [k \in D |-> WonAt(scores, O, Z, at[k])]
           g == [k \in D |-> TiedAt(scores, O, Z, at[k])]
<1>1. O \in SUBSET DOMAIN scores /\ Z \in SUBSET DOMAIN scores
  BY AucByPairs
<1>2. ASSUME NEW k \in D
      PROVE  ho(k) \in Nat /\ eo(k) \in Nat /\ hz(k) \in Nat /\ ez(k) \in Nat
  <2>1. /\ Higher(scores, at[k]) \cap O \in SUBSET DOMAIN scores
        /\ Exactly(scores, at[k]) \cap O \in SUBSET DOMAIN scores
        /\ Higher(scores, at[k]) \cap Z \in SUBSET DOMAIN scores
        /\ Exactly(scores, at[k]) \cap Z \in SUBSET DOMAIN scores
    BY <1>1
  <2> QED
    BY <2>1, Counts
<1>3. ASSUME NEW k \in D
      PROVE  /\ tp(k) = ho(k) + eo(k) /\ fp(k) = hz(k) + ez(k)
             /\ tp(k - 1) = ho(k) /\ fp(k - 1) = hz(k)
  BY RocBefore
<1>4. /\ IsFiniteSet(D)
      /\ Cardinality(Falling(O, Z, scores)) = SumFunctionOnSet(f, D)
      /\ Cardinality(Level(O, Z, scores)) = SumFunctionOnSet(g, D)
  BY <1>1, PairsByThreshold
<1>5. DOMAIN roc = D /\ DOMAIN trapezoid = D
  BY DEF RocPoints
<1>6. ASSUME NEW k \in D
      PROVE  /\ f[k] \in Int /\ g[k] \in Int
             /\ trapezoid[k] = 2 * f[k] + 1 * g[k]
  <2>0. f[k] = ho(k) * ez(k) /\ g[k] = eo(k) * ez(k)
    BY DEF WonAt, TiedAt
  <2> HIDE DEF ho, eo, hz, ez
  <2>1. PICK a, b, c, d \in Int : a = ho(k) /\ b = eo(k) /\ c = hz(k) /\ d = ez(k)
    BY <1>2
  <2>2. trapezoid[k] = (fp(k) - fp(k - 1)) * (tp(k) + tp(k - 1))
    BY <1>5
  <2>3. f[k] = a * d /\ g[k] = b * d
    BY <2>0, <2>1
  <2>4. /\ tp(k) = a + b /\ fp(k) = c + d /\ tp(k - 1) = a /\ fp(k - 1) = c
    BY <1>3, <2>1
  <2> HIDE DEF trapezoid, f, g, tp, fp
  <2>5. trapezoid[k] = ((c + d) - c) * ((a + b) + a)
    BY <2>2, <2>4
  <2>6. ((c + d) - c) * ((a + b) + a) = 2 * (a * d) + 1 * (b * d)
    OBVIOUS
  <2> QED
    BY <2>3, <2>5, <2>6
<1> HIDE DEF trapezoid, f, g, D
<1>7. SumFunctionOnSet(trapezoid, D) = 2 * SumFunctionOnSet(f, D) + 1 * SumFunctionOnSet(g, D)
  <2>1. \A k \in D : f[k] \in Int /\ g[k] \in Int /\ trapezoid[k] = 2 * f[k] + 1 * g[k]
    BY <1>6
  <2> QED
    BY ONLY <1>4, <2>1, SumLinear
<1>8. SumFunctionOnSet(g, D) \in Int
  BY <1>4, <1>6, SumInt
<1>9. Sum(trapezoid) = 2 * Cardinality(Falling(O, Z, scores)) + Cardinality(Level(O, Z, scores))
  BY <1>4, <1>5, <1>7, <1>8 DEF Sum, SumFunction
<1> QED
  BY <1>9 DEF trapezoid, O, Z

(* For any labels of two classes and any scores, ties included, the        *)
(* rank-sum AUC is the share of the pairs the scores order rightly and the *)
(* area under the ROC points (_compute_roc). *)
THEOREM RocExact ==
    ASSUME SeriesArePaired
    PROVE  RocIsExact
<1> SUFFICES ASSUME NEW y \in Seq(Int), NEW scores \in Seq(Int), Len(y) = Len(scores),
                    ToSet(y) = {0, 1}
             PROVE  LET cells == Ones(y) \X Zeros(y)
                        won == Cardinality({c \in cells : scores[c[1]] > scores[c[2]]})
                        tied == Cardinality({c \in cells : scores[c[1]] = scores[c[2]]})
                        roc == RocPoints(y, scores)
                        tp(k) == IF k = 0 THEN 0 ELSE roc[k].tp
                        fp(k) == IF k = 0 THEN 0 ELSE roc[k].fp
                        area == Sum([k \in DOMAIN roc |->
                                        (fp(k) - fp(k - 1)) * (tp(k) + tp(k - 1))])
                    IN  /\ Auc(y, scores) = Frac(2 * won + tied, 2 * Cardinality(cells))
                        /\ area = 2 * won + tied
  BY DEF SeriesArePaired, RocIsExact
<1> DEFINE cells == Ones(y) \X Zeros(y)
<1>1. \A c \in cells : c[1] \in DOMAIN scores /\ c[2] \in DOMAIN scores
  BY AucByPairs
<1>2. \A i \in DOMAIN scores : scores[i] \in Int
  BY PositionsFinite
<1>3. \A c \in cells : /\ scores[c[1]] > scores[c[2]] <=> scores[c[2]] < scores[c[1]]
                       /\ scores[c[1]] = scores[c[2]] <=> scores[c[2]] = scores[c[1]]
  BY <1>1, <1>2
<1>4. /\ {c \in cells : scores[c[1]] > scores[c[2]]} = Falling(Ones(y), Zeros(y), scores)
      /\ {c \in cells : scores[c[1]] = scores[c[2]]} = Level(Ones(y), Zeros(y), scores)
  BY <1>3 DEF Falling, Level
<1> QED
  BY <1>4, AucByPairs, AreaByPairs
=============================================================================
