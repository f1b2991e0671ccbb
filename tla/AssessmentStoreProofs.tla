------------------------ MODULE AssessmentStoreProofs ------------------------
(***************************************************************************)
(* Two results about the transactions of AssessmentStore, for any number   *)
(* of them.  Whatever the schedule, the outbox numbers an assessment's     *)
(* events 1, 2, 3, ...  And the transactions implement the atomic handlers *)
(* of AssessmentLifecycle until two of them meet between version check and *)
(* commit, and again once the row has been without a transaction.          *)
(***************************************************************************)
EXTENDS AssessmentStore, AssessmentDomainProofs, FiniteSetTheorems

Busy == {"loaded", "saved", "flushed"}

(* The UPDATE yields a well-typed row. *)
LEMMA UpdatedType ==
    ASSUME TypeOK, NEW t \in Tx
    PROVE  Updated(t) \in Assessment
<1>1. Apply(loaded[t], cmd[t]) \in Assessment
  BY ApplyType DEF TypeOK
<1>2. row \in Assessment
  BY DEF TypeOK
<1> QED
  BY <1>1, <1>2 DEF Updated, Overwrite, Assessment

(* The largest element of 0..n is n. *)
LEMMA MaxOfInterval ==
    ASSUME NEW n \in Nat
    PROVE  MaxOf(0..n) = n
<1>1. \E m \in 0..n : \A k \in 0..n : k <= m
  BY n \in 0..n
<1>2. /\ MaxOf(0..n) \in 0..n
      /\ \A k \in 0..n : k <= MaxOf(0..n)
  BY <1>1 DEF MaxOf
<1> QED
  BY <1>2

-----------------------------------------------------------------------------
(* Row lock and sequence numbers *)

LockHeld == \A t \in Tx : pc[t] = "flushed" <=> lock = t

PendingNumbers ==
    \A t \in Tx :
        /\ pc[t] # "flushed" => pending[t] = <<>>
        /\ \A i \in 1..Len(pending[t]) : pending[t][i] = Len(outbox) + i

OutboxInv == TypeOK /\ LockHeld /\ PendingNumbers /\ OutboxSequence

(* Numbers 1 .. m and the n numbers after them are the numbers up to m + n. *)
LEMMA Intervals ==
    ASSUME NEW m \in Nat, NEW n \in Nat
    PROVE  1..m \cup {m + i : i \in 1..n} \cup {0} = 0..(m + n)
<1>1. ASSUME NEW k \in 0..(m + n)
      PROVE  k \in 1..m \cup {m + i : i \in 1..n} \cup {0}
  <2>1. CASE k \in 0..m
    BY <2>1
  <2>2. CASE k > m
    <3>1. k - m \in 1..n /\ k = m + (k - m)
      BY <2>2
    <3> QED
      BY <3>1
  <2> QED
    BY <2>1, <2>2
<1>2. ASSUME NEW i \in 1..n PROVE m + i \in 0..(m + n)
  OBVIOUS
<1>3. 1..m \subseteq 0..(m + n) /\ 0 \in 0..(m + n)
  OBVIOUS
<1>4. 1..m \cup {m + i : i \in 1..n} \cup {0} \subseteq 0..(m + n)
  BY <1>2, <1>3
<1>5. 0..(m + n) \subseteq 1..m \cup {m + i : i \in 1..n} \cup {0}
  BY <1>1
<1> QED
  BY <1>4, <1>5, Zenon

(* Under the row lock the SELECT sees the numbers 1 .. n exactly. *)
LEMMA VisibleNumbers ==
    ASSUME OutboxInv, NEW t \in Tx
    PROVE  Visible(t) \cup {0} = 0..(Len(outbox) + Len(pending[t]))
<1>1. Len(outbox) \in Nat /\ Len(pending[t]) \in Nat
  BY DEF OutboxInv, TypeOK
<1>2. {outbox[i] : i \in 1..Len(outbox)} = 1..Len(outbox)
  BY DEF OutboxInv, OutboxSequence
<1>3. {pending[t][i] : i \in 1..Len(pending[t])} = {Len(outbox) + i : i \in 1..Len(pending[t])}
  BY DEF OutboxInv, PendingNumbers
<1>4. Visible(t) = 1..Len(outbox) \cup {Len(outbox) + i : i \in 1..Len(pending[t])}
  BY <1>2, <1>3 DEF Visible
<1> QED
  BY <1>1, <1>4, Intervals

(* Ending a transaction keeps the types. *)
LEMMA EndType ==
    ASSUME TypeOK, NEW t \in Tx, End(t)
    PROVE  /\ pc' \in [Tx -> {"idle", "loaded", "saved", "flushed"}]
           /\ cmd' \in [Tx -> Command]
           /\ loaded' \in [Tx -> Assessment]
           /\ expected' \in [Tx -> Nat]
           /\ model' \in [Tx -> Assessment]
           /\ pending' \in [Tx -> Seq(Nat)]
           /\ met' \subseteq Tx
  BY NoCmdType, CreatedType DEF TypeOK, End

(* Every step keeps lock, numbers and types. *)
LEMMA OutboxStep ==
    ASSUME OutboxInv, [Next]_vars
    PROVE  OutboxInv'
<1> USE DEF OutboxInv
<1>1. CASE UNCHANGED vars
  BY <1>1 DEF vars, TypeOK, LockHeld, PendingNumbers, OutboxSequence
<1>2. ASSUME NEW t \in Tx, NEW c \in Command, Load(t, c)
      PROVE  OutboxInv'
  BY <1>2 DEF Load, TypeOK, LockHeld, PendingNumbers, OutboxSequence
<1>3. ASSUME NEW t \in Tx, Save(t)
      PROVE  OutboxInv'
  <2>1. met' \subseteq Tx
    BY <1>3 DEF Save, TypeOK, Open
  <2> QED
    BY <1>3, <2>1 DEF Save, TypeOK, LockHeld, PendingNumbers, OutboxSequence
<1>4. ASSUME NEW t \in Tx, Conflict(t)
      PROVE  OutboxInv'
  <2>1. TypeOK'
    BY <1>4, EndType DEF Conflict, TypeOK
  <2> QED
    BY <1>4, <2>1 DEF Conflict, End, TypeOK, LockHeld, PendingNumbers, OutboxSequence
<1>5. ASSUME NEW t \in Tx, Flush(t)
      PROVE  OutboxInv'
  BY <1>5, StoreAssumption DEF Flush, TypeOK, LockHeld, PendingNumbers, OutboxSequence
<1>6. ASSUME NEW t \in Tx, AppendEvent(t)
      PROVE  OutboxInv'
  <2> DEFINE next == Len(outbox) + Len(pending[t]) + 1
  <2>1. Len(outbox) \in Nat /\ Len(pending[t]) \in Nat /\ next \in Nat
    BY DEF TypeOK
  <2>2. MaxOf(Visible(t) \cup {0}) + 1 = next
    <3>1. Visible(t) \cup {0} = 0..(Len(outbox) + Len(pending[t]))
      BY VisibleNumbers
    <3>2. MaxOf(0..(Len(outbox) + Len(pending[t]))) = Len(outbox) + Len(pending[t])
      BY <2>1, MaxOfInterval
    <3> QED
      BY <3>1, <3>2
  <2>3. pending' = [pending EXCEPT ![t] = Append(pending[t], next)]
    BY <1>6, <2>2 DEF AppendEvent
  <2>4. /\ pc[t] = "flushed"
        /\ UNCHANGED <<row, version, outbox, lock, pc, cmd, loaded, expected, model, met>>
    BY <1>6 DEF AppendEvent, CanAppend
  <2> HIDE DEF next
  <2>5. pending[t] \in Seq(Nat)
    BY DEF TypeOK
  <2>6. /\ Append(pending[t], next) \in Seq(Nat)
        /\ Len(Append(pending[t], next)) = Len(pending[t]) + 1
        /\ \A i \in 1..Len(pending[t]) : Append(pending[t], next)[i] = pending[t][i]
        /\ Append(pending[t], next)[Len(pending[t]) + 1] = next
    BY <2>1, <2>5
  <2>7. TypeOK'
    BY <2>3, <2>4, <2>6 DEF TypeOK
  <2>8. PendingNumbers'
    <3> SUFFICES ASSUME NEW u \in Tx
                 PROVE  /\ pc'[u] # "flushed" => pending'[u] = <<>>
                        /\ \A i \in 1..Len(pending'[u]) : pending'[u][i] = Len(outbox') + i
      BY DEF PendingNumbers
    <3>1. CASE u = t
      <4>1. pending'[u] = Append(pending[t], next)
        BY <2>3, <3>1 DEF TypeOK
      <4>2. \A i \in 1..Len(pending[t]) : Append(pending[t], next)[i] = Len(outbox) + i
        BY <2>6 DEF PendingNumbers
      <4>3. Append(pending[t], next)[Len(pending[t]) + 1] = Len(outbox) + (Len(pending[t]) + 1)
        BY <2>1, <2>6 DEF next
      <4>4. \A i \in 1..(Len(pending[t]) + 1) :
               i \in 1..Len(pending[t]) \/ i = Len(pending[t]) + 1
        BY <2>1
      <4>5. \A i \in 1..(Len(pending[t]) + 1) : Append(pending[t], next)[i] = Len(outbox) + i
        BY <4>2, <4>3, <4>4
      <4> QED
        BY <2>4, <2>6, <3>1, <4>1, <4>5
    <3>2. CASE u # t
      BY <2>3, <2>4, <3>2 DEF PendingNumbers, TypeOK
    <3> QED
      BY <3>1, <3>2
  <2> QED
    BY <2>4, <2>7, <2>8 DEF LockHeld, OutboxSequence
<1>7. ASSUME NEW t \in Tx, Commit(t)
      PROVE  OutboxInv'
  <2>1. /\ pc[t] = "flushed" /\ lock = t /\ lock' = NoTx
        /\ outbox' = outbox \o pending[t]
        /\ row' = Updated(t) /\ version' = expected[t] + 1
        /\ End(t)
    BY <1>7 DEF Commit, LockHeld
  <2>2. outbox \in Seq(Nat) /\ pending[t] \in Seq(Nat)
    BY DEF TypeOK
  <2>3. TypeOK'
    BY <2>1, <2>2, EndType, UpdatedType DEF TypeOK
  <2>4. /\ Len(outbox') = Len(outbox) + Len(pending[t])
        /\ Len(outbox) \in Nat /\ Len(pending[t]) \in Nat
        /\ \A i \in 1..Len(outbox') :
              outbox'[i] = IF i <= Len(outbox) THEN outbox[i] ELSE pending[t][i - Len(outbox)]
    BY <2>1, <2>2
  <2>5. OutboxSequence'
    <3> SUFFICES ASSUME NEW i \in 1..Len(outbox') PROVE outbox'[i] = i
      BY DEF OutboxSequence
    <3>1. CASE i <= Len(outbox)
      BY <2>4, <3>1 DEF OutboxSequence
    <3>2. CASE ~(i <= Len(outbox))
      <4>1. i - Len(outbox) \in 1..Len(pending[t])
        BY <2>4, <3>2
      <4> QED
        BY <2>4, <3>2, <4>1 DEF PendingNumbers
    <3> QED
      BY <3>1, <3>2
  <2>6. LockHeld'
    BY <2>1, StoreAssumption DEF LockHeld, End, TypeOK
  <2>7. \A u \in Tx : pending'[u] = <<>>
    BY <2>1 DEF LockHeld, PendingNumbers, End, TypeOK
  <2>8. PendingNumbers'
    BY <2>7 DEF PendingNumbers
  <2> QED
    BY <2>3, <2>5, <2>6, <2>8
<1>8. ASSUME NEW t \in Tx, Rollback(t)
      PROVE  OutboxInv'
  <2>1. TypeOK'
    BY <1>8, EndType, StoreAssumption DEF Rollback, TypeOK
  <2>2. LockHeld'
    BY <1>8, StoreAssumption DEF Rollback, End, TypeOK, LockHeld
  <2> QED
    BY <1>8, <2>1, <2>2 DEF Rollback, End, TypeOK, PendingNumbers, OutboxSequence
<1> QED
  BY <1>1, <1>2, <1>3, <1>4, <1>5, <1>6, <1>7, <1>8 DEF Next, Step

(* Initially the row has been created and nothing is in flight. *)
LEMMA OutboxInit == Init => OutboxInv
<1> SUFFICES ASSUME Init PROVE OutboxInv
  OBVIOUS
<1>1. TypeOK
  BY NoCmdType, CreatedType DEF Init, TypeOK
<1> QED
  BY <1>1, StoreAssumption DEF Init, OutboxInv, LockHeld, PendingNumbers, OutboxSequence

(* Types, the row lock and the numbering hold in every reachable state. *)
THEOREM OutboxInvariance == Spec => []OutboxInv
  BY OutboxInit, OutboxStep, PTL DEF Spec

(* Type correctness of the transactions. *)
THEOREM TypeCorrect == Spec => []TypeOK
<1>1. OutboxInv => TypeOK
  BY DEF OutboxInv
<1> QED
  BY <1>1, OutboxInvariance, PTL

(* The events of an assessment are numbered without gaps or duplicates,    *)
(* for any number of concurrent transactions and any schedule of them.     *)
THEOREM OutboxNumbering == Spec => []OutboxSequence
<1>1. OutboxInv => OutboxSequence
  BY DEF OutboxInv
<1> QED
  BY <1>1, OutboxInvariance, PTL

-----------------------------------------------------------------------------
(* Until two transactions meet between version check and commit *)

OneOpen == \A t, u \in Open : t = u

\* A transaction was loaded from a row that may have been replaced since, and
\* then the version tells.
LoadedVersion ==
    \A t \in Tx :
        pc[t] \in Busy =>
            /\ Legal(loaded[t], cmd[t])
            /\ expected[t] <= version
            /\ expected[t] = version => loaded[t] = row

CheckedRow ==
    \A t \in Open : expected[t] = version /\ model[t] = row

Serial == OneOpen /\ LoadedVersion /\ CheckedRow

SerialInv == OutboxInv /\ (met = {} => Serial)

(* The UPDATE of an open transaction writes the command's result. *)
LEMMA SerialUpdate ==
    ASSUME SerialInv, met = {}, NEW t \in Tx, t \in Open
    PROVE  /\ Updated(t) = Apply(row, cmd[t])
           /\ Legal(row, cmd[t])
           /\ cmd[t] \in Command
<1>1. loaded[t] = row /\ model[t] = row /\ Legal(row, cmd[t])
  BY DEF SerialInv, Serial, LoadedVersion, CheckedRow, Open, Busy
<1>2. cmd[t] \in Command /\ row \in Assessment
  BY DEF SerialInv, OutboxInv, TypeOK
<1>3. Apply(row, cmd[t]) \in Assessment
  BY <1>2, ApplyType
<1> DEFINE entity == Apply(row, cmd[t])
<1>4. Updated(t) = [ status |-> entity.status,
                     workflow_template_id |-> entity.workflow_template_id,
                     workflow_progress |-> entity.workflow_progress ]
  BY <1>1 DEF Updated, Overwrite
<1>5. entity = [ status |-> entity.status,
                 workflow_template_id |-> entity.workflow_template_id,
                 workflow_progress |-> entity.workflow_progress ]
  BY <1>3 DEF Assessment
<1> QED
  BY <1>1, <1>2, <1>4, <1>5

(* A transaction that ends when all others are idle leaves nothing behind. *)
LEMMA LastOneEnds ==
    ASSUME TypeOK, NEW t \in Tx, End(t), \A u \in Tx \ {t} : pc[u] = "idle"
    PROVE  Serial'
<1>1. \A u \in Tx : pc'[u] = "idle"
  BY DEF End, TypeOK
<1>2. Open' = {} /\ \A u \in Tx : pc'[u] \notin Busy
  BY <1>1 DEF Open, Busy
<1> QED
  BY <1>2 DEF Serial, OneOpen, LoadedVersion, CheckedRow

(* Every step keeps the transactions serial that does not have two of them *)
(* meet.                                                                   *)
LEMMA SerialStep ==
    ASSUME OutboxInv, Serial, [Next]_vars, met' = {}
    PROVE  Serial'
<1>1. OutboxInv' /\ TypeOK /\ TypeOK'
  BY OutboxStep DEF OutboxInv
<1> USE DEF Serial
<1>2. CASE UNCHANGED vars
  BY <1>1, <1>2 DEF vars, OneOpen, LoadedVersion, CheckedRow, Open
<1>3. ASSUME NEW t \in Tx, NEW c \in Command, Load(t, c)
      PROVE  Serial'
  <2>1. Open' = Open /\ t \notin Open
    BY <1>1, <1>3 DEF Load, Open, TypeOK
  <2>2. LoadedVersion'
    BY <1>1, <1>3 DEF Load, LoadedVersion, TypeOK, Busy
  <2> QED
    BY <1>1, <1>3, <2>1, <2>2 DEF Load, OneOpen, CheckedRow, TypeOK
<1>4. ASSUME NEW t \in Tx, Save(t)
      PROVE  Serial'
  <2>1. Open = {}
    BY <1>4 DEF Save
  <2>2. Open' = {t}
    BY <1>1, <1>4, <2>1 DEF Save, Open, TypeOK
  <2>3. LoadedVersion'
    BY <1>1, <1>4 DEF Save, LoadedVersion, TypeOK, Busy
  <2>4. CheckedRow'
    BY <1>1, <1>4, <2>2 DEF Save, VersionMatches, CheckedRow, TypeOK
  <2> QED
    BY <1>1, <2>2, <2>3, <2>4 DEF OneOpen
<1>5. ASSUME NEW t \in Tx, Conflict(t) \/ Rollback(t)
      PROVE  Serial'
  <2>1. /\ End(t)
        /\ UNCHANGED <<row, version>>
    BY <1>5 DEF Conflict, Rollback
  <2>2. \A u \in Tx : u # t => /\ pc'[u] = pc[u] /\ cmd'[u] = cmd[u]
                               /\ loaded'[u] = loaded[u] /\ expected'[u] = expected[u]
                               /\ model'[u] = model[u]
    BY <1>1, <2>1 DEF End, TypeOK
  <2>3. pc'[t] = "idle"
    BY <1>1, <2>1 DEF End, TypeOK
  <2>4. Open' = Open \ {t}
    BY <2>2, <2>3 DEF Open
  <2>5. LoadedVersion'
    BY <2>1, <2>2, <2>3 DEF LoadedVersion, Busy
  <2>6. CheckedRow' /\ OneOpen'
    BY <2>1, <2>2, <2>4 DEF CheckedRow, OneOpen, Open
  <2> QED
    BY <1>1, <2>5, <2>6
<1>6. ASSUME NEW t \in Tx, Flush(t)
      PROVE  Serial'
  <2>1. Open' = Open
    BY <1>1, <1>6 DEF Flush, Open, TypeOK
  <2> QED
    BY <1>1, <1>6, <2>1 DEF Flush, OneOpen, LoadedVersion, CheckedRow, TypeOK, Busy
<1>7. ASSUME NEW t \in Tx, AppendEvent(t)
      PROVE  Serial'
  <2>1. Open' = Open
    BY <1>7 DEF AppendEvent, Open
  <2> QED
    BY <1>1, <1>7, <2>1 DEF AppendEvent, OneOpen, LoadedVersion, CheckedRow
<1>8. ASSUME NEW t \in Tx, Commit(t)
      PROVE  Serial'
  <2>1. /\ End(t) /\ pc[t] = "flushed"
        /\ version' = expected[t] + 1
    BY <1>8 DEF Commit
  <2>2. t \in Open
    BY <2>1 DEF Open
  <2>3. version' = version + 1 /\ version \in Nat
    BY <1>1, <2>1, <2>2 DEF CheckedRow, TypeOK
  <2>4. \A u \in Tx : u # t => /\ pc'[u] = pc[u] /\ cmd'[u] = cmd[u]
                               /\ loaded'[u] = loaded[u] /\ expected'[u] = expected[u]
    BY <1>1, <2>1 DEF End, TypeOK
  <2>5. pc'[t] = "idle"
    BY <1>1, <2>1 DEF End, TypeOK
  <2>6. Open' = {}
    BY <2>2, <2>4, <2>5 DEF Open, OneOpen
  <2>7. LoadedVersion'
    <3> SUFFICES ASSUME NEW u \in Tx, pc'[u] \in Busy
                 PROVE  /\ Legal(loaded'[u], cmd'[u])
                        /\ expected'[u] <= version'
                        /\ expected'[u] # version'
      BY DEF LoadedVersion
    <3>1. u # t /\ pc[u] \in Busy
      BY <2>4, <2>5 DEF Busy
    <3>2. expected[u] \in Nat
      BY <1>1 DEF TypeOK
    <3> QED
      BY <2>3, <2>4, <3>1, <3>2 DEF LoadedVersion
  <2> QED
    BY <1>1, <2>6, <2>7 DEF OneOpen, CheckedRow
<1> QED
  BY <1>2, <1>3, <1>4, <1>5, <1>6, <1>7, <1>8 DEF Next, Step

(* The exception is made when two transactions meet and lasts until the    *)
(* row is without a transaction.                                           *)
LEMMA SerialInvStep ==
    ASSUME SerialInv, [Next]_vars
    PROVE  SerialInv'
<1>1. OutboxInv /\ OutboxInv' /\ TypeOK
  BY OutboxStep DEF SerialInv, OutboxInv
<1>2. CASE met' # {}
  BY <1>1, <1>2 DEF SerialInv
<1>3. CASE met' = {} /\ met = {}
  BY <1>1, <1>3, SerialStep DEF SerialInv
<1>4. CASE met' = {} /\ met # {}
  <2>1. PICK t \in Tx : End(t)
    BY <1>4 DEF Next, Step, Load, Save, Conflict, Flush, AppendEvent, Commit, Rollback, vars
  <2>2. \A u \in Tx \ {t} : pc[u] = "idle"
    BY <1>4, <2>1 DEF End
  <2> QED
    BY <1>1, <2>1, <2>2, LastOneEnds DEF SerialInv
<1> QED
  BY <1>1, <1>2, <1>3, <1>4

(* Transactions stay serial until two of them meet. *)
THEOREM SerialInvariance == Spec => []SerialInv
<1>1. Init => SerialInv
  <2> SUFFICES ASSUME Init PROVE SerialInv
    OBVIOUS
  <2>1. OutboxInv
    BY OutboxInit
  <2>2. Open = {} /\ \A t \in Tx : pc[t] \notin Busy
    BY DEF Init, Open, Busy
  <2> QED
    BY <2>1, <2>2 DEF SerialInv, Serial, OneOpen, LoadedVersion, CheckedRow
<1>2. SerialInv /\ [Next]_vars => SerialInv'
  BY SerialInvStep
<1> QED
  BY <1>1, <1>2, PTL DEF Spec

(* What a checked transaction writes was computed from the current row,    *)
(* unless two transactions have met between check and commit.              *)
THEOREM SerialWrites == Spec => []NoStaleWrite
<1>1. SerialInv => NoStaleWrite
  BY DEF SerialInv, Serial, CheckedRow, LoadedVersion, NoStaleWrite, Open, Busy
<1> QED
  BY <1>1, SerialInvariance, PTL

(* The lifecycle's operators are the domain's: the instance only renames   *)
(* the variable.                                                           *)
LEMMA SameOperators ==
    /\ Lifecycle!Created = Created
    /\ \A a, c : Lifecycle!Legal(a, c) <=> Legal(a, c)
    /\ \A a, c : Lifecycle!Apply(a, c) = Apply(a, c)
<1>1. Lifecycle!Created = Created
  BY DEF Lifecycle!Created, Created, Lifecycle!initialize, initialize, Lifecycle!FreshEntry, FreshEntry
<1>2. ASSUME NEW a, NEW c PROVE Lifecycle!Legal(a, c) <=> Legal(a, c)
  BY DEF Lifecycle!Legal, Legal, Lifecycle!LifecycleOp, LifecycleOp, Lifecycle!StageOp, StageOp,
     Lifecycle!TargetStatus, TargetStatus, Lifecycle!TargetStageStatus, TargetStageStatus,
     Lifecycle!CanTransition, CanTransition, Lifecycle!CanMoveStage, CanMoveStage,
     Lifecycle!CanStartWorkflow, CanStartWorkflow, Lifecycle!CanAdvance, CanAdvance,
     Lifecycle!LEGAL_TRANSITIONS, LEGAL_TRANSITIONS,
     Lifecycle!STAGE_LEGAL_TRANSITIONS, STAGE_LEGAL_TRANSITIONS,
     Lifecycle!all_complete, all_complete, Lifecycle!is_complete, is_complete,
     Lifecycle!required_stage_types, required_stage_types
<1>3. ASSUME NEW a, NEW c PROVE Lifecycle!Apply(a, c) = Apply(a, c)
  BY DEF Lifecycle!Apply, Apply, Lifecycle!LifecycleOp, LifecycleOp, Lifecycle!StageOp, StageOp,
     Lifecycle!TargetStatus, TargetStatus, Lifecycle!TargetStageStatus, TargetStageStatus,
     Lifecycle!move_stage, move_stage, Lifecycle!advance_to, advance_to,
     Lifecycle!start_workflow, start_workflow, Lifecycle!initialize, initialize,
     Lifecycle!FreshEntry, FreshEntry
<1> QED
  BY <1>1, <1>2, <1>3

(* A legal command is a step of the lifecycle. *)
LEMMA CommandIsLifecycleStep ==
    ASSUME NEW c \in Command, Lifecycle!Handle(c)
    PROVE  Lifecycle!Next
<1>1. CASE c \in LifecycleCommand
  BY <1>1 DEF LifecycleCommand, LifecycleOp, Lifecycle!Next, Lifecycle!MarkReady, Lifecycle!Start,
     Lifecycle!Validate, Lifecycle!Report, Lifecycle!Archive, Lifecycle!Cancel
<1>2. CASE c \in StageCommand
  BY <1>2 DEF StageCommand, StageOp, Lifecycle!Next, Lifecycle!ExecuteStage,
     Lifecycle!RecordStageCompletion, Lifecycle!RecordStageFailure
<1>3. CASE c \in StartWorkflowCmd
  BY <1>3 DEF StartWorkflowCmd, Lifecycle!Next, Lifecycle!StartWorkflow
<1>4. CASE c \in AdvanceCmd
  BY <1>4 DEF AdvanceCmd, Lifecycle!Next, Lifecycle!AdvanceAssessment
<1> QED
  BY <1>1, <1>2, <1>3, <1>4 DEF Command

(* A commit outside a meeting is one legal command on the committed row.   *)
THEOREM Refinement == Spec => ImplementsLifecycle
<1>1. Init => Lifecycle!Init
  BY SameOperators DEF Init, Lifecycle!Init
<1>2. SerialInv /\ [Next]_vars => [met = {} => Lifecycle!Next]_row
  <2> SUFFICES ASSUME SerialInv, [Next]_vars, met = {} PROVE [Lifecycle!Next]_row
    OBVIOUS
  <2>1. ASSUME NEW t \in Tx, Commit(t) PROVE Lifecycle!Next
    <3>1. t \in Open /\ row' = Updated(t)
      BY <2>1 DEF Commit, Open
    <3>2. cmd[t] \in Command /\ Lifecycle!Handle(cmd[t])
      <4>1. /\ row' = Apply(row, cmd[t])
            /\ Legal(row, cmd[t])
            /\ cmd[t] \in Command
        BY <3>1, SerialUpdate
      <4> QED
        BY <4>1, SameOperators DEF Lifecycle!Handle
    <3> QED
      BY <3>2, CommandIsLifecycleStep
  <2>2. \/ row' = row
        \/ \E t \in Tx : Commit(t)
    BY DEF Next, Step, Load, Save, Conflict, Flush, AppendEvent, Rollback, vars
  <2> QED
    BY <2>1, <2>2
<1> QED
  BY <1>1, <1>2, SerialInvariance, PTL DEF Spec, ImplementsLifecycle

=============================================================================
