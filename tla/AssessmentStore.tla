--------------------------- MODULE AssessmentStore ---------------------------
(***************************************************************************)
(* The database transaction behind every assessment command handler, for   *)
(* one assessments row and its outbox events:                              *)
(*                                                                         *)
(*   load     repo.get_by_id, then the entity method on the loaded copy    *)
(*   save     repo.save re-selects the row (SQLAlchemy's identity map is   *)
(*            weak and the loaded model is gone), compares versions and    *)
(*            writes the entity into the ORM model                         *)
(*   flush    append_event's SELECT autoflushes: UPDATE ... WHERE id = ?   *)
(*            sets the changed columns only and takes the row lock         *)
(*   append   append_event numbers the event max(sequence_number) + 1      *)
(*   commit   session.commit publishes row and events, frees the lock      *)
(*                                                                         *)
(* PostgreSQL runs at READ COMMITTED: a SELECT sees what is committed when *)
(* it starts, an UPDATE waits for the lock and then overwrites.  The       *)
(* UPDATE carries no version condition, so the version check covers the    *)
(* time from load to save and nothing covers the time from save to commit: *)
(* two transactions may be in that second window together.  The history    *)
(* variable met records which were; no step depends on it.                 *)
(***************************************************************************)
EXTENDS AssessmentDomain, Sequences, FiniteSets

CONSTANTS
    Tx,           \* concurrent handler invocations (reused once they end)
    NoTx,         \* the row lock is free
    MaxEvents     \* bound: outbox events after which no transaction begins

ASSUME StoreAssumption ==
    /\ IsFiniteSet(Tx)
    /\ NoTx \notin Tx
    /\ MaxEvents \in Nat

VARIABLES
    row,        \* the committed columns the domain reads
    version,    \* the committed version column
    outbox,     \* sequence numbers of the committed events, in commit order
    lock,       \* holder of the row lock
    pc,         \* where each transaction is
    cmd,        \* the command each transaction handles
    loaded,     \* the row each transaction loaded ...
    expected,   \* ... and the version it loaded
    model,      \* the row as re-selected by save: what the UPDATE is computed against
    pending,    \* sequence numbers of the transaction's own, uncommitted events
    met         \* history: the transactions that were between save and commit together
                \* with another one, since the row was last without a transaction

vars == <<row, version, outbox, lock, pc, cmd, loaded, expected, model, pending, met>>

Init ==
    /\ row = Created
    /\ version = 0
    /\ outbox = <<1>>
    /\ lock = NoTx
    /\ pc = [t \in Tx |-> "idle"]
    /\ cmd = [t \in Tx |-> NoCmd]
    /\ loaded = [t \in Tx |-> Created]
    /\ expected = [t \in Tx |-> 0]
    /\ model = [t \in Tx |-> Created]
    /\ pending = [t \in Tx |-> <<>>]
    /\ met = {}

-----------------------------------------------------------------------------
EventCount(c) == IF c.op = "start_workflow" THEN 2 ELSE 1

Open == {t \in Tx : pc[t] \in {"saved", "flushed"}}

\* The transaction is over: its session is closed and its slot is free.
End(t) ==
    /\ pc' = [pc EXCEPT ![t] = "idle"]
    /\ cmd' = [cmd EXCEPT ![t] = NoCmd]
    /\ loaded' = [loaded EXCEPT ![t] = Created]
    /\ expected' = [expected EXCEPT ![t] = 0]
    /\ model' = [model EXCEPT ![t] = Created]
    /\ pending' = [pending EXCEPT ![t] = <<>>]
    /\ met' = IF \A u \in Tx \ {t} : pc[u] = "idle" THEN {} ELSE met

\* A command the entity refuses raises before anything is written: no step.
Load(t, c) ==
    /\ pc[t] = "idle"
    /\ Len(outbox) < MaxEvents
    /\ Legal(row, c)
    /\ pc' = [pc EXCEPT ![t] = "loaded"]
    /\ cmd' = [cmd EXCEPT ![t] = c]
    /\ loaded' = [loaded EXCEPT ![t] = row]
    /\ expected' = [expected EXCEPT ![t] = version]
    /\ UNCHANGED <<row, version, outbox, lock, model, pending, met>>

\* Faulty variant: save does not compare versions.
VersionUnchecked(t) == TRUE

VersionMatches(t) == version = expected[t]

Save(t) ==
    /\ pc[t] = "loaded"
    /\ VersionMatches(t)
    /\ pc' = [pc EXCEPT ![t] = "saved"]
    /\ model' = [model EXCEPT ![t] = row]
    /\ met' = IF Open = {} THEN met ELSE met \cup Open \cup {t}
    /\ UNCHANGED <<row, version, outbox, lock, cmd, loaded, expected, pending>>

\* save raises OptimisticConcurrencyError.
Conflict(t) ==
    /\ pc[t] = "loaded"
    /\ ~VersionMatches(t)
    /\ End(t)
    /\ UNCHANGED <<row, version, outbox, lock>>

Flush(t) ==
    /\ pc[t] = "saved"
    /\ lock = NoTx
    /\ lock' = t
    /\ pc' = [pc EXCEPT ![t] = "flushed"]
    /\ UNCHANGED <<row, version, outbox, cmd, loaded, expected, model, pending, met>>

MaxOf(S) == CHOOSE m \in S : \A n \in S : n <= m

\* Sequence numbers this transaction's SELECT max(...) sees: the committed
\* ones and its own.
Visible(t) ==
    {outbox[i] : i \in 1..Len(outbox)} \cup {pending[t][i] : i \in 1..Len(pending[t])}

\* Faulty variant: events are numbered before the UPDATE is flushed.
CanAppendUnflushed(t) == pc[t] \in {"saved", "flushed"}

CanAppend(t) == pc[t] = "flushed"

AppendEvent(t) ==
    /\ CanAppend(t)
    /\ Len(pending[t]) < EventCount(cmd[t])
    /\ pending' = [pending EXCEPT ![t] = Append(pending[t], MaxOf(Visible(t) \cup {0}) + 1)]
    /\ UNCHANGED <<row, version, outbox, lock, pc, cmd, loaded, expected, model, met>>

\* The row after the UPDATE of transaction t.
Updated(t) == Overwrite(row, model[t], Apply(loaded[t], cmd[t]), cmd[t])

Commit(t) ==
    /\ pc[t] = "flushed"
    /\ Len(pending[t]) = EventCount(cmd[t])
    /\ row' = Updated(t)
    /\ version' = expected[t] + 1
    /\ outbox' = outbox \o pending[t]
    /\ lock' = NoTx
    /\ End(t)

\* Faulty variant: a transaction that ends keeps the row lock.
RollbackKeepsLock(t) ==
    /\ pc[t] # "idle"
    /\ End(t)
    /\ UNCHANGED <<row, version, outbox, lock>>

\* The process dies, the connection drops or the database raises: rollback.
Rollback(t) ==
    /\ pc[t] # "idle"
    /\ lock' = IF lock = t THEN NoTx ELSE lock
    /\ End(t)
    /\ UNCHANGED <<row, version, outbox>>

Step(t) == Save(t) \/ Conflict(t) \/ Flush(t) \/ AppendEvent(t) \/ Commit(t)

Next ==
    \E t \in Tx :
        \/ \E c \in Command : Load(t, c)
        \/ Step(t)
        \/ Rollback(t)

Spec == Init /\ [][Next]_vars

\* A session that was opened goes on: its statements run, and PostgreSQL
\* serves the waiters of a row lock in turn, so a waiter is not overtaken
\* for ever (strong fairness of Flush).  Nothing forces a new command or a
\* rollback.
FairSpec == Spec /\ \A t \in Tx : WF_vars(Step(t)) /\ SF_vars(Flush(t))

-----------------------------------------------------------------------------
TypeOK ==
    /\ row \in Assessment
    /\ version \in Nat
    /\ outbox \in Seq(Nat)
    /\ lock \in Tx \cup {NoTx}
    /\ pc \in [Tx -> {"idle", "loaded", "saved", "flushed"}]
    /\ cmd \in [Tx -> Command]
    /\ loaded \in [Tx -> Assessment]
    /\ expected \in [Tx -> Nat]
    /\ model \in [Tx -> Assessment]
    /\ pending \in [Tx -> Seq(Nat)]
    /\ met \subseteq Tx

(* append_event's "next monotonic sequence number for this specific        *)
(* aggregate instance": the events of an assessment are numbered 1, 2, 3,  *)
(* ... in commit order, without a gap or a duplicate, although no          *)
(* constraint of the outbox table says so and the number is computed by a  *)
(* plain SELECT max.  What makes it true is that the UPDATE is flushed,    *)
(* and the row locked, before the SELECT runs.                             *)
OutboxSequence == \A i \in 1..Len(outbox) : outbox[i] = i

(* Every handler that loaded the row ends: it commits, meets a version     *)
(* conflict or rolls back.  Nobody waits for the row lock for ever.        *)
TransactionsEnd == \A t \in Tx : pc[t] # "idle" ~> pc[t] = "idle"

(* entities.py, version: "incremented by the repository on every save;     *)
(* checked before a transition is persisted".  What a transaction is about *)
(* to persist was computed from the row as it still is, unless two         *)
(* transactions have met between check and commit.  Whatever such a        *)
(* meeting leaves behind is over once the row is without a transaction.    *)
NoStaleWrite ==
    met # {} \/ \A t \in Open : row = loaded[t] /\ version = expected[t]

Lifecycle == INSTANCE AssessmentLifecycle WITH assessment <- row

(* The transactions implement the atomic handlers of AssessmentLifecycle:  *)
(* a commit is one legal command on the row it finds, however loads,       *)
(* checks and rollbacks of others surround it, with the one exception of   *)
(* transactions that met between check and commit (repositories.py, save). *)
ImplementsLifecycle == Lifecycle!Init /\ [][met = {} => Lifecycle!Next]_row

(* value_objects.py: a transition not listed in LEGAL_TRANSITIONS "is      *)
(* illegal - enforced by the Assessment entity".  Stated of the committed  *)
(* status, without the exception; two handlers that both pass the version  *)
(* check violate it.                                                       *)
CommittedTransitionsLegal ==
    [][row'.status # row.status => row'.status \in LEGAL_TRANSITIONS[row.status]]_vars

=============================================================================
