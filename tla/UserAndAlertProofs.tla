------------------------- MODULE UserAndAlertProofs -------------------------
(***************************************************************************)
(* Proofs about UserAdministration, for any users, roles and handlers, and *)
(* about EarlyWarning, for any rules, subscriptions and requests.          *)
(*                                                                         *)
(* Users: until two handlers are past the version check of a user at once  *)
(* the check protects the row, whatever else is in flight; until two       *)
(* removals of owners cross as well the owner check protects the tenant.   *)
(*                                                                         *)
(* Alerts: AlertInv adds to the types what each request holds: an edit     *)
(* differs from what it loaded in one column (EditOK), the history of an   *)
(* evaluation is up to date (HistoryOK), what has been due throughout is   *)
(* among the rules and subscriptions it read (RulesOK, SubscriptionsOK)    *)
(* and still to be evaluated or reported (DueOK), and the rows to be       *)
(* committed are one for each triple that fired (PendingOK).  Edits never  *)
(* change the subject, the operator or the channels of a row (SameRules,   *)
(* SameSubscriptions), so an old copy still says where to look.            *)
(***************************************************************************)
EXTENDS UserAdministration, EarlyWarning, FunctionTheorems, FiniteSetTheorems, TLAPS

-----------------------------------------------------------------------------
(* Users *)

Op == {"accept", "change_role"} \cup StatusOp \cup PasswordOp

(* What a command record holds. *)
LEMMA CommandFields ==
    ASSUME NEW c \in Command
    PROVE  /\ c.user \in User
           /\ c.op \in Op
           /\ c.op = "change_role" => c.role \in Role
  BY DEF Command, Op, StatusOp, PasswordOp

(* The idle command is a command. *)
LEMMA NoCmdType == NoCmd \in Command
  BY AdministrationAssumption DEF NoCmd, Command, StatusOp, PasswordOp

(* The row of an address that is no user yet is a row. *)
LEMMA AbsentType == Absent \in UserRow
  BY DEF Absent, UserRow, Role

(* A legal command on an existing user yields a user, keeps a password and *)
(* moves the status along the table or not at all.                         *)
LEMMA ApplyType ==
    ASSUME NEW row \in UserRow, NEW c \in Command, row.status # "ABSENT", Legal(row, c)
    PROVE  /\ Apply(row, c) \in UserRow
           /\ Apply(row, c).status # "ABSENT"
           /\ row.password = "set" => Apply(row, c).password = "set"
           /\ \/ Apply(row, c).status = row.status
              \/ Apply(row, c).status \in LEGAL_STATUS_TRANSITIONS[row.status]
           /\ row.status # "INVITED" => Apply(row, c).status # "INVITED"
           /\ c.op = "accept" => Apply(row, c).status = "ACTIVE" /\ Apply(row, c).password = "set"
<1> USE CommandFields DEF UserRow, UserStatus
<1>1. CASE c.op = "accept"
  <2>1. Apply(row, c) = [row EXCEPT !.status = "ACTIVE", !.password = "set"]
    BY <1>1 DEF Apply, StatusOp, PasswordOp
  <2>2. row.status = "INVITED"
    BY <1>1 DEF Legal, StatusOp
  <2>3. "ACTIVE" \in LEGAL_STATUS_TRANSITIONS[row.status]
    BY <2>2 DEF LEGAL_STATUS_TRANSITIONS
  <2> QED
    BY <2>1, <2>2, <2>3
<1>2. CASE c.op \in StatusOp
  <2>1. Apply(row, c) = [row EXCEPT !.status = TargetStatus[c.op]]
    BY <1>2 DEF Apply, StatusOp, PasswordOp
  <2>2. TargetStatus[c.op] \in LEGAL_STATUS_TRANSITIONS[row.status]
    BY <1>2 DEF Legal, StatusOp
  <2>3. TargetStatus[c.op] \in {"SUSPENDED", "ACTIVE", "DEACTIVATED"}
    BY <1>2 DEF TargetStatus, StatusOp
  <2> QED
    BY <1>2, <2>1, <2>2, <2>3 DEF StatusOp
<1>3. CASE c.op = "change_role"
  BY <1>3 DEF Apply, StatusOp, PasswordOp
<1>4. CASE c.op \in PasswordOp
  BY <1>4 DEF Apply, StatusOp, PasswordOp
<1> QED
  BY <1>1, <1>2, <1>3, <1>4 DEF Op

-----------------------------------------------------------------------------
(* Types: the UPDATE writes values of the entity or of the row *)

\* A handler in flight works on a user that exists and loaded one that did.
Existing ==
    \A t \in Tx :
        pc[t] # "idle" =>
            loaded[t].status # "ABSENT" /\ users[cmd[t].user].status # "ABSENT"

\* Past the check the entity method has accepted the command.
Accepted ==
    \A t \in Tx : pc[t] \in {"checked", "saved"} => Legal(loaded[t], cmd[t])

TypeInv == TypeOK /\ Existing /\ Accepted

(* The written row is a user row of an existing user. *)
LEMMA UpdatedType ==
    ASSUME TypeInv, NEW t \in Tx, pc[t] = "saved"
    PROVE  Updated(t) \in UserRow /\ Updated(t).status # "ABSENT"
<1>1. /\ loaded[t] \in UserRow /\ cmd[t] \in Command /\ model[t] \in UserRow
      /\ loaded[t].status # "ABSENT" /\ Legal(loaded[t], cmd[t])
      /\ users[cmd[t].user] \in UserRow /\ users[cmd[t].user].status # "ABSENT"
  BY CommandFields DEF TypeInv, TypeOK, Existing, Accepted
<1>2. Apply(loaded[t], cmd[t]) \in UserRow /\ Apply(loaded[t], cmd[t]).status # "ABSENT"
  BY <1>1, ApplyType
<1> QED
  BY <1>1, <1>2 DEF Updated, UserRow

(* Ending a handler keeps everything about the others. *)
LEMMA EndType ==
    ASSUME TypeInv, NEW t \in Tx, End(t), UNCHANGED tables
    PROVE  TypeInv'
<1> USE DEF End, tables, history
<1>1. TypeOK'
  BY NoCmdType, AbsentType DEF TypeInv, TypeOK
<1>2. ASSUME NEW q \in Tx, pc'[q] # "idle"
      PROVE  q # t /\ pc'[q] = pc[q] /\ cmd'[q] = cmd[q] /\ loaded'[q] = loaded[q]
  BY <1>2 DEF TypeInv, TypeOK
<1>3. Existing' /\ Accepted'
  BY <1>2 DEF TypeInv, Existing, Accepted
<1> QED
  BY <1>1, <1>3 DEF TypeInv

(* Every step keeps the types. *)
LEMMA TypeStep ==
    ASSUME TypeInv, [Next]_vars
    PROVE  TypeInv'
<1> USE DEF history
<1>1. CASE UNCHANGED vars
  BY <1>1 DEF vars, TypeInv, TypeOK, Existing, Accepted
<1>2. CASE CreateTenant
  BY <1>2 DEF CreateTenant, TypeInv, TypeOK, Existing, Accepted
<1>3. ASSUME NEW u \in User, CreateOwner(u) \/ InvitationExpires(u)
      PROVE  TypeInv'
  <2>1. CASE CreateOwner(u)
    <3>1. TypeOK'
      BY <2>1 DEF CreateOwner, TypeInv, TypeOK, UserRow, UserStatus, Role
    <3>2. \A v \in User : users[v].status # "ABSENT" => users'[v] = users[v]
      BY <2>1 DEF CreateOwner, TypeInv, TypeOK
    <3> QED
      BY <2>1, <3>1, <3>2, CommandFields DEF CreateOwner, TypeInv, TypeOK, Existing, Accepted
  <2>2. CASE InvitationExpires(u)
    BY <2>2 DEF InvitationExpires, TypeInv, TypeOK, Existing, Accepted, Invitation
  <2> QED
    BY <1>3, <2>1, <2>2
<1>4. ASSUME NEW u \in User, NEW role \in Role, InviteUser(u, role)
      PROVE  TypeInv'
  <2>1. TypeOK'
    BY <1>4 DEF InviteUser, TypeInv, TypeOK, UserRow, UserStatus, Invitation
  <2>2. \A v \in User : users[v].status # "ABSENT" => users'[v] = users[v]
    BY <1>4 DEF InviteUser, TypeInv, TypeOK
  <2> QED
    BY <1>4, <2>1, <2>2, CommandFields DEF InviteUser, TypeInv, TypeOK, Existing, Accepted
<1>5. ASSUME NEW t \in Tx, NEW c \in Command, Load(t, c)
      PROVE  TypeInv'
  <2>1. c.user \in User
    BY CommandFields
  <2> QED
    BY <1>5, <2>1 DEF Load, tables, TypeInv, TypeOK, Existing, Accepted
<1>6. ASSUME NEW t \in Tx, Check(t)
      PROVE  TypeInv'
  <2>1. Removals \subseteq Tx
    BY DEF Removals
  <2>2. crossed' \subseteq Tx
    BY <1>6, <2>1 DEF Check, TypeInv, TypeOK
  <2> QED
    BY <1>6, <2>2 DEF Check, Allowed, tables, TypeInv, TypeOK, Existing, Accepted
<1>7. ASSUME NEW t \in Tx, Save(t)
      PROVE  TypeInv'
  <2>1. users[cmd[t].user] \in UserRow /\ cmd[t].user \in User
    BY CommandFields DEF TypeInv, TypeOK
  <2> QED
    BY <1>7, <2>1 DEF Save, tables, TypeInv, TypeOK, Existing, Accepted
<1>8. ASSUME NEW t \in Tx, Refuse(t) \/ Conflict(t) \/ Rollback(t)
      PROVE  TypeInv'
  BY <1>8, EndType DEF Refuse, Conflict, Rollback
<1>9. ASSUME NEW t \in Tx, Commit(t)
      PROVE  TypeInv'
  <2> USE <1>9 DEF Commit, End
  <2>1. Updated(t) \in UserRow /\ Updated(t).status # "ABSENT" /\ cmd[t].user \in User
    BY UpdatedType, CommandFields DEF TypeInv, TypeOK
  <2>2. TypeOK'
    BY <2>1, NoCmdType, AbsentType DEF TypeInv, TypeOK, Invitation
  <2>3. ASSUME NEW q \in Tx, pc'[q] # "idle"
        PROVE  q # t /\ pc'[q] = pc[q] /\ cmd'[q] = cmd[q] /\ loaded'[q] = loaded[q]
    BY <2>3 DEF TypeInv, TypeOK
  <2>4. \A v \in User : users[v].status # "ABSENT" => users'[v].status # "ABSENT"
    BY <2>1 DEF TypeInv, TypeOK
  <2>5. Existing' /\ Accepted'
    BY <2>3, <2>4, CommandFields DEF TypeInv, TypeOK, Existing, Accepted
  <2> QED
    BY <2>2, <2>5 DEF TypeInv
<1> QED
  BY <1>1, <1>2, <1>3, <1>4, <1>5, <1>6, <1>7, <1>8, <1>9 DEF Next

(* Types hold in every reachable state, for any overlap of handlers. *)
THEOREM TypeInvariance == Spec => []TypeInv
<1>1. Init => TypeInv
  BY NoCmdType, AbsentType
     DEF Init, TypeInv, TypeOK, Existing, Accepted, Invitation
<1> QED
  BY <1>1, TypeStep, PTL DEF Spec

(* Type correctness of the user table and its handlers. *)
THEOREM TypeCorrect == Spec => []TypeOK
<1>1. TypeInv => TypeOK
  BY DEF TypeInv
<1> QED
  BY <1>1, TypeInvariance, PTL

-----------------------------------------------------------------------------
(* The rows of the users of whom one handler at a time was between save    *)
(* and commit                                                              *)

\* A handler loaded a row that may have been replaced since, and then the
\* version tells; past save it is the row.
Versioned ==
    \A t \in Tx :
        LET u == cmd[t].user
        IN  pc[t] # "idle" /\ u \notin raced =>
                /\ expected[t] <= version[u]
                /\ expected[t] = version[u] => loaded[t] = users[u]
                /\ pc[t] = "saved" => expected[t] = version[u] /\ model[t] = users[u]

OneOpen ==
    \A t, q \in Tx :
        /\ pc[t] = "saved" /\ pc[q] = "saved"
        /\ cmd[t].user = cmd[q].user /\ cmd[t].user \notin raced
        => t = q

RowsInv == TypeInv /\ Versioned /\ OneOpen /\ UsedMeansAccepted

(* What a current handler writes is its command applied to the row. *)
LEMMA CurrentUpdate ==
    ASSUME TypeInv, NEW t \in Tx, pc[t] = "saved",
           loaded[t] = users[cmd[t].user], model[t] = users[cmd[t].user]
    PROVE  Updated(t) = Apply(users[cmd[t].user], cmd[t])
<1> DEFINE row == users[cmd[t].user]
           entity == Apply(row, cmd[t])
<1>1. row \in UserRow /\ cmd[t] \in Command /\ row.status # "ABSENT" /\ Legal(row, cmd[t])
  BY CommandFields DEF TypeInv, TypeOK, Existing, Accepted
<1>2. entity \in UserRow
  BY <1>1, ApplyType
<1>3. Updated(t) = [status |-> entity.status, role |-> entity.role, password |-> entity.password]
  BY DEF Updated
<1> QED
  BY <1>2, <1>3 DEF UserRow

(* Ending a handler leaves what is known of the others. *)
LEMMA EndRows ==
    ASSUME RowsInv, NEW t \in Tx, End(t), UNCHANGED tables
    PROVE  RowsInv'
<1> USE DEF End, tables, history
<1>1. TypeInv'
  BY EndType DEF RowsInv
<1>2. ASSUME NEW q \in Tx, pc'[q] # "idle"
      PROVE  /\ q # t /\ pc'[q] = pc[q] /\ cmd'[q] = cmd[q] /\ loaded'[q] = loaded[q]
             /\ expected'[q] = expected[q] /\ model'[q] = model[q]
  BY <1>2 DEF RowsInv, TypeInv, TypeOK
<1>3. Versioned'
  BY <1>2 DEF RowsInv, Versioned
<1>4. OneOpen'
  BY <1>2 DEF RowsInv, OneOpen
<1> QED
  BY <1>1, <1>3, <1>4 DEF RowsInv, UsedMeansAccepted

(* An insert touches no row a handler works on. *)
LEMMA InsertRows ==
    ASSUME RowsInv, TypeInv', NEW u \in User, users[u].status = "ABSENT",
           \A v \in User \ {u} : users'[v] = users[v],
           users'[u].status # "INVITED" \/ invitation'[u] # "used",
           users'[u].password = "set" \/ invitation'[u] # "used",
           \A v \in User \ {u} : invitation'[v] = invitation[v],
           UNCHANGED <<version, pc, cmd, loaded, expected, model, history>>
    PROVE  RowsInv'
<1> USE DEF history
<1>1. ASSUME NEW q \in Tx, pc[q] # "idle"
      PROVE  cmd[q].user \in User /\ users'[cmd[q].user] = users[cmd[q].user]
  BY <1>1, CommandFields DEF RowsInv, TypeInv, TypeOK, Existing
<1>2. Versioned'
  BY <1>1 DEF RowsInv, Versioned
<1> QED
  BY <1>2 DEF RowsInv, OneOpen, UsedMeansAccepted

(* A commit replaces the row by the result of its command, unless two were *)
(* past the version check of the user.                                     *)
LEMMA CommitRows ==
    ASSUME RowsInv, TypeInv', NEW t \in Tx, Commit(t)
    PROVE  /\ RowsInv'
           /\ \A v \in User \ {cmd[t].user} : users'[v] = users[v]
           /\ cmd[t].user \notin raced =>
                  /\ users'[cmd[t].user] = Apply(users[cmd[t].user], cmd[t])
                  /\ Legal(users[cmd[t].user], cmd[t])
<1> DEFINE u == cmd[t].user
<1> USE DEF Commit, End, history
<1>1. /\ u \in User /\ users[u] \in UserRow /\ cmd[t] \in Command /\ users[u].status # "ABSENT"
  BY CommandFields DEF RowsInv, TypeInv, TypeOK, Existing
<1>2. ASSUME u \notin raced
      PROVE  /\ loaded[t] = users[u] /\ model[t] = users[u] /\ expected[t] = version[u]
             /\ Legal(users[u], cmd[t]) /\ Updated(t) = Apply(users[u], cmd[t])
             /\ version'[u] = version[u] + 1
  <2>1. /\ loaded[t] = users[u] /\ model[t] = users[u] /\ expected[t] = version[u]
        /\ Legal(users[u], cmd[t])
    BY <1>1, <1>2 DEF RowsInv, Versioned, TypeInv, TypeOK, Accepted
  <2> QED
    BY <1>1, <2>1, CurrentUpdate DEF RowsInv, TypeInv, TypeOK
<1>3. /\ users'[u] = Updated(t)
      /\ \A v \in User \ {u} : users'[v] = users[v]
      /\ \A v \in User \ {u} : version'[v] = version[v]
  BY <1>1 DEF RowsInv, TypeInv, TypeOK
<1>4. ASSUME NEW q \in Tx, pc'[q] # "idle"
      PROVE  /\ q # t /\ pc'[q] = pc[q] /\ cmd'[q] = cmd[q] /\ loaded'[q] = loaded[q]
             /\ expected'[q] = expected[q] /\ model'[q] = model[q]
             /\ cmd[q].user \in User
  BY <1>4, CommandFields DEF RowsInv, TypeInv, TypeOK
<1>5. Versioned'
  <2> SUFFICES ASSUME NEW q \in Tx, pc'[q] # "idle", cmd[q].user \notin raced
               PROVE  /\ expected[q] <= version'[cmd[q].user]
                      /\ expected[q] = version'[cmd[q].user] => loaded[q] = users'[cmd[q].user]
                      /\ pc[q] = "saved" => /\ expected[q] = version'[cmd[q].user]
                                            /\ model[q] = users'[cmd[q].user]
    BY <1>4 DEF Versioned
  <2>1. CASE cmd[q].user = u
    <3>1. pc[q] # "saved"
      BY <1>4, <2>1 DEF RowsInv, OneOpen
    <3>2. expected[q] \in Nat /\ version[u] \in Nat /\ expected[q] <= version[u]
      BY <1>1, <1>4, <2>1 DEF RowsInv, Versioned, TypeInv, TypeOK
    <3> QED
      BY <1>2, <2>1, <3>1, <3>2
  <2>2. CASE cmd[q].user # u
    BY <1>3, <1>4, <2>2 DEF RowsInv, Versioned
  <2> QED
    BY <2>1, <2>2
<1>6. OneOpen'
  BY <1>4 DEF RowsInv, OneOpen
<1>7. UsedMeansAccepted'
  <2> SUFFICES ASSUME NEW v \in User \ raced, invitation'[v] = "used"
               PROVE  users'[v].status # "INVITED" /\ users'[v].password = "set"
    BY DEF UsedMeansAccepted
  <2>1. CASE v # u
    <3>1. invitation[v] = "used"
      BY <2>1 DEF RowsInv, TypeInv, TypeOK
    <3> QED
      BY <1>3, <2>1, <3>1 DEF RowsInv, UsedMeansAccepted
  <2>2. CASE v = u /\ cmd[t].op = "accept"
    BY <1>1, <1>2, <1>3, <2>2, ApplyType
  <2>3. CASE v = u /\ cmd[t].op # "accept"
    <3>1. users[u].status # "INVITED" /\ users[u].password = "set"
      BY <2>3 DEF RowsInv, UsedMeansAccepted
    <3> QED
      BY <1>1, <1>2, <1>3, <2>3, <3>1, ApplyType
  <2> QED
    BY <2>1, <2>2, <2>3
<1> QED
  BY <1>2, <1>3, <1>5, <1>6, <1>7 DEF RowsInv

(* Every step keeps the rows current for their handlers. *)
LEMMA RowsStep ==
    ASSUME RowsInv, [Next]_vars
    PROVE  RowsInv'
<1> USE DEF history
<1>0. TypeInv'
  BY TypeStep DEF RowsInv
<1>1. CASE UNCHANGED vars
  BY <1>0, <1>1 DEF vars, RowsInv, Versioned, OneOpen, UsedMeansAccepted
<1>2. CASE CreateTenant
  BY <1>0, <1>2 DEF CreateTenant, RowsInv, Versioned, OneOpen, UsedMeansAccepted
<1>3. ASSUME NEW u \in User, CreateOwner(u)
      PROVE  RowsInv'
  <2>1. users'[u].status = "ACTIVE" /\ users'[u].password = "set"
    BY <1>3 DEF CreateOwner, RowsInv, TypeInv, TypeOK
  <2> QED
    BY <1>0, <1>3, <2>1, InsertRows DEF CreateOwner, RowsInv, TypeInv, TypeOK
<1>4. ASSUME NEW u \in User, InvitationExpires(u)
      PROVE  RowsInv'
  BY <1>0, <1>4 DEF InvitationExpires, RowsInv, Versioned, OneOpen, UsedMeansAccepted,
                    TypeInv, TypeOK
<1>5. ASSUME NEW u \in User, NEW role \in Role, InviteUser(u, role)
      PROVE  RowsInv'
  <2>1. invitation'[u] = "open"
    BY <1>5 DEF InviteUser, RowsInv, TypeInv, TypeOK
  <2> QED
    BY <1>0, <1>5, <2>1, InsertRows DEF InviteUser, RowsInv, TypeInv, TypeOK
<1>6. ASSUME NEW t \in Tx, NEW c \in Command, Load(t, c)
      PROVE  RowsInv'
  <2>1. c.user \in User
    BY CommandFields
  <2>2. Versioned'
    BY <1>6, <2>1 DEF Load, tables, RowsInv, Versioned, TypeInv, TypeOK
  <2> QED
    BY <1>0, <1>6, <2>2 DEF Load, tables, RowsInv, OneOpen, UsedMeansAccepted, TypeInv, TypeOK
<1>7. ASSUME NEW t \in Tx, Check(t)
      PROVE  RowsInv'
  BY <1>0, <1>7 DEF Check, tables, RowsInv, Versioned, OneOpen, UsedMeansAccepted, TypeInv, TypeOK
<1>8. ASSUME NEW t \in Tx, Save(t)
      PROVE  RowsInv'
  <2>1. cmd[t].user \in User
    BY CommandFields DEF RowsInv, TypeInv, TypeOK
  <2>2. raced \subseteq raced' /\ (cmd[t].user \notin raced' => Open(cmd[t].user) = {})
    BY <1>8 DEF Save
  <2>3. OneOpen'
    BY <1>8, <2>2 DEF Save, Open, RowsInv, OneOpen, TypeInv, TypeOK
  <2>4. Versioned'
    BY <1>8, <2>2 DEF Save, VersionMatches, tables, RowsInv, Versioned, TypeInv, TypeOK
  <2> QED
    BY <1>0, <1>8, <2>2, <2>3, <2>4 DEF Save, tables, RowsInv, UsedMeansAccepted
<1>9. ASSUME NEW t \in Tx, Refuse(t) \/ Conflict(t) \/ Rollback(t)
      PROVE  RowsInv'
  BY <1>9, EndRows DEF Refuse, Conflict, Rollback
<1>10. ASSUME NEW t \in Tx, Commit(t)
       PROVE  RowsInv'
  BY <1>0, <1>10, CommitRows
<1> QED
  BY <1>1, <1>2, <1>3, <1>4, <1>5, <1>6, <1>7, <1>8, <1>9, <1>10 DEF Next

(* Initially no handler runs and no invitation is used. *)
LEMMA RowsInit == Init => RowsInv
<1> SUFFICES ASSUME Init PROVE RowsInv
  OBVIOUS
<1>1. TypeInv
  BY NoCmdType, AbsentType DEF Init, TypeInv, TypeOK, Existing, Accepted, Invitation
<1> QED
  BY <1>1 DEF Init, RowsInv, Versioned, OneOpen, UsedMeansAccepted

(* Version checks keep rows and handlers consistent, for users of whom one *)
(* handler at a time was past the check.                                   *)
THEOREM RowsInvariance == Spec => []RowsInv
  BY RowsInit, RowsStep, PTL DEF Spec

(* A used invitation belongs to a user who accepted it, for any number of  *)
(* overlapping handlers, unless two were past the version check of that    *)
(* user at once (AcceptInvitationHandler).                                 *)
THEOREM InvitationsUsed == Spec => []UsedMeansAccepted
<1>1. RowsInv => UsedMeansAccepted
  BY DEF RowsInv
<1> QED
  BY <1>1, RowsInvariance, PTL

(* One step moves statuses along the table. *)
LEMMA StatusStep ==
    ASSUME RowsInv, [Next]_vars, NEW u \in User \ raced,
           users[u].status # "ABSENT", users'[u].status # users[u].status
    PROVE  users'[u].status \in LEGAL_STATUS_TRANSITIONS[users[u].status]
<1>1. ASSUME NEW t \in Tx, Commit(t)
      PROVE  users'[u].status \in LEGAL_STATUS_TRANSITIONS[users[u].status]
  <2>1. TypeInv'
    BY TypeStep DEF RowsInv
  <2>2. cmd[t].user = u /\ cmd[t].user \notin raced
    BY <1>1, <2>1, CommitRows
  <2>3. users'[u] = Apply(users[u], cmd[t]) /\ Legal(users[u], cmd[t])
    BY <1>1, <2>1, <2>2, CommitRows
  <2>4. users[u] \in UserRow /\ cmd[t] \in Command
    BY DEF RowsInv, TypeInv, TypeOK
  <2> QED
    BY <2>3, <2>4, ApplyType
<1>2. ASSUME NEW v \in User, CreateOwner(v)
      PROVE  FALSE
  BY <1>2 DEF CreateOwner, RowsInv, TypeInv, TypeOK
<1>3. ASSUME NEW v \in User, NEW role \in Role, InviteUser(v, role)
      PROVE  FALSE
  BY <1>3 DEF InviteUser, RowsInv, TypeInv, TypeOK
<1> QED
  BY <1>1, <1>2, <1>3
     DEF Next, vars, tables, CreateTenant, InvitationExpires, Load, Check, Refuse, Save,
         Conflict, Rollback

(* Committed statuses follow _LEGAL_STATUS_TRANSITIONS, unless two         *)
(* handlers were past the version check of the user at once.               *)
THEOREM StatusLegal == Spec => CommittedStatusLegal
<1>1. RowsInv /\ [Next]_vars =>
        [\A u \in User \ raced :
            users[u].status # "ABSENT" /\ users'[u].status # users[u].status =>
                users'[u].status \in LEGAL_STATUS_TRANSITIONS[users[u].status]]_vars
  BY StatusStep
<1> QED
  BY <1>1, RowsInvariance, PTL DEF Spec, CommittedStatusLegal

-----------------------------------------------------------------------------
(* The owners of the tenant *)

\* One handler at a time is past the owner check of an owner ...
OneRemoval == \A t, q \in Removals : t = q

\* ... and there is an active owner besides the one it changes.
AnotherOwner == \A t \in Removals : ActiveOwners \ {cmd[t].user} # {}

OwnersInv ==
    /\ RowsInv
    /\ raced = {} /\ crossed = {}
    /\ OneRemoval /\ AnotherOwner /\ OwnerAlwaysRemains

\* Until two handlers of a user, or two removals of owners, overlap.
OwnersUntilCrossed == RowsInv /\ (raced = {} /\ crossed = {} => OwnersInv)

(* More than one owner: one besides any given user. *)
LEMMA MoreThanOne ==
    ASSUME NEW u \in User, Cardinality(ActiveOwners) > 1
    PROVE  ActiveOwners \ {u} # {}
<1> SUFFICES ASSUME ActiveOwners \ {u} = {} PROVE FALSE
  OBVIOUS
<1>1. ActiveOwners \subseteq {u}
  OBVIOUS
<1>2. IsFiniteSet({u}) /\ Cardinality({u}) = 1
  BY FS_Singleton
<1>3. /\ IsFiniteSet(ActiveOwners)
      /\ Cardinality(ActiveOwners) <= Cardinality({u})
  BY <1>1, <1>2, FS_Subset
<1>4. Cardinality(ActiveOwners) \in Nat
  BY <1>3, FS_CardinalityType
<1> QED
  BY <1>2, <1>3, <1>4

(* No step forgets an overlap. *)
LEMMA OverlapsStay ==
    ASSUME [Next]_vars
    PROVE  raced \subseteq raced' /\ crossed \subseteq crossed'
  BY DEF Next, vars, history, CreateTenant, CreateOwner, InvitationExpires, InviteUser, Load,
         Check, Refuse, Save, Conflict, Commit, Rollback, End

(* A command that is not guarded keeps an active owner one. *)
LEMMA UnguardedKeepsOwner ==
    ASSUME NEW row \in UserRow, NEW c \in Command, Legal(row, c), IsActiveOwner(row),
           ~Guarded(row, c)
    PROVE  IsActiveOwner(Apply(row, c))
<1> USE CommandFields DEF UserRow, IsActiveOwner
<1>1. CASE c.op = "accept"
  BY <1>1 DEF Apply, StatusOp, PasswordOp
<1>2. CASE c.op \in StatusOp
  <2>1. c.op = "reactivate"
    BY <1>2 DEF Guarded, StatusOp
  <2> QED
    BY <2>1 DEF Apply, StatusOp, PasswordOp, TargetStatus
<1>3. CASE c.op = "change_role"
  BY <1>3 DEF Apply, Guarded, StatusOp, PasswordOp
<1>4. CASE c.op \in PasswordOp
  BY <1>4 DEF Apply, StatusOp, PasswordOp
<1> QED
  BY <1>1, <1>2, <1>3, <1>4 DEF Op

(* A step that takes no owner away and begins no removal is harmless. *)
LEMMA KeepsOwners ==
    ASSUME OwnersInv, RowsInv', raced' = {}, crossed' = {}, ActiveOwners \subseteq ActiveOwners',
           Removals' \subseteq Removals, \A t \in Removals' : cmd'[t] = cmd[t],
           tenant' = "owned" => tenant = "owned" \/ ActiveOwners' # {}
    PROVE  OwnersInv'
<1>1. OneRemoval'
  BY DEF OwnersInv, OneRemoval
<1>2. AnotherOwner'
  BY DEF OwnersInv, AnotherOwner
<1>3. OwnerAlwaysRemains'
  BY DEF OwnersInv, OwnerAlwaysRemains
<1> QED
  BY <1>1, <1>2, <1>3 DEF OwnersInv

(* A handler that ends is no removal any more; the others stay what they are. *)
LEMMA EndRemoval ==
    ASSUME TypeOK, NEW t \in Tx, End(t)
    PROVE  Removals' = Removals \ {t} /\ \A q \in Removals' : cmd'[q] = cmd[q]
  BY DEF End, Removals, NeedsCount, Guarded, TypeOK

(* A commit leaves an owner: a removal because another one was counted and *)
(* no second removal is open, any other command because it takes none.     *)
LEMMA CommitOwners ==
    ASSUME OwnersInv, RowsInv', raced' = {}, crossed' = {}, NEW t \in Tx, Commit(t)
    PROVE  OwnersInv'
<1> DEFINE u == cmd[t].user
<1>1. /\ pc[t] = "saved" /\ u \in User /\ cmd[t] \in Command
      /\ users[u] \in UserRow /\ loaded[t] = users[u]
  BY CommandFields DEF Commit, OwnersInv, RowsInv, TypeInv, TypeOK, Versioned
<1>2. /\ users'[u] = Apply(users[u], cmd[t]) /\ Legal(users[u], cmd[t])
      /\ \A v \in User \ {u} : users'[v] = users[v]
      /\ tenant' = tenant
  BY <1>1, CommitRows DEF Commit, OwnersInv, RowsInv
<1>3. Removals' = Removals \ {t} /\ \A q \in Removals' : cmd'[q] = cmd[q]
  BY EndRemoval DEF Commit, OwnersInv, RowsInv, TypeInv
<1>4. ActiveOwners \ {u} \subseteq ActiveOwners'
  BY <1>2 DEF ActiveOwners
<1>5. CASE t \in Removals
  <2>1. Removals' = {}
    BY <1>3, <1>5 DEF OwnersInv, OneRemoval
  <2>2. ActiveOwners' # {}
    BY <1>4, <1>5 DEF OwnersInv, AnotherOwner
  <2> QED
    BY <2>1, <2>2 DEF OwnersInv, OneRemoval, AnotherOwner, OwnerAlwaysRemains
<1>6. CASE t \notin Removals
  <2>1. ~(Guarded(users[u], cmd[t]) /\ users[u].role = "OWNER")
    BY <1>1, <1>6 DEF Removals, NeedsCount
  <2>2. u \in ActiveOwners => u \in ActiveOwners'
    <3> SUFFICES ASSUME u \in ActiveOwners PROVE u \in ActiveOwners'
      OBVIOUS
    <3>1. IsActiveOwner(users[u]) /\ ~Guarded(users[u], cmd[t])
      BY <2>1 DEF ActiveOwners, IsActiveOwner
    <3>2. IsActiveOwner(users'[u])
      BY <1>1, <1>2, <3>1, UnguardedKeepsOwner
    <3> QED
      BY <1>1, <3>2 DEF ActiveOwners
  <2>3. ActiveOwners \subseteq ActiveOwners'
    BY <1>4, <2>2
  <2> QED
    BY <1>2, <1>3, <2>3, KeepsOwners
<1> QED
  BY <1>5, <1>6

(* Every step keeps the owners' invariant. *)
LEMMA OwnersStep ==
    ASSUME OwnersInv, [Next]_vars, raced' = {}, crossed' = {}
    PROVE  OwnersInv'
<1>0. RowsInv' /\ TypeOK /\ TypeOK'
  BY RowsStep DEF OwnersInv, RowsInv, TypeInv
<1> USE <1>0
<1>1. ASSUME UNCHANGED <<users, pc, cmd, loaded>>, tenant' = "owned" => tenant = "owned"
      PROVE  OwnersInv'
  <2>1. ActiveOwners' = ActiveOwners /\ Removals' = Removals
    BY <1>1 DEF ActiveOwners, Removals, NeedsCount, Guarded
  <2> QED
    BY <1>1, <2>1, KeepsOwners
<1>2. CASE UNCHANGED vars
  BY <1>1, <1>2 DEF vars
<1>3. CASE CreateTenant
  BY <1>1, <1>3 DEF CreateTenant
<1>4. ASSUME NEW u \in User, InvitationExpires(u)
      PROVE  OwnersInv'
  BY <1>1, <1>4 DEF InvitationExpires
<1>5. ASSUME NEW u \in User, users[u].status = "ABSENT",
             \A v \in User \ {u} : users'[v] = users[v], UNCHANGED <<pc, cmd, loaded>>,
             tenant' = "owned" => tenant = "owned" \/ IsActiveOwner(users'[u])
      PROVE  OwnersInv'
  <2>1. ActiveOwners \subseteq ActiveOwners' /\ Removals' = Removals
    BY <1>5 DEF ActiveOwners, IsActiveOwner, Removals, NeedsCount, Guarded
  <2>2. tenant' = "owned" => tenant = "owned" \/ ActiveOwners' # {}
    BY <1>5 DEF ActiveOwners
  <2> QED
    BY <1>5, <2>1, <2>2, KeepsOwners
<1>6. ASSUME NEW u \in User, CreateOwner(u)
      PROVE  OwnersInv'
  <2>1. IsActiveOwner(users'[u])
    BY <1>6 DEF CreateOwner, IsActiveOwner, TypeOK
  <2> QED
    BY <1>5, <1>6, <2>1 DEF CreateOwner, TypeOK
<1>7. ASSUME NEW u \in User, NEW role \in Role, InviteUser(u, role)
      PROVE  OwnersInv'
  BY <1>5, <1>7 DEF InviteUser, TypeOK
<1>8. ASSUME NEW t \in Tx, NEW c \in Command, Load(t, c)
      PROVE  OwnersInv'
  <2>1. ActiveOwners' = ActiveOwners /\ tenant' = tenant
    BY <1>8 DEF Load, tables, ActiveOwners
  <2>2. Removals' \subseteq Removals /\ \A q \in Removals' : cmd'[q] = cmd[q]
    BY <1>8 DEF Load, Removals, NeedsCount, Guarded, TypeOK
  <2> QED
    BY <2>1, <2>2, KeepsOwners
<1>9. ASSUME NEW t \in Tx, Check(t)
      PROVE  OwnersInv'
  <2>1. ActiveOwners' = ActiveOwners /\ UNCHANGED <<tenant, cmd, loaded>>
    BY <1>9 DEF Check, tables, ActiveOwners
  <2>2. CASE ~NeedsCount(loaded[t], cmd[t])
    <3>1. Removals' \subseteq Removals
      BY <1>9, <2>1, <2>2 DEF Check, Removals, NeedsCount, Guarded, TypeOK
    <3> QED
      BY <2>1, <3>1, KeepsOwners
  <2>3. CASE NeedsCount(loaded[t], cmd[t])
    <3>1. Removals = {}
      BY <1>9, <2>3 DEF Check
    <3>2. Removals' \subseteq {t}
      BY <1>9, <2>1, <3>1 DEF Check, Removals, NeedsCount, Guarded, TypeOK
    <3>3. cmd[t].user \in User
      BY CommandFields DEF TypeOK
    <3>4. ActiveOwners \ {cmd[t].user} # {}
      BY <1>9, <2>3, <3>3, MoreThanOne DEF Check, Allowed, NotLastOwner
    <3>5. OneRemoval' /\ AnotherOwner' /\ OwnerAlwaysRemains'
      BY <2>1, <3>2, <3>4 DEF OneRemoval, AnotherOwner, OwnerAlwaysRemains
    <3> QED
      BY <3>5 DEF OwnersInv
  <2> QED
    BY <2>2, <2>3
<1>10. ASSUME NEW t \in Tx, Save(t)
       PROVE  OwnersInv'
  <2>1. ActiveOwners' = ActiveOwners /\ tenant' = tenant
    BY <1>10 DEF Save, tables, ActiveOwners
  <2>2. Removals' \subseteq Removals /\ \A q \in Removals' : cmd'[q] = cmd[q]
    BY <1>10 DEF Save, Removals, NeedsCount, Guarded, TypeOK
  <2> QED
    BY <2>1, <2>2, KeepsOwners
<1>11. ASSUME NEW t \in Tx, Refuse(t) \/ Conflict(t) \/ Rollback(t)
       PROVE  OwnersInv'
  <2>1. End(t) /\ UNCHANGED tables
    BY <1>11 DEF Refuse, Conflict, Rollback
  <2>2. ActiveOwners' = ActiveOwners /\ tenant' = tenant
    BY <2>1 DEF tables, ActiveOwners
  <2> QED
    BY <2>1, <2>2, EndRemoval, KeepsOwners
<1>12. ASSUME NEW t \in Tx, Commit(t)
       PROVE  OwnersInv'
  BY <1>12, CommitOwners
<1> QED
  BY <1>2, <1>3, <1>4, <1>6, <1>7, <1>8, <1>9, <1>10, <1>11, <1>12 DEF Next

(* A registered tenant keeps an active owner, for any users, commands and  *)
(* number of overlapping handlers, until two removals of owners were past  *)
(* the owner check at once or two handlers past the version check of one   *)
(* user (handlers_user.py, _assert_not_last_owner).                        *)
THEOREM OwnerKept == Spec => []OwnerRemains
<1>1. Init => OwnersUntilCrossed
  <2> SUFFICES ASSUME Init PROVE OwnersUntilCrossed
    OBVIOUS
  <2>1. RowsInv
    BY RowsInit
  <2>2. Removals = {} /\ tenant # "owned" /\ raced = {} /\ crossed = {}
    BY DEF Init, Removals
  <2> QED
    BY <2>1, <2>2
       DEF OwnersUntilCrossed, OwnersInv, OneRemoval, AnotherOwner, OwnerAlwaysRemains
<1>2. OwnersUntilCrossed /\ [Next]_vars => OwnersUntilCrossed'
  BY RowsStep, OwnersStep, OverlapsStay DEF OwnersUntilCrossed
<1>3. OwnersUntilCrossed => OwnerRemains
  BY DEF OwnersUntilCrossed, OwnersInv, OwnerRemains
<1> QED
  BY <1>1, <1>2, <1>3, PTL DEF Spec

-----------------------------------------------------------------------------
(* The invariant *)

RuleRow ==
    [exists : {TRUE}, active : BOOLEAN, subject : Subjects, hazard : {HazardType, "OTHER", None},
     operator : AlertOperator, threshold : Values]

(* A subscription subscribe() accepted: every channel has a recipient. *)
SubscriptionRow ==
    {row \in [exists : {TRUE}, active : BOOLEAN, hazard : {HazardType, "OTHER", None},
              channels : SUBSET NotificationChannelType, email : BOOLEAN, phone : BOOLEAN] :
        \A c \in row.channels : HasRecipient(c, row)}

RuleTable == [Rules -> RuleRow \cup {NoRow}]

SubscriptionTable == [Subs -> SubscriptionRow \cup {NoRow}]

Sighting ==
    ({"rule"} \X Rules \X Values) \cup ({"subscription"} \X Subs)
      \cup ({"metric"} \X Subjects \X (Values \cup {NoValue}))

(* A notification that tells the truth *)
Notice ==
    {n \in [run : Nat, rule : Rules, sub : Subs, channel : NotificationChannelType,
            status : {"SENT", "FAILED"}, value : Values, operator : AlertOperator,
            threshold : Values] :
        Evaluate(n.operator, n.value, n.threshold)}

RuleEdit == [at : {"rule"}, id : Rules, loaded : RuleRow, wanted : RuleRow]

SubscriptionEdit ==
    [at : {"subscription"}, id : Subs, loaded : SubscriptionRow, wanted : SubscriptionRow]

DuePairs == SUBSET (Rules \X Subs \X Values)

Beginning == [at : {"rules"}, run : Nat, due : DuePairs, seen : SUBSET Sighting]

Reading ==
    [at : {"subscriptions"}, run : Nat, due : DuePairs, seen : SUBSET Sighting,
     todo : SUBSET Rules, rules : RuleTable]

Looping ==
    [at : {"loop"}, run : Nat, due : DuePairs, seen : SUBSET Sighting, todo : SUBSET Rules,
     rules : RuleTable, subs : SubscriptionTable, fired : SUBSET Rules,
     pending : SUBSET Notice]

ClerkState == {Idle} \cup RuleEdit \cup SubscriptionEdit \cup Beginning \cup Reading \cup Looping

Typed ==
    /\ rules \in RuleTable
    /\ subs \in SubscriptionTable
    /\ metric \in [Subjects -> Values \cup {NoValue}]
    /\ clerk \in [Clerks -> ClerkState]
    /\ notifications \subseteq Notice
    /\ evaluations \in Nat

(* What no edit changes *)
SameRules(old, new) ==
    \A r \in Rules : old[r].exists =>
        new[r].exists /\ new[r].subject = old[r].subject /\ new[r].operator = old[r].operator

SameSubscriptions(old, new) ==
    \A s \in Subs : old[s].exists => new[s].exists /\ new[s].channels = old[s].channels

(* An edit is about a row, and changes only columns that may change. *)
EditOK(o, rs, ss) ==
    /\ o.at = "rule" =>
          /\ rs[o.id].exists
          /\ o.wanted.subject = o.loaded.subject /\ o.wanted.operator = o.loaded.operator
    /\ o.at = "subscription" =>
          /\ ss[o.id].exists
          /\ o.wanted.channels = o.loaded.channels /\ o.wanted.email = o.loaded.email
          /\ o.wanted.phone = o.loaded.phone

(* The history an evaluation carries is up to date. *)
HistoryOK(o, rs, ss, m) ==
    o.at \in Evaluating => o.due \subseteq Due(rs, ss, m) /\ Seen(rs, ss, m) \subseteq o.seen

(* The rules an evaluation read: active at some moment since it began, and *)
(* what has been due throughout is among them, under its threshold.        *)
RulesOK(o, rs) ==
    o.at \in {"subscriptions", "loop"} =>
        /\ SameRules(o.rules, rs)
        /\ \A r \in o.todo : Applies(o.rules[r])
        /\ \A r \in Rules : Applies(o.rules[r]) => <<"rule", r, o.rules[r].threshold>> \in o.seen
        /\ \A d \in o.due : Applies(o.rules[d[1]]) /\ o.rules[d[1]].threshold = d[3]

SubscriptionsOK(o, ss) ==
    o.at = "loop" =>
        /\ SameSubscriptions(o.subs, ss)
        /\ \A s \in Subs : Applies(o.subs[s]) => <<"subscription", s>> \in o.seen
        /\ \A d \in o.due : Applies(o.subs[d[2]])

(* What has been due throughout is still to be evaluated or has fired. *)
DueOK(o) ==
    /\ o.at = "subscriptions" => \A d \in o.due : d[1] \in o.todo
    /\ o.at = "loop" => \A d \in o.due : d[1] \in o.todo \cup o.fired

TripleOf(n) == <<n.rule, n.sub, n.channel>>

Triples(o) ==
    {t \in o.fired \X Subs \X NotificationChannelType :
        Applies(o.subs[t[2]]) /\ t[3] \in o.subs[t[2]].channels}

(* The rows to be committed: one for each triple of the rules that fired,  *)
(* quoting the threshold read and a metric that was seen.                  *)
PendingOK(o) ==
    o.at = "loop" =>
        /\ o.fired \cap o.todo = {}
        /\ \A r \in o.fired : Applies(o.rules[r])
        /\ \A n \in o.pending :
              /\ TripleOf(n) \in Triples(o)
              /\ n.threshold = o.rules[n.rule].threshold
              /\ <<"metric", o.rules[n.rule].subject, n.value>> \in o.seen
        /\ \A t \in Triples(o) : \E n \in o.pending : TripleOf(n) = t
        /\ \A n1, n2 \in o.pending : TripleOf(n1) = TripleOf(n2) => n1 = n2

ClerkOK(o, rs, ss, m) ==
    /\ EditOK(o, rs, ss)
    /\ HistoryOK(o, rs, ss, m)
    /\ RulesOK(o, rs)
    /\ SubscriptionsOK(o, ss)
    /\ DueOK(o)
    /\ PendingOK(o)

AlertInv == Typed /\ \A w \in Clerks : ClerkOK(clerk[w], rules, subs, metric)

-----------------------------------------------------------------------------
(* Rows and what a watched evaluation keeps *)

(* A row that exists is a row of its table. *)
LEMMA RuleExists ==
    ASSUME NEW rs \in RuleTable, NEW r \in Rules
    PROVE  /\ rs[r].exists \in BOOLEAN
           /\ rs[r].exists => rs[r] \in RuleRow
           /\ rs[r] \in RuleRow => rs[r].exists
<1>1. rs[r] \in RuleRow \/ rs[r] = NoRow
  BY DEF RuleTable
<1>2. ASSUME NEW row \in RuleRow PROVE row.exists = TRUE
  BY DEF RuleRow
<1>3. NoRow.exists = FALSE
  BY DEF NoRow
<1> QED
  BY <1>1, <1>2, <1>3

LEMMA SubscriptionExists ==
    ASSUME NEW ss \in SubscriptionTable, NEW s \in Subs
    PROVE  /\ ss[s].exists \in BOOLEAN
           /\ ss[s].exists => ss[s] \in SubscriptionRow
           /\ ss[s] \in SubscriptionRow => ss[s].exists
<1>1. ss[s] \in SubscriptionRow \/ ss[s] = NoRow
  BY DEF SubscriptionTable
<1>2. ASSUME NEW row \in SubscriptionRow PROVE row.exists = TRUE
  BY DEF SubscriptionRow
<1>3. NoRow.exists = FALSE
  BY DEF NoRow
<1> QED
  BY <1>1, <1>2, <1>3

(* One entry of Watched *)
Watch(o, rs, ss, m) ==
    IF o.at \in Evaluating
    THEN [o EXCEPT !.due = @ \cap Due(rs, ss, m), !.seen = @ \cup Seen(rs, ss, m)]
    ELSE o

LEMMA WatchedIsWatch ==
    ASSUME NEW clerks, NEW rs, NEW ss, NEW m
    PROVE  Watched(clerks, rs, ss, m) = [w \in Clerks |-> Watch(clerks[w], rs, ss, m)]
  BY DEF Watched, Watch

LEMMA HistoryTypes ==
    ASSUME NEW rs \in RuleTable, NEW ss \in SubscriptionTable,
           NEW m \in [Subjects -> Values \cup {NoValue}]
    PROVE  Due(rs, ss, m) \in DuePairs /\ Seen(rs, ss, m) \in SUBSET Sighting
<1>1. Due(rs, ss, m) \in DuePairs
  BY DEF Due, DuePairs
<1>2. ASSUME NEW r \in Rules, Applies(rs[r])
      PROVE  <<"rule", r, rs[r].threshold>> \in Sighting
  <2>1. rs[r].threshold \in Values
    BY <1>2, RuleExists DEF Applies, RuleRow
  <2> QED
    BY <2>1 DEF Sighting
<1>3. ASSUME NEW s \in Subs
      PROVE  <<"subscription", s>> \in Sighting
  BY DEF Sighting
<1>4. ASSUME NEW t \in Subjects
      PROVE  <<"metric", t, m[t]>> \in Sighting
  <2>1. m[t] \in Values \cup {NoValue}
    OBVIOUS
  <2> QED
    BY <2>1 DEF Sighting
<1> QED
  BY <1>1, <1>2, <1>3, <1>4 DEF Seen

(* The states an evaluation passes through tell themselves apart. *)
LEMMA StateOf ==
    ASSUME NEW o \in ClerkState
    PROVE  /\ o.at = "rule" => o \in RuleEdit
           /\ o.at = "subscription" => o \in SubscriptionEdit
           /\ o.at = "rules" => o \in Beginning
           /\ o.at = "subscriptions" => o \in Reading
           /\ o.at = "loop" => o \in Looping
           /\ o.at \in {"idle", "rule", "subscription"} \cup Evaluating
           /\ o.at = "idle" => o = Idle
  BY DEF ClerkState, Idle, RuleEdit, SubscriptionEdit, Beginning, Reading, Looping, Evaluating

LEMMA WatchType ==
    ASSUME NEW o \in ClerkState, NEW rs, NEW ss, NEW m,
           Due(rs, ss, m) \in DuePairs, Seen(rs, ss, m) \in SUBSET Sighting
    PROVE  Watch(o, rs, ss, m) \in ClerkState
<1>1. PICK d \in DuePairs : d = Due(rs, ss, m)
  OBVIOUS
<1>2. PICK n \in SUBSET Sighting : n = Seen(rs, ss, m)
  OBVIOUS
<1>3. CASE o.at \notin Evaluating
  BY <1>3 DEF Watch
<1>4. CASE o.at \in Evaluating
  <2>1. Watch(o, rs, ss, m) = [o EXCEPT !.due = @ \cap d, !.seen = @ \cup n]
    BY <1>1, <1>2, <1>4 DEF Watch
  <2>2. CASE o.at = "rules"
    <3>1. o \in Beginning
      BY <2>2, StateOf
    <3>2. [o EXCEPT !.due = @ \cap d, !.seen = @ \cup n] \in Beginning
      BY <3>1 DEF Beginning, DuePairs
    <3> QED
      BY <2>1, <3>2 DEF ClerkState
  <2>3. CASE o.at = "subscriptions"
    <3>1. o \in Reading
      BY <2>3, StateOf
    <3>2. [o EXCEPT !.due = @ \cap d, !.seen = @ \cup n] \in Reading
      BY <3>1 DEF Reading, DuePairs
    <3> QED
      BY <2>1, <3>2 DEF ClerkState
  <2>4. CASE o.at = "loop"
    <3>1. o \in Looping
      BY <2>4, StateOf
    <3>2. [o EXCEPT !.due = @ \cap d, !.seen = @ \cup n] \in Looping
      BY <3>1 DEF Looping, DuePairs
    <3> QED
      BY <2>1, <3>2 DEF ClerkState
  <2> QED
    BY <1>4, <2>2, <2>3, <2>4 DEF Evaluating
<1> QED
  BY <1>3, <1>4

(* What watching leaves alone *)
LEMMA WatchFields ==
    ASSUME NEW o \in ClerkState, NEW rs, NEW ss, NEW m
    PROVE  LET p == Watch(o, rs, ss, m)
           IN  /\ p.at = o.at
               /\ o.at \notin Evaluating => p = o
               /\ o.at \in Evaluating => /\ p.due = o.due \cap Due(rs, ss, m)
                                         /\ p.seen = o.seen \cup Seen(rs, ss, m)
               /\ o.at \in {"subscriptions", "loop"} => p.rules = o.rules /\ p.todo = o.todo
               /\ o.at = "loop" => p.subs = o.subs /\ p.fired = o.fired /\ p.pending = o.pending
<1>1. PICK d : d = Due(rs, ss, m)
  OBVIOUS
<1>2. PICK n : n = Seen(rs, ss, m)
  OBVIOUS
<1>3. CASE o.at \notin Evaluating
  BY <1>3 DEF Watch, Evaluating
<1>4. CASE o.at \in Evaluating
  <2>1. Watch(o, rs, ss, m) = [o EXCEPT !.due = @ \cap d, !.seen = @ \cup n]
    BY <1>1, <1>2, <1>4 DEF Watch
  <2>2. CASE o.at = "rules"
    <3>1. o \in Beginning
      BY <2>2, StateOf
    <3> QED
      BY <1>1, <1>2, <1>4, <2>1, <2>2, <3>1 DEF Beginning
  <2>3. CASE o.at = "subscriptions"
    <3>1. o \in Reading
      BY <2>3, StateOf
    <3> QED
      BY <1>1, <1>2, <1>4, <2>1, <2>3, <3>1 DEF Reading
  <2>4. CASE o.at = "loop"
    <3>1. o \in Looping
      BY <2>4, StateOf
    <3> QED
      BY <1>1, <1>2, <1>4, <2>1, <2>4, <3>1 DEF Looping
  <2> QED
    BY <1>4, <2>2, <2>3, <2>4 DEF Evaluating
<1> QED
  BY <1>3, <1>4

LEMMA SameRulesTransitive ==
    ASSUME NEW a, NEW b, NEW c, SameRules(a, b), SameRules(b, c)
    PROVE  SameRules(a, c)
  BY DEF SameRules

LEMMA SameSubscriptionsTransitive ==
    ASSUME NEW a, NEW b, NEW c, SameSubscriptions(a, b), SameSubscriptions(b, c)
    PROVE  SameSubscriptions(a, c)
  BY DEF SameSubscriptions

(* Whatever edits and evidence are committed, what a request holds stays   *)
(* consistent, its history watched.                                        *)
LEMMA WatchOK ==
    ASSUME NEW o \in ClerkState, NEW rs, NEW ss, NEW m, ClerkOK(o, rs, ss, m),
           NEW rs2, NEW ss2, NEW m2,
           SameRules(rs, rs2), SameSubscriptions(ss, ss2)
    PROVE  ClerkOK(Watch(o, rs2, ss2, m2), rs2, ss2, m2)
<1>1. PICK p : p = Watch(o, rs2, ss2, m2)
  OBVIOUS
<1>2. p.at = o.at /\ (o.at \notin Evaluating => p = o)
  BY <1>1, WatchFields
<1>3. o.at \in Evaluating => p.due = o.due \cap Due(rs2, ss2, m2) /\ p.seen = o.seen \cup Seen(rs2, ss2, m2)
  BY <1>1, WatchFields
<1>4. o.at \in {"subscriptions", "loop"} => p.rules = o.rules /\ p.todo = o.todo
  BY <1>1, WatchFields
<1>5. o.at = "loop" => p.subs = o.subs /\ p.fired = o.fired /\ p.pending = o.pending
  BY <1>1, WatchFields
<1>6. EditOK(p, rs2, ss2)
  <2>1. CASE o.at = "rule"
    <3>1. o \in RuleEdit /\ p = o
      BY <1>2, <2>1, StateOf DEF Evaluating
    <3> QED
      BY <2>1, <3>1 DEF ClerkOK, EditOK, SameRules, RuleEdit
  <2>2. CASE o.at = "subscription"
    <3>1. o \in SubscriptionEdit /\ p = o
      BY <1>2, <2>2, StateOf DEF Evaluating
    <3> QED
      BY <2>2, <3>1 DEF ClerkOK, EditOK, SameSubscriptions, SubscriptionEdit
  <2> QED
    BY <1>2, <2>1, <2>2 DEF EditOK
<1>7. HistoryOK(p, rs2, ss2, m2)
  BY <1>2, <1>3 DEF HistoryOK
<1>8. RulesOK(p, rs2)
  <2>1. CASE o.at \in {"subscriptions", "loop"}
    <3>1. RulesOK(o, rs)
      BY DEF ClerkOK
    <3>2. SameRules(p.rules, rs2)
      BY <1>4, <2>1, <3>1, SameRulesTransitive DEF RulesOK
    <3>3. p.due \subseteq o.due /\ o.seen \subseteq p.seen
      BY <1>3, <2>1 DEF Evaluating
    <3> QED
      BY <1>2, <1>4, <2>1, <3>1, <3>2, <3>3 DEF RulesOK
  <2> QED
    BY <1>2, <2>1 DEF RulesOK
<1>9. SubscriptionsOK(p, ss2)
  <2>1. CASE o.at = "loop"
    <3>1. SubscriptionsOK(o, ss)
      BY DEF ClerkOK
    <3>2. SameSubscriptions(p.subs, ss2)
      BY <1>5, <2>1, <3>1, SameSubscriptionsTransitive DEF SubscriptionsOK
    <3>3. p.due \subseteq o.due /\ o.seen \subseteq p.seen
      BY <1>3, <2>1 DEF Evaluating
    <3> QED
      BY <1>2, <1>5, <2>1, <3>1, <3>2, <3>3 DEF SubscriptionsOK
  <2> QED
    BY <1>2, <2>1 DEF SubscriptionsOK
<1>10. DueOK(p)
  <2>1. o.at \in {"subscriptions", "loop"} => p.due \subseteq o.due
    BY <1>3 DEF Evaluating
  <2>2. DueOK(o)
    BY DEF ClerkOK
  <2> QED
    BY <1>2, <1>4, <1>5, <2>1, <2>2 DEF DueOK
<1>11. PendingOK(p)
  <2>1. CASE o.at = "loop"
    <3>1. o.seen \subseteq p.seen
      BY <1>3, <2>1 DEF Evaluating
    <3>2. Triples(p) = Triples(o)
      BY <1>5, <2>1 DEF Triples
    <3>3. PendingOK(o)
      BY DEF ClerkOK
    <3> QED
      BY <1>2, <1>4, <1>5, <2>1, <3>1, <3>2, <3>3 DEF PendingOK
  <2> QED
    BY <1>2, <2>1 DEF PendingOK
<1> QED
  BY <1>1, <1>6, <1>7, <1>8, <1>9, <1>10, <1>11 DEF ClerkOK

-----------------------------------------------------------------------------
(* Steps *)

LEMMA IdleOK ==
    ASSUME NEW rs, NEW ss, NEW m
    PROVE  Idle \in ClerkState /\ ClerkOK(Idle, rs, ss, m)
  BY DEF Idle, ClerkState, ClerkOK, EditOK, HistoryOK, RulesOK, SubscriptionsOK, DueOK, PendingOK,
         Evaluating

(* A step that changes tables: every request watches it. *)
LEMMA TablesStep ==
    ASSUME AlertInv, NEW held \in [Clerks -> ClerkState],
           \A w \in Clerks : ClerkOK(held[w], rules, subs, metric),
           NEW rs \in RuleTable, NEW ss \in SubscriptionTable,
           NEW m \in [Subjects -> Values \cup {NoValue}],
           SameRules(rules, rs), SameSubscriptions(subs, ss),
           rules' = rs, subs' = ss, metric' = m,
           clerk' = Watched(held, rs, ss, m),
           notifications' = notifications, evaluations' = evaluations
    PROVE  AlertInv'
<1>1. clerk' = [x \in Clerks |-> Watch(held[x], rs, ss, m)]
  BY WatchedIsWatch
<1>2. ASSUME NEW x \in Clerks
      PROVE  /\ Watch(held[x], rs, ss, m) \in ClerkState
             /\ ClerkOK(Watch(held[x], rs, ss, m), rs, ss, m)
  <2>1. held[x] \in ClerkState
    OBVIOUS
  <2> QED
    BY <2>1, HistoryTypes, WatchType, WatchOK
<1>3. clerk' \in [Clerks -> ClerkState]
  BY <1>1, <1>2
<1>4. Typed'
  BY <1>3 DEF AlertInv, Typed
<1>5. ASSUME NEW x \in Clerks
      PROVE  ClerkOK(clerk'[x], rules', subs', metric')
  <2>1. clerk'[x] = Watch(held[x], rs, ss, m)
    BY <1>1
  <2> QED
    BY <1>2, <2>1
<1> QED
  BY <1>4, <1>5 DEF AlertInv

(* A step of one request that changes no table *)
LEMMA ClerkStep ==
    ASSUME AlertInv, NEW w \in Clerks, NEW o \in ClerkState, ClerkOK(o, rules, subs, metric),
           clerk' = [clerk EXCEPT ![w] = o],
           rules' = rules, subs' = subs, metric' = metric,
           notifications' \subseteq Notice, evaluations' \in Nat
    PROVE  AlertInv'
<1>1. Typed'
  BY DEF AlertInv, Typed
<1>2. ASSUME NEW x \in Clerks
      PROVE  ClerkOK(clerk'[x], rules', subs', metric')
  BY <1>2 DEF AlertInv, Typed
<1> QED
  BY <1>1, <1>2 DEF AlertInv

LEMMA AlertInit_Inv == AlertInit => AlertInv
<1> SUFFICES ASSUME AlertInit PROVE AlertInv
  OBVIOUS
<1>1. Typed
  BY IdleOK DEF AlertInit, Typed, RuleTable, SubscriptionTable
<1>2. ASSUME NEW w \in Clerks
      PROVE  ClerkOK(clerk[w], rules, subs, metric)
  <2>1. clerk[w] = Idle
    BY DEF AlertInit
  <2> QED
    BY <2>1, IdleOK
<1> QED
  BY <1>1, <1>2 DEF AlertInv

LEMMA CreateRuleStep ==
    ASSUME AlertInv, NEW r \in Rules, NEW c \in RuleConfigs, CreateAlertRule(r, c)
    PROVE  AlertInv'
<1>1. rules \in RuleTable /\ clerk \in [Clerks -> ClerkState]
  BY DEF AlertInv, Typed
<1>2. NewRule(c) \in RuleRow
  BY EarlyWarningAssumption DEF NewRule, RuleRow
<1>3. PICK rs \in RuleTable : rs = [rules EXCEPT ![r] = NewRule(c)]
  BY <1>1, <1>2 DEF RuleTable
<1>4. ~rules[r].exists
  BY <1>1 DEF CreateAlertRule, Fresh, RuleTable
<1>5. SameRules(rules, rs)
  BY <1>1, <1>3, <1>4 DEF SameRules, RuleTable
<1>6. SameSubscriptions(subs, subs)
  BY DEF SameSubscriptions
<1> QED
  BY <1>1, <1>3, <1>5, <1>6, TablesStep DEF CreateAlertRule, AlertInv, Typed

LEMMA ValidRecipients ==
    ASSUME NEW c \in SubConfigs, ValidSubscription(c)
    PROVE  NewSubscription(c) \in SubscriptionRow
<1>1. c \in [hazard : {HazardType, "OTHER", None}, channels : SUBSET NotificationChannelType,
             email : BOOLEAN, phone : BOOLEAN]
  BY EarlyWarningAssumption
<1>2. ASSUME NEW x \in c.channels
      PROVE  HasRecipient(x, NewSubscription(c))
  <2>1. x \in {"EMAIL", "SMS", "IN_APP"}
    BY <1>1 DEF NotificationChannelType
  <2>2. NewSubscription(c).email = c.email /\ NewSubscription(c).phone = c.phone
    BY DEF NewSubscription
  <2>3. CASE x = "EMAIL"
    BY <2>2, <2>3 DEF HasRecipient, ValidSubscription
  <2>4. CASE x = "SMS"
    BY <2>2, <2>4 DEF HasRecipient, ValidSubscription
  <2>5. CASE x = "IN_APP"
    BY <2>5 DEF HasRecipient
  <2> QED
    BY <2>1, <2>3, <2>4, <2>5
<1>3. NewSubscription(c).channels = c.channels
  BY DEF NewSubscription
<1> QED
  BY <1>1, <1>2, <1>3 DEF NewSubscription, SubscriptionRow

LEMMA CreateSubscriptionStep ==
    ASSUME AlertInv, NEW s \in Subs, NEW c \in SubConfigs, CreateNotificationSubscription(s, c)
    PROVE  AlertInv'
<1>1. subs \in SubscriptionTable /\ clerk \in [Clerks -> ClerkState]
  BY DEF AlertInv, Typed
<1>2. NewSubscription(c) \in SubscriptionRow
  BY ValidRecipients DEF CreateNotificationSubscription
<1>3. PICK ss \in SubscriptionTable : ss = [subs EXCEPT ![s] = NewSubscription(c)]
  BY <1>1, <1>2 DEF SubscriptionTable
<1>4. ~subs[s].exists
  BY <1>1 DEF CreateNotificationSubscription, Fresh, SubscriptionTable
<1>5. SameSubscriptions(subs, ss)
  BY <1>1, <1>3, <1>4 DEF SameSubscriptions, SubscriptionTable
<1>6. SameRules(rules, rules)
  BY DEF SameRules
<1> QED
  BY <1>1, <1>3, <1>5, <1>6, TablesStep DEF CreateNotificationSubscription, AlertInv, Typed

(* The UPDATE changes what the command changed, and nothing else. *)
LEMMA UpdatedRule ==
    ASSUME NEW row \in RuleRow, NEW o \in RuleEdit,
           o.wanted.subject = o.loaded.subject, o.wanted.operator = o.loaded.operator
    PROVE  /\ UpdatedColumns(row, o) \in RuleRow
           /\ UpdatedColumns(row, o).subject = row.subject
           /\ UpdatedColumns(row, o).operator = row.operator
<1> DEFINE pick(column) ==
        IF o.wanted[column] # o.loaded[column] THEN o.wanted[column] ELSE row[column]
<1>1. o.wanted \in RuleRow /\ o.loaded \in RuleRow
  BY DEF RuleEdit
<1>2. DOMAIN row = {"exists", "active", "subject", "hazard", "operator", "threshold"}
  BY DEF RuleRow
<1>3. UpdatedColumns(row, o) =
        [exists |-> pick("exists"), active |-> pick("active"), subject |-> pick("subject"),
         hazard |-> pick("hazard"), operator |-> pick("operator"),
         threshold |-> pick("threshold")]
  BY <1>2 DEF UpdatedColumns
<1>4. /\ pick("exists") = TRUE
      /\ pick("active") \in BOOLEAN
      /\ pick("subject") = row.subject
      /\ pick("hazard") \in {HazardType, "OTHER", None}
      /\ pick("operator") = row.operator
      /\ pick("threshold") \in Values
  BY <1>1 DEF RuleRow
<1>5. row.subject \in Subjects /\ row.operator \in AlertOperator
  BY DEF RuleRow
<1>6. PICK a \in BOOLEAN, h \in {HazardType, "OTHER", None}, v \in Values :
        a = pick("active") /\ h = pick("hazard") /\ v = pick("threshold")
  BY <1>4
<1>7. UpdatedColumns(row, o) =
        [exists |-> TRUE, active |-> a, subject |-> row.subject, hazard |-> h,
         operator |-> row.operator, threshold |-> v]
  BY <1>3, <1>4, <1>6
<1> QED
  BY <1>5, <1>7 DEF RuleRow

LEMMA UpdatedSubscription ==
    ASSUME NEW row \in SubscriptionRow, NEW o \in SubscriptionEdit,
           o.wanted.channels = o.loaded.channels, o.wanted.email = o.loaded.email,
           o.wanted.phone = o.loaded.phone
    PROVE  /\ UpdatedColumns(row, o) \in SubscriptionRow
           /\ UpdatedColumns(row, o).channels = row.channels
<1> DEFINE pick(column) ==
        IF o.wanted[column] # o.loaded[column] THEN o.wanted[column] ELSE row[column]
<1>1. o.wanted \in SubscriptionRow /\ o.loaded \in SubscriptionRow
  BY DEF SubscriptionEdit
<1>2. DOMAIN row = {"exists", "active", "hazard", "channels", "email", "phone"}
  BY DEF SubscriptionRow
<1>3. UpdatedColumns(row, o) =
        [exists |-> pick("exists"), active |-> pick("active"), hazard |-> pick("hazard"),
         channels |-> pick("channels"), email |-> pick("email"), phone |-> pick("phone")]
  BY <1>2 DEF UpdatedColumns
<1>4. /\ pick("exists") = TRUE
      /\ pick("active") \in BOOLEAN
      /\ pick("hazard") \in {HazardType, "OTHER", None}
      /\ pick("channels") = row.channels
      /\ pick("email") = row.email
      /\ pick("phone") = row.phone
  BY <1>1 DEF SubscriptionRow
<1>5. /\ row.channels \subseteq NotificationChannelType
      /\ row.email \in BOOLEAN /\ row.phone \in BOOLEAN
      /\ \A c \in row.channels : HasRecipient(c, row)
  BY DEF SubscriptionRow
<1>6. PICK a \in BOOLEAN, h \in {HazardType, "OTHER", None} :
        a = pick("active") /\ h = pick("hazard")
  BY <1>4
<1>7. UpdatedColumns(row, o) =
        [exists |-> TRUE, active |-> a, hazard |-> h, channels |-> row.channels,
         email |-> row.email, phone |-> row.phone]
  BY <1>3, <1>4, <1>6
<1>8. PICK new : new = UpdatedColumns(row, o)
  OBVIOUS
<1>9. new.channels = row.channels /\ new.email = row.email /\ new.phone = row.phone
  BY <1>7, <1>8
<1>10. ASSUME NEW c \in row.channels
       PROVE  HasRecipient(c, new)
  <2>1. c \in {"EMAIL", "SMS", "IN_APP"} /\ HasRecipient(c, row)
    BY <1>5 DEF NotificationChannelType
  <2>2. CASE c = "EMAIL"
    BY <1>9, <2>1, <2>2 DEF HasRecipient
  <2>3. CASE c = "SMS"
    BY <1>9, <2>1, <2>3 DEF HasRecipient
  <2>4. CASE c = "IN_APP"
    BY <2>4 DEF HasRecipient
  <2> QED
    BY <2>1, <2>2, <2>3, <2>4
<1>11. new \in [exists : {TRUE}, active : BOOLEAN, hazard : {HazardType, "OTHER", None},
                channels : SUBSET NotificationChannelType, email : BOOLEAN, phone : BOOLEAN]
  BY <1>5, <1>7, <1>8
<1> QED
  BY <1>8, <1>9, <1>10, <1>11 DEF SubscriptionRow

LEMMA SaveRuleStep ==
    ASSUME AlertInv, NEW w \in Clerks, SaveRule(w)
    PROVE  AlertInv'
<1>1. rules \in RuleTable /\ clerk \in [Clerks -> ClerkState] /\ ClerkOK(clerk[w], rules, subs, metric)
  BY DEF AlertInv, Typed
<1>2. PICK o \in RuleEdit : o = clerk[w]
  BY <1>1, StateOf DEF SaveRule
<1>3. /\ o.id \in Rules /\ rules[o.id].exists
      /\ o.wanted.subject = o.loaded.subject /\ o.wanted.operator = o.loaded.operator
  BY <1>1, <1>2 DEF ClerkOK, EditOK, RuleEdit
<1>4. rules[o.id] \in RuleRow
  BY <1>1, <1>3, RuleExists
<1>5. PICK rs \in RuleTable : rs = [rules EXCEPT ![o.id] = UpdatedColumns(rules[o.id], o)]
  BY <1>1, <1>3, <1>4, UpdatedRule DEF RuleTable
<1>6. SameRules(rules, rs)
  <2>1. UpdatedColumns(rules[o.id], o).exists
    BY <1>3, <1>4, UpdatedRule DEF RuleRow
  <2> QED
    BY <1>1, <1>3, <1>4, <1>5, <2>1, UpdatedRule DEF SameRules, RuleTable
<1>7. PICK held \in [Clerks -> ClerkState] : held = [clerk EXCEPT ![w] = Idle]
  BY <1>1, IdleOK
<1>8. ASSUME NEW x \in Clerks
      PROVE  ClerkOK(held[x], rules, subs, metric)
  BY <1>1, <1>7, IdleOK DEF AlertInv
<1>9. SameSubscriptions(subs, subs)
  BY DEF SameSubscriptions
<1> QED
  BY <1>2, <1>5, <1>6, <1>7, <1>8, <1>9, TablesStep DEF SaveRule, AlertInv, Typed

LEMMA SaveSubscriptionStep ==
    ASSUME AlertInv, NEW w \in Clerks, SaveSubscription(w)
    PROVE  AlertInv'
<1>1. /\ subs \in SubscriptionTable /\ clerk \in [Clerks -> ClerkState]
      /\ ClerkOK(clerk[w], rules, subs, metric)
  BY DEF AlertInv, Typed
<1>2. PICK o \in SubscriptionEdit : o = clerk[w]
  BY <1>1, StateOf DEF SaveSubscription
<1>3. /\ o.id \in Subs /\ subs[o.id].exists
      /\ o.wanted.channels = o.loaded.channels /\ o.wanted.email = o.loaded.email
      /\ o.wanted.phone = o.loaded.phone
  BY <1>1, <1>2 DEF ClerkOK, EditOK, SubscriptionEdit
<1>4. subs[o.id] \in SubscriptionRow
  BY <1>1, <1>3, SubscriptionExists
<1>5. PICK ss \in SubscriptionTable : ss = [subs EXCEPT ![o.id] = UpdatedColumns(subs[o.id], o)]
  BY <1>1, <1>3, <1>4, UpdatedSubscription DEF SubscriptionTable
<1>6. SameSubscriptions(subs, ss)
  <2>1. UpdatedColumns(subs[o.id], o).exists
    BY <1>3, <1>4, UpdatedSubscription DEF SubscriptionRow
  <2> QED
    BY <1>1, <1>3, <1>4, <1>5, <2>1, UpdatedSubscription DEF SameSubscriptions, SubscriptionTable
<1>7. PICK held \in [Clerks -> ClerkState] : held = [clerk EXCEPT ![w] = Idle]
  BY <1>1, IdleOK
<1>8. ASSUME NEW x \in Clerks
      PROVE  ClerkOK(held[x], rules, subs, metric)
  BY <1>1, <1>7, IdleOK DEF AlertInv
<1>9. SameRules(rules, rules)
  BY DEF SameRules
<1> QED
  BY <1>2, <1>5, <1>6, <1>7, <1>8, <1>9, TablesStep DEF SaveSubscription, AlertInv, Typed

LEMMA EvidenceStep ==
    ASSUME AlertInv, NEW t \in Subjects, NEW v \in Values \cup {NoValue}, NewEvidence(t, v)
    PROVE  AlertInv'
<1>1. metric \in [Subjects -> Values \cup {NoValue}] /\ clerk \in [Clerks -> ClerkState]
  BY DEF AlertInv, Typed
<1>2. PICK m \in [Subjects -> Values \cup {NoValue}] : m = [metric EXCEPT ![t] = v]
  BY <1>1
<1>3. SameRules(rules, rules) /\ SameSubscriptions(subs, subs)
  BY DEF SameRules, SameSubscriptions
<1> QED
  BY <1>1, <1>2, <1>3, TablesStep DEF NewEvidence, AlertInv, Typed


LEMMA GetRuleStep ==
    ASSUME AlertInv, NEW w \in Clerks, NEW r \in Rules, rules[r].exists, NEW wanted \in RuleRow,
           wanted.subject = rules[r].subject, wanted.operator = rules[r].operator,
           GetOwnedRule(w, r, wanted)
    PROVE  AlertInv'
<1>1. rules[r] \in RuleRow
  BY RuleExists DEF AlertInv, Typed
<1>2. PICK o \in RuleEdit : o = [at |-> "rule", id |-> r, loaded |-> rules[r], wanted |-> wanted]
  BY <1>1 DEF RuleEdit
<1>3. o.at = "rule" /\ o.id = r /\ o.loaded = rules[r] /\ o.wanted = wanted
  BY <1>2
<1>4. ClerkOK(o, rules, subs, metric)
  BY <1>3 DEF ClerkOK, EditOK, HistoryOK, RulesOK, SubscriptionsOK, DueOK, PendingOK, Evaluating
<1>5. o \in ClerkState
  BY DEF ClerkState
<1> QED
  BY <1>2, <1>4, <1>5, ClerkStep DEF GetOwnedRule, AlertInv, Typed

LEMMA EditRuleStep ==
    ASSUME AlertInv, NEW w \in Clerks, NEW r \in Rules,
           \/ \E v \in Values : UpdateAlertRuleThreshold(w, r, v)
           \/ ActivateAlertRule(w, r)
           \/ DeactivateAlertRule(w, r)
    PROVE  AlertInv'
<1>1. rules[r].exists
  BY DEF UpdateAlertRuleThreshold, ActivateAlertRule, DeactivateAlertRule
<1>2. rules[r] \in RuleRow
  BY <1>1, RuleExists DEF AlertInv, Typed
<1>3. PICK wanted : /\ GetOwnedRule(w, r, wanted)
                    /\ \/ \E v \in Values : wanted = [rules[r] EXCEPT !.threshold = v]
                       \/ \E b \in BOOLEAN : wanted = [rules[r] EXCEPT !.active = b]
  BY DEF UpdateAlertRuleThreshold, ActivateAlertRule, DeactivateAlertRule
<1>4. /\ wanted \in RuleRow
      /\ wanted.subject = rules[r].subject /\ wanted.operator = rules[r].operator
  BY <1>2, <1>3 DEF RuleRow
<1> QED
  BY <1>1, <1>3, <1>4, GetRuleStep

LEMMA EditSubscriptionStep ==
    ASSUME AlertInv, NEW w \in Clerks, NEW s \in Subs,
           ActivateNotificationSubscription(w, s) \/ DeactivateNotificationSubscription(w, s)
    PROVE  AlertInv'
<1>1. subs[s].exists
  BY DEF ActivateNotificationSubscription, DeactivateNotificationSubscription
<1>2. subs[s] \in SubscriptionRow
  BY <1>1, SubscriptionExists DEF AlertInv, Typed
<1>3. PICK b \in BOOLEAN : GetOwnedSubscription(w, s, [subs[s] EXCEPT !.active = b])
  BY DEF ActivateNotificationSubscription, DeactivateNotificationSubscription
<1>4. PICK wanted : wanted = [subs[s] EXCEPT !.active = b]
  OBVIOUS
<1>5. /\ wanted \in [exists : {TRUE}, active : BOOLEAN, hazard : {HazardType, "OTHER", None},
                     channels : SUBSET NotificationChannelType, email : BOOLEAN, phone : BOOLEAN]
      /\ wanted.channels = subs[s].channels
      /\ wanted.email = subs[s].email /\ wanted.phone = subs[s].phone
  BY <1>2, <1>4 DEF SubscriptionRow
<1>6. ASSUME NEW c \in wanted.channels
      PROVE  HasRecipient(c, wanted)
  <2>1. c \in {"EMAIL", "SMS", "IN_APP"} /\ HasRecipient(c, subs[s])
    BY <1>2, <1>5 DEF NotificationChannelType, SubscriptionRow
  <2>2. CASE c = "EMAIL"
    BY <1>5, <2>1, <2>2 DEF HasRecipient
  <2>3. CASE c = "SMS"
    BY <1>5, <2>1, <2>3 DEF HasRecipient
  <2>4. CASE c = "IN_APP"
    BY <2>4 DEF HasRecipient
  <2> QED
    BY <2>1, <2>2, <2>3, <2>4
<1>7. wanted \in SubscriptionRow
  BY <1>5, <1>6 DEF SubscriptionRow
<1>8. PICK o \in SubscriptionEdit :
        o = [at |-> "subscription", id |-> s, loaded |-> subs[s], wanted |-> wanted]
  BY <1>2, <1>7 DEF SubscriptionEdit
<1>9. o.at = "subscription" /\ o.id = s /\ o.loaded = subs[s] /\ o.wanted = wanted
  BY <1>8
<1>10. ClerkOK(o, rules, subs, metric)
  BY <1>1, <1>5, <1>9
     DEF ClerkOK, EditOK, HistoryOK, RulesOK, SubscriptionsOK, DueOK, PendingOK, Evaluating
<1>11. o \in ClerkState
  BY DEF ClerkState
<1> QED
  BY <1>3, <1>4, <1>8, <1>10, <1>11, ClerkStep DEF GetOwnedSubscription, AlertInv, Typed

LEMMA BeginStep ==
    ASSUME AlertInv, NEW w \in Clerks, BeginEvaluation(w)
    PROVE  AlertInv'
<1>1. PICK due \in DuePairs, seen \in SUBSET Sighting :
        due = Due(rules, subs, metric) /\ seen = Seen(rules, subs, metric)
  BY HistoryTypes DEF AlertInv, Typed
<1>2. PICK k \in Nat : k = evaluations + 1
  BY DEF AlertInv, Typed
<1>3. PICK o \in Beginning : o = [at |-> "rules", run |-> k, due |-> due, seen |-> seen]
  BY DEF Beginning
<1>4. o.at = "rules" /\ o.due = due /\ o.seen = seen
  BY <1>3
<1>5. ClerkOK(o, rules, subs, metric)
  BY <1>1, <1>4 DEF ClerkOK, EditOK, HistoryOK, RulesOK, SubscriptionsOK, DueOK, PendingOK, Evaluating
<1>6. o \in ClerkState
  BY DEF ClerkState
<1> QED
  BY <1>1, <1>2, <1>3, <1>5, <1>6, ClerkStep DEF BeginEvaluation, AlertInv, Typed

LEMMA ReadRulesStep ==
    ASSUME AlertInv, NEW w \in Clerks, ReadRules(w)
    PROVE  AlertInv'
<1>1. rules \in RuleTable /\ clerk \in [Clerks -> ClerkState] /\ ClerkOK(clerk[w], rules, subs, metric)
  BY DEF AlertInv, Typed
<1>2. PICK p \in Beginning : p = clerk[w]
  BY <1>1, StateOf DEF ReadRules
<1> DEFINE todo == {r \in Rules : Applies(rules[r])}
<1>3. PICK o \in Reading :
        o = [at |-> "subscriptions", run |-> p.run, due |-> p.due, seen |-> p.seen,
             todo |-> todo, rules |-> rules]
  BY <1>1 DEF Beginning, Reading
<1>4. /\ o.at = "subscriptions" /\ o.due = p.due /\ o.seen = p.seen
      /\ o.todo = todo /\ o.rules = rules
  BY <1>3
<1>5. /\ p.due \subseteq Due(rules, subs, metric) /\ Seen(rules, subs, metric) \subseteq p.seen
  BY <1>1, <1>2 DEF ClerkOK, HistoryOK, Beginning, Evaluating
<1>6. RulesOK(o, rules)
  <2>1. SameRules(rules, rules)
    BY DEF SameRules
  <2>2. ASSUME NEW r \in Rules, Applies(rules[r])
        PROVE  <<"rule", r, rules[r].threshold>> \in p.seen
    BY <1>5, <2>2 DEF Seen
  <2>3. ASSUME NEW d \in p.due
        PROVE  Applies(rules[d[1]]) /\ rules[d[1]].threshold = d[3]
    BY <1>5 DEF Due
  <2> QED
    BY <1>4, <2>1, <2>2, <2>3 DEF RulesOK
<1>7. DueOK(o)
  BY <1>4, <1>5 DEF DueOK, Due
<1>8. ClerkOK(o, rules, subs, metric)
  BY <1>4, <1>5, <1>6, <1>7
     DEF ClerkOK, EditOK, HistoryOK, SubscriptionsOK, PendingOK, Evaluating
<1>9. o \in ClerkState
  BY DEF ClerkState
<1> QED
  BY <1>1, <1>2, <1>3, <1>8, <1>9, ClerkStep DEF ReadRules, AlertInv, Typed

LEMMA ReadSubscriptionsStep ==
    ASSUME AlertInv, NEW w \in Clerks, ReadSubscriptions(w)
    PROVE  AlertInv'
<1>1. subs \in SubscriptionTable /\ clerk \in [Clerks -> ClerkState] /\ ClerkOK(clerk[w], rules, subs, metric)
  BY DEF AlertInv, Typed
<1>2. PICK p \in Reading : p = clerk[w]
  BY <1>1, StateOf DEF ReadSubscriptions
<1>3. PICK o \in Looping :
        o = [at |-> "loop", run |-> p.run, due |-> p.due, seen |-> p.seen, todo |-> p.todo,
             rules |-> p.rules, subs |-> subs, fired |-> {}, pending |-> {}]
  BY <1>1 DEF Reading, Looping
<1>4. /\ o.at = "loop" /\ o.due = p.due /\ o.seen = p.seen /\ o.todo = p.todo
      /\ o.rules = p.rules /\ o.subs = subs /\ o.fired = {} /\ o.pending = {}
  BY <1>3
<1>5. p.at = "subscriptions"
  BY DEF Reading
<1>6. p.due \subseteq Due(rules, subs, metric) /\ Seen(rules, subs, metric) \subseteq p.seen
  BY <1>1, <1>2, <1>5 DEF ClerkOK, HistoryOK, Evaluating
<1>7. RulesOK(o, rules)
  BY <1>1, <1>2, <1>4, <1>5 DEF ClerkOK, RulesOK
<1>8. SubscriptionsOK(o, subs)
  <2>1. SameSubscriptions(subs, subs)
    BY DEF SameSubscriptions
  <2>2. ASSUME NEW s \in Subs, Applies(subs[s])
        PROVE  <<"subscription", s>> \in p.seen
    BY <1>6, <2>2 DEF Seen
  <2>3. ASSUME NEW d \in p.due
        PROVE  Applies(subs[d[2]])
    BY <1>6 DEF Due
  <2> QED
    BY <1>4, <2>1, <2>2, <2>3 DEF SubscriptionsOK
<1>9. DueOK(o)
  BY <1>1, <1>2, <1>4, <1>5 DEF ClerkOK, DueOK
<1>10. PendingOK(o)
  <2>1. Triples(o) = {}
    BY <1>4 DEF Triples
  <2> QED
    BY <1>4, <2>1 DEF PendingOK
<1>11. ClerkOK(o, rules, subs, metric)
  BY <1>4, <1>6, <1>7, <1>8, <1>9, <1>10 DEF ClerkOK, EditOK, HistoryOK
<1>12. o \in ClerkState
  BY DEF ClerkState
<1> QED
  BY <1>1, <1>2, <1>3, <1>11, <1>12, ClerkStep DEF ReadSubscriptions, AlertInv, Typed

LEMMA LoseStep ==
    ASSUME AlertInv, NEW w \in Clerks, Lose(w)
    PROVE  AlertInv'
  BY IdleOK, ClerkStep DEF Lose, AlertInv, Typed

LEMMA CommitEvaluationStep ==
    ASSUME AlertInv, NEW w \in Clerks, CommitEvaluation(w)
    PROVE  AlertInv'
<1>1. clerk[w] \in Looping
  BY StateOf DEF CommitEvaluation, AlertInv, Typed
<1>2. clerk[w].pending \subseteq Notice
  BY <1>1 DEF Looping
<1>3. notifications' \subseteq Notice
  BY <1>2 DEF CommitEvaluation, AlertInv, Typed
<1> QED
  BY <1>3, IdleOK, ClerkStep DEF CommitEvaluation, AlertInv, Typed


(* Whom a rule that fires is sent to, by its triples *)
LEMMA TargetsAreTriples ==
    ASSUME NEW o \in Looping, NEW s \in Subs, NEW c \in NotificationChannelType
    PROVE  <<s, c>> \in Targets(o) <=> Applies(o.subs[s]) /\ c \in o.subs[s].channels
<1>1. o.subs \in SubscriptionTable
  BY DEF Looping
<1>2. ASSUME Applies(o.subs[s]), c \in o.subs[s].channels
      PROVE  HasRecipient(c, o.subs[s])
  <2>1. o.subs[s] \in SubscriptionRow
    BY <1>1, <1>2, SubscriptionExists DEF Applies
  <2> QED
    BY <1>2, <2>1 DEF SubscriptionRow
<1> QED
  BY <1>2 DEF Targets

(* The triples of one rule *)
TriplesOf(o, r) ==
    {t \in {r} \X Subs \X NotificationChannelType :
        Applies(o.subs[t[2]]) /\ t[3] \in o.subs[t[2]].channels}

LEMMA NewRow ==
    ASSUME NEW p \in Looping, NEW r \in Rules, p.rules[r] \in RuleRow,
           NEW value \in Values, Evaluate(p.rules[r].operator, value, p.rules[r].threshold),
           NEW s \in Subs, NEW c \in NotificationChannelType, NEW status \in {"SENT", "FAILED"},
           NEW n, n = NewNotification(p, r, value, <<s, c>>, status)
    PROVE  /\ n \in Notice
           /\ n.rule = r /\ n.value = value /\ n.threshold = p.rules[r].threshold
           /\ n.sub = s /\ n.channel = c
           /\ TripleOf(n) = <<r, s, c>>
<1>1. n = [run |-> p.run, rule |-> r, sub |-> s, channel |-> c, status |-> status,
           value |-> value, operator |-> p.rules[r].operator, threshold |-> p.rules[r].threshold]
  BY DEF NewNotification
<1>2. p.run \in Nat /\ p.rules[r].operator \in AlertOperator /\ p.rules[r].threshold \in Values
  BY DEF RuleRow, Looping
<1>3. /\ n.rule = r /\ n.value = value /\ n.threshold = p.rules[r].threshold
      /\ n.sub = s /\ n.channel = c /\ n.operator = p.rules[r].operator
  BY <1>1
<1>4. n \in [run : Nat, rule : Rules, sub : Subs, channel : NotificationChannelType,
             status : {"SENT", "FAILED"}, value : Values, operator : AlertOperator,
             threshold : Values]
  BY <1>1, <1>2
<1>5. n \in Notice
  BY <1>3, <1>4 DEF Notice
<1> QED
  BY <1>3, <1>5 DEF TripleOf

(* What a rule that fires adds *)
RowsOf(o, r, value, d) == {NewNotification(o, r, value, t, d[t]) : t \in DOMAIN d}

(* A rule that fires adds one true row for each of its triples. *)
LEMMA NewRows ==
    ASSUME NEW p \in Looping, NEW r \in Rules, p.rules[r] \in RuleRow,
           NEW value \in Values, Evaluate(p.rules[r].operator, value, p.rules[r].threshold),
           NEW d \in Deliveries(Targets(p)),
           NEW new, new = RowsOf(p, r, value, d)
    PROVE  /\ new \subseteq Notice
           /\ \A n \in new : /\ n.rule = r /\ n.value = value
                             /\ n.threshold = p.rules[r].threshold
                             /\ TripleOf(n) \in TriplesOf(p, r)
           /\ \A t \in TriplesOf(p, r) : \E n \in new : TripleOf(n) = t
           /\ \A n1, n2 \in new : TripleOf(n1) = TripleOf(n2) => n1 = n2
<1>1. DOMAIN d = Targets(p) /\ \A t \in Targets(p) : d[t] \in {"SENT", "FAILED"}
  BY DEF Deliveries
<1>2. ASSUME NEW n \in new
      PROVE  \E s \in Subs, c \in NotificationChannelType :
                 /\ <<s, c>> \in Targets(p)
                 /\ n = NewNotification(p, r, value, <<s, c>>, d[<<s, c>>])
  <2>1. PICK t \in Targets(p) : n = NewNotification(p, r, value, t, d[t])
    BY <1>1 DEF RowsOf
  <2>2. PICK s \in Subs, c \in NotificationChannelType : t = <<s, c>>
    BY DEF Targets
  <2> QED
    BY <2>1, <2>2
<1>3. ASSUME NEW n \in new
      PROVE  /\ n \in Notice
             /\ n.rule = r /\ n.value = value /\ n.threshold = p.rules[r].threshold
             /\ TripleOf(n) \in TriplesOf(p, r)
  <2>1. PICK s \in Subs, c \in NotificationChannelType :
          <<s, c>> \in Targets(p) /\ n = NewNotification(p, r, value, <<s, c>>, d[<<s, c>>])
    BY <1>2
  <2>2. d[<<s, c>>] \in {"SENT", "FAILED"}
    BY <1>1, <2>1
  <2>3. /\ n \in Notice
        /\ n.rule = r /\ n.value = value /\ n.threshold = p.rules[r].threshold
        /\ TripleOf(n) = <<r, s, c>>
    BY <2>1, <2>2, NewRow
  <2>4. Applies(p.subs[s]) /\ c \in p.subs[s].channels
    BY <2>1, TargetsAreTriples
  <2>5. <<r, s, c>> \in TriplesOf(p, r)
    BY <2>4 DEF TriplesOf
  <2> QED
    BY <2>3, <2>5
<1>4. ASSUME NEW t \in TriplesOf(p, r)
      PROVE  \E n \in new : TripleOf(n) = t
  <2>1. PICK s \in Subs, c \in NotificationChannelType :
          t = <<r, s, c>> /\ Applies(p.subs[s]) /\ c \in p.subs[s].channels
    BY DEF TriplesOf
  <2>2. <<s, c>> \in Targets(p)
    BY <2>1, TargetsAreTriples
  <2>3. PICK n : n = NewNotification(p, r, value, <<s, c>>, d[<<s, c>>])
    OBVIOUS
  <2>4. n \in new
    BY <1>1, <2>2, <2>3 DEF RowsOf
  <2>5. d[<<s, c>>] \in {"SENT", "FAILED"}
    BY <1>1, <2>2
  <2>6. TripleOf(n) = t
    BY <2>1, <2>3, <2>5, NewRow
  <2> QED
    BY <2>4, <2>6
<1>5. ASSUME NEW n1 \in new, NEW n2 \in new, TripleOf(n1) = TripleOf(n2)
      PROVE  n1 = n2
  <2>1. PICK s1 \in Subs, c1 \in NotificationChannelType :
          <<s1, c1>> \in Targets(p) /\ n1 = NewNotification(p, r, value, <<s1, c1>>, d[<<s1, c1>>])
    BY <1>2
  <2>2. PICK s2 \in Subs, c2 \in NotificationChannelType :
          <<s2, c2>> \in Targets(p) /\ n2 = NewNotification(p, r, value, <<s2, c2>>, d[<<s2, c2>>])
    BY <1>2
  <2>3. d[<<s1, c1>>] \in {"SENT", "FAILED"} /\ d[<<s2, c2>>] \in {"SENT", "FAILED"}
    BY <1>1, <2>1, <2>2
  <2>4. TripleOf(n1) = <<r, s1, c1>>
    BY <2>1, <2>3, NewRow
  <2>5. TripleOf(n2) = <<r, s2, c2>>
    BY <2>2, <2>3, NewRow
  <2>6. <<r, s1, c1>> = <<r, s2, c2>>
    BY <1>5, <2>4, <2>5
  <2>7. s1 = s2 /\ c1 = c2
    BY ONLY <2>6
  <2> QED
    BY <2>1, <2>2, <2>7
<1> QED
  BY <1>3, <1>4, <1>5

LEMMA FireOK ==
    ASSUME NEW p \in Looping, NEW rs, NEW ss, NEW m \in [Subjects -> Values \cup {NoValue}],
           ClerkOK(p, rs, ss, m), NEW r \in p.todo, NEW value, value = m[p.rules[r].subject],
           Met(p.rules[r], value), NEW d \in Deliveries(Targets(p)), NEW new,
           new = RowsOf(p, r, value, d), NEW o,
           o = [p EXCEPT !.todo = @ \ {r}, !.fired = @ \cup {r}, !.pending = @ \cup new]
    PROVE  o \in Looping /\ ClerkOK(o, rs, ss, m)
<1>1. p.at = "loop" /\ p.rules \in RuleTable /\ r \in Rules
  BY DEF Looping
<1>2. /\ HistoryOK(p, rs, ss, m) /\ RulesOK(p, rs) /\ SubscriptionsOK(p, ss)
      /\ DueOK(p) /\ PendingOK(p)
  BY DEF ClerkOK
<1>3. p.rules[r] \in RuleRow /\ Applies(p.rules[r])
  <2>1. Applies(p.rules[r])
    BY <1>1, <1>2 DEF RulesOK
  <2> QED
    BY <1>1, <2>1, RuleExists DEF Applies
<1>4. value \in Values /\ Evaluate(p.rules[r].operator, value, p.rules[r].threshold)
  <2>1. p.rules[r].subject \in Subjects
    BY <1>3 DEF RuleRow
  <2>2. value \in Values \cup {NoValue}
    BY <2>1
  <2> QED
    BY <2>2 DEF Met
<1>5. /\ new \subseteq Notice
      /\ \A n \in new : /\ n.rule = r /\ n.value = value
                        /\ n.threshold = p.rules[r].threshold
                        /\ TripleOf(n) \in TriplesOf(p, r)
      /\ \A t \in TriplesOf(p, r) : \E n \in new : TripleOf(n) = t
      /\ \A n1, n2 \in new : TripleOf(n1) = TripleOf(n2) => n1 = n2
  BY <1>1, <1>3, <1>4, NewRows
<1>6. o \in Looping
  BY <1>1, <1>5 DEF Looping
<1>7. /\ o.at = "loop" /\ o.due = p.due /\ o.seen = p.seen /\ o.todo = p.todo \ {r}
      /\ o.rules = p.rules /\ o.subs = p.subs /\ o.fired = p.fired \cup {r}
      /\ o.pending = p.pending \cup new
  BY DEF Looping
<1>8. HistoryOK(o, rs, ss, m) /\ RulesOK(o, rs) /\ SubscriptionsOK(o, ss)
  BY <1>1, <1>2, <1>7 DEF HistoryOK, RulesOK, SubscriptionsOK
<1>9. DueOK(o)
  BY <1>1, <1>2, <1>7 DEF DueOK
<1>10. r \notin p.fired
  BY <1>1, <1>2 DEF PendingOK
<1>11. Triples(o) = Triples(p) \cup TriplesOf(p, r)
  BY <1>7 DEF Triples, TriplesOf
<1>12. \A n \in p.pending : n.rule # r
  BY <1>1, <1>2, <1>10 DEF PendingOK, Triples, TripleOf
<1>13. <<"metric", p.rules[r].subject, value>> \in p.seen
  <2>1. Seen(rs, ss, m) \subseteq p.seen
    BY <1>1, <1>2 DEF HistoryOK, Evaluating
  <2>2. p.rules[r].subject \in Subjects
    BY <1>3 DEF RuleRow
  <2> QED
    BY <1>4, <2>1, <2>2 DEF Seen
<1>14. PendingOK(o)
  <2>1. o.fired \cap o.todo = {} /\ \A x \in o.fired : Applies(o.rules[x])
    BY <1>1, <1>2, <1>3, <1>7 DEF PendingOK
  <2>2. ASSUME NEW n \in p.pending
        PROVE  /\ TripleOf(n) \in Triples(p)
               /\ n.threshold = p.rules[n.rule].threshold
               /\ <<"metric", p.rules[n.rule].subject, n.value>> \in p.seen
    BY <1>1, <1>2 DEF PendingOK
  <2>3. ASSUME NEW n \in o.pending
        PROVE  /\ TripleOf(n) \in Triples(o)
               /\ n.threshold = o.rules[n.rule].threshold
               /\ <<"metric", o.rules[n.rule].subject, n.value>> \in o.seen
    <3>1. CASE n \in p.pending
      BY <1>7, <1>11, <2>2, <3>1
    <3>2. CASE n \in new
      BY <1>5, <1>7, <1>11, <1>13, <3>2
    <3> QED
      BY <1>7, <3>1, <3>2
  <2>4. ASSUME NEW t \in Triples(o)
        PROVE  \E n \in o.pending : TripleOf(n) = t
    <3>1. CASE t \in Triples(p)
      BY <1>1, <1>2, <1>7, <3>1 DEF PendingOK
    <3>2. CASE t \in TriplesOf(p, r)
      BY <1>5, <1>7, <3>2
    <3> QED
      BY <1>11, <3>1, <3>2
  <2>5. ASSUME NEW n1 \in o.pending, NEW n2 \in o.pending, TripleOf(n1) = TripleOf(n2)
        PROVE  n1 = n2
    <3>1. CASE n1 \in p.pending /\ n2 \in p.pending
      BY <1>1, <1>2, <2>5, <3>1 DEF PendingOK
    <3>2. CASE n1 \in new /\ n2 \in new
      BY <1>5, <2>5, <3>2
    <3>3. ASSUME NEW x \in p.pending, NEW y \in new
          PROVE  TripleOf(x) # TripleOf(y)
      BY <1>5, <1>12 DEF TripleOf
    <3> QED
      BY <1>7, <2>5, <3>1, <3>2, <3>3
  <2> QED
    BY <2>1, <2>3, <2>4, <2>5 DEF PendingOK
<1>15. EditOK(o, rs, ss)
  BY <1>7 DEF EditOK
<1> QED
  BY <1>6, <1>8, <1>9, <1>14, <1>15 DEF ClerkOK

(* A rule whose condition is not met has not been due throughout. *)
LEMMA SkipOK ==
    ASSUME NEW p \in Looping, NEW rs, NEW ss, NEW m, ClerkOK(p, rs, ss, m), NEW r \in p.todo,
           ~Met(p.rules[r], m[p.rules[r].subject]), NEW o, o = [p EXCEPT !.todo = @ \ {r}]
    PROVE  o \in Looping /\ ClerkOK(o, rs, ss, m)
<1>1. p.at = "loop" /\ r \in Rules
  BY DEF Looping
<1>2. /\ HistoryOK(p, rs, ss, m) /\ RulesOK(p, rs) /\ SubscriptionsOK(p, ss)
      /\ DueOK(p) /\ PendingOK(p)
  BY DEF ClerkOK
<1>3. o \in Looping
  BY DEF Looping
<1>4. /\ o.at = "loop" /\ o.due = p.due /\ o.seen = p.seen /\ o.todo = p.todo \ {r}
      /\ o.rules = p.rules /\ o.subs = p.subs /\ o.fired = p.fired /\ o.pending = p.pending
  BY DEF Looping
<1>5. HistoryOK(o, rs, ss, m) /\ RulesOK(o, rs) /\ SubscriptionsOK(o, ss)
  BY <1>1, <1>2, <1>4 DEF HistoryOK, RulesOK, SubscriptionsOK
<1>6. ASSUME NEW x \in p.due
      PROVE  x[1] # r
  <2>1. SUFFICES ASSUME x[1] = r PROVE FALSE
    OBVIOUS
  <2>2. x \in Due(rs, ss, m)
    BY <1>1, <1>2 DEF HistoryOK, Evaluating
  <2>3. Met(rs[r], m[rs[r].subject]) /\ rs[r].threshold = x[3]
    BY <2>1, <2>2 DEF Due
  <2>4. p.rules[r].exists /\ p.rules[r].threshold = x[3]
    BY <1>1, <1>2, <2>1 DEF RulesOK, Applies
  <2>5. rs[r].subject = p.rules[r].subject /\ rs[r].operator = p.rules[r].operator
    BY <1>1, <1>2, <2>4 DEF RulesOK, SameRules
  <2> QED
    BY <2>3, <2>4, <2>5 DEF Met
<1>7. DueOK(o)
  BY <1>1, <1>2, <1>4, <1>6 DEF DueOK
<1>8. PendingOK(o)
  <2>1. Triples(o) = Triples(p)
    BY <1>4 DEF Triples
  <2> QED
    BY <1>1, <1>2, <1>4, <2>1 DEF PendingOK
<1>9. EditOK(o, rs, ss)
  BY <1>4 DEF EditOK
<1> QED
  BY <1>3, <1>5, <1>7, <1>8, <1>9 DEF ClerkOK

LEMMA EvaluateRuleStep ==
    ASSUME AlertInv, NEW w \in Clerks, NEW r \in Rules, EvaluateRule(w, r)
    PROVE  AlertInv'
<1>1. /\ clerk \in [Clerks -> ClerkState] /\ notifications \subseteq Notice /\ evaluations \in Nat
      /\ metric \in [Subjects -> Values \cup {NoValue}]
      /\ ClerkOK(clerk[w], rules, subs, metric)
  BY DEF AlertInv, Typed
<1>2. clerk[w].at = "loop" /\ r \in clerk[w].todo
  BY DEF EvaluateRule
<1>3. PICK p \in Looping : p = clerk[w]
  BY <1>1, <1>2, StateOf
<1>4. PICK value : value = metric[p.rules[r].subject]
  OBVIOUS
<1>5. \E o \in Looping :
          ClerkOK(o, rules, subs, metric) /\ clerk' = [clerk EXCEPT ![w] = o]
  <2>1. CASE Met(p.rules[r], value) /\ Fire(w, r, value)
    <3>1. PICK d \in Deliveries(Targets(clerk[w])) :
            clerk' = [clerk EXCEPT ![w] =
                [clerk[w] EXCEPT
                    !.todo = @ \ {r},
                    !.fired = @ \cup {r},
                    !.pending = @ \cup RowsOf(clerk[w], r, value, d)]]
      BY <2>1 DEF Fire, RowsOf
    <3>2. PICK new : new = RowsOf(p, r, value, d)
      OBVIOUS
    <3>3. PICK o : o = [p EXCEPT !.todo = @ \ {r}, !.fired = @ \cup {r},
                                 !.pending = @ \cup new]
      OBVIOUS
    <3>4. clerk' = [clerk EXCEPT ![w] = o]
      <4>1. RowsOf(clerk[w], r, value, d) = new
        BY <1>3, <3>2
      <4>2. o = [clerk[w] EXCEPT !.todo = @ \ {r}, !.fired = @ \cup {r},
                                 !.pending = @ \cup RowsOf(clerk[w], r, value, d)]
        BY <1>3, <3>3, <4>1
      <4> QED
        BY <3>1, <4>2
    <3>5. o \in Looping /\ ClerkOK(o, rules, subs, metric)
      <4>1. d \in Deliveries(Targets(p))
        BY <1>3
      <4>2. ClerkOK(p, rules, subs, metric) /\ r \in p.todo
        BY <1>1, <1>2, <1>3
      <4> QED
        BY <1>1, <1>4, <2>1, <3>2, <3>3, <4>1, <4>2, FireOK
    <3> QED
      BY <3>4, <3>5
  <2>2. CASE ~Met(p.rules[r], value) /\ clerk' = [clerk EXCEPT ![w].todo = @ \ {r}]
    <3>1. PICK o : o = [p EXCEPT !.todo = @ \ {r}]
      OBVIOUS
    <3>2. clerk' = [clerk EXCEPT ![w] = o]
      BY <1>1, <1>3, <2>2, <3>1
    <3>3. o \in Looping /\ ClerkOK(o, rules, subs, metric)
      BY <1>1, <1>2, <1>3, <1>4, <2>2, <3>1, SkipOK
    <3> QED
      BY <3>2, <3>3
  <2> QED
    BY <1>3, <1>4, <2>1, <2>2 DEF EvaluateRule
<1> QED
  BY <1>1, <1>5, ClerkStep DEF EvaluateRule, ClerkState


LEMMA AlertStep == AlertInv /\ [AlertNext]_alertVars => AlertInv'
<1> SUFFICES ASSUME AlertInv, [AlertNext]_alertVars PROVE AlertInv'
  OBVIOUS
<1>1. ASSUME NEW r \in Rules, NEW c \in RuleConfigs, CreateAlertRule(r, c)
      PROVE  AlertInv'
  BY <1>1, CreateRuleStep
<1>2. ASSUME NEW s \in Subs, NEW c \in SubConfigs, CreateNotificationSubscription(s, c)
      PROVE  AlertInv'
  BY <1>2, CreateSubscriptionStep
<1>3. ASSUME NEW w \in Clerks, NEW r \in Rules,
             \/ \E v \in Values : UpdateAlertRuleThreshold(w, r, v)
             \/ ActivateAlertRule(w, r)
             \/ DeactivateAlertRule(w, r)
      PROVE  AlertInv'
  BY <1>3, EditRuleStep
<1>4. ASSUME NEW w \in Clerks, NEW s \in Subs,
             ActivateNotificationSubscription(w, s) \/ DeactivateNotificationSubscription(w, s)
      PROVE  AlertInv'
  BY <1>4, EditSubscriptionStep
<1>5. ASSUME NEW w \in Clerks, SaveRule(w) \/ SaveSubscription(w)
      PROVE  AlertInv'
  BY <1>5, SaveRuleStep, SaveSubscriptionStep
<1>6. ASSUME NEW w \in Clerks, BeginEvaluation(w) \/ ReadRules(w) \/ ReadSubscriptions(w)
      PROVE  AlertInv'
  BY <1>6, BeginStep, ReadRulesStep, ReadSubscriptionsStep
<1>7. ASSUME NEW w \in Clerks, NEW r \in Rules, EvaluateRule(w, r)
      PROVE  AlertInv'
  BY <1>7, EvaluateRuleStep
<1>8. ASSUME NEW w \in Clerks, CommitEvaluation(w) \/ Lose(w)
      PROVE  AlertInv'
  BY <1>8, CommitEvaluationStep, LoseStep
<1>9. ASSUME NEW t \in Subjects, NEW v \in Values \cup {NoValue}, NewEvidence(t, v)
      PROVE  AlertInv'
  BY <1>9, EvidenceStep
<1>10. CASE UNCHANGED alertVars
  BY <1>10 DEF alertVars, AlertInv, Typed
<1> QED
  BY <1>1, <1>2, <1>3, <1>4, <1>5, <1>6, <1>7, <1>8, <1>9, <1>10 DEF AlertNext

-----------------------------------------------------------------------------
(* What it implies *)

LEMMA TypesFollow == AlertInv => AlertTypeOK
<1> SUFFICES ASSUME AlertInv PROVE AlertTypeOK
  OBVIOUS
<1>1. ASSUME NEW r \in Rules, rules[r].exists
      PROVE  rules[r].active \in BOOLEAN /\ rules[r].threshold \in Values
  BY <1>1, RuleExists DEF AlertInv, Typed, RuleRow
<1>2. ASSUME NEW s \in Subs, subs[s].exists
      PROVE  subs[s].active \in BOOLEAN
  BY <1>2, SubscriptionExists DEF AlertInv, Typed, SubscriptionRow
<1>3. ASSUME NEW n \in notifications
      PROVE  /\ n.rule \in Rules /\ n.sub \in Subs /\ n.channel \in NotificationChannelType
             /\ n.status \in {"SENT", "FAILED"}
  BY DEF AlertInv, Typed, Notice
<1> QED
  BY <1>1, <1>2, <1>3 DEF AlertTypeOK, AlertInv, Typed

(* The rows of an evaluation are as many as its triples. *)
LEMMA RowsMatchTriples ==
    ASSUME NEW o \in Looping, PendingOK(o)
    PROVE  /\ {TripleOf(n) : n \in o.pending} = Triples(o)
           /\ Cardinality(o.pending) = Cardinality(Triples(o))
<1>1. /\ \A n \in o.pending : TripleOf(n) \in Triples(o)
      /\ \A t \in Triples(o) : \E n \in o.pending : TripleOf(n) = t
      /\ \A n1, n2 \in o.pending : TripleOf(n1) = TripleOf(n2) => n1 = n2
  BY DEF PendingOK, Looping
<1> DEFINE f == [t \in Triples(o) |-> CHOOSE n \in o.pending : TripleOf(n) = t]
<1>2. ASSUME NEW t \in Triples(o)
      PROVE  f[t] \in o.pending /\ TripleOf(f[t]) = t
  BY <1>1
<1>3. ASSUME NEW n \in o.pending
      PROVE  f[TripleOf(n)] = n
  BY <1>1, <1>2
<1> HIDE DEF f
<1>4. f \in [Triples(o) -> o.pending]
  <2>1. f = [t \in Triples(o) |-> f[t]]
    BY DEF f
  <2> QED
    BY <1>2, <2>1
<1>5. \A x, y \in Triples(o) : f[x] = f[y] => x = y
  BY <1>2
<1>6. \A n \in o.pending : \E t \in Triples(o) : f[t] = n
  BY <1>1, <1>3
<1>7. ExistsBijection(Triples(o), o.pending)
  BY <1>4, <1>5, <1>6, Fun_IsBij DEF ExistsBijection
<1>8. IsFiniteSet(Triples(o))
  <2>1. IsFiniteSet(o.fired) /\ IsFiniteSet(Subs)
    BY EarlyWarningAssumption, FS_Subset DEF Looping
  <2>2. IsFiniteSet(NotificationChannelType)
    <3>1. IsFiniteSet({"EMAIL"}) /\ IsFiniteSet({"SMS"}) /\ IsFiniteSet({"IN_APP"})
      BY FS_Singleton
    <3>2. NotificationChannelType = ({"EMAIL"} \cup {"SMS"}) \cup {"IN_APP"}
      BY DEF NotificationChannelType
    <3> QED
      BY <3>1, <3>2, FS_Union
  <2>3. IsFiniteSet((o.fired \X Subs) \X NotificationChannelType)
    BY <2>1, <2>2, FS_Product
  <2> DEFINE g == [t \in Triples(o) |-> <<<<t[1], t[2]>>, t[3]>>]
  <2>4. g \in [Triples(o) -> (o.fired \X Subs) \X NotificationChannelType]
    BY DEF Triples
  <2>5. \A x, y \in Triples(o) : g[x] = g[y] => x = y
    BY DEF Triples
  <2> HIDE DEF g
  <2>6. g \in Injection(Triples(o), (o.fired \X Subs) \X NotificationChannelType)
    BY <2>4, <2>5, Fun_IsInj
  <2> QED
    BY <2>3, <2>6, FS_Injection
<1>9. Cardinality(o.pending) = Cardinality(Triples(o))
  BY <1>7, <1>8, FS_Bijection
<1> QED
  BY <1>1, <1>9

LEMMA OneRowFollows == AlertInv => OneRowPerTriple
<1> SUFFICES ASSUME AlertInv, NEW w \in Clerks, Evaluated(w)
             PROVE  LET o == clerk[w]
                        triples == {t \in o.fired \X Subs \X NotificationChannelType :
                                        Applies(o.subs[t[2]]) /\ t[3] \in o.subs[t[2]].channels}
                    IN  /\ {<<n.rule, n.sub, n.channel>> : n \in o.pending} = triples
                        /\ Cardinality(o.pending) = Cardinality(triples)
  BY DEF OneRowPerTriple
<1>1. clerk[w] \in Looping /\ PendingOK(clerk[w])
  BY StateOf DEF AlertInv, Typed, ClerkOK, Evaluated
<1>2. {TripleOf(n) : n \in clerk[w].pending} = {<<n.rule, n.sub, n.channel>> : n \in clerk[w].pending}
  BY DEF TripleOf
<1> QED
  BY <1>1, <1>2, RowsMatchTriples DEF Triples

LEMMA FreshnessFollows == AlertInv => AlertsAreFresh
<1> SUFFICES ASSUME AlertInv, NEW w \in Clerks, clerk[w].at = "loop", NEW n \in clerk[w].pending
             PROVE  /\ <<"rule", n.rule, n.threshold>> \in clerk[w].seen
                    /\ <<"subscription", n.sub>> \in clerk[w].seen
                    /\ <<"metric", clerk[w].rules[n.rule].subject, n.value>> \in clerk[w].seen
  BY DEF AlertsAreFresh
<1>1. PICK o \in Looping : o = clerk[w]
  BY StateOf DEF AlertInv, Typed
<1>2. o.at = "loop" /\ RulesOK(o, rules) /\ SubscriptionsOK(o, subs) /\ PendingOK(o)
  BY <1>1 DEF AlertInv, ClerkOK
<1>3. n \in Notice
  BY <1>1 DEF Looping
<1>4. n.rule \in o.fired /\ n.sub \in Subs /\ Applies(o.subs[n.sub])
  BY <1>1, <1>2 DEF PendingOK, TripleOf, Triples
<1>5. n.rule \in Rules /\ Applies(o.rules[n.rule]) /\ n.threshold = o.rules[n.rule].threshold
  BY <1>1, <1>2, <1>3, <1>4 DEF PendingOK, Notice
<1>6. <<"metric", o.rules[n.rule].subject, n.value>> \in o.seen
  BY <1>1, <1>2 DEF PendingOK
<1>7. <<"subscription", n.sub>> \in o.seen
  BY <1>2, <1>4 DEF SubscriptionsOK
<1>8. <<"rule", n.rule, n.threshold>> \in o.seen
  BY <1>2, <1>5 DEF RulesOK
<1> QED
  BY <1>1, <1>6, <1>7, <1>8

LEMMA TruthFollows == AlertInv => AlertsAreTrue
<1> SUFFICES ASSUME AlertInv, NEW n \in notifications
             PROVE  \/ n.value > n.threshold /\ n.operator \in {"GREATER_THAN", "GREATER_THAN_OR_EQUAL"}
                    \/ n.value < n.threshold /\ n.operator \in {"LESS_THAN", "LESS_THAN_OR_EQUAL"}
                    \/ n.value = n.threshold /\ n.operator \in {"GREATER_THAN_OR_EQUAL", "LESS_THAN_OR_EQUAL"}
  BY DEF AlertsAreTrue
<1>1. n \in Notice
  BY DEF AlertInv, Typed
<1>2. /\ n.value \in Int /\ n.threshold \in Int /\ n.operator \in AlertOperator
      /\ Evaluate(n.operator, n.value, n.threshold)
  BY <1>1, EarlyWarningAssumption DEF Notice
<1>3. CASE n.operator = "GREATER_THAN"
  BY <1>2, <1>3 DEF Evaluate
<1>4. CASE n.operator = "LESS_THAN"
  BY <1>2, <1>4 DEF Evaluate
<1>5. CASE n.operator = "GREATER_THAN_OR_EQUAL"
  BY <1>2, <1>5 DEF Evaluate
<1>6. CASE n.operator = "LESS_THAN_OR_EQUAL"
  BY <1>2, <1>6 DEF Evaluate
<1> QED
  BY <1>2, <1>3, <1>4, <1>5, <1>6 DEF AlertOperator

LEMMA NoneMissedFollows == AlertInv => NoAlertMissed
<1> SUFFICES ASSUME AlertInv, NEW w \in Clerks, Evaluated(w),
                    NEW d \in clerk[w].due, NEW c \in subs[d[2]].channels
             PROVE  \E n \in clerk[w].pending :
                        n.rule = d[1] /\ n.sub = d[2] /\ n.channel = c /\ n.threshold = d[3]
  BY DEF NoAlertMissed
<1>1. PICK o \in Looping : o = clerk[w]
  BY StateOf DEF AlertInv, Typed, Evaluated
<1>2. /\ o.at = "loop" /\ o.todo = {}
      /\ RulesOK(o, rules) /\ SubscriptionsOK(o, subs) /\ DueOK(o) /\ PendingOK(o)
  BY <1>1 DEF AlertInv, ClerkOK, Evaluated
<1>3. PICK r \in Rules, s \in Subs, v \in Values : d = <<r, s, v>>
  BY <1>1 DEF Looping, DuePairs
<1>4. r \in o.fired /\ o.rules[r].threshold = v /\ Applies(o.subs[s])
  BY <1>1, <1>2, <1>3 DEF DueOK, RulesOK, SubscriptionsOK
<1>5. o.subs \in SubscriptionTable
  BY DEF Looping
<1>6. c \in o.subs[s].channels /\ o.subs[s].channels \subseteq NotificationChannelType
  BY <1>2, <1>3, <1>4, <1>5, SubscriptionExists
     DEF SubscriptionsOK, SameSubscriptions, Applies, SubscriptionRow
<1>7. <<r, s, c>> \in Triples(o)
  BY <1>4, <1>6 DEF Triples
<1>8. PICK n \in o.pending : TripleOf(n) = <<r, s, c>>
  BY <1>2, <1>7 DEF PendingOK
<1>9. n.rule = r /\ n.sub = s /\ n.channel = c
  BY <1>8 DEF TripleOf
<1>10. n.threshold = v
  BY <1>2, <1>4, <1>9 DEF PendingOK
<1> QED
  BY <1>1, <1>3, <1>9, <1>10

LEMMA EditsStep ==
    AlertInv /\ [AlertNext]_alertVars =>
        \A r \in Rules : rules[r].exists =>
            \A column \in {"active", "threshold"} :
                rules'[r][column] # rules[r][column] =>
                    \E w \in Clerks :
                        /\ clerk[w].at = "rule" /\ clerk'[w] = Idle
                        /\ clerk[w].id = r
                        /\ clerk[w].wanted[column] # clerk[w].loaded[column]
                        /\ clerk[w].wanted[column] = rules'[r][column]
<1> SUFFICES ASSUME AlertInv, [AlertNext]_alertVars, NEW r \in Rules, rules[r].exists,
                    NEW column \in {"active", "threshold"},
                    rules'[r][column] # rules[r][column]
             PROVE  \E w \in Clerks :
                        /\ clerk[w].at = "rule" /\ clerk'[w] = Idle
                        /\ clerk[w].id = r
                        /\ clerk[w].wanted[column] # clerk[w].loaded[column]
                        /\ clerk[w].wanted[column] = rules'[r][column]
  OBVIOUS
<1>1. rules \in RuleTable /\ rules[r] \in RuleRow
  BY RuleExists DEF AlertInv, Typed
<1>2. rules' # rules
  OBVIOUS
<1>3. ASSUME NEW x \in Rules, NEW c \in RuleConfigs, CreateAlertRule(x, c)
      PROVE  FALSE
  <2>1. ~rules[x].exists
    BY <1>1, <1>3 DEF CreateAlertRule, Fresh, RuleTable
  <2>2. rules'[r] = rules[r]
    BY <1>1, <1>3, <2>1 DEF CreateAlertRule, RuleTable
  <2> QED
    BY <2>2
<1>4. PICK w \in Clerks : SaveRule(w)
  BY <1>2, <1>3
     DEF AlertNext, alertVars, CreateNotificationSubscription, UpdateAlertRuleThreshold,
         ActivateAlertRule, DeactivateAlertRule, GetOwnedRule, ActivateNotificationSubscription,
         DeactivateNotificationSubscription, GetOwnedSubscription, SaveSubscription,
         BeginEvaluation, ReadRules, ReadSubscriptions, EvaluateRule, CommitEvaluation, Lose,
         NewEvidence
<1>5. clerk[w].at = "rule" /\ rules' = [rules EXCEPT ![clerk[w].id] = UpdatedColumns(@, clerk[w])]
  BY <1>4 DEF SaveRule
<1>6. clerk[w].id = r
  BY <1>1, <1>5 DEF RuleTable
<1>7. rules'[r] = UpdatedColumns(rules[r], clerk[w])
  BY <1>1, <1>5, <1>6 DEF RuleTable
<1>8. DOMAIN rules[r] = {"exists", "active", "subject", "hazard", "operator", "threshold"}
  BY <1>1 DEF RuleRow
<1>9. rules'[r][column] = IF clerk[w].wanted[column] # clerk[w].loaded[column]
                          THEN clerk[w].wanted[column] ELSE rules[r][column]
  BY <1>7, <1>8 DEF UpdatedColumns
<1>10. clerk'[w] = Idle
  <2>1. clerk' = [x \in Clerks |-> Watch([clerk EXCEPT ![w] = Idle][x], rules', subs, metric)]
    BY <1>4, WatchedIsWatch DEF SaveRule
  <2>2. [clerk EXCEPT ![w] = Idle][w] = Idle
    BY DEF AlertInv, Typed
  <2>3. clerk'[w] = Watch(Idle, rules', subs, metric)
    BY <2>1, <2>2
  <2> QED
    BY <2>3 DEF Watch, Idle, Evaluating
<1> QED
  BY <1>5, <1>6, <1>9, <1>10

(* The early warning engine, while rules, subscriptions and evidence       *)
(* change under it: rows are what the columns allow, an evaluation ends    *)
(* with one row for each triple, quotes what it has seen, and what is      *)
(* committed crossed its threshold (EvaluateAlertRulesHandler).            *)
THEOREM AlertsSound == AlertSpec => []AlertsAreSound
<1>1. AlertInv => AlertsAreSound
  BY TypesFollow, OneRowFollows, FreshnessFollows, TruthFollows DEF AlertsAreSound
<1> QED
  BY AlertInit_Inv, AlertStep, <1>1, PTL DEF AlertSpec

(* What has been due from the start of an evaluation to its end is         *)
(* notified about by it: no rule, subscription or failed delivery on the   *)
(* way hides another (the loop of EvaluateAlertRulesHandler).              *)
THEOREM NoneMissed == AlertSpec => []NoAlertMissed
  BY AlertInit_Inv, AlertStep, NoneMissedFollows, PTL DEF AlertSpec

(* Overlapping commands on one rule do not undo each other: the UPDATE     *)
(* writes the columns the command changed (the repository's save).         *)
THEOREM IndependentEdits == AlertSpec => EditsAreIndependent
<1>1. AlertInv /\ [AlertNext]_alertVars =>
        (\A r \in Rules : rules[r].exists =>
            \A column \in {"active", "threshold"} :
                rules'[r][column] # rules[r][column] =>
                    \E w \in Clerks :
                        /\ clerk[w].at = "rule" /\ clerk'[w] = Idle
                        /\ clerk[w].id = r
                        /\ clerk[w].wanted[column] # clerk[w].loaded[column]
                        /\ clerk[w].wanted[column] = rules'[r][column])
  BY EditsStep
<1> QED
  BY AlertInit_Inv, AlertStep, <1>1, PTL DEF AlertSpec, EditsAreIndependent
=============================================================================
