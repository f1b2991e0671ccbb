------------------------- MODULE UserAdministration -------------------------
(***************************************************************************)
(* The users of one tenant (contexts/identity): registration of the tenant *)
(* with its first owner, invitations, roles, statuses, passwords, and the  *)
(* rule that a tenant keeps an active OWNER.                               *)
(*                                                                         *)
(* A handler that changes a user is one transaction of four statements     *)
(* other transactions can come between:                                    *)
(*                                                                         *)
(*   load     SELECT the user (and the invitation)                         *)
(*   check    SELECT count(active owners), then the entity method          *)
(*   save     SELECT the row again, compare versions                       *)
(*   commit   UPDATE the columns that changed, commit                      *)
(*                                                                         *)
(* Any of this may overlap.  Two variables remember, for the properties    *)
(* only, where it did: raced holds the users of whom two handlers were     *)
(* between save and commit at once, so that both passed the version check; *)
(* crossed the handlers of two owners' removals that were between check    *)
(* and commit at once, so that each counted the other's owner.             *)
(* The UPDATE takes the row's lock and keeps it until the commit, so       *)
(* overlapping ones apply in commit order: one step.                       *)
(* Sessions (token_generation, refresh tokens) and events are left out:    *)
(* no guard here reads them.                                               *)
(***************************************************************************)
EXTENDS Naturals, FiniteSets

CONSTANTS
    User,         \* e-mail addresses, each of them one user at most
    OtherRole,    \* the roles other than OWNER
    Tx,           \* handler invocations (reused once they end)
    MaxVersion    \* bound: changes of one user after which none begins

ASSUME AdministrationAssumption ==
    /\ IsFiniteSet(User) /\ User # {}
    /\ "OWNER" \notin OtherRole
    /\ IsFiniteSet(Tx)
    /\ MaxVersion \in Nat

VARIABLES
    tenant,       \* registration: none, created, owned
    users,        \* the rows of the user table
    version,      \* their version columns
    invitation,   \* the invitation token of each user
    pc,           \* where each handler is
    cmd,          \* its command
    loaded,       \* the user it loaded ...
    expected,     \* ... at this version
    model,        \* the row as save selected it again
    raced,        \* history: users two handlers were past the version check of
    crossed       \* history: handlers past the owner check with another one

vars == <<tenant, users, version, invitation, pc, cmd, loaded, expected, model, raced, crossed>>
history == <<raced, crossed>>
tables == <<tenant, users, version, invitation>>

Role == {"OWNER"} \cup OtherRole

UserStatus == {"INVITED", "ACTIVE", "SUSPENDED", "DEACTIVATED"}

LEGAL_STATUS_TRANSITIONS ==
    [ INVITED     |-> {"ACTIVE"},
      ACTIVE      |-> {"SUSPENDED", "DEACTIVATED"},
      SUSPENDED   |-> {"ACTIVE", "DEACTIVATED"},
      DEACTIVATED |-> {"ACTIVE"} ]

UserRow == [status : UserStatus \cup {"ABSENT"}, role : Role, password : {"none", "set"}]

Absent == [status |-> "ABSENT", role |-> "OWNER", password |-> "none"]

Invitation == {"none", "open", "used", "expired"}

\* The status a status command asks for.
TargetStatus ==
    [suspend |-> "SUSPENDED", reactivate |-> "ACTIVE", deactivate |-> "DEACTIVATED"]

StatusOp   == {"suspend", "reactivate", "deactivate"}
PasswordOp == {"change_password", "reset_password"}

Command ==
    [op : {"accept"} \cup StatusOp \cup PasswordOp, user : User]
        \cup [op : {"change_role"}, user : User, role : Role]

NoCmd == [op |-> "accept", user |-> CHOOSE u \in User : TRUE]

Init ==
    /\ tenant = "none"
    /\ users = [u \in User |-> Absent]
    /\ version = [u \in User |-> 0]
    /\ invitation = [u \in User |-> "none"]
    /\ pc = [t \in Tx |-> "idle"]
    /\ cmd = [t \in Tx |-> NoCmd]
    /\ loaded = [t \in Tx |-> Absent]
    /\ expected = [t \in Tx |-> 0]
    /\ model = [t \in Tx |-> Absent]
    /\ raced = {}
    /\ crossed = {}

-----------------------------------------------------------------------------
(* The entity *)

\* Faulty variant: the table of transitions is not consulted.
LegalAnyStatus(row, c) ==
    \/ c.op = "accept"          /\ row.status = "INVITED"
    \/ c.op = "change_password" /\ row.status = "ACTIVE" /\ row.password = "set"
    \/ c.op \in StatusOp \cup {"change_role", "reset_password"}

\* What the entity method of a command, and its handler, ask of the user.
Legal(row, c) ==
    \/ c.op = "accept"          /\ row.status = "INVITED"
    \/ c.op \in StatusOp        /\ TargetStatus[c.op] \in LEGAL_STATUS_TRANSITIONS[row.status]
    \/ c.op = "change_role"
    \/ c.op = "change_password" /\ row.status = "ACTIVE" /\ row.password = "set"
    \/ c.op = "reset_password"

Apply(row, c) ==
    CASE c.op = "accept"       -> [row EXCEPT !.status = "ACTIVE", !.password = "set"]
      [] c.op \in StatusOp     -> [row EXCEPT !.status = TargetStatus[c.op]]
      [] c.op = "change_role"  -> [row EXCEPT !.role = c.role]
      [] c.op \in PasswordOp   -> [row EXCEPT !.password = "set"]

IsActiveOwner(row) == row.role = "OWNER" /\ row.status = "ACTIVE"

ActiveOwners == {u \in User : IsActiveOwner(users[u])}

\* The commands whose handler calls _assert_not_last_owner.
Guarded(row, c) ==
    \/ c.op \in {"suspend", "deactivate"}
    \/ c.op = "change_role" /\ c.role # row.role

\* Commands for which the owners are counted.
NeedsCount(row, c) == Guarded(row, c) /\ row.role = "OWNER"

\* Faulty variant: one owner is enough.
NotLastOwnerOffByOne(row, c) ==
    NeedsCount(row, c) => Cardinality(ActiveOwners) >= 1

NotLastOwner(row, c) ==
    NeedsCount(row, c) => Cardinality(ActiveOwners) > 1

-----------------------------------------------------------------------------
(* Registration and invitation: inserts, kept apart by uq_user_email. *)

\* RegisterTenantHandler, first transaction; when the second one fails the
\* tenant stays without an owner.
CreateTenant ==
    /\ tenant = "none"
    /\ tenant' = "created"
    /\ UNCHANGED <<users, version, invitation, pc, cmd, loaded, expected, model, history>>

CreateOwner(u) ==
    /\ tenant = "created"
    /\ users[u].status = "ABSENT"
    /\ tenant' = "owned"
    /\ users' = [users EXCEPT ![u] = [status |-> "ACTIVE", role |-> "OWNER", password |-> "set"]]
    /\ UNCHANGED <<version, invitation, pc, cmd, loaded, expected, model, history>>

\* Only a user of the tenant can invite, so its owner exists.
InviteUser(u, role) ==
    /\ tenant = "owned"
    /\ users[u].status = "ABSENT"
    /\ users' = [users EXCEPT ![u] = [status |-> "INVITED", role |-> role, password |-> "none"]]
    /\ invitation' = [invitation EXCEPT ![u] = "open"]
    /\ UNCHANGED <<tenant, version, pc, cmd, loaded, expected, model, history>>

\* INVITATION_TOKEN_TTL passes.
InvitationExpires(u) ==
    /\ invitation[u] = "open"
    /\ invitation' = [invitation EXCEPT ![u] = "expired"]
    /\ UNCHANGED <<tenant, users, version, pc, cmd, loaded, expected, model, history>>

-----------------------------------------------------------------------------
(* The other handlers *)

Load(t, c) ==
    /\ pc[t] = "idle"
    /\ version[c.user] < MaxVersion
    /\ users[c.user].status # "ABSENT"
    /\ c.op = "accept" => invitation[c.user] = "open"
    /\ pc' = [pc EXCEPT ![t] = "loaded"]
    /\ cmd' = [cmd EXCEPT ![t] = c]
    /\ loaded' = [loaded EXCEPT ![t] = users[c.user]]
    /\ expected' = [expected EXCEPT ![t] = version[c.user]]
    /\ UNCHANGED <<tables, model, history>>

End(t) ==
    /\ pc' = [pc EXCEPT ![t] = "idle"]
    /\ cmd' = [cmd EXCEPT ![t] = NoCmd]
    /\ loaded' = [loaded EXCEPT ![t] = Absent]
    /\ expected' = [expected EXCEPT ![t] = 0]
    /\ model' = [model EXCEPT ![t] = Absent]
    /\ UNCHANGED history

Allowed(t) == NotLastOwner(loaded[t], cmd[t]) /\ Legal(loaded[t], cmd[t])

Removals == {t \in Tx : pc[t] \in {"checked", "saved"} /\ NeedsCount(loaded[t], cmd[t])}

Check(t) ==
    /\ pc[t] = "loaded"
    /\ Allowed(t)
    /\ pc' = [pc EXCEPT ![t] = "checked"]
    /\ crossed' = IF NeedsCount(loaded[t], cmd[t]) /\ Removals # {}
                  THEN crossed \cup Removals \cup {t} ELSE crossed
    /\ UNCHANGED <<tables, cmd, loaded, expected, model, raced>>

\* LastOwnerRemovalError, IllegalUserStatusTransitionError, InvalidCredentialsError
Refuse(t) ==
    /\ pc[t] = "loaded"
    /\ ~Allowed(t)
    /\ End(t)
    /\ UNCHANGED tables

Open(u) == {t \in Tx : pc[t] = "saved" /\ cmd[t].user = u}

VersionMatches(t) == version[cmd[t].user] = expected[t]

Save(t) ==
    /\ pc[t] = "checked"
    /\ VersionMatches(t)
    /\ pc' = [pc EXCEPT ![t] = "saved"]
    /\ model' = [model EXCEPT ![t] = users[cmd[t].user]]
    /\ raced' = IF Open(cmd[t].user) = {} THEN raced ELSE raced \cup {cmd[t].user}
    /\ UNCHANGED <<tables, cmd, loaded, expected, crossed>>

\* OptimisticConcurrencyError
Conflict(t) ==
    /\ pc[t] = "checked"
    /\ ~VersionMatches(t)
    /\ End(t)
    /\ UNCHANGED tables

\* The row after the UPDATE of handler t: a column is set when the entity's
\* value differs from the one selected by save (a new hash always does).
Updated(t) ==
    LET row    == users[cmd[t].user]
        entity == Apply(loaded[t], cmd[t])
    IN  [ status   |-> IF entity.status # model[t].status THEN entity.status ELSE row.status,
          role     |-> IF entity.role # model[t].role THEN entity.role ELSE row.role,
          password |-> IF \/ cmd[t].op \in {"accept"} \cup PasswordOp
                          \/ entity.password # model[t].password
                       THEN entity.password ELSE row.password ]

\* Faulty variant: the token is marked but the user is not saved.
CommitTokenOnly(t) ==
    /\ pc[t] = "saved"
    /\ users' = IF cmd[t].op = "accept" THEN users
                ELSE [users EXCEPT ![cmd[t].user] = Updated(t)]
    /\ version' = [version EXCEPT ![cmd[t].user] = expected[t] + 1]
    /\ invitation' = IF cmd[t].op = "accept"
                     THEN [invitation EXCEPT ![cmd[t].user] = "used"] ELSE invitation
    /\ tenant' = tenant
    /\ End(t)

Commit(t) ==
    /\ pc[t] = "saved"
    /\ users' = [users EXCEPT ![cmd[t].user] = Updated(t)]
    /\ version' = [version EXCEPT ![cmd[t].user] = expected[t] + 1]
    /\ invitation' = IF cmd[t].op = "accept"
                     THEN [invitation EXCEPT ![cmd[t].user] = "used"] ELSE invitation
    /\ tenant' = tenant
    /\ End(t)

\* The handler dies or the database raises.
Rollback(t) ==
    /\ pc[t] # "idle"
    /\ End(t)
    /\ UNCHANGED tables

Next ==
    \/ CreateTenant
    \/ \E u \in User : CreateOwner(u) \/ InvitationExpires(u)
    \/ \E u \in User, role \in Role : InviteUser(u, role)
    \/ \E t \in Tx :
          \/ \E c \in Command : Load(t, c)
          \/ Check(t) \/ Refuse(t) \/ Save(t) \/ Conflict(t) \/ Commit(t) \/ Rollback(t)

Spec == Init /\ [][Next]_vars

-----------------------------------------------------------------------------
(* The tables and the handlers' local variables keep their types; no       *)
(* handler writes a status outside UserStatus.                             *)
TypeOK ==
    /\ tenant \in {"none", "created", "owned"}
    /\ users \in [User -> UserRow]
    /\ version \in [User -> Nat]
    /\ invitation \in [User -> Invitation]
    /\ pc \in [Tx -> {"idle", "loaded", "checked", "saved"}]
    /\ cmd \in [Tx -> Command]
    /\ loaded \in [Tx -> UserRow]
    /\ expected \in [Tx -> Nat]
    /\ model \in [Tx -> UserRow]
    /\ raced \subseteq User
    /\ crossed \subseteq Tx

(* handlers_user.py: "The 'at least one OWNER remains' invariant is        *)
(* enforced here".  A tenant that got its first owner keeps an active one, *)
(* whatever roles and statuses are changed.  The code does not keep this:  *)
(* the owners are counted before the change and nothing holds the count.   *)
OwnerAlwaysRemains == tenant = "owned" => ActiveOwners # {}

(* What it keeps: the last active owner can only have gone after two       *)
(* removals of owners were between check and commit at once, or two        *)
(* handlers past the version check of one user.                            *)
OwnerRemains == crossed = {} /\ raced = {} => OwnerAlwaysRemains

(* AcceptInvitationHandler writes the user and the token in one            *)
(* transaction: a used invitation belongs to a user who has left INVITED   *)
(* and has a password, for ever after; unless two handlers were past the   *)
(* version check of that user at once.                                     *)
UsedMeansAccepted ==
    \A u \in User \ raced :
        invitation[u] = "used" => users[u].status # "INVITED" /\ users[u].password = "set"

(* entities.py: "A transition not listed here is illegal."  Stated of the  *)
(* committed statuses of users whose handlers did not both pass the check. *)
CommittedStatusLegal ==
    [][\A u \in User \ raced :
          users[u].status # "ABSENT" /\ users'[u].status # users[u].status =>
              users'[u].status \in LEGAL_STATUS_TRANSITIONS[users[u].status]]_vars

(* entities.py, hashed_password: "None while status == INVITED, before     *)
(* AcceptInvitation".  Stated the way the rest of the code uses it: a user *)
(* who is not INVITED any more has a password.                             *)
PasswordOnceInvited ==
    \A u \in User : users[u].status \in UserStatus \ {"INVITED"} => users[u].password = "set"

=============================================================================
