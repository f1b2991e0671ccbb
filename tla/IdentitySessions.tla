--------------------------- MODULE IdentitySessions ---------------------------
(***************************************************************************)
(* The sessions of one user (contexts/identity): refresh tokens that are   *)
(* rotated with reuse detection, access tokens that carry the user's role  *)
(* and token_generation, the denylist logout writes, password reset tokens *)
(* and the operations that end every session at once.                      *)
(*                                                                         *)
(* Login and rotation each issue one refresh and one access token: session *)
(* token n stands for the pair.  A request reads in one step and commits   *)
(* in a later one; others come in between.  save compares the version of   *)
(* the user it selects again with the one loaded, the UPDATE is keyed by   *)
(* the id alone: two requests that write the user's row may both be past   *)
(* the check (raced), and then both write the version and the generation   *)
(* they loaded, plus one.  Refresh tokens have no version column at all.   *)
(* The row lock of an UPDATE that the SELECT of the tokens has flushed is  *)
(* left out, which allows more orders, not fewer.                          *)
(*                                                                         *)
(* overlap, old, revocations, bumps, ended and raced are history: no code  *)
(* reads them.                                                             *)
(***************************************************************************)
EXTENDS Naturals, Sequences, FiniteSets, AccessControl

CONSTANTS
    Request,         \* concurrent requests
    Reset,           \* password reset tokens
    MaxTokens,       \* bound: session tokens issued
    MaxRevocations   \* bound: bulk revocations begun

ASSUME SessionsAssumption ==
    /\ MaxTokens \in Nat /\ MaxRevocations \in Nat

VARIABLES
    user,        \* the user's row
    tokens,      \* refresh_token rows and access tokens, in order of issue
    reset,       \* password_reset_token rows
    req,         \* the requests in progress
    revocations, \* history: bulk revocations committed
    bumps,       \* history: those that changed token_generation
    ended,       \* history: families a logout ended
    raced        \* history: requests past the version check with another one

vars == <<user, tokens, reset, req, revocations, bumps, ended, raced>>

\* The columns of the user that sessions depend on.  BLOCKED is SUSPENDED or
\* DEACTIVATED: neither may log in, and reactivation leads back from both.
UserRow == [status : {"ACTIVE", "BLOCKED"}, gen : Nat, version : Nat]

NewUser == [status |-> "ACTIVE", gen |-> 0, version |-> 0]

\* RefreshToken, with the access token issued along with it: over once it has
\* expired or is on the denylist.  A refresh token that expires is one nobody
\* presents any more: a refusal that changes nothing.
Token == [family : 1..MaxTokens, revoked : BOOLEAN, over : BOOLEAN, gen : Nat, old : BOOLEAN, bumps : Nat, overlap : BOOLEAN]

\* A PasswordResetToken: valid, or spent (used or expired) and free to stand for
\* the next one.
ResetState == {"open", "spent"}

\* "own" is ChangePasswordHandler or RevokeAllSessionsHandler: they differ in
\* the password column only.
\* "block" is SuspendUserHandler or DeactivateUserHandler.
BumpOp == {"block", "own", "reset"}
RowOp  == {"login", "reactivate"}

\* A request: its handler, the token it presents, the user it loaded, the row
\* as save selected it again, and the tokens it is about to revoke.  presented
\* (the token was revoked when it was read) and bumps are history.
Idle == [at |-> "idle", op |-> "login", token |-> 0, presented |-> FALSE, loaded |-> NewUser,
         model |-> NewUser, chosen |-> {}, bumps |-> 0]

Ids == 1..Len(tokens)

Init ==
    /\ user = NewUser
    /\ tokens = <<>>
    /\ reset = [k \in Reset |-> "spent"]
    /\ req = [r \in Request |-> Idle]
    /\ revocations = 0
    /\ bumps = 0
    /\ ended = {}
    /\ raced = {}

History == <<revocations, bumps, ended, raced>>

-----------------------------------------------------------------------------
(* Tokens *)

\* RefreshToken.is_active
Live(n) == ~tokens[n].revoked

\* get_current_claims: what makes an access token good for a request.
Accepted(n) ==
    /\ ~tokens[n].over
    /\ user.status = "ACTIVE"
    /\ tokens[n].gen = user.gen

\* RefreshToken.revoke, for the rows of a set.
Revoke(S) == [n \in Ids |-> IF n \in S THEN [tokens[n] EXCEPT !.revoked = TRUE] ELSE tokens[n]]

\* The commit of a bulk revocation; every session is one of before it now.
RevokeAll(S) == [n \in Ids |-> [Revoke(S)[n] EXCEPT !.old = TRUE]]

\* Requests between their SELECT of the tokens to revoke and their commit.
Revoking == {r \in Request : req[r].at = "selected"}

\* RefreshToken.issue and AccessTokenIssuer.issue, on the user as loaded.
NewToken(r, family, old, overlap) ==
    [family |-> family, revoked |-> FALSE, over |-> FALSE, gen |-> req[r].loaded.gen, old |-> old, bumps |-> req[r].bumps, overlap |-> overlap]

\* Expiry is read when a request starts and not again, so time may stand still
\* during one.
AccessExpires(n) ==
    /\ \A r \in Request : req[r].at = "idle"
    /\ ~tokens[n].over
    /\ tokens' = [tokens EXCEPT ![n].over = TRUE]
    /\ UNCHANGED <<user, reset, req, History>>

-----------------------------------------------------------------------------
(* Requests *)

Done(r) == req' = [req EXCEPT ![r] = Idle]

\* The session of a request that fails is closed without a commit.
Abort(r) ==
    /\ req[r].at # "idle"
    /\ Done(r)
    /\ UNCHANGED <<user, tokens, reset, History>>

Go(r, at, op, n) == req' = [req EXCEPT ![r] = [Idle EXCEPT !.at = at, !.op = op, !.token = n]]

Present(r, n) ==
    req' = [req EXCEPT ![r] = [Idle EXCEPT !.at = "read", !.op = "refresh", !.token = n,
                                           !.presented = tokens[n].revoked]]

LoadUser(r, op, n) ==
    req' = [req EXCEPT ![r] = [at |-> "loaded", op |-> op, token |-> n,
                               presented |-> req[r].presented, loaded |-> user,
                               model |-> NewUser, chosen |-> {}, bumps |-> bumps]]

MayRevoke == revocations + Cardinality(Revoking) < MaxRevocations

\* What the handler asks of the user it loads.
Eligible(op) ==
    \/ op \in {"login", "own"} /\ user.status = "ACTIVE"
    \/ op = "reactivate"       /\ user.status = "BLOCKED"
    \/ op = "block"

\* LoginHandler (the right password), the user administration's handlers,
\* ChangePasswordHandler and RevokeAllSessionsHandler; the last two are called
\* with an access token of the user's own.
Begin(r, op) ==
    /\ req[r].at = "idle"
    /\ Eligible(op)
    /\ op = "own" => \E n \in Ids : Accepted(n)
    /\ op = "login" => Len(tokens) < MaxTokens
    /\ op \in BumpOp => MayRevoke
    /\ LoadUser(r, op, 0)
    /\ UNCHANGED <<user, tokens, reset, History>>

VersionMatches(r) == user.version = req[r].loaded.version

\* Requests past the version check that have yet to commit.
Saved == {r \in Request : req[r].at \in {"saved", "selected"} /\ req[r].op # "reuse"}

\* SqlAlchemyUserRepository.save
SaveUser(r) ==
    /\ req[r].at = "loaded" /\ req[r].op \in RowOp \cup BumpOp
    /\ VersionMatches(r)
    /\ req' = [req EXCEPT ![r].at = "saved", ![r].model = user]
    /\ raced' = IF Saved = {} THEN raced ELSE raced \cup Saved \cup {r}
    /\ UNCHANGED <<user, tokens, reset, revocations, bumps, ended>>

\* OptimisticConcurrencyError
Conflict(r) ==
    /\ req[r].at = "loaded" /\ req[r].op \in RowOp \cup BumpOp
    /\ ~VersionMatches(r)
    /\ Done(r)
    /\ UNCHANGED <<user, tokens, reset, History>>

\* The entity method of each handler, on the user as loaded.
Entity(r) ==
    [ status |-> CASE req[r].op = "block"      -> "BLOCKED"
                   [] req[r].op = "reactivate" -> "ACTIVE"
                   [] OTHER                    -> req[r].loaded.status,
      gen    |-> req[r].loaded.gen + (IF req[r].op \in BumpOp THEN 1 ELSE 0) ]

\* The row after the UPDATE: a column is set when the entity's value differs
\* from the one save selected; the version is the one selected, plus one.
Updated(r) ==
    [ status  |-> IF Entity(r).status # req[r].model.status THEN Entity(r).status ELSE user.status,
      gen     |-> IF Entity(r).gen # req[r].model.gen THEN Entity(r).gen ELSE user.gen,
      version |-> req[r].model.version + 1 ]

\* Handlers that revoke no session.
CommitRow(r) ==
    LET me == req[r] IN
    /\ me.at = "saved" /\ me.op \in RowOp
    /\ me.op = "login" => Len(tokens) < MaxTokens
    /\ user' = Updated(r)
    /\ tokens' = IF me.op = "login"
                 THEN Append(tokens, NewToken(r, Len(tokens) + 1, FALSE, Revoking # {}))
                 ELSE tokens
    /\ Done(r)
    /\ UNCHANGED <<reset, History>>

\* Faulty variant: only tokens whose access token is still good are selected.
ActiveOnlyFresh == {n \in Ids : ~tokens[n].revoked /\ ~tokens[n].over}

\* revoke_all_active_for_user selects by revoked_at alone.
ActiveTokens == {n \in Ids : ~tokens[n].revoked}

\* The SELECT of revoke_all_active_for_user.
SelectSessions(r) ==
    /\ req[r].at = "saved" /\ req[r].op \in BumpOp
    /\ req' = [req EXCEPT ![r].at = "selected", ![r].chosen = ActiveTokens]
    /\ UNCHANGED <<user, tokens, reset, History>>

\* Faulty variant: the tokens are revoked, the generation stays.
CommitWithoutBump(r) ==
    LET me == req[r] IN
    /\ me.at = "selected" /\ me.op \in BumpOp
    /\ user' = [Updated(r) EXCEPT !.gen = user.gen]
    /\ tokens' = RevokeAll(me.chosen)
    /\ reset' = IF me.op = "reset" THEN [reset EXCEPT ![me.token] = "spent"] ELSE reset
    /\ revocations' = revocations + 1 /\ bumps' = bumps + 1
    /\ Done(r)
    /\ UNCHANGED <<ended, raced>>

\* SuspendUserHandler, DeactivateUserHandler, ChangePasswordHandler,
\* RevokeAllSessionsHandler and ResetPasswordHandler: one transaction.
CommitRevocation(r) ==
    LET me == req[r] IN
    /\ me.at = "selected" /\ me.op \in BumpOp
    /\ user' = Updated(r)
    /\ tokens' = RevokeAll(me.chosen)
    /\ reset' = IF me.op = "reset" THEN [reset EXCEPT ![me.token] = "spent"] ELSE reset
    /\ revocations' = revocations + 1 /\ bumps' = bumps + 1
    /\ Done(r)
    /\ UNCHANGED <<ended, raced>>

-----------------------------------------------------------------------------
(* Password reset *)

RequestPasswordReset(k) ==
    /\ reset[k] = "spent"
    /\ reset' = [reset EXCEPT ![k] = "open"]
    /\ UNCHANGED <<user, tokens, req, History>>

ResetExpires(k) ==
    /\ reset[k] = "open"
    /\ reset' = [reset EXCEPT ![k] = "spent"]
    /\ UNCHANGED <<user, tokens, req, History>>

\* ResetPasswordHandler reads its token first ...
ReadReset(r, k) ==
    /\ req[r].at = "idle" /\ MayRevoke
    /\ reset[k] = "open"
    /\ Go(r, "read", "reset", k)
    /\ UNCHANGED <<user, tokens, reset, History>>

\* ... and loads the user after it.
LoadForReset(r) ==
    /\ req[r].at = "read" /\ req[r].op = "reset"
    /\ LoadUser(r, "reset", req[r].token)
    /\ UNCHANGED <<user, tokens, reset, History>>

-----------------------------------------------------------------------------
(* Rotation *)

\* RefreshAccessTokenHandler: the token is found, not revoked and not expired.
ReadRefresh(r, n) ==
    /\ req[r].at = "idle" /\ Len(tokens) < MaxTokens
    /\ Live(n)
    /\ Present(r, n)
    /\ UNCHANGED <<user, tokens, reset, History>>

LoadForRefresh(r) ==
    /\ req[r].at = "read" /\ req[r].op = "refresh"
    /\ user.status = "ACTIVE"
    /\ LoadUser(r, "refresh", req[r].token)
    /\ UNCHANGED <<user, tokens, reset, History>>

\* Faulty variant: the old token stays usable.
CommitRotationKeepsOld(r) ==
    LET n    == req[r].token
        late == (tokens[n].revoked /\ ~req[r].presented) \/ Revoking # {}
    IN  /\ req[r].at = "loaded" /\ req[r].op = "refresh"
        /\ Len(tokens) < MaxTokens
        /\ tokens' = Append(tokens, NewToken(r, tokens[n].family, tokens[n].old,
                                             tokens[n].overlap \/ late))
        /\ Done(r)
        /\ UNCHANGED <<user, reset, History>>

\* The new token is inserted and the old one revoked, whatever has happened to
\* the old one since it was read.
CommitRotation(r) ==
    LET n    == req[r].token
        late == (tokens[n].revoked /\ ~req[r].presented) \/ Revoking # {}
    IN  /\ req[r].at = "loaded" /\ req[r].op = "refresh"
        /\ Len(tokens) < MaxTokens
        /\ tokens' = Append(Revoke({n}),
                            NewToken(r, tokens[n].family, tokens[n].old,
                                     tokens[n].overlap \/ late))
        /\ Done(r)
        /\ UNCHANGED <<user, reset, History>>

\* A revoked token is presented: every active one is selected, then revoked.
DetectReuse(r, n) ==
    /\ req[r].at = "idle" /\ MayRevoke
    /\ tokens[n].revoked
    /\ req' = [req EXCEPT ![r] = [Idle EXCEPT !.at = "selected", !.op = "reuse",
                                              !.token = n, !.chosen = ActiveTokens]]
    /\ UNCHANGED <<user, tokens, reset, History>>

CommitReuse(r) ==
    /\ req[r].at = "selected" /\ req[r].op = "reuse"
    /\ tokens' = RevokeAll(req[r].chosen)
    /\ revocations' = revocations + 1
    /\ Done(r)
    /\ UNCHANGED <<user, reset, bumps, ended, raced>>

-----------------------------------------------------------------------------
(* Logout *)

\* LogoutHandler finds its refresh token, or finds it revoked already.
ReadLogout(r, n) ==
    /\ req[r].at = "idle"
    /\ Go(r, IF tokens[n].revoked THEN "deny" ELSE "read", "logout", n)
    /\ UNCHANGED <<user, tokens, reset, History>>

\* The refresh token is revoked and, when the request carried an unexpired
\* access token, its jti is put on the denylist.
CommitLogout(r, withAccess) ==
    LET n == req[r].token IN
    /\ req[r].op = "logout" /\ req[r].at \in {"read", "deny"}
    /\ withAccess => ~tokens[n].over
    /\ tokens' = [tokens EXCEPT ![n].revoked = @ \/ req[r].at = "read",
                                ![n].over = @ \/ withAccess]
    /\ ended' = IF req[r].at = "read" /\ ~tokens[n].revoked THEN ended \cup {tokens[n].family} ELSE ended
    /\ Done(r)
    /\ UNCHANGED <<user, reset, revocations, bumps, raced>>

Next ==
    \/ \E r \in Request :
          \/ \E op \in RowOp \cup (BumpOp \ {"reset"}) : Begin(r, op)
          \/ Abort(r) \/ SaveUser(r) \/ Conflict(r) \/ CommitRow(r) \/ SelectSessions(r) \/ CommitRevocation(r)
          \/ \E k \in Reset : ReadReset(r, k)
          \/ LoadForReset(r) \/ LoadForRefresh(r) \/ CommitRotation(r) \/ CommitReuse(r)
          \/ \E n \in Ids : ReadRefresh(r, n) \/ DetectReuse(r, n) \/ ReadLogout(r, n)
          \/ \E withAccess \in BOOLEAN : CommitLogout(r, withAccess)
    \/ \E n \in Ids : AccessExpires(n)
    \/ \E k \in Reset : RequestPasswordReset(k) \/ ResetExpires(k)

Spec == Init /\ [][Next]_vars

-----------------------------------------------------------------------------
(* Rows, tokens and requests keep their types, and the bounds hold.        *)
TypeOK ==
    /\ user \in UserRow
    /\ tokens \in Seq(Token) /\ Len(tokens) <= MaxTokens
    /\ reset \in [Reset -> ResetState]
    /\ \A r \in Request :
          /\ req[r].at \in {"idle", "read", "deny", "loaded", "saved", "selected"}
          /\ req[r].loaded \in UserRow /\ req[r].model \in UserRow
          /\ req[r].chosen \subseteq 1..MaxTokens
    /\ ended \subseteq 1..MaxTokens
    /\ raced \subseteq Request

(* revoke_all_active_for_user and the revoked_at check of a rotation: a    *)
(* session opened before a bulk revocation (password change or reset,      *)
(* suspension, deactivation, "log out everywhere", detected reuse) has no  *)
(* usable refresh token after it, however long it was rotated, unless one  *)
(* of its rotations overlapped a transaction that was revoking.            *)
OldSessionsEnd ==
    \A n \in Ids : Live(n) /\ tokens[n].old => tokens[n].overlap

(* entities.py, revoke_all_sessions: an access token issued before a       *)
(* revocation that bumps token_generation is not accepted any more, nor    *)
(* after the user has been reactivated or another session was opened.  The *)
(* code does not keep this: two overlapping revocations both write the     *)
(* generation they loaded, plus one, and a token issued between them stays *)
(* accepted.                                                               *)
AccessAlwaysEnds ==
    \A n \in Ids : Accepted(n) => tokens[n].bumps = bumps

(* What it keeps: an access token from before a revocation is accepted     *)
(* only after two requests were past the version check of the user's row   *)
(* at once.                                                                *)
AccessEnds == raced = {} => AccessAlwaysEnds

(* Rotation replaces: of the tokens descending from one login at most one  *)
(* is usable, unless two requests that wrote them overlapped.              *)
OneLiveTokenPerLogin ==
    \A m, n \in Ids :
        m # n /\ tokens[m].family = tokens[n].family /\ Live(m) /\ Live(n)
            => tokens[m].overlap \/ tokens[n].overlap

(* LogoutHandler: once a logout has revoked the current token of a login,  *)
(* none of its successors is usable, unless a rotation overlapped it.      *)
LogoutEnds ==
    \A n \in Ids :
        Live(n) /\ tokens[n].family \in ended =>
            \E m \in Ids : tokens[m].family = tokens[n].family /\ tokens[m].overlap

ViewerWrites == {x \in Routes : RouteOpen(x, Granted("VIEWER")) /\ x.effect = "write"}
ClosedToOwner == {x \in Routes : ~RouteOpen(x, Granted("OWNER"))}

(* The permissions the migrations seed, against the routes: whoever holds  *)
(* an accepted token, a VIEWER can change nothing but the own sessions.    *)
ViewersOnlyRead ==
    \A n \in Ids : Accepted(n) => \A x \in ViewerWrites : x.code \in {"public", "session"}

(* A permission code the routes ask for but no migration grants makes a    *)
(* route unreachable: an accepted token of an OWNER opens every route.     *)
OwnerReachesEveryRoute == (\E n \in Ids : Accepted(n)) => ClosedToOwner = {}

(* handlers_auth.py on a reused refresh token: "all sessions for this      *)
(* account have been revoked".  The access tokens are not: nothing bumps   *)
(* token_generation on this path.                                          *)
ReuseEndsSessions ==
    revocations = 1 /\ bumps = 0 => \A n \in Ids : tokens[n].old => ~Accepted(n)

(* One login, one line of tokens: at most one of its tokens is usable, and *)
(* none after its logout (CommitRotation and LogoutHandler on the rows of  *)
(* one family).                                                            *)
TokenFamilies == TypeOK /\ OneLiveTokenPerLogin /\ LogoutEnds

(* Routes and grants fit together: viewers write nothing but their own     *)
(* sessions, owners reach everything.                                      *)
RolesFitRoutes == ViewersOnlyRead /\ OwnerReachesEveryRoute
=============================================================================
