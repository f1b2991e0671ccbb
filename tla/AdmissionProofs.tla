---------------------------- MODULE AdmissionProofs ----------------------------
(***************************************************************************)
(* Proofs about what a request must pass: the tokens it presents           *)
(* (IdentitySessions) and the limiter (RateLimiter), for any number of     *)
(* concurrent requests, reset tokens, session tokens and revocations, and  *)
(* of processes, windows and failures of Redis.                            *)
(*                                                                         *)
(* AccessEnds rests on the version of the user's row: until two requests   *)
(* are past the check together, whoever commits a bump loaded the          *)
(* generation that is in the row (Stamps, Versions).  The properties of    *)
(* refresh tokens rest on what a revocation in flight may have missed      *)
(* (Missed): no version protects those rows, only the overlap is recorded. *)
(*                                                                         *)
(* LimitIsExact rests on what each counter has counted (LimiterInv): as    *)
(* long as a window lasts, its key in Redis has counted all its requests,  *)
(* and a process has counted exactly those of the last window it was in.   *)
(***************************************************************************)
EXTENDS IdentitySessions, RateLimiter, SequenceTheorems, FiniteSetTheorems, TLAPS

Op == BumpOp \cup RowOp \cup {"refresh", "reuse", "logout"}

RequestRow ==
    [at : {"idle", "read", "deny", "loaded", "saved", "selected"}, op : Op, token : Nat \cup Reset,
     presented : BOOLEAN, loaded : UserRow, model : UserRow, chosen : SUBSET (1..MaxTokens),
     bumps : Nat]

\* A request that presents a token names one that exists.
Addressed(x) ==
    /\ x.op \in {"refresh", "logout"} => x.token \in Ids
    /\ x.op = "reset" => x.token \in Reset

Types ==
    /\ TypeOK
    /\ req \in [Request -> RequestRow]
    /\ revocations \in Nat /\ bumps \in Nat
    /\ \A r \in Request : Addressed(req[r])

\* One request at a time is past the version check.
OneSaved == \A q, r \in Saved : q = r

\* A request that loaded the row knows by the version whether it still is the
\* row; past the check it is, and save has selected the same.
Versioned(x) ==
    x.op \in RowOp \cup BumpOp =>
        /\ x.at \in {"loaded", "saved", "selected"} =>
               /\ x.loaded.version <= user.version
               /\ x.loaded.version = user.version => x.loaded = user
        /\ x.at \in {"saved", "selected"} => x.loaded = user /\ x.model = user

Versions == \A r \in Request : Versioned(req[r])

\* Generations count the revocations that bump, wherever they were copied to.
Stamps ==
    /\ user.gen = bumps
    /\ \A n \in Ids : tokens[n].gen = tokens[n].bumps
    /\ \A r \in Request : req[r].loaded.gen = req[r].bumps

\* What a SELECT of the active tokens has missed was written while it held.
Missed ==
    \A r \in Revoking : \A n \in Ids : Live(n) /\ n \notin req[r].chosen => tokens[n].overlap

\* Only a token that was live when it was presented is rotated.
PresentedLive == \A r \in Request : req[r].op = "refresh" => ~req[r].presented

\* A family is named after its first token.
Founded ==
    /\ \A n \in Ids : tokens[n].family <= n
    /\ ended \subseteq Ids

GenInv   == OneSaved /\ Versions /\ Stamps
TokenInv == Missed /\ PresentedLive /\ Founded /\ OldSessionsEnd /\ OneLiveTokenPerLogin /\ LogoutEnds

IInv == Types /\ (raced = {} => GenInv) /\ TokenInv

-----------------------------------------------------------------------------
(* The operators on tokens *)

(* Tokens are numbered in order of issue, and each is a row.               *)
LEMMA TokenFacts ==
    ASSUME Types
    PROVE  /\ Len(tokens) \in Nat /\ Len(tokens) <= MaxTokens
           /\ \A n \in Ids : tokens[n] \in Token
           /\ Ids \subseteq Nat /\ Ids \subseteq 1..MaxTokens
           /\ ActiveTokens \subseteq 1..MaxTokens
  BY ElementOfSeq, LenProperties, SessionsAssumption DEF Types, TypeOK, Ids, ActiveTokens

(* A function that gives every token's row is a sequence as long as before. *)
LEMMA Rewritten ==
    ASSUME Types, NEW f \in [Ids -> Token]
    PROVE  f \in Seq(Token) /\ Len(f) = Len(tokens)
<1>1. Len(tokens) \in Nat
  BY TokenFacts
<1> QED
  BY <1>1, SeqDef, LenProperties DEF Ids

(* RefreshToken.revoke touches revoked_at of the chosen rows, nothing else. *)
LEMMA RevokeFacts ==
    ASSUME Types, NEW S
    PROVE  /\ Revoke(S) \in [Ids -> Token]
           /\ Revoke(S) \in Seq(Token) /\ Len(Revoke(S)) = Len(tokens)
           /\ \A n \in Ids : Revoke(S)[n] =
                  [tokens[n] EXCEPT !.revoked = (n \in S \/ tokens[n].revoked)]
<1>1. ASSUME NEW n \in Ids
      PROVE  /\ (IF n \in S THEN [tokens[n] EXCEPT !.revoked = TRUE] ELSE tokens[n]) \in Token
             /\ (IF n \in S THEN [tokens[n] EXCEPT !.revoked = TRUE] ELSE tokens[n])
                    = [tokens[n] EXCEPT !.revoked = (n \in S \/ tokens[n].revoked)]
  BY TokenFacts DEF Token
<1>2. Revoke(S) \in [Ids -> Token]
  BY <1>1 DEF Revoke
<1> QED
  BY <1>1, <1>2, Rewritten DEF Revoke

(* The commit of a bulk revocation changes revoked and the history only.   *)
LEMMA RevokeAllFacts ==
    ASSUME Types, NEW S
    PROVE  /\ RevokeAll(S) \in Seq(Token) /\ Len(RevokeAll(S)) = Len(tokens)
           /\ \A n \in Ids : RevokeAll(S)[n] =
                  [tokens[n] EXCEPT !.revoked = (n \in S \/ tokens[n].revoked), !.old = TRUE]
<1>1. ASSUME NEW n \in Ids
      PROVE  /\ [Revoke(S)[n] EXCEPT !.old = TRUE] \in Token
             /\ [Revoke(S)[n] EXCEPT !.old = TRUE]
                    = [tokens[n] EXCEPT !.revoked = (n \in S \/ tokens[n].revoked), !.old = TRUE]
  <2>1. tokens[n] \in Token /\ Revoke(S)[n] = [tokens[n] EXCEPT !.revoked = (n \in S \/ tokens[n].revoked)]
    BY RevokeFacts, TokenFacts
  <2>2. Revoke(S)[n] \in Token
    BY RevokeFacts
  <2> QED
    BY <2>1, <2>2 DEF Token
<1>2. RevokeAll(S) \in [Ids -> Token]
  BY <1>1 DEF RevokeAll
<1> QED
  BY <1>1, <1>2, Rewritten DEF RevokeAll

(* A new token is a row, of an old family or one named after itself.       *)
LEMMA NewTokenType ==
    ASSUME Types, NEW r \in Request, NEW family \in 1..MaxTokens, NEW old \in BOOLEAN, NEW overlap \in BOOLEAN
    PROVE  NewToken(r, family, old, overlap) \in Token
  BY DEF NewToken, Token, Types, RequestRow, UserRow

-----------------------------------------------------------------------------
(* Requests: the steps that write nothing but their own progress *)

\* What a request becomes by such a step.
WellBegun(x) ==
    /\ x \in RequestRow /\ Addressed(x)
    /\ x.op = "refresh" => ~x.presented
    /\ raced = {} => x.loaded.gen = x.bumps /\ Versioned(x)
    /\ x.at = "selected" => x.chosen = ActiveTokens

\* The states of a request in Saved.
IsSaved(x) == x.at \in {"saved", "selected"} /\ x.op # "reuse"

(* The idle request.                                                       *)
LEMMA IdleFacts ==
    /\ WellBegun(Idle) /\ ~IsSaved(Idle) /\ Versioned(Idle)
    /\ Idle.at = "idle" /\ Idle.op = "login" /\ Idle.loaded.gen = Idle.bumps
    /\ Idle \in RequestRow
  BY DEF WellBegun, Idle, NewUser, UserRow, RequestRow, Addressed, IsSaved, Versioned, Op, RowOp,
         BumpOp

(* Reads and the check of save keep the invariant; a request that passes   *)
(* the check with another one is recorded.                                 *)
LEMMA QuietStep ==
    ASSUME IInv, NEW r \in Request, NEW x, WellBegun(x),
           raced \subseteq raced', raced' \subseteq Request,
           raced' = {} /\ IsSaved(x) => Saved \subseteq {r},
           req' = [req EXCEPT ![r] = x],
           reset' \in [Reset -> ResetState],
           UNCHANGED <<user, tokens, revocations, bumps, ended>>
    PROVE  IInv'
<1>1. Ids' = Ids /\ tokens' = tokens /\ ActiveTokens \subseteq 1..MaxTokens
  BY TokenFacts DEF Ids, IInv
<1>2. /\ \A q \in Request : req'[q] = IF q = r THEN x ELSE req[q]
      /\ req' \in [Request -> RequestRow]
  BY DEF IInv, Types, WellBegun
<1>3. Types'
  <2>1. TypeOK'
    BY <1>1, <1>2 DEF IInv, Types, TypeOK, RequestRow
  <2>2. (\A q \in Request : Addressed(req[q]))'
    BY <1>1, <1>2 DEF IInv, Types, Addressed, WellBegun
  <2> QED
    BY <1>2, <2>1, <2>2 DEF IInv, Types
<1>4. Revoking' \subseteq Revoking \cup {r} /\ (r \in Revoking' => x.at = "selected")
  BY <1>2 DEF Revoking
<1>5. ASSUME raced' = {}
      PROVE  GenInv'
  <2>1. GenInv /\ raced = {}
    BY <1>5 DEF IInv
  <2>2. Saved' \subseteq Saved \cup {r} /\ (r \in Saved' => IsSaved(x))
    BY <1>2 DEF Saved, IsSaved
  <2>3. OneSaved'
    <3>1. CASE IsSaved(x)
      BY <1>5, <2>2, <3>1 DEF OneSaved
    <3>2. CASE ~IsSaved(x)
      BY <2>1, <2>2, <3>2 DEF GenInv, OneSaved
    <3> QED
      BY <3>1, <3>2
  <2>4. Versions'
    BY <1>2, <2>1 DEF GenInv, Versions, WellBegun, Versioned
  <2>5. Stamps'
    BY <1>1, <1>2, <2>1 DEF GenInv, Stamps, WellBegun
  <2> QED
    BY <2>3, <2>4, <2>5 DEF GenInv
<1>7. Missed'
  BY <1>1, <1>2, <1>4 DEF IInv, TokenInv, Missed, WellBegun, Live, ActiveTokens
<1>8. PresentedLive'
  BY <1>2 DEF IInv, TokenInv, PresentedLive, WellBegun
<1>9. Founded' /\ OldSessionsEnd' /\ OneLiveTokenPerLogin' /\ LogoutEnds'
  BY <1>1 DEF IInv, TokenInv, Founded, OldSessionsEnd, OneLiveTokenPerLogin, LogoutEnds, Live
<1> QED
  BY <1>3, <1>5, <1>7, <1>8, <1>9 DEF IInv, TokenInv

(* The same for steps that pass no check.                                  *)
LEMMA QuieterStep ==
    ASSUME IInv, NEW r \in Request, NEW x, WellBegun(x), ~IsSaved(x),
           req' = [req EXCEPT ![r] = x], UNCHANGED <<user, tokens, reset, History>>
    PROVE  IInv'
<1>1. reset' \in [Reset -> ResetState] /\ raced \subseteq raced' /\ raced' \subseteq Request
  BY DEF IInv, Types, TypeOK, History
<1>2. UNCHANGED <<user, tokens, revocations, bumps, ended>>
  BY DEF History
<1> QED
  BY <1>1, <1>2, QuietStep

(* A request that ends without a commit.                                   *)
LEMMA EndStep ==
    ASSUME IInv, NEW r \in Request, Done(r), UNCHANGED <<user, tokens, reset, History>>
    PROVE  IInv'
  BY IdleFacts, QuieterStep DEF Done

(* A request that loads the user takes the row as it is.                   *)
LEMMA LoadStep ==
    ASSUME IInv, NEW r \in Request, NEW op \in Op, NEW n \in Nat \cup Reset,
           op \in {"refresh", "logout"} => n \in Ids,
           op = "reset" => n \in Reset,
           op = "refresh" => req[r].op = "refresh",
           LoadUser(r, op, n), UNCHANGED <<user, tokens, reset, History>>
    PROVE  IInv'
<1> DEFINE x == [at |-> "loaded", op |-> op, token |-> n,
                 presented |-> req[r].presented, loaded |-> user,
                 model |-> NewUser, chosen |-> {}, bumps |-> bumps]
<1>1. req[r] \in RequestRow /\ user \in UserRow /\ NewUser \in UserRow /\ bumps \in Nat
  BY DEF IInv, Types, TypeOK, UserRow, NewUser
<1>2. x \in RequestRow
  BY <1>1 DEF RequestRow
<1>3. x.op = "refresh" => ~x.presented
  BY DEF IInv, TokenInv, PresentedLive
<1>4. raced = {} => user.gen = bumps
  BY DEF IInv, GenInv, Stamps
<1>5. Versioned(x)
  BY <1>1 DEF Versioned, UserRow
<1>6. WellBegun(x) /\ ~IsSaved(x)
  BY <1>2, <1>3, <1>4, <1>5 DEF WellBegun, Addressed, IsSaved
<1>7. req' = [req EXCEPT ![r] = x]
  BY DEF LoadUser
<1> HIDE DEF x
<1> QED
  BY <1>6, <1>7, QuieterStep

(* A step that leaves the requests and the tokens alone.                   *)
LEMMA StillStep ==
    ASSUME IInv, reset' \in [Reset -> ResetState], UNCHANGED <<user, tokens, req, History>>
    PROVE  IInv'
<1> USE DEF History
<1>1. Types'
  BY DEF IInv, Types, TypeOK, Addressed, Ids
<1>2. GenInv => GenInv'
  BY DEF GenInv, OneSaved, Saved, Versions, Versioned, Stamps, Ids
<1>3. TokenInv'
  BY DEF IInv, TokenInv, Missed, PresentedLive, Founded, OldSessionsEnd, OneLiveTokenPerLogin,
         LogoutEnds, Revoking, Live, Ids
<1> QED
  BY <1>1, <1>2, <1>3 DEF IInv

(* A handler starts: it finds its token or loads its user.                 *)
LEMMA StartStep ==
    ASSUME IInv, NEW r \in Request,
           \/ \E op \in RowOp \cup (BumpOp \ {"reset"}) : Begin(r, op)
           \/ \E k \in Reset : ReadReset(r, k)
           \/ \E n \in Ids : ReadRefresh(r, n) \/ DetectReuse(r, n) \/ ReadLogout(r, n)
    PROVE  IInv'
<1>0. reset \in [Reset -> ResetState] /\ Ids \subseteq Nat /\ ActiveTokens \subseteq 1..MaxTokens
  BY TokenFacts DEF IInv, Types, TypeOK
<1>1. ASSUME NEW op \in RowOp \cup (BumpOp \ {"reset"}), Begin(r, op)
      PROVE  IInv'
  BY <1>1, LoadStep DEF Begin, Op, RowOp, BumpOp
<1>2. ASSUME NEW k \in Reset, ReadReset(r, k)
      PROVE  IInv'
  <2> DEFINE x == [Idle EXCEPT !.at = "read", !.op = "reset", !.token = k]
  <2>1. WellBegun(x) /\ ~IsSaved(x)
    BY DEF WellBegun, Idle, NewUser, UserRow, RequestRow, Addressed, IsSaved, Versioned, Op,
           RowOp, BumpOp
  <2>2. req' = [req EXCEPT ![r] = x] /\ UNCHANGED <<user, tokens, reset, History>>
    BY <1>2 DEF ReadReset, Go
  <2> HIDE DEF x
  <2> QED
    BY <1>0, <2>1, <2>2, QuieterStep
<1>3. ASSUME NEW n \in Ids, ReadRefresh(r, n)
      PROVE  IInv'
  <2> DEFINE x == [Idle EXCEPT !.at = "read", !.op = "refresh", !.token = n,
                               !.presented = tokens[n].revoked]
  <2>1. tokens[n].revoked = FALSE
    BY <1>3, TokenFacts DEF ReadRefresh, Live, Token, IInv
  <2>2. WellBegun(x) /\ ~IsSaved(x)
    BY <1>0, <2>1 DEF WellBegun, Idle, NewUser, UserRow, RequestRow, Addressed, IsSaved, Versioned, Op,
           RowOp, BumpOp
  <2>3. req' = [req EXCEPT ![r] = x] /\ UNCHANGED <<user, tokens, reset, History>>
    BY <1>3 DEF ReadRefresh, Present
  <2> HIDE DEF x
  <2> QED
    BY <1>0, <2>2, <2>3, QuieterStep
<1>4. ASSUME NEW n \in Ids, DetectReuse(r, n)
      PROVE  IInv'
  <2> DEFINE x == [Idle EXCEPT !.at = "selected", !.op = "reuse", !.token = n,
                               !.chosen = ActiveTokens]
  <2>1. WellBegun(x) /\ ~IsSaved(x)
    BY <1>0 DEF WellBegun, Idle, NewUser, UserRow, RequestRow, Addressed, IsSaved, Versioned, Op,
           RowOp, BumpOp
  <2>2. req' = [req EXCEPT ![r] = x] /\ UNCHANGED <<user, tokens, reset, History>>
    BY <1>4 DEF DetectReuse
  <2> HIDE DEF x
  <2> QED
    BY <1>0, <2>1, <2>2, QuieterStep
<1>5. ASSUME NEW n \in Ids, ReadLogout(r, n)
      PROVE  IInv'
  <2> DEFINE at == IF tokens[n].revoked THEN "deny" ELSE "read"
             x  == [Idle EXCEPT !.at = at, !.op = "logout", !.token = n]
  <2>1. WellBegun(x) /\ ~IsSaved(x)
    BY <1>0 DEF WellBegun, Idle, NewUser, UserRow, RequestRow, Addressed, IsSaved, Versioned, Op,
           RowOp, BumpOp
  <2>2. req' = [req EXCEPT ![r] = x] /\ UNCHANGED <<user, tokens, reset, History>>
    BY <1>5 DEF ReadLogout, Go
  <2> HIDE DEF x
  <2> QED
    BY <1>0, <2>1, <2>2, QuieterStep
<1> QED
  BY <1>1, <1>2, <1>3, <1>4, <1>5

(* A handler goes on, or fails, without a commit.                          *)
LEMMA ContinueStep ==
    ASSUME IInv, NEW r \in Request,
           \/ Abort(r) \/ SaveUser(r) \/ Conflict(r) \/ SelectSessions(r)
           \/ LoadForReset(r) \/ LoadForRefresh(r)
    PROVE  IInv'
<1>0. /\ reset \in [Reset -> ResetState] /\ Ids \subseteq Nat
      /\ ActiveTokens \subseteq 1..MaxTokens /\ req[r] \in RequestRow /\ Addressed(req[r])
      /\ user \in UserRow /\ raced \subseteq Request
  BY TokenFacts DEF IInv, Types, TypeOK
<1>1. CASE Abort(r) \/ Conflict(r)
  BY <1>1, EndStep DEF Abort, Conflict
<1>2. CASE SaveUser(r)
  <2> DEFINE x == [req[r] EXCEPT !.at = "saved", !.model = user]
  <2>1. /\ x \in RequestRow /\ x.at = "saved" /\ x.op = req[r].op /\ x.model = user
        /\ x.loaded = req[r].loaded /\ x.bumps = req[r].bumps
    BY <1>0 DEF RequestRow
  <2>2. x.op # "refresh" /\ x.op # "logout" /\ x.token = req[r].token
    BY <1>0, <1>2 DEF SaveUser, RowOp, BumpOp, RequestRow
  <2>3. ASSUME raced = {}
        PROVE  x.loaded.gen = x.bumps /\ x.loaded = user
    BY <1>2, <2>1, <2>3 DEF SaveUser, VersionMatches, IInv, GenInv, Stamps, Versions, Versioned
  <2>4. WellBegun(x)
    BY <1>0, <2>1, <2>2, <2>3 DEF WellBegun, Addressed, Versioned, UserRow
  <2>5. raced \subseteq raced' /\ raced' \subseteq Request /\ (raced' = {} => Saved = {})
    BY <1>0, <1>2 DEF SaveUser, Saved
  <2>6. /\ req' = [req EXCEPT ![r] = x] /\ reset' \in [Reset -> ResetState]
        /\ UNCHANGED <<user, tokens, revocations, bumps, ended>>
    BY <1>0, <1>2 DEF SaveUser, IInv, Types
  <2> HIDE DEF x
  <2> QED
    BY <2>4, <2>5, <2>6, QuietStep
<1>3. CASE SelectSessions(r)
  <2> DEFINE x == [req[r] EXCEPT !.at = "selected", !.chosen = ActiveTokens]
  <2>1. /\ x \in RequestRow /\ x.at = "selected" /\ x.op = req[r].op /\ x.chosen = ActiveTokens
        /\ x.loaded = req[r].loaded /\ x.model = req[r].model /\ x.bumps = req[r].bumps
        /\ x.token = req[r].token
    BY <1>0 DEF RequestRow
  <2>2. x.op \in BumpOp /\ req[r].at = "saved"
    BY <1>3, <2>1 DEF SelectSessions
  <2>3. raced = {} => x.loaded.gen = x.bumps /\ Versioned(x)
    BY <2>1, <2>2 DEF IInv, GenInv, Stamps, Versions, Versioned
  <2>4. WellBegun(x)
    BY <1>0, <2>1, <2>2, <2>3 DEF WellBegun, Addressed, BumpOp
  <2>5. r \in Saved
    BY <2>1, <2>2 DEF Saved, BumpOp
  <2>6. raced = {} => Saved \subseteq {r}
    BY <2>5 DEF IInv, GenInv, OneSaved
  <2>7. /\ req' = [req EXCEPT ![r] = x] /\ reset' \in [Reset -> ResetState]
        /\ UNCHANGED <<user, tokens, revocations, bumps, ended>> /\ raced' = raced
    BY <1>0, <1>3 DEF SelectSessions, IInv, Types, History
  <2> HIDE DEF x
  <2> QED
    BY <1>0, <2>4, <2>6, <2>7, QuietStep
<1>4. CASE LoadForReset(r)
  <2>1. req[r].token \in Reset /\ "reset" \in Op
    BY <1>0, <1>4 DEF LoadForReset, Addressed, Op, BumpOp
  <2> QED
    BY <1>4, <2>1, LoadStep DEF LoadForReset
<1>5. CASE LoadForRefresh(r)
  <2>1. req[r].token \in Ids /\ req[r].token \in Nat /\ "refresh" \in Op
    BY <1>0, <1>5 DEF LoadForRefresh, Addressed, Op
  <2> QED
    BY <1>5, <2>1, LoadStep DEF LoadForRefresh
<1> QED
  BY <1>1, <1>2, <1>3, <1>4, <1>5

-----------------------------------------------------------------------------
(* Commits: the steps that write tokens *)

(* When a request has ended the others are where they were.                *)
LEMMA RequestsAfter ==
    ASSUME Types, NEW r \in Request, Done(r)
    PROVE  /\ req' \in [Request -> RequestRow]
           /\ \A q \in Request : req'[q] = IF q = r THEN Idle ELSE req[q]
  BY IdleFacts DEF Done, Types

(* The types after a commit.                                               *)
LEMMA CommitTypes ==
    ASSUME Types, NEW r \in Request, Done(r), raced' = raced,
           tokens' \in Seq(Token), Len(tokens) <= Len(tokens'), Len(tokens') <= MaxTokens,
           user' \in UserRow, reset' \in [Reset -> ResetState],
           revocations' \in Nat, bumps' \in Nat, ended' \subseteq Ids'
    PROVE  Types'
<1>1. /\ Len(tokens') \in Nat /\ Ids \subseteq Ids' /\ Ids' \subseteq 1..MaxTokens
  BY TokenFacts, LenProperties, SessionsAssumption DEF Ids
<1>2. \A q \in Request : req'[q] \in RequestRow
  BY RequestsAfter
<1>3. TypeOK'
  BY <1>1, <1>2 DEF Types, TypeOK, RequestRow
<1>4. (\A q \in Request : Addressed(req[q]))'
  BY <1>1, IdleFacts, RequestsAfter DEF Types, Addressed
<1> QED
  BY <1>3, <1>4, RequestsAfter DEF Types

\* What a commit does to the row: nothing, or one write of a request that is
\* past the check; the generation goes on counting.
RowWritten(r) ==
    /\ user'.gen = bumps'
    /\ user' = user \/ (r \in Saved /\ user'.version = user.version + 1)

(* Generations and versions after a commit.  Whoever has loaded the row    *)
(* without being past the check has loaded an older version now.           *)
LEMMA CommitGen ==
    ASSUME Types, GenInv, NEW r \in Request, Done(r), RowWritten(r), user' \in UserRow,
           \A n \in Ids' : tokens'[n].gen = tokens'[n].bumps
    PROVE  GenInv'
<1>1. Saved' \subseteq Saved \ {r}
  BY RequestsAfter, IdleFacts DEF Saved, IsSaved
<1>2. OneSaved'
  BY <1>1 DEF GenInv, OneSaved
<1>3. Versions'
  <2> SUFFICES ASSUME NEW q \in Request, q # r, req'[q] = req[q]
               PROVE  Versioned(req[q])'
    BY RequestsAfter, IdleFacts DEF Versions, Versioned, RowOp
  <2>1. Versioned(req[q])
    BY DEF GenInv, Versions
  <2>2. CASE user' = user
    BY <2>1, <2>2 DEF Versioned
  <2>3. CASE r \in Saved /\ user'.version = user.version + 1
    <3>1. q \notin Saved
      BY <2>3 DEF GenInv, OneSaved
    <3>2. req[q].op \in RowOp \cup BumpOp => req[q].at \notin {"saved", "selected"}
      BY <3>1 DEF Saved, RowOp, BumpOp
    <3>3. user.version \in Nat /\ req[q].loaded.version \in Nat
      BY DEF Types, TypeOK, UserRow
    <3> QED
      BY <2>1, <2>3, <3>2, <3>3 DEF Versioned
  <2> QED
    BY <2>2, <2>3 DEF RowWritten
<1>4. Stamps'
  BY RequestsAfter, IdleFacts DEF GenInv, Stamps, RowWritten
<1> QED
  BY <1>2, <1>3, <1>4 DEF GenInv

(* The UPDATE writes a row.                                                *)
LEMMA UpdatedType ==
    ASSUME Types, NEW r \in Request
    PROVE  Updated(r) \in UserRow
<1>1. user \in UserRow /\ req[r].loaded \in UserRow /\ req[r].model \in UserRow
  BY DEF Types, TypeOK
<1>2. Entity(r).status \in {"ACTIVE", "BLOCKED"} /\ Entity(r).gen \in Nat
  <2>1. Entity(r).status \in {"ACTIVE", "BLOCKED"}
    BY <1>1 DEF Entity, UserRow
  <2>2. Entity(r).gen \in Nat
    <3>1. req[r].loaded.gen \in Nat
      BY <1>1 DEF UserRow
    <3>2. Entity(r).gen = req[r].loaded.gen + (IF req[r].op \in BumpOp THEN 1 ELSE 0)
      BY DEF Entity
    <3> QED
      BY <3>1, <3>2
  <2> QED
    BY <2>1, <2>2
<1>3. req[r].model.version + 1 \in Nat /\ user.gen \in Nat
      /\ user.status \in {"ACTIVE", "BLOCKED"}
  BY <1>1 DEF UserRow
<1> QED
  BY <1>2, <1>3 DEF Updated, UserRow

(* While one request at a time is past the check, it writes its command    *)
(* applied to the row.                                                     *)
LEMMA UpdatedFacts ==
    ASSUME Types, GenInv, NEW r \in Request, r \in Saved, req[r].op \in RowOp \cup BumpOp
    PROVE  /\ Updated(r).gen = user.gen + (IF req[r].op \in BumpOp THEN 1 ELSE 0)
           /\ Updated(r).version = user.version + 1
<1>1. req[r].loaded = user /\ req[r].model = user
  BY DEF GenInv, Versions, Versioned, Saved
<1>2. Entity(r).gen = user.gen + (IF req[r].op \in BumpOp THEN 1 ELSE 0)
  BY <1>1 DEF Entity
<1>3. Updated(r).gen = Entity(r).gen
  BY <1>1 DEF Updated
<1>4. Updated(r).version = user.version + 1
  BY <1>1 DEF Updated
<1> QED
  BY <1>2, <1>3, <1>4

(* Tokens after a commit that issues none: lines of tokens only get        *)
(* shorter.  What OldSessionsEnd and LogoutEnds ask is left to the step.   *)
LEMMA CommitTokens ==
    ASSUME Types, TokenInv, NEW r \in Request, Done(r),
           Ids' = Ids,
           \A n \in Ids : /\ tokens'[n].family = tokens[n].family
                          /\ tokens'[n].overlap = tokens[n].overlap
                          /\ tokens[n].revoked => tokens'[n].revoked,
           ended' \subseteq Ids', OldSessionsEnd', LogoutEnds'
    PROVE  TokenInv'
<1>1. Idle.at = "idle" /\ Idle.op = "login"
  BY IdleFacts
<1>2. Missed'
  BY <1>1, RequestsAfter DEF TokenInv, Missed, Revoking, Live
<1>3. PresentedLive'
  BY <1>1, RequestsAfter DEF TokenInv, PresentedLive
<1>4. Founded' /\ OneLiveTokenPerLogin'
  BY DEF TokenInv, Founded, OneLiveTokenPerLogin, Live
<1> QED
  BY <1>2, <1>3, <1>4 DEF TokenInv

(* An access token expires: no request is in progress.                     *)
LEMMA ExpireStep ==
    ASSUME IInv, NEW n \in Ids, AccessExpires(n)
    PROVE  IInv'
<1>1. tokens[n] \in Token /\ tokens' = [tokens EXCEPT ![n] = [tokens[n] EXCEPT !.over = TRUE]]
  BY TokenFacts DEF AccessExpires, IInv
<1>2. [tokens[n] EXCEPT !.over = TRUE] \in Token
  BY <1>1 DEF Token
<1>3. /\ tokens' \in Seq(Token) /\ Len(tokens') = Len(tokens)
      /\ \A m \in Ids : tokens'[m] = IF m = n THEN [tokens[n] EXCEPT !.over = TRUE] ELSE tokens[m]
  <2>1. tokens \in Seq(Token)
    BY DEF IInv, Types, TypeOK
  <2> QED
    BY <1>1, <1>2, <2>1, ExceptSeq DEF Ids
<1>4. /\ Ids' = Ids
      /\ \A m \in Ids : /\ tokens'[m].family = tokens[m].family /\ tokens'[m].old = tokens[m].old
                        /\ tokens'[m].overlap = tokens[m].overlap
                        /\ tokens'[m].revoked = tokens[m].revoked
                        /\ tokens'[m].gen = tokens[m].gen /\ tokens'[m].bumps = tokens[m].bumps
  <2>1. Ids' = Ids
    BY <1>3 DEF Ids
  <2> QED
    BY <1>1, <1>3, <2>1 DEF Token
<1>5. UNCHANGED <<user, reset, req, History>>
  BY DEF AccessExpires
<1> USE DEF History
<1>6. Types'
  BY <1>3, <1>4, <1>5 DEF IInv, Types, TypeOK, Addressed
<1>7. GenInv => GenInv'
  BY <1>4, <1>5 DEF GenInv, OneSaved, Saved, Versions, Versioned, Stamps
<1>8. Missed' /\ PresentedLive' /\ Founded' /\ OldSessionsEnd'
  BY <1>4, <1>5 DEF IInv, TokenInv, Missed, PresentedLive, Founded, OldSessionsEnd, Revoking, Live
<1>9. OneLiveTokenPerLogin' /\ LogoutEnds'
  BY <1>4, <1>5 DEF IInv, TokenInv, OneLiveTokenPerLogin, LogoutEnds, Live
<1> QED
  BY <1>5, <1>6, <1>7, <1>8, <1>9 DEF IInv, TokenInv

(* A logout ends a line of tokens: the one live token of it is revoked.    *)
LEMMA LogoutStep ==
    ASSUME IInv, NEW r \in Request, NEW withAccess \in BOOLEAN, CommitLogout(r, withAccess)
    PROVE  IInv'
<1> DEFINE n == req[r].token
           t == [tokens[n] EXCEPT !.revoked = @ \/ req[r].at = "read", !.over = @ \/ withAccess]
<1>0. n \in Ids /\ tokens[n] \in Token /\ Done(r)
      /\ UNCHANGED <<user, reset, revocations, bumps, raced>>
  BY TokenFacts DEF IInv, Types, Addressed, CommitLogout
<1>1. t \in Token
  BY <1>0 DEF Token
<1>2. tokens' = [tokens EXCEPT ![n] = t]
  BY <1>0 DEF CommitLogout
<1>3. /\ tokens' \in Seq(Token) /\ Len(tokens') = Len(tokens)
      /\ \A m \in Ids : tokens'[m] = IF m = n THEN t ELSE tokens[m]
  BY <1>0, <1>1, <1>2, ExceptSeq DEF IInv, Types, TypeOK, Ids
<1>4. /\ Ids' = Ids
      /\ \A m \in Ids : /\ tokens'[m].family = tokens[m].family /\ tokens'[m].old = tokens[m].old
                        /\ tokens'[m].overlap = tokens[m].overlap
                        /\ tokens[m].revoked => tokens'[m].revoked
                        /\ tokens'[m].gen = tokens[m].gen /\ tokens'[m].bumps = tokens[m].bumps
      /\ req[r].at = "read" => tokens'[n].revoked
  <2>1. Ids' = Ids
    BY <1>3 DEF Ids
  <2>2. /\ t.family = tokens[n].family /\ t.old = tokens[n].old /\ t.overlap = tokens[n].overlap
        /\ t.gen = tokens[n].gen /\ t.bumps = tokens[n].bumps
    BY <1>0 DEF Token
  <2>3. tokens[n].revoked \/ req[r].at = "read" => t.revoked
    BY <1>0 DEF Token
  <2> HIDE DEF t
  <2> QED
    BY <1>0, <1>3, <2>1, <2>2, <2>3
<1>5. ended' = IF req[r].at = "read" /\ ~tokens[n].revoked THEN ended \cup {tokens[n].family} ELSE ended
  BY DEF CommitLogout
<1> HIDE DEF n, t
<1>6. tokens[n].family <= n /\ tokens[n].family \in Nat \ {0} /\ ended \subseteq Ids
  BY <1>0, SessionsAssumption DEF IInv, TokenInv, Founded, Token
<1>7. ended' \subseteq Ids'
  BY <1>0, <1>4, <1>5, <1>6, TokenFacts DEF Ids, IInv
<1>8. Types'
  <2>1. Len(tokens) \in Nat /\ Len(tokens) <= MaxTokens /\ MaxTokens \in Nat
    BY TokenFacts, SessionsAssumption DEF IInv
  <2>2. user' \in UserRow /\ reset' \in [Reset -> ResetState] /\ revocations' \in Nat /\ bumps' \in Nat
    BY <1>0 DEF IInv, Types, TypeOK
  <2> QED
    BY <1>0, <1>3, <1>7, <2>1, <2>2, CommitTypes DEF IInv
<1>9. GenInv => GenInv'
  <2> SUFFICES ASSUME GenInv PROVE GenInv'
    OBVIOUS
  <2>1. \A m \in Ids' : tokens'[m].gen = tokens'[m].bumps
    BY <1>4 DEF GenInv, Stamps
  <2>2. RowWritten(r) /\ user' \in UserRow
    BY <1>0 DEF RowWritten, GenInv, Stamps, IInv, Types, TypeOK
  <2> QED
    BY <1>0, <2>1, <2>2, CommitGen DEF IInv
<1>10. OldSessionsEnd'
  BY <1>4 DEF IInv, TokenInv, OldSessionsEnd, Live
<1>11. LogoutEnds'
  <2> SUFFICES ASSUME NEW m \in Ids, ~tokens'[m].revoked, tokens'[m].family \in ended'
               PROVE  \E k \in Ids : tokens'[k].family = tokens'[m].family /\ tokens'[k].overlap
    BY <1>4 DEF LogoutEnds, Live
  <2>1. ~tokens[m].revoked
    BY <1>4
  <2>2. CASE tokens[m].family \in ended
    BY <1>4, <2>1, <2>2 DEF IInv, TokenInv, LogoutEnds, Live
  <2>3. CASE tokens[m].family \notin ended
    <3>1. req[r].at = "read" /\ ~tokens[n].revoked /\ tokens[m].family = tokens[n].family /\ m # n
      BY <1>4, <1>5, <2>3
    <3>2. tokens[m].overlap \/ tokens[n].overlap
      BY <1>0, <2>1, <3>1 DEF IInv, TokenInv, OneLiveTokenPerLogin, Live
    <3> QED
      BY <1>0, <1>4, <3>1, <3>2
  <2> QED
    BY <2>2, <2>3
<1>12. TokenInv'
  BY <1>0, <1>4, <1>7, <1>10, <1>11, CommitTokens DEF IInv
<1> QED
  BY <1>0, <1>8, <1>9, <1>12 DEF IInv

(* A bulk revocation leaves usable only what its SELECT has missed.        *)
LEMMA RevokeAllTokens ==
    ASSUME IInv, NEW r \in Revoking, Done(r),
           tokens' = RevokeAll(req[r].chosen), UNCHANGED ended
    PROVE  /\ tokens' \in Seq(Token) /\ Len(tokens') = Len(tokens) /\ Ids' = Ids
           /\ GenInv => \A n \in Ids' : tokens'[n].gen = tokens'[n].bumps
           /\ ended' \subseteq Ids'
           /\ TokenInv'
<1> DEFINE S == req[r].chosen
<1>0. r \in Request
  BY DEF Revoking
<1>1. /\ tokens' \in Seq(Token) /\ Len(tokens') = Len(tokens) /\ Ids' = Ids
      /\ \A n \in Ids : tokens[n] \in Token
      /\ \A n \in Ids : tokens'[n] =
             [tokens[n] EXCEPT !.revoked = (n \in S \/ tokens[n].revoked), !.old = TRUE]
  BY RevokeAllFacts, TokenFacts DEF IInv, Ids
<1>2. \A n \in Ids : /\ tokens'[n].family = tokens[n].family
                     /\ tokens'[n].overlap = tokens[n].overlap
                     /\ tokens'[n].gen = tokens[n].gen /\ tokens'[n].bumps = tokens[n].bumps
  BY <1>1 DEF Token
<1>3. \A n \in Ids : (n \in S => tokens'[n].revoked) /\ (tokens[n].revoked => tokens'[n].revoked)
  BY <1>1 DEF Token
<1>4. OldSessionsEnd'
  BY <1>1, <1>2, <1>3 DEF IInv, TokenInv, Missed, OldSessionsEnd, Live
<1>5. LogoutEnds'
  <2>1. Ids' = Ids
    BY <1>1
  <2>2. ASSUME NEW n \in Ids, ~tokens'[n].revoked, tokens'[n].family \in ended'
        PROVE  \E m \in Ids : tokens'[m].family = tokens'[n].family /\ tokens'[m].overlap
    <3>1. ~tokens[n].revoked /\ tokens[n].family \in ended
      BY <1>2, <1>3, <2>2
    <3>2. \E m \in Ids : tokens[m].family = tokens[n].family /\ tokens[m].overlap
      BY <3>1 DEF IInv, TokenInv, LogoutEnds, Live
    <3> QED
      BY <1>2, <3>2
  <2> QED
    BY <2>1, <2>2 DEF LogoutEnds, Live
<1>6. ended' \subseteq Ids'
  BY <1>1 DEF IInv, TokenInv, Founded
<1>7. TokenInv'
  BY <1>0, <1>1, <1>2, <1>3, <1>4, <1>5, <1>6, CommitTokens DEF IInv
<1>8. GenInv => \A n \in Ids' : tokens'[n].gen = tokens'[n].bumps
  BY <1>1, <1>2 DEF GenInv, Stamps
<1> QED
  BY <1>1, <1>6, <1>7, <1>8

(* Detected reuse revokes the refresh tokens and bumps nothing.            *)
LEMMA ReuseStep ==
    ASSUME IInv, NEW r \in Request, CommitReuse(r)
    PROVE  IInv'
<1>1. /\ r \in Revoking /\ Done(r) /\ tokens' = RevokeAll(req[r].chosen)
      /\ UNCHANGED <<user, reset, bumps, ended, raced>> /\ revocations' = revocations + 1
  BY DEF CommitReuse, Revoking
<1>2. /\ tokens' \in Seq(Token) /\ Len(tokens') = Len(tokens) /\ Ids' = Ids /\ ended' \subseteq Ids'
      /\ TokenInv' /\ (GenInv => \A n \in Ids' : tokens'[n].gen = tokens'[n].bumps)
  BY <1>1, RevokeAllTokens
<1>3. /\ Len(tokens) \in Nat /\ Len(tokens) <= MaxTokens
      /\ user' \in UserRow /\ reset' \in [Reset -> ResetState] /\ revocations' \in Nat /\ bumps' \in Nat
  BY <1>1, TokenFacts DEF IInv, Types, TypeOK
<1>4. Len(tokens) <= Len(tokens') /\ Len(tokens') <= MaxTokens
  BY <1>2, <1>3
<1>5. Types'
  BY <1>1, <1>2, <1>3, <1>4, CommitTypes DEF IInv
<1>6. GenInv => GenInv'
  <2>1. GenInv => RowWritten(r)
    BY <1>1 DEF RowWritten, GenInv, Stamps
  <2> QED
    BY <1>1, <1>2, <1>3, <2>1, CommitGen DEF IInv
<1> QED
  BY <1>1, <1>2, <1>5, <1>6 DEF IInv

(* A revocation that bumps the generation: when it alone is past the       *)
(* check, it writes one more than what is in the row.                      *)
LEMMA RevocationStep ==
    ASSUME IInv, NEW r \in Request, CommitRevocation(r)
    PROVE  IInv'
<1>1. /\ r \in Revoking /\ Done(r) /\ tokens' = RevokeAll(req[r].chosen)
      /\ UNCHANGED <<ended, raced>> /\ revocations' = revocations + 1 /\ bumps' = bumps + 1
      /\ req[r].op \in BumpOp /\ req[r].at = "selected" /\ user' = Updated(r)
  BY DEF CommitRevocation, Revoking
<1>2. /\ tokens' \in Seq(Token) /\ Len(tokens') = Len(tokens) /\ Ids' = Ids /\ ended' \subseteq Ids'
      /\ TokenInv' /\ (GenInv => \A n \in Ids' : tokens'[n].gen = tokens'[n].bumps)
  BY <1>1, RevokeAllTokens
<1>3. user' \in UserRow
  BY <1>1, UpdatedType DEF IInv
<1>4. reset' \in [Reset -> ResetState]
  BY DEF CommitRevocation, IInv, Types, TypeOK, ResetState
<1>5. Len(tokens) <= Len(tokens') /\ Len(tokens') <= MaxTokens
  BY <1>2, TokenFacts DEF IInv
<1>6. revocations' \in Nat /\ bumps' \in Nat
  BY <1>1 DEF IInv, Types
<1>7. Types'
  BY <1>1, <1>2, <1>3, <1>4, <1>5, <1>6, CommitTypes DEF IInv
<1>8. GenInv => GenInv'
  <2> SUFFICES ASSUME GenInv PROVE GenInv'
    OBVIOUS
  <2>1. r \in Saved
    BY <1>1 DEF Saved, BumpOp
  <2>2. user'.gen = user.gen + 1 /\ user'.version = user.version + 1
    BY <1>1, <2>1, UpdatedFacts DEF IInv
  <2>3. RowWritten(r)
    BY <1>1, <2>1, <2>2 DEF RowWritten, GenInv, Stamps
  <2> QED
    BY <1>1, <1>2, <1>3, <2>3, CommitGen DEF IInv
<1> QED
  BY <1>1, <1>2, <1>7, <1>8 DEF IInv

(* Issue of a token t, after some tokens have been revoked (T): what it    *)
(* takes to keep the invariant.                                            *)
LEMMA IssueStep ==
    ASSUME IInv, NEW r \in Request, Done(r),
           NEW T \in Seq(Token), Len(T) = Len(tokens), Len(tokens) < MaxTokens,
           NEW t \in Token, tokens' = Append(T, t),
           \A n \in Ids : /\ T[n].family = tokens[n].family /\ T[n].old = tokens[n].old
                          /\ T[n].overlap = tokens[n].overlap
                          /\ T[n].gen = tokens[n].gen /\ T[n].bumps = tokens[n].bumps
                          /\ tokens[n].revoked => T[n].revoked,
           GenInv => t.gen = t.bumps /\ RowWritten(r), t.family <= Len(tokens) + 1,
           Revoking # {} => t.overlap,
           t.old => t.overlap,
           \A n \in Ids : T[n].family = t.family /\ ~T[n].revoked => T[n].overlap \/ t.overlap,
           t.family \in ended =>
               t.overlap \/ \E n \in Ids : tokens[n].family = t.family /\ tokens[n].overlap,
           user' \in UserRow, UNCHANGED <<reset, History>>
    PROVE  IInv'
<1> DEFINE L == Len(tokens) + 1
<1> USE DEF History
<1>0. Len(tokens) \in Nat /\ MaxTokens \in Nat /\ Ids \subseteq Nat
  BY TokenFacts, SessionsAssumption DEF IInv
<1>1. /\ tokens' \in Seq(Token) /\ Len(tokens') = L
      /\ \A n \in Ids : tokens'[n] = T[n]
      /\ tokens'[L] = t
  BY AppendProperties DEF Ids
<1>2. Ids' = Ids \cup {L} /\ L \notin Ids
  BY <1>0, <1>1 DEF Ids
<1>3. \A n \in Ids : /\ tokens'[n].family = tokens[n].family /\ tokens'[n].old = tokens[n].old
                     /\ tokens'[n].overlap = tokens[n].overlap
                     /\ tokens'[n].gen = tokens[n].gen /\ tokens'[n].bumps = tokens[n].bumps
                     /\ tokens[n].revoked => tokens'[n].revoked
  BY <1>1
<1>4. ended' \subseteq Ids'
  BY <1>2 DEF IInv, TokenInv, Founded
<1>5. Len(tokens) <= Len(tokens') /\ Len(tokens') <= MaxTokens
  BY <1>0, <1>1
<1> HIDE DEF L
<1>6. Types'
  <2>1. reset' \in [Reset -> ResetState] /\ revocations' \in Nat /\ bumps' \in Nat
    BY DEF IInv, Types, TypeOK
  <2> QED
    BY <1>1, <1>4, <1>5, <2>1, CommitTypes DEF IInv
<1>7. GenInv => GenInv'
  <2> SUFFICES ASSUME GenInv PROVE GenInv'
    OBVIOUS
  <2>1. \A n \in Ids : tokens'[n].gen = tokens'[n].bumps
    BY <1>3 DEF GenInv, Stamps
  <2>2. \A n \in Ids' : tokens'[n].gen = tokens'[n].bumps
    BY <1>1, <1>2, <2>1
  <2> QED
    BY <2>2, CommitGen DEF IInv
<1>8. Idle.at = "idle" /\ Idle.op = "login"
  BY IdleFacts
<1>9. Missed'
  <2> SUFFICES ASSUME NEW q \in Request, req'[q].at = "selected", NEW n \in Ids',
                      ~tokens'[n].revoked, n \notin req'[q].chosen
               PROVE  tokens'[n].overlap
    BY DEF Missed, Revoking, Live
  <2>1. req[q].at = "selected" /\ req'[q].chosen = req[q].chosen
    BY <1>8, RequestsAfter DEF IInv
  <2>2. CASE n = L
    BY <1>1, <2>1, <2>2 DEF Revoking
  <2>3. CASE n \in Ids
    BY <1>3, <2>1, <2>3 DEF IInv, TokenInv, Missed, Revoking, Live
  <2> QED
    BY <1>2, <2>2, <2>3
<1>10. PresentedLive'
  BY <1>8, RequestsAfter DEF IInv, TokenInv, PresentedLive
<1>11. Founded'
  <2>1. t.family <= L
    BY DEF L
  <2>2. \A n \in Ids : tokens'[n].family <= n
    BY <1>3 DEF IInv, TokenInv, Founded
  <2> QED
    BY <1>1, <1>2, <1>4, <2>1, <2>2 DEF Founded
<1>12. OldSessionsEnd'
  <2>1. \A n \in Ids : ~tokens'[n].revoked /\ tokens'[n].old => tokens'[n].overlap
    BY <1>3 DEF IInv, TokenInv, OldSessionsEnd, Live
  <2> QED
    BY <1>1, <1>2, <2>1 DEF OldSessionsEnd, Live
<1>13. OneLiveTokenPerLogin'
  <2> SUFFICES ASSUME NEW m \in Ids', NEW n \in Ids', m # n, tokens'[m].family = tokens'[n].family,
                      ~tokens'[m].revoked, ~tokens'[n].revoked
               PROVE  tokens'[m].overlap \/ tokens'[n].overlap
    BY DEF OneLiveTokenPerLogin, Live
  <2>1. CASE m \in Ids /\ n \in Ids
    BY <1>3, <2>1 DEF IInv, TokenInv, OneLiveTokenPerLogin, Live
  <2>2. CASE m = L /\ n \in Ids
    BY <1>1, <2>2
  <2>3. CASE m \in Ids /\ n = L
    BY <1>1, <2>3
  <2> QED
    BY <1>2, <2>1, <2>2, <2>3
<1>14. LogoutEnds'
  <2> SUFFICES ASSUME NEW n \in Ids', ~tokens'[n].revoked, tokens'[n].family \in ended
               PROVE  \E m \in Ids' : tokens'[m].family = tokens'[n].family /\ tokens'[m].overlap
    BY DEF LogoutEnds, Live
  <2>1. CASE n = L /\ t.overlap
    BY <1>1, <1>2, <2>1
  <2>2. CASE n = L /\ ~t.overlap
    BY <1>1, <1>2, <1>3, <2>2
  <2>3. CASE n \in Ids
    <3>1. PICK m \in Ids : tokens[m].family = tokens[n].family /\ tokens[m].overlap
      BY <1>3, <2>3 DEF IInv, TokenInv, LogoutEnds, Live
    <3>2. tokens'[m].family = tokens'[n].family /\ tokens'[m].overlap
      BY <1>3, <2>3, <3>1
    <3> QED
      BY <1>2, <3>2
  <2> QED
    BY <1>2, <2>1, <2>2, <2>3
<1> QED
  BY <1>6, <1>7, <1>9, <1>10, <1>11, <1>12, <1>13, <1>14 DEF IInv, TokenInv

(* Rotation carries a line of tokens on.  When nothing overlapped it, the  *)
(* token it replaces was the live one of its line, so what is known of     *)
(* that one holds for its successor.                                       *)
LEMMA RotationStep ==
    ASSUME IInv, NEW r \in Request, CommitRotation(r)
    PROVE  IInv'
<1> DEFINE n    == req[r].token
           late == (tokens[n].revoked /\ ~req[r].presented) \/ Revoking # {}
           o    == tokens[n].overlap \/ late
           t    == NewToken(r, tokens[n].family, tokens[n].old, o)
           T    == Revoke({n})
<1>1. /\ req[r].op = "refresh" /\ Len(tokens) < MaxTokens /\ tokens' = Append(T, t)
      /\ Done(r) /\ UNCHANGED <<user, reset, History>>
  BY DEF CommitRotation
<1>2. n \in Ids /\ tokens[n] \in Token /\ ~req[r].presented /\ o \in BOOLEAN
  BY <1>1, TokenFacts DEF IInv, Types, Addressed, TokenInv, PresentedLive
<1>3. ~o => ~tokens[n].revoked /\ ~tokens[n].overlap /\ Revoking = {}
  BY <1>2
<1> HIDE DEF o
<1>4. tokens[n].family \in 1..MaxTokens /\ tokens[n].old \in BOOLEAN
  BY <1>2 DEF Token
<1>5. t \in Token
  BY <1>2, <1>4, NewTokenType DEF IInv
<1>6. /\ t.family = tokens[n].family /\ t.old = tokens[n].old /\ t.overlap = o
      /\ t.gen = req[r].loaded.gen /\ t.bumps = req[r].bumps
  BY DEF NewToken
<1>7. /\ T \in Seq(Token) /\ Len(T) = Len(tokens)
      /\ \A m \in Ids : T[m] = [tokens[m] EXCEPT !.revoked = (m \in {n} \/ tokens[m].revoked)]
  BY RevokeFacts DEF IInv
<1> HIDE DEF T, t, n
<1>8. \A m \in Ids : tokens[m] \in Token
  BY TokenFacts DEF IInv
<1>9. \A m \in Ids : /\ T[m].family = tokens[m].family /\ T[m].old = tokens[m].old
                     /\ T[m].overlap = tokens[m].overlap
                     /\ T[m].gen = tokens[m].gen /\ T[m].bumps = tokens[m].bumps
  <2> SUFFICES ASSUME NEW m \in Ids
               PROVE  /\ T[m].family = tokens[m].family /\ T[m].old = tokens[m].old
                      /\ T[m].overlap = tokens[m].overlap
                      /\ T[m].gen = tokens[m].gen /\ T[m].bumps = tokens[m].bumps
    OBVIOUS
  <2>1. PICK b : T[m] = [tokens[m] EXCEPT !.revoked = b]
    BY <1>7
  <2> QED
    BY <1>8, <2>1 DEF Token
<1>10. (\A m \in Ids : tokens[m].revoked => T[m].revoked) /\ T[n].revoked
  BY <1>2, <1>7, <1>8 DEF Token
<1>11. GenInv => t.gen = t.bumps /\ RowWritten(r)
  BY <1>1, <1>6 DEF GenInv, Stamps, RowWritten, History
<1>12. t.family <= Len(tokens) + 1
  <2>1. tokens[n].family <= n /\ n \in 1..Len(tokens) /\ Len(tokens) \in Nat /\ tokens[n].family \in Nat
    BY <1>2, <1>4, TokenFacts, SessionsAssumption DEF IInv, TokenInv, Founded, Ids
  <2> QED
    BY <1>6, <2>1
<1>13. Revoking # {} => t.overlap
  BY <1>3, <1>6
<1>14. t.old => t.overlap
  BY <1>2, <1>3, <1>6 DEF IInv, TokenInv, OldSessionsEnd, Live
<1>15. \A m \in Ids : T[m].family = t.family /\ ~T[m].revoked => T[m].overlap \/ t.overlap
  <2> SUFFICES ASSUME NEW m \in Ids, T[m].family = t.family, ~T[m].revoked, ~o
               PROVE  T[m].overlap
    BY <1>6
  <2>1. m # n /\ ~tokens[m].revoked /\ tokens[m].family = tokens[n].family
    BY <1>6, <1>9, <1>10
  <2>2. tokens[m].overlap \/ tokens[n].overlap
    BY <1>2, <1>3, <2>1 DEF IInv, TokenInv, OneLiveTokenPerLogin, Live
  <2> QED
    BY <1>3, <1>9, <2>2
<1>16. t.family \in ended =>
           t.overlap \/ \E m \in Ids : tokens[m].family = t.family /\ tokens[m].overlap
  BY <1>2, <1>3, <1>6 DEF IInv, TokenInv, LogoutEnds, Live
<1>17. user' \in UserRow /\ UNCHANGED <<reset, History>>
  BY <1>1 DEF IInv, Types, TypeOK
<1> QED
  BY <1>1, <1>5, <1>7, <1>9, <1>10, <1>11, <1>12, <1>13, <1>14, <1>15, <1>16, <1>17, IssueStep

(* A login founds a family; a reactivation changes the status only.        *)
LEMMA CommitRowStep ==
    ASSUME IInv, NEW r \in Request, CommitRow(r)
    PROVE  IInv'
<1>1. Done(r) /\ UNCHANGED <<reset, History>>
  BY DEF CommitRow
<1>2. user' \in UserRow /\ (GenInv => RowWritten(r))
  <2>1. user' = Updated(r) /\ r \in Saved /\ req[r].op \in RowOp /\ req[r].op \notin BumpOp
    BY DEF CommitRow, Saved, RowOp, BumpOp
  <2>2. user' \in UserRow
    BY <2>1, UpdatedType DEF IInv
  <2>3. ASSUME GenInv
        PROVE  RowWritten(r)
    <3>1. Updated(r).gen = user.gen + 0 /\ Updated(r).version = user.version + 1
      BY <2>1, <2>3, UpdatedFacts DEF IInv
    <3>2. user.gen \in Nat
      BY DEF IInv, Types, TypeOK, UserRow
    <3> QED
      BY <1>1, <2>1, <2>3, <3>1, <3>2 DEF RowWritten, GenInv, Stamps, History
  <2> QED
    BY <2>2, <2>3
<1>3. CASE req[r].op = "login"
  <2> DEFINE L == Len(tokens) + 1
             o == Revoking # {}
             t == NewToken(r, L, FALSE, o)
  <2>1. Len(tokens) < MaxTokens /\ tokens' = Append(tokens, t)
    BY <1>3 DEF CommitRow
  <2>2. Len(tokens) \in Nat /\ MaxTokens \in Nat
    BY TokenFacts, SessionsAssumption DEF IInv
  <2>3. L \in 1..MaxTokens /\ FALSE \in BOOLEAN /\ o \in BOOLEAN
    BY <2>1, <2>2
  <2>4. L \notin ended /\ \A n \in Ids : tokens[n].family # L
    <3>1. \A n \in Ids : tokens[n].family <= n /\ n <= Len(tokens) /\ tokens[n].family \in Nat
      BY <2>2, TokenFacts, SessionsAssumption DEF IInv, TokenInv, Founded, Ids, Token
    <3>2. ended \subseteq 1..Len(tokens)
      BY DEF IInv, TokenInv, Founded, Ids
    <3>3. \A n \in Ids : n \in Nat
      BY TokenFacts DEF IInv
    <3> QED
      BY <2>2, <3>1, <3>2, <3>3
  <2> HIDE DEF o
  <2>5. t \in Token
    BY <2>3, NewTokenType DEF IInv
  <2>6. /\ t.family = L /\ t.old = FALSE /\ t.overlap = o
        /\ t.gen = req[r].loaded.gen /\ t.bumps = req[r].bumps
    BY DEF NewToken
  <2>7. GenInv => t.gen = t.bumps /\ RowWritten(r)
    BY <1>2, <2>6 DEF GenInv, Stamps
  <2>8. Revoking # {} => t.overlap
    BY <2>6 DEF o
  <2>9. t.family <= L /\ ~t.old
    <3> HIDE DEF t
    <3>1. L <= L
      BY <2>2
    <3> QED
      BY <2>6, <3>1
  <2>10. tokens \in Seq(Token)
    BY DEF IInv, Types, TypeOK
  <2>11. t.family \notin ended /\ \A n \in Ids : tokens[n].family # t.family
    BY <2>4, <2>6
  <2> HIDE DEF t
  <2> QED
    BY <1>1, <1>2, <2>1, <2>5, <2>7, <2>8, <2>9, <2>10, <2>11, IssueStep
<1>4. CASE req[r].op # "login"
  <2>1. tokens' = tokens /\ Ids' = Ids
    BY <1>4 DEF CommitRow, Ids
  <2>2. Types'
    <3>1. /\ tokens \in Seq(Token) /\ Len(tokens) <= MaxTokens /\ Len(tokens) \in Nat
          /\ reset' \in [Reset -> ResetState] /\ revocations' \in Nat /\ bumps' \in Nat
          /\ ended' \subseteq Ids'
      BY <1>1, <2>1, TokenFacts DEF IInv, Types, TypeOK, TokenInv, Founded, History
    <3> QED
      BY <1>1, <1>2, <2>1, <3>1, CommitTypes DEF IInv, History
  <2>3. GenInv => GenInv'
    <3>1. GenInv => \A n \in Ids' : tokens'[n].gen = tokens'[n].bumps
      BY <2>1 DEF GenInv, Stamps
    <3> QED
      BY <1>1, <1>2, <3>1, CommitGen DEF IInv
  <2>4. OldSessionsEnd' /\ LogoutEnds' /\ ended' \subseteq Ids'
    BY <1>1, <2>1 DEF IInv, TokenInv, OldSessionsEnd, LogoutEnds, Founded, Live, History
  <2>5. TokenInv'
    BY <1>1, <2>1, <2>4, CommitTokens DEF IInv
  <2> QED
    BY <1>1, <2>2, <2>3, <2>5 DEF IInv, History
<1> QED
  BY <1>3, <1>4

-----------------------------------------------------------------------------
(* The theorems of a session *)

(* A user without sessions satisfies the invariant.                        *)
LEMMA InitIInv == Init => IInv
<1> SUFFICES ASSUME Init
             PROVE  IInv
  OBVIOUS
<1>1. tokens \in Seq(Token) /\ Len(tokens) = 0 /\ Ids = {}
  <2>1. Len(<<>>) = 0 /\ <<>> \in Seq(Token)
    BY EmptySeq
  <2> QED
    BY <2>1 DEF Init, Ids
<1>2. Idle \in RequestRow /\ Addressed(Idle) /\ Idle.at = "idle" /\ Idle.op = "login"
      /\ Idle.loaded.gen = Idle.bumps /\ Versioned(Idle)
  BY IdleFacts DEF WellBegun
<1>3. \A r \in Request : req[r] = Idle
  BY DEF Init
<1>4. Types
  <2>1. user \in UserRow /\ raced \subseteq Request /\ reset \in [Reset -> ResetState] /\ ended \subseteq 1..MaxTokens
        /\ revocations \in Nat /\ bumps \in Nat
    BY DEF Init, NewUser, UserRow, ResetState
  <2>2. Len(tokens) <= MaxTokens
    BY <1>1, SessionsAssumption
  <2>3. req \in [Request -> RequestRow]
    BY <1>2 DEF Init
  <2>4. TypeOK
    BY <1>1, <2>1, <2>2, <2>3 DEF TypeOK, RequestRow
  <2> QED
    BY <1>2, <1>3, <2>1, <2>3, <2>4 DEF Types
<1>5. GenInv
  BY <1>1, <1>2, <1>3 DEF Init, NewUser, GenInv, OneSaved, Saved, Versions, Stamps
<1>6. TokenInv
  BY <1>1, <1>2, <1>3 DEF Init, TokenInv, Missed, PresentedLive, Founded, OldSessionsEnd,
         OneLiveTokenPerLogin, LogoutEnds, Revoking
<1> QED
  BY <1>4, <1>5, <1>6 DEF IInv

(* Every step keeps the invariant.                                         *)
LEMMA StepIInv == IInv /\ [Next]_vars => IInv'
<1> SUFFICES ASSUME IInv, [Next]_vars
             PROVE  IInv'
  OBVIOUS
<1>0. reset \in [Reset -> ResetState]
  BY DEF IInv, Types, TypeOK
<1>1. CASE UNCHANGED vars
  BY <1>0, <1>1, StillStep DEF vars, History
<1>2. ASSUME NEW r \in Request,
             \/ \E op \in RowOp \cup (BumpOp \ {"reset"}) : Begin(r, op)
             \/ \E k \in Reset : ReadReset(r, k)
             \/ \E n \in Ids : ReadRefresh(r, n) \/ DetectReuse(r, n) \/ ReadLogout(r, n)
      PROVE  IInv'
  BY <1>2, StartStep
<1>3. ASSUME NEW r \in Request,
             \/ Abort(r) \/ SaveUser(r) \/ Conflict(r) \/ SelectSessions(r)
             \/ LoadForReset(r) \/ LoadForRefresh(r)
      PROVE  IInv'
  BY <1>3, ContinueStep
<1>4. ASSUME NEW r \in Request, CommitRow(r)
      PROVE  IInv'
  BY <1>4, CommitRowStep
<1>5. ASSUME NEW r \in Request, CommitRevocation(r)
      PROVE  IInv'
  BY <1>5, RevocationStep
<1>6. ASSUME NEW r \in Request, CommitRotation(r)
      PROVE  IInv'
  BY <1>6, RotationStep
<1>7. ASSUME NEW r \in Request, CommitReuse(r)
      PROVE  IInv'
  BY <1>7, ReuseStep
<1>8. ASSUME NEW r \in Request, NEW withAccess \in BOOLEAN, CommitLogout(r, withAccess)
      PROVE  IInv'
  BY <1>8, LogoutStep
<1>9. ASSUME NEW n \in Ids, AccessExpires(n)
      PROVE  IInv'
  BY <1>9, ExpireStep
<1>10. ASSUME NEW k \in Reset, RequestPasswordReset(k) \/ ResetExpires(k)
       PROVE  IInv'
  BY <1>0, <1>10, StillStep DEF RequestPasswordReset, ResetExpires, ResetState
<1> QED
  BY <1>1, <1>2, <1>3, <1>4, <1>5, <1>6, <1>7, <1>8, <1>9, <1>10 DEF Next

(* The inductive invariant holds throughout.                               *)
LEMMA SpecIInv == Spec => []IInv
  BY InitIInv, StepIInv, PTL DEF Spec

(* Rows, tokens and requests keep their types (entities.py, orm.py), for   *)
(* any number of concurrent requests.                                      *)
THEOREM TypeCorrect == Spec => []TypeOK
<1>1. IInv => TypeOK
  BY DEF IInv, Types
<1> QED
  BY <1>1, SpecIInv, PTL

(* User.revoke_all_sessions and the version check of                       *)
(* SqlAlchemyUserRepository.save: after a revocation that bumps            *)
(* token_generation no access token issued before it is accepted again,    *)
(* until two requests were past the version check of the row together.     *)
THEOREM AccessTokensEnd == Spec => []AccessEnds
<1>1. IInv => AccessEnds
  BY DEF IInv, GenInv, Stamps, AccessEnds, AccessAlwaysEnds, Accepted
<1> QED
  BY <1>1, SpecIInv, PTL

(* revoke_all_active_for_user and RefreshAccessTokenHandler: a session     *)
(* opened before a bulk revocation has no usable refresh token after it,   *)
(* unless a rotation in its line overlapped a revocation.                  *)
THEOREM OldSessionsAreOver == Spec => []OldSessionsEnd
<1>1. IInv => OldSessionsEnd
  BY DEF IInv, TokenInv
<1> QED
  BY <1>1, SpecIInv, PTL

(* RefreshAccessTokenHandler and LogoutHandler on the tokens of one login: *)
(* at most one is usable, and none after its logout, unless requests that  *)
(* wrote them overlapped.                                                  *)
THEOREM OneLineOfTokens == Spec => []TokenFamilies
<1>1. IInv => TokenFamilies
  BY DEF IInv, Types, TokenInv, TokenFamilies
<1> QED
  BY <1>1, SpecIInv, PTL

-----------------------------------------------------------------------------
(* Roles and routes *)

OwnSession == {"public", "session"}

\* The codes of the routes that write, and of the others.
WriteCode ==
    {"tenant:manage", "user:invite", "user:manage_role", "user:manage_status",
     "assessment:manage", "assessment:archive", "assessment:cancel",
     "workflow_template:manage", "validation:manage", "dataset:manage", "alert_rule:manage",
     "notification_subscription:manage", "notification:manage"}

ViewCode == PermissionCode \ WriteCode

(* The routes of one router, by the code they ask for.                     *)
LEMMA ReadsFacts ==
    ASSUME NEW code, NEW routes
    PROVE  \A x \in Reads(code, routes) : x.code = code /\ x.effect = "read"
  BY DEF Reads

LEMMA WritesFacts ==
    ASSUME NEW code, NEW routes
    PROVE  \A x \in Writes(code, routes) : x.code = code /\ x.effect = "write"
  BY DEF Writes

\* A router that asks for a code of its kind on every route.
Guarded(routes) ==
    \A x \in routes :
        \/ x.effect = "read" /\ x.code \in OwnSession \cup ViewCode
        \/ x.effect = "write" /\ x.code \in OwnSession \cup WriteCode

(* Every route that writes asks for a managing code, every other for a     *)
(* viewing one, and both kinds are permission codes.                       *)
LEMMA RoutesAreGuarded == Guarded(Routes)
<1> USE ReadsFacts, WritesFacts DEF Guarded, OwnSession, ViewCode, WriteCode, PermissionCode
<1>1. Guarded(AuthRoutes) /\ Guarded(TenantRoutes) /\ Guarded(CatalogRoutes)
  BY DEF AuthRoutes, TenantRoutes, CatalogRoutes
<1>2. Guarded(UserRoutes)
  BY DEF UserRoutes
<1>3. Guarded(AssessmentRoutes) /\ Guarded(WorkflowRoutes) /\ Guarded(TemplateRoutes)
  BY DEF AssessmentRoutes, WorkflowRoutes, TemplateRoutes
<1>4. Guarded(DatasetRoutes) /\ Guarded(VariableRoutes) /\ Guarded(AcquisitionRoutes)
  BY DEF DatasetRoutes, VariableRoutes, AcquisitionRoutes
<1>5. Guarded(GeospatialRoutes) /\ Guarded(AnalysisRoutes) /\ Guarded(PredictionRoutes)
  BY DEF GeospatialRoutes, AnalysisRoutes, PredictionRoutes
<1>6. Guarded(ValidationRoutes) /\ Guarded(ReportingRoutes) /\ Guarded(DashboardRoutes)
  BY DEF ValidationRoutes, ReportingRoutes, DashboardRoutes
<1>7. Guarded(AlertRuleRoutes) /\ Guarded(SubscriptionRoutes) /\ Guarded(NotificationRoutes)
  BY DEF AlertRuleRoutes, SubscriptionRoutes, NotificationRoutes
<1> HIDE ReadsFacts, WritesFacts DEF OwnSession, ViewCode, WriteCode, PermissionCode
<1> QED
  BY <1>1, <1>2, <1>3, <1>4, <1>5, <1>6, <1>7 DEF Routes

(* The migrations grant an owner every code and a viewer no managing one.  *)
LEMMA GrantsFacts ==
    PermissionCode \subseteq Granted("OWNER") /\ Granted("VIEWER") \cap WriteCode = {}
<1> USE DEF Granted, IdentityGrants, AssessmentGrants, WorkflowGrants, ValidationGrants,
            DatasetGrants, NotificationGrants, DashboardGrants, PermissionCode, WriteCode
<1>1. PermissionCode \subseteq Granted("OWNER")
  OBVIOUS
<1>2. Granted("VIEWER") \cap WriteCode = {}
  OBVIOUS
<1> QED
  BY <1>1, <1>2

(* The permissions the migrations seed fit the routes of create_app: with  *)
(* an accepted token a viewer writes nothing but the own session, and an   *)
(* owner reaches every route.                                              *)
THEOREM RolesAndRoutes == Spec => []RolesFitRoutes
<1>1. \A x \in ViewerWrites : x.code \in OwnSession
  <2>1. ASSUME NEW x \in Routes, x.effect = "write", x.code \in OwnSession \cup Granted("VIEWER")
        PROVE  x.code \in OwnSession
    <3>1. x.code \in OwnSession \cup WriteCode
      BY <2>1, RoutesAreGuarded DEF Guarded
    <3> QED
      BY <2>1, <3>1, GrantsFacts
  <2> QED
    BY <2>1 DEF ViewerWrites, RouteOpen, OwnSession
<1>2. ClosedToOwner = {}
  <2>1. ASSUME NEW x \in Routes
        PROVE  x.code \in OwnSession \cup PermissionCode
    BY RoutesAreGuarded DEF Guarded, ViewCode, WriteCode, PermissionCode
  <2> QED
    BY <2>1, GrantsFacts DEF ClosedToOwner, RouteOpen, OwnSession
<1>3. IInv => RolesFitRoutes
  BY <1>1, <1>2 DEF RolesFitRoutes, ViewersOnlyRead, OwnerReachesEveryRoute, OwnSession
<1> QED
  BY <1>3, SpecIInv, PTL

-----------------------------------------------------------------------------
(* The limiter: what its counters have counted *)

(* The requests that Redis has counted in the window from s, those of them *)
(* it counted before the window's end, and those of these that pass.       *)
InRedis(s) == {b \in Attempts : attempt[b].at # "new" /\ <<"redis", s>> \in attempt[b].hits}

OnTime(s) == {b \in InRedis(s) : ~attempt[b].late}

Passing(s) ==
    {b \in OnTime(s) : \/ attempt[b].at = "counted" /\ attempt[b].count <= Quota
                       \/ attempt[b].at = "allowed" /\ attempt[b].counter = "redis"}

(* The requests that process p has counted itself *)
InProcess(p, s) == {b \in Attempts : attempt[b].at # "new" /\ <<p, s>> \in attempt[b].hits}

PassedBy(p, s) == {b \in InProcess(p, s) : attempt[b].at = "allowed" /\ attempt[b].counter = p}

AskedAttempt ==
    [at : {"asked"}, process : Processes, start : Starts, key : Starts, hits : {{}}, late : {FALSE}]

Hits == SUBSET ((Processes \cup {"redis"}) \X Nat)

CountedAttempt ==
    [at : {"counted"}, process : Processes, start : Starts, key : Starts, hits : Hits,
     late : BOOLEAN, count : Nat]

AnsweredAttempt ==
    [at : {"allowed", "refused"}, counter : Processes \cup {"redis"}, start : Nat, hits : Hits,
     late : BOOLEAN]

AttemptSound(x) ==
    \/ x = [at |-> "new"]
    \/ x \in AskedAttempt /\ x.key = x.start /\ x.start <= clock
    \/ /\ x \in CountedAttempt /\ x.key = x.start /\ x.start <= clock
       /\ x.hits = {<<"redis", x.start>>}
       /\ x.count <= Cardinality(InRedis(x.start))
    \/ /\ x \in AnsweredAttempt
       /\ <<x.counter, x.start>> \in x.hits
       /\ x.counter = "redis" => x.start \in Starts
       /\ (x.counter = "redis" /\ x.at = "refused") => Cardinality(InRedis(x.start)) > Quota
       /\ (x.counter \in Processes /\ x.at = "refused") => Cardinality(InProcess(x.counter, x.start)) > Quota

LimiterTyped ==
    /\ clock \in 0..MaxTime
    /\ redis \in [Starts -> [count : Nat, until : Nat]]
    /\ fallback \in [Processes -> [start : Nat, count : Nat]]
    /\ attempt = [a \in Attempts |-> attempt[a]]

(* Until its window ends a Redis counter has counted every request of it   *)
(* and does not expire; later it may start again.                          *)
RedisSound(s) ==
    /\ IsFiniteSet(InRedis(s))
    /\ redis[s].count <= Cardinality(InRedis(s))
    /\ (\E b \in InRedis(s) : attempt[b].late) => clock >= s + Window
    /\ clock < s + Window =>
          /\ redis[s].count = Cardinality(InRedis(s))
          /\ InRedis(s) # {} => redis[s].until >= s + Window
    /\ Cardinality(Passing(s)) <= Quota

(* A process counts the current window's requests, or an earlier one's. *)
ProcessSound(p) ==
    /\ fallback[p].start <= WindowStart(clock)
    /\ fallback[p].count = Cardinality(InProcess(p, fallback[p].start))
    /\ \A s \in Nat :
          /\ IsFiniteSet(InProcess(p, s))
          /\ s > fallback[p].start => InProcess(p, s) = {}
          /\ Cardinality(PassedBy(p, s)) <= Quota

LimiterInv ==
    /\ LimiterTyped
    /\ \A a \in Attempts : AttemptSound(attempt[a])
    /\ \A s \in Starts : RedisSound(s)
    /\ \A p \in Processes : ProcessSound(p)

LEMMA WindowStarts ==
    ASSUME NEW t \in Nat
    PROVE  /\ WindowStart(t) \in Nat /\ WindowStart(t) <= t
           /\ WindowStart(t) <= WindowStart(t + 1)
<1> DEFINE q == t \div Window
           r == (t + 1) \div Window
<1>1. Window \in Nat /\ Window > 0
  BY LimiterAssumption
<1>2. q \in Nat /\ r \in Nat
  BY <1>1
<1>3. q * Window <= t /\ t < q * Window + Window /\ r * Window <= t + 1 /\ t + 1 < r * Window + Window
  BY <1>1
<1> HIDE DEF q, r
<1>4. q <= r
  <2> SUFFICES ASSUME r < q PROVE FALSE
    BY <1>2
  <2>1. r + 1 <= q
    BY <1>2
  <2>2. (r + 1) * Window <= q * Window
    BY <1>1, <1>2, <2>1
  <2>3. (r + 1) * Window = r * Window + Window
    BY <1>1, <1>2
  <2>4. q * Window \in Nat /\ r * Window \in Nat
    BY <1>1, <1>2
  <2> QED
    BY <1>1, <1>3, <2>2, <2>3, <2>4
<1>5. q * Window <= r * Window /\ q * Window \in Nat
  BY <1>1, <1>2, <1>4
<1> QED
  BY <1>3, <1>5 DEF WindowStart, q, r

(* A starting window is a natural number. *)
LEMMA StartsAreTimes == Starts \subseteq Nat
<1> SUFFICES ASSUME NEW t \in 0..MaxTime PROVE WindowStart(t) \in Nat
  BY DEF Starts
<1> QED
  BY WindowStarts, LimiterAssumption

(* What stands of an attempt when the clock moves on and sets only grow *)
LEMMA AttemptStaysSound ==
    ASSUME LimiterInv, NEW a \in Attempts, attempt'[a] = attempt[a], clock' \in Nat, clock <= clock',
           \A s \in Starts : IsFiniteSet(InRedis(s)') /\ InRedis(s) \subseteq InRedis(s)',
           \A p \in Processes, s \in Nat :
               IsFiniteSet(InProcess(p, s)') /\ InProcess(p, s) \subseteq InProcess(p, s)'
    PROVE  AttemptSound(attempt[a])'
<1> DEFINE x == attempt[a]
<1>1. AttemptSound(x) /\ clock \in Nat /\ Quota \in Nat
  BY LimiterAssumption DEF LimiterInv, LimiterTyped
<1>2. \A s \in Starts : /\ Cardinality(InRedis(s)) \in Nat /\ Cardinality(InRedis(s)') \in Nat
                        /\ Cardinality(InRedis(s)) <= Cardinality(InRedis(s)')
  BY FS_Subset, FS_CardinalityType
<1>3. \A p \in Processes, s \in Nat :
          /\ Cardinality(InProcess(p, s)) \in Nat /\ Cardinality(InProcess(p, s)') \in Nat
          /\ Cardinality(InProcess(p, s)) <= Cardinality(InProcess(p, s)')
  BY FS_Subset, FS_CardinalityType
<1>4. \A m \in Starts : m \in Nat
  BY StartsAreTimes
<1>5. CASE x = [at |-> "new"]
  BY <1>5 DEF AttemptSound
<1>6. CASE x \in AskedAttempt /\ x.key = x.start /\ x.start <= clock
  <2>1. x.start \in Nat
    BY <1>6, <1>4 DEF AskedAttempt
  <2>2. x.start <= clock'
    BY <1>6, <2>1, <1>1
  <2> QED
    BY <1>6, <2>2 DEF AttemptSound
<1>7. CASE /\ x \in CountedAttempt /\ x.key = x.start /\ x.start <= clock
           /\ x.hits = {<<"redis", x.start>>}
           /\ x.count <= Cardinality(InRedis(x.start))
  <2>1. x.start \in Starts /\ x.start \in Nat /\ x.count \in Nat
    BY <1>7, <1>4 DEF CountedAttempt
  <2>2. x.start <= clock' /\ x.count <= Cardinality(InRedis(x.start)')
    BY <1>7, <2>1, <1>1, <1>2
  <2> QED
    BY <1>7, <2>2 DEF AttemptSound
<1>8. CASE /\ x \in AnsweredAttempt
           /\ <<x.counter, x.start>> \in x.hits
           /\ x.counter = "redis" => x.start \in Starts
           /\ (x.counter = "redis" /\ x.at = "refused") => Cardinality(InRedis(x.start)) > Quota
           /\ (x.counter \in Processes /\ x.at = "refused") =>
                  Cardinality(InProcess(x.counter, x.start)) > Quota
  <2>1. x.start \in Nat
    BY <1>8 DEF AnsweredAttempt
  <2>2. (x.counter = "redis" /\ x.at = "refused") => Cardinality(InRedis(x.start)') > Quota
    BY <1>8, <1>2, <1>1
  <2>3. (x.counter \in Processes /\ x.at = "refused") =>
            Cardinality(InProcess(x.counter, x.start)') > Quota
    BY <1>8, <1>3, <1>1, <2>1
  <2> QED
    BY <1>8, <2>2, <2>3 DEF AttemptSound
<1> QED
  BY <1>1, <1>5, <1>6, <1>7, <1>8 DEF AttemptSound

(* What a Redis counter means does not depend on requests that neither hit *)
(* it nor pass by it.                                                      *)
LEMMA RedisStaysSound ==
    ASSUME LimiterInv, NEW s \in Starts, redis'[s] = redis[s], clock' \in Nat, clock <= clock',
           InRedis(s)' = InRedis(s), Passing(s)' \subseteq Passing(s),
           \A b \in InRedis(s) : attempt'[b].late = attempt[b].late
    PROVE  RedisSound(s)'
<1>1. RedisSound(s) /\ clock \in Nat /\ s \in Nat /\ Quota \in Nat /\ Window \in Nat
  BY StartsAreTimes, LimiterAssumption DEF LimiterInv, LimiterTyped
<1>2. IsFiniteSet(Passing(s)) /\ Cardinality(Passing(s)') <= Cardinality(Passing(s))
      /\ Cardinality(Passing(s)) \in Nat /\ Cardinality(Passing(s)') \in Nat
  <2>1. Passing(s) \subseteq InRedis(s)
    BY DEF Passing, OnTime
  <2> QED
    BY <1>1, <2>1, FS_Subset, FS_CardinalityType DEF RedisSound
<1>3. Cardinality(Passing(s)') <= Quota
  BY <1>1, <1>2 DEF RedisSound
<1>4. clock' < s + Window => clock < s + Window
  BY <1>1
<1>5. clock >= s + Window => clock' >= s + Window
  BY <1>1
<1> QED
  BY <1>1, <1>3, <1>4, <1>5 DEF RedisSound

(* The same for the counter of a process *)
LEMMA ProcessStaysSound ==
    ASSUME LimiterInv, NEW p \in Processes, fallback'[p] = fallback[p],
           WindowStart(clock) <= WindowStart(clock'), clock' \in Nat,
           \A s \in Nat : InProcess(p, s)' = InProcess(p, s) /\ PassedBy(p, s)' = PassedBy(p, s)
    PROVE  ProcessSound(p)'
<1>1. ProcessSound(p) /\ fallback[p].start \in Nat /\ clock \in Nat
  BY DEF LimiterInv, LimiterTyped
<1>2. WindowStart(clock) \in Nat /\ WindowStart(clock') \in Nat
  BY <1>1, WindowStarts
<1>3. fallback[p].start <= WindowStart(clock')
  BY <1>1, <1>2 DEF ProcessSound
<1> QED
  BY <1>1, <1>3 DEF ProcessSound

(* Where a request stands says what is known of it. *)
LEMMA KnownOfAttempt ==
    ASSUME LimiterInv, NEW a \in Attempts
    PROVE  /\ attempt[a].at = "asked" =>
                 /\ attempt[a] \in AskedAttempt
                 /\ attempt[a].key = attempt[a].start /\ attempt[a].start <= clock
           /\ attempt[a].at = "counted" =>
                 /\ attempt[a] \in CountedAttempt
                 /\ attempt[a].hits = {<<"redis", attempt[a].start>>}
                 /\ attempt[a].count <= Cardinality(InRedis(attempt[a].start))
           /\ attempt[a].at \in {"allowed", "refused"} =>
                 /\ attempt[a] \in AnsweredAttempt
                 /\ <<attempt[a].counter, attempt[a].start>> \in attempt[a].hits
                 /\ attempt[a].counter = "redis" => attempt[a].start \in Starts
                 /\ (attempt[a].counter = "redis" /\ attempt[a].at = "refused") =>
                        Cardinality(InRedis(attempt[a].start)) > Quota
                 /\ (attempt[a].counter \in Processes /\ attempt[a].at = "refused") =>
                        Cardinality(InProcess(attempt[a].counter, attempt[a].start)) > Quota
<1>1. AttemptSound(attempt[a])
  BY DEF LimiterInv
<1>2. /\ attempt[a] = [at |-> "new"] => attempt[a].at = "new"
      /\ attempt[a] \in AskedAttempt => attempt[a].at = "asked"
      /\ attempt[a] \in CountedAttempt => attempt[a].at = "counted"
      /\ attempt[a] \in AnsweredAttempt => attempt[a].at \in {"allowed", "refused"}
  <2>1. attempt[a] = [at |-> "new"] => attempt[a].at = "new"
    OBVIOUS
  <2>2. attempt[a] \in AskedAttempt => attempt[a].at = "asked"
    BY DEF AskedAttempt
  <2>3. attempt[a] \in CountedAttempt => attempt[a].at = "counted"
    BY DEF CountedAttempt
  <2>4. attempt[a] \in AnsweredAttempt => attempt[a].at \in {"allowed", "refused"}
    BY DEF AnsweredAttempt
  <2> QED
    BY <2>1, <2>2, <2>3, <2>4
<1>3. CASE attempt[a].at = "asked"
  BY <1>1, <1>2, <1>3 DEF AttemptSound
<1>4. CASE attempt[a].at = "counted"
  BY <1>1, <1>2, <1>4 DEF AttemptSound
<1>5. CASE attempt[a].at \in {"allowed", "refused"}
  BY <1>1, <1>2, <1>5 DEF AttemptSound
<1> QED
  BY <1>3, <1>4, <1>5

(* Time alone changes nothing. *)
LEMMA TimePasses ==
    ASSUME LimiterInv, clock' \in 0..MaxTime, clock <= clock',
           WindowStart(clock) <= WindowStart(clock'),
           redis' = redis, fallback' = fallback, attempt' = attempt
    PROVE  LimiterInv'
<1>1. clock \in Nat /\ clock' \in Nat /\ MaxTime \in Nat
  BY LimiterAssumption DEF LimiterInv, LimiterTyped
<1>2. \A s : InRedis(s)' = InRedis(s) /\ Passing(s)' = Passing(s)
  BY DEF InRedis, OnTime, Passing
<1>3. \A p, s : InProcess(p, s)' = InProcess(p, s) /\ PassedBy(p, s)' = PassedBy(p, s)
  BY DEF InProcess, PassedBy
<1>4. LimiterTyped'
  BY DEF LimiterTyped, LimiterInv
<1>5. \A s \in Starts : RedisSound(s)'
  BY <1>1, <1>2, RedisStaysSound
<1>6. \A p \in Processes : ProcessSound(p)'
  BY <1>1, <1>3, ProcessStaysSound
<1>7. \A a \in Attempts : AttemptSound(attempt[a])'
  BY <1>1, <1>2, <1>3, AttemptStaysSound DEF LimiterInv, RedisSound, ProcessSound
<1> QED
  BY <1>4, <1>5, <1>6, <1>7 DEF LimiterInv

(* A request reads the clock. *)
LEMMA AskSound ==
    ASSUME LimiterInv, NEW a \in Attempts, NEW p \in Processes, Ask(a, p)
    PROVE  LimiterInv'
<1> DEFINE x == [at |-> "asked", process |-> p, start |-> WindowStart(clock),
                 key |-> RedisKey(clock), hits |-> {}, late |-> FALSE]
<1>1. /\ clock \in 0..MaxTime /\ clock \in Nat /\ clock' = clock /\ redis' = redis
      /\ fallback' = fallback /\ attempt[a].at = "new"
      /\ attempt' = [attempt EXCEPT ![a] = x] /\ clock <= clock
      /\ attempt = [b \in Attempts |-> attempt[b]]
  BY LimiterAssumption DEF Ask, LimiterInv, LimiterTyped
<1>2. attempt'[a] = x /\ \A b \in Attempts \ {a} : attempt'[b] = attempt[b]
  BY <1>1
<1>3. x.at = "asked" /\ x.hits = {}
  OBVIOUS
<1>4. \A s : InRedis(s)' = InRedis(s) /\ Passing(s)' = Passing(s)
  <2> SUFFICES ASSUME NEW s PROVE InRedis(s)' = InRedis(s) /\ Passing(s)' = Passing(s)
    OBVIOUS
  <2> HIDE DEF x
  <2>1. InRedis(s)' = InRedis(s) /\ a \notin InRedis(s)
    BY <1>1, <1>2, <1>3 DEF InRedis
  <2>2. \A b \in InRedis(s) : attempt'[b] = attempt[b]
    BY <1>2, <2>1 DEF InRedis
  <2> QED
    BY <2>1, <2>2 DEF OnTime, Passing
<1>5. \A q, s : InProcess(q, s)' = InProcess(q, s) /\ PassedBy(q, s)' = PassedBy(q, s)
  <2> SUFFICES ASSUME NEW q, NEW s
               PROVE  InProcess(q, s)' = InProcess(q, s) /\ PassedBy(q, s)' = PassedBy(q, s)
    OBVIOUS
  <2> HIDE DEF x
  <2>1. InProcess(q, s)' = InProcess(q, s) /\ a \notin InProcess(q, s)
    BY <1>1, <1>2, <1>3 DEF InProcess
  <2>2. \A b \in InProcess(q, s) : attempt'[b] = attempt[b]
    BY <1>2, <2>1 DEF InProcess
  <2> QED
    BY <2>1, <2>2 DEF PassedBy
<1>6. LimiterTyped'
  <2> HIDE DEF x
  <2> QED
    BY <1>1 DEF LimiterTyped, LimiterInv
<1>7. \A s \in Starts : RedisSound(s)'
  <2> SUFFICES ASSUME NEW s \in Starts PROVE RedisSound(s)'
    OBVIOUS
  <2>1. \A b \in InRedis(s) : attempt'[b].late = attempt[b].late
    BY <1>1, <1>2 DEF InRedis
  <2> QED
    BY <1>1, <1>4, <2>1, RedisStaysSound
<1>8. \A q \in Processes : ProcessSound(q)'
  BY <1>1, <1>5, ProcessStaysSound, WindowStarts
<1>9. \A b \in Attempts : AttemptSound(attempt[b])'
  <2> SUFFICES ASSUME NEW b \in Attempts PROVE AttemptSound(attempt[b])'
    OBVIOUS
  <2>1. CASE b = a
    <3>1. WindowStart(clock) \in Starts /\ WindowStart(clock) <= clock
      BY <1>1, WindowStarts DEF Starts
    <3>2. x \in AskedAttempt /\ x.key = x.start /\ x.start <= clock
      BY <3>1 DEF AskedAttempt, RedisKey
    <3> HIDE DEF x
    <3> QED
      BY <2>1, <1>1, <1>2, <3>2 DEF AttemptSound
  <2>2. CASE b # a
    BY <2>2, <1>1, <1>2, <1>4, <1>5, AttemptStaysSound DEF LimiterInv, RedisSound, ProcessSound
  <2> QED
    BY <2>1, <2>2
<1> QED
  BY <1>6, <1>7, <1>8, <1>9 DEF LimiterInv

(* Redis counts a request: on time, as one more than it has counted; later, *)
(* perhaps from the start.                                                  *)
LEMMA RedisCountsSound ==
    ASSUME LimiterInv, NEW a \in Attempts, RedisCounts(a)
    PROVE  LimiterInv'
<1>0. PICK s \in Starts : s = attempt[a].start
  BY KnownOfAttempt DEF RedisCounts, AskedAttempt
<1> DEFINE count == (IF clock < redis[s].until THEN redis[s].count ELSE 0) + 1
           x == [at |-> "counted", process |-> attempt[a].process, start |-> s, key |-> s,
                 hits |-> {<<"redis", s>>}, late |-> clock >= s + Window, count |-> count]
           n == Cardinality(InRedis(s))
<1>1. /\ attempt[a].at = "asked" /\ attempt[a] \in AskedAttempt /\ attempt[a].key = s
      /\ s <= clock /\ s \in Starts /\ attempt[a].process \in Processes /\ attempt[a].hits = {}
  BY <1>0, KnownOfAttempt DEF RedisCounts, AskedAttempt
<1>2. /\ clock \in Nat /\ clock' = clock /\ fallback' = fallback
      /\ redis' = [redis EXCEPT ![s] = [count |-> count, until |-> clock + Window]]
      /\ attempt' = [attempt EXCEPT ![a] = x]
  <2>1. clock \in Nat
    BY LimiterAssumption DEF LimiterInv, LimiterTyped
  <2>2. clock' = clock /\ fallback' = fallback
    BY DEF RedisCounts
  <2>3. redis' = [redis EXCEPT ![s] = [count |-> count, until |-> clock + Window]]
    BY <1>1 DEF RedisCounts
  <2>4. attempt' = [attempt EXCEPT ![a] = x]
    BY <1>0, <1>1 DEF RedisCounts
  <2> QED
    BY <2>1, <2>2, <2>3, <2>4
<1>3. /\ redis \in [Starts -> [count : Nat, until : Nat]] /\ s \in Nat /\ Window \in Nat /\ Quota \in Nat
      /\ redis[s].count \in Nat /\ redis[s].until \in Nat
      /\ attempt = [b \in Attempts |-> attempt[b]] /\ clock \in 0..MaxTime
  BY <1>1, StartsAreTimes, LimiterAssumption DEF LimiterInv, LimiterTyped
<1>4. count \in Nat /\ count > 0
  BY <1>3
<1>5. attempt'[a] = x /\ \A b \in Attempts \ {a} : attempt'[b] = attempt[b]
  BY <1>2, <1>3
<1>6. RedisSound(s) /\ IsFiniteSet(InRedis(s)) /\ n \in Nat
  BY <1>1, FS_CardinalityType DEF LimiterInv, RedisSound
<1>7. /\ x.at = "counted" /\ x.hits = {<<"redis", s>>} /\ x.start = s /\ x.count = count
      /\ (x.late <=> clock >= s + Window) /\ x.key = s /\ x \in CountedAttempt
  <2>1. x.at = "counted" /\ x.hits = {<<"redis", s>>} /\ x.start = s /\ x.count = count /\ x.key = s
    OBVIOUS
  <2>2. x.late = (clock >= s + Window)
    OBVIOUS
  <2>3. (clock >= s + Window) \in BOOLEAN /\ {<<"redis", s>>} \in Hits
    BY <1>3 DEF Hits
  <2>4. x \in CountedAttempt
    BY <1>1, <1>4, <2>3 DEF CountedAttempt
  <2> QED
    BY <2>1, <2>2, <2>4
<1>8. count <= n + 1 /\ (clock < s + Window => count = n + 1)
  <2>1. redis[s].count <= n
    BY <1>6 DEF RedisSound
  <2>2. ASSUME clock < s + Window PROVE count = n + 1
    <3>1. redis[s].count = n /\ (InRedis(s) # {} => redis[s].until >= s + Window)
      BY <1>6, <2>2 DEF RedisSound
    <3>2. InRedis(s) = {} => n = 0
      BY FS_EmptySet
    <3>3. InRedis(s) # {} => clock < redis[s].until
      BY <3>1, <2>2, <1>2, <1>3
    <3> QED
      BY <3>1, <3>2, <3>3, <1>3
  <2> QED
    BY <2>1, <2>2, <1>3, <1>6
<1> HIDE DEF x, count, n
<1>9. a \notin InRedis(s) /\ InRedis(s)' = InRedis(s) \cup {a}
  BY <1>1, <1>5, <1>7 DEF InRedis
<1>10. \A t \in Starts \ {s} : InRedis(t)' = InRedis(t) /\ Passing(t)' = Passing(t)
  <2> SUFFICES ASSUME NEW t \in Starts, t # s PROVE InRedis(t)' = InRedis(t) /\ Passing(t)' = Passing(t)
    OBVIOUS
  <2>1. InRedis(t)' = InRedis(t) /\ a \notin InRedis(t)
    BY <1>1, <1>5, <1>7 DEF InRedis
  <2>2. \A b \in InRedis(t) : attempt'[b] = attempt[b]
    BY <1>5, <2>1 DEF InRedis
  <2> QED
    BY <2>1, <2>2 DEF OnTime, Passing
<1>11. \A p \in Processes : \A t : InProcess(p, t)' = InProcess(p, t) /\ PassedBy(p, t)' = PassedBy(p, t)
  <2> SUFFICES ASSUME NEW p \in Processes, NEW t
               PROVE  InProcess(p, t)' = InProcess(p, t) /\ PassedBy(p, t)' = PassedBy(p, t)
    OBVIOUS
  <2>1. p # "redis"
    BY LimiterAssumption
  <2>2. InProcess(p, t)' = InProcess(p, t) /\ a \notin InProcess(p, t)
    BY <1>1, <1>5, <1>7, <2>1 DEF InProcess
  <2>3. \A b \in InProcess(p, t) : attempt'[b] = attempt[b]
    BY <1>5, <2>2 DEF InProcess
  <2> QED
    BY <2>2, <2>3 DEF PassedBy
<1>12. IsFiniteSet(InRedis(s)') /\ Cardinality(InRedis(s)') = n + 1
  BY <1>6, <1>9, FS_AddElement DEF n
<1>13. LimiterTyped'
  BY <1>2, <1>3, <1>4 DEF LimiterTyped, LimiterInv
<1>14. RedisSound(s)'
  <2>1. redis'[s].count = count /\ redis'[s].until = clock + Window
    BY <1>1, <1>2, <1>3
  <2>2. redis'[s].count <= Cardinality(InRedis(s)')
    BY <2>1, <1>8, <1>12
  <2>3. (\E b \in InRedis(s)' : attempt'[b].late) => clock >= s + Window
    BY <1>5, <1>6, <1>7, <1>9 DEF RedisSound, InRedis
  <2>4. clock < s + Window =>
            redis'[s].count = Cardinality(InRedis(s)') /\ redis'[s].until >= s + Window
    BY <2>1, <1>1, <1>2, <1>3, <1>8, <1>12
  <2>5. Cardinality(Passing(s)') <= Quota
    <3>1. \A b \in InRedis(s) : attempt'[b] = attempt[b]
      BY <1>5, <1>9 DEF InRedis
    <3>2. CASE x.late \/ ~(count <= Quota)
      <4>1. Passing(s)' = Passing(s)
        BY <1>1, <1>5, <1>7, <1>9, <3>1, <3>2 DEF OnTime, Passing
      <4> QED
        BY <4>1, <1>6 DEF RedisSound
    <3>3. CASE ~x.late /\ count <= Quota
      <4>1. Passing(s)' \subseteq InRedis(s)'
        BY DEF OnTime, Passing
      <4>2. Cardinality(Passing(s)') <= Cardinality(InRedis(s)') /\ IsFiniteSet(Passing(s)')
        BY <4>1, <1>12, FS_Subset
      <4>3. Cardinality(Passing(s)') \in Nat
        BY <4>2, FS_CardinalityType
      <4>4. count = n + 1
        BY <3>3, <1>2, <1>3, <1>7, <1>8
      <4> QED
        BY <4>2, <4>3, <4>4, <3>3, <1>12, <1>3, <1>4
    <3> QED
      BY <3>2, <3>3
  <2> QED
    BY <1>2, <1>12, <2>2, <2>3, <2>4, <2>5 DEF RedisSound
<1>15. \A t \in Starts : RedisSound(t)'
  <2> SUFFICES ASSUME NEW t \in Starts, t # s PROVE RedisSound(t)'
    BY <1>14
  <2>1. \A b \in InRedis(t) : attempt'[b].late = attempt[b].late
    BY <1>1, <1>5, <1>7 DEF InRedis
  <2> QED
    BY <1>2, <1>3, <1>10, <2>1, RedisStaysSound
<1>16. \A p \in Processes : ProcessSound(p)'
  BY <1>2, <1>11, ProcessStaysSound, WindowStarts
<1>17. \A b \in Attempts : AttemptSound(attempt[b])'
  <2> SUFFICES ASSUME NEW b \in Attempts PROVE AttemptSound(attempt[b])'
    OBVIOUS
  <2>1. CASE b = a
    BY <2>1, <1>1, <1>2, <1>5, <1>7, <1>8, <1>12 DEF AttemptSound
  <2>2. CASE b # a
    <3>1. \A t \in Starts : IsFiniteSet(InRedis(t)') /\ InRedis(t) \subseteq InRedis(t)'
      BY <1>9, <1>10, <1>12, <1>15 DEF LimiterInv, RedisSound
    <3> QED
      BY <2>2, <1>2, <1>5, <1>11, <3>1, AttemptStaysSound DEF LimiterInv, ProcessSound
  <2> QED
    BY <2>1, <2>2
<1> QED
  BY <1>13, <1>15, <1>16, <1>17 DEF LimiterInv

(* The reply of Redis arrives: the request is answered by the number it got. *)
LEMMA RedisAnswersSound ==
    ASSUME LimiterInv, NEW a \in Attempts, RedisAnswers(a)
    PROVE  LimiterInv'
<1>0. PICK s \in Starts : s = attempt[a].start
  BY KnownOfAttempt DEF RedisAnswers, CountedAttempt
<1> DEFINE x == Answer(a, "redis", s, attempt[a].count)
<1>1. /\ attempt[a].at = "counted" /\ attempt[a] \in CountedAttempt
      /\ attempt[a].hits = {<<"redis", s>>} /\ attempt[a].count <= Cardinality(InRedis(s))
      /\ attempt[a].count \in Nat /\ attempt[a].late \in BOOLEAN
  BY <1>0, KnownOfAttempt DEF RedisAnswers, CountedAttempt
<1>2. /\ clock' = clock /\ redis' = redis /\ fallback' = fallback
      /\ attempt' = [attempt EXCEPT ![a] = x]
  BY <1>0 DEF RedisAnswers
<1>3. /\ clock \in Nat /\ clock \in 0..MaxTime /\ s \in Nat /\ Quota \in Nat
      /\ attempt = [b \in Attempts |-> attempt[b]]
  BY StartsAreTimes, LimiterAssumption DEF LimiterInv, LimiterTyped
<1>4. attempt'[a] = x /\ \A b \in Attempts \ {a} : attempt'[b] = attempt[b]
  BY <1>2, <1>3
<1>5. /\ x.counter = "redis" /\ x.start = s /\ x.hits = {<<"redis", s>>} /\ x.late = attempt[a].late
      /\ x.at = IF attempt[a].count <= Quota THEN "allowed" ELSE "refused"
  BY <1>1 DEF Answer, Within
<1>6. x \in AnsweredAttempt
  <2>1. {<<"redis", s>>} \cup {<<"redis", s>>} \in Hits
    BY <1>3 DEF Hits
  <2>2. x.at \in {"allowed", "refused"}
    BY <1>5
  <2> QED
    BY <2>1, <2>2, <1>1, <1>3 DEF AnsweredAttempt, Answer
<1> HIDE DEF x
<1>7. x.at # "new" /\ x.at \in {"allowed", "refused"}
  BY <1>5
<1>8. \A t : InRedis(t)' = InRedis(t) /\ Passing(t)' = Passing(t)
  <2> SUFFICES ASSUME NEW t PROVE InRedis(t)' = InRedis(t) /\ Passing(t)' = Passing(t)
    OBVIOUS
  <2>1. InRedis(t)' = InRedis(t)
    BY <1>1, <1>4, <1>5, <1>7 DEF InRedis
  <2>2. OnTime(t)' = OnTime(t)
    BY <2>1, <1>4, <1>5 DEF OnTime, InRedis
  <2>3. \A b \in OnTime(t) \ {a} : attempt'[b] = attempt[b]
    BY <1>4 DEF OnTime, InRedis
  <2>4. (x.at = "allowed" /\ x.counter = "redis") <=> attempt[a].count <= Quota
    BY <1>5
  <2> QED
    BY <2>1, <2>2, <2>3, <2>4, <1>1, <1>4, <1>7 DEF Passing
<1>9. \A p \in Processes : \A t : InProcess(p, t)' = InProcess(p, t) /\ PassedBy(p, t)' = PassedBy(p, t)
  <2> SUFFICES ASSUME NEW p \in Processes, NEW t
               PROVE  InProcess(p, t)' = InProcess(p, t) /\ PassedBy(p, t)' = PassedBy(p, t)
    OBVIOUS
  <2>1. p # "redis"
    BY LimiterAssumption
  <2>2. InProcess(p, t)' = InProcess(p, t) /\ a \notin InProcess(p, t)
    BY <1>1, <1>4, <1>5, <2>1 DEF InProcess
  <2>3. \A b \in InProcess(p, t) : attempt'[b] = attempt[b]
    BY <1>4, <2>2 DEF InProcess
  <2> QED
    BY <2>2, <2>3 DEF PassedBy
<1>10. LimiterTyped'
  BY <1>2, <1>3 DEF LimiterTyped, LimiterInv
<1>11. \A t \in Starts : RedisSound(t)'
  <2> SUFFICES ASSUME NEW t \in Starts PROVE RedisSound(t)'
    OBVIOUS
  <2>1. \A b \in InRedis(t) : attempt'[b].late = attempt[b].late
    BY <1>4, <1>5 DEF InRedis
  <2> QED
    BY <1>2, <1>3, <1>8, <2>1, RedisStaysSound
<1>12. \A p \in Processes : ProcessSound(p)'
  BY <1>2, <1>3, <1>9, ProcessStaysSound, WindowStarts
<1>13. \A b \in Attempts : AttemptSound(attempt[b])'
  <2> SUFFICES ASSUME NEW b \in Attempts PROVE AttemptSound(attempt[b])'
    OBVIOUS
  <2>1. CASE b = a
    <3>1. x.at = "refused" => Cardinality(InRedis(s)) > Quota
      <4>1. IsFiniteSet(InRedis(s)) /\ Cardinality(InRedis(s)) \in Nat
        BY FS_CardinalityType DEF LimiterInv, RedisSound
      <4> QED
        BY <4>1, <1>1, <1>3, <1>5
    <3>2. <<x.counter, x.start>> \in x.hits /\ x.counter \notin Processes /\ x.start \in Starts
      BY <1>5, LimiterAssumption
    <3> QED
      BY <2>1, <3>1, <3>2, <1>4, <1>5, <1>6, <1>8 DEF AttemptSound
  <2>2. CASE b # a
    BY <2>2, <1>2, <1>3, <1>4, <1>8, <1>9, AttemptStaysSound DEF LimiterInv, RedisSound, ProcessSound
  <2> QED
    BY <2>1, <2>2
<1> QED
  BY <1>10, <1>11, <1>12, <1>13 DEF LimiterInv

(* Redis fails: the process counts the request in its current window, which *)
(* is the one it last counted in or a later one.                            *)
LEMMA FallBackSound ==
    ASSUME LimiterInv, NEW a \in Attempts, FallBack(a)
    PROVE  LimiterInv'
<1>0. PICK p \in Processes : p = attempt[a].process
  BY KnownOfAttempt DEF FallBack, AskedAttempt, CountedAttempt
<1>1. PICK s \in Nat : s = WindowStart(clock)
  BY WindowStarts, LimiterAssumption DEF LimiterInv, LimiterTyped
<1> DEFINE count == CurrentCount(p, s) + 1
           x == Answer(a, p, s, count)
           n == Cardinality(InProcess(p, s))
<1>2. /\ attempt[a].at \in {"asked", "counted"} /\ attempt[a].late \in BOOLEAN
      /\ \A q, t : <<q, t>> \in attempt[a].hits => q = "redis"
      /\ attempt[a].hits \in Hits
  <2>1. attempt[a].at \in {"asked", "counted"}
    BY DEF FallBack
  <2>2. CASE attempt[a].at = "asked"
    BY <2>2, KnownOfAttempt DEF AskedAttempt, Hits
  <2>3. CASE attempt[a].at = "counted"
    <3>1. attempt[a] \in CountedAttempt /\ attempt[a].hits = {<<"redis", attempt[a].start>>}
      BY <2>3, KnownOfAttempt
    <3>2. attempt[a].hits \in Hits /\ attempt[a].late \in BOOLEAN
      BY <3>1 DEF CountedAttempt
    <3>3. \A q, t : <<q, t>> \in attempt[a].hits => q = "redis"
      BY <3>1
    <3> QED
      BY <2>1, <3>2, <3>3
  <2> QED
    BY <2>1, <2>2, <2>3
<1>3. /\ clock' = clock /\ redis' = redis
      /\ fallback' = [fallback EXCEPT ![p] = [start |-> s, count |-> count]]
      /\ attempt' = [attempt EXCEPT ![a] = x]
  BY <1>0, <1>1 DEF FallBack
<1>4. /\ clock \in Nat /\ clock \in 0..MaxTime /\ Quota \in Nat /\ p # "redis"
      /\ fallback \in [Processes -> [start : Nat, count : Nat]]
      /\ fallback[p].start \in Nat /\ fallback[p].count \in Nat
      /\ attempt = [b \in Attempts |-> attempt[b]]
  BY LimiterAssumption DEF LimiterInv, LimiterTyped
<1>5. attempt'[a] = x /\ \A b \in Attempts \ {a} : attempt'[b] = attempt[b]
  BY <1>3, <1>4
<1>6. ProcessSound(p) /\ IsFiniteSet(InProcess(p, s)) /\ n \in Nat
  BY FS_CardinalityType DEF LimiterInv, ProcessSound
<1>7. count = n + 1
  <2>1. CASE fallback[p].start = s
    BY <2>1, <1>6 DEF CurrentCount, ProcessSound
  <2>2. CASE fallback[p].start # s
    <3>1. s > fallback[p].start
      BY <2>2, <1>1, <1>4, <1>6 DEF ProcessSound
    <3>2. n = 0
      BY <3>1, <1>6, FS_EmptySet DEF ProcessSound
    <3> QED
      BY <2>2, <3>2 DEF CurrentCount
  <2> QED
    BY <2>1, <2>2
<1> HIDE DEF count, n
<1>8. /\ x.counter = p /\ x.start = s /\ x.hits = attempt[a].hits \cup {<<p, s>>}
      /\ x.late = attempt[a].late /\ x.at = IF count <= Quota THEN "allowed" ELSE "refused"
  BY DEF Answer, Within
<1>9. x \in AnsweredAttempt
  <2>1. attempt[a].hits \cup {<<p, s>>} \in Hits
    BY <1>2 DEF Hits
  <2>2. x.at \in {"allowed", "refused"}
    BY <1>8
  <2> QED
    BY <2>1, <2>2, <1>2 DEF AnsweredAttempt, Answer
<1> HIDE DEF x
<1>10. x.at # "new" /\ x.at \in {"allowed", "refused"}
  BY <1>8
<1>11. \A t : InRedis(t)' = InRedis(t) /\ Passing(t)' \subseteq Passing(t)
  <2> SUFFICES ASSUME NEW t PROVE InRedis(t)' = InRedis(t) /\ Passing(t)' \subseteq Passing(t)
    OBVIOUS
  <2>1. InRedis(t)' = InRedis(t)
    BY <1>2, <1>4, <1>5, <1>8, <1>10 DEF InRedis
  <2>2. OnTime(t)' = OnTime(t)
    BY <2>1, <1>5, <1>8 DEF OnTime, InRedis
  <2>3. \A b \in OnTime(t) \ {a} : attempt'[b] = attempt[b]
    BY <1>5 DEF OnTime, InRedis
  <2> QED
    BY <2>1, <2>2, <2>3, <1>4, <1>5, <1>8, <1>10 DEF Passing
<1>12. a \notin InProcess(p, s) /\ InProcess(p, s)' = InProcess(p, s) \cup {a}
  BY <1>2, <1>4, <1>5, <1>8, <1>10 DEF InProcess
<1>13. \A q \in Processes, t \in Nat : (q # p \/ t # s) =>
           InProcess(q, t)' = InProcess(q, t) /\ PassedBy(q, t)' = PassedBy(q, t)
  <2> SUFFICES ASSUME NEW q \in Processes, NEW t \in Nat, q # p \/ t # s
               PROVE  InProcess(q, t)' = InProcess(q, t) /\ PassedBy(q, t)' = PassedBy(q, t)
    OBVIOUS
  <2>1. q # "redis" /\ <<q, t>> # <<p, s>>
    BY LimiterAssumption
  <2>2. InProcess(q, t)' = InProcess(q, t) /\ a \notin InProcess(q, t)
    BY <2>1, <1>2, <1>5, <1>8, <1>10 DEF InProcess
  <2>3. \A b \in InProcess(q, t) : attempt'[b] = attempt[b]
    BY <1>5, <2>2 DEF InProcess
  <2> QED
    BY <2>2, <2>3 DEF PassedBy
<1>14. IsFiniteSet(InProcess(p, s)') /\ Cardinality(InProcess(p, s)') = count
  BY <1>6, <1>7, <1>12, FS_AddElement DEF n
<1>15. LimiterTyped'
  BY <1>1, <1>3, <1>4, <1>6, <1>7 DEF LimiterTyped, LimiterInv
<1>16. \A t \in Starts : RedisSound(t)'
  <2> SUFFICES ASSUME NEW t \in Starts PROVE RedisSound(t)'
    OBVIOUS
  <2>1. \A b \in InRedis(t) : attempt'[b].late = attempt[b].late
    BY <1>5, <1>8 DEF InRedis
  <2> QED
    BY <1>3, <1>4, <1>11, <2>1, RedisStaysSound
<1>17. ProcessSound(p)'
  <2>1. fallback'[p].start = s /\ fallback'[p].count = count
    BY <1>3, <1>4
  <2>2. s <= WindowStart(clock') /\ fallback[p].start <= s
    BY <1>1, <1>3, <1>4, <1>6 DEF ProcessSound
  <2>3. Cardinality(PassedBy(p, s)') <= Quota
    <3>1. CASE count <= Quota
      <4>1. PassedBy(p, s)' \subseteq InProcess(p, s)'
        BY DEF PassedBy
      <4>2. IsFiniteSet(PassedBy(p, s)') /\ Cardinality(PassedBy(p, s)') <= count
        BY <4>1, <1>14, FS_Subset
      <4>3. Cardinality(PassedBy(p, s)') \in Nat
        BY <4>2, FS_CardinalityType
      <4> QED
        BY <3>1, <4>2, <4>3, <1>4, <1>6, <1>7
    <3>2. CASE ~(count <= Quota)
      <4>1. x.at = "refused"
        BY <3>2, <1>8
      <4>2. \A b \in InProcess(p, s) : attempt'[b] = attempt[b]
        BY <1>5, <1>12 DEF InProcess
      <4>3. PassedBy(p, s)' = PassedBy(p, s)
        BY <4>1, <4>2, <1>5, <1>12 DEF PassedBy
      <4> QED
        BY <4>3, <1>6 DEF ProcessSound
    <3> QED
      BY <3>1, <3>2
  <2>4. ASSUME NEW t \in Nat
        PROVE  /\ IsFiniteSet(InProcess(p, t)')
               /\ t > s => InProcess(p, t)' = {}
               /\ Cardinality(PassedBy(p, t)') <= Quota
    <3>1. CASE t = s
      BY <3>1, <2>3, <1>14
    <3>2. CASE t # s
      <4>1. t > s => t > fallback[p].start
        BY <2>2, <1>4
      <4> QED
        BY <3>2, <4>1, <1>6, <1>13 DEF ProcessSound
    <3> QED
      BY <3>1, <3>2
  <2> QED
    BY <2>1, <2>2, <2>4, <1>14 DEF ProcessSound
<1>18. \A q \in Processes : ProcessSound(q)'
  <2> SUFFICES ASSUME NEW q \in Processes, q # p PROVE ProcessSound(q)'
    BY <1>17
  <2>1. fallback'[q] = fallback[q]
    BY <1>3, <1>4
  <2>2. WindowStart(clock) <= WindowStart(clock')
    BY <1>1, <1>3
  <2> QED
    BY <2>1, <2>2, <1>3, <1>4, <1>13, ProcessStaysSound
<1>19. \A b \in Attempts : AttemptSound(attempt[b])'
  <2> SUFFICES ASSUME NEW b \in Attempts PROVE AttemptSound(attempt[b])'
    OBVIOUS
  <2>1. CASE b = a
    <3>1. x.at = "refused" => Cardinality(InProcess(p, s)') > Quota
      BY <1>4, <1>6, <1>7, <1>8, <1>14
    <3>2. <<x.counter, x.start>> \in x.hits /\ x.counter # "redis"
      BY <1>4, <1>8
    <3> QED
      BY <2>1, <3>1, <3>2, <1>5, <1>8, <1>9 DEF AttemptSound
  <2>2. CASE b # a
    <3>1. \A t \in Starts : IsFiniteSet(InRedis(t)') /\ InRedis(t) \subseteq InRedis(t)'
      BY <1>11 DEF LimiterInv, RedisSound
    <3>2. \A q \in Processes, t \in Nat :
              IsFiniteSet(InProcess(q, t)') /\ InProcess(q, t) \subseteq InProcess(q, t)'
      <4> SUFFICES ASSUME NEW q \in Processes, NEW t \in Nat
                   PROVE  IsFiniteSet(InProcess(q, t)') /\ InProcess(q, t) \subseteq InProcess(q, t)'
        OBVIOUS
      <4>1. IsFiniteSet(InProcess(q, t)')
        BY <1>18 DEF ProcessSound
      <4>2. InProcess(q, t) \subseteq InProcess(q, t)'
        BY <1>12, <1>13
      <4> QED
        BY <4>1, <4>2
    <3> QED
      BY <2>2, <1>3, <1>4, <1>5, <3>1, <3>2, AttemptStaysSound
  <2> QED
    BY <2>1, <2>2
<1> QED
  BY <1>15, <1>16, <1>18, <1>19 DEF LimiterInv

LEMMA LimiterStart == LimiterInit => LimiterInv
<1> SUFFICES ASSUME LimiterInit PROVE LimiterInv
  OBVIOUS
<1>1. /\ clock = 0 /\ Quota \in Nat /\ Window \in Nat /\ MaxTime \in Nat
      /\ \A s \in Starts : redis[s] = [count |-> 0, until |-> 0]
      /\ \A p \in Processes : fallback[p] = [start |-> 0, count |-> 0]
      /\ \A a \in Attempts : attempt[a] = [at |-> "new"]
  BY LimiterAssumption DEF LimiterInit
<1>2. \A s : InRedis(s) = {} /\ Passing(s) = {}
  BY <1>1 DEF InRedis, OnTime, Passing
<1>3. \A p, s : InProcess(p, s) = {} /\ PassedBy(p, s) = {}
  BY <1>1 DEF InProcess, PassedBy
<1>4. LimiterTyped
  BY <1>1 DEF LimiterInit, LimiterTyped
<1>5. \A a \in Attempts : AttemptSound(attempt[a])
  BY <1>1 DEF AttemptSound
<1>6. \A s \in Starts : RedisSound(s)
  <2> SUFFICES ASSUME NEW s \in Starts PROVE RedisSound(s)
    OBVIOUS
  <2>1. /\ InRedis(s) = {} /\ Passing(s) = {} /\ Cardinality({}) = 0 /\ IsFiniteSet({})
        /\ redis[s].count = 0
    BY <1>1, <1>2, FS_EmptySet
  <2> QED
    BY <1>1, <2>1 DEF RedisSound
<1>7. \A p \in Processes : ProcessSound(p)
  <2> SUFFICES ASSUME NEW p \in Processes PROVE ProcessSound(p)
    OBVIOUS
  <2>1. /\ \A s : InProcess(p, s) = {} /\ PassedBy(p, s) = {}
        /\ Cardinality({}) = 0 /\ IsFiniteSet({})
        /\ fallback[p].start = 0 /\ fallback[p].count = 0
    BY <1>1, <1>3, FS_EmptySet
  <2>2. WindowStart(clock) \in Nat
    BY <1>1, WindowStarts
  <2> QED
    BY <1>1, <2>1, <2>2 DEF ProcessSound
<1> QED
  BY <1>4, <1>5, <1>6, <1>7 DEF LimiterInv

LEMMA LimiterStep == LimiterInv /\ [LimiterNext]_limiterVars => LimiterInv'
<1> SUFFICES ASSUME LimiterInv, [LimiterNext]_limiterVars PROVE LimiterInv'
  OBVIOUS
<1>1. CASE Tick
  <2>1. clock \in Nat /\ clock \in 0..MaxTime /\ MaxTime \in Nat
    BY LimiterAssumption DEF LimiterInv, LimiterTyped
  <2>2. /\ clock' = clock + 1 /\ clock' \in 0..MaxTime
        /\ redis' = redis /\ fallback' = fallback /\ attempt' = attempt
    BY <1>1, <2>1 DEF Tick
  <2> QED
    BY <2>1, <2>2, WindowStarts, TimePasses
<1>2. ASSUME NEW a \in Attempts, NEW p \in Processes, Ask(a, p) PROVE LimiterInv'
  BY <1>2, AskSound
<1>3. ASSUME NEW a \in Attempts, RedisCounts(a) PROVE LimiterInv'
  BY <1>3, RedisCountsSound
<1>4. ASSUME NEW a \in Attempts, RedisAnswers(a) PROVE LimiterInv'
  BY <1>4, RedisAnswersSound
<1>5. ASSUME NEW a \in Attempts, FallBack(a) PROVE LimiterInv'
  BY <1>5, FallBackSound
<1>6. CASE UNCHANGED limiterVars
  <2>1. clock \in Nat /\ clock \in 0..MaxTime
    BY LimiterAssumption DEF LimiterInv, LimiterTyped
  <2>2. clock' = clock /\ redis' = redis /\ fallback' = fallback /\ attempt' = attempt
    BY <1>6 DEF limiterVars
  <2>3. WindowStart(clock) \in Nat
    BY <2>1, WindowStarts
  <2>4. clock <= clock' /\ clock' \in 0..MaxTime /\ WindowStart(clock) <= WindowStart(clock')
    BY <2>1, <2>2, <2>3
  <2> QED
    BY <2>2, <2>4, TimePasses
<1> QED
  BY <1>1, <1>2, <1>3, <1>4, <1>5, <1>6 DEF LimiterNext

(* What the counters have counted bounds what they let through. *)
LEMMA ExactLimit == LimiterInv => LimitIsExact
<1> SUFFICES ASSUME LimiterInv PROVE LimitIsExact
  OBVIOUS
<1>1. Quota \in Nat /\ "redis" \notin Processes
  BY LimiterAssumption
<1>2. QuotaHolds
  <2> SUFFICES ASSUME NEW a \in Answered("allowed")
               PROVE  LET same == {b \in Answered("allowed") :
                                       /\ attempt[b].counter = attempt[a].counter
                                       /\ attempt[b].start = attempt[a].start}
                      IN  Cardinality(same) <= Quota \/ \E b \in same : attempt[b].late
    BY DEF QuotaHolds
  <2> DEFINE c == attempt[a].counter
             s == attempt[a].start
             same == {b \in Answered("allowed") : attempt[b].counter = c /\ attempt[b].start = s}
  <2>1. /\ \A b \in Answered("allowed") : /\ attempt[b] \in AnsweredAttempt /\ b \in Attempts
                                          /\ attempt[b].at = "allowed"
                                          /\ <<attempt[b].counter, attempt[b].start>> \in attempt[b].hits
                                          /\ attempt[b].counter = "redis" => attempt[b].start \in Starts
    BY KnownOfAttempt DEF Answered
  <2>2. c \in Processes \cup {"redis"} /\ s \in Nat
    BY <2>1 DEF AnsweredAttempt
  <2>3. CASE c = "redis"
    <3>1. SUFFICES ASSUME \A b \in same : ~attempt[b].late PROVE Cardinality(same) <= Quota
      OBVIOUS
    <3>2. s \in Starts
      BY <2>1, <2>3
    <3>3. same \subseteq Passing(s)
      BY <2>1, <2>3, <3>1 DEF Passing, OnTime, InRedis
    <3>4. IsFiniteSet(Passing(s)) /\ Cardinality(Passing(s)) <= Quota
      <4>1. Passing(s) \subseteq InRedis(s)
        BY DEF Passing, OnTime
      <4> QED
        BY <3>2, <4>1, FS_Subset DEF LimiterInv, RedisSound
    <3> HIDE DEF same, s
    <3>5. /\ Cardinality(same) <= Cardinality(Passing(s))
          /\ Cardinality(same) \in Nat /\ Cardinality(Passing(s)) \in Nat
      BY <3>3, <3>4, FS_Subset, FS_CardinalityType
    <3> QED
      BY <3>4, <3>5, <1>1
  <2>4. CASE c \in Processes
    <3>1. same \subseteq PassedBy(c, s)
      BY <2>1 DEF PassedBy, InProcess
    <3>2. IsFiniteSet(PassedBy(c, s)) /\ Cardinality(PassedBy(c, s)) <= Quota
      <4>1. PassedBy(c, s) \subseteq InProcess(c, s)
        BY DEF PassedBy
      <4>2. IsFiniteSet(InProcess(c, s)) /\ Cardinality(PassedBy(c, s)) <= Quota
        BY <2>2, <2>4 DEF LimiterInv, ProcessSound
      <4> QED
        BY <4>1, <4>2, FS_Subset
    <3> HIDE DEF same, s, c
    <3>3. /\ Cardinality(same) <= Cardinality(PassedBy(c, s))
          /\ Cardinality(same) \in Nat /\ Cardinality(PassedBy(c, s)) \in Nat
      BY <3>1, <3>2, FS_Subset, FS_CardinalityType
    <3> QED
      BY <3>2, <3>3, <1>1 DEF same, c, s
  <2> QED
    BY <2>2, <2>3, <2>4
<1>3. RefusedOnlyOverQuota
  <2> SUFFICES ASSUME NEW a \in Answered("refused")
               PROVE  Cardinality({b \in Attempts :
                          /\ attempt[b].at # "new"
                          /\ <<attempt[a].counter, attempt[a].start>> \in attempt[b].hits}) > Quota
    BY DEF RefusedOnlyOverQuota
  <2>1. a \in Attempts /\ attempt[a].at = "refused" /\ attempt[a].counter \in Processes \cup {"redis"}
    BY KnownOfAttempt DEF Answered, AnsweredAttempt
  <2>2. CASE attempt[a].counter = "redis"
    BY <2>1, <2>2, KnownOfAttempt DEF InRedis
  <2>3. CASE attempt[a].counter \in Processes
    BY <2>1, <2>3, KnownOfAttempt DEF InProcess
  <2> QED
    BY <2>1, <2>2, <2>3
<1> QED
  BY <1>2, <1>3 DEF LimitIsExact

(* Whatever the clock, the processes and the failures of Redis do, each     *)
(* counter lets through its quota of a window and refuses nothing below it, *)
(* the restart of an expired key excepted (RateLimiter._check_redis,        *)
(* _InMemoryWindowCounter.hit).                                             *)
THEOREM LimiterExact == LimiterSpec => []LimitIsExact
<1>1. LimiterSpec => []LimiterInv
  BY LimiterStart, LimiterStep, PTL DEF LimiterSpec
<1> QED
  BY <1>1, ExactLimit, PTL
================================================================================
