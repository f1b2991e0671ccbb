------------------------- MODULE MCIdentitySessions -------------------------
(***************************************************************************)
(* The sessions of one user under two concurrent requests, which are       *)
(* interchangeable.                                                        *)
(***************************************************************************)
EXTENDS IdentitySessions, Integers, TLC

RequestSymmetry == Permutations(Request)

\* Bounds of the search: the sessions and committed revocations after which a
\* state is checked but not continued, in all and once two requests have been
\* past the version check together.
MaxEvents == 4
MaxRacedEvents == 2

SearchBound ==
    Len(tokens) + revocations <= IF raced = {} THEN MaxEvents ELSE MaxRacedEvents

-----------------------------------------------------------------------------
(* States that no step and no property tells apart are one: versions are   *)
(* only compared with each other and taken one further, so how far a       *)
(* request lags behind the row is enough; an access token of an earlier    *)
(* generation might as well have expired until requests race, and from     *)
(* then on nothing is asked of the revocations it has seen.                *)

Behind(r) ==
    IF req[r].at \in {"loaded", "saved", "selected"} /\ req[r].op \in RowOp \cup BumpOp
    THEN user.version - req[r].loaded.version ELSE 0

UntilRaced(n) == IF raced = {} THEN n ELSE 0

SearchView ==
    << [user EXCEPT !.version = 0],
       [n \in Ids |-> [tokens[n] EXCEPT !.bumps = UntilRaced(@),
                           !.over = @ \/ (raced = {} /\ tokens[n].gen # user.gen)]],
       reset,
       [r \in Request |-> [req[r] EXCEPT !.loaded.version = Behind(r), !.model.version = 0,
                                        !.bumps = UntilRaced(@)]],
       revocations, UntilRaced(bumps), ended, raced = {} >>

=============================================================================
