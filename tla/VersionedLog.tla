---------------------------- MODULE VersionedLog ----------------------------
(***************************************************************************)
(* What the result tables (stage results, risk layers, prediction runs,    *)
(* reports and the unversioned validation runs) promise: rows are only     *)
(* ever appended, and a new row's version is at most one above the highest *)
(* of its key.  Two rows may share a version; no version is skipped.       *)
(***************************************************************************)
EXTENDS Integers, Sequences, FiniteSetsExt

CONSTANTS
    Keys,            \* what rows are of
    VersionedKeys    \* the keys whose rows are numbered

VARIABLE log     \* key and version of each row, in commit order

Versions(k) == {log[i].version : i \in {j \in DOMAIN log : log[j].key = k}}

Highest(k) == Max({0} \cup Versions(k))

Init == log = << >>

Add(k) ==
    \E v \in IF k \in VersionedKeys THEN 1 .. (Highest(k) + 1) ELSE {0} :
        log' = Append(log, [key |-> k, version |-> v])

Next == \E k \in Keys : Add(k)

Spec == Init /\ [][Next]_log

(* Every version from 1 to the highest is in use. *)
GapFree == \A k \in VersionedKeys : Versions(k) = 1 .. Highest(k)
=============================================================================
