---------------------------- MODULE RateLimiter ----------------------------
(***************************************************************************)
(* The fixed-window limiter of one bucket and client (rate_limiting.py): a *)
(* counter in Redis that all worker processes share, and in each process a *)
(* counter of its own for the requests during which Redis failed.          *)
(*                                                                         *)
(* A request reads the clock, then awaits the pipeline; Redis applies INCR *)
(* and EXPIRE as one transaction or not at all, and may fail before or     *)
(* after that.  All clocks agree and never go back.                        *)
(***************************************************************************)
EXTENDS Integers, FiniteSets

CONSTANTS
    Attempts,       \* requests of the client
    Processes,      \* worker processes that serve them
    Quota,          \* limit
    Window,         \* window_seconds
    MaxTime         \* bound on the clock

ASSUME LimiterAssumption ==
    /\ Quota \in Nat /\ Window \in Nat \ {0} /\ MaxTime \in Nat
    /\ "redis" \notin Processes

VARIABLES
    clock,
    redis,          \* window_start |-> the counter and when it expires
    fallback,       \* process |-> its window and count, as in _windows
    attempt         \* what each request does, and which counters it has hit

limiterVars == <<clock, redis, fallback, attempt>>

WindowStart(t) == (t \div Window) * Window

Starts == {WindowStart(t) : t \in 0..MaxTime}

LimiterInit ==
    /\ clock = 0
    /\ redis = [s \in Starts |-> [count |-> 0, until |-> 0]]
    /\ fallback = [p \in Processes |-> [start |-> 0, count |-> 0]]
    /\ attempt = [a \in Attempts |-> [at |-> "new"]]

-----------------------------------------------------------------------------
Tick == clock < MaxTime /\ clock' = clock + 1 /\ UNCHANGED <<redis, fallback, attempt>>

(* Faulty variant: one key for all windows, kept alive by every hit. *)
RedisKeyWithoutWindow(t) == 0

(* The window that names the Redis key of a request that read the clock at t *)
RedisKey(t) == WindowStart(t)

(* enforce, up to the await: `hits` are the counters that have counted the
   request, `late` that Redis did so after the end of its window *)
Ask(a, p) ==
    /\ attempt[a].at = "new"
    /\ attempt' = [attempt EXCEPT ![a] =
           [at |-> "asked", process |-> p, start |-> WindowStart(clock),
            key |-> RedisKey(clock), hits |-> {}, late |-> FALSE]]
    /\ UNCHANGED <<clock, redis, fallback>>

(* INCR and EXPIRE take effect; an expired key counts from zero. *)
RedisCounts(a) ==
    /\ attempt[a].at = "asked"
    /\ LET key == attempt[a].key
           count == (IF clock < redis[key].until THEN redis[key].count ELSE 0) + 1
       IN  /\ redis' = [redis EXCEPT ![key] = [count |-> count, until |-> clock + Window]]
           /\ attempt' = [attempt EXCEPT ![a] =
                  [at |-> "counted", process |-> @.process, start |-> @.start, key |-> key,
                   hits |-> {<<"redis", @.start>>}, late |-> clock >= @.start + Window,
                   count |-> count]]
    /\ UNCHANGED <<clock, fallback>>

(* Faulty variant: the count before the increment is compared. *)
WithinPrevious(count) == count - 1 <= Quota

(* count <= limit *)
Within(count) == count <= Quota

Answer(a, counter, start, count) ==
    [at |-> IF Within(count) THEN "allowed" ELSE "refused", counter |-> counter,
     start |-> start, hits |-> attempt[a].hits \cup {<<counter, start>>},
     late |-> attempt[a].late]

(* The pipeline's reply arrives. *)
RedisAnswers(a) ==
    /\ attempt[a].at = "counted"
    /\ attempt' = [attempt EXCEPT ![a] = Answer(a, "redis", @.start, @.count)]
    /\ UNCHANGED <<clock, redis, fallback>>

(* Faulty variant: the count of an earlier window is carried over. *)
CurrentCountCarried(p, start) == fallback[p].count

CurrentCount(p, start) == IF fallback[p].start = start THEN fallback[p].count ELSE 0

(* The pipeline raises, whether or not Redis had counted: _InMemoryWindowCounter.hit,
   which reads the clock again. *)
FallBack(a) ==
    /\ attempt[a].at \in {"asked", "counted"}
    /\ LET p == attempt[a].process
           start == WindowStart(clock)
           count == CurrentCount(p, start) + 1
       IN  /\ fallback' = [fallback EXCEPT ![p] = [start |-> start, count |-> count]]
           /\ attempt' = [attempt EXCEPT ![a] = Answer(a, p, start, count)]
    /\ UNCHANGED <<clock, redis>>

LimiterNext ==
    \/ Tick
    \/ \E a \in Attempts :
           \/ \E p \in Processes : Ask(a, p)
           \/ RedisCounts(a)
           \/ RedisAnswers(a)
           \/ FallBack(a)

LimiterSpec == LimiterInit /\ [][LimiterNext]_limiterVars

-----------------------------------------------------------------------------
(* Properties *)

Answered(verdict) == {a \in Attempts : attempt[a].at = verdict}

(* No counter lets more requests of one window pass than the limit, except that
   the counter in Redis starts again when a request of a window reaches it after
   that window's end and the key has expired (RateLimiter._check_redis reads the
   clock before it awaits). *)
QuotaHolds ==
    \A a \in Answered("allowed") :
        LET same == {b \in Answered("allowed") :
                        attempt[b].counter = attempt[a].counter /\ attempt[b].start = attempt[a].start}
        IN  Cardinality(same) <= Quota \/ \E b \in same : attempt[b].late

(* A request is refused only when the counter that refused it has counted more
   requests of that very window than the limit: no count outlives its window,
   neither in Redis, where every hit renews the key, nor in a process that falls
   back now and then (hit, _check_redis). *)
RefusedOnlyOverQuota ==
    \A a \in Answered("refused") :
        Cardinality({b \in Attempts : /\ attempt[b].at # "new"
                                      /\ <<attempt[a].counter, attempt[a].start>> \in attempt[b].hits})
            > Quota

(* Each counter lets through its quota and refuses nothing below it. *)
LimitIsExact == QuotaHolds /\ RefusedOnlyOverQuota
=============================================================================
