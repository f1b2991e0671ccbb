------------------------ MODULE MCAssessmentResults ------------------------
(***************************************************************************)
(* Instance of AssessmentResults for TLC, with the surveys its stages and  *)
(* the observations its prediction and validation runs are computed from,  *)
(* and the limiter in front of the routes that start them.  The four are   *)
(* independent of each other and share one run, one after another instead  *)
(* of interleaved: in a behaviour either requests overlap, or the limiter  *)
(* answers, or one survey or dataset is computed on.                       *)
(***************************************************************************)
EXTENDS AssessmentResults, Statistics, RiskIndices, RateLimiter, TLC

MCInit ==
    /\ Init
    /\ LimiterInit
    /\ \/ observations \in Observations \cup {NoObservations} /\ survey = NoSurvey
       \/ observations = NoObservations /\ survey \in Surveys

NoData == observations = NoObservations /\ survey = NoSurvey

MCNext ==
    /\ NoData
    /\ UNCHANGED <<observations, survey>>
    /\ \/ LimiterInit /\ Next /\ UNCHANGED limiterVars
       \/ Init /\ LimiterNext /\ UNCHANGED vars

MCSpec == MCInit /\ [][MCNext]_<<vars, limiterVars, observations, survey>>

MCSymmetry ==
    Permutations(Workers) \cup Permutations(Attempts) \cup Permutations(Processes)
=============================================================================
