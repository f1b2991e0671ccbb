-------------------------- MODULE MCWorkflowEngine --------------------------
(* Bounded instances of WorkflowEngine.  Diamond is the parallel fan-out    *)
(* the engine is built for (two independent stages, one that needs both),   *)
(* Gated has a MANUAL stage in the middle, Unpublished is never startable.  *)
EXTENDS WorkflowEngine

CONSTANTS A, B, C, X, Diamond, Gated, Unpublished, Attempts

MCStageType == {A, B, C, X}
MCTwoStages == {A, B}
MCTemplateId == {Diamond, Gated, Unpublished}
MCStartable == {Diamond, Gated}

MCTemplate ==
    [t \in TemplateId |->
        [ status |-> IF t = Unpublished THEN "DRAFT" ELSE "PUBLISHED",
          hazard_match |-> TRUE,
          stages |-> {A, B, C} \cap StageType,
          rank |-> [st \in StageType |-> CASE st = A -> 1 [] st = B -> 2 [] st = C -> 3
                                             [] OTHER -> 4],
          required_predecessors |->
             [st \in StageType |->
                 CASE st = C /\ t = Diamond -> {A, B}
                   [] st = B /\ t = Gated -> {A}
                   [] st = C /\ t = Gated -> {B}
                   [] OTHER -> {}],
          trigger_mode |->
             [st \in StageType |-> IF t = Gated /\ st = B THEN "MANUAL" ELSE "AUTOMATIC"],
          max_attempts |-> [st \in StageType |-> Attempts] ]]

MCUserCommand == LifecycleCommand
MCSetup == [op : {"mark_ready"}]
MCSetupCancel == [op : {"mark_ready", "cancel"}]

\* Every property of the engine is claimed until two handlers meet, so the
\* instances that check them stop at the meeting.
Apart == met = {}
MCNext == Apart /\ Next
MCSpec == Init /\ [][MCNext]_vars
MCFairSpec ==
    /\ MCSpec
    /\ \A r \in Request : WF_vars(Apart /\ EngineStep(r))
    /\ \A u \in User : WF_vars(Apart /\ UserCommit(u))

=============================================================================
