-------------------------- MODULE WorkflowTemplate --------------------------
(***************************************************************************)
(* domain/workflow_template.py: building a template from stage definitions,*)
(* _validate_dag (Kahn's algorithm, one step per loop iteration), create   *)
(* and publish.                                                            *)
(*                                                                         *)
(* The definitions come as a list.  Its order matters in one place only:   *)
(* two definitions of the same stage type are accepted, and the dict       *)
(* _validate_dag builds keeps the last one.  graph is that dict, filled as *)
(* the list grows; stage_definitions is the list without its order, since  *)
(* runnable_stages looks at every definition.  The inner loop visits the   *)
(* dict's keys in any order.                                               *)
(***************************************************************************)
EXTENDS Naturals, FiniteSets

CONSTANTS
    StageType,
    MaxDefinitions   \* bound: distinct stage definitions in one request

ASSUME MaxDefinitionsAssumption == MaxDefinitions \in Nat

VARIABLES
    stage_definitions,  \* the definitions of the template
    graph,              \* stage type -> predecessors, the last definition wins
    phase,              \* building, resolving, created, published or why it was rejected
    remaining,          \* keys of the dict not resolved yet
    resolved,           \* stages whose predecessors are all resolved
    progressed,         \* the current pass resolved something
    todo                \* keys the current pass has still to visit

templateVars == <<stage_definitions, graph, phase, remaining, resolved, progressed, todo>>
loopVars == <<remaining, resolved, progressed, todo>>

StageDefinition == [stage_type : StageType, required_predecessors : SUBSET StageType]

known == DOMAIN graph

TemplateInit ==
    /\ stage_definitions = {}
    /\ graph = [st \in {} |-> {}]
    /\ phase = "building"
    /\ remaining = {}
    /\ resolved = {}
    /\ progressed = TRUE
    /\ todo = {}

-----------------------------------------------------------------------------
\* StageDefinition.__post_init__ accepts the definition and the list grows.
AddDefinition(sd) ==
    /\ phase = "building"
    /\ Cardinality(stage_definitions) < MaxDefinitions
    /\ sd.stage_type \notin sd.required_predecessors
    /\ stage_definitions' = stage_definitions \cup {sd}
    /\ graph' = [st \in known \cup {sd.stage_type} |->
                    IF st = sd.stage_type THEN sd.required_predecessors ELSE graph[st]]
    /\ UNCHANGED <<phase, loopVars>>

\* StageDefinition.__post_init__ raises.
RejectSelfDependency(sd) ==
    /\ phase = "building"
    /\ sd.stage_type \in sd.required_predecessors
    /\ phase' = "self_dependency"
    /\ UNCHANGED <<stage_definitions, graph, loopVars>>

RejectEmpty ==
    /\ phase = "building"
    /\ stage_definitions = {}
    /\ phase' = "empty"
    /\ UNCHANGED <<stage_definitions, graph, loopVars>>

HasUnknownPredecessor ==
    \E sd \in stage_definitions : ~(sd.required_predecessors \subseteq known)

RejectUnknownPredecessor ==
    /\ phase = "building"
    /\ HasUnknownPredecessor
    /\ phase' = "unknown_predecessor"
    /\ UNCHANGED <<stage_definitions, graph, loopVars>>

\* Faulty variant: every stage type is taken for a key of the dict.
BeginValidationAllTypes ==
    /\ phase = "building"
    /\ stage_definitions # {}
    /\ ~HasUnknownPredecessor
    /\ phase' = "resolving"
    /\ remaining' = StageType
    /\ resolved' = {}
    /\ progressed' = TRUE
    /\ todo' = {}
    /\ UNCHANGED <<stage_definitions, graph>>

BeginValidation ==
    /\ phase = "building"
    /\ stage_definitions # {}
    /\ ~HasUnknownPredecessor
    /\ phase' = "resolving"
    /\ remaining' = known
    /\ resolved' = {}
    /\ progressed' = TRUE
    /\ todo' = {}
    /\ UNCHANGED <<stage_definitions, graph>>

\* Faulty variant: progressed is not reset before a pass.
BeginPassKeepsProgress ==
    /\ phase = "resolving"
    /\ todo = {} /\ remaining # {} /\ progressed
    /\ todo' = remaining
    /\ UNCHANGED <<stage_definitions, graph, phase, remaining, resolved, progressed>>

\* while remaining and progressed
BeginPass ==
    /\ phase = "resolving"
    /\ todo = {} /\ remaining # {} /\ progressed
    /\ progressed' = FALSE
    /\ todo' = remaining
    /\ UNCHANGED <<stage_definitions, graph, phase, remaining, resolved>>

\* Faulty variant: one resolved predecessor is enough.
CanResolveAny(st) == graph[st] = {} \/ graph[st] \cap resolved # {}

CanResolve(st) == graph[st] \subseteq resolved

\* Faulty variant: resolving a stage does not count as progress.
VisitForgetsProgress(st) ==
    /\ phase = "resolving"
    /\ st \in todo
    /\ todo' = todo \ {st}
    /\ \/ /\ CanResolve(st)
          /\ resolved' = resolved \cup {st}
          /\ remaining' = remaining \ {st}
       \/ /\ ~CanResolve(st)
          /\ UNCHANGED <<remaining, resolved>>
    /\ UNCHANGED <<stage_definitions, graph, phase, progressed>>

Visit(st) ==
    /\ phase = "resolving"
    /\ st \in todo
    /\ todo' = todo \ {st}
    /\ \/ /\ CanResolve(st)
          /\ resolved' = resolved \cup {st}
          /\ remaining' = remaining \ {st}
          /\ progressed' = TRUE
       \/ /\ ~CanResolve(st)
          /\ UNCHANGED <<remaining, resolved, progressed>>
    /\ UNCHANGED <<stage_definitions, graph, phase>>

EndValidation ==
    /\ phase = "resolving"
    /\ todo = {} /\ (remaining = {} \/ ~progressed)
    /\ phase' = IF remaining = {} THEN "created" ELSE "cyclic"
    /\ UNCHANGED <<stage_definitions, graph, loopVars>>

Publish ==
    /\ phase = "created"
    /\ phase' = "published"
    /\ UNCHANGED <<stage_definitions, graph, loopVars>>

Validation == BeginPass \/ (\E st \in StageType : Visit(st)) \/ EndValidation

TemplateNext ==
    \/ \E sd \in StageDefinition : AddDefinition(sd) \/ RejectSelfDependency(sd)
    \/ RejectEmpty \/ RejectUnknownPredecessor \/ BeginValidation
    \/ Validation
    \/ Publish

TemplateSpec == TemplateInit /\ [][TemplateNext]_templateVars

\* _validate_dag is a loop without an await: once entered it keeps running.
FairSpec == TemplateSpec /\ WF_templateVars(Validation)

-----------------------------------------------------------------------------
Phase == {"building", "resolving", "created", "published",
          "self_dependency", "empty", "unknown_predecessor", "cyclic"}

TemplateTypeOK ==
    /\ stage_definitions \in SUBSET StageDefinition
    /\ known \in SUBSET StageType
    /\ graph \in [known -> SUBSET StageType]
    /\ phase \in Phase
    /\ remaining \in SUBSET known
    /\ resolved \in SUBSET known
    /\ progressed \in BOOLEAN
    /\ todo \in SUBSET known

(* What _validate_dag is for: a template it accepts never gets stuck.      *)
(* Whatever set of its stages is COMPLETE, as long as one is missing, some *)
(* missing stage has all its predecessors COMPLETE, so runnable_stages is  *)
(* not empty once nothing is RUNNING.  Holds for lists that define a stage *)
(* type twice too.                                                         *)
AcceptedNeverStuck ==
    phase \in {"created", "published"} =>
        \A done \in SUBSET known :
            done # known =>
                \E sd \in stage_definitions :
                    /\ sd.stage_type \notin done
                    /\ sd.required_predecessors \subseteq done

(* The verdict does not depend on the order in which the dict is visited:  *)
(* a template is refused exactly when some set of stages waits for itself. *)
HasCycle == \E S \in SUBSET known : S # {} /\ \A st \in S : graph[st] \cap S # {}

VerdictIsExact ==
    /\ phase \in {"created", "published"} => ~HasCycle
    /\ phase = "cyclic" => HasCycle

(* The passes come to an end.                                              *)
ValidationEnds == phase = "resolving" ~> phase \in {"created", "cyclic"}

=============================================================================
