---------------------------- MODULE EarlyWarning ----------------------------
(***************************************************************************)
(* The notification context: alert rules, subscriptions and the early      *)
(* warning engine (EvaluateAlertRulesHandler), for one assessment.         *)
(*                                                                         *)
(* A command handler loads a rule or a subscription, changes it and        *)
(* commits; no row has a version and nothing is locked, and the UPDATE     *)
(* sets the columns that differ from what the session loaded.  An          *)
(* evaluation reads rules, subscriptions and, rule by rule, the metric in  *)
(* statements of their own, sends while it loops, and commits all          *)
(* notifications at its end.                                               *)
(***************************************************************************)
EXTENDS Integers, FiniteSets

CONSTANTS
    Rules,          \* ids of alert rules
    Subs,           \* ids of subscriptions
    Clerks,         \* concurrent requests
    RuleConfigs,    \* what CreateAlertRule may ask for
    SubConfigs,     \* what CreateNotificationSubscription may ask for
    Subjects,       \* subject types with evidence
    HazardType,     \* hazard type of the assessment
    Values,         \* metric values and thresholds
    NoValue,        \* no evidence, or none with the metric
    MaxWrites,      \* bound on edits and new results
    MaxEvaluations  \* bound on evaluations

AlertSubjectType == {"STAGE_RESULT", "PREDICTION", "VALIDATION"}

AlertOperator == {"GREATER_THAN", "LESS_THAN", "GREATER_THAN_OR_EQUAL", "LESS_THAN_OR_EQUAL"}

NotificationChannelType == {"EMAIL", "SMS", "IN_APP"}

None == "none"      \* an optional column that is null

ASSUME EarlyWarningAssumption ==
    /\ IsFiniteSet(Rules) /\ IsFiniteSet(Subs)
    /\ Values \subseteq Int
    /\ Subjects \subseteq AlertSubjectType
    /\ MaxWrites \in Nat /\ MaxEvaluations \in Nat
    /\ RuleConfigs \subseteq [subject : Subjects, stage : {"RISK", None},
                              hazard : {HazardType, "OTHER", None},
                              operator : AlertOperator, threshold : Values]
    /\ SubConfigs \subseteq [hazard : {HazardType, "OTHER", None},
                             channels : SUBSET NotificationChannelType,
                             email : BOOLEAN, phone : BOOLEAN]

VARIABLES
    rules,          \* alert_rule: the row of each id, or NoRow
    subs,           \* notification_subscription
    metric,         \* the newest value of each subject, in the other contexts
    clerk,          \* what each request holds
    notifications,  \* committed rows
    writes,         \* edits and new results so far
    evaluations     \* evaluations so far

alertVars == <<rules, subs, metric, clerk, notifications, writes, evaluations>>

NoRow == [exists |-> FALSE]

Idle == [at |-> "idle"]

AlertInit ==
    /\ rules = [r \in Rules |-> NoRow]
    /\ subs = [s \in Subs |-> NoRow]
    /\ metric \in [Subjects -> Values \cup {NoValue}]
    /\ clerk = [w \in Clerks |-> Idle]
    /\ notifications = {}
    /\ writes = 0
    /\ evaluations = 0

-----------------------------------------------------------------------------
(* Domain *)

(* Faulty variant: every comparison includes its boundary. *)
EvaluateLoosely(op, actual, threshold) ==
    IF op \in {"GREATER_THAN", "GREATER_THAN_OR_EQUAL"} THEN actual >= threshold
    ELSE actual <= threshold

(* AlertOperator.evaluate *)
Evaluate(op, actual, threshold) ==
    CASE op = "GREATER_THAN" -> actual > threshold
      [] op = "LESS_THAN" -> actual < threshold
      [] op = "GREATER_THAN_OR_EQUAL" -> actual >= threshold
      [] op = "LESS_THAN_OR_EQUAL" -> actual <= threshold

(* AlertRule.create: a stage exactly for stage results *)
ValidRule(c) == (c.subject = "STAGE_RESULT") <=> (c.stage # None)

(* Faulty variant: no phone number is asked for. *)
ValidSubscriptionNoPhone(c) ==
    /\ c.channels # {}
    /\ "EMAIL" \in c.channels => c.email

(* NotificationSubscription.subscribe *)
ValidSubscription(c) ==
    /\ c.channels # {}
    /\ "EMAIL" \in c.channels => c.email
    /\ "SMS" \in c.channels => c.phone

NewRule(c) ==
    [exists |-> TRUE, active |-> TRUE, subject |-> c.subject, hazard |-> c.hazard,
     operator |-> c.operator, threshold |-> c.threshold]

NewSubscription(c) ==
    [exists |-> TRUE, active |-> TRUE, hazard |-> c.hazard, channels |-> c.channels,
     email |-> c.email, phone |-> c.phone]

Applies(row) == row.exists /\ row.active /\ row.hazard \in {None, HazardType}

(* _resolve_recipient *)
HasRecipient(channel, sub) ==
    CASE channel = "EMAIL" -> sub.email
      [] channel = "SMS" -> sub.phone
      [] channel = "IN_APP" -> TRUE

(* What a channel's send may report: SMTP delivers or fails, no SMS        *)
(* gateway exists, an in-app notification is its own row.                  *)
Send(channel) ==
    CASE channel = "EMAIL" -> {"SENT", "FAILED"}
      [] channel = "SMS" -> {"FAILED"}
      [] channel = "IN_APP" -> {"SENT"}

Met(rule, value) == value # NoValue /\ Evaluate(rule.operator, value, rule.threshold)

-----------------------------------------------------------------------------
(* History of an evaluation.  due: the (rule, subscription) pairs that have *)
(* been due, under one threshold, at every moment since it began.  seen:   *)
(* the active rules and subscriptions and the metrics of any such moment.  *)

Due(rs, ss, m) ==
    {d \in Rules \X Subs \X Values :
        /\ Applies(rs[d[1]]) /\ Applies(ss[d[2]])
        /\ rs[d[1]].threshold = d[3]
        /\ Met(rs[d[1]], m[rs[d[1]].subject])}

Seen(rs, ss, m) ==
    {<<"rule", r, rs[r].threshold>> : r \in {r \in Rules : Applies(rs[r])}}
      \cup {<<"subscription", s>> : s \in {s \in Subs : Applies(ss[s])}}
      \cup {<<"metric", t, m[t]>> : t \in Subjects}

Evaluating == {"rules", "subscriptions", "loop"}

Watched(clerks, rs, ss, m) ==
    [w \in Clerks |->
        IF clerks[w].at \in Evaluating
        THEN [clerks[w] EXCEPT !.due = @ \cap Due(rs, ss, m), !.seen = @ \cup Seen(rs, ss, m)]
        ELSE clerks[w]]

-----------------------------------------------------------------------------
(* Commands *)

Writable == writes < MaxWrites /\ writes' = writes + 1

(* A new id is an unused one; which one makes no difference. *)
Fresh(table) ==
    LET unused == {i \in DOMAIN table : ~table[i].exists}
    IN  {i \in unused : i = CHOOSE j \in unused : TRUE}

CreateAlertRule(r, c) ==
    /\ r \in Fresh(rules)
    /\ ValidRule(c)
    /\ rules' = [rules EXCEPT ![r] = NewRule(c)]
    /\ clerk' = Watched(clerk, rules', subs, metric)
    /\ UNCHANGED <<subs, metric, notifications, writes, evaluations>>

CreateNotificationSubscription(s, c) ==
    /\ s \in Fresh(subs)
    /\ ValidSubscription(c)
    /\ subs' = [subs EXCEPT ![s] = NewSubscription(c)]
    /\ clerk' = Watched(clerk, rules, subs', metric)
    /\ UNCHANGED <<rules, metric, notifications, writes, evaluations>>

(* _get_owned_rule, and a change of the entity it returns *)
GetOwnedRule(w, r, wanted) ==
    /\ Writable
    /\ clerk[w] = Idle
    /\ clerk' = [clerk EXCEPT ![w] =
          [at |-> "rule", id |-> r, loaded |-> rules[r], wanted |-> wanted]]
    /\ UNCHANGED <<rules, subs, metric, notifications, evaluations>>

UpdateAlertRuleThreshold(w, r, v) ==
    rules[r].exists /\ GetOwnedRule(w, r, [rules[r] EXCEPT !.threshold = v])

ActivateAlertRule(w, r) ==
    rules[r].exists /\ GetOwnedRule(w, r, [rules[r] EXCEPT !.active = TRUE])

DeactivateAlertRule(w, r) ==
    rules[r].exists /\ GetOwnedRule(w, r, [rules[r] EXCEPT !.active = FALSE])

(* _get_owned_subscription, and a change of the entity it returns *)
GetOwnedSubscription(w, s, wanted) ==
    /\ Writable
    /\ clerk[w] = Idle
    /\ clerk' = [clerk EXCEPT ![w] =
          [at |-> "subscription", id |-> s, loaded |-> subs[s], wanted |-> wanted]]
    /\ UNCHANGED <<rules, subs, metric, notifications, evaluations>>

ActivateNotificationSubscription(w, s) ==
    subs[s].exists /\ GetOwnedSubscription(w, s, [subs[s] EXCEPT !.active = TRUE])

DeactivateNotificationSubscription(w, s) ==
    subs[s].exists /\ GetOwnedSubscription(w, s, [subs[s] EXCEPT !.active = FALSE])

(* Faulty variant: every column is written. *)
UpdatedWhole(row, o) == o.wanted

(* The UPDATE: the columns that differ from what was loaded. *)
UpdatedColumns(row, o) ==
    [column \in DOMAIN row |->
        IF o.wanted[column] # o.loaded[column] THEN o.wanted[column] ELSE row[column]]

SaveRule(w) ==
    /\ clerk[w].at = "rule"
    /\ rules' = [rules EXCEPT ![clerk[w].id] = UpdatedColumns(@, clerk[w])]
    /\ clerk' = Watched([clerk EXCEPT ![w] = Idle], rules', subs, metric)
    /\ UNCHANGED <<subs, metric, notifications, writes, evaluations>>

SaveSubscription(w) ==
    /\ clerk[w].at = "subscription"
    /\ subs' = [subs EXCEPT ![clerk[w].id] = UpdatedColumns(@, clerk[w])]
    /\ clerk' = Watched([clerk EXCEPT ![w] = Idle], rules, subs', metric)
    /\ UNCHANGED <<rules, metric, notifications, writes, evaluations>>

(* Another context commits a result, a prediction or a validation, which *)
(* may lack the metric the rules ask for.                                  *)
NewEvidence(t, v) ==
    /\ Writable
    /\ metric' = [metric EXCEPT ![t] = v]
    /\ clerk' = Watched(clerk, rules, subs, metric')
    /\ UNCHANGED <<rules, subs, notifications, evaluations>>

-----------------------------------------------------------------------------
(* EvaluateAlertRulesHandler *)

(* The assessment is the tenant's own; otherwise the handler returns []. *)
BeginEvaluation(w) ==
    /\ clerk[w] = Idle
    /\ evaluations < MaxEvaluations
    /\ evaluations' = evaluations + 1
    /\ clerk' = [clerk EXCEPT ![w] =
          [at |-> "rules", run |-> evaluations + 1, due |-> Due(rules, subs, metric),
           seen |-> Seen(rules, subs, metric)]]
    /\ UNCHANGED <<rules, subs, metric, notifications, writes>>

(* Faulty variant: inactive rules are read too. *)
ReadAllRules(w) ==
    /\ clerk[w].at = "rules"
    /\ clerk' = [clerk EXCEPT ![w] =
          [at |-> "subscriptions", run |-> @.run, due |-> @.due, seen |-> @.seen,
           todo |-> {r \in Rules : rules[r].exists /\ rules[r].hazard \in {None, HazardType}},
           rules |-> rules]]
    /\ UNCHANGED <<rules, subs, metric, notifications, writes, evaluations>>

ReadRules(w) ==
    /\ clerk[w].at = "rules"
    /\ clerk' = [clerk EXCEPT ![w] =
          [at |-> "subscriptions", run |-> @.run, due |-> @.due, seen |-> @.seen,
           todo |-> {r \in Rules : Applies(rules[r])}, rules |-> rules]]
    /\ UNCHANGED <<rules, subs, metric, notifications, writes, evaluations>>

ReadSubscriptions(w) ==
    /\ clerk[w].at = "subscriptions"
    /\ clerk' = [clerk EXCEPT ![w] =
          [at |-> "loop", run |-> @.run, due |-> @.due, seen |-> @.seen, todo |-> @.todo,
           rules |-> @.rules, subs |-> subs, fired |-> {}, pending |-> {}]]
    /\ UNCHANGED <<rules, subs, metric, notifications, writes, evaluations>>

(* Whom a rule that fired is sent to *)
Targets(o) ==
    {t \in Subs \X NotificationChannelType :
        LET sub == o.subs[t[1]]
        IN  Applies(sub) /\ t[2] \in sub.channels /\ HasRecipient(t[2], sub)}

(* How the sends to these targets may end *)
Deliveries(targets) ==
    {d \in [targets -> {"SENT", "FAILED"}] : \A t \in targets : d[t] \in Send(t[2])}

(* Faulty variant: a notification that waits for its delivery. *)
PendingNotification(o, r, value, target, status) ==
    [run |-> o.run, rule |-> r, sub |-> target[1], channel |-> target[2], status |-> "PENDING",
     value |-> value, operator |-> o.rules[r].operator, threshold |-> o.rules[r].threshold]

(* Notification.sent, Notification.failed: value and threshold as used. *)
NewNotification(o, r, value, target, status) ==
    [run |-> o.run, rule |-> r, sub |-> target[1], channel |-> target[2], status |-> status,
     value |-> value, operator |-> o.rules[r].operator, threshold |-> o.rules[r].threshold]

(* The rule is reported to its targets; the rows are saved, not committed. *)
Fire(w, r, value) ==
    \E d \in Deliveries(Targets(clerk[w])) :
        clerk' = [clerk EXCEPT ![w] =
            [clerk[w] EXCEPT
                !.todo = @ \ {r},
                !.fired = @ \cup {r},
                !.pending = @ \cup
                    {NewNotification(clerk[w], r, value, t, d[t]) : t \in DOMAIN d}]]

(* Faulty variant: a rule that does not fire ends the loop. *)
EvaluateRuleOrStop(w, r) ==
    /\ clerk[w].at = "loop"
    /\ r \in clerk[w].todo
    /\ LET rule == clerk[w].rules[r]
           value == metric[rule.subject]
       IN  \/ Met(rule, value) /\ Fire(w, r, value)
           \/ ~Met(rule, value) /\ clerk' = [clerk EXCEPT ![w].todo = {}]
    /\ UNCHANGED <<rules, subs, metric, notifications, writes, evaluations>>

(* One turn of the loop, rules in any order: get_metric_value in a session *)
(* of its own, then the sends.  These touch nothing that another request   *)
(* reads, so they are one step with it.                                    *)
EvaluateRule(w, r) ==
    /\ clerk[w].at = "loop"
    /\ r \in clerk[w].todo
    /\ LET rule == clerk[w].rules[r]
           value == metric[rule.subject]
       IN  \/ Met(rule, value) /\ Fire(w, r, value)
           \/ ~Met(rule, value) /\ clerk' = [clerk EXCEPT ![w].todo = @ \ {r}]
    /\ UNCHANGED <<rules, subs, metric, notifications, writes, evaluations>>

CommitEvaluation(w) ==
    /\ clerk[w].at = "loop"
    /\ clerk[w].todo = {}
    /\ notifications' = notifications \cup clerk[w].pending
    /\ clerk' = [clerk EXCEPT ![w] = Idle]
    /\ UNCHANGED <<rules, subs, metric, writes, evaluations>>

(* The request is lost: its notifications are rolled back, what it sent    *)
(* stays sent.                                                             *)
Lose(w) ==
    /\ clerk[w].at \in Evaluating
    /\ clerk' = [clerk EXCEPT ![w] = Idle]
    /\ UNCHANGED <<rules, subs, metric, notifications, writes, evaluations>>

AlertNext ==
    \/ \E r \in Rules, c \in RuleConfigs : CreateAlertRule(r, c)
    \/ \E s \in Subs, c \in SubConfigs : CreateNotificationSubscription(s, c)
    \/ \E w \in Clerks :
          \/ \E r \in Rules :
                \/ \E v \in Values : UpdateAlertRuleThreshold(w, r, v)
                \/ ActivateAlertRule(w, r) \/ DeactivateAlertRule(w, r)
          \/ \E s \in Subs :
                \/ ActivateNotificationSubscription(w, s)
                \/ DeactivateNotificationSubscription(w, s)
          \/ SaveRule(w) \/ SaveSubscription(w)
          \/ BeginEvaluation(w) \/ ReadRules(w) \/ ReadSubscriptions(w)
          \/ \E r \in Rules : EvaluateRule(w, r)
          \/ CommitEvaluation(w) \/ Lose(w)
    \/ \E t \in Subjects, v \in Values \cup {NoValue} : NewEvidence(t, v)

AlertSpec == AlertInit /\ [][AlertNext]_alertVars

-----------------------------------------------------------------------------
(* Properties *)

(* Rows hold what the columns allow, a committed notification is in one of *)
(* the two states of NotificationStatus.                                   *)
AlertTypeOK ==
    /\ \A r \in Rules : rules[r].exists =>
          rules[r].active \in BOOLEAN /\ rules[r].threshold \in Values
    /\ \A s \in Subs : subs[s].exists => subs[s].active \in BOOLEAN
    /\ metric \in [Subjects -> Values \cup {NoValue}]
    /\ \A n \in notifications :
          /\ n.rule \in Rules /\ n.sub \in Subs /\ n.channel \in NotificationChannelType
          /\ n.status \in {"SENT", "FAILED"}

(* An evaluation whose loop over the rules has ended *)
Evaluated(w) == clerk[w].at = "loop" /\ clerk[w].todo = {}

(* "one Notification per (rule x subscription x channel) triple": an       *)
(* evaluation ends with exactly one row for each rule that fired, each     *)
(* matching subscription and EACH channel it selected, delivered or not.   *)
(* The loop skips a channel without recipient, so this rests on what       *)
(* subscribe accepted long before.                                         *)
OneRowPerTriple ==
    \A w \in Clerks : Evaluated(w) =>
        LET o == clerk[w]
            triples == {t \in o.fired \X Subs \X NotificationChannelType :
                            Applies(o.subs[t[2]]) /\ t[3] \in o.subs[t[2]].channels}
        IN  /\ {<<n.rule, n.sub, n.channel>> : n \in o.pending} = triples
            /\ Cardinality(o.pending) = Cardinality(triples)

(* Whatever is edited meanwhile: a rule that has been active with its      *)
(* condition met, and a subscription that has been active, from the start  *)
(* of an evaluation to its end, are notified about by it; a rule without   *)
(* evidence, a rule that does not fire or a failed delivery on the way     *)
(* hides no other rule.                                                    *)
NoAlertMissed ==
    \A w \in Clerks : Evaluated(w) =>
        \A d \in clerk[w].due : \A c \in subs[d[2]].channels :
            \E n \in clerk[w].pending :
                n.rule = d[1] /\ n.sub = d[2] /\ n.channel = c /\ n.threshold = d[3]

(* No stale alert: the rule was active with the threshold quoted, the      *)
(* value was the newest one and the subscription was active, each at some  *)
(* moment since the evaluation began (not necessarily the same one).       *)
AlertsAreFresh ==
    \A w \in Clerks : clerk[w].at = "loop" =>
        \A n \in clerk[w].pending :
            /\ <<"rule", n.rule, n.threshold>> \in clerk[w].seen
            /\ <<"subscription", n.sub>> \in clerk[w].seen
            /\ <<"metric", clerk[w].rules[n.rule].subject, n.value>> \in clerk[w].seen

(* What a committed notification reports did cross its threshold, in the   *)
(* direction and with the boundary its operator names.                     *)
AlertsAreTrue ==
    \A n \in notifications :
        \/ n.value > n.threshold /\ n.operator \in {"GREATER_THAN", "GREATER_THAN_OR_EQUAL"}
        \/ n.value < n.threshold /\ n.operator \in {"LESS_THAN", "LESS_THAN_OR_EQUAL"}
        \/ n.value = n.threshold /\ n.operator \in {"GREATER_THAN_OR_EQUAL", "LESS_THAN_OR_EQUAL"}

(* Overlapping edits of one rule do not undo each other: its threshold     *)
(* changes only to what a threshold command being saved asks for, and its  *)
(* activity only to what an (de)activate command being saved asks for.     *)
EditsAreIndependent ==
    [][\A r \in Rules : rules[r].exists =>
          \A column \in {"active", "threshold"} :
              rules'[r][column] # rules[r][column] =>
                  \E w \in Clerks :
                      /\ clerk[w].at = "rule" /\ clerk'[w] = Idle
                      /\ clerk[w].id = r
                      /\ clerk[w].wanted[column] # clerk[w].loaded[column]
                      /\ clerk[w].wanted[column] = rules'[r][column]]_alertVars

(* Every alert quotes readings its own evaluation made, is true of them,   *)
(* and is the only one of its rule, subscription and channel.              *)
AlertsAreSound == AlertTypeOK /\ OneRowPerTriple /\ AlertsAreFresh /\ AlertsAreTrue
=============================================================================
