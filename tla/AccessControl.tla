---------------------------- MODULE AccessControl ----------------------------
(***************************************************************************)
(* Who may call which route.  A route asks for one permission code         *)
(* (require_permission in the routes of every context); a role's codes are *)
(* the ones the migrations seed into the role_permission table, one        *)
(* migration per context, since the roles are read from the database and   *)
(* copied into the access token.                                           *)
(*                                                                         *)
(* Routes that need only a session (get_current_user), or none at all, are *)
(* listed with the pseudo codes "session" and "public".                    *)
(***************************************************************************)

RoleName == {"OWNER", "ADMIN", "ANALYST", "VIEWER"}

PermissionCode ==
    {"tenant:manage", "user:invite", "user:manage_role", "user:manage_status",
     "user:view", "role:view",
     "assessment:view", "assessment:manage", "assessment:archive", "assessment:cancel",
     "workflow_template:manage", "workflow_template:view",
     "validation:view", "validation:manage", "dataset:view", "dataset:manage",
     "alert_rule:view", "alert_rule:manage",
     "notification_subscription:view", "notification_subscription:manage",
     "notification:view", "notification:manage", "dashboard:view"}

-----------------------------------------------------------------------------
(* The grants, migration by migration *)

IdentityGrants(role) ==
    {"user:view", "role:view"}
        \cup (IF role \in {"ADMIN", "OWNER"}
              THEN {"user:invite", "user:manage_role", "user:manage_status"} ELSE {})
        \cup (IF role = "OWNER" THEN {"tenant:manage"} ELSE {})

AssessmentGrants(role) ==
    {"assessment:view"}
        \cup (IF role = "VIEWER" THEN {}
              ELSE {"assessment:manage", "assessment:archive", "assessment:cancel"})

WorkflowGrants(role) ==
    {"workflow_template:view"}
        \cup (IF role \in {"ADMIN", "OWNER"} THEN {"workflow_template:manage"} ELSE {})

ValidationGrants(role) ==
    {"validation:view"} \cup (IF role = "VIEWER" THEN {} ELSE {"validation:manage"})

DatasetGrants(role) ==
    {"dataset:view"} \cup (IF role \in {"ADMIN", "OWNER"} THEN {"dataset:manage"} ELSE {})

NotificationGrants(role) ==
    {"alert_rule:view", "notification_subscription:view", "notification:view"}
        \cup (IF role = "VIEWER" THEN {}
              ELSE {"alert_rule:manage", "notification_subscription:manage", "notification:manage"})

DashboardGrants(role) == {"dashboard:view"}

\* Faulty variant: the catalogue kept in value_objects.ROLE_PERMISSIONS, which
\* the last two migrations have left behind, is what the database holds.
CatalogueOnly(role) ==
    IdentityGrants(role) \cup AssessmentGrants(role) \cup WorkflowGrants(role)
        \cup ValidationGrants(role) \cup DatasetGrants(role)

Granted(role) ==
    IdentityGrants(role) \cup AssessmentGrants(role) \cup WorkflowGrants(role)
        \cup ValidationGrants(role) \cup DatasetGrants(role)
        \cup NotificationGrants(role) \cup DashboardGrants(role)

-----------------------------------------------------------------------------
(* The routes *)

Reads(code, routes)  == {[route |-> x, code |-> code, effect |-> "read"] : x \in routes}
Writes(code, routes) == {[route |-> x, code |-> code, effect |-> "write"] : x \in routes}

AuthRoutes ==
    Writes("public", {"login", "refresh_token", "logout",
                      "request_password_reset", "confirm_password_reset"})
        \cup Writes("session", {"revoke_all_sessions"})

TenantRoutes == Writes("public", {"register_tenant"})

CatalogRoutes == Reads("role:view", {"list_roles"})

UserRoutes ==
    Reads("session", {"get_current_user_profile"})
        \cup Writes("session", {"change_own_password"})
        \cup Writes("public", {"accept_invitation"})
        \cup Writes("user:invite", {"invite_user"})
        \cup Reads("user:view", {"list_users", "get_user"})
        \cup Writes("user:manage_role", {"change_user_role"})
        \cup Writes("user:manage_status", {"suspend_user", "reactivate_user", "deactivate_user"})

AssessmentRoutes ==
    Writes("assessment:manage",
           {"create_assessment", "mark_assessment_ready", "start_assessment",
            "validate_assessment", "report_assessment"})
        \cup Writes("assessment:archive", {"archive_assessment"})
        \cup Reads("assessment:view", {"list_assessments", "get_assessment"})

WorkflowRoutes ==
    Writes("assessment:cancel", {"cancel_assessment"})
        \cup Writes("assessment:manage", {"start_workflow", "execute_stage_manually"})
        \cup Reads("assessment:view", {"get_assessment_workflow"})

\* Faulty variant: publishing is guarded like viewing.
TemplateRoutesOpen ==
    Writes("workflow_template:manage", {"create_workflow_template"})
        \cup Writes("workflow_template:view", {"publish_workflow_template"})
        \cup Reads("workflow_template:view", {"list_workflow_templates", "get_workflow_template"})

TemplateRoutes ==
    Writes("workflow_template:manage", {"create_workflow_template", "publish_workflow_template"})
        \cup Reads("workflow_template:view", {"list_workflow_templates", "get_workflow_template"})

DatasetRoutes ==
    Reads("dataset:view", {"list_dataset_sources", "get_dataset_catalog", "get_dataset",
                           "list_dataset_versions"})
        \cup Writes("dataset:manage", {"register_dataset_source", "catalog_dataset", "revise_dataset"})

VariableRoutes ==
    Reads("dataset:view", {"list_predictor_variables", "get_variable_selection"})
        \cup Writes("dataset:manage", {"register_predictor_variable", "create_variable_selection",
                                       "confirm_variable_selection"})

AcquisitionRoutes ==
    Reads("dataset:view", {"list_acquisition_jobs", "get_acquisition_job"})
        \cup Writes("dataset:manage", {"schedule_acquisition_job", "execute_acquisition_job"})

GeospatialRoutes ==
    Reads("assessment:view", {"get_active_aoi", "list_aoi_versions", "list_sampling_campaigns",
                              "get_sampling_campaign", "list_sample_points"})
        \cup Writes("assessment:manage", {"define_or_revise_aoi", "configure_sampling_campaign",
                                          "generate_sample_points"})

AnalysisRoutes ==
    Reads("assessment:view", {"list_stage_results", "get_latest_stage_result", "get_risk_layer",
                              "get_risk_layer_geojson", "get_risk_summary"})

PredictionRoutes ==
    Reads("assessment:view", {"list_prediction_runs", "get_prediction_run"})
        \cup Writes("assessment:manage", {"run_prediction"})

ValidationRoutes ==
    Reads("validation:view", {"list_validation_runs", "get_validation_run"})
        \cup Writes("validation:manage", {"run_validation", "run_regression_validation"})

ReportingRoutes ==
    Reads("assessment:view", {"list_reports", "get_latest_report", "get_report",
                              "list_dashboard_reports"})
        \cup Writes("assessment:manage", {"generate_report", "finalize_report"})

AlertRuleRoutes ==
    Reads("alert_rule:view", {"list_alert_rules", "get_alert_rule"})
        \cup Writes("alert_rule:manage", {"create_alert_rule", "update_alert_rule_threshold",
                                          "activate_alert_rule", "deactivate_alert_rule"})

SubscriptionRoutes ==
    Reads("notification_subscription:view",
          {"list_notification_subscriptions", "get_notification_subscription"})
        \cup Writes("notification_subscription:manage",
                    {"create_notification_subscription", "activate_notification_subscription",
                     "deactivate_notification_subscription"})

NotificationRoutes ==
    Writes("notification:manage", {"evaluate_alert_rules"})
        \cup Reads("notification:view",
                   {"list_notifications_for_assessment", "list_notification_history"})

DashboardRoutes ==
    Reads("dashboard:view",
          {"get_assessment_workspace", "get_executive_dashboard", "get_firas_dashboard",
           "get_wrras_dashboard", "get_prediction_dashboard", "get_validation_dashboard",
           "get_alert_dashboard", "get_dataset_dashboard"})

\* The routers create_app mounts.
Routes ==
    AuthRoutes \cup TenantRoutes \cup CatalogRoutes \cup UserRoutes
        \cup AssessmentRoutes \cup WorkflowRoutes \cup TemplateRoutes
        \cup DatasetRoutes \cup VariableRoutes \cup AcquisitionRoutes \cup GeospatialRoutes
        \cup AnalysisRoutes \cup PredictionRoutes \cup ValidationRoutes \cup ReportingRoutes
        \cup AlertRuleRoutes \cup SubscriptionRoutes \cup NotificationRoutes \cup DashboardRoutes

\* require_permission, on the permissions the access token carries.
RouteOpen(x, permissions) == x.code \in {"public", "session"} \cup permissions

=============================================================================
