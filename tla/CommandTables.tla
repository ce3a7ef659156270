---------------------------- MODULE CommandTables ----------------------------
(***************************************************************************)
(* The tables the command line is read with, each kept by hand in the      *)
(* code: the commands and their aliases, the options each command allows,  *)
(* the parameter an option is stored under, and the action forms with the  *)
(* option each field is submitted as and the artifacts shown again after.  *)
(* They are written out, since what they must do is agree with each other; *)
(* whether a field is required is left out, as no form is held back for it.*)
(***************************************************************************)
EXTENDS Sequences

CommandNames ==
  {"aliases", "behavioral-health-check", "behavioral-list-backlog", "behavioral-list-interventions",
   "behavioral-list-reevaluations", "behavioral-record-state", "behavioral-reevaluate-backlog",
   "behavioral-status", "bootstrap-check", "commands", "artifact.query", "help",
   "integration-list-providers", "integration-set-provider", "integration-show-provider",
   "integration-test-provider", "list-modules", "operator-console", "operator-query",
   "procedural-health-check", "procedural-list-activities", "procedural-list-audit-runs",
   "procedural-list-proposals", "procedural-run-audit", "procedural-upsert-activity",
   "schedule-health-check", "scheduling-generate-candidates", "scheduling-generate-proposals",
   "scheduling-list-candidates", "scheduling-list-proposals", "status", "suggest"}

AliasesOf(command) ==
  CASE command = "procedural-list-activities" -> {"activities"}
    [] command = "procedural-upsert-activity" -> {"activity", "add-activity", "create", "create-activity"}
    [] command = "behavioral-list-backlog" -> {"backlog"}
    [] command = "scheduling-generate-candidates" -> {"candidate", "generate-candidates"}
    [] command = "scheduling-list-candidates" -> {"candidates"}
    [] command = "scheduling-generate-proposals" -> {"generate-proposals", "proposal"}
    [] command = "behavioral-list-interventions" -> {"interventions"}
    [] command = "procedural-list-proposals" -> {"proposals"}
    [] command = "behavioral-record-state" -> {"record", "record-behavioral-state", "record-state", "state"}
    [] command = "procedural-run-audit" -> {"run-audit"}
    [] command = "scheduling-list-proposals" -> {"schedule-proposals"}
    [] command = "status" -> {"status"}
    [] OTHER -> {}

\* is_allowed_command_option, of the mode a command is run in.
OptionsOf(command) ==
  CASE command = "procedural-upsert-activity" ->
         {"activity-id", "title", "domain-source", "frequency", "duration-minutes", "effort",
          "effort-estimate", "outcome-value", "description", "necessity", "cognitive-load",
          "stress-load", "financial-cost", "attributes-json", "repeatable", "now", "help"}
    [] command = "procedural-run-audit" -> {"now", "audit-run-id", "help"}
    [] command = "behavioral-record-state" ->
         {"available-capacity", "stress-level", "cognitive-load", "motivation", "motivation-level",
          "recovery-status", "sleep-quality", "time-pressure", "notes", "now", "attributes-json", "help"}
    [] command = "behavioral-list-interventions" -> {"status", "due-by", "now"}
    [] command = "integration-set-provider" ->
         {"provider-name", "api-key", "model-name", "endpoint-url", "secret-source", "env-var",
          "secret-ref", "display-name", "enabled"}
    [] command \in {"integration-show-provider", "integration-test-provider"} -> {"provider-name"}
    [] command = "artifact.query" -> {"artifact-type", "limit"}
    [] command \in {"operator-query", "suggest"} -> {"input", "help"}
    [] OTHER -> {"now", "help"}

\* normalize_command_option_key.
KeyOf(option) ==
  CASE option = "activity-id" -> "activity_inventory_item_id"
    [] option = "domain-source" -> "domain_source"
    [] option = "duration-minutes" -> "duration_minutes"
    [] option \in {"effort", "effort-estimate"} -> "effort_estimate"
    [] option = "outcome-value" -> "outcome_value"
    [] option = "cognitive-load" -> "cognitive_load"
    [] option = "stress-load" -> "stress_load"
    [] option = "financial-cost" -> "financial_cost"
    [] option = "audit-run-id" -> "procedural_audit_run_id"
    [] option = "available-capacity" -> "available_capacity"
    [] option = "stress-level" -> "stress_level"
    [] option = "motivation-level" -> "motivation"
    [] option = "recovery-status" -> "recovery_status"
    [] option = "sleep-quality" -> "sleep_quality"
    [] option = "time-pressure" -> "time_pressure"
    [] option = "due-by" -> "due_by"
    [] option = "provider-name" -> "provider_name"
    [] option = "api-key" -> "api_key"
    [] option = "model-name" -> "model_name"
    [] option = "display-name" -> "display_name"
    [] option = "endpoint-url" -> "endpoint_url"
    [] option = "secret-source" -> "secret_source"
    [] option = "env-var" -> "env_var_name"
    [] option = "secret-ref" -> "existing_secret_reference"
    [] option = "artifact-type" -> "artifact_type"
    [] OTHER -> option
-----------------------------------------------------------------------------
(* The action forms *)

SecretSources == {"direct", "env", "existing"}

\* The artifacts a query may ask for.
ArtifactTypes ==
  {"activity_inventory", "procedural_proposals", "behavioral_backlog", "behavioral_interventions",
   "scheduling_candidates", "schedule_proposals", "behavioral_reevaluations", "provider_config_summary"}

\* A field: the parameter it fills in, the option it is submitted as, and the
\* secret sources it is shown for.
Field(id, option) == [id |-> id, option |-> option, shownFor |-> SecretSources]
SecretField(id, option, source) == [id |-> id, option |-> option, shownFor |-> {source}]
Form(command, fields, targets) == [command |-> command, fields |-> fields, targets |-> targets]

Now == Field("now", "now")
Attributes == Field("attributes_json", "attributes-json")
ProviderName == Field("provider_name", "provider-name")

Forms ==
  {Form("procedural-upsert-activity",
     <<Field("activity_inventory_item_id", "activity-id"), Field("title", "title"),
       Field("domain_source", "domain-source"), Field("frequency", "frequency"),
       Field("duration_minutes", "duration-minutes"), Field("effort_estimate", "effort-estimate"),
       Field("outcome_value", "outcome-value"), Field("repeatable", "repeatable"), Attributes, Now>>,
     <<"activity_inventory">>),
   Form("behavioral-record-state",
     <<Field("available_capacity", "available-capacity"), Field("stress_level", "stress-level"),
       Field("cognitive_load", "cognitive-load"), Field("motivation", "motivation-level"),
       Field("recovery_status", "recovery-status"), Field("sleep_quality", "sleep-quality"),
       Field("time_pressure", "time-pressure"), Field("notes", "notes"), Attributes, Now>>,
     <<"behavioral_backlog", "behavioral_interventions">>),
   Form("procedural-run-audit",
     <<Field("procedural_audit_run_id", "audit-run-id"), Now>>, <<"procedural_proposals">>),
   Form("behavioral-reevaluate-backlog", <<Now>>,
     <<"behavioral_reevaluations", "behavioral_backlog", "behavioral_interventions">>),
   Form("scheduling-generate-candidates", <<Now>>, <<"scheduling_candidates">>),
   Form("scheduling-generate-proposals", <<Now>>, <<"schedule_proposals">>),
   Form("integration-set-provider",
     <<ProviderName, Field("model_name", "model-name"), Field("secret_source", "secret-source"),
       SecretField("api_key", "api-key", "direct"), SecretField("env_var_name", "env-var", "env"),
       SecretField("existing_secret_reference", "secret-ref", "existing")>>,
     <<"provider_config_summary">>),
   Form("integration-test-provider", <<ProviderName>>, <<"provider_config_summary">>)}
=============================================================================
