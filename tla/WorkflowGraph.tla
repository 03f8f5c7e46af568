----------------------------- MODULE WorkflowGraph -----------------------------
(***************************************************************************)
(* The workflow graph as data (GRAPH_SPEC in                                *)
(* src/infrastructure/orchestration/langgraph/spec.py) and the routing      *)
(* functions that decide its branches (routing.py beside it).  A routing    *)
(* function takes the workflow state `s', a record with the fields of       *)
(* NetworkWorkflowState that routing reads, and returns a branch label.     *)
(***************************************************************************)
EXTENDS Naturals

\* Unconditional edges: _EDGES.
Edges ==
  [preprocess_image              |-> "detect_components",
   detect_components             |-> "extract_text",
   extract_text                  |-> "detect_connections",
   detect_connections            |-> "spatial_association",
   spatial_association           |-> "build_topology_from_image",
   build_topology_from_image     |-> "analyze_completeness",
   prompt_llm                    |-> "build_topology_from_prompt",
   build_topology_from_prompt    |-> "analyze_completeness",
   await_clarification           |-> "enrich_network",
   enrich_network                |-> "validate_network",
   finalise_network_architecture |-> "rag_translate",
   rag_translate                 |-> "validate_cloud_architecture",
   generate_terraform            |-> "validate_terraform",
   generate_ansible              |-> "validate_ansible",
   deployment_review             |-> "terraform_plan",
   terraform_plan                |-> "await_approval",
   terraform_apply               |-> "collect_outputs",
   collect_outputs               |-> "generate_inventory",
   generate_inventory            |-> "run_configuration",
   run_configuration             |-> "complete",
   complete                      |-> "END",
   rejected                      |-> "END",
   failed                        |-> "END"]

\* Conditional edges, a record of branch labels per source: _CONDITIONAL.
\* collect_outputs is a source here and in Edges: both edges fire.
Branches ==
  [detect_input_mode           |-> [image |-> "preprocess_image",
                                    prompt |-> "prompt_llm",
                                    fail |-> "failed"],
   analyze_completeness        |-> [clarify |-> "await_clarification",
                                    enrich |-> "enrich_network",
                                    fail |-> "failed"],
   validate_network            |-> [translate |-> "finalise_network_architecture",
                                    clarify |-> "await_clarification",
                                    invalid |-> "failed"],
   validate_cloud_architecture |-> [generate |-> "generate_terraform",
                                    invalid |-> "failed"],
   validate_terraform          |-> [ansible |-> "generate_ansible",
                                    skip |-> "deployment_review"],
   validate_ansible            |-> [review |-> "deployment_review",
                                    invalid |-> "failed"],
   await_approval              |-> [apply |-> "terraform_apply",
                                    reject |-> "rejected"],
   collect_outputs             |-> [configure |-> "generate_inventory",
                                    complete |-> "complete",
                                    fail |-> "failed"]]

Nodes == DOMAIN Edges \cup DOMAIN Branches

EntryPoint == "detect_input_mode"

\* Slip: interrupt_before is missing on await_clarification.
OnlyApprovalInterrupts == {"await_approval"}

\* GraphSpec.interrupt_nodes: the engine pauses before it runs these.
InterruptNodes == {"await_clarification", "await_approval"}

--------------------------------------------------------------------------------
(* The routing functions, one operator each.                                 *)

RouteAfterInputMode(s) ==
  IF s.input_mode = "image" THEN "image"
  ELSE IF s.input_mode \in {"prompt", "revision"} THEN "prompt"
  ELSE "fail"

\* A skipped answer is an answer: only the ids are subtracted.
Answered(s) ==
  {q \in DOMAIN s.clarification_answers : s.clarification_answers[q] # "unanswered"}

\* A question that is not required does not hold the workflow up.
RequiredOf(questions) == {q \in DOMAIN questions : questions[q] = "required"}

Outstanding(s) == RequiredOf(s.clarification_questions) \ Answered(s)

RouteAfterCompleteness(s) ==
  IF s.errors THEN "fail"
  ELSE IF Outstanding(s) # {} THEN "clarify"
  ELSE "enrich"

\* Slip: only the errors of the report block, the gaps do not.
RouteNetworkOnErrorsAlone(s) ==
  IF s.network_validation = "errors" THEN "invalid" ELSE "translate"

\* The gate into the RAG.  It looks at the REQUIRED gaps the architecture still
\* carries, not at the answers.
RouteAfterNetworkValidation(s) ==
  IF s.network_validation = "errors" THEN "invalid"
  ELSE IF s.network_architecture.missing # {} THEN "clarify"
  ELSE "translate"

RouteAfterCloudValidation(s) ==
  IF s.cloud_validation # "errors" /\ s.cloud_architecture.infrastructure
  THEN "generate" ELSE "invalid"

\* Ansible is worth running only with hosts and roles, both.
RouteConfigurationStage(s) ==
  IF {"hosts", "roles"} \subseteq s.cloud_architecture.configuration
  THEN "ansible" ELSE "skip"

\* Slip: only the project generated last is looked at.
RouteOnAnsibleAlone(s) ==
  IF s.ansible_validation # "errors" THEN "review" ELSE "invalid"

RouteAfterGeneration(s) ==
  IF /\ s.terraform_validation # "errors"
     /\ s.ansible_validation # "errors"
     /\ s.terraform_project_uri # 0
  THEN "review" ELSE "invalid"

\* deployment_approved must be True itself, not a truthy value; the decision is
\* read from whatever approval record the state holds.
RouteAfterApproval(s) ==
  IF s.deployment_approved = "True" /\ s.approval.decision = "approved"
  THEN "apply" ELSE "reject"

\* Slip: the errors of apply and of the outputs are not looked at.
RouteApplyIgnoringErrors(s) ==
  IF RouteConfigurationStage(s) = "ansible" THEN "configure" ELSE "complete"

RouteAfterApply(s) ==
  IF s.errors THEN "fail"
  ELSE IF RouteConfigurationStage(s) = "ansible" THEN "configure"
  ELSE "complete"

\* Which routing function decides at which node.  The builder that attaches them
\* is not in the repository; the branch labels of Branches leave one choice.
Route(n, s) ==
  CASE n = "detect_input_mode"           -> RouteAfterInputMode(s)
    [] n = "analyze_completeness"        -> RouteAfterCompleteness(s)
    [] n = "validate_network"            -> RouteAfterNetworkValidation(s)
    [] n = "validate_cloud_architecture" -> RouteAfterCloudValidation(s)
    [] n = "validate_terraform"          -> RouteConfigurationStage(s)
    [] n = "validate_ansible"            -> RouteAfterGeneration(s)
    [] n = "await_approval"              -> RouteAfterApproval(s)
    [] n = "collect_outputs"             -> RouteAfterApply(s)

\* The nodes the engine schedules once node n has left the state s: the target
\* of its unconditional edge and the target of its branch, whichever it has.
Successors(n, s) ==
  ((IF n \in DOMAIN Edges THEN {Edges[n]} ELSE {})
     \cup (IF n \in DOMAIN Branches THEN {Branches[n][Route(n, s)]} ELSE {}))
    \ {"END"}
===============================================================================
