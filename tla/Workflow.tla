-------------------------------- MODULE Workflow --------------------------------
(***************************************************************************)
(* The delivery workflow: one LangGraph thread (project:architecture) that  *)
(* runs the graph of WorkflowGraph, pauses for the user at the interrupts,  *)
(* and may crash, be resumed from its checkpoint, or be started again on    *)
(* the same thread.                                                         *)
(*                                                                          *)
(* The graph, the routing and the state are the repository's; the engine    *)
(* (supersteps, checkpoints, interrupts) and the bodies of the nodes are    *)
(* outside it and are modelled from how spec.py, routing.py, state.py and   *)
(* the ports use them.                                                      *)
(*                                                                          *)
(* Provenance is kept by stamps: an artefact carries the workflow_id of the *)
(* workflow whose input it was derived from, 0 when it is absent.           *)
(***************************************************************************)
EXTENDS WorkflowGraph, Approval, FiniteSets

CONSTANTS
  Questions,       \* ids of the questions, and of the gaps they are about
  Configurations,  \* the configuration sections a translation may produce
  AllowApply,      \* DeploymentSettings.allow_apply, the kill switch
  RecursionLimit,  \* OrchestrationSettings.recursion_limit
  MaxRuns,         \* bound: workflows started on this thread
  MaxRecoveries    \* bound: invocations repeated after a crash

ASSUME ConfigurationsAssumption == Configurations \subseteq SUBSET {"hosts", "roles"}
ASSUME AllowApplyAssumption == AllowApply \in BOOLEAN
ASSUME LimitsAssumption == /\ RecursionLimit \in Nat \ {0}
                           /\ MaxRuns \in Nat \ {0}
                           /\ MaxRecoveries \in Nat

VARIABLES
  todo,        \* nodes of the current superstep that have not run yet
  next,        \* nodes the ones that have run lead to
  mode,        \* "running", "interrupted", "stopped" (exception) or "done"
  steps,       \* supersteps of this invocation
  state,       \* NetworkWorkflowState, the checkpointed fields that matter
  recoveries,  \* invocations repeated so far
  deployed,    \* the cloud account: id of the plan applied last, 0 if none
  consented,   \* history: ids of the plans a human approved
  applied,     \* history: ids of the plans whose apply touched the account
  configured,  \* history: the configuration runs
  ended        \* history: terminal nodes this workflow has run

control == <<todo, next, mode, steps>>
history == <<deployed, consented, applied, configured, ended>>
vars == <<control, state, recoveries, history>>

Verdicts == {"absent", "ok", "errors"}
InputModes == {"image", "prompt", "revision"}
QuestionKinds == {"unasked", "optional", "required"}
AnswerKinds == {"unanswered", "value", "skipped"}
NoCloud == [run |-> 0, infrastructure |-> FALSE, configuration |-> {}]
NoPlan == [id |-> 0, run |-> 0, fingerprint |-> {}, changes |-> {}]
NoApproval == [plan_id |-> 0, plan_checksum |-> Checksum(NoPlan), decision |-> "none"]

--------------------------------------------------------------------------------
(* The state.                                                                *)

Sections == SUBSET {"hosts", "roles"}
Plans == [id : Nat, run : Nat, fingerprint : Sections, changes : {{}}]
Checksums == [fingerprint : Sections, changes : {{}}]

States ==
  [workflow_id             : Nat,
   input_mode              : InputModes,
   errors                  : BOOLEAN,
   clarification_questions : [Questions -> QuestionKinds],
   clarification_answers   : [Questions -> AnswerKinds],
   network_architecture    : [run : Nat, missing : SUBSET Questions],
   network_validation      : Verdicts,
   cloud_architecture      : [run : Nat, infrastructure : BOOLEAN, configuration : Sections],
   cloud_validation        : Verdicts,
   terraform_project_uri   : Nat,
   terraform_fingerprint   : Sections,
   terraform_validation    : Verdicts,
   ansible_project_uri     : Nat,
   ansible_validation      : Verdicts,
   deployment_plan         : Plans,
   deployment_approved     : {"False", "True", "truthy"},
   approval                : [plan_id : Nat, plan_checksum : Checksums,
                              decision : Decisions \cup {"none"}],
   terraform_outputs       : Nat,
   ansible_inventory_uri   : Nat]

\* The fields of a thread that has never run.  The fingerprint of a project
\* is the part of the cloud architecture that code is generated from: equal
\* architectures give equal code.
Fresh(input) ==
  [workflow_id             |-> 1,
   input_mode              |-> input,
   errors                  |-> FALSE,
   clarification_questions |-> [q \in Questions |-> "unasked"],
   clarification_answers   |-> [q \in Questions |-> "unanswered"],
   network_architecture    |-> [run |-> 0, missing |-> {}],
   network_validation      |-> "absent",
   cloud_architecture      |-> NoCloud,
   cloud_validation        |-> "absent",
   terraform_project_uri   |-> 0,
   terraform_fingerprint   |-> {},
   terraform_validation    |-> "absent",
   ansible_project_uri     |-> 0,
   ansible_validation      |-> "absent",
   deployment_plan         |-> NoPlan,
   deployment_approved     |-> "False",
   approval                |-> NoApproval,
   terraform_outputs       |-> 0,
   ansible_inventory_uri   |-> 0]

\* initial_state merged into the checkpoint the thread already has: the fields it
\* does not name keep the values of the previous workflow.
Restarted(s, input) ==
  [s EXCEPT !.workflow_id = @ + 1, !.input_mode = input,
            !.errors = FALSE, !.deployment_approved = "False"]

Init ==
  /\ todo = {EntryPoint} /\ next = {} /\ mode = "running" /\ steps = 0
  /\ \E input \in InputModes : state = Fresh(input)
  /\ recoveries = 0 /\ deployed = 0
  /\ consented = {} /\ applied = {} /\ configured = {} /\ ended = {}

--------------------------------------------------------------------------------
(* The engine.                                                               *)

\* Where the engine stands once it has scheduled `frontier' and taken n steps.
ModeAfter(frontier, n) ==
  CASE frontier = {} -> "done"
    [] frontier \cap InterruptNodes # {} -> "interrupted"
    [] frontier # {} /\ frontier \cap InterruptNodes = {} /\ n >= RecursionLimit -> "stopped"
    [] OTHER -> "running"

\* Node n runs in the current superstep and leaves the state s.  Its edges are
\* followed on that state; the nodes they lead to run in the next superstep.
Leave(n, s) ==
  /\ mode = "running" /\ n \in todo
  /\ state' = s
  /\ IF todo = {n}
     THEN /\ todo' = next \cup Successors(n, s)
          /\ next' = {}
          /\ steps' = steps + 1
          /\ mode' = ModeAfter(todo', steps')
     ELSE /\ todo' = todo \ {n}
          /\ next' = next \cup Successors(n, s)
          /\ UNCHANGED <<steps, mode>>
  /\ UNCHANGED recoveries

\* A node body raises or the process dies: nothing of the node is checkpointed.
Stop == mode = "running" /\ mode' = "stopped" /\ UNCHANGED <<todo, next, steps, state, recoveries>>

--------------------------------------------------------------------------------
(* The nodes, in pipeline order.  Their bodies are outside the repository.   *)
(* The nodes upstream of a router that reads `errors' (extraction, the two   *)
(* topology builders, terraform_apply, collect_outputs) record a failure     *)
(* there; in any other node a failure is an exception (Crash).               *)

ExtractionNodes ==
  {"preprocess_image", "detect_components", "extract_text", "detect_connections",
   "spatial_association", "prompt_llm"}

Terminals == {"complete", "rejected", "failed"}

DetectInputMode == Leave("detect_input_mode", state) /\ UNCHANGED history

Extract(n) ==
  /\ \E failure \in BOOLEAN : Leave(n, [state EXCEPT !.errors = @ \/ failure])
  /\ UNCHANGED history

BuildTopology(n) ==
  /\ \/ Leave(n, [state EXCEPT !.network_architecture =
                                  [run |-> state.workflow_id, missing |-> {}]])
     \/ Leave(n, [state EXCEPT !.errors = TRUE])
  /\ UNCHANGED history

\* The questions the policy asks: a required one about every REQUIRED gap, and possibly
\* others about what is not required.
AnalyzeCompleteness ==
  /\ \E questions \in [Questions -> QuestionKinds] :
       Leave("analyze_completeness",
             [state EXCEPT !.network_architecture.missing = RequiredOf(questions),
                           !.clarification_questions = questions])
  /\ UNCHANGED history

AwaitClarification == Leave("await_clarification", state) /\ UNCHANGED history

\* Slip: the answers are not applied.
EnrichWithoutAnswers == Leave("enrich_network", state) /\ UNCHANGED history

\* A value closes its gap.  A skipped gap may be dropped (accepted as
\* unresolved) or kept; an unanswered one is kept.
EnrichNetwork ==
  /\ \E dropped \in SUBSET {q \in Questions : state.clarification_answers[q] = "skipped"} :
       LET closed == {q \in Questions : state.clarification_answers[q] = "value"} \cup dropped
       IN Leave("enrich_network",
                [state EXCEPT !.network_architecture.missing = @ \ closed])
  /\ UNCHANGED history

ValidateNetwork ==
  /\ \E verdict \in {"ok", "errors"} :
       Leave("validate_network", [state EXCEPT !.network_validation = verdict])
  /\ UNCHANGED history

FinaliseNetwork == Leave("finalise_network_architecture", state) /\ UNCHANGED history

RagTranslate ==
  /\ \E infrastructure \in BOOLEAN, configuration \in Configurations :
       Leave("rag_translate",
             [state EXCEPT !.cloud_architecture =
                [run |-> state.network_architecture.run,
                 infrastructure |-> infrastructure, configuration |-> configuration]])
  /\ UNCHANGED history

ValidateCloud ==
  /\ \E verdict \in {"ok", "errors"} :
       Leave("validate_cloud_architecture", [state EXCEPT !.cloud_validation = verdict])
  /\ UNCHANGED history

\* Slip: a project that is already there is kept.
GenerateTerraformOnce ==
  /\ Leave("generate_terraform",
           IF state.terraform_project_uri # 0 THEN state
           ELSE [state EXCEPT !.terraform_project_uri = state.cloud_architecture.run,
                              !.terraform_fingerprint = state.cloud_architecture.configuration])
  /\ UNCHANGED history

GenerateTerraform ==
  /\ Leave("generate_terraform",
           [state EXCEPT !.terraform_project_uri = state.cloud_architecture.run,
                         !.terraform_fingerprint = state.cloud_architecture.configuration])
  /\ UNCHANGED history

ValidateTerraform ==
  /\ \E verdict \in {"ok", "errors"} :
       Leave("validate_terraform", [state EXCEPT !.terraform_validation = verdict])
  /\ UNCHANGED history

GenerateAnsible ==
  /\ Leave("generate_ansible",
           [state EXCEPT !.ansible_project_uri = state.cloud_architecture.run])
  /\ UNCHANGED history

ValidateAnsible ==
  /\ \E verdict \in {"ok", "errors"} :
       Leave("validate_ansible", [state EXCEPT !.ansible_validation = verdict])
  /\ UNCHANGED history

DeploymentReview == Leave("deployment_review", state) /\ UNCHANGED history

\* A new plan of the generated project: a fresh id, the project's fingerprint.
TerraformPlan ==
  /\ Leave("terraform_plan",
           [state EXCEPT !.deployment_plan =
              [id |-> @.id + 1, run |-> state.terraform_project_uri,
               fingerprint |-> state.terraform_fingerprint, changes |-> {}]])
  /\ UNCHANGED history

AwaitApproval == Leave("await_approval", state) /\ UNCHANGED history

\* Slip: the executor trusts the flag the router has already looked at.
MayApplyOnFlag(s) == AllowApply /\ s.deployment_approved = "True"

\* InfrastructureExecutor.apply refuses a record that does not authorise this
\* very plan, and everything when applying is disabled.
MayApply(s) == AllowApply /\ Authorises(s.approval, s.deployment_plan)

TouchAccount ==
  /\ deployed' = state.deployment_plan.id
  /\ applied' = applied \cup {state.deployment_plan.id}

\* An apply that starts touches the account, whether it succeeds or fails halfway.
TerraformApply ==
  /\ MayApply(state)
  /\ \E failure \in BOOLEAN :
       Leave("terraform_apply", [state EXCEPT !.errors = @ \/ failure])
  /\ TouchAccount
  /\ UNCHANGED <<consented, configured, ended>>

RefuseApply ==
  /\ ~MayApply(state)
  /\ Leave("terraform_apply", [state EXCEPT !.errors = TRUE])
  /\ UNCHANGED history

\* The process dies after apply changed the account and before the checkpoint.
CrashAfterApply ==
  /\ "terraform_apply" \in todo /\ MayApply(state) /\ Stop
  /\ TouchAccount
  /\ UNCHANGED <<consented, configured, ended>>

\* The outputs the account reports are those of the last apply, if any.
CollectOutputs ==
  /\ \/ Leave("collect_outputs", [state EXCEPT !.terraform_outputs = deployed])
     \/ Leave("collect_outputs", [state EXCEPT !.errors = TRUE])
  /\ UNCHANGED history

\* Slip: an inventory is written from whatever outputs there are.
GenerateInventoryAnyway ==
  /\ Leave("generate_inventory",
           [state EXCEPT !.ansible_inventory_uri = state.terraform_outputs])
  /\ UNCHANGED history

\* The inventory generator raises on empty outputs.
GenerateInventory ==
  /\ state.terraform_outputs # 0
  /\ Leave("generate_inventory",
           [state EXCEPT !.ansible_inventory_uri = state.terraform_outputs])
  /\ UNCHANGED history

RefuseInventory ==
  /\ "generate_inventory" \in todo /\ state.terraform_outputs = 0 /\ Stop
  /\ UNCHANGED history

RunConfiguration ==
  /\ Leave("run_configuration", state)
  /\ configured' = configured \cup
       {[plan |-> state.deployment_plan.id, inventory |-> state.ansible_inventory_uri,
         project |-> state.ansible_project_uri]}
  /\ UNCHANGED <<deployed, consented, applied, ended>>

Finish(n) ==
  /\ Leave(n, state)
  /\ ended' = ended \cup {n}
  /\ UNCHANGED <<deployed, consented, applied, configured>>

--------------------------------------------------------------------------------
(* The user and the process.                                                 *)

\* Resume the invocation paused before node n with the fields of s.
Resume(n, s) ==
  /\ mode = "interrupted" /\ n \in todo
  /\ state' = s
  /\ mode' = "running" /\ steps' = 0
  /\ UNCHANGED <<todo, next, recoveries>>

\* The user answers some questions of this analysis, with a value or by skipping.
\* Answers given before stay, unless the question is answered again.
Answer(kinds) ==
  /\ Resume("await_clarification",
            [state EXCEPT !.clarification_answers =
               [q \in Questions |-> IF q \in DOMAIN kinds THEN kinds[q] ELSE @[q]]])
  /\ UNCHANGED history

AnswerSome ==
  \E qs \in SUBSET {q \in Questions : state.clarification_questions[q] # "unasked"} :
    \E kinds \in [qs -> {"value", "skipped"}] : Answer(kinds)

\* Everything still missing is answered with a value.
AnswerAll == Answer([q \in state.network_architecture.missing |-> "value"])

\* Slip: the decision itself is stored where the flag belongs.
DecideWithRawFlag(decision) ==
  /\ Resume("await_approval",
            [state EXCEPT !.approval = RecordFor(state.deployment_plan, decision),
                          !.deployment_approved = decision])
  /\ consented' = IF decision = "approved"
                   THEN consented \cup {state.deployment_plan.id} ELSE consented
  /\ UNCHANGED <<deployed, applied, configured, ended>>

\* A reviewer decides about the plan of this workflow.
Decide(decision) ==
  /\ Resume("await_approval",
            [state EXCEPT !.approval = RecordFor(state.deployment_plan, decision),
                          !.deployment_approved =
                            IF decision = "approved" THEN "True" ELSE "False"])
  /\ consented' = IF decision = "approved"
                   THEN consented \cup {state.deployment_plan.id} ELSE consented
  /\ UNCHANGED <<deployed, applied, configured, ended>>

\* A resume that carries a flag and no record: empty, or malformed.
ResumeWithoutRecord(flag) ==
  /\ Resume("await_approval", [state EXCEPT !.deployment_approved = flag])
  /\ UNCHANGED history

\* A node body raises or the process dies with nothing done.
Crash == Stop /\ UNCHANGED history

\* The invocation is repeated from the checkpoint.
Recover ==
  /\ mode = "stopped" /\ recoveries < MaxRecoveries
  /\ mode' = "running" /\ steps' = 0 /\ recoveries' = recoveries + 1
  /\ UNCHANGED <<todo, next, state, history>>

\* A workflow is started on the thread while no invocation is running on it.
StartWorkflow ==
  /\ mode # "running" /\ state.workflow_id < MaxRuns
  /\ \E input \in InputModes : state' = Restarted(state, input)
  /\ todo' = {EntryPoint} /\ next' = {} /\ mode' = "running" /\ steps' = 0
  /\ ended' = {}
  /\ UNCHANGED <<recoveries, deployed, consented, applied, configured>>

RunNode ==
  \/ DetectInputMode
  \/ \E n \in ExtractionNodes : Extract(n)
  \/ \E n \in {"build_topology_from_image", "build_topology_from_prompt"} : BuildTopology(n)
  \/ AnalyzeCompleteness \/ AwaitClarification \/ EnrichNetwork \/ ValidateNetwork
  \/ FinaliseNetwork \/ RagTranslate \/ ValidateCloud
  \/ GenerateTerraform \/ ValidateTerraform \/ GenerateAnsible \/ ValidateAnsible
  \/ DeploymentReview \/ TerraformPlan \/ AwaitApproval
  \/ TerraformApply \/ RefuseApply \/ CollectOutputs
  \/ GenerateInventory \/ RefuseInventory \/ RunConfiguration
  \/ \E n \in Terminals : Finish(n)

User ==
  \/ AnswerSome \/ AnswerAll
  \/ \E decision \in Decisions : Decide(decision)
  \/ \E flag \in {"False", "True", "truthy"} : ResumeWithoutRecord(flag)

Next == RunNode \/ User \/ Crash \/ CrashAfterApply \/ Recover \/ StartWorkflow

Spec == Init /\ [][Next]_vars

\* The engine runs what is scheduled, a stopped invocation is repeated, and a user
\* who is asked again and again eventually answers everything and decides.
Fairness ==
  /\ WF_vars(RunNode) /\ WF_vars(Recover)
  /\ SF_vars(AnswerAll)
  /\ WF_vars(\E decision \in Decisions : Decide(decision))

FairSpec == Spec /\ Fairness

--------------------------------------------------------------------------------
(* Properties.                                                               *)

\* Every variable stays in its domain; the checkpoint is a NetworkWorkflowState.
TypeOK ==
  /\ todo \subseteq Nodes /\ next \subseteq Nodes
  /\ mode \in {"running", "interrupted", "stopped", "done"}
  /\ steps \in Nat /\ recoveries \in Nat
  /\ state \in States
  /\ deployed \in Nat /\ consented \subseteq Nat /\ applied \subseteq Nat /\ ended \subseteq Terminals
  /\ configured \subseteq [plan : Nat, inventory : Nat, project : Nat]

\* The account is touched only by plans a human approved, each one itself: no
\* record left in the checkpoint, no flag-only resume and no crash lets an apply run
\* (the gate of ApprovalRecord.authorises behind route_after_approval).
AppliedOnlyApproved == applied \subseteq consented

\* The only way into the RAG is a network architecture of this very workflow that was
\* validated without errors and has no REQUIRED gap left (route_after_network_validation),
\* also when an earlier workflow left its validation in the checkpoint.
TranslatedOnlyValidated ==
  "rag_translate" \in todo =>
    /\ state.network_validation = "ok"
    /\ state.network_architecture = [run |-> state.workflow_id, missing |-> {}]

\* The plan a reviewer is shown comes, through code and cloud architecture, from the
\* input of this workflow, never from what an earlier one left on the thread.
PlanProvenance ==
  "await_approval" \in todo =>
    /\ state.deployment_plan.run = state.workflow_id
    /\ state.deployment_plan.fingerprint = state.cloud_architecture.configuration
    /\ state.cloud_validation = "ok" /\ state.cloud_architecture.infrastructure

\* A plan with configuration to apply is produced only when both projects are of this
\* workflow and both validated without errors (route_after_generation).
ConfiguredPlanWasValidated ==
  "terraform_plan" \in todo /\ RouteConfigurationStage(state) = "ansible" =>
    /\ state.terraform_validation = "ok" /\ state.ansible_validation = "ok"
    /\ {state.terraform_project_uri, state.ansible_project_uri} = {state.workflow_id}

\* A workflow that ended complete, and not also failed, has applied the plan its
\* reviewer saw and, when there is configuration to apply, has configured the hosts of
\* that very apply.
CompletionIsHonest ==
  ended = {"complete"} =>
    /\ ~state.errors
    /\ state.deployment_plan.id \in applied
    /\ RouteConfigurationStage(state) = "ansible" =>
         \E c \in configured : /\ c.plan = state.deployment_plan.id
                               /\ c.inventory = c.plan
                               /\ c.project = state.workflow_id

\* Hosts are configured only at addresses that some applied plan produced: an
\* inventory is never built before an apply (TerraformOutputInventoryGenerator).
ConfiguredHostsExist == \A c \in configured : c.inventory \in applied

\* No invocation runs into the recursion limit: the only cycle of the graph goes
\* through an interrupt.
WithinRecursionLimit == steps < RecursionLimit

\* Whatever the user skips and however often the process dies, the workflow comes to
\* rest: finished, or stopped by an exception with nobody left to repeat it.
ComesToRest == <>[](mode \in {"done", "stopped"})

--------------------------------------------------------------------------------
(* Statements of the repository that the code does not keep.                 *)

\* routing.py: "Both validations must pass before a plan is produced."
PlanOnlyFromValidCode ==
  "terraform_plan" \in todo => state.terraform_validation = "ok"

\* routing.py: "Configure the hosts only if there is configuration to apply."
ConfigureOnlyWithConfiguration ==
  "run_configuration" \in todo => RouteConfigurationStage(state) = "ansible"
===============================================================================
