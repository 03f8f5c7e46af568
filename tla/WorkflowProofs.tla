------------------------------ MODULE WorkflowProofs ------------------------------
(***************************************************************************)
(* Proofs about Workflow: type correctness; that an apply is always covered *)
(* by a human's approval of that very plan; that nothing stale and nothing  *)
(* refused crosses a gate of the pipeline, however often the thread was     *)
(* used before; that a completed delivery has done what it says; that no    *)
(* invocation reaches the recursion limit; and that the workflow implements *)
(* DeliveryContract.                                                        *)
(***************************************************************************)
EXTENDS WorkflowRefinement, TLAPS

\* Every routing function returns a label of the branches it decides.
LEMMA RoutesAreLabels ==
  ASSUME NEW n \in DOMAIN Branches, NEW s
  PROVE  Route(n, s) \in DOMAIN Branches[n] /\ Branches[n][Route(n, s)] \in Nodes
<1>1. RouteAfterInputMode(s) \in {"image", "prompt", "fail"}
  BY DEF RouteAfterInputMode
<1>2. RouteAfterCompleteness(s) \in {"clarify", "enrich", "fail"}
  BY DEF RouteAfterCompleteness
<1>3. RouteAfterNetworkValidation(s) \in {"translate", "clarify", "invalid"}
  BY DEF RouteAfterNetworkValidation
<1>4. RouteAfterCloudValidation(s) \in {"generate", "invalid"}
  BY DEF RouteAfterCloudValidation
<1>5. RouteConfigurationStage(s) \in {"ansible", "skip"}
  BY DEF RouteConfigurationStage
<1>6. RouteAfterGeneration(s) \in {"review", "invalid"}
  BY DEF RouteAfterGeneration
<1>7. RouteAfterApproval(s) \in {"apply", "reject"}
  BY DEF RouteAfterApproval
<1>8. RouteAfterApply(s) \in {"configure", "complete", "fail"}
  BY DEF RouteAfterApply
<1>9. Route(n, s) \in DOMAIN Branches[n]
  BY <1>1, <1>2, <1>3, <1>4, <1>5, <1>6, <1>7, <1>8 DEF Route, Branches
<1> QED
  BY <1>9 DEF Branches, Nodes, Edges

\* The graph never leads out of itself: whatever node leaves whatever state, the
\* nodes scheduled next are nodes of the graph.
LEMMA SuccessorsAreNodes ==
  ASSUME NEW n \in Nodes, NEW s
  PROVE  Successors(n, s) \subseteq Nodes
<1>1. ASSUME n \in DOMAIN Edges PROVE Edges[n] \in Nodes \cup {"END"}
  BY <1>1 DEF Edges, Branches, Nodes
<1> QED
  BY <1>1, RoutesAreLabels DEF Successors

--------------------------------------------------------------------------------
(* Type correctness.                                                         *)

ControlOK ==
  /\ todo \subseteq Nodes /\ next \subseteq Nodes
  /\ mode \in {"running", "interrupted", "stopped", "done"}
  /\ steps \in Nat /\ recoveries \in Nat

HistoryOK ==
  /\ deployed \in Nat /\ consented \subseteq Nat /\ applied \subseteq Nat /\ ended \subseteq Terminals
  /\ configured \subseteq [plan : Nat, inventory : Nat, project : Nat]

LEMMA TypeParts == TypeOK <=> ControlOK /\ state \in States /\ HistoryOK
BY DEF TypeOK, ControlOK, HistoryOK

\* Leaving a node keeps the control variables typed, and the state is the one left.
LEMMA LeaveTypes ==
  ASSUME ControlOK, NEW n, n \in Nodes, NEW s \in States, Leave(n, s)
  PROVE  ControlOK' /\ state' \in States
<1>1. Successors(n, s) \subseteq Nodes
  BY SuccessorsAreNodes
<1>2. todo' \subseteq Nodes /\ next' \subseteq Nodes
  BY <1>1 DEF Leave, ControlOK
<1>3. ModeAfter(todo', steps') \in {"running", "interrupted", "stopped", "done"}
  BY DEF ModeAfter
<1>4. mode' \in {"running", "interrupted", "stopped", "done"}
  BY <1>3 DEF Leave, ControlOK
<1>5. steps' \in Nat /\ recoveries' \in Nat
  BY DEF Leave, ControlOK
<1> QED
  BY <1>2, <1>4, <1>5 DEF ControlOK, Leave

LEMMA ResumeTypes ==
  ASSUME ControlOK, NEW n, NEW s \in States, Resume(n, s)
  PROVE  ControlOK' /\ state' \in States
BY DEF Resume, ControlOK

LEMMA StopTypes ==
  ASSUME ControlOK, state \in States, Stop
  PROVE  ControlOK' /\ state' \in States
BY DEF Stop, ControlOK

LEMMA HistoryKept == HistoryOK /\ UNCHANGED history => HistoryOK'
BY DEF HistoryOK, history

LEMMA NodeNames ==
  {"detect_input_mode", "analyze_completeness", "await_clarification", "enrich_network",
   "validate_network", "finalise_network_architecture", "rag_translate",
   "validate_cloud_architecture", "generate_terraform", "validate_terraform",
   "generate_ansible", "validate_ansible", "deployment_review", "terraform_plan",
   "await_approval", "terraform_apply", "collect_outputs", "generate_inventory",
   "run_configuration", "build_topology_from_image", "build_topology_from_prompt"}
  \cup ExtractionNodes \cup Terminals \subseteq Nodes
BY DEF Nodes, Edges, Branches, ExtractionNodes, Terminals

\* The nodes that only write the state keep the types.
LEMMA DesignNodesTypes ==
  ASSUME ControlOK, state \in States,
         \/ DetectInputMode
         \/ \E n \in ExtractionNodes : Extract(n)
         \/ \E n \in {"build_topology_from_image", "build_topology_from_prompt"} : BuildTopology(n)
         \/ AnalyzeCompleteness \/ AwaitClarification \/ EnrichNetwork \/ ValidateNetwork
         \/ FinaliseNetwork \/ RagTranslate \/ ValidateCloud
  PROVE  ControlOK' /\ state' \in States /\ UNCHANGED history
<1>1. CASE DetectInputMode
  BY <1>1, LeaveTypes, NodeNames DEF DetectInputMode
<1>2. CASE \E n \in ExtractionNodes : Extract(n)
  <2>1. PICK n \in ExtractionNodes, failure \in BOOLEAN :
          Leave(n, [state EXCEPT !.errors = @ \/ failure]) /\ UNCHANGED history
    BY <1>2 DEF Extract
  <2>2. [state EXCEPT !.errors = @ \/ failure] \in States
    BY DEF States
  <2> QED
    BY <2>1, <2>2, LeaveTypes, NodeNames
<1>3. CASE \E n \in {"build_topology_from_image", "build_topology_from_prompt"} : BuildTopology(n)
  <2>1. /\ [state EXCEPT !.errors = TRUE] \in States
        /\ [state EXCEPT !.network_architecture =
              [run |-> state.workflow_id, missing |-> {}]] \in States
    BY DEF States
  <2> QED
    BY <1>3, <2>1, LeaveTypes, NodeNames DEF BuildTopology
<1>4. CASE AnalyzeCompleteness
  <2>1. PICK questions \in [Questions -> QuestionKinds] :
          Leave("analyze_completeness",
                [state EXCEPT !.network_architecture.missing = RequiredOf(questions),
                              !.clarification_questions = questions])
    BY <1>4 DEF AnalyzeCompleteness
  <2>2. [state EXCEPT !.network_architecture.missing = RequiredOf(questions),
                      !.clarification_questions = questions] \in States
    BY DEF States, RequiredOf
  <2> QED
    BY <1>4, <2>1, <2>2, LeaveTypes, NodeNames DEF AnalyzeCompleteness
<1>5. CASE AwaitClarification
  BY <1>5, LeaveTypes, NodeNames DEF AwaitClarification
<1>6. CASE EnrichNetwork
  <2>1. PICK closed : Leave("enrich_network",
                            [state EXCEPT !.network_architecture.missing = @ \ closed])
    BY <1>6 DEF EnrichNetwork
  <2>2. [state EXCEPT !.network_architecture.missing = @ \ closed] \in States
    BY DEF States
  <2> QED
    BY <1>6, <2>1, <2>2, LeaveTypes, NodeNames DEF EnrichNetwork
<1>7. CASE ValidateNetwork
  <2>1. \A v \in {"ok", "errors"} : [state EXCEPT !.network_validation = v] \in States
    BY DEF States, Verdicts
  <2> QED
    BY <1>7, <2>1, LeaveTypes, NodeNames DEF ValidateNetwork
<1>8. CASE FinaliseNetwork
  BY <1>8, LeaveTypes, NodeNames DEF FinaliseNetwork
<1>9. CASE RagTranslate
  <2>1. PICK i \in BOOLEAN, c \in Configurations :
          Leave("rag_translate",
                [state EXCEPT !.cloud_architecture =
                   [run |-> state.network_architecture.run,
                    infrastructure |-> i, configuration |-> c]])
    BY <1>9 DEF RagTranslate
  <2>2. [state EXCEPT !.cloud_architecture =
           [run |-> state.network_architecture.run,
            infrastructure |-> i, configuration |-> c]] \in States
    BY ConfigurationsAssumption DEF States, Sections
  <2> QED
    BY <1>9, <2>1, <2>2, LeaveTypes, NodeNames DEF RagTranslate
<1>10. CASE ValidateCloud
  <2>1. \A v \in {"ok", "errors"} : [state EXCEPT !.cloud_validation = v] \in States
    BY DEF States, Verdicts
  <2> QED
    BY <1>10, <2>1, LeaveTypes, NodeNames DEF ValidateCloud
<1> QED
  BY <1>1, <1>2, <1>3, <1>4, <1>5, <1>6, <1>7, <1>8, <1>9, <1>10

LEMMA ChecksumTypes ==
  ASSUME state \in States
  PROVE  /\ Checksum(state.deployment_plan) \in Checksums
         /\ \A d \in Decisions :
              RecordFor(state.deployment_plan, d) \in
                [plan_id : Nat, plan_checksum : Checksums, decision : Decisions \cup {"none"}]
BY DEF States, Plans, Checksums, Checksum, RecordFor

\* The nodes from generation to the end keep the types.
LEMMA DeliveryNodesTypes ==
  ASSUME ControlOK, state \in States, HistoryOK,
         \/ GenerateTerraform \/ ValidateTerraform \/ GenerateAnsible \/ ValidateAnsible
         \/ DeploymentReview \/ TerraformPlan \/ AwaitApproval
         \/ TerraformApply \/ RefuseApply \/ CollectOutputs
         \/ GenerateInventory \/ RefuseInventory \/ RunConfiguration
         \/ \E n \in Terminals : Finish(n)
  PROVE  ControlOK' /\ state' \in States /\ HistoryOK'
<1>1. CASE GenerateTerraform
  <2>1. [state EXCEPT !.terraform_project_uri = state.cloud_architecture.run,
                      !.terraform_fingerprint = state.cloud_architecture.configuration] \in States
    BY DEF States
  <2> QED
    BY <1>1, <2>1, LeaveTypes, NodeNames, HistoryKept DEF GenerateTerraform
<1>2. CASE ValidateTerraform
  <2>1. \A v \in {"ok", "errors"} : [state EXCEPT !.terraform_validation = v] \in States
    BY DEF States, Verdicts
  <2> QED
    BY <1>2, <2>1, LeaveTypes, NodeNames, HistoryKept DEF ValidateTerraform
<1>3. CASE GenerateAnsible
  <2>1. [state EXCEPT !.ansible_project_uri = state.cloud_architecture.run] \in States
    BY DEF States
  <2> QED
    BY <1>3, <2>1, LeaveTypes, NodeNames, HistoryKept DEF GenerateAnsible
<1>4. CASE ValidateAnsible
  <2>1. \A v \in {"ok", "errors"} : [state EXCEPT !.ansible_validation = v] \in States
    BY DEF States, Verdicts
  <2> QED
    BY <1>4, <2>1, LeaveTypes, NodeNames, HistoryKept DEF ValidateAnsible
<1>5. CASE DeploymentReview
  BY <1>5, LeaveTypes, NodeNames, HistoryKept DEF DeploymentReview
<1>6. CASE TerraformPlan
  <2>1. [state EXCEPT !.deployment_plan =
           [id |-> @.id + 1, run |-> state.terraform_project_uri,
            fingerprint |-> state.terraform_fingerprint, changes |-> {}]] \in States
    BY DEF States, Plans
  <2> QED
    BY <1>6, <2>1, LeaveTypes, NodeNames, HistoryKept DEF TerraformPlan
<1>7. CASE AwaitApproval
  BY <1>7, LeaveTypes, NodeNames, HistoryKept DEF AwaitApproval
<1>8. CASE TerraformApply
  <2>1. PICK failure \in BOOLEAN :
          Leave("terraform_apply", [state EXCEPT !.errors = @ \/ failure])
    BY <1>8 DEF TerraformApply
  <2>2. [state EXCEPT !.errors = @ \/ failure] \in States
    BY DEF States
  <2>3. HistoryOK'
    BY <1>8 DEF TerraformApply, TouchAccount, HistoryOK, States, Plans
  <2> QED
    BY <2>1, <2>2, <2>3, LeaveTypes, NodeNames
<1>9. CASE RefuseApply
  <2>1. [state EXCEPT !.errors = TRUE] \in States
    BY DEF States
  <2> QED
    BY <1>9, <2>1, LeaveTypes, NodeNames, HistoryKept DEF RefuseApply
<1>10. CASE CollectOutputs
  <2>1. /\ [state EXCEPT !.terraform_outputs = deployed] \in States
        /\ [state EXCEPT !.errors = TRUE] \in States
    BY DEF States, HistoryOK
  <2> QED
    BY <1>10, <2>1, LeaveTypes, NodeNames, HistoryKept DEF CollectOutputs
<1>11. CASE GenerateInventory
  <2>1. [state EXCEPT !.ansible_inventory_uri = state.terraform_outputs] \in States
    BY DEF States
  <2> QED
    BY <1>11, <2>1, LeaveTypes, NodeNames, HistoryKept DEF GenerateInventory
<1>12. CASE RefuseInventory
  BY <1>12, StopTypes, HistoryKept DEF RefuseInventory
<1>13. CASE RunConfiguration
  <2>1. HistoryOK'
    BY <1>13 DEF RunConfiguration, HistoryOK, States, Plans
  <2> QED
    BY <1>13, <2>1, LeaveTypes, NodeNames DEF RunConfiguration
<1>14. CASE \E n \in Terminals : Finish(n)
  <2>1. HistoryOK'
    BY <1>14 DEF Finish, HistoryOK
  <2> QED
    BY <1>14, <2>1, LeaveTypes, NodeNames DEF Finish
<1> QED
  BY <1>1, <1>2, <1>3, <1>4, <1>5, <1>6, <1>7, <1>8, <1>9, <1>10, <1>11, <1>12, <1>13, <1>14

\* What the user does keeps the types.
LEMMA UserTypes ==
  ASSUME ControlOK, state \in States, HistoryOK, User
  PROVE  ControlOK' /\ state' \in States /\ HistoryOK'
<1>1. ASSUME NEW qs \in SUBSET Questions, NEW kinds \in [qs -> {"value", "skipped"}], Answer(kinds)
      PROVE  ControlOK' /\ state' \in States /\ HistoryOK'
  <2> DEFINE answers == [q \in Questions |-> IF q \in DOMAIN kinds THEN kinds[q]
                                             ELSE state.clarification_answers[q]]
  <2>1. answers \in [Questions -> AnswerKinds]
    BY DEF States, AnswerKinds
  <2>2. [state EXCEPT !.clarification_answers = answers] \in States
    BY <2>1 DEF States
  <2>3. Resume("await_clarification", [state EXCEPT !.clarification_answers = answers])
        /\ UNCHANGED history
    BY <1>1 DEF Answer, States
  <2> QED
    BY <2>2, <2>3, ResumeTypes, HistoryKept
<1>2. CASE AnswerSome
  BY <1>1, <1>2 DEF AnswerSome, States
<1>3. CASE AnswerAll
  <2>1. /\ state.network_architecture.missing \in SUBSET Questions
        /\ [q \in state.network_architecture.missing |-> "value"] \in
             [state.network_architecture.missing -> {"value", "skipped"}]
    BY DEF States
  <2> QED
    BY <1>1, <1>3, <2>1 DEF AnswerAll
<1>4. CASE \E decision \in Decisions : Decide(decision)
  <2>1. PICK decision \in Decisions : Decide(decision)
    BY <1>4
  <2> DEFINE flag == IF decision = "approved" THEN "True" ELSE "False"
             record == RecordFor(state.deployment_plan, decision)
  <2>2. [state EXCEPT !.approval = record, !.deployment_approved = flag] \in States
    BY ChecksumTypes DEF States
  <2>3. HistoryOK'
    BY <2>1 DEF Decide, HistoryOK, States, Plans
  <2> QED
    BY <2>1, <2>2, <2>3, ResumeTypes DEF Decide
<1>5. CASE \E flag \in {"False", "True", "truthy"} : ResumeWithoutRecord(flag)
  <2>1. \A f \in {"False", "True", "truthy"} :
          [state EXCEPT !.deployment_approved = f] \in States
    BY DEF States
  <2> QED
    BY <1>5, <2>1, ResumeTypes, HistoryKept DEF ResumeWithoutRecord
<1> QED
  BY <1>2, <1>3, <1>4, <1>5 DEF User

LEMMA InitTypes == Init => TypeOK
<1> SUFFICES ASSUME Init PROVE TypeOK
  OBVIOUS
<1>1. PICK input \in InputModes : state = Fresh(input)
  BY DEF Init
<1>2. Checksum(NoPlan) \in Checksums
  BY DEF Checksum, Checksums, NoPlan, Sections
<1>3. NoApproval \in [plan_id : Nat, plan_checksum : Checksums, decision : Decisions \cup {"none"}]
  BY <1>2 DEF NoApproval
<1>4. NoPlan \in Plans /\ NoCloud \in [run : Nat, infrastructure : BOOLEAN, configuration : Sections]
  BY DEF NoPlan, Plans, NoCloud, Sections
<1>5. /\ [q \in Questions |-> "unasked"] \in [Questions -> QuestionKinds]
      /\ [q \in Questions |-> "unanswered"] \in [Questions -> AnswerKinds]
  BY DEF QuestionKinds, AnswerKinds
<1>6. Fresh(input) \in States
  BY <1>3, <1>4, <1>5 DEF Fresh, States, Verdicts, Sections
<1> QED
  BY <1>1, <1>6 DEF Init, TypeOK, EntryPoint, Nodes, Branches

LEMMA NextTypes == TypeOK /\ [Next]_vars => TypeOK'
<1> SUFFICES ASSUME ControlOK, state \in States, HistoryOK, [Next]_vars
             PROVE  ControlOK' /\ state' \in States /\ HistoryOK'
  BY TypeParts DEF TypeOK, ControlOK, HistoryOK
<1>1. CASE RunNode
  BY <1>1, DesignNodesTypes, DeliveryNodesTypes, HistoryKept DEF RunNode
<1>2. CASE User
  BY <1>2, UserTypes
<1>3. CASE Crash
  BY <1>3, StopTypes, HistoryKept DEF Crash
<1>4. CASE CrashAfterApply
  <2>1. HistoryOK'
    BY <1>4 DEF CrashAfterApply, TouchAccount, HistoryOK, States, Plans
  <2> QED
    BY <1>4, <2>1, StopTypes DEF CrashAfterApply
<1>5. CASE Recover
  BY <1>5, HistoryKept DEF Recover, ControlOK
<1>6. CASE StartWorkflow
  <2>1. ASSUME NEW input \in InputModes PROVE Restarted(state, input) \in States
    <3>1. [state EXCEPT !.workflow_id = @ + 1] \in States
      BY DEF States
    <3>2. \A s \in States : [s EXCEPT !.input_mode = input] \in States
      BY DEF States
    <3>3. \A s \in States : [s EXCEPT !.errors = FALSE] \in States
      BY DEF States
    <3>4. \A s \in States : [s EXCEPT !.deployment_approved = "False"] \in States
      BY DEF States
    <3> QED
      BY <3>1, <3>2, <3>3, <3>4 DEF Restarted
  <2>2. HistoryOK'
    BY <1>6 DEF StartWorkflow, HistoryOK
  <2> QED
    BY <1>6, <2>1, <2>2 DEF StartWorkflow, ControlOK, EntryPoint, Nodes, Branches
<1>7. CASE UNCHANGED vars
  BY <1>7 DEF vars, control, history, ControlOK, HistoryOK
<1> QED
  BY <1>1, <1>2, <1>3, <1>4, <1>5, <1>6, <1>7 DEF Next

\* Every variable of the workflow stays in its domain.
THEOREM TypeCorrect == Spec => []TypeOK
BY InitTypes, NextTypes, PTL DEF Spec

--------------------------------------------------------------------------------
(* Every apply is covered by an approval of that plan.                       *)

\* The inductive strengthening: an approval record in the checkpoint, however old,
\* names a plan that a human did approve.  Without it nothing ties the record that
\* TerraformApply finds in the state to a decision.
RecordIsConsent == state.approval.decision = "approved" => state.approval.plan_id \in consented

ConsentInv == RecordIsConsent /\ AppliedOnlyApproved

ApprovalKept == state'.approval = state.approval /\ consented' = consented

NumbersKept ==
  state'.workflow_id = state.workflow_id /\ state'.deployment_plan = state.deployment_plan

\* Only a decision writes the approval record, and only an apply that passes the
\* executor's gate extends the set of applied plans.
LEMMA DesignNodesKeepApproval ==
  ASSUME state \in States,
         \/ DetectInputMode
         \/ \E n \in ExtractionNodes : Extract(n)
         \/ \E n \in {"build_topology_from_image", "build_topology_from_prompt"} : BuildTopology(n)
         \/ AnalyzeCompleteness \/ AwaitClarification \/ EnrichNetwork \/ ValidateNetwork
         \/ FinaliseNetwork \/ RagTranslate \/ ValidateCloud
  PROVE  ApprovalKept /\ NumbersKept /\ applied' = applied
<1> USE DEF ApprovalKept, NumbersKept, Leave, history, States
<1>1. CASE DetectInputMode
  BY <1>1 DEF DetectInputMode
<1>2. CASE \E n \in ExtractionNodes : Extract(n)
  BY <1>2 DEF Extract
<1>3. CASE \E n \in {"build_topology_from_image", "build_topology_from_prompt"} : BuildTopology(n)
  BY <1>3 DEF BuildTopology
<1>4. CASE AnalyzeCompleteness
  BY <1>4 DEF AnalyzeCompleteness
<1>5. CASE AwaitClarification
  BY <1>5 DEF AwaitClarification
<1>6. CASE EnrichNetwork
  BY <1>6 DEF EnrichNetwork
<1>7. CASE ValidateNetwork
  BY <1>7 DEF ValidateNetwork
<1>8. CASE FinaliseNetwork
  BY <1>8 DEF FinaliseNetwork
<1>9. CASE RagTranslate
  BY <1>9 DEF RagTranslate
<1>10. CASE ValidateCloud
  BY <1>10 DEF ValidateCloud
<1> QED
  BY <1>1, <1>2, <1>3, <1>4, <1>5, <1>6, <1>7, <1>8, <1>9, <1>10

LEMMA DeliveryNodesKeepApproval ==
  ASSUME state \in States,
         \/ GenerateTerraform \/ ValidateTerraform \/ GenerateAnsible \/ ValidateAnsible
         \/ DeploymentReview \/ TerraformPlan \/ AwaitApproval
         \/ RefuseApply \/ CollectOutputs
         \/ GenerateInventory \/ RefuseInventory \/ RunConfiguration
         \/ \E n \in Terminals : Finish(n)
  PROVE  ApprovalKept /\ (NumbersKept \/ TerraformPlan) /\ applied' = applied
<1> USE DEF ApprovalKept, NumbersKept, Leave, Stop, history, States
<1>1. CASE GenerateTerraform
  BY <1>1 DEF GenerateTerraform
<1>2. CASE ValidateTerraform
  BY <1>2 DEF ValidateTerraform
<1>3. CASE GenerateAnsible
  BY <1>3 DEF GenerateAnsible
<1>4. CASE ValidateAnsible
  BY <1>4 DEF ValidateAnsible
<1>5. CASE DeploymentReview
  BY <1>5 DEF DeploymentReview
<1>6. CASE TerraformPlan
  BY <1>6 DEF TerraformPlan
<1>7. CASE AwaitApproval
  BY <1>7 DEF AwaitApproval
<1>8. CASE RefuseApply
  BY <1>8 DEF RefuseApply
<1>9. CASE CollectOutputs
  BY <1>9 DEF CollectOutputs
<1>10. CASE GenerateInventory
  BY <1>10 DEF GenerateInventory
<1>11. CASE RefuseInventory
  BY <1>11 DEF RefuseInventory
<1>12. CASE RunConfiguration
  BY <1>12 DEF RunConfiguration
<1>13. CASE \E n \in Terminals : Finish(n)
  BY <1>13 DEF Finish
<1> QED
  BY <1>1, <1>2, <1>3, <1>4, <1>5, <1>6, <1>7, <1>8, <1>9, <1>10, <1>11, <1>12, <1>13

\* The gate: an apply that passes it is of a plan the record names.
LEMMA GateNeedsConsent ==
  ASSUME ConsentInv, MayApply(state)
  PROVE  applied \cup {state.deployment_plan.id} \subseteq consented
BY DEF ConsentInv, RecordIsConsent, AppliedOnlyApproved, MayApply, Authorises, IsApproved

LEMMA KeptConsent == ConsentInv /\ ApprovalKept /\ applied' = applied => ConsentInv'
BY DEF ConsentInv, RecordIsConsent, AppliedOnlyApproved, ApprovalKept

LEMMA NextConsent == TypeOK /\ ConsentInv /\ [Next]_vars => ConsentInv'
<1> SUFFICES ASSUME state \in States, ConsentInv, [Next]_vars PROVE ConsentInv'
  BY DEF TypeOK
<1>1. CASE TerraformApply
  <2>1. ApprovalKept
    BY <1>1 DEF TerraformApply, ApprovalKept, Leave, States
  <2> QED
    BY <1>1, <2>1, GateNeedsConsent
       DEF TerraformApply, TouchAccount, ApprovalKept, ConsentInv, RecordIsConsent, AppliedOnlyApproved
<1>2. CASE RunNode /\ ~TerraformApply
  BY <1>2, DesignNodesKeepApproval, DeliveryNodesKeepApproval, KeptConsent DEF RunNode
<1>3. CASE AnswerSome \/ AnswerAll
  BY <1>3, KeptConsent DEF AnswerSome, AnswerAll, Answer, Resume, ApprovalKept, history, States
<1>4. CASE \E decision \in Decisions : Decide(decision)
  <2>1. PICK decision \in Decisions : Decide(decision)
    BY <1>4
  <2>2. state'.approval = RecordFor(state.deployment_plan, decision)
    BY <2>1 DEF Decide, Resume, States
  <2> QED
    BY <2>1, <2>2 DEF Decide, RecordFor, ConsentInv, RecordIsConsent, AppliedOnlyApproved
<1>5. CASE \E flag \in {"False", "True", "truthy"} : ResumeWithoutRecord(flag)
  BY <1>5, KeptConsent DEF ResumeWithoutRecord, Resume, ApprovalKept, history, States
<1>6. CASE Crash
  BY <1>6, KeptConsent DEF Crash, Stop, ApprovalKept, history
<1>7. CASE CrashAfterApply
  BY <1>7, GateNeedsConsent
     DEF CrashAfterApply, TouchAccount, Stop, ConsentInv, RecordIsConsent, AppliedOnlyApproved
<1>8. CASE Recover
  BY <1>8, KeptConsent DEF Recover, ApprovalKept, history
<1>9. CASE StartWorkflow
  <2>1. \A input \in InputModes : Restarted(state, input).approval = state.approval
    BY DEF Restarted, States
  <2> QED
    BY <1>9, <2>1, KeptConsent DEF StartWorkflow, ApprovalKept
<1>10. CASE UNCHANGED vars
  BY <1>10, KeptConsent DEF vars, history, ApprovalKept
<1> QED
  BY <1>1, <1>2, <1>3, <1>4, <1>5, <1>6, <1>7, <1>8, <1>9, <1>10 DEF Next, User

LEMMA InitConsent == Init => ConsentInv
BY DEF Init, Fresh, NoApproval, ConsentInv, RecordIsConsent, AppliedOnlyApproved

LEMMA ConsentAlways == Spec => []ConsentInv
BY InitConsent, NextConsent, TypeCorrect, PTL DEF Spec

\* The account is touched only by plans a human approved: for every set of questions,
\* any number of workflows on the thread, crashes, and malformed resumes.
THEOREM ApplyNeedsApproval == Spec => []AppliedOnlyApproved
<1>1. ConsentInv => AppliedOnlyApproved
  BY DEF ConsentInv
<1> QED
  BY <1>1, ConsentAlways, PTL

-----------------------------------------------------------------------------
\* The nodes that may run side by side, after the two edges of collect_outputs.
Tail == {"generate_inventory", "run_configuration", "complete", "failed"}

\* Before the tail there is one node at a time.
Straight ==
  \/ todo \cup next \subseteq Tail
  \/ next = {} /\ \E n \in Nodes : todo = {n}

OwnNetwork(s) == s.network_architecture.run = s.workflow_id

Admitted(s) == s.network_validation = "ok" /\ s.network_architecture.missing = {}

OwnCloud(s) == s.cloud_architecture.run = s.workflow_id

Deployable(s) == s.cloud_validation = "ok" /\ s.cloud_architecture.infrastructure

OwnTerraform(s) ==
  /\ s.terraform_project_uri = s.workflow_id
  /\ s.terraform_fingerprint = s.cloud_architecture.configuration

BothValid(s) ==
  RouteConfigurationStage(s) = "ansible" =>
    /\ s.terraform_validation = "ok" /\ s.ansible_validation = "ok"
    /\ s.ansible_project_uri = s.workflow_id

OwnPlan(s) ==
  /\ s.deployment_plan.run = s.workflow_id
  /\ s.deployment_plan.fingerprint = s.cloud_architecture.configuration

AfterAnalysis ==
  {"await_clarification", "enrich_network", "validate_network",
   "finalise_network_architecture", "rag_translate"}
AfterTerraform ==
  {"validate_terraform", "generate_ansible", "validate_ansible", "deployment_review",
   "terraform_plan", "await_approval"}
Generation == {"generate_terraform"} \cup AfterTerraform

\* What the state has to satisfy when node n is about to run on it.
Ready(n, s) ==
  /\ n = "analyze_completeness" => s.errors \/ OwnNetwork(s)
  /\ n \in AfterAnalysis => OwnNetwork(s)
  /\ n \in {"finalise_network_architecture", "rag_translate"} => Admitted(s)
  /\ n \in {"validate_cloud_architecture"} \cup Generation => OwnCloud(s)
  /\ n \in Generation => Deployable(s)
  /\ n \in AfterTerraform => OwnTerraform(s)
  /\ n \in {"generate_ansible", "validate_ansible"} => s.terraform_validation # "absent"
  /\ n = "validate_ansible" => s.ansible_project_uri = s.workflow_id
  /\ n \in {"deployment_review", "terraform_plan"} => BothValid(s)
  /\ n = "await_approval" => OwnPlan(s)

\* The inductive invariant: a gate speaks of the node about to run, and what it demands
\* was established by nodes that ran before, one after the other.
PipelineInv == Straight /\ \A n \in todo : Ready(n, state)

\* The nodes that demand nothing.
Free ==
  {"detect_input_mode", "build_topology_from_image", "build_topology_from_prompt",
   "terraform_apply", "collect_outputs", "rejected"} \cup ExtractionNodes \cup Tail

LEMMA FreeIsReady == ASSUME NEW n \in Free, NEW s PROVE Ready(n, s)
BY DEF Free, Ready, AfterAnalysis, Generation, AfterTerraform, ExtractionNodes, Tail

--------------------------------------------------------------------------------
(* Where the nodes lead.                                                     *)

LEMMA DesignSuccessors ==
  ASSUME NEW s
  PROVE  /\ \A n \in {"detect_input_mode"} \cup ExtractionNodes : Successors(n, s) \subseteq Free
         /\ \A n \in {"build_topology_from_image", "build_topology_from_prompt"} :
              Successors(n, s) = {"analyze_completeness"}
         /\ Successors("analyze_completeness", s) =
              {IF s.errors THEN "failed"
               ELSE IF Outstanding(s) # {} THEN "await_clarification" ELSE "enrich_network"}
         /\ Successors("await_clarification", s) = {"enrich_network"}
         /\ Successors("enrich_network", s) = {"validate_network"}
         /\ Successors("validate_network", s) =
              {IF s.network_validation = "errors" THEN "failed"
               ELSE IF s.network_architecture.missing # {} THEN "await_clarification"
               ELSE "finalise_network_architecture"}
         /\ Successors("finalise_network_architecture", s) = {"rag_translate"}
         /\ Successors("rag_translate", s) = {"validate_cloud_architecture"}
<1> USE DEF Successors, Edges, Branches, Route
<1>1. \A n \in {"detect_input_mode"} \cup ExtractionNodes : Successors(n, s) \subseteq Free
  BY DEF ExtractionNodes, RouteAfterInputMode, Free, Tail
<1>2. \A n \in {"build_topology_from_image", "build_topology_from_prompt"} :
         Successors(n, s) = {"analyze_completeness"}
  OBVIOUS
<1>3. Successors("analyze_completeness", s) =
        {IF s.errors THEN "failed"
         ELSE IF Outstanding(s) # {} THEN "await_clarification" ELSE "enrich_network"}
  BY DEF RouteAfterCompleteness
<1>4. /\ Successors("await_clarification", s) = {"enrich_network"}
      /\ Successors("enrich_network", s) = {"validate_network"}
  OBVIOUS
<1>5. Successors("validate_network", s) =
        {IF s.network_validation = "errors" THEN "failed"
         ELSE IF s.network_architecture.missing # {} THEN "await_clarification"
         ELSE "finalise_network_architecture"}
  BY DEF RouteAfterNetworkValidation
<1>6. /\ Successors("finalise_network_architecture", s) = {"rag_translate"}
      /\ Successors("rag_translate", s) = {"validate_cloud_architecture"}
  OBVIOUS
<1> QED
  BY <1>1, <1>2, <1>3, <1>4, <1>5, <1>6

LEMMA DeliverySuccessors ==
  ASSUME NEW s
  PROVE  /\ Successors("validate_cloud_architecture", s) =
              {IF s.cloud_validation # "errors" /\ s.cloud_architecture.infrastructure
               THEN "generate_terraform" ELSE "failed"}
         /\ Successors("generate_terraform", s) = {"validate_terraform"}
         /\ Successors("validate_terraform", s) =
              {IF RouteConfigurationStage(s) = "ansible"
               THEN "generate_ansible" ELSE "deployment_review"}
         /\ Successors("generate_ansible", s) = {"validate_ansible"}
         /\ Successors("validate_ansible", s) =
              {IF RouteAfterGeneration(s) = "review" THEN "deployment_review" ELSE "failed"}
         /\ Successors("deployment_review", s) = {"terraform_plan"}
         /\ Successors("terraform_plan", s) = {"await_approval"}
         /\ \E m \in {"terraform_apply", "rejected"} : Successors("await_approval", s) = {m}
         /\ Successors("terraform_apply", s) = {"collect_outputs"}
         /\ \A n \in {"collect_outputs"} \cup Tail : Successors(n, s) \subseteq Tail
         /\ Successors("rejected", s) = {}
<1> USE DEF Successors, Edges, Branches, Route
<1>1. Successors("validate_cloud_architecture", s) =
        {IF s.cloud_validation # "errors" /\ s.cloud_architecture.infrastructure
         THEN "generate_terraform" ELSE "failed"}
  BY DEF RouteAfterCloudValidation
<1>2. Successors("validate_terraform", s) =
        {IF RouteConfigurationStage(s) = "ansible"
         THEN "generate_ansible" ELSE "deployment_review"}
  BY DEF RouteConfigurationStage
<1>3. Successors("validate_ansible", s) =
        {IF RouteAfterGeneration(s) = "review" THEN "deployment_review" ELSE "failed"}
  BY DEF RouteAfterGeneration
<1>4. \E m \in {"terraform_apply", "rejected"} : Successors("await_approval", s) = {m}
  BY DEF RouteAfterApproval
<1>5. \A n \in {"collect_outputs"} \cup Tail : Successors(n, s) \subseteq Tail
  BY DEF RouteAfterApply, RouteConfigurationStage, Tail
<1>6. /\ Successors("generate_terraform", s) = {"validate_terraform"}
      /\ Successors("generate_ansible", s) = {"validate_ansible"}
      /\ Successors("deployment_review", s) = {"terraform_plan"}
      /\ Successors("terraform_plan", s) = {"await_approval"}
      /\ Successors("terraform_apply", s) = {"collect_outputs"}
      /\ Successors("rejected", s) = {}
  OBVIOUS
<1> QED
  BY <1>1, <1>2, <1>3, <1>4, <1>5, <1>6

\* Only collect_outputs leads to two nodes at once, and from the tail there is no way back.
LEMMA SuccessorShape ==
  ASSUME NEW n \in Nodes, NEW s
  PROVE  \/ Successors(n, s) \subseteq Tail
         \/ n \notin Tail /\ \E m \in Nodes : Successors(n, s) = {m}
<1>1. CASE n \in {"collect_outputs"} \cup Tail
  BY <1>1, DeliverySuccessors
<1>2. CASE n \notin {"collect_outputs"} \cup Tail
  <2>1. ~(n \in DOMAIN Edges /\ n \in DOMAIN Branches)
    BY <1>2 DEF Edges, Branches
  <2>2. Successors(n, s) = {} \/ \E m : Successors(n, s) = {m}
    BY <2>1 DEF Successors, Nodes
  <2> QED
    BY <1>2, <2>2, SuccessorsAreNodes
<1> QED
  BY <1>1, <1>2

--------------------------------------------------------------------------------
(* One step of the engine, the user and the process.                         *)

\* A node that leaves a state its successors are ready for keeps the invariant.
LEMMA LeaveKeepsPipeline ==
  ASSUME PipelineInv, NEW n \in Nodes, NEW s, Leave(n, s),
         n \notin Tail => \A m \in Successors(n, s) : Ready(m, s)
  PROVE  PipelineInv'
<1>1. state' = s /\ n \in todo
  BY DEF Leave
<1>2. CASE n \in Tail
  <2>1. todo \cup next \subseteq Tail
    BY <1>1, <1>2 DEF PipelineInv, Straight
  <2>2. Successors(n, s) \subseteq Tail
    BY <1>2, DeliverySuccessors
  <2>3. todo' \cup next' \subseteq Tail
    BY <2>1, <2>2 DEF Leave
  <2>4. \A m \in todo' : Ready(m, state')
    BY <2>3, FreeIsReady DEF Free
  <2> QED
    BY <2>3, <2>4 DEF PipelineInv, Straight
<1>3. CASE n \notin Tail
  <2>1. todo = {n} /\ next = {}
    BY <1>1, <1>3 DEF PipelineInv, Straight
  <2>2. todo' = Successors(n, s) /\ next' = {}
    BY <2>1 DEF Leave
  <2>3. Straight'
    BY <2>2, SuccessorShape DEF Straight
  <2> QED
    BY <1>1, <1>3, <2>2, <2>3 DEF PipelineInv
<1> QED
  BY <1>2, <1>3

\* Nodes whose successors demand nothing.
LEMMA LeaveToFree ==
  ASSUME PipelineInv, NEW n \in Nodes, NEW s, Leave(n, s), Successors(n, s) \subseteq Free
  PROVE  PipelineInv'
BY LeaveKeepsPipeline, FreeIsReady

LEMMA DesignNodesKeepPipeline ==
  ASSUME TypeOK, PipelineInv,
         \/ DetectInputMode
         \/ \E n \in ExtractionNodes : Extract(n)
         \/ \E n \in {"build_topology_from_image", "build_topology_from_prompt"} : BuildTopology(n)
         \/ AnalyzeCompleteness \/ AwaitClarification \/ EnrichNetwork \/ ValidateNetwork
         \/ FinaliseNetwork \/ RagTranslate \/ ValidateCloud
  PROVE  PipelineInv'
<1> USE DEF Ready, AfterAnalysis, Generation, AfterTerraform
<1>0. state \in States /\ \A n \in todo : Ready(n, state)
  BY DEF TypeOK, PipelineInv
<1>1. CASE DetectInputMode
  BY <1>1, DesignSuccessors, LeaveToFree, NodeNames DEF DetectInputMode
<1>2. CASE \E n \in ExtractionNodes : Extract(n)
  BY <1>2, DesignSuccessors, LeaveToFree, NodeNames DEF Extract
<1>3. CASE \E n \in {"build_topology_from_image", "build_topology_from_prompt"} : BuildTopology(n)
  <2>1. PICK n \in {"build_topology_from_image", "build_topology_from_prompt"} : BuildTopology(n)
    BY <1>3
  <2>2. PICK s : Leave(n, s) /\ (s.errors \/ OwnNetwork(s))
    BY <1>0, <2>1 DEF BuildTopology, OwnNetwork, States
  <2>3. \A m \in Successors(n, s) : Ready(m, s)
    BY <2>2, DesignSuccessors
  <2> QED
    BY <2>1, <2>2, <2>3, LeaveKeepsPipeline, NodeNames
<1>4. CASE AnalyzeCompleteness
  <2>1. PICK questions \in [Questions -> QuestionKinds] :
          Leave("analyze_completeness",
                [state EXCEPT !.network_architecture.missing = RequiredOf(questions),
                              !.clarification_questions = questions])
    BY <1>4 DEF AnalyzeCompleteness
  <2> DEFINE s == [state EXCEPT !.network_architecture.missing = RequiredOf(questions),
                                !.clarification_questions = questions]
  <2>2. s.errors \/ OwnNetwork(s)
    BY <1>0, <2>1 DEF Leave, OwnNetwork, States
  <2> HIDE DEF s
  <2>3. \A m \in Successors("analyze_completeness", s) : Ready(m, s)
    BY <2>2, DesignSuccessors
  <2> QED
    BY <2>1, <2>3, LeaveKeepsPipeline, NodeNames DEF s
<1>5. CASE AwaitClarification
  <2>1. Leave("await_clarification", state) /\ OwnNetwork(state)
    BY <1>0, <1>5 DEF AwaitClarification, Leave
  <2>2. \A m \in Successors("await_clarification", state) : Ready(m, state)
    BY <2>1, DesignSuccessors
  <2> QED
    BY <2>1, <2>2, LeaveKeepsPipeline, NodeNames
<1>6. CASE EnrichNetwork
  <2>1. PICK s : Leave("enrich_network", s) /\ OwnNetwork(s)
    BY <1>0, <1>6 DEF EnrichNetwork, Leave, OwnNetwork, States
  <2>2. \A m \in Successors("enrich_network", s) : Ready(m, s)
    BY <2>1, DesignSuccessors
  <2> QED
    BY <2>1, <2>2, LeaveKeepsPipeline, NodeNames
<1>7. CASE ValidateNetwork
  <2>1. PICK s : /\ Leave("validate_network", s) /\ OwnNetwork(s)
                 /\ s.network_validation \in {"ok", "errors"}
    BY <1>0, <1>7 DEF ValidateNetwork, Leave, OwnNetwork, States
  <2>2. \A m \in Successors("validate_network", s) : Ready(m, s)
    BY <2>1, DesignSuccessors DEF Admitted
  <2> QED
    BY <2>1, <2>2, LeaveKeepsPipeline, NodeNames
<1>8. CASE FinaliseNetwork
  <2>1. Leave("finalise_network_architecture", state) /\ OwnNetwork(state) /\ Admitted(state)
    BY <1>0, <1>8 DEF FinaliseNetwork, Leave
  <2>2. \A m \in Successors("finalise_network_architecture", state) : Ready(m, state)
    BY <2>1, DesignSuccessors
  <2> QED
    BY <2>1, <2>2, LeaveKeepsPipeline, NodeNames
<1>9. CASE RagTranslate
  <2>1. PICK s : Leave("rag_translate", s) /\ OwnCloud(s)
    BY <1>0, <1>9 DEF RagTranslate, Leave, OwnNetwork, OwnCloud, States
  <2>2. \A m \in Successors("rag_translate", s) : Ready(m, s)
    BY <2>1, DesignSuccessors
  <2> QED
    BY <2>1, <2>2, LeaveKeepsPipeline, NodeNames
<1>10. CASE ValidateCloud
  <2>1. PICK s : /\ Leave("validate_cloud_architecture", s) /\ OwnCloud(s)
                 /\ s.cloud_validation \in {"ok", "errors"}
    BY <1>0, <1>10 DEF ValidateCloud, Leave, OwnCloud, States
  <2>2. \A m \in Successors("validate_cloud_architecture", s) : Ready(m, s)
    BY <2>1, DeliverySuccessors DEF Deployable
  <2> QED
    BY <2>1, <2>2, LeaveKeepsPipeline, NodeNames
<1> QED
  BY <1>1, <1>2, <1>3, <1>4, <1>5, <1>6, <1>7, <1>8, <1>9, <1>10

LEMMA DeliveryNodesKeepPipeline ==
  ASSUME TypeOK, PipelineInv,
         \/ GenerateTerraform \/ ValidateTerraform \/ GenerateAnsible \/ ValidateAnsible
         \/ DeploymentReview \/ TerraformPlan \/ AwaitApproval
         \/ TerraformApply \/ RefuseApply \/ CollectOutputs
         \/ GenerateInventory \/ RefuseInventory \/ RunConfiguration
         \/ \E n \in Terminals : Finish(n)
  PROVE  PipelineInv'
<1> USE DEF Ready, AfterAnalysis, Generation, AfterTerraform
<1> DEFINE Gated(s) == OwnCloud(s) /\ Deployable(s)
           Coded(s) == Gated(s) /\ OwnTerraform(s)
<1>0. state \in States /\ \A n \in todo : Ready(n, state)
  BY DEF TypeOK, PipelineInv
<1>1. CASE GenerateTerraform
  <2> DEFINE s == [state EXCEPT
                     !.terraform_project_uri = state.cloud_architecture.run,
                     !.terraform_fingerprint = state.cloud_architecture.configuration]
  <2>1. Leave("generate_terraform", s)
    BY <1>1 DEF GenerateTerraform
  <2>2. OwnCloud(state) /\ Deployable(state)
    BY <1>0, <2>1 DEF Leave
  <2>3. Coded(s)
    BY <1>0, <2>2 DEF OwnCloud, Deployable, OwnTerraform, States
  <2> HIDE DEF s
  <2>4. \A m \in Successors("generate_terraform", s) : Ready(m, s)
    BY <2>3, DeliverySuccessors
  <2> QED
    BY <2>1, <2>4, LeaveKeepsPipeline, NodeNames
<1>2. CASE ValidateTerraform
  <2>1. PICK s : /\ Leave("validate_terraform", s) /\ Coded(s)
                 /\ s.terraform_validation # "absent"
    BY <1>0, <1>2 DEF ValidateTerraform, Leave, OwnCloud, Deployable, OwnTerraform, States
  <2>2. \A m \in Successors("validate_terraform", s) : Ready(m, s)
    BY <2>1, DeliverySuccessors DEF BothValid
  <2> QED
    BY <2>1, <2>2, LeaveKeepsPipeline, NodeNames
<1>3. CASE GenerateAnsible
  <2>1. PICK s : /\ Leave("generate_ansible", s) /\ Coded(s)
                 /\ s.terraform_validation # "absent"
                 /\ s.ansible_project_uri = s.workflow_id
    BY <1>0, <1>3 DEF GenerateAnsible, Leave, OwnCloud, Deployable, OwnTerraform, States
  <2>2. \A m \in Successors("generate_ansible", s) : Ready(m, s)
    BY <2>1, DeliverySuccessors
  <2> QED
    BY <2>1, <2>2, LeaveKeepsPipeline, NodeNames
<1>4. CASE ValidateAnsible
  <2>1. PICK s : /\ Leave("validate_ansible", s) /\ Coded(s)
                 /\ s.terraform_validation \in {"ok", "errors"}
                 /\ s.ansible_validation \in {"ok", "errors"}
                 /\ s.ansible_project_uri = s.workflow_id
    BY <1>0, <1>4
       DEF ValidateAnsible, Leave, OwnCloud, Deployable, OwnTerraform, States, Verdicts
  <2>2. RouteAfterGeneration(s) = "review" => BothValid(s)
    BY <2>1 DEF RouteAfterGeneration, BothValid
  <2>3. \A m \in Successors("validate_ansible", s) : Ready(m, s)
    BY <2>1, <2>2, DeliverySuccessors
  <2> QED
    BY <2>1, <2>3, LeaveKeepsPipeline, NodeNames
<1>5. CASE DeploymentReview
  <2>1. Leave("deployment_review", state) /\ Coded(state) /\ BothValid(state)
    BY <1>0, <1>5 DEF DeploymentReview, Leave
  <2>2. \A m \in Successors("deployment_review", state) : Ready(m, state)
    BY <2>1, DeliverySuccessors
  <2> QED
    BY <2>1, <2>2, LeaveKeepsPipeline, NodeNames
<1>6. CASE TerraformPlan
  <2>1. PICK s : Leave("terraform_plan", s) /\ Coded(s) /\ OwnPlan(s)
    BY <1>0, <1>6
       DEF TerraformPlan, Leave, OwnCloud, Deployable, OwnTerraform, OwnPlan, States
  <2>2. \A m \in Successors("terraform_plan", s) : Ready(m, s)
    BY <2>1, DeliverySuccessors
  <2> QED
    BY <2>1, <2>2, LeaveKeepsPipeline, NodeNames
<1>7. CASE AwaitApproval
  <2>1. Successors("await_approval", state) \subseteq Free
    BY DeliverySuccessors DEF Free
  <2> QED
    BY <1>7, <2>1, LeaveToFree, NodeNames DEF AwaitApproval
<1>8. CASE TerraformApply \/ RefuseApply
  <2>1. PICK s : Leave("terraform_apply", s)
    BY <1>8 DEF TerraformApply, RefuseApply
  <2>2. Successors("terraform_apply", s) \subseteq Free
    BY DeliverySuccessors DEF Free
  <2> QED
    BY <2>1, <2>2, LeaveToFree, NodeNames
<1>9. CASE CollectOutputs
  <2>1. PICK s : Leave("collect_outputs", s)
    BY <1>9 DEF CollectOutputs
  <2>2. Successors("collect_outputs", s) \subseteq Free
    BY DeliverySuccessors DEF Free
  <2> QED
    BY <2>1, <2>2, LeaveToFree, NodeNames
<1>10. CASE GenerateInventory \/ RunConfiguration \/ \E n \in Terminals : Finish(n)
  <2>0. PICK n \in Tail \cup {"rejected"} : \E s : Leave(n, s)
    BY <1>10 DEF GenerateInventory, RunConfiguration, Finish, Terminals, Tail
  <2>1. PICK s : Leave(n, s)
    BY <2>0
  <2>2. Successors(n, s) \subseteq Free
    BY DeliverySuccessors DEF Free
  <2>3. n \in Nodes
    BY NodeNames DEF Tail, Terminals
  <2> QED
    BY <2>1, <2>2, <2>3, LeaveToFree
<1>11. CASE RefuseInventory
  BY <1>11 DEF RefuseInventory, Stop, PipelineInv, Straight
<1> QED
  BY <1>1, <1>2, <1>3, <1>4, <1>5, <1>6, <1>7, <1>8, <1>9, <1>10, <1>11

\* The fields that Ready looks at.
GateFields(s) ==
  <<s.workflow_id, s.errors, s.network_architecture, s.network_validation,
    s.cloud_architecture, s.cloud_validation, s.terraform_project_uri,
    s.terraform_fingerprint, s.terraform_validation, s.ansible_project_uri,
    s.ansible_validation, s.deployment_plan>>

\* Answers and decisions change nothing a gate has looked at.
LEMMA UserKeepsPipeline ==
  ASSUME TypeOK, PipelineInv, User
  PROVE  PipelineInv'
<1>1. GateFields(state') = GateFields(state)
  <2> USE DEF TypeOK, States, GateFields, Resume
  <2>1. CASE AnswerSome \/ AnswerAll
    BY <2>1 DEF AnswerSome, AnswerAll, Answer
  <2>2. CASE \E decision \in Decisions : Decide(decision)
    BY <2>2 DEF Decide
  <2>3. CASE \E flag \in {"False", "True", "truthy"} : ResumeWithoutRecord(flag)
    BY <2>3 DEF ResumeWithoutRecord
  <2> QED
    BY <2>1, <2>2, <2>3 DEF User
<1>2. todo' = todo /\ next' = next
  BY DEF User, AnswerSome, AnswerAll, Answer, Decide, ResumeWithoutRecord, Resume
<1>3. ASSUME NEW n \in todo PROVE Ready(n, state')
  <2>1. Ready(n, state)
    BY DEF PipelineInv
  <2> QED
    BY <1>1, <2>1
       DEF GateFields, Ready, OwnNetwork, Admitted, OwnCloud, Deployable, OwnTerraform,
           BothValid, OwnPlan, RouteConfigurationStage
<1> QED
  BY <1>2, <1>3 DEF PipelineInv, Straight

LEMMA NextKeepsPipeline == TypeOK /\ PipelineInv /\ [Next]_vars => PipelineInv'
<1> SUFFICES ASSUME TypeOK, PipelineInv, [Next]_vars PROVE PipelineInv'
  OBVIOUS
<1>1. CASE RunNode
  BY <1>1, DesignNodesKeepPipeline, DeliveryNodesKeepPipeline DEF RunNode
<1>2. CASE User
  BY <1>2, UserKeepsPipeline
<1>3. CASE Crash \/ CrashAfterApply \/ Recover \/ UNCHANGED vars
  BY <1>3 DEF Crash, CrashAfterApply, Recover, Stop, vars, control, PipelineInv, Straight
<1>4. CASE StartWorkflow
  <2>1. todo' = {"detect_input_mode"} /\ next' = {}
    BY <1>4 DEF StartWorkflow, EntryPoint
  <2> QED
    BY <2>1, FreeIsReady, NodeNames DEF PipelineInv, Straight, Free
<1> QED
  BY <1>1, <1>2, <1>3, <1>4 DEF Next

LEMMA PipelineAlways == Spec => []PipelineInv
<1>1. Init => PipelineInv
  BY FreeIsReady, NodeNames DEF Init, EntryPoint, PipelineInv, Straight, Free
<1> QED
  BY <1>1, NextKeepsPipeline, TypeCorrect, PTL DEF Spec

--------------------------------------------------------------------------------
(* The gates.                                                                *)

\* However many workflows the thread has seen, what goes to the RAG is this workflow's
\* network, validated without errors and without a REQUIRED gap
\* (route_after_network_validation).
THEOREM GateIntoTranslation == Spec => []TranslatedOnlyValidated
<1>1. TypeOK /\ PipelineInv => TranslatedOnlyValidated
  BY DEF PipelineInv, Ready, AfterAnalysis, OwnNetwork, Admitted, TranslatedOnlyValidated,
         TypeOK, States
<1> QED
  BY <1>1, PipelineAlways, TypeCorrect, PTL

\* The plan a reviewer is asked about stems from the input of this very workflow, through
\* a cloud architecture that was found valid (initial_state, route_after_cloud_validation).
THEOREM PlanIsOfThisWorkflow == Spec => []PlanProvenance
<1>1. PipelineInv => PlanProvenance
  BY DEF PipelineInv, Ready, AfterTerraform, Generation, Deployable, OwnPlan, PlanProvenance
<1> QED
  BY <1>1, PipelineAlways, PTL

\* With configuration to apply, a plan is only made of code that was validated on both
\* sides (route_after_generation).
THEOREM PlanOfValidatedCode == Spec => []ConfiguredPlanWasValidated
<1>1. PipelineInv => ConfiguredPlanWasValidated
  BY DEF PipelineInv, Ready, AfterTerraform, OwnTerraform, BothValid, ConfiguredPlanWasValidated
<1> QED
  BY <1>1, PipelineAlways, PTL

--------------------------------------------------------------------------------
(* The recursion limit.                                                      *)

\* Supersteps on the longest way from a node, itself included, to the next interrupt or
\* the end.  Only an interrupt lies on a cycle.
Way ==
  [detect_input_mode |-> 19, preprocess_image |-> 18, detect_components |-> 17,
   extract_text |-> 16, detect_connections |-> 15, spatial_association |-> 14,
   prompt_llm |-> 14, build_topology_from_image |-> 13, build_topology_from_prompt |-> 13,
   analyze_completeness |-> 12, await_clarification |-> 12, enrich_network |-> 11,
   validate_network |-> 10, finalise_network_architecture |-> 9, rag_translate |-> 8,
   validate_cloud_architecture |-> 7, generate_terraform |-> 6, validate_terraform |-> 5,
   generate_ansible |-> 4, validate_ansible |-> 3, deployment_review |-> 2,
   terraform_plan |-> 1, await_approval |-> 6, terraform_apply |-> 5,
   collect_outputs |-> 4, generate_inventory |-> 3, run_configuration |-> 2,
   complete |-> 1, rejected |-> 1, failed |-> 1]

LongestWay == 19

\* The inductive invariant: what is left of every way still fits.
LimitInv ==
  /\ steps <= LongestWay
  /\ mode = "running" => \A n \in todo : steps + Way[n] <= LongestWay
  /\ \A n \in next : steps + 1 + Way[n] <= LongestWay

LEMMA WaysAreBounded == \A n \in Nodes : Way[n] \in 1 .. LongestWay
BY DEF Way, LongestWay, Nodes, Edges, Branches

\* Every edge but those into an interrupt shortens the way.
LEMMA EdgesShortenTheWay ==
  ASSUME NEW n \in Nodes, NEW s, NEW m \in Successors(n, s) \ InterruptNodes
  PROVE  Way[m] < Way[n]
<1>1. CASE n \in DOMAIN Edges /\ m = Edges[n]
  BY <1>1 DEF Edges, Way, InterruptNodes, Successors
<1>2. CASE n \in DOMAIN Branches /\ m = Branches[n][Route(n, s)]
  <2>1. \A l \in DOMAIN Branches[n] :
          Branches[n][l] \in InterruptNodes \/ Way[Branches[n][l]] < Way[n]
    BY <1>2 DEF Branches, Way, InterruptNodes
  <2> QED
    BY <1>2, <2>1, RoutesAreLabels
<1> QED
  BY <1>1, <1>2 DEF Successors

LEMMA LeaveKeepsLimit ==
  ASSUME TypeOK, PipelineInv, LimitInv, NEW n \in Nodes, NEW s, Leave(n, s)
  PROVE  LimitInv'
<1> DEFINE after == Successors(n, s)
<1>1. mode = "running" /\ n \in todo /\ steps \in Nat /\ steps + Way[n] <= LongestWay
  BY DEF Leave, LimitInv, TypeOK
<1>2. after \subseteq Nodes /\ Way[n] \in 1 .. LongestWay
  BY SuccessorsAreNodes, WaysAreBounded
<1>3. \A m \in after \ InterruptNodes : steps + 1 + Way[m] <= LongestWay
  BY <1>1, <1>2, EdgesShortenTheWay, WaysAreBounded DEF LongestWay
<1>4. CASE todo = {n}
  <2>1. todo' = next \cup after /\ next' = {} /\ steps' = steps + 1 /\ mode' = ModeAfter(todo', steps')
    BY <1>4 DEF Leave
  <2>2. mode' = "running" => todo' \cap InterruptNodes = {}
    BY <2>1 DEF ModeAfter
  <2>3. steps' <= LongestWay
    BY <1>1, <1>2, <2>1 DEF LongestWay
  <2>4. mode' = "running" => \A m \in todo' : steps' + Way[m] <= LongestWay
    BY <1>3, <2>1, <2>2 DEF LimitInv
  <2> QED
    BY <2>1, <2>3, <2>4 DEF LimitInv
<1>5. CASE todo # {n}
  <2>1. n \in Tail
    BY <1>1, <1>5 DEF PipelineInv, Straight
  <2>2. after \cap InterruptNodes = {}
    BY <2>1, DeliverySuccessors DEF Tail, InterruptNodes
  <2>3. todo' = todo \ {n} /\ next' = next \cup after /\ UNCHANGED <<steps, mode>>
    BY <1>5 DEF Leave
  <2> QED
    BY <1>3, <2>2, <2>3 DEF LimitInv
<1> QED
  BY <1>4, <1>5

LEMMA NextKeepsLimit == TypeOK /\ PipelineInv /\ LimitInv /\ [Next]_vars => LimitInv'
<1> SUFFICES ASSUME TypeOK, PipelineInv, LimitInv, [Next]_vars PROVE LimitInv'
  OBVIOUS
<1>1. ASSUME \E n \in Nodes : \E s : Leave(n, s) PROVE LimitInv'
  BY <1>1, LeaveKeepsLimit
<1>2. ASSUME UNCHANGED <<todo, next, steps>>, mode' # "running" \/ mode' = mode PROVE LimitInv'
  BY <1>2 DEF LimitInv
<1>3. ASSUME UNCHANGED <<todo, next>>, steps' = 0 PROVE LimitInv'
  <2>1. \A n \in todo : Way[n] \in 1 .. LongestWay
    BY WaysAreBounded DEF TypeOK
  <2>2. \A n \in next : 1 + Way[n] <= LongestWay
    <3>1. next \subseteq Tail
      BY DEF PipelineInv, Straight
    <3> QED
      BY <3>1 DEF Tail, Way, LongestWay
  <2> QED
    BY <1>3, <2>1, <2>2 DEF LimitInv, LongestWay
<1>4. CASE RunNode
  BY <1>1, <1>2, <1>4, NodeNames DEF RunNode, DetectInputMode, Extract, BuildTopology,
     AnalyzeCompleteness, AwaitClarification, EnrichNetwork, ValidateNetwork, FinaliseNetwork,
     RagTranslate, ValidateCloud, GenerateTerraform, ValidateTerraform, GenerateAnsible,
     ValidateAnsible, DeploymentReview, TerraformPlan, AwaitApproval, TerraformApply,
     RefuseApply, CollectOutputs, GenerateInventory, RefuseInventory, RunConfiguration,
     Finish, Stop
<1>5. CASE User \/ Recover
  BY <1>3, <1>5 DEF User, AnswerSome, AnswerAll, Answer, Decide, ResumeWithoutRecord, Resume,
     Recover
<1>6. CASE Crash \/ CrashAfterApply \/ UNCHANGED vars
  BY <1>2, <1>6 DEF Crash, CrashAfterApply, Stop, vars, control
<1>7. CASE StartWorkflow
  BY <1>7 DEF StartWorkflow, EntryPoint, LimitInv, Way, LongestWay
<1> QED
  BY <1>4, <1>5, <1>6, <1>7 DEF Next

\* A limit above 19 is never reached, so the 60 of the settings leaves room; with a smaller
\* one the way of a drawing to its approval is cut short (OrchestrationSettings).
THEOREM LimitIsNeverReached ==
  ASSUME RecursionLimit > LongestWay
  PROVE  Spec => []WithinRecursionLimit
<1>1. Init => LimitInv
  BY DEF Init, EntryPoint, LimitInv, Way, LongestWay
<1>2. TypeOK /\ LimitInv => WithinRecursionLimit
  BY LimitsAssumption DEF LimitInv, LongestWay, WithinRecursionLimit, TypeOK
<1> QED
  BY <1>1, <1>2, NextKeepsLimit, PipelineAlways, TypeCorrect, PTL DEF Spec

--------------------------------------------------------------------------------
(* What a completed workflow has done.                                       *)

\* The nodes from the approval to the end, those of a failure apart.
Late ==
  {"await_approval", "terraform_apply", "collect_outputs", "generate_inventory",
   "run_configuration", "complete"}

OwnAnsible(s) ==
  RouteConfigurationStage(s) = "ansible" => s.ansible_project_uri = s.workflow_id

\* The conclusion of CompletionIsHonest.
Delivered ==
  /\ ~state.errors
  /\ state.deployment_plan.id \in applied
  /\ RouteConfigurationStage(state) = "ansible" =>
       \E c \in configured : /\ c.plan = state.deployment_plan.id
                             /\ c.inventory = c.plan
                             /\ c.project = state.workflow_id

\* What has happened when node n is scheduled.
Settled(n) ==
  /\ n \in Late \ {"complete"} => OwnAnsible(state)
  /\ n = "collect_outputs" /\ ~state.errors =>
       deployed = state.deployment_plan.id /\ deployed \in applied
  /\ n = "generate_inventory" /\ ~state.errors =>
       /\ state.terraform_outputs = state.deployment_plan.id
       /\ state.terraform_outputs \in applied
  /\ n = "run_configuration" =>
       /\ state.ansible_inventory_uri \in applied
       /\ ~state.errors => state.ansible_inventory_uri = state.deployment_plan.id
  /\ n = "complete" => Delivered \/ state.errors

\* A failure before the tail has its own node, which ends no later than the superstep in
\* which the inventory is built.
FailureEndsFirst ==
  state.errors =>
    /\ {"generate_inventory", "run_configuration"} \cap (todo \cup next) # {} =>
         "failed" \in todo \cup ended
    /\ {"run_configuration", "complete"} \cap todo # {} \/ "complete" \in next =>
         "failed" \in ended

\* The inductive invariant of the tail.
SettleInv ==
  /\ deployed \in applied \cup {0} /\ state.terraform_outputs \in applied \cup {0}
  /\ ended # {} => todo \cup next \subseteq Tail
  /\ "complete" \in ended => Delivered \/ (state.errors /\ "failed" \in ended)
  /\ \A n \in todo \cup next : Settled(n)
  /\ FailureEndsFirst
  /\ ConfiguredHostsExist

LEMMA TailSuccessors ==
  ASSUME NEW s
  PROVE  /\ Successors("collect_outputs", s) =
              {"generate_inventory",
               IF s.errors THEN "failed"
               ELSE IF RouteConfigurationStage(s) = "ansible" THEN "generate_inventory"
               ELSE "complete"}
         /\ Successors("generate_inventory", s) = {"run_configuration"}
         /\ Successors("run_configuration", s) = {"complete"}
         /\ Successors("complete", s) = {} /\ Successors("failed", s) = {}
<1> USE DEF Successors, Edges, Branches, Route
<1>1. Successors("collect_outputs", s) =
        {"generate_inventory",
         IF s.errors THEN "failed"
         ELSE IF RouteConfigurationStage(s) = "ansible" THEN "generate_inventory"
         ELSE "complete"}
  BY DEF RouteAfterApply
<1> QED
  BY <1>1

\* Before the tail a node runs alone, and nothing has ended.
LEMMA AloneBeforeTail ==
  ASSUME PipelineInv, SettleInv, NEW n \in Nodes \ Tail, n \in todo
  PROVE  todo = {n} /\ next = {} /\ ended = {}
<1>1. ~(todo \cup next \subseteq Tail)
  OBVIOUS
<1>2. next = {} /\ \E m \in Nodes : todo = {m}
  BY <1>1 DEF PipelineInv, Straight
<1> QED
  BY <1>1, <1>2 DEF SettleInv

\* Up to the approval nothing of the tail is scheduled.
LEMMA LeaveKeepsSettle ==
  ASSUME PipelineInv, SettleInv, NEW n \in Nodes \ Tail, NEW s, Leave(n, s), UNCHANGED history,
         s.terraform_outputs = state.terraform_outputs,
         Successors(n, s) \cap Late \subseteq {"await_approval", "terraform_apply"},
         Successors(n, s) \cap Late # {} => OwnAnsible(s)
  PROVE  SettleInv'
<1>1. todo = {n} /\ next = {} /\ ended = {} /\ state' = s
  BY AloneBeforeTail DEF Leave
<1>2. todo' = Successors(n, s) /\ next' = {} /\ ended' = {}
  BY <1>1 DEF Leave, history
<1>3. \A m \in todo' \cup next' : Settled(m)'
  <2>1. TAKE m \in todo' \cup next'
  <2>2. m \in Late => m \in {"await_approval", "terraform_apply"} /\ OwnAnsible(s)
    BY <1>2
  <2>3. OwnAnsible(s) => OwnAnsible(state)'
    BY <1>1 DEF OwnAnsible, RouteConfigurationStage
  <2> QED
    BY <2>2, <2>3 DEF Settled, Late
<1>4. FailureEndsFirst'
  BY <1>2 DEF FailureEndsFirst, Late
<1> QED
  BY <1>1, <1>2, <1>3, <1>4 DEF SettleInv, history, ConfiguredHostsExist

LEMMA DesignNodesKeepSettle ==
  ASSUME TypeOK, PipelineInv, SettleInv,
         \/ DetectInputMode
         \/ \E n \in ExtractionNodes : Extract(n)
         \/ \E n \in {"build_topology_from_image", "build_topology_from_prompt"} : BuildTopology(n)
         \/ AnalyzeCompleteness \/ AwaitClarification \/ EnrichNetwork \/ ValidateNetwork
         \/ FinaliseNetwork \/ RagTranslate \/ ValidateCloud
         \/ GenerateTerraform \/ ValidateTerraform \/ GenerateAnsible \/ ValidateAnsible
         \/ DeploymentReview
  PROVE  SettleInv'
<1> DEFINE
       Early ==
      {"detect_input_mode", "build_topology_from_image", "build_topology_from_prompt",
       "analyze_completeness", "await_clarification", "enrich_network", "validate_network",
       "finalise_network_architecture", "rag_translate", "validate_cloud_architecture",
       "generate_terraform", "validate_terraform", "generate_ansible", "validate_ansible",
       "deployment_review"} \cup ExtractionNodes
       Keeps(n, s) == /\ Leave(n, s) /\ UNCHANGED history
                      /\ s.terraform_outputs = state.terraform_outputs
<1>1. PICK n \in Early : \E s : Keeps(n, s)
  <2> USE DEF TypeOK, States
  <2>1. CASE DetectInputMode
    BY <2>1 DEF DetectInputMode
  <2>2. CASE AnalyzeCompleteness
    <3>1. PICK questions \in [Questions -> QuestionKinds] :
            /\ Leave("analyze_completeness",
                     [state EXCEPT !.network_architecture.missing = RequiredOf(questions),
                                   !.clarification_questions = questions])
            /\ UNCHANGED history
      BY <2>2 DEF AnalyzeCompleteness
    <3> DEFINE s == [state EXCEPT !.network_architecture.missing = RequiredOf(questions),
                                  !.clarification_questions = questions]
    <3>2. Keeps("analyze_completeness", s)
      BY <3>1
    <3> HIDE DEF s
    <3> QED
      BY <3>2
  <2>3. CASE AwaitClarification
    BY <2>3 DEF AwaitClarification
  <2>4. CASE EnrichNetwork
    <3>1. PICK s : Keeps("enrich_network", s)
      BY <2>4 DEF EnrichNetwork
    <3> QED
      BY <3>1
  <2>5. CASE ValidateNetwork
    <3>1. PICK s : Keeps("validate_network", s)
      BY <2>5 DEF ValidateNetwork
    <3> QED
      BY <3>1
  <2>6. CASE FinaliseNetwork
    BY <2>6 DEF FinaliseNetwork
  <2>7. CASE RagTranslate
    <3>1. PICK s : Keeps("rag_translate", s)
      BY <2>7 DEF RagTranslate
    <3> QED
      BY <3>1
  <2>8. CASE ValidateCloud
    <3>1. PICK s : Keeps("validate_cloud_architecture", s)
      BY <2>8 DEF ValidateCloud
    <3> QED
      BY <3>1
  <2>9. CASE GenerateTerraform
    <3> DEFINE s == [state EXCEPT
                       !.terraform_project_uri = state.cloud_architecture.run,
                       !.terraform_fingerprint = state.cloud_architecture.configuration]
    <3>1. Keeps("generate_terraform", s)
      BY <2>9 DEF GenerateTerraform
    <3> HIDE DEF s
    <3> QED
      BY <3>1
  <2>10. CASE ValidateTerraform
    <3>1. PICK s : Keeps("validate_terraform", s)
      BY <2>10 DEF ValidateTerraform
    <3> QED
      BY <3>1
  <2>11. CASE GenerateAnsible
    <3>1. PICK s : Keeps("generate_ansible", s)
      BY <2>11 DEF GenerateAnsible
    <3> QED
      BY <3>1
  <2>12. CASE ValidateAnsible
    <3>1. PICK s : Keeps("validate_ansible", s)
      BY <2>12 DEF ValidateAnsible
    <3> QED
      BY <3>1
  <2>13. CASE DeploymentReview
    BY <2>13 DEF DeploymentReview
  <2>14. CASE \E m \in ExtractionNodes : Extract(m)
    <3>1. PICK m \in ExtractionNodes : Extract(m)
      BY <2>14
    <3>2. PICK s : Keeps(m, s)
      BY <3>1 DEF Extract
    <3> QED
      BY <3>2
  <2>15. CASE \E m \in {"build_topology_from_image", "build_topology_from_prompt"} : BuildTopology(m)
    <3>1. PICK m \in {"build_topology_from_image", "build_topology_from_prompt"} : BuildTopology(m)
      BY <2>15
    <3> DEFINE built == [state EXCEPT !.network_architecture =
                                        [run |-> state.workflow_id, missing |-> {}]]
               failed == [state EXCEPT !.errors = TRUE]
    <3>2. /\ built.terraform_outputs = state.terraform_outputs
          /\ failed.terraform_outputs = state.terraform_outputs
      OBVIOUS
    <3>3. (Leave(m, built) \/ Leave(m, failed)) /\ UNCHANGED history
      BY <3>1 DEF BuildTopology
    <3> HIDE DEF built, failed
    <3>4. Keeps(m, built) \/ Keeps(m, failed)
      BY <3>2, <3>3
    <3> QED
      BY <3>4
  <2> QED
    BY <2>1, <2>2, <2>3, <2>4, <2>5, <2>6, <2>7, <2>8, <2>9, <2>10, <2>11, <2>12, <2>13, <2>14, <2>15
<1>2. PICK s : Keeps(n, s)
  BY <1>1
<1>3. Successors(n, s) \cap Late = {}
  BY DEF Successors, Edges, Branches, Route, Late, ExtractionNodes, RouteAfterInputMode,
         RouteAfterCompleteness, RouteAfterNetworkValidation, RouteAfterCloudValidation,
         RouteConfigurationStage, RouteAfterGeneration
<1>4. n \in Nodes \ Tail
  BY NodeNames DEF Tail, ExtractionNodes
<1> QED
  BY <1>2, <1>3, <1>4, LeaveKeepsSettle

LEMMA PlanNodesKeepSettle ==
  ASSUME TypeOK, PipelineInv, SettleInv, TerraformPlan \/ AwaitApproval
  PROVE  SettleInv'
<1>1. CASE TerraformPlan
  <2>1. BothValid(state) /\ state \in States
    BY <1>1 DEF TerraformPlan, Leave, PipelineInv, Ready, TypeOK
  <2>2. PICK s : /\ Leave("terraform_plan", s) /\ UNCHANGED history /\ OwnAnsible(s)
                 /\ s.terraform_outputs = state.terraform_outputs
    BY <1>1, <2>1 DEF TerraformPlan, States, BothValid, OwnAnsible, RouteConfigurationStage
  <2> QED
    BY <2>2, LeaveKeepsSettle, DeliverySuccessors, NodeNames DEF Tail
<1>2. CASE AwaitApproval
  <2>1. OwnAnsible(state)
    BY <1>2 DEF AwaitApproval, Leave, SettleInv, Settled, Late
  <2>2. Successors("await_approval", state) \cap Late \subseteq {"terraform_apply"}
    BY DeliverySuccessors DEF Late
  <2> QED
    BY <1>2, <2>1, <2>2, LeaveKeepsSettle, NodeNames DEF AwaitApproval, Tail
<1> QED
  BY <1>1, <1>2

LEMMA ApplyNodesKeepSettle ==
  ASSUME TypeOK, PipelineInv, SettleInv, TerraformApply \/ RefuseApply
  PROVE  SettleInv'
<1>1. PICK failure \in BOOLEAN :
        /\ Leave("terraform_apply", [state EXCEPT !.errors = failure])
        /\ TerraformApply \/ failure
  BY DEF TerraformApply, RefuseApply, TypeOK, States
<1> DEFINE s == [state EXCEPT !.errors = failure]
<1>0. /\ OwnAnsible(state) => OwnAnsible(s)
      /\ s.terraform_outputs = state.terraform_outputs
      /\ s.deployment_plan = state.deployment_plan /\ s.errors = failure
  BY DEF TypeOK, States, OwnAnsible, RouteConfigurationStage
<1>a. Leave("terraform_apply", s) /\ (TerraformApply \/ s.errors)
  BY <1>0, <1>1
<1> HIDE DEF s
<1>2. todo = {"terraform_apply"} /\ next = {} /\ ended = {}
  BY <1>a, AloneBeforeTail, NodeNames DEF Leave, Tail
<1>3. todo' = {"collect_outputs"} /\ next' = {} /\ ended' = {} /\ state' = s
  BY <1>a, <1>2, DeliverySuccessors DEF Leave, TerraformApply, RefuseApply, history
<1>4. OwnAnsible(s)
  BY <1>0, <1>2 DEF SettleInv, Settled, Late
<1>5. \/ deployed' \in applied' /\ deployed' = state.deployment_plan.id
      \/ deployed' = deployed /\ applied' = applied /\ s.errors
  <2>1. CASE TerraformApply
    <3>1. TouchAccount
      BY <2>1 DEF TerraformApply
    <3> QED
      BY <3>1 DEF TouchAccount
  <2>2. CASE ~TerraformApply
    BY <1>a, <2>2 DEF RefuseApply, history
  <2> QED
    BY <2>1, <2>2
<1>6. applied \subseteq applied' /\ configured' = configured
  BY DEF TerraformApply, RefuseApply, TouchAccount, history
<1>7. Settled("collect_outputs")'
  BY <1>0, <1>3, <1>4, <1>5 DEF Settled, OwnAnsible, RouteConfigurationStage
<1>8. FailureEndsFirst'
  BY <1>3 DEF FailureEndsFirst
<1> QED
  BY <1>0, <1>3, <1>5, <1>6, <1>7, <1>8 DEF SettleInv, ConfiguredHostsExist

LEMMA CollectKeepsSettle ==
  ASSUME TypeOK, PipelineInv, SettleInv, CollectOutputs
  PROVE  SettleInv'
<1>1. PICK s : /\ Leave("collect_outputs", s) /\ UNCHANGED history
               /\ OwnAnsible(state) => OwnAnsible(s)
               /\ s.deployment_plan = state.deployment_plan
               /\ \/ s.errors = state.errors /\ s.terraform_outputs = deployed
                  \/ s.errors /\ s.terraform_outputs = state.terraform_outputs
  BY DEF CollectOutputs, TypeOK, States, OwnAnsible, RouteConfigurationStage
<1>2. todo = {"collect_outputs"} /\ next = {} /\ ended = {}
  BY <1>1, AloneBeforeTail, NodeNames DEF Leave, Tail
<1>3. todo' = Successors("collect_outputs", s) /\ next' = {} /\ ended' = {} /\ state' = s
  BY <1>1, <1>2 DEF Leave, history
<1>4. OwnAnsible(s)
  BY <1>1, <1>2 DEF SettleInv, Settled, Late
<1>5. ~s.errors => /\ s.terraform_outputs = s.deployment_plan.id
                   /\ s.terraform_outputs \in applied
  BY <1>1, <1>2 DEF SettleInv, Settled
<1>6. Settled("generate_inventory")'
  BY <1>3, <1>4, <1>5 DEF Settled, OwnAnsible, RouteConfigurationStage, history, CollectOutputs
<1>7. "complete" \in todo' => Settled("complete")'
  BY <1>3, <1>5, TailSuccessors DEF Settled, Delivered, RouteConfigurationStage, history,
                                    CollectOutputs, Late
<1>8. Settled("failed")'
  BY DEF Settled, Late
<1>9. \A n \in todo' \cup next' : Settled(n)'
  BY <1>3, <1>6, <1>7, <1>8, TailSuccessors
<1>10. FailureEndsFirst'
  BY <1>3, TailSuccessors DEF FailureEndsFirst
<1>11. deployed' = deployed /\ applied' = applied /\ configured' = configured
  BY <1>1 DEF history
<1> QED
  BY <1>1, <1>3, <1>9, <1>10, <1>11 DEF SettleInv, ConfiguredHostsExist

\* What the tail writes: the inventory, the configuration runs and what has ended.
LEMMA TailNodesKeepSettle ==
  ASSUME TypeOK, PipelineInv, SettleInv,
         \/ GenerateInventory \/ RunConfiguration \/ Finish("complete") \/ Finish("failed")
  PROVE  SettleInv'
<1> USE DEF SettleInv
<1>1. CASE GenerateInventory
  <2> DEFINE s == [state EXCEPT !.ansible_inventory_uri = state.terraform_outputs]
  <2>1. Leave("generate_inventory", s) /\ UNCHANGED history /\ state.terraform_outputs # 0
    BY <1>1 DEF GenerateInventory
  <2>2. /\ s.ansible_inventory_uri = state.terraform_outputs
        /\ \A f \in {"errors", "workflow_id", "deployment_plan", "cloud_architecture",
                     "ansible_project_uri", "terraform_outputs"} : s[f] = state[f]
    BY DEF TypeOK, States
  <2> HIDE DEF s
  <2>3. state' = s /\ "generate_inventory" \in todo
    BY <2>1 DEF Leave
  <2>4. UNCHANGED <<deployed, applied, configured, ended>>
    BY <2>1 DEF history
  <2>5. Delivered => Delivered'
    BY <2>2, <2>3, <2>4 DEF Delivered, RouteConfigurationStage
  <2>6. Settled("generate_inventory")
    BY <2>3
  <2>7. Settled("run_configuration")'
    BY <2>1, <2>2, <2>3, <2>4, <2>6 DEF Settled, OwnAnsible, RouteConfigurationStage, Late
  <2>8. \A n \in Tail : Settled(n) => Settled(n)'
    <3>1. ASSUME NEW n \in Tail \ {"run_configuration"}, Settled(n) PROVE Settled(n)'
      BY <2>2, <2>3, <2>4, <2>5, <3>1
         DEF Settled, OwnAnsible, RouteConfigurationStage, Tail
    <3> QED
      BY <2>7, <3>1
  <2>9. todo \cup next \subseteq Tail
    BY <2>3 DEF PipelineInv, Straight, Tail
  <2>10. \A n \in todo' \cup next' : Settled(n)'
    <3>1. todo' \cup next' \subseteq todo \cup next \cup {"run_configuration"}
      BY <2>1, TailSuccessors DEF Leave
    <3> QED
      BY <2>7, <2>8, <2>9, <3>1
  <2>11. FailureEndsFirst'
    BY <2>1, <2>2, <2>3, <2>4, TailSuccessors DEF FailureEndsFirst, Leave
  <2>12. todo' \cup next' \subseteq Tail
    BY <2>1, <2>9, TailSuccessors DEF Leave, Tail
  <2> QED
    BY <2>2, <2>3, <2>4, <2>5, <2>10, <2>11, <2>12 DEF ConfiguredHostsExist
<1>2. CASE RunConfiguration
  <2> DEFINE run == [plan |-> state.deployment_plan.id, inventory |-> state.ansible_inventory_uri,
                     project |-> state.ansible_project_uri]
  <2>1. Leave("run_configuration", state) /\ configured' = configured \cup {run}
        /\ UNCHANGED <<deployed, applied, ended>>
    BY <1>2 DEF RunConfiguration
  <2>3. state' = state /\ "run_configuration" \in todo
    BY <2>1 DEF Leave
  <2>4. Settled("run_configuration")
    BY <2>3
  <2>5. Delivered => Delivered'
    BY <2>1, <2>3 DEF Delivered
  <2>6. ~state.errors => Delivered'
    <3>1. SUFFICES ASSUME ~state.errors PROVE Delivered'
      OBVIOUS
    <3>2. /\ state.deployment_plan.id \in applied
          /\ state.ansible_inventory_uri = state.deployment_plan.id
          /\ OwnAnsible(state)
      BY <2>4, <3>1 DEF Settled, Late
    <3>3. run \in configured'
      BY <2>1
    <3> QED
      BY <2>1, <2>3, <3>1, <3>2, <3>3 DEF Delivered, OwnAnsible
  <2>7. Settled("complete")'
    BY <2>3, <2>6 DEF Settled, Late
  <2>8. \A n \in Tail : Settled(n) => Settled(n)'
    BY <2>1, <2>3, <2>5 DEF Settled, OwnAnsible, Tail
  <2>9. todo \cup next \subseteq Tail
    BY <2>3 DEF PipelineInv, Straight, Tail
  <2>10. \A n \in todo' \cup next' : Settled(n)'
    <3>1. todo' \cup next' \subseteq todo \cup next \cup {"complete"}
      BY <2>1, TailSuccessors DEF Leave
    <3> QED
      BY <2>7, <2>8, <2>9, <3>1
  <2>11. FailureEndsFirst'
    BY <2>1, <2>3, TailSuccessors DEF FailureEndsFirst, Leave
  <2>12. todo' \cup next' \subseteq Tail
    BY <2>1, <2>9, TailSuccessors DEF Leave, Tail
  <2>13. ConfiguredHostsExist'
    BY <2>1, <2>4 DEF ConfiguredHostsExist, Settled
  <2> QED
    BY <2>1, <2>3, <2>5, <2>10, <2>11, <2>12, <2>13
<1>3. CASE Finish("complete") \/ Finish("failed")
  <2>1. PICK n \in {"complete", "failed"} : Finish(n)
    BY <1>3
  <2>2. /\ Leave(n, state) /\ ended' = ended \cup {n}
        /\ UNCHANGED <<deployed, applied, configured>>
    BY <2>1 DEF Finish
  <2>3. state' = state /\ n \in todo
    BY <2>2 DEF Leave
  <2>4. Delivered' <=> Delivered
    BY <2>2, <2>3 DEF Delivered
  <2>5. todo \cup next \subseteq Tail
    BY <2>3 DEF PipelineInv, Straight, Tail
  <2>6. todo' \cup next' \subseteq todo \cup next
    BY <2>2, TailSuccessors DEF Leave
  <2>7. \A m \in todo' \cup next' : Settled(m)'
    BY <2>2, <2>3, <2>4, <2>6 DEF Settled
  <2>8. FailureEndsFirst'
    BY <2>2, <2>3, TailSuccessors DEF FailureEndsFirst, Leave
  <2>9. "complete" \in ended' => Delivered' \/ (state'.errors /\ "failed" \in ended')
    <3>1. CASE n = "complete"
      BY <2>2, <2>3, <2>4, <3>1 DEF Settled, FailureEndsFirst
    <3>2. CASE n = "failed"
      BY <2>2, <2>3, <2>4, <3>2
    <3> QED
      BY <3>1, <3>2
  <2> QED
    BY <2>2, <2>3, <2>5, <2>6, <2>7, <2>8, <2>9 DEF ConfiguredHostsExist
<1> QED
  BY <1>1, <1>2, <1>3

LEMMA RejectedKeepsSettle ==
  ASSUME TypeOK, PipelineInv, SettleInv, Finish("rejected")
  PROVE  SettleInv'
<1>1. Leave("rejected", state) /\ ended' = ended \cup {"rejected"}
      /\ UNCHANGED <<deployed, applied, configured>>
  BY DEF Finish
<1>2. todo = {"rejected"} /\ next = {} /\ ended = {}
  BY <1>1, AloneBeforeTail, NodeNames DEF Leave, Tail, Terminals
<1>3. todo' = {} /\ next' = {} /\ state' = state
  BY <1>1, <1>2, DeliverySuccessors DEF Leave
<1> QED
  BY <1>1, <1>2, <1>3 DEF SettleInv, FailureEndsFirst, ConfiguredHostsExist

\* The fields and the histories that the invariant looks at.
SettleFields ==
  <<state.errors, state.workflow_id, state.deployment_plan, state.cloud_architecture,
    state.ansible_project_uri, state.terraform_outputs, state.ansible_inventory_uri,
    deployed, applied, configured, ended>>

LEMMA SettleStutter ==
  ASSUME SettleInv, UNCHANGED <<todo, next>>, UNCHANGED SettleFields
  PROVE  SettleInv'
<1>1. Delivered' <=> Delivered
  BY DEF SettleFields, Delivered, RouteConfigurationStage
<1>2. \A n \in todo : Settled(n)'
  BY <1>1 DEF SettleInv, SettleFields, Settled, OwnAnsible, RouteConfigurationStage
<1>3. \A n \in next : Settled(n)'
  BY <1>1 DEF SettleInv, SettleFields, Settled, OwnAnsible, RouteConfigurationStage
<1>4. FailureEndsFirst'
  BY DEF SettleInv, SettleFields, FailureEndsFirst
<1> QED
  BY <1>1, <1>2, <1>3, <1>4 DEF SettleInv, SettleFields, ConfiguredHostsExist

LEMMA OthersKeepSettle ==
  ASSUME TypeOK, PipelineInv, SettleInv,
         User \/ Crash \/ RefuseInventory \/ CrashAfterApply \/ Recover \/ StartWorkflow
           \/ UNCHANGED vars
  PROVE  SettleInv'
<1>1. CASE User
  <2>1. UNCHANGED <<todo, next, deployed, applied, configured, ended>>
    BY <1>1 DEF User, AnswerSome, AnswerAll, Answer, Decide, ResumeWithoutRecord, Resume, history
  <2>2. /\ GateFields(state') = GateFields(state)
        /\ state'.terraform_outputs = state.terraform_outputs
        /\ state'.ansible_inventory_uri = state.ansible_inventory_uri
    <3> USE DEF TypeOK, States, GateFields, Resume
    <3>1. CASE AnswerSome \/ AnswerAll
      BY <3>1 DEF AnswerSome, AnswerAll, Answer
    <3>2. CASE \E decision \in Decisions : Decide(decision)
      BY <3>2 DEF Decide
    <3>3. CASE \E flag \in {"False", "True", "truthy"} : ResumeWithoutRecord(flag)
      BY <3>3 DEF ResumeWithoutRecord
    <3> QED
      BY <1>1, <3>1, <3>2, <3>3 DEF User
  <2> QED
    BY <2>1, <2>2, SettleStutter DEF GateFields, SettleFields
<1>2. CASE Crash \/ RefuseInventory \/ Recover \/ UNCHANGED vars
  BY <1>2, SettleStutter
     DEF Crash, RefuseInventory, Recover, Stop, vars, control, history, SettleFields
<1>3. CASE CrashAfterApply
  <2>1. todo = {"terraform_apply"} /\ next = {} /\ ended = {}
    BY <1>3, AloneBeforeTail, NodeNames DEF CrashAfterApply, Tail
  <2>2. /\ UNCHANGED <<todo, next, state, configured, ended>>
        /\ deployed' = state.deployment_plan.id
        /\ applied' = applied \cup {state.deployment_plan.id}
    BY <1>3 DEF CrashAfterApply, Stop, TouchAccount
  <2>3. Settled("terraform_apply")'
    BY <2>1, <2>2 DEF SettleInv, Settled
  <2> QED
    BY <2>1, <2>2, <2>3 DEF SettleInv, FailureEndsFirst, ConfiguredHostsExist
<1>4. CASE StartWorkflow
  <2>1. /\ todo' = {"detect_input_mode"} /\ next' = {} /\ ended' = {}
        /\ UNCHANGED <<deployed, applied, configured>>
        /\ \E input \in InputModes : state' = Restarted(state, input)
    BY <1>4 DEF StartWorkflow, EntryPoint
  <2>2. state'.terraform_outputs = state.terraform_outputs
    BY <2>1 DEF Restarted, TypeOK, States
  <2>3. Settled("detect_input_mode")'
    BY DEF Settled, Late
  <2> QED
    BY <2>1, <2>2, <2>3 DEF SettleInv, FailureEndsFirst, ConfiguredHostsExist
<1> QED
  BY <1>1, <1>2, <1>3, <1>4

LEMMA SettleAlways == Spec => []SettleInv
<1>1. Init => SettleInv
  BY DEF Init, Fresh, EntryPoint, SettleInv, Settled, Late, FailureEndsFirst, ConfiguredHostsExist
<1>2. TypeOK /\ PipelineInv /\ SettleInv /\ [Next]_vars => SettleInv'
  BY DesignNodesKeepSettle, PlanNodesKeepSettle, ApplyNodesKeepSettle, CollectKeepsSettle,
     TailNodesKeepSettle, RejectedKeepsSettle, OthersKeepSettle DEF Next, RunNode, Terminals
<1> QED
  BY <1>1, <1>2, PipelineAlways, TypeCorrect, PTL DEF Spec

\* Hosts are only ever configured at addresses an apply has produced, whatever outputs an
\* earlier workflow left on the thread (TerraformOutputInventoryGenerator).
THEOREM OnlyRealHosts == Spec => []ConfiguredHostsExist
<1>1. SettleInv => ConfiguredHostsExist
  BY DEF SettleInv
<1> QED
  BY <1>1, SettleAlways, PTL

\* A workflow that ends complete and not also failed has applied its plan and, with
\* configuration to apply, configured the hosts of that apply (route_after_apply).
THEOREM CompleteIsDelivered == Spec => []CompletionIsHonest
<1>1. SettleInv => CompletionIsHonest
  BY DEF SettleInv, CompletionIsHonest, Delivered
<1> QED
  BY <1>1, SettleAlways, PTL

--------------------------------------------------------------------------------
(* The contract.                                                             *)

AfterPlan == Late \cup {"rejected", "failed"}

\* A workflow makes one plan at most, so the number of its plan is not above its own: the
\* plans of the contract are enough.
NumberInv ==
  /\ state.workflow_id \in 1 .. MaxRuns
  /\ state.deployment_plan.id <= state.workflow_id
  /\ todo \cup next \subseteq AfterPlan \/ state.deployment_plan.id < state.workflow_id
  /\ {"await_approval", "terraform_apply"} \cap (todo \cup next) # {} =>
       state.deployment_plan.id >= 1

LEMMA PlanSuccessors ==
  ASSUME NEW n \in Nodes, NEW s
  PROVE  /\ n \in AfterPlan => Successors(n, s) \subseteq AfterPlan
         /\ "await_approval" \in Successors(n, s) => n = "terraform_plan"
         /\ "terraform_apply" \in Successors(n, s) => n = "await_approval"
<1>1. n \in AfterPlan => Successors(n, s) \subseteq AfterPlan
  BY DeliverySuccessors DEF AfterPlan, Late, Tail
<1>2. n \in DOMAIN Edges => /\ Edges[n] = "await_approval" => n = "terraform_plan"
                           /\ Edges[n] # "terraform_apply"
  BY DEF Edges
<1>3. \A m \in DOMAIN Branches : \A l \in DOMAIN Branches[m] :
        /\ Branches[m][l] # "await_approval"
        /\ Branches[m][l] = "terraform_apply" => m = "await_approval"
  BY DEF Branches
<1> QED
  BY <1>1, <1>2, <1>3, RoutesAreLabels DEF Successors

LEMMA StepsOfNodes ==
  ASSUME RunNode, ~TerraformPlan
  PROVE  RefuseInventory \/ \E n \in Nodes \ {"terraform_plan"} : \E s : Leave(n, s)
BY NodeNames DEF ExtractionNodes, Terminals, RunNode, DetectInputMode, Extract, BuildTopology,
   AnalyzeCompleteness, AwaitClarification, EnrichNetwork, ValidateNetwork, FinaliseNetwork,
   RagTranslate, ValidateCloud, GenerateTerraform, ValidateTerraform, GenerateAnsible,
   ValidateAnsible, DeploymentReview, TerraformPlan, AwaitApproval, TerraformApply,
   RefuseApply, CollectOutputs, GenerateInventory, RunConfiguration, Finish

LEMMA NumbersStay ==
  ASSUME NumberInv, NumbersKept, UNCHANGED <<todo, next>>
  PROVE  NumberInv'
BY DEF NumberInv, NumbersKept

LEMMA NextKeepsNumbers == TypeOK /\ PipelineInv /\ NumberInv /\ [Next]_vars => NumberInv'
<1> SUFFICES ASSUME TypeOK, PipelineInv, NumberInv, [Next]_vars PROVE NumberInv'
  OBVIOUS
<1>0. state \in States /\ state.workflow_id \in Nat /\ state.deployment_plan.id \in Nat /\ MaxRuns \in Nat
  BY LimitsAssumption DEF TypeOK, States, Plans
<1>1. CASE TerraformPlan
  <2>1. PICK s : /\ Leave("terraform_plan", s) /\ s.workflow_id = state.workflow_id
                 /\ s.deployment_plan.id = state.deployment_plan.id + 1
    BY <1>0, <1>1 DEF TerraformPlan, States
  <2>2. todo = {"terraform_plan"} /\ next = {}
    BY <2>1 DEF Leave, PipelineInv, Straight, Tail
  <2>3. todo' = {"await_approval"} /\ next' = {} /\ state' = s
    BY <2>1, <2>2, DeliverySuccessors DEF Leave
  <2>4. state.deployment_plan.id < state.workflow_id
    BY <2>2 DEF NumberInv, AfterPlan, Late
  <2> QED
    BY <1>0, <2>1, <2>3, <2>4 DEF NumberInv, AfterPlan, Late
<1>2. CASE RunNode /\ ~TerraformPlan
  <2>1. NumbersKept
    <3>1. CASE TerraformApply
      BY <1>0, <3>1 DEF TerraformApply, Leave, NumbersKept, States
    <3> QED
      BY <1>0, <1>2, <3>1, DesignNodesKeepApproval, DeliveryNodesKeepApproval DEF RunNode
  <2>2. CASE RefuseInventory
    BY <2>1, <2>2, NumbersStay DEF RefuseInventory, Stop
  <2>3. CASE \E n \in Nodes \ {"terraform_plan"} : \E s : Leave(n, s)
    <3>0. PICK n \in Nodes \ {"terraform_plan"} : \E s : Leave(n, s)
      BY <2>3
    <3>1. PICK s : Leave(n, s)
      BY <3>0
    <3>2. /\ todo' \cup next' \subseteq todo \cup next \cup Successors(n, s)
          /\ n \in todo
      BY <3>1 DEF Leave
    <3>3. /\ "await_approval" \notin Successors(n, s)
          /\ "terraform_apply" \in Successors(n, s) => n = "await_approval"
      BY PlanSuccessors
    <3> QED
      BY <2>1, <3>2, <3>3, PlanSuccessors DEF NumberInv, NumbersKept
  <2> QED
    BY <1>2, <2>2, <2>3, StepsOfNodes
<1>3. CASE User \/ Crash \/ CrashAfterApply \/ Recover \/ UNCHANGED vars
  <2>1. UNCHANGED <<todo, next>>
    BY <1>3 DEF User, AnswerSome, AnswerAll, Answer, Decide, ResumeWithoutRecord, Resume, Crash,
                CrashAfterApply, Stop, Recover, vars, control
  <2>2. NumbersKept
    <3> USE <1>0 DEF NumbersKept, States, Resume
    <3>1. CASE AnswerSome \/ AnswerAll
      BY <3>1 DEF AnswerSome, AnswerAll, Answer
    <3>2. CASE \E decision \in Decisions : Decide(decision)
      BY <3>2 DEF Decide
    <3>3. CASE \E flag \in {"False", "True", "truthy"} : ResumeWithoutRecord(flag)
      BY <3>3 DEF ResumeWithoutRecord
    <3>4. CASE Crash \/ CrashAfterApply \/ Recover \/ UNCHANGED vars
      BY <3>4 DEF Crash, CrashAfterApply, Stop, Recover, vars
    <3> QED
      BY <1>3, <3>1, <3>2, <3>3, <3>4 DEF User
  <2> QED
    BY <2>1, <2>2, NumbersStay
<1>4. CASE StartWorkflow
  <2>1. PICK input \in InputModes : state' = Restarted(state, input)
    BY <1>4 DEF StartWorkflow
  <2>2. /\ state'.workflow_id = state.workflow_id + 1
        /\ state'.deployment_plan = state.deployment_plan
    BY <1>0, <2>1 DEF Restarted, States
  <2> QED
    BY <1>0, <1>4, <2>2 DEF StartWorkflow, EntryPoint, NumberInv
<1> QED
  BY <1>1, <1>2, <1>3, <1>4 DEF Next

LEMMA NumbersAlways == Spec => []NumberInv
<1>1. Init => NumberInv
  BY LimitsAssumption DEF Init, Fresh, NoPlan, EntryPoint, NumberInv
<1> QED
  BY <1>1, NextKeepsNumbers, PipelineAlways, TypeCorrect, PTL DEF Spec

\* The phase of a node that is alone.
PhaseOf(n) ==
  IF n \in SettlingNodes THEN "settling"
  ELSE IF n \in {"rejected", "failed"} THEN n
  ELSE IF n = "terraform_apply" THEN "applying"
  ELSE IF n = "await_approval" THEN "deciding"
  ELSE IF n \in GeneratingNodes THEN "generating"
  ELSE IF n \in {"rag_translate", "validate_cloud_architecture"} THEN "translating"
  ELSE "drafting"

LEMMA PhaseAlone == ASSUME NEW n PROVE PhaseAt({n}) = PhaseOf(n)
BY DEF PhaseAt, PhaseOf, SettlingNodes, GeneratingNodes

LEMMA PhaseSettled ==
  ASSUME NEW position, position \cap SettlingNodes # {}
  PROVE  PhaseAt(position) = "settling"
BY DEF PhaseAt

\* Along the graph the phases follow each other as the contract says.
LEMMA EdgesFollow ==
  ASSUME NEW n \in Nodes \ (Tail \cup {"collect_outputs", "rejected"}), NEW s
  PROVE  \E m \in Nodes : /\ Successors(n, s) = {m}
                          /\ PhaseOf(m) \in Contract!Follows[PhaseOf(n)] \cup {PhaseOf(n)}
<1> USE DEF PhaseOf, SettlingNodes, GeneratingNodes, Contract!Follows, Tail
<1>1. CASE n \in DOMAIN Edges
  <2>1. Successors(n, s) = {Edges[n]} /\ Edges[n] \in Nodes
    BY <1>1 DEF Successors, Edges, Branches, Nodes
  <2>2. PhaseOf(Edges[n]) \in Contract!Follows[PhaseOf(n)] \cup {PhaseOf(n)}
    BY <1>1 DEF Edges
  <2> QED
    BY <2>1, <2>2
<1>2. CASE n \in DOMAIN Branches
  <2>1. \A l \in DOMAIN Branches[n] :
          PhaseOf(Branches[n][l]) \in Contract!Follows[PhaseOf(n)] \cup {PhaseOf(n)}
    BY <1>2 DEF Branches
  <2>2. Successors(n, s) = {Branches[n][Route(n, s)]} \ {"END"} /\ n \notin DOMAIN Edges
    BY <1>2 DEF Successors, Edges, Branches
  <2>3. Branches[n][Route(n, s)] \in Nodes /\ Route(n, s) \in DOMAIN Branches[n]
    BY <1>2, RoutesAreLabels
  <2>4. "END" \notin Nodes
    BY DEF Nodes, Edges, Branches
  <2> QED
    BY <2>1, <2>2, <2>3, <2>4
<1> QED
  BY <1>1, <1>2 DEF Nodes

\* Nodes before the tail advance the delivery or leave it where it is.
LEMMA NodesAdvance ==
  ASSUME PipelineInv, SettleInv,
         NEW n \in Nodes \ (Tail \cup {"rejected"}), NEW s, Leave(n, s), ended' = ended
  PROVE  /\ Position = {n} /\ phase = PhaseOf(n)
         /\ phase' \in Contract!Follows[phase] \cup {phase}
<1>1. todo = {n} /\ next = {} /\ ended = {} /\ Position = {n}
  BY AloneBeforeTail DEF Leave, Position
<1>2. Position' = Successors(n, s)
  BY <1>1 DEF Leave, Position
<1>3. phase = PhaseOf(n)
  BY <1>1, PhaseAlone DEF phase
<1>4. CASE n = "collect_outputs"
  <2>1. Position' \cap SettlingNodes # {}
    BY <1>2, <1>4, TailSuccessors DEF SettlingNodes
  <2>2. phase' = "settling"
    BY <2>1, PhaseSettled DEF phase
  <2>3. phase = "settling"
    BY <1>3, <1>4 DEF PhaseOf, SettlingNodes
  <2> QED
    BY <1>1, <1>3, <2>2, <2>3
<1>5. CASE n # "collect_outputs"
  BY <1>1, <1>2, <1>3, <1>5, EdgesFollow, PhaseAlone DEF phase
<1> QED
  BY <1>1, <1>3, <1>4, <1>5

\* From the tail on the phase is settled.
LEMMA TailStays ==
  ASSUME PipelineInv, SettleInv, NEW n \in Tail \cup {"rejected"}, NEW s, Leave(n, s),
         ended' = IF n \in Terminals THEN ended \cup {n} ELSE ended
  PROVE  phase' = phase
<1>1. n \in todo
  BY DEF Leave
<1>2. CASE n = "rejected"
  <2>1. Position = {n} /\ Position' = {n}
    BY <1>1, <1>2, AloneBeforeTail, DeliverySuccessors, NodeNames
       DEF Leave, Position, Tail, Terminals
  <2> QED
    BY <2>1 DEF phase
<1>3. CASE n = "failed"
  <2>1. Position' = Position
    BY <1>1, <1>3, TailSuccessors DEF Leave, Position, Terminals
  <2> QED
    BY <2>1 DEF phase
<1>4. CASE n \in {"generate_inventory", "run_configuration", "complete"}
  <2>1. Position' \cap SettlingNodes # {}
    BY <1>1, <1>4, TailSuccessors DEF Leave, Position, SettlingNodes, Terminals
  <2>2. Position \cap SettlingNodes # {}
    BY <1>1, <1>4 DEF Position, SettlingNodes
  <2> QED
    BY <2>1, <2>2, PhaseSettled DEF phase
<1> QED
  BY <1>2, <1>3, <1>4 DEF Tail

LEMMA ConsentOfNodes ==
  ASSUME TypeOK, RunNode, ~TerraformApply
  PROVE  UNCHANGED <<consented, applied>>
BY DesignNodesKeepApproval, DeliveryNodesKeepApproval DEF RunNode, TypeOK, ApprovalKept

LEMMA NodesKeepContract ==
  ASSUME TypeOK, PipelineInv, SettleInv, NumberInv, ConsentInv, RunNode
  PROVE  [Contract!Next]_Contract!vars
<1> USE DEF Contract!Next, Contract!vars
<1>1. CASE TerraformApply
  <2>1. PICK s : Leave("terraform_apply", s)
    BY <1>1 DEF TerraformApply
  <2>2. /\ ended' = ended /\ consented' = consented
        /\ applied' = applied \cup {state.deployment_plan.id}
        /\ state.deployment_plan.id \in consented
    BY <1>1, GateNeedsConsent DEF TerraformApply, TouchAccount
  <2>3. phase = "applying" /\ phase' \in {"applying", "settling"}
    BY <2>1, <2>2, NodesAdvance, NodeNames
       DEF PhaseOf, SettlingNodes, Contract!Follows, Tail
  <2>4. state.deployment_plan.id \in 1 .. MaxRuns
    BY <2>1, LimitsAssumption DEF Leave, NumberInv, TypeOK, States, Plans
  <2>5. Contract!Apply(state.deployment_plan.id)
    BY <2>2, <2>3 DEF Contract!Apply
  <2> QED
    BY <2>4, <2>5
<1>2. CASE ~TerraformApply
  <2>0. UNCHANGED <<consented, applied>>
    BY <1>2, ConsentOfNodes
  <2>1. SUFFICES phase' \in Contract!Follows[phase] \cup {phase}
    BY <2>0 DEF Contract!Advance
  <2>2. CASE RefuseInventory
    BY <2>2 DEF RefuseInventory, Stop, history, phase, Position
  <2>3. CASE \E n \in Terminals : Finish(n)
    <3>1. PICK n \in Terminals : Leave(n, state) /\ ended' = ended \cup {n}
      BY <2>3 DEF Finish
    <3>2. n \in Tail \cup {"rejected"}
      BY DEF Terminals, Tail
    <3> QED
      BY <3>1, <3>2, TailStays
  <2>4. CASE GenerateInventory \/ RunConfiguration
    <3>1. PICK n \in {"generate_inventory", "run_configuration"} : \E s : Leave(n, s)
      BY <2>4 DEF GenerateInventory, RunConfiguration
    <3>2. ended' = ended /\ n \in Tail /\ n \notin Terminals
      BY <2>4 DEF GenerateInventory, RunConfiguration, history, Tail, Terminals
    <3> QED
      BY <3>1, <3>2, TailStays
  <2>5. CASE ~(RefuseInventory \/ GenerateInventory \/ RunConfiguration
                 \/ \E n \in Terminals : Finish(n))
    <3>1. PICK n \in Nodes \ (Tail \cup {"rejected"}) :
            (\E s : Leave(n, s)) /\ ended' = ended
      BY <1>2, <2>5, NodeNames
         DEF RunNode, DetectInputMode, Extract, BuildTopology,
             AnalyzeCompleteness, AwaitClarification, EnrichNetwork, ValidateNetwork,
             FinaliseNetwork, RagTranslate, ValidateCloud, GenerateTerraform,
             ValidateTerraform, GenerateAnsible, ValidateAnsible, DeploymentReview,
             TerraformPlan, AwaitApproval, RefuseApply, CollectOutputs,
             ExtractionNodes, Tail, history
    <3> QED
      BY <3>1, NodesAdvance
  <2> QED
    BY <2>2, <2>3, <2>4, <2>5
<1> QED
  BY <1>1, <1>2

LEMMA OthersKeepContract ==
  ASSUME TypeOK, PipelineInv, SettleInv, NumberInv, ConsentInv,
         User \/ Crash \/ CrashAfterApply \/ Recover \/ StartWorkflow \/ UNCHANGED vars
  PROVE  [Contract!Next]_Contract!vars
<1> USE DEF Contract!Next, Contract!vars
<1>0. ASSUME UNCHANGED <<todo, next, ended>> PROVE phase' = phase
  BY <1>0 DEF phase, Position
<1>1. CASE AnswerSome \/ AnswerAll \/ Crash \/ Recover \/ UNCHANGED vars
           \/ \E flag \in {"False", "True", "truthy"} : ResumeWithoutRecord(flag)
  <2>1. UNCHANGED <<todo, next, ended, consented, applied>>
    BY <1>1 DEF AnswerSome, AnswerAll, Answer, ResumeWithoutRecord, Resume, Crash, Stop,
                Recover, vars, control, history
  <2> QED
    BY <1>0, <2>1
<1>2. CASE \E decision \in Decisions : Decide(decision)
  <2>1. /\ UNCHANGED <<todo, next, ended, applied>> /\ "await_approval" \in todo
        /\ consented' \in {consented, consented \cup {state.deployment_plan.id}}
    BY <1>2 DEF Decide, Resume
  <2>2. todo = {"await_approval"} /\ next = {} /\ ended = {}
    BY <2>1, AloneBeforeTail, NodeNames DEF Tail
  <2>3. phase = "deciding"
    <3>1. Position = {"await_approval"}
      BY <2>2 DEF Position
    <3> QED
      BY <3>1, PhaseAlone DEF phase, PhaseOf, SettlingNodes
  <2>4. state.deployment_plan.id \in 1 .. MaxRuns
    BY <2>1, LimitsAssumption DEF NumberInv, TypeOK, States, Plans
  <2> QED
    BY <1>0, <2>1, <2>3, <2>4 DEF Contract!Consent
<1>3. CASE CrashAfterApply
  <2>1. /\ UNCHANGED <<todo, next, ended, consented>> /\ "terraform_apply" \in todo
        /\ applied' = applied \cup {state.deployment_plan.id}
        /\ state.deployment_plan.id \in consented
    BY <1>3, GateNeedsConsent DEF CrashAfterApply, Stop, TouchAccount
  <2>2. Position = {"terraform_apply"}
    BY <2>1, AloneBeforeTail, NodeNames DEF Tail, Position
  <2>3. phase = "applying"
    BY <2>2, PhaseAlone DEF phase, PhaseOf, SettlingNodes
  <2>4. state.deployment_plan.id \in 1 .. MaxRuns
    BY <2>1, LimitsAssumption DEF NumberInv, TypeOK, States, Plans
  <2> QED
    BY <1>0, <2>1, <2>3, <2>4 DEF Contract!Apply
<1>4. CASE StartWorkflow
  <2>1. Position' = {"detect_input_mode"} /\ UNCHANGED <<consented, applied>>
    BY <1>4 DEF StartWorkflow, EntryPoint, Position
  <2>2. phase' = "drafting"
    BY <2>1, PhaseAlone DEF phase, PhaseOf, SettlingNodes, GeneratingNodes
  <2> QED
    BY <2>1, <2>2 DEF Contract!Restart
<1> QED
  BY <1>1, <1>2, <1>3, <1>4 DEF User

\* Every behaviour of the workflow, with its crashes, restarts and malformed resumes, is a
\* behaviour of the contract: no phase is skipped, and an apply follows a consent to it.
THEOREM KeepsTheContract == Spec => ContractSpec
<1>1. Init => Contract!Init
  <2> SUFFICES ASSUME Init PROVE Contract!Init
    OBVIOUS
  <2>1. Position = {"detect_input_mode"}
    BY DEF Init, EntryPoint, Position
  <2> QED
    BY <2>1, PhaseAlone DEF Init, Contract!Init, phase, PhaseOf, SettlingNodes, GeneratingNodes
<1>2. TypeOK /\ PipelineInv /\ SettleInv /\ NumberInv /\ ConsentInv /\ [Next]_vars
        => [Contract!Next]_Contract!vars
  BY NodesKeepContract, OthersKeepContract DEF Next
<1> QED
  BY <1>1, <1>2, TypeCorrect, PipelineAlways, SettleAlways, NumbersAlways, ConsentAlways, PTL
     DEF Spec, ContractSpec, Contract!Spec
===============================================================================
