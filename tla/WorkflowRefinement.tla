--------------------------- MODULE WorkflowRefinement ---------------------------
(***************************************************************************)
(* The refinement mapping from Workflow to DeliveryContract.                *)
(***************************************************************************)
EXTENDS Workflow

GeneratingNodes ==
  {"generate_terraform", "validate_terraform", "generate_ansible", "validate_ansible",
   "deployment_review", "terraform_plan"}

SettlingNodes ==
  {"collect_outputs", "generate_inventory", "run_configuration", "complete"}

\* The phase that a set of nodes, scheduled or ended, stands for.
PhaseAt(position) ==
  IF position \cap SettlingNodes # {} THEN "settling"
  ELSE CASE "rejected" \in position -> "rejected"
         [] "failed" \in position -> "failed"
         [] "terraform_apply" \in position -> "applying"
         [] "await_approval" \in position -> "deciding"
         [] position \cap GeneratingNodes # {} -> "generating"
         [] position \cap {"rag_translate", "validate_cloud_architecture"} # {} -> "translating"
         [] OTHER -> "drafting"

\* It is read off the nodes scheduled, and once a workflow is done, off the terminal nodes
\* it has run.
Position == todo \cup next \cup ended

phase == PhaseAt(Position)

Contract == INSTANCE DeliveryContract WITH Plans <- 1 .. MaxRuns

\* Every behaviour of the workflow, with its crashes, restarts and malformed
\* resumes, is a behaviour of the contract.
ContractSpec == Contract!Spec
===============================================================================
