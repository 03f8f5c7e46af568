------------------------------- MODULE MCWorkflow -------------------------------
(* Workflow for TLC: values for the constants that a cfg cannot write.        *)
EXTENDS WorkflowRefinement

CONSTANTS q1

\* A translation with no configuration, with hosts that have no roles, and with both.
AllConfigurations == {{}, {"hosts"}, {"hosts", "roles"}}

===============================================================================
