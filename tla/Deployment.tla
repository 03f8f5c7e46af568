------------------------------- MODULE Deployment -------------------------------
(***************************************************************************)
(* One DeploymentState of src/domain/deployment/models.py over its life:    *)
(* plans of code that is regenerated against a cloud that drifts, reviewers *)
(* who decide about the plan on their screen while it is replaced or        *)
(* refreshed under them, the gate may_apply, and the stages the deployment  *)
(* view shows.  The callers of the aggregate are not in the repository:     *)
(* their steps are the uses that the port InfrastructureExecutor, the       *)
(* documents and the tests describe.                                        *)
(***************************************************************************)
EXTENDS Naturals, Sequences, Approval

CONSTANTS
  Addresses,   \* addresses of resources
  Codes,       \* fingerprints of generated projects
  Wants,       \* for every code, the addresses it declares
  Contents,    \* what a resource may have been changed to outside the code
  Reviewers,
  MaxPlans     \* bound: plan ids produced

ASSUME DeploymentAssumption ==
  /\ Wants \in [Codes -> SUBSET Addresses] /\ MaxPlans \in Nat
  /\ {"none", "desired"} \cap Contents = {}

VARIABLES
  project,      \* fingerprint of the stored project
  cloud,        \* remote state: what is at every address
  plan, approval, stage, completed_stages, failed,   \* of the DeploymentState
  plans,        \* plan ids handed out
  screen,       \* per reviewer: the plan being looked at
  granted,      \* history: the plan that was on the screen at the last approval
  applied       \* history: the last plan applied, and `granted' at that moment

view == <<stage, completed_stages, failed>>
vars == <<project, cloud, plan, approval, view, plans, screen, granted, applied>>

\* A stage is its position in the order the deployment view renders.
DEPLOYMENT_STAGE_ORDER ==
  <<"cloud_architecture", "terraform_generated", "terraform_validated",
    "ansible_generated", "ansible_validated", "plan_ready", "awaiting_approval",
    "infrastructure_applied", "inventory_generated", "configuration_applied", "complete">>

Stage(name) == CHOOSE i \in 1 .. Len(DEPLOYMENT_STAGE_ORDER) : DEPLOYMENT_STAGE_ORDER[i] = name

NoPlan == [id |-> 0, fingerprint |-> "", changes |-> {}]
NoApproval == [plan_id |-> 0, plan_checksum |-> Checksum(NoPlan), decision |-> "none"]

Init ==
  /\ project \in Codes /\ cloud = [a \in Addresses |-> "none"]
  /\ plan = NoPlan /\ approval = NoApproval /\ plans = 0
  /\ stage = Stage("cloud_architecture") /\ completed_stages = {} /\ failed = FALSE
  /\ screen = [r \in Reviewers |-> NoPlan]
  /\ granted = NoPlan /\ applied = [plan |-> NoPlan, seen |-> NoPlan]

--------------------------------------------------------------------------------
\* What the toolchain plans for the stored project against the remote state: the
\* details of a change are what is replaced.  An address that needs nothing is NO_OP
\* and is left out of the set.
Planned(id) ==
  LET missing == {a \in Wants[project] : cloud[a] = "none"}
      drifted == {a \in Wants[project] : cloud[a] \in Contents}
      extra   == {a \in Addresses \ Wants[project] : cloud[a] # "none"}
  IN [id |-> id, fingerprint |-> project,
      changes |->
        {[address |-> a, action |-> "create", details |-> "none"] : a \in missing}
        \cup {[address |-> a, action |-> "update", details |-> cloud[a]] : a \in drifted}
        \cup {[address |-> a, action |-> "delete", details |-> "none"] : a \in extra}]

\* Slip: only the stage just left is remembered.
CompletedForgetting(s) == IF stage # s THEN {stage} ELSE completed_stages

\* What advanced_to(s) makes of completed_stages.
CompletedAfter(s) == IF stage # s THEN completed_stages \cup {stage} ELSE completed_stages

\* advanced_to takes any stage: a later one, an earlier one or the present one.
advanced_to(name) ==
  /\ completed_stages' = CompletedAfter(Stage(name)) /\ stage' = Stage(name)
  /\ UNCHANGED failed

\* The code is generated again; the cloud is changed by somebody else.
Regenerate(code) ==
  /\ code # project /\ project' = code /\ advanced_to("terraform_generated")
  /\ UNCHANGED <<cloud, plan, approval, plans, screen, granted, applied>>

Drift(a, content) ==
  /\ cloud[a] # content /\ cloud' = [cloud EXCEPT ![a] = content]
  /\ UNCHANGED <<project, plan, approval, view, plans, screen, granted, applied>>

\* Slip: the id is not marked as used.
ReplanWithoutNewId ==
  /\ plans < MaxPlans /\ plan' = Planned(plans + 1) /\ advanced_to("plan_ready")
  /\ UNCHANGED <<project, cloud, approval, plans, screen, granted, applied>>

\* InfrastructureExecutor.plan: a DeploymentPlan with an id of its own; the
\* DeploymentState is copied with it (model_copy validates nothing).
Replan ==
  /\ plans < MaxPlans /\ plans' = plans + 1
  /\ plan' = Planned(plans + 1) /\ advanced_to("plan_ready")
  /\ UNCHANGED <<project, cloud, approval, screen, granted, applied>>

\* The plan has moved: the same id with other content.
Refresh ==
  /\ plan # NoPlan /\ plan' = Planned(plan.id)
  /\ plan' # plan
  /\ UNCHANGED <<project, cloud, approval, view, plans, screen, granted, applied>>

Open(r) ==
  /\ plan # NoPlan /\ screen' = [screen EXCEPT ![r] = plan]
  /\ advanced_to("awaiting_approval")
  /\ UNCHANGED <<project, cloud, plan, approval, plans, granted, applied>>

\* The record names the plan that was seen and is attached by copying the state.
Decide(r, decision) ==
  /\ screen[r] # NoPlan
  /\ approval' = RecordFor(screen[r], decision)
  /\ granted' = IF decision = "approved" THEN screen[r] ELSE granted
  /\ screen' = [screen EXCEPT ![r] = NoPlan]
  /\ UNCHANGED <<project, cloud, plan, view, plans, applied>>

\* DeploymentState.may_apply.
may_apply == plan # NoPlan /\ approval # NoApproval /\ Authorises(approval, plan)

\* Every change of the plan takes effect.
Apply ==
  /\ may_apply /\ applied' = [plan |-> plan, seen |-> granted]
  /\ advanced_to("infrastructure_applied")
  /\ cloud' = [a \in Addresses |->
       LET acts == {c.action : c \in {c \in plan.changes : c.address = a}} IN
         IF "delete" \in acts THEN "none"
         ELSE IF acts # {} THEN "desired" ELSE cloud[a]]
  /\ UNCHANGED <<project, plan, approval, plans, screen, granted>>

\* The caller marks the deployment failed where it is, or clears the mark.
Mark(flag) ==
  /\ failed' = flag
  /\ UNCHANGED <<project, cloud, plan, approval, stage, completed_stages, plans, screen,
                 granted, applied>>

Next ==
  \/ \E code \in Codes : Regenerate(code)
  \/ \E a \in Addresses, content \in Contents \cup {"none"} : Drift(a, content)
  \/ Replan \/ Refresh
  \/ \E r \in Reviewers : Open(r) \/ \E d \in Decisions : Decide(r, d)
  \/ Apply
  \/ \E flag \in BOOLEAN : Mark(flag)

Spec == Init /\ [][Next]_vars

\* The status progress() gives to a stage.
progress(i) ==
  IF failed /\ i = stage THEN "failed"
  ELSE IF i < stage \/ i \in completed_stages THEN "complete"
  ELSE IF i = stage THEN "active"
  ELSE "pending"

--------------------------------------------------------------------------------
(* Properties.                                                               *)

Changes == [address : Addresses, action : {"create", "update", "delete"},
            details : Contents \cup {"none"}]

Plans == [id : 1 .. MaxPlans, fingerprint : Codes, changes : SUBSET Changes]

\* Plans and records stay in their domains.
TypeOK ==
  /\ project \in Codes /\ cloud \in [Addresses -> Contents \cup {"none", "desired"}]
  /\ stage \in 1 .. Len(DEPLOYMENT_STAGE_ORDER)
  /\ completed_stages \subseteq 1 .. Len(DEPLOYMENT_STAGE_ORDER) /\ failed \in BOOLEAN
  /\ plans \in 0 .. MaxPlans /\ plan \in Plans \cup {NoPlan}
  /\ screen \in [Reviewers -> Plans \cup {NoPlan}]
  /\ approval.plan_id \in 0 .. plans
  /\ granted \in Plans \cup {NoPlan}
  /\ applied \in [plan : Plans \cup {NoPlan}, seen : Plans \cup {NoPlan}]

\* Whatever is replanned, refreshed, regenerated or decided late in between, what is
\* applied is what a reviewer had on the screen when approving: the same plan, the same
\* code, the same actions on the same addresses (ApprovalRecord.authorises).
AppliedAsSeen ==
  /\ applied.plan.id = applied.seen.id
  /\ Checksum(applied.plan) = Checksum(applied.seen)

\* Whatever the deployment goes back to, its view never shows as still to come what has
\* happened: a plan, a review, an apply (advanced_to, progress).
ViewForgetsNothing ==
  /\ plan # NoPlan => progress(Stage("plan_ready")) # "pending"
  /\ granted # NoPlan => progress(Stage("awaiting_approval")) # "pending"
  /\ applied.plan # NoPlan => progress(Stage("infrastructure_applied")) # "pending"

\* The inductive invariant behind AppliedAsSeen: the record on the deployment is the one
\* of the last plan approved.
GateInv ==
  /\ IsApproved(approval) => granted # NoPlan /\ approval = RecordFor(granted, "approved")
  /\ AppliedAsSeen
===============================================================================
