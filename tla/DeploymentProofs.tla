---------------------------- MODULE DeploymentProofs ----------------------------
(***************************************************************************)
(* Proofs about Deployment.                                                 *)
(***************************************************************************)
EXTENDS Deployment, TLAPS

\* The record on the deployment and the last apply agree with the last approval: the
\* inductive invariant of the gate.
LEMMA GateStep == GateInv /\ [Next]_vars => GateInv'
<1> SUFFICES ASSUME GateInv, [Next]_vars PROVE GateInv'
  OBVIOUS
<1> USE DEF GateInv, AppliedAsSeen
<1>1. ASSUME NEW code \in Codes, Regenerate(code) PROVE GateInv'
  BY <1>1 DEF Regenerate
<1>2. ASSUME NEW a \in Addresses, NEW content \in Contents \cup {"none"}, Drift(a, content)
      PROVE GateInv'
  BY <1>2 DEF Drift
<1>3. ASSUME Replan PROVE GateInv'
  BY <1>3 DEF Replan
<1>4. ASSUME Refresh PROVE GateInv'
  BY <1>4 DEF Refresh
<1>5. ASSUME NEW r \in Reviewers, Open(r) PROVE GateInv'
  BY <1>5 DEF Open
<1>6. ASSUME NEW r \in Reviewers, NEW d \in Decisions, Decide(r, d) PROVE GateInv'
  <2>1. CASE d = "approved"
    BY <1>6, <2>1 DEF Decide
  <2>2. CASE d # "approved"
    <3>1. ~IsApproved(approval')
      BY <1>6, <2>2 DEF Decide, IsApproved, RecordFor
    <3>2. QED
      BY <1>6, <3>1 DEF Decide, IsApproved
  <2>3. QED
    BY <2>1, <2>2
<1>7. ASSUME Apply PROVE GateInv'
  <2>1. IsApproved(approval) /\ approval.plan_id = plan.id
        /\ approval.plan_checksum = Checksum(plan)
    BY <1>7 DEF Apply, may_apply, Authorises
  <2>2. granted.id = plan.id /\ Checksum(granted) = Checksum(plan)
    BY <2>1 DEF RecordFor
  <2>3. AppliedAsSeen'
    BY <1>7, <2>2 DEF Apply, Checksum
  <2>4. (IsApproved(approval) => granted # NoPlan /\ approval = RecordFor(granted, "approved"))'
    BY <1>7 DEF Apply, IsApproved
  <2>5. QED
    BY <2>3, <2>4
<1>8. ASSUME NEW flag \in BOOLEAN, Mark(flag) PROVE GateInv'
  BY <1>8 DEF Mark
<1>9. CASE UNCHANGED vars
  BY <1>9 DEF vars
<1>10. QED
  BY <1>1, <1>2, <1>3, <1>4, <1>5, <1>6, <1>7, <1>8, <1>9 DEF Next

\* Whatever the reviewers, the toolchain and the cloud do in between, what is applied is
\* the plan a reviewer had on the screen when approving it: the same id, code and actions
\* (ApprovalRecord.authorises).
THEOREM ApplyIsAsSeen == Spec => []AppliedAsSeen
<1>1. Init => GateInv
  BY DEF Init, GateInv, AppliedAsSeen, NoApproval, IsApproved
<1>2. GateInv => AppliedAsSeen
  BY DEF GateInv
<1>3. QED
  BY <1>1, <1>2, GateStep, PTL DEF Spec

--------------------------------------------------------------------------------
Seen(i) == i = stage \/ i \in completed_stages

\* What has happened was the stage once, a review with the first plan on a screen: the
\* inductive invariant behind ViewForgetsNothing.
ViewInv ==
  /\ DOMAIN screen = Reviewers
  /\ plan # NoPlan => Seen(Stage("plan_ready"))
  /\ \A r \in Reviewers : screen[r] # NoPlan => Seen(Stage("awaiting_approval"))
  /\ granted # NoPlan => Seen(Stage("awaiting_approval"))
  /\ applied.plan # NoPlan => Seen(Stage("infrastructure_applied"))

\* To advance, to whatever stage, makes that one seen and forgets none.
LEMMA AdvancingKeeps ==
  ASSUME NEW name, advanced_to(name)
  PROVE  Seen(Stage(name))' /\ \A i : Seen(i) => Seen(i)'
BY DEF advanced_to, CompletedAfter, Seen

LEMMA ViewStep == ViewInv /\ [Next]_vars => ViewInv'
<1> SUFFICES ASSUME ViewInv, [Next]_vars PROVE ViewInv'
  OBVIOUS
<1> USE DEF ViewInv
<1>1. ASSUME NEW code \in Codes, Regenerate(code) PROVE ViewInv'
  BY <1>1, AdvancingKeeps DEF Regenerate
<1>2. ASSUME NEW a \in Addresses, NEW content \in Contents \cup {"none"}, Drift(a, content)
      PROVE ViewInv'
  BY <1>2 DEF Drift, view, Seen
<1>3. ASSUME Replan PROVE ViewInv'
  BY <1>3, AdvancingKeeps DEF Replan
<1>4. ASSUME Refresh PROVE ViewInv'
  BY <1>4 DEF Refresh, view, Seen
<1>5. ASSUME NEW r \in Reviewers, Open(r) PROVE ViewInv'
  BY <1>5, AdvancingKeeps DEF Open
<1>6. ASSUME NEW r \in Reviewers, NEW d \in Decisions, Decide(r, d) PROVE ViewInv'
  BY <1>6 DEF Decide, view, Seen
<1>7. ASSUME Apply PROVE ViewInv'
  BY <1>7, AdvancingKeeps DEF Apply
<1>8. ASSUME NEW flag \in BOOLEAN, Mark(flag) PROVE ViewInv'
  BY <1>8 DEF Mark, Seen
<1>9. CASE UNCHANGED vars
  BY <1>9 DEF vars, view, Seen
<1>10. QED
  BY <1>1, <1>2, <1>3, <1>4, <1>5, <1>6, <1>7, <1>8, <1>9 DEF Next

\* Whatever the deployment goes back to, its view never shows a plan, a review or an apply
\* that has happened as still to come (advanced_to, progress).
THEOREM NothingIsForgotten == Spec => []ViewForgetsNothing
<1>1. Init => ViewInv
  BY DEF Init, ViewInv
<1>2. ViewInv => ViewForgetsNothing
  <2>1. \A i : Seen(i) => progress(i) # "pending"
    BY DEF Seen, progress
  <2>2. QED
    BY <2>1 DEF ViewInv, ViewForgetsNothing
<1>3. QED
  BY <1>1, <1>2, ViewStep, PTL DEF Spec

--------------------------------------------------------------------------------
\* The types, with what keeps them: no plan in sight has a number not handed out.
TypeInv ==
  /\ TypeOK
  /\ plan.id <= plans /\ \A r \in Reviewers : screen[r].id <= plans

LEMMA StageNumbers ==
  ASSUME NEW i \in 1 .. 11
  PROVE  /\ Len(DEPLOYMENT_STAGE_ORDER) = 11
         /\ Stage(DEPLOYMENT_STAGE_ORDER[i]) \in 1 .. 11
<1>1. Len(DEPLOYMENT_STAGE_ORDER) = 11
  BY DEF DEPLOYMENT_STAGE_ORDER
<1>2. \E j \in 1 .. 11 : DEPLOYMENT_STAGE_ORDER[j] = DEPLOYMENT_STAGE_ORDER[i]
  OBVIOUS
<1> QED
  BY <1>1, <1>2 DEF Stage

LEMMA StageNames ==
  \A name \in {"cloud_architecture", "terraform_generated", "plan_ready", "awaiting_approval",
              "infrastructure_applied"} : Stage(name) \in 1 .. 11
<1>1. /\ DEPLOYMENT_STAGE_ORDER[1] = "cloud_architecture"
      /\ DEPLOYMENT_STAGE_ORDER[2] = "terraform_generated"
      /\ DEPLOYMENT_STAGE_ORDER[6] = "plan_ready"
      /\ DEPLOYMENT_STAGE_ORDER[7] = "awaiting_approval"
      /\ DEPLOYMENT_STAGE_ORDER[8] = "infrastructure_applied"
  BY DEF DEPLOYMENT_STAGE_ORDER
<1> QED
  BY <1>1, StageNumbers

ViewOK == stage \in 1 .. 11 /\ completed_stages \subseteq 1 .. 11 /\ failed \in BOOLEAN

LEMMA AdvancingTypes ==
  ASSUME ViewOK,
         NEW name \in {"cloud_architecture", "terraform_generated", "plan_ready",
                      "awaiting_approval", "infrastructure_applied"},
         advanced_to(name)
  PROVE  ViewOK'
BY StageNames DEF ViewOK, advanced_to, CompletedAfter

LEMMA PlannedIsPlan ==
  ASSUME project \in Codes, cloud \in [Addresses -> Contents \cup {"none", "desired"}],
         NEW id \in 1 .. MaxPlans
  PROVE  Planned(id) \in Plans /\ Planned(id).id = id
<1>1. Wants[project] \subseteq Addresses
  BY DeploymentAssumption
<1> QED
  BY <1>1 DEF Planned, Plans, Changes

\* What TypeInv says of the plans, the records and the surroundings.
PlansOK ==
  /\ project \in Codes /\ cloud \in [Addresses -> Contents \cup {"none", "desired"}]
  /\ plans \in 0 .. MaxPlans /\ plan \in Plans \cup {NoPlan} /\ plan.id <= plans
  /\ screen \in [Reviewers -> Plans \cup {NoPlan}]
  /\ \A r \in Reviewers : screen[r].id <= plans
  /\ approval.plan_id \in 0 .. plans
  /\ granted \in Plans \cup {NoPlan}
  /\ applied \in [plan : Plans \cup {NoPlan}, seen : Plans \cup {NoPlan}]

LEMMA TypeParts == TypeInv <=> PlansOK /\ ViewOK
<1>1. Len(DEPLOYMENT_STAGE_ORDER) = 11
  BY DEF DEPLOYMENT_STAGE_ORDER
<1> QED
  BY <1>1 DEF TypeInv, TypeOK, PlansOK, ViewOK

LEMMA TypeStep == TypeInv /\ [Next]_vars => TypeInv'
<1> SUFFICES ASSUME PlansOK, ViewOK, [Next]_vars PROVE PlansOK' /\ ViewOK'
  BY TypeParts, PTL
<1>0. /\ MaxPlans \in Nat
      /\ \A p \in Plans \cup {NoPlan} : p.id \in 0 .. MaxPlans /\ (p # NoPlan => p.id >= 1)
  <2>1. NoPlan.id = 0
    BY DEF NoPlan
  <2>2. \A p \in Plans : p.id \in 1 .. MaxPlans
    BY DEF Plans
  <2> QED
    BY <2>1, <2>2, DeploymentAssumption
<1>1. ASSUME NEW code \in Codes, Regenerate(code) PROVE PlansOK' /\ ViewOK'
  BY <1>1, AdvancingTypes DEF Regenerate, PlansOK
<1>2. ASSUME NEW a \in Addresses, NEW content \in Contents \cup {"none"}, Drift(a, content)
      PROVE PlansOK' /\ ViewOK'
  BY <1>2 DEF Drift, view, PlansOK, ViewOK
<1>3. ASSUME Replan PROVE PlansOK' /\ ViewOK'
  <2>1. plans + 1 \in 1 .. MaxPlans
    BY <1>0, <1>3 DEF Replan, PlansOK
  <2>2. plan' \in Plans /\ plan'.id = plans + 1
    BY <1>3, <2>1, PlannedIsPlan DEF Replan, PlansOK
  <2>3. \A r \in Reviewers : screen[r].id <= plans + 1
    BY <1>0 DEF PlansOK
  <2> QED
    BY <1>0, <1>3, <2>1, <2>2, <2>3, AdvancingTypes DEF Replan, PlansOK
<1>4. ASSUME Refresh PROVE PlansOK' /\ ViewOK'
  <2>1. plan.id \in 1 .. MaxPlans
    BY <1>0, <1>4 DEF Refresh, PlansOK
  <2>2. plan' \in Plans /\ plan'.id = plan.id
    BY <1>4, <2>1, PlannedIsPlan DEF Refresh, PlansOK
  <2> QED
    BY <1>4, <2>2 DEF Refresh, view, PlansOK, ViewOK
<1>5. ASSUME NEW r \in Reviewers, Open(r) PROVE PlansOK' /\ ViewOK'
  BY <1>5, AdvancingTypes DEF Open, PlansOK
<1>6. ASSUME NEW r \in Reviewers, NEW d \in Decisions, Decide(r, d) PROVE PlansOK' /\ ViewOK'
  <2>1. approval'.plan_id = screen[r].id
    BY <1>6 DEF Decide, RecordFor
  <2>2. screen[r] \in Plans \cup {NoPlan} /\ screen[r].id \in 0 .. plans
    BY <1>0 DEF PlansOK
  <2>3. screen' \in [Reviewers -> Plans \cup {NoPlan}] /\ NoPlan.id <= plans
    <3>1. NoPlan.id = 0
      BY DEF NoPlan
    <3>2. 0 <= plans
      BY DeploymentAssumption DEF PlansOK
    <3> QED
      BY <1>6, <3>1, <3>2 DEF Decide, PlansOK
  <2>4. \A q \in Reviewers : screen'[q].id <= plans
    BY <1>6, <2>3 DEF Decide, PlansOK
  <2> QED
    BY <1>6, <2>1, <2>2, <2>3, <2>4 DEF Decide, view, PlansOK, ViewOK
<1>7. ASSUME Apply PROVE PlansOK' /\ ViewOK'
  <2>1. cloud' \in [Addresses -> Contents \cup {"none", "desired"}]
    BY <1>7 DEF Apply, PlansOK
  <2>2. applied' \in [plan : Plans \cup {NoPlan}, seen : Plans \cup {NoPlan}]
    BY <1>7 DEF Apply, PlansOK
  <2> QED
    BY <1>7, <2>1, <2>2, AdvancingTypes DEF Apply, PlansOK
<1>8. ASSUME NEW flag \in BOOLEAN, Mark(flag) PROVE PlansOK' /\ ViewOK'
  BY <1>8 DEF Mark, PlansOK, ViewOK
<1>9. CASE UNCHANGED vars
  BY <1>9 DEF vars, view, PlansOK, ViewOK
<1> QED
  BY <1>1, <1>2, <1>3, <1>4, <1>5, <1>6, <1>7, <1>8, <1>9 DEF Next

\* Plans, records and screens stay in their domains, and a record never names a plan whose
\* number was not handed out (DeploymentPlan, ApprovalRecord, DeploymentState).
THEOREM DeploymentTyped == Spec => []TypeOK
<1>1. Init => TypeInv
  <2> SUFFICES ASSUME Init PROVE PlansOK /\ ViewOK
    BY TypeParts
  <2>1. ViewOK
    BY StageNames DEF Init, ViewOK
  <2>0. /\ project \in Codes /\ cloud = [a \in Addresses |-> "none"]
        /\ plan = NoPlan /\ approval = NoApproval /\ plans = 0
        /\ screen = [r \in Reviewers |-> NoPlan]
        /\ granted = NoPlan /\ applied = [plan |-> NoPlan, seen |-> NoPlan]
    BY DEF Init
  <2>2. PlansOK
    <3>1. NoPlan.id = 0 /\ NoApproval.plan_id = 0
      BY DEF NoPlan, NoApproval
    <3> QED
      BY <2>0, <3>1, DeploymentAssumption DEF PlansOK
  <2> QED
    BY <2>1, <2>2
<1>2. TypeInv => TypeOK
  BY DEF TypeInv
<1> QED
  BY <1>1, <1>2, TypeStep, PTL DEF Spec
===============================================================================
