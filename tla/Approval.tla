------------------------------- MODULE Approval -------------------------------
(***************************************************************************)
(* The approval gate of src/domain/deployment/models.py: what a plan's      *)
(* checksum covers, and when an ApprovalRecord authorises applying a plan.  *)
(* These are pure operators; Workflow and Deployment are built on them.     *)
(*                                                                          *)
(* A plan is a record with the fields `id', `fingerprint' (of the generated *)
(* project it was produced from) and `changes', a set of records with the   *)
(* fields `address', `action' and possibly more (details, resource names).  *)
(***************************************************************************)
EXTENDS Naturals

Decisions == {"approved", "rejected"}

\* What DeploymentPlan.checksum hashes: the fingerprint and the (address,
\* action) of every change.  The sort by address makes the hash independent of
\* the order of the changes, so the covered part is a set; sha256 is taken to be
\* injective.  The id, the timestamp and the details of a change are left out.
Checksum(plan) ==
  [fingerprint |-> plan.fingerprint,
   changes |-> {[address |-> c.address, action |-> c.action] : c \in plan.changes}]

\* The record a reviewer's decision about `plan' produces.
RecordFor(plan, decision) ==
  [plan_id |-> plan.id, plan_checksum |-> Checksum(plan), decision |-> decision]

IsApproved(record) == record.decision = "approved"

\* Slip: the content is compared and the plan id forgotten.
AuthorisesByContent(record, plan) ==
  IsApproved(record) /\ record.plan_checksum = Checksum(plan)

\* Slip: the plan id is compared and the content forgotten.
AuthorisesById(record, plan) ==
  IsApproved(record) /\ record.plan_id = plan.id

\* ApprovalRecord.authorises: an approval, for this plan, whose content has not
\* changed since it was seen.
Authorises(record, plan) ==
  /\ IsApproved(record)
  /\ record.plan_id = plan.id
  /\ record.plan_checksum = Checksum(plan)
===============================================================================
