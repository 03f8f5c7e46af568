---------------------------- MODULE DeliveryContract ----------------------------
(***************************************************************************)
(* What the delivery workflow promises, without the graph: the phases come  *)
(* in order and none is skipped, a plan is applied only in the phase that   *)
(* follows a human's decision, and only if a human approved that plan.      *)
(* Workflow implements it (see WorkflowRefinement).                         *)
(***************************************************************************)
EXTENDS Naturals

CONSTANT Plans   \* ids of plans

VARIABLES
  phase,      \* where the delivery is
  consented,  \* plans a human approved
  applied     \* plans whose apply touched the account

vars == <<phase, consented, applied>>

\* The phases, each with those that may follow it.
Follows ==
  [drafting    |-> {"translating", "failed"},
   translating |-> {"generating", "failed"},
   generating  |-> {"deciding", "failed"},
   deciding    |-> {"applying", "rejected"},
   applying    |-> {"settling"},
   settling    |-> {},
   rejected    |-> {},
   failed      |-> {}]

Phases == DOMAIN Follows

Init == phase = "drafting" /\ consented = {} /\ applied = {}

Advance == phase' \in Follows[phase] /\ UNCHANGED <<consented, applied>>

\* Delivery starts over from the input, whatever had been reached.
Restart == phase' = "drafting" /\ UNCHANGED <<consented, applied>>

Consent(p) ==
  /\ phase = "deciding" /\ phase' = phase
  /\ consented' = consented \cup {p} /\ UNCHANGED applied

\* The account is touched, and the delivery goes on or dies at once.
Apply(p) ==
  /\ phase = "applying" /\ p \in consented
  /\ applied' = applied \cup {p}
  /\ phase' \in {"applying", "settling"}
  /\ UNCHANGED consented

Next == Advance \/ Restart \/ \E p \in Plans : Consent(p) \/ Apply(p)

Spec == Init /\ [][Next]_vars
===============================================================================
