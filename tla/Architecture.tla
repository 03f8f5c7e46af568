------------------------------- MODULE Architecture -------------------------------
(***************************************************************************)
(* NetworkArchitecture and its revisions (src/domain/architecture):         *)
(* editors that check a revision out or restore an old document, edit,      *)
(* paste, analyse and validate a working copy, or commit it as the next     *)
(* revision, and the gate to the RAG it then has.  The editors and the      *)
(* store are not in the repository; their steps are calls of the            *)
(* aggregate's operations.                                                  *)
(***************************************************************************)
EXTENDS Naturals, FiniteSets

CONSTANTS
  Ids,          \* architectures
  Contents,     \* what nodes, edges, interfaces ... may say
  Findings,     \* for every content, what each validator reports about it
  Gaps,         \* for every content, the needs of the information it lacks
  Claims,       \* what pasted JSON may say of its own verdict: report, gaps and status
  Editors,
  MaxRevision,  \* bound: revision numbers
  MaxStored,    \* bound: revisions stored
  MaxEdits      \* bound: changes made to working copies

Severities == {"error", "warning", "info"}
Needs == {"REQUIRED", "RECOMMENDED", "OPTIONAL", "DERIVABLE", "ERROR"}
Validators == {"addressing", "topology"}
Statuses == {"draft", "validated", "invalid", "needs_input"}
Reports == [valid : BOOLEAN, errors : SUBSET Severities, others : SUBSET Severities]

ASSUME ArchitectureAssumption ==
  /\ Findings \in [Contents -> [Validators -> SUBSET Severities]]
  /\ Gaps \in [Contents -> SUBSET Needs]
  /\ Claims \subseteq [report : Reports, missing : SUBSET Needs, status : Statuses]
  /\ MaxRevision \in Nat \ {0} /\ MaxStored \in Nat /\ MaxEdits \in Nat

VARIABLES
  stored,      \* ArchitectureRevisions in the store
  working,     \* per editor: the working copy
  base,        \* per editor: id and number of the revision succeed is called on
  fresh,       \* history, per editor: nothing changed since the last with_validation
  edits        \* changes so far

vars == <<stored, working, base, fresh, edits>>

--------------------------------------------------------------------------------
(* ValidationReport and the gate.                                            *)

\* ValidationReport.from_issues; an issue is told apart by its severity alone.
FromIssues(issues) ==
  [valid |-> "error" \notin issues, errors |-> issues \cap {"error"},
   others |-> issues \ {"error"}]

\* Slip: only the findings that do not block are carried over.
MergedOthers(reports) == FromIssues(UNION {r.others : r \in reports})

\* merged_with, over the reports of all validators.
Merged(reports) == FromIssues(UNION {r.errors \cup r.others : r \in reports})

DefaultReport == [valid |-> TRUE, errors |-> {}, others |-> {}]

BlocksProgress(need) == need \in {"REQUIRED", "ERROR"}

Blocking(a) == {need \in a.missing : BlocksProgress(need)}

can_proceed_to_rag(a) == a.report.errors = {} /\ Blocking(a) = {}

blocking_reasons(a) == a.report.errors \cup Blocking(a)

\* Slip: an architecture without errors is validated, complete or not.
StatusOfReport(a, report) == IF report.valid THEN "validated" ELSE "invalid"

\* The status with_validation gives.
StatusAfter(a, report) ==
  IF ~report.valid THEN "invalid"
  ELSE IF Blocking(a) # {} THEN "needs_input" ELSE "validated"

--------------------------------------------------------------------------------
(* Revisions.                                                                *)

Stamped(a, id, number) == [a EXCEPT !.id = id, !.revision = number]

\* Slip: a document continues the history of the architecture it says it is.
SuccessorOfDocument(b, a) ==
  [id |-> a.id, revision |-> b.revision + 1, parent |-> b.revision,
   architecture |-> Stamped(a, a.id, b.revision + 1)]

\* succeed: the number and the id are stamped over what the document says.
Successor(b, a) ==
  [id |-> b.id, revision |-> b.revision + 1, parent |-> b.revision,
   architecture |-> Stamped(a, b.id, b.revision + 1)]

\* initial; parent 0 stands for None.
Initial(a) ==
  [id |-> a.id, revision |-> 1, parent |-> 0, architecture |-> Stamped(a, a.id, 1)]

\* The checks of ArchitectureRevision itself.
Consistent(r) ==
  /\ r.architecture.revision = r.revision /\ r.architecture.id = r.id
  /\ r.revision = 1 => r.parent = 0
  /\ r.revision > 1 => r.parent # 0

\* A document as JSON yields it: id, number and verdict are what it happens to carry.
Document(id, content, number, claim) ==
  [id |-> id, content |-> content, revision |-> number, report |-> claim.report,
   missing |-> claim.missing, status |-> claim.status]

\* What the model's defaults claim: nobody has analysed or validated.
NoClaim == [report |-> DefaultReport, missing |-> {}, status |-> "draft"]

Init ==
  /\ \E c \in Contents :
       stored = {Initial(Document(id, c, 1, NoClaim)) : id \in Ids}
  /\ \E r \in stored :
       /\ working = [e \in Editors |-> r.architecture]
       /\ base = [e \in Editors |-> [id |-> r.id, revision |-> r.revision]]
  /\ fresh = [e \in Editors |-> FALSE] /\ edits = 0

Work(e, a, isFresh) ==
  /\ working' = [working EXCEPT ![e] = a] /\ fresh' = [fresh EXCEPT ![e] = isFresh]
  /\ UNCHANGED stored

Change(e, a, isFresh) ==
  /\ edits < MaxEdits /\ edits' = edits + 1
  /\ Work(e, a, isFresh) /\ UNCHANGED base

Checkout(e, r) ==
  /\ base' = [base EXCEPT ![e] = [id |-> r.id, revision |-> r.revision]]
  /\ Work(e, r.architecture, FALSE) /\ UNCHANGED edits

\* The document of any revision is taken up again, to be committed on top of another.
Restore(e, r) == Work(e, r.architecture, FALSE) /\ UNCHANGED <<base, edits>>

\* A copy with other content: the report, the gaps and the status stay as they were.
Edit(e, content) == Change(e, [working[e] EXCEPT !.content = content], FALSE)

Paste(e, a) == Change(e, a, FALSE)

Analyse(e) == Change(e, [working[e] EXCEPT !.missing = Gaps[working[e].content]], FALSE)

Validate(e) ==
  LET a == working[e]
      report == Merged({FromIssues(Findings[a.content][v]) : v \in Validators})
  IN Change(e, [a EXCEPT !.report = report, !.status = StatusAfter(a, report)], TRUE)

Commit(e) ==
  LET r == Successor(base[e], working[e]) IN
    /\ r.revision <= MaxRevision /\ Cardinality(stored) < MaxStored /\ Consistent(r)
    /\ stored' = stored \cup {r}
    /\ base' = [base EXCEPT ![e] = [id |-> r.id, revision |-> r.revision]]
    /\ working' = [working EXCEPT ![e] = r.architecture]
    /\ UNCHANGED <<fresh, edits>>

Next == \E e \in Editors :
  \/ \E r \in stored : Checkout(e, r) \/ Restore(e, r)
  \/ \E c \in Contents : Edit(e, c)
  \/ \E id \in Ids, c \in Contents, n \in 1 .. MaxRevision, claim \in Claims :
       Paste(e, Document(id, c, n, claim))
  \/ Analyse(e) \/ Validate(e) \/ Commit(e)

Spec == Init /\ [][Next]_vars

--------------------------------------------------------------------------------
(* Properties.                                                               *)

\* Straight after validation every error that any validator found is among the reasons to
\* show, and what may proceed has none to show: an error is neither lost between the
\* reports nor overlooked by the gate (merged_with, blocking_reasons, can_proceed_to_rag).
VerdictIsOfAllValidators ==
  \A e \in Editors : fresh[e] =>
    LET a == working[e] IN
      /\ (\E v \in Validators : "error" \in Findings[a.content][v]) => "error" \in blocking_reasons(a)
      /\ can_proceed_to_rag(a) => blocking_reasons(a) = {}

\* Straight after validation the status and the gate say the same, whatever edits, pastes
\* and analyses came before (with_validation).
StatusAgreesWithGate ==
  \A e \in Editors : fresh[e] =>
    (working[e].status = "validated" <=> can_proceed_to_rag(working[e]))

\* However many editors commit on top of whatever revision, and whatever id and number a
\* pasted or restored document carries, no history is forked: every revision has its
\* predecessor among the revisions of its own architecture, down to revision 1, and the
\* histories stay apart (ArchitectureRevision.succeed; ARCHITECTURE_JSON_SCHEMA.md: "so
\* pasting a JSON document into the editor cannot fork the history").
HistoryIsAChain ==
  \A r \in stored :
    r.revision = 1 \/ \E p \in stored : p.id = r.id /\ p.revision = r.parent
                                       /\ p.revision + 1 = r.revision
===============================================================================
