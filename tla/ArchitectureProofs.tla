--------------------------- MODULE ArchitectureProofs ---------------------------
(***************************************************************************)
(* Proofs about Architecture.                                               *)
(***************************************************************************)
EXTENDS Architecture, TLAPS

\* What makes HistoryIsAChain inductive: every editor's base is a stored revision, by id
\* and number, and the numbers are positive.
Based ==
  /\ base \in [Editors -> [id : Ids, revision : Nat \ {0}]]
  /\ \A r \in stored : r.id \in Ids /\ r.revision \in Nat \ {0}
  /\ \A e \in Editors : \E r \in stored : r.id = base[e].id /\ r.revision = base[e].revision

ChainInv == Based /\ HistoryIsAChain

LEMMA ChainInit == Init => ChainInv
<1> SUFFICES ASSUME Init PROVE ChainInv
  OBVIOUS
<1>1. PICK c \in Contents : stored = {Initial(Document(id, c, 1, NoClaim)) : id \in Ids}
  BY DEF Init
<1>2. \A r \in stored : r.id \in Ids /\ r.revision = 1
  <2>1. \A id \in Ids : LET r == Initial(Document(id, c, 1, NoClaim))
                       IN r.id \in Ids /\ r.revision = 1
    <3> SUFFICES ASSUME NEW id \in Ids
                 PROVE  LET r == Initial(Document(id, c, 1, NoClaim))
                        IN r.id = id /\ r.revision = 1
      OBVIOUS
    <3> QED
      BY DEF Initial, Document
  <2>2. QED
    BY <1>1, <2>1
<1>3. PICK r \in stored : base = [e \in Editors |-> [id |-> r.id, revision |-> r.revision]]
  BY DEF Init
<1>4. base \in [Editors -> [id : Ids, revision : Nat \ {0}]]
  BY <1>2, <1>3
<1>5. \A e \in Editors : base[e].id = r.id /\ base[e].revision = r.revision
  BY <1>3
<1>6. QED
  BY <1>2, <1>4, <1>5 DEF ChainInv, Based, HistoryIsAChain

\* The record of succeed: the next number of the same architecture, and the document stamped.
LEMMA SuccessorOf ==
  ASSUME NEW b \in [id : Ids, revision : Nat], NEW a
  PROVE  /\ Successor(b, a).id = b.id /\ Successor(b, a).revision = b.revision + 1
         /\ Successor(b, a).parent = b.revision
         /\ Successor(b, a).architecture = Stamped(a, b.id, b.revision + 1)
BY DEF Successor

LEMMA ChainStep == ChainInv /\ [Next]_vars => ChainInv'
<1> SUFFICES ASSUME ChainInv, [Next]_vars PROVE ChainInv'
  OBVIOUS
<1>1. ASSUME UNCHANGED <<stored, base>> PROVE ChainInv'
  BY <1>1 DEF ChainInv, Based, HistoryIsAChain
<1>2. ASSUME NEW e \in Editors, NEW r \in stored, Checkout(e, r) PROVE ChainInv'
  <2>1. stored' = stored /\ base' = [base EXCEPT ![e] = [id |-> r.id, revision |-> r.revision]]
    BY <1>2 DEF Checkout, Work
  <2>2. [id |-> r.id, revision |-> r.revision] \in [id : Ids, revision : Nat \ {0}]
    BY DEF ChainInv, Based
  <2>3. QED
    BY <2>1, <2>2 DEF ChainInv, Based, HistoryIsAChain
<1>3. ASSUME NEW e \in Editors, Commit(e) PROVE ChainInv'
  <2> DEFINE rev == Successor(base[e], working[e])
  <2>1. /\ stored' = stored \cup {rev}
        /\ base' = [base EXCEPT ![e] = [id |-> rev.id, revision |-> rev.revision]]
    BY <1>3 DEF Commit
  <2>2. base[e] \in [id : Ids, revision : Nat \ {0}]
    BY DEF ChainInv, Based
  <2>3. /\ rev.id = base[e].id /\ rev.revision = base[e].revision + 1
        /\ rev.parent = base[e].revision
    BY <2>2, SuccessorOf
  <2> HIDE DEF rev
  <2>4. rev.id \in Ids /\ rev.revision \in Nat \ {0}
    BY <2>2, <2>3
  <2>5. PICK p \in stored : p.id = base[e].id /\ p.revision = base[e].revision
    BY DEF ChainInv, Based
  <2>6. Based'
    <3>1. \A d \in Editors : d # e => base'[d] = base[d]
      BY <2>1 DEF ChainInv, Based
    <3>2. base'[e] = [id |-> rev.id, revision |-> rev.revision]
      BY <2>1 DEF ChainInv, Based
    <3>3. base' \in [Editors -> [id : Ids, revision : Nat \ {0}]]
      BY <2>1, <2>4 DEF ChainInv, Based
    <3>4. \A d \in Editors :
            \E r \in stored' : r.id = base'[d].id /\ r.revision = base'[d].revision
      BY <2>1, <3>1, <3>2 DEF ChainInv, Based
    <3>5. \A r \in stored' : r.id \in Ids /\ r.revision \in Nat \ {0}
      BY <2>1, <2>4 DEF ChainInv, Based
    <3>6. QED
      BY <3>3, <3>4, <3>5 DEF Based
  <2>7. HistoryIsAChain'
    <3>1. p \in stored' /\ p.id = rev.id /\ p.revision = rev.parent /\ p.revision + 1 = rev.revision
      BY <2>1, <2>3, <2>5
    <3>2. QED
      BY <2>1, <3>1 DEF ChainInv, HistoryIsAChain
  <2>8. QED
    BY <2>6, <2>7 DEF ChainInv
<1>4. QED
  BY <1>1, <1>2, <1>3
     DEF Next, Restore, Edit, Paste, Analyse, Validate, Change, Work, vars

\* Whatever is pasted or restored and whoever commits, no history is forked: every stored
\* revision has its predecessor in its own history (ArchitectureRevision.succeed).
THEOREM HistoryHasNoGaps == Spec => []HistoryIsAChain
<1>1. ChainInv => HistoryIsAChain
  BY DEF ChainInv
<1>2. QED
  BY <1>1, ChainInit, ChainStep, PTL DEF Spec

--------------------------------------------------------------------------------
Documents ==
  [id : Ids, content : Contents, revision : Nat, report : Reports, missing : SUBSET Needs,
   status : Statuses]

ErrorsOf(content) == (UNION {Findings[content][v] : v \in Validators}) \cap {"error"}

\* What with_validation makes of a document, for all its contents, gaps and findings.
Judged(a) ==
  /\ a.status = "validated" <=> can_proceed_to_rag(a)
  /\ a.report.errors = ErrorsOf(a.content)

\* The inductive invariant of the verdicts: the copies and what is stored are documents,
\* and a fresh one is judged.
StatusInv ==
  /\ working \in [Editors -> Documents] /\ fresh \in [Editors -> BOOLEAN]
  /\ base \in [Editors -> [id : Ids, revision : Nat]]
  /\ \A r \in stored : r.id \in Ids /\ r.revision \in Nat /\ r.architecture \in Documents
  /\ \A e \in Editors : fresh[e] => Judged(working[e])

\* What from_issues makes of any findings is a report without errors exactly if it is valid.
LEMMA ReportsAreHonest ==
  ASSUME NEW issues \in SUBSET Severities
  PROVE  /\ FromIssues(issues) \in Reports
         /\ FromIssues(issues).valid <=> FromIssues(issues).errors = {}
         /\ FromIssues(issues).errors = issues \cap {"error"}
BY DEF FromIssues, Reports

LEMMA MergedReport ==
  ASSUME NEW c \in Contents
  PROVE  \E issues \in SUBSET Severities :
           /\ Merged({FromIssues(Findings[c][v]) : v \in Validators}) = FromIssues(issues)
           /\ issues \cap {"error"} = ErrorsOf(c)
<1> DEFINE reports == {FromIssues(Findings[c][v]) : v \in Validators}
<1>1. \A r \in reports : r.errors \cup r.others \subseteq Severities
  BY ArchitectureAssumption DEF FromIssues
<1>2. UNION {r.errors \cup r.others : r \in reports} \in SUBSET Severities
  BY <1>1
<1>3. (UNION {r.errors \cup r.others : r \in reports}) \cap {"error"} = ErrorsOf(c)
  <2>1. \A v \in Validators :
          FromIssues(Findings[c][v]).errors \cup FromIssues(Findings[c][v]).others = Findings[c][v]
    BY ArchitectureAssumption DEF FromIssues
  <2>2. QED
    BY <2>1 DEF ErrorsOf
<1>4. Merged(reports) = FromIssues(UNION {r.errors \cup r.others : r \in reports})
  BY DEF Merged
<1> HIDE DEF reports
<1>5. QED
  BY <1>2, <1>3, <1>4 DEF reports

\* A working copy replaced by a document of which nothing is claimed, or a true claim.
LEMMA WorkKeeps ==
  ASSUME StatusInv, NEW e \in Editors, NEW a \in Documents, NEW isFresh \in BOOLEAN,
         isFresh => Judged(a), Work(e, a, isFresh)
  PROVE  /\ working' \in [Editors -> Documents] /\ fresh' \in [Editors -> BOOLEAN]
         /\ \A d \in Editors : fresh'[d] => Judged(working'[d])
BY DEF Work, StatusInv

LEMMA DocumentsAreDocuments ==
  ASSUME NEW id \in Ids, NEW c \in Contents, NEW n \in Nat, NEW claim \in Claims \cup {NoClaim}
  PROVE  Document(id, c, n, claim) \in Documents
<1>1. claim \in [report : Reports, missing : SUBSET Needs, status : Statuses]
  <2>1. DefaultReport \in Reports
    BY DEF DefaultReport, Reports
  <2>2. NoClaim \in [report : Reports, missing : SUBSET Needs, status : Statuses]
    BY <2>1 DEF NoClaim, Statuses
  <2>3. QED
    BY <2>2, ArchitectureAssumption
<1>2. QED
  BY <1>1 DEF Document, Documents

LEMMA StampedDocument ==
  ASSUME NEW a \in Documents, NEW id \in Ids, NEW n \in Nat
  PROVE  /\ Stamped(a, id, n) \in Documents
         /\ Judged(a) => Judged(Stamped(a, id, n))
<1> DEFINE b == Stamped(a, id, n)
<1>1. /\ b \in Documents /\ b.report = a.report /\ b.status = a.status
      /\ b.missing = a.missing /\ b.content = a.content
  BY DEF Stamped, Documents
<1> HIDE DEF b
<1>2. QED
  BY <1>1 DEF Judged, can_proceed_to_rag, Blocking, b

\* A step that replaces a working copy and stores nothing.
LEMMA ChangeKeeps ==
  ASSUME StatusInv, NEW e \in Editors, NEW a \in Documents, NEW isFresh \in BOOLEAN,
         isFresh => Judged(a), Work(e, a, isFresh),
         base' \in [Editors -> [id : Ids, revision : Nat]]
  PROVE  StatusInv'
<1>1. stored' = stored
  BY DEF Work
<1>2. QED
  BY <1>1, WorkKeeps DEF StatusInv

LEMMA StatusStep == StatusInv /\ [Next]_vars => StatusInv'
<1> SUFFICES ASSUME StatusInv, [Next]_vars PROVE StatusInv'
  OBVIOUS
<1>0. \A r \in stored : r.id \in Ids /\ r.revision \in Nat /\ r.architecture \in Documents
  BY DEF StatusInv
<1>1. ASSUME NEW e \in Editors, NEW r \in stored, Checkout(e, r) PROVE StatusInv'
  <2>1. [id |-> r.id, revision |-> r.revision] \in [id : Ids, revision : Nat]
    BY <1>0
  <2>2. base' \in [Editors -> [id : Ids, revision : Nat]]
    BY <1>1, <2>1 DEF Checkout, StatusInv
  <2>3. QED
    BY <1>0, <1>1, <2>2, ChangeKeeps DEF Checkout
<1>2. ASSUME NEW e \in Editors, NEW r \in stored, Restore(e, r) PROVE StatusInv'
  BY <1>0, <1>2, ChangeKeeps DEF Restore, StatusInv
<1>3. ASSUME NEW e \in Editors, NEW c \in Contents, Edit(e, c) PROVE StatusInv'
  <2>1. [working[e] EXCEPT !.content = c] \in Documents
    BY DEF StatusInv, Documents
  <2>2. QED
    BY <1>3, <2>1, ChangeKeeps DEF Edit, Change, StatusInv
<1>4. ASSUME NEW e \in Editors, NEW id \in Ids, NEW c \in Contents, NEW n \in 1 .. MaxRevision,
             NEW claim \in Claims, Paste(e, Document(id, c, n, claim))
      PROVE StatusInv'
  <2>1. n \in Nat
    BY ArchitectureAssumption
  <2>2. QED
    BY <1>4, <2>1, DocumentsAreDocuments, ChangeKeeps DEF Paste, Change, StatusInv
<1>5. ASSUME NEW e \in Editors, Analyse(e) PROVE StatusInv'
  <2>1. [working[e] EXCEPT !.missing = Gaps[working[e].content]] \in Documents
    BY ArchitectureAssumption DEF StatusInv, Documents
  <2>2. QED
    BY <1>5, <2>1, ChangeKeeps DEF Analyse, Change, StatusInv
<1>6. ASSUME NEW e \in Editors, Validate(e) PROVE StatusInv'
  <2> DEFINE c == working[e].content
  <2>0. c \in Contents
    BY DEF StatusInv, Documents
  <2>1. PICK issues \in SUBSET Severities :
          /\ Merged({FromIssues(Findings[c][v]) : v \in Validators}) = FromIssues(issues)
          /\ issues \cap {"error"} = ErrorsOf(c)
    <3> HIDE DEF c
    <3>1. QED
      BY <2>0, MergedReport
  <2> DEFINE report == FromIssues(issues)
             status == StatusAfter(working[e], report)
             a == [working[e] EXCEPT !.report = report, !.status = status]
  <2>2. Work(e, a, TRUE) /\ UNCHANGED base
    BY <1>6, <2>1 DEF Validate, Change
  <2>3. report \in Reports /\ (report.valid <=> report.errors = {})
        /\ report.errors = ErrorsOf(c)
    BY <2>1, ReportsAreHonest
  <2> HIDE DEF report
  <2>4. status \in {"validated", "invalid", "needs_input"}
    BY DEF StatusAfter
  <2>5. status = "validated" <=> report.errors = {} /\ Blocking(working[e]) = {}
    BY <2>3 DEF StatusAfter
  <2> HIDE DEF status
  <2>6. /\ a \in Documents /\ a.report = report /\ a.status = status
        /\ a.missing = working[e].missing /\ a.content = c
    BY <2>3, <2>4 DEF StatusInv, Documents, Statuses
  <2> HIDE DEF a
  <2>7. Judged(a)
    BY <2>3, <2>5, <2>6 DEF Judged, can_proceed_to_rag, Blocking
  <2>8. QED
    BY <2>2, <2>6, <2>7, ChangeKeeps DEF StatusInv
<1>7. ASSUME NEW e \in Editors, Commit(e) PROVE StatusInv'
  <2> DEFINE rev == Successor(base[e], working[e])
  <2>1. /\ stored' = stored \cup {rev} /\ fresh' = fresh
        /\ base' = [base EXCEPT ![e] = [id |-> rev.id, revision |-> rev.revision]]
        /\ working' = [working EXCEPT ![e] = rev.architecture]
    BY <1>7 DEF Commit
  <2>2. base[e] \in [id : Ids, revision : Nat] /\ working[e] \in Documents
    BY DEF StatusInv
  <2>3. /\ rev.id \in Ids /\ rev.revision \in Nat /\ rev.architecture \in Documents
        /\ Judged(working[e]) => Judged(rev.architecture)
    BY <2>2, SuccessorOf, StampedDocument
  <2> HIDE DEF rev
  <2>4. \A d \in Editors : fresh'[d] => Judged(working'[d])
    BY <2>1, <2>3 DEF StatusInv
  <2>5. QED
    BY <2>1, <2>3, <2>4 DEF StatusInv
<1>8. CASE UNCHANGED vars
  BY <1>8 DEF vars, StatusInv
<1>9. QED
  BY <1>1, <1>2, <1>3, <1>4, <1>5, <1>6, <1>7, <1>8 DEF Next

LEMMA StatusInit == Init => StatusInv
<1> SUFFICES ASSUME Init PROVE StatusInv
  OBVIOUS
<1>1. PICK c \in Contents : stored = {Initial(Document(id, c, 1, NoClaim)) : id \in Ids}
  BY DEF Init
<1>2. \A id \in Ids : Document(id, c, 1, NoClaim) \in Documents
  BY DocumentsAreDocuments
<1>3. \A r \in stored : r.id \in Ids /\ r.revision = 1 /\ r.architecture \in Documents
  <2> SUFFICES ASSUME NEW id \in Ids
               PROVE  LET r == Initial(Document(id, c, 1, NoClaim)) IN
                        r.id \in Ids /\ r.revision = 1 /\ r.architecture \in Documents
    BY <1>1
  <2> DEFINE a == Document(id, c, 1, NoClaim)
  <2>1. a \in Documents /\ a.id = id
    BY <1>2 DEF Document
  <2> HIDE DEF a
  <2>2. Stamped(a, a.id, 1) \in Documents
    BY <2>1, StampedDocument
  <2>3. QED
    BY <2>1, <2>2 DEF Initial, a
<1>4. PICK r \in stored :
        /\ working = [e \in Editors |-> r.architecture]
        /\ base = [e \in Editors |-> [id |-> r.id, revision |-> r.revision]]
  BY DEF Init
<1>5. /\ fresh \in [Editors -> BOOLEAN] /\ \A e \in Editors : ~fresh[e]
  BY DEF Init
<1>6. working \in [Editors -> Documents] /\ base \in [Editors -> [id : Ids, revision : Nat]]
  BY <1>3, <1>4
<1>7. QED
  BY <1>3, <1>5, <1>6 DEF StatusInv

\* Straight after with_validation the status and the gate say the same, for every content,
\* every finding and whatever was edited, pasted, analysed or committed before.
THEOREM StatusIsTheGate == Spec => []StatusAgreesWithGate
<1>1. StatusInv => StatusAgreesWithGate
  BY DEF StatusInv, Judged, StatusAgreesWithGate
<1>2. QED
  BY <1>1, StatusInit, StatusStep, PTL DEF Spec

\* Straight after with_validation no error of any validator is lost between the reports or
\* overlooked by the gate (merged_with, blocking_reasons).
THEOREM VerdictIsComplete == Spec => []VerdictIsOfAllValidators
<1>1. StatusInv => VerdictIsOfAllValidators
  <2>1. \A a : can_proceed_to_rag(a) => blocking_reasons(a) = {}
    BY DEF can_proceed_to_rag, blocking_reasons
  <2>2. \A a : Judged(a) =>
          ((\E v \in Validators : "error" \in Findings[a.content][v]) => "error" \in blocking_reasons(a))
    BY DEF Judged, ErrorsOf, blocking_reasons
  <2>3. QED
    BY <2>1, <2>2 DEF StatusInv, VerdictIsOfAllValidators
<1>2. QED
  BY <1>1, StatusInit, StatusStep, PTL DEF Spec
===============================================================================
