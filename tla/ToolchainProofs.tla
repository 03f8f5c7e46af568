----------------------------- MODULE ToolchainProofs -----------------------------
(***************************************************************************)
(* Proofs about Toolchain.                                                  *)
(***************************************************************************)
EXTENDS Toolchain, SequenceTheorems, TLAPS

Tools == Names \ {"structure"}
Checks == [name : Names, executed : BOOLEAN, passed : BOOLEAN]

AllPassed(checks) == \A c \in ToSet(checks) : c.executed => c.passed

Calls ==
  [phase : {"between", "waiting"}, project : Projects, checks : Seq(Checks),
   left : Seq(Tools), call : Nat, shared : BOOLEAN]

\* A call under way: as long as no check of it failed, its workspace was shared with
\* nobody and its checks are true of the project it began with.
CallInv(t) ==
  t # Idle =>
    /\ t \in Calls
    /\ t.phase = "waiting" => t.left # <<>>
    /\ AllPassed(t.checks) => ~t.shared /\ TrueOf(t.checks, t.project)

\* What was returned is about some project, and true of it when it is valid.
ResultInv(r) ==
  r.kind = "result" =>
    \E p : r.fingerprint = Fingerprint(p) /\ (r.valid => TrueOf(r.checks, p))

\* The inductive invariant behind ValidIsTrueOfTheProject: ValidIsTrueOfTheProject speaks
\* of results only, and what makes a result true happens while the call is under way.
ValidInv ==
  /\ current \in Projects /\ starts \in Nat
  /\ DOMAIN task = Validators /\ DOMAIN result = Validators
  /\ \A v \in Validators : CallInv(task[v]) /\ ResultInv(result[v])

--------------------------------------------------------------------------------
\* Two projects with one fingerprint have the same files, so a check is true of both or
\* of neither.
LEMMA FingerprintDecides ==
  ASSUME NEW p, NEW q, NEW checks, Fingerprint(p) = Fingerprint(q), TrueOf(checks, p)
  PROVE  TrueOf(checks, q)
<1>1. ToSet(p.files) = ToSet(q.files)
  BY DEF Fingerprint
<1>2. StructureHolds(p) = StructureHolds(q)
  BY <1>1 DEF StructureHolds, Paths
<1>3. \A name : Objects(name, p) = Objects(name, q)
  BY <1>1 DEF Objects
<1>4. QED
  BY <1>2, <1>3 DEF TrueOf

LEMMA ToSetAppend ==
  ASSUME NEW S, NEW s \in Seq(S), NEW x \in S
  PROVE  Append(s, x) \in Seq(S) /\ ToSet(Append(s, x)) = ToSet(s) \cup {x}
<1> DEFINE a == Append(s, x)
<1>1. /\ a \in Seq(S) /\ Len(s) \in Nat /\ Len(a) = Len(s) + 1
      /\ a[Len(s) + 1] = x /\ \A i \in 1 .. Len(s) : a[i] = s[i]
  BY AppendProperties, LenProperties
<1>2. DOMAIN a = 1 .. Len(s) + 1 /\ DOMAIN s = 1 .. Len(s)
  BY <1>1, LenProperties
<1> HIDE DEF a
<1>3. \A i \in DOMAIN a : a[i] \in ToSet(s) \cup {x}
  BY <1>1, <1>2 DEF ToSet
<1>4. \A i \in DOMAIN s : s[i] \in ToSet(a)
  BY <1>1, <1>2 DEF ToSet
<1>5. x \in ToSet(a)
  BY <1>1, <1>2 DEF ToSet
<1>6. ToSet(a) = ToSet(s) \cup {x}
  BY <1>3, <1>4, <1>5 DEF ToSet
<1>7. QED
  BY <1>1, <1>6 DEF a

LEMMA CommandsAreTools == ASSUME NEW v \in Validators PROVE Commands(v) \in Seq(Tools)
<1>1. \A x \in Tools : <<x>> \in Seq(Tools)
  OBVIOUS
<1>2. \A x, y \in Tools : <<x, y>> \in Seq(Tools)
  OBVIOUS
<1>3. <<>> \in Seq(Tools)
  OBVIOUS
<1>4. \A s, t \in Seq(Tools) : s \o t \in Seq(Tools)
  OBVIOUS
<1>5. {"ansible-playbook", "ansible-lint", "terraform", "fmt", "init", "validate", "tflint",
       "checkov"} \subseteq Tools
  BY DEF Tools, Names
<1> DEFINE first == IF RunInit THEN <<"init">> ELSE <<>>
           core == IF "terraform" \notin installed THEN <<"terraform">>
                   ELSE (<<"fmt">> \o first) \o <<"validate">>
<1>6. first \in Seq(Tools)
  BY <1>1, <1>3, <1>5
<1>7. core \in Seq(Tools)
  <2> HIDE DEF first
  <2>1. <<"fmt">> \o first \in Seq(Tools)
    BY <1>1, <1>4, <1>5, <1>6
  <2>2. QED
    BY <2>1, <1>1, <1>4, <1>5
<1>8. CASE v = "ansible"
  BY <1>8, <1>2, <1>5 DEF Commands
<1>9. CASE v # "ansible"
  <2>1. Commands(v) = core \o <<"tflint", "checkov">>
    BY <1>9 DEF Commands
  <2> HIDE DEF core
  <2>2. <<"tflint", "checkov">> \in Seq(Tools)
    BY <1>2, <1>5
  <2>3. QED
    BY <2>1, <2>2, <1>4, <1>7
<1>10. QED
  BY <1>8, <1>9

\* A check that was not executed, or one that passed on an unshared workspace, keeps a
\* call what it is; one that failed makes it invalid.
LEMMA AfterKeeps ==
  ASSUME NEW t \in Calls, CallInv(t), t.left # <<>>, NEW c \in Checks, c.name = Head(t.left),
         c.executed /\ c.passed => t.shared \/ ~Objects(c.name, t.project)
  PROVE  /\ After(t, c) \in Calls /\ After(t, c).phase = "between"
         /\ CallInv(After(t, c))
         /\ AllPassed(After(t, c).checks) => (c.executed => c.passed)
<1> DEFINE checks == Append(t.checks, c)
           n == After(t, c)
<1>1. checks \in Seq(Checks) /\ ToSet(checks) = ToSet(t.checks) \cup {c}
  BY ToSetAppend DEF Calls
<1>2. Head(t.left) \in Tools /\ Tail(t.left) \in Seq(Tools)
  <2>1. t.left \in Seq(Tools)
    BY DEF Calls
  <2>2. QED
    BY <2>1, HeadTailProperties
<1> HIDE DEF checks
<1>3. n = [t EXCEPT !.phase = "between", !.checks = checks, !.left = Tail(t.left)]
  BY DEF After, checks, Calls
<1> HIDE DEF n
<1>4. n \in Calls /\ n.checks = checks /\ n.shared = t.shared /\ n.project = t.project
      /\ n.phase = "between"
  BY <1>1, <1>2, <1>3 DEF Calls
<1>5. AllPassed(checks) => AllPassed(t.checks) /\ (c.executed => c.passed)
  BY <1>1 DEF AllPassed
<1>6. ASSUME AllPassed(checks) PROVE ~n.shared /\ TrueOf(checks, n.project)
  <2>1. t # Idle
    BY DEF Calls, Idle
  <2>2. ~t.shared /\ TrueOf(t.checks, t.project)
    BY <1>5, <1>6, <2>1 DEF CallInv
  <2>3. c.executed => ~Objects(c.name, t.project) /\ c.name # "structure"
    BY <1>2, <1>5, <1>6, <2>2 DEF Tools
  <2>4. QED
    BY <1>1, <1>4, <2>2, <2>3 DEF TrueOf
<1>7. QED
  BY <1>4, <1>5, <1>6 DEF CallInv, n

LEMMA BegunHolds ==
  ASSUME NEW v \in Validators, NEW p \in Projects, starts \in Nat
  PROVE  CallInv(Begun(v, p))
<1> DEFINE b == Begun(v, p)
<1>1. /\ FirstChecks(v, p) \in Seq(Checks)
      /\ AllPassed(FirstChecks(v, p)) => TrueOf(FirstChecks(v, p), p)
  <2>1. CASE v = "terraform"
    <3>1. FirstChecks(v, p) = <<>> /\ <<>> \in Seq(Checks) /\ ToSet(<<>>) = {}
      BY <2>1 DEF FirstChecks, ToSet
    <3>2. QED
      BY <3>1 DEF TrueOf
  <2>2. CASE v # "terraform"
    <3> DEFINE c == Check("structure", StructureHolds(p))
    <3>1. FirstChecks(v, p) = <<c>>
      BY <2>2 DEF FirstChecks
    <3>2. StructureHolds(p) \in BOOLEAN
      BY DEF StructureHolds
    <3>3. c \in Checks
      BY <3>2 DEF Check, Checks, Names
    <3>4. c.name = "structure" /\ c.executed /\ c.passed = StructureHolds(p)
      BY DEF Check
    <3> HIDE DEF c
    <3>5. <<c>> \in Seq(Checks) /\ ToSet(<<c>>) = {c}
      BY <3>3 DEF ToSet
    <3>6. QED
      BY <3>1, <3>4, <3>5 DEF TrueOf, AllPassed
  <2>3. QED
    BY <2>1, <2>2
<1>2. QED
  BY <1>1, CommandsAreTools DEF Begun, CallInv, Calls

\* A tool that runs is the first of those that are left.
LEMMA WaitingHasWork ==
  ASSUME NEW t \in Calls, CallInv(t), t.phase = "waiting"
  PROVE  t.left # <<>> /\ Head(t.left) \in Tools
<1>1. t # Idle /\ t.left \in Seq(Tools)
  BY DEF Calls, Idle
<1>2. t.left # <<>>
  BY <1>1 DEF CallInv
<1>3. QED
  BY <1>1, <1>2, HeadTailProperties

\* A call whose check came to an end, in time or not.
LEMMA Continues ==
  ASSUME ValidInv, NEW v \in Validators, NEW t, CallInv(t), task' = [task EXCEPT ![v] = t],
         UNCHANGED <<current, result, starts>>
  PROVE  ValidInv'
BY DEF ValidInv

\* The steps of a validation and of its surroundings keep ValidInv.
LEMMA ValidStep == ValidInv /\ [Next]_vars => ValidInv'
<1> SUFFICES ASSUME ValidInv, [Next]_vars PROVE ValidInv'
  OBVIOUS
<1>1. \A v \in Validators :
        /\ CallInv(task[v])
        /\ task[v].phase \in {"between", "waiting"} => task[v] \in Calls
  BY DEF ValidInv, CallInv, Idle
<1>2. ASSUME Regenerate PROVE ValidInv'
  BY <1>2 DEF Regenerate, ValidInv
<1>3. ASSUME OrphanEnds PROVE ValidInv'
  BY <1>3 DEF OrphanEnds, ValidInv
<1>4. ASSUME NEW v \in Validators, Validate(v) PROVE ValidInv'
  <2>1. CallInv(Begun(v, current)) /\ ResultInv(NoResult)
        /\ ResultInv(Raised("UnsupportedInputError")) /\ ResultInv(Raised("OSError"))
    BY BegunHolds DEF ValidInv, ResultInv, NoResult, Raised
  <2>2. starts' \in Nat /\ current' \in Projects
    BY <1>4 DEF Validate, ValidInv
  <2>3. CASE task' = task
    BY <1>4, <2>1, <2>2, <2>3 DEF Validate, ValidInv
  <2>4. CASE task' = [task EXCEPT ![v] = Begun(v, current)] /\ result' = [result EXCEPT ![v] = NoResult]
    BY <2>1, <2>2, <2>4 DEF ValidInv
  <2>5. QED
    BY <1>4, <2>3, <2>4 DEF Validate
<1>5. ASSUME NEW v \in Validators, Skip(v) PROVE ValidInv'
  <2> DEFINE c == Skipped(Head(task[v].left))
  <2>1. task[v] \in Calls /\ task[v].left # <<>> /\ Head(task[v].left) \in Tools
    BY <1>1, <1>5, HeadTailProperties DEF Skip, Calls
  <2>2. c \in Checks /\ c.name = Head(task[v].left) /\ ~c.executed
    BY <2>1 DEF Skipped, Checks, Tools
  <2> HIDE DEF c
  <2>3. CallInv(After(task[v], c))
    BY <1>1, <2>1, <2>2, AfterKeeps
  <2>4. QED
    BY <1>5, <2>3, Continues DEF Skip, c
<1>6. ASSUME NEW v \in Validators, Launch(v) PROVE ValidInv'
  <2> DEFINE n == [task[v] EXCEPT !.phase = "waiting"]
  <2>1. task[v] \in Calls /\ task[v].left # <<>>
    BY <1>1, <1>6 DEF Launch
  <2>2. /\ n \in Calls /\ task[v] # Idle /\ n.left # <<>>
        /\ n.checks = task[v].checks /\ n.shared = task[v].shared /\ n.project = task[v].project
    BY <2>1 DEF Calls, Idle
  <2>3. task' = [task EXCEPT ![v] = n]
    BY <1>6 DEF Launch
  <2> HIDE DEF n
  <2>4. CallInv(n)
    BY <1>1, <2>2 DEF CallInv
  <2>5. QED
    BY <1>6, <2>3, <2>4, Continues DEF Launch
<1>7. ASSUME NEW v \in Validators, Exit(v) PROVE ValidInv'
  <2>1. PICK passed \in Verdicts(task[v]) :
          task' = [task EXCEPT ![v] = After(task[v], Check(Head(task[v].left), passed))]
    BY <1>7 DEF Exit, ValidInv
  <2> DEFINE c == Check(Head(task[v].left), passed)
  <2>2. task[v] \in Calls /\ task[v].left # <<>> /\ Head(task[v].left) \in Tools
    BY <1>1, <1>7, WaitingHasWork DEF Exit
  <2>3. /\ c \in Checks /\ c.name = Head(task[v].left)
        /\ c.passed => task[v].shared \/ ~Objects(c.name, task[v].project)
    BY <2>1, <2>2 DEF Check, Checks, Tools, Verdicts
  <2> HIDE DEF c
  <2>4. CallInv(After(task[v], c))
    BY <1>1, <2>2, <2>3, AfterKeeps
  <2>5. QED
    BY <1>7, <2>1, <2>4, Continues DEF Exit, c
<1>8. ASSUME NEW v \in Validators, Timeout(v) PROVE ValidInv'
  <2> DEFINE c == Check(Head(task[v].left), FALSE)
             n == [After(task[v], c) EXCEPT !.shared = TRUE]
  <2>1. task[v] \in Calls /\ task[v].left # <<>> /\ Head(task[v].left) \in Tools
    BY <1>1, <1>8, WaitingHasWork DEF Timeout, Abandon
  <2>2. c \in Checks /\ c.name = Head(task[v].left) /\ c.executed /\ ~c.passed
    BY <2>1 DEF Check, Checks, Tools
  <2>3. task' = [task EXCEPT ![v] = n]
    BY <1>8 DEF Timeout, Abandon, ValidInv
  <2> HIDE DEF c
  <2>4. /\ After(task[v], c) \in Calls /\ After(task[v], c).phase = "between"
        /\ ~AllPassed(After(task[v], c).checks)
    BY <1>1, <2>1, <2>2, AfterKeeps
  <2>5. n \in Calls /\ n.checks = After(task[v], c).checks /\ n.phase = "between"
    BY <2>4 DEF Calls
  <2> HIDE DEF n
  <2>6. CallInv(n)
    BY <2>4, <2>5 DEF CallInv
  <2>7. QED
    BY <1>8, <2>3, <2>6, Continues DEF Timeout, Abandon
<1>9. ASSUME NEW v \in Validators, Return(v) PROVE ValidInv'
  <2> DEFINE r == FromChecks(task[v].checks, task[v].project)
  <2>1. task[v] \in Calls /\ task[v] # Idle
    BY <1>1, <1>9 DEF Return, Done, Calls, Idle
  <2>2. /\ r.fingerprint = Fingerprint(task[v].project) /\ r.checks = task[v].checks
        /\ r.valid = AllPassed(task[v].checks)
    BY DEF FromChecks, AllPassed
  <2> HIDE DEF r
  <2>3. ResultInv(r) /\ CallInv(Idle)
    BY <1>1, <2>1, <2>2 DEF ResultInv, CallInv
  <2>4. QED
    BY <1>9, <2>3 DEF Return, Finish, ValidInv, r
<1>10. ASSUME NEW v \in Validators, CleanupFails(v) PROVE ValidInv'
  <2>1. ResultInv(Raised("OSError")) /\ CallInv(Idle)
    BY DEF ResultInv, CallInv, Raised
  <2>2. QED
    BY <1>10, <2>1 DEF CleanupFails, Finish, ValidInv
<1>11. CASE UNCHANGED vars
  BY <1>11 DEF vars, ValidInv
<1>12. QED
  BY <1>2, <1>3, <1>4, <1>5, <1>6, <1>7, <1>8, <1>9, <1>10, <1>11 DEF Next, Step

\* Whatever is generated again meanwhile, and whatever a tool that ran out of time still
\* does to the workspace, a valid result with the fingerprint of the project held now is
\* true of that project (GenerationResult, from_checks).
THEOREM ValidResultIsTrue == Spec => []ValidIsTrueOfTheProject
<1>1. Init => ValidInv
  BY DEF Init, ValidInv, CallInv, ResultInv, NoResult
<1>2. ValidInv => ValidIsTrueOfTheProject
  BY FingerprintDecides DEF ValidInv, ResultInv, ValidIsTrueOfTheProject
<1>3. QED
  BY <1>1, <1>2, ValidStep, PTL DEF Spec

--------------------------------------------------------------------------------
\* What a call has done and what it has left to do are what it began with.
CountInv(v, t) ==
  t # Idle =>
    /\ t.call \in 1 .. starts /\ t.project.kind = v
    /\ t.phase = "waiting" => Binary(Head(t.left)) \in installed
    /\ Len(t.checks) + Len(t.left) = Len(FirstChecks(v, t.project)) + Len(Commands(v))

TypeInv ==
  /\ starts <= MaxStarts /\ orphans \subseteq 1 .. starts
  /\ \A v \in Validators : CountInv(v, task[v])

LEMMA AfterCounts ==
  ASSUME NEW v, NEW t \in Calls, t.left # <<>>, NEW c \in Checks, CountInv(v, t)
  PROVE  /\ CountInv(v, After(t, c)) /\ After(t, c).phase = "between"
         /\ After(t, c).call = t.call
<1> DEFINE n == After(t, c)
<1>1. /\ t # Idle /\ t.checks \in Seq(Checks) /\ t.left \in Seq(Tools)
  BY DEF Calls, Idle
<1>2. Len(Append(t.checks, c)) = Len(t.checks) + 1
  BY <1>1
<1>3. Len(Tail(t.left)) = Len(t.left) - 1
  BY <1>1
<1>4. /\ n.checks = Append(t.checks, c) /\ n.left = Tail(t.left) /\ n.phase = "between"
      /\ n.call = t.call /\ n.project = t.project
  BY DEF After, Calls
<1>5. Len(t.checks) \in Nat /\ Len(t.left) \in Nat
  BY <1>1
<1> HIDE DEF n
<1>6. Len(n.checks) + Len(n.left) = Len(t.checks) + Len(t.left)
  <2>1. Len(n.checks) = Len(t.checks) + 1
    BY ONLY <1>2, <1>4, Zenon
  <2>2. Len(n.left) = Len(t.left) - 1
    BY ONLY <1>3, <1>4, Zenon
  <2>3. \A a, b \in Nat : (a + 1) + (b - 1) = a + b
    OBVIOUS
  <2> QED
    BY ONLY <1>5, <2>1, <2>2, <2>3, Zenon
<1>7. CountInv(v, n)
  BY <1>1, <1>4, <1>6 DEF CountInv
<1> QED
  BY <1>4, <1>7 DEF n

\* A step of one call leaves the other what it is.
LEMMA CallStepKeepsTypes ==
  ASSUME ValidInv, TypeInv, NEW v \in Validators, NEW t, CountInv(v, t),
         task' = [task EXCEPT ![v] = t], UNCHANGED <<installed, starts>>,
         orphans' \subseteq 1 .. starts
  PROVE  TypeInv'
<1>1. \A w \in Validators : task'[w] = IF w = v THEN t ELSE task[w]
  BY DEF ValidInv
<1>2. \A w \in Validators : CountInv(w, task'[w])
  BY <1>1 DEF TypeInv
<1>3. \A w \in Validators : Commands(w)' = Commands(w)
  BY DEF Commands
<1>4. \A w \in Validators : CountInv(w, task[w])'
  BY <1>2, <1>3 DEF CountInv
<1> QED
  BY <1>4 DEF TypeInv

LEMMA TypeStep == ValidInv /\ TypeInv /\ [Next]_vars => TypeInv'
<1> SUFFICES ASSUME ValidInv, TypeInv, [Next]_vars PROVE TypeInv'
  OBVIOUS
<1>0. /\ starts \in Nat /\ MaxStarts \in Nat
      /\ \A v \in Validators : CountInv(v, task[v]) /\ (task[v] # Idle => task[v] \in Calls)
      /\ \A v \in Validators : task[v].phase \in {"between", "waiting"} => task[v] # Idle
  BY ToolchainAssumption DEF ValidInv, TypeInv, CallInv, Idle
<1>1. ASSUME UNCHANGED <<installed, starts, task>>, orphans' \subseteq orphans PROVE TypeInv'
  <2>1. \A w \in Validators : Commands(w)' = Commands(w)
    BY <1>1 DEF Commands
  <2>2. \A w \in Validators : CountInv(w, task[w])'
    BY <1>0, <1>1, <2>1 DEF CountInv
  <2> QED
    BY <1>1, <2>2 DEF TypeInv
<1>2. ASSUME Regenerate \/ OrphanEnds PROVE TypeInv'
  BY <1>1, <1>2 DEF Regenerate, OrphanEnds
<1>3. ASSUME NEW v \in Validators, Validate(v) PROVE TypeInv'
  <2>1. starts' = starts + 1 /\ starts' <= MaxStarts /\ UNCHANGED <<installed, orphans>>
    BY <1>0, <1>3 DEF Validate
  <2>2. \A w \in Validators : Commands(w)' = Commands(w)
    BY <2>1 DEF Commands
  <2>3. ASSUME NEW w \in Validators, task'[w] = task[w] PROVE CountInv(w, task[w])'
    <3>1. task[w].call \in 1 .. starts => task[w].call \in 1 .. starts'
      BY <1>0, <2>1
    <3>2. CountInv(w, task[w]) /\ Commands(w)' = Commands(w) /\ installed' = installed
      BY <1>0, <2>1, <2>2
    <3> QED
      BY <2>3, <3>1, <3>2 DEF CountInv
  <2>4. CASE task' = task
    BY <1>0, <2>1, <2>3, <2>4 DEF TypeInv
  <2>5. CASE task' = [task EXCEPT ![v] = Begun(v, current)] /\ current.kind = v
    <3> DEFINE b == Begun(v, current)
    <3>1. /\ b.call = starts + 1 /\ b.project = current /\ b.phase = "between"
          /\ b.checks = FirstChecks(v, current) /\ b.left = Commands(v)
      BY DEF Begun
    <3> HIDE DEF b
    <3>2. task'[v] = b /\ \A w \in Validators \ {v} : task'[w] = task[w]
      BY <2>5 DEF ValidInv, b
    <3>3. CountInv(v, task[v])'
      <4>1. task'[v].call \in 1 .. starts'
        BY <1>0, <2>1, <3>1, <3>2
      <4>2. Len(FirstChecks(v, current)) + Len(Commands(v))
              = Len(FirstChecks(v, task'[v].project)) + Len(Commands(v))'
        BY <2>2, <3>1, <3>2
      <4> QED
        BY <2>5, <3>1, <3>2, <4>1, <4>2 DEF CountInv
    <3>4. \A w \in Validators : CountInv(w, task[w])'
      BY <1>0, <2>3, <3>2, <3>3
    <3> QED
      BY <1>0, <2>1, <3>4 DEF TypeInv
  <2> QED
    BY <1>3, <2>4, <2>5 DEF Validate
<1>4. ASSUME NEW v \in Validators, Skip(v) PROVE TypeInv'
  <2> DEFINE c == Skipped(Head(task[v].left))
  <2>1. task[v] \in Calls /\ task[v].left # <<>> /\ Head(task[v].left) \in Tools
    BY <1>0, <1>4, HeadTailProperties DEF Skip, Calls
  <2>2. c \in Checks
    BY <2>1 DEF Skipped, Checks, Tools
  <2> HIDE DEF c
  <2>3. CountInv(v, After(task[v], c))
    BY <1>0, <2>1, <2>2, AfterCounts
  <2> QED
    BY <1>4, <2>3, CallStepKeepsTypes DEF Skip, c, TypeInv
<1>5. ASSUME NEW v \in Validators, Launch(v) PROVE TypeInv'
  <2> DEFINE n == [task[v] EXCEPT !.phase = "waiting"]
  <2>1. task[v] \in Calls /\ task[v] # Idle /\ Binary(Head(task[v].left)) \in installed
    BY <1>0, <1>5 DEF Launch
  <2>2. /\ n.left = task[v].left /\ n.checks = task[v].checks /\ n.call = task[v].call
        /\ n.project = task[v].project
    BY <2>1 DEF Calls
  <2>3. task' = [task EXCEPT ![v] = n]
    BY <1>5 DEF Launch
  <2> HIDE DEF n
  <2>4. CountInv(v, n)
    BY <1>0, <2>1, <2>2 DEF CountInv
  <2> QED
    BY <1>5, <2>3, <2>4, CallStepKeepsTypes DEF Launch, TypeInv
<1>6. ASSUME NEW v \in Validators, Exit(v) PROVE TypeInv'
  <2>1. PICK passed \in Verdicts(task[v]) :
          task' = [task EXCEPT ![v] = After(task[v], Check(Head(task[v].left), passed))]
    BY <1>6 DEF Exit, ValidInv
  <2> DEFINE c == Check(Head(task[v].left), passed)
  <2>2. task[v] \in Calls /\ task[v].left # <<>> /\ Head(task[v].left) \in Tools
    BY <1>0, <1>6, WaitingHasWork DEF Exit, ValidInv
  <2>3. c \in Checks
    BY <2>1, <2>2 DEF Check, Checks, Tools, Verdicts
  <2> HIDE DEF c
  <2>4. CountInv(v, After(task[v], c))
    BY <1>0, <2>2, <2>3, AfterCounts
  <2> QED
    BY <1>6, <2>1, <2>4, CallStepKeepsTypes DEF Exit, c, TypeInv
<1>7. ASSUME NEW v \in Validators, Timeout(v) PROVE TypeInv'
  <2> DEFINE c == Check(Head(task[v].left), FALSE)
             n == [After(task[v], c) EXCEPT !.shared = TRUE]
  <2>1. task[v] \in Calls /\ task[v].left # <<>> /\ Head(task[v].left) \in Tools
    BY <1>0, <1>7, WaitingHasWork DEF Timeout, Abandon, ValidInv
  <2>2. c \in Checks /\ c.name = Head(task[v].left) /\ ~c.passed
    BY <2>1 DEF Check, Checks, Tools
  <2>3. task' = [task EXCEPT ![v] = n] /\ orphans' = orphans \cup {task[v].call}
    BY <1>7 DEF Timeout, Abandon, ValidInv
  <2> HIDE DEF c
  <2>4. CountInv(v, After(task[v], c)) /\ After(task[v], c) \in Calls
    BY <1>0, <2>1, <2>2, AfterCounts, AfterKeeps DEF ValidInv
  <2>5. /\ n.left = After(task[v], c).left /\ n.checks = After(task[v], c).checks
        /\ n.call = After(task[v], c).call /\ n.project = After(task[v], c).project
        /\ n.phase = After(task[v], c).phase
    BY <2>4 DEF Calls
  <2> HIDE DEF n
  <2>6. CountInv(v, n)
    <3>1. After(task[v], c) # Idle
      BY <2>4 DEF Calls, Idle
    <3> QED
      BY <2>4, <2>5, <3>1 DEF CountInv
  <2>7. task[v].call \in 1 .. starts
    BY <1>0, <1>7 DEF CountInv, Timeout, Abandon
  <2> QED
    BY <1>7, <2>3, <2>6, <2>7, CallStepKeepsTypes DEF Timeout, Abandon, TypeInv
<1>8. ASSUME NEW v \in Validators, Return(v) \/ CleanupFails(v) PROVE TypeInv'
  <2>1. CountInv(v, Idle)
    BY DEF CountInv
  <2> QED
    BY <1>8, <2>1, CallStepKeepsTypes DEF Return, CleanupFails, Finish, TypeInv
<1>9. CASE UNCHANGED vars
  BY <1>1, <1>9 DEF vars
<1> QED
  BY <1>2, <1>3, <1>4, <1>5, <1>6, <1>7, <1>8, <1>9 DEF Next, Step

\* A call reports one check for each of its commands, whichever are skipped, fail or run out
\* of time, and a tool is only launched when it is installed (validate, _run).
THEOREM ToolchainTyped == Spec => []TypeOK
<1>1. Init => ValidInv /\ TypeInv
  BY ToolchainAssumption DEF Init, ValidInv, CallInv, ResultInv, NoResult, TypeInv, CountInv
<1>2. ValidInv /\ TypeInv => TypeOK
  <2> SUFFICES ASSUME ValidInv, TypeInv PROVE TypeOK
    OBVIOUS
  <2>1. ASSUME NEW v \in Validators, task[v] # Idle
        PROVE  /\ task[v] \in Calls
               /\ task[v].phase = "waiting" => task[v].left # <<>>
               /\ \A c \in ToSet(task[v].checks) : c.name \in Names
    <3>1. CallInv(task[v]) /\ task[v] \in Calls
      BY <2>1 DEF ValidInv, CallInv
    <3>2. \A i \in DOMAIN task[v].checks : task[v].checks[i] \in Checks
      BY <3>1 DEF Calls
    <3> QED
      BY <2>1, <3>1, <3>2 DEF CallInv, ToSet, Checks
  <2> QED
    <3>1. current \in Projects /\ starts \in 0 .. MaxStarts /\ orphans \subseteq 1 .. starts
      BY ToolchainAssumption DEF TypeInv, ValidInv
    <3>2. ASSUME NEW v \in Validators, task[v] # Idle
          PROVE  /\ task[v].phase \in {"between", "waiting"} /\ task[v].project \in Projects
                 /\ task[v].project.kind = v
                 /\ task[v].phase = "waiting" => Binary(Head(task[v].left)) \in installed
                 /\ Len(task[v].checks) + Len(task[v].left)
                      = Len(FirstChecks(v, task[v].project)) + Len(Commands(v))
      BY <2>1, <3>2 DEF TypeInv, CountInv, Calls
    <3> QED
      BY <2>1, <3>1, <3>2 DEF TypeOK
<1> QED
  BY <1>1, <1>2, ValidStep, TypeStep, PTL DEF Spec
===============================================================================
