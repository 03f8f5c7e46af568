-------------------------------- MODULE Toolchain --------------------------------
(***************************************************************************)
(* The project validators (src/infrastructure/generators/*/validator.py)    *)
(* and the results they give (src/domain/generation/models.py): a validate  *)
(* writes the project into a temporary workspace and runs one tool after    *)
(* the other there, each under a timeout that ends the wait but not the     *)
(* process.  Meanwhile the project may be generated again; who holds a      *)
(* result tells a stale one by its fingerprint.                             *)
(*                                                                          *)
(* The content of a file is the set of the checks that object to it.        *)
(***************************************************************************)
EXTENDS Naturals, Sequences, FiniteSets, SequencesExt

CONSTANTS
  Projects,     \* GeneratedProjects: a kind and a sequence of files
  Toolboxes,    \* sets of binaries that may be installed
  RunInit,      \* run_init of the Terraform validator
  MaxStarts     \* bound: how often validate is called

Validators == {"terraform", "ansible"}

Paths(files) == {f.path : f \in ToSet(files)}

\* GeneratedFile and GeneratedProject refuse paths that climb and paths that come twice.
WellFormed(p) ==
  /\ \A f \in ToSet(p.files) : f.path # <<>> /\ ".." \notin ToSet(f.path)
  /\ Cardinality(Paths(p.files)) = Len(p.files)

ASSUME ToolchainAssumption ==
  /\ \A p \in Projects : WellFormed(p)
  /\ RunInit \in BOOLEAN /\ MaxStarts \in Nat

VARIABLES
  installed,   \* the binaries of the machine
  current,     \* the project the workflow holds now
  task,        \* per validator: the call of validate under way
  orphans,     \* calls with a process nobody waits for any more
  result,      \* per validator: what the last call returned or raised
  starts       \* calls so far

vars == <<installed, current, task, orphans, result, starts>>

--------------------------------------------------------------------------------
(* Checks and results.                                                       *)

Check(name, passed) == [name |-> name, executed |-> TRUE, passed |-> passed]

Skipped(name) == [name |-> name, executed |-> FALSE, passed |-> FALSE]

\* A hash over the files, sorted by path, and nothing else.
Fingerprint(p) == ToSet(p.files)

NoResult == [kind |-> "none"]

Raised(error) == [kind |-> error]

\* from_checks: a check that was skipped is no error.
FromChecks(checks, p) ==
  [kind |-> "result", checks |-> checks, fingerprint |-> Fingerprint(p),
   valid |-> \A c \in ToSet(checks) : c.executed => c.passed]

--------------------------------------------------------------------------------
(* What a validator runs.                                                    *)

\* _structure_check: the playbook is there, every task file names its tasks, and a role
\* with tasks has its meta.
StructureHolds(p) ==
  /\ <<"site.yml">> \in Paths(p.files)
  /\ \A f \in ToSet(p.files) :
       (Len(f.path) >= 3 /\ f.path[1] = "roles" /\ f.path[3] = "tasks") =>
         "unnamed" \notin f.content /\ <<"roles", f.path[2], "meta">> \in Paths(p.files)

FirstChecks(v, p) ==
  IF v = "terraform" THEN <<>>
  ELSE <<Check("structure", StructureHolds(p))>>

Binary(name) == IF name \in {"fmt", "init", "validate"} THEN "terraform" ELSE name

\* The checks in their order; without terraform one skipped check stands for its three.
Commands(v) ==
  IF v = "ansible" THEN <<"ansible-playbook", "ansible-lint">>
  ELSE (IF "terraform" \notin installed THEN <<"terraform">>
        ELSE <<"fmt">> \o (IF RunInit THEN <<"init">> ELSE <<>>) \o <<"validate">>)
       \o <<"tflint", "checkov">>

\* _materialise cannot write a file below another file.
Clashes(p) ==
  \E f, g \in ToSet(p.files) : IsStrictPrefix(f.path, g.path)

Idle == [phase |-> "idle"]

Begun(v, p) ==
  [phase |-> "between", project |-> p, checks |-> FirstChecks(v, p),
   left |-> Commands(v), call |-> starts + 1, shared |-> FALSE]

Objects(name, p) == \E f \in ToSet(p.files) : name \in f.content

\* Whether a tool exits with 0: it may always fail, and it passes when no file gives it a
\* reason not to.  A workspace that was shared with a process left behind may hold
\* anything.
Verdicts(t) ==
  {FALSE} \cup IF t.shared \/ ~Objects(Head(t.left), t.project) THEN {TRUE} ELSE {}

\* Slip: the first failure ends the series.
AfterSuccess(t, check) ==
  [t EXCEPT !.phase = "between", !.checks = Append(@, check),
            !.left = IF check.executed /\ ~check.passed THEN <<>> ELSE Tail(@)]

\* The check at the head has its outcome, and the next one follows, whatever it was.
After(t, check) ==
  [t EXCEPT !.phase = "between", !.checks = Append(@, check), !.left = Tail(@)]

--------------------------------------------------------------------------------
Init ==
  /\ installed \in Toolboxes /\ current \in Projects
  /\ task = [v \in Validators |-> Idle]
  /\ result = [v \in Validators |-> NoResult]
  /\ orphans = {} /\ starts = 0

\* The generator runs again, for an edited architecture or the same one.
Regenerate ==
  /\ current' \in Projects \ {current}
  /\ UNCHANGED <<installed, task, orphans, result, starts>>

\* validate: the kind is checked, the structure of an Ansible project too, and the
\* workspace written; both may raise before any tool runs.
Validate(v) ==
  /\ task[v] = Idle /\ starts < MaxStarts
  /\ starts' = starts + 1
  /\ IF current.kind # v
     THEN /\ result' = [result EXCEPT ![v] = Raised("UnsupportedInputError")]
          /\ UNCHANGED task
     ELSE IF Clashes(current)
     THEN result' = [result EXCEPT ![v] = Raised("OSError")] /\ UNCHANGED task
     ELSE /\ task' = [task EXCEPT ![v] = Begun(v, current)]
          /\ result' = [result EXCEPT ![v] = NoResult]
  /\ UNCHANGED <<installed, current, orphans>>

\* shutil.which finds no binary, or the process cannot be created.
Skip(v) ==
  /\ task[v].phase = "between" /\ task[v].left # <<>>
  /\ task' = [task EXCEPT ![v] = After(@, Skipped(Head(@.left)))]
  /\ UNCHANGED <<installed, current, orphans, result, starts>>

Launch(v) ==
  /\ task[v].phase = "between" /\ task[v].left # <<>>
  /\ Binary(Head(task[v].left)) \in installed
  /\ task' = [task EXCEPT ![v].phase = "waiting"]
  /\ UNCHANGED <<installed, current, orphans, result, starts>>

\* The process ends in time.
Exit(v) ==
  /\ task[v].phase = "waiting"
  /\ \E passed \in Verdicts(task[v]) :
       task' = [task EXCEPT ![v] = After(@, Check(Head(@.left), passed))]
  /\ UNCHANGED <<installed, current, orphans, result, starts>>

Abandon(v, check) ==
  /\ task[v].phase = "waiting"
  /\ task' = [task EXCEPT ![v] = [After(@, check) EXCEPT !.shared = TRUE]]
  /\ orphans' = orphans \cup {task[v].call}
  /\ UNCHANGED <<installed, current, result, starts>>

\* Slip: a timeout is reported as a check that was not executed.
TimeoutAsSkipped(v) == Abandon(v, Skipped(Head(task[v].left)))

\* Slip: after the timeout the process is awaited, without being killed.
TimeoutThenWait(v) ==
  /\ task[v].phase = "waiting" /\ task[v].call \notin orphans
  /\ orphans' = orphans \cup {task[v].call}
  /\ UNCHANGED <<installed, current, task, result, starts>>

\* wait_for expires: the check failed, and the process goes on without anyone waiting.
Timeout(v) == Abandon(v, Check(Head(task[v].left), FALSE))

\* The last process that a call left behind ends.
OrphanEnds ==
  /\ \E o \in orphans : orphans' = orphans \ {o}
  /\ UNCHANGED <<installed, current, task, result, starts>>

Done(v) == task[v].phase = "between" /\ task[v].left = <<>>

Finish(v, outcome) ==
  /\ task' = [task EXCEPT ![v] = Idle] /\ result' = [result EXCEPT ![v] = outcome]
  /\ UNCHANGED <<installed, current, orphans, starts>>

\* The workspace is deleted and the result built.
Return(v) == Done(v) /\ Finish(v, FromChecks(task[v].checks, task[v].project))

\* A process that was left behind still writes while the workspace is deleted: rmtree
\* finds a directory that is not empty, and its error leaves validate in place of the result.
CleanupFails(v) ==
  /\ Done(v) /\ task[v].call \in orphans
  /\ Finish(v, Raised("OSError"))

Step(v) == Skip(v) \/ Launch(v) \/ Timeout(v) \/ Return(v)

Next ==
  \/ Regenerate \/ OrphanEnds
  \/ \E v \in Validators : Validate(v) \/ Step(v) \/ Exit(v) \/ CleanupFails(v)

Spec == Init /\ [][Next]_vars

\* The event loop resumes what is ready and fires its timers; no tool need ever end.
FairSpec == Spec /\ \A v \in Validators : WF_vars(Step(v))

--------------------------------------------------------------------------------
(* Properties.                                                               *)

Names == {"structure", "terraform", "fmt", "init", "validate", "tflint", "checkov",
          "ansible-playbook", "ansible-lint"}

\* The fields have their types; a call reports no more checks than it has commands and,
\* for Ansible, a structure to look at.
TypeOK ==
  /\ current \in Projects /\ starts \in 0 .. MaxStarts
  /\ \A v \in Validators :
       LET t == task[v] IN
         t # Idle =>
           /\ t.phase \in {"between", "waiting"} /\ t.project \in Projects /\ t.project.kind = v
           /\ t.phase = "waiting" => t.left # <<>> /\ Binary(Head(t.left)) \in installed
           /\ Len(t.checks) + Len(t.left) = Len(FirstChecks(v, t.project)) + Len(Commands(v))
           /\ \A c \in ToSet(t.checks) : c.name \in Names
  /\ orphans \subseteq 1 .. starts

\* The executed checks among these have nothing to object to in a project.
TrueOf(checks, p) ==
  \A c \in ToSet(checks) :
    c.executed => IF c.name = "structure" THEN StructureHolds(p) ELSE ~Objects(c.name, p)

\* "Fingerprint of the project that was validated, so a stale result is detectable": a
\* valid result that carries the fingerprint of the project held now is true of it.  No
\* check it reports as executed objects to the project's files, although the project may
\* have been generated again meanwhile, and although an earlier process that ran out of
\* time may have been in the workspace when a later check ran.
ValidIsTrueOfTheProject ==
  \A v \in Validators :
    (result[v].kind = "result" /\ result[v].valid /\ result[v].fingerprint = Fingerprint(current)) =>
      TrueOf(result[v].checks, current)

\* A validation ends although every tool hangs: each one costs its timeout and no more.
EveryValidationEnds == \A v \in Validators : task[v] # Idle ~> task[v] = Idle
===============================================================================
