-------------------------------- MODULE RagLoader --------------------------------
(***************************************************************************)
(* load_rag of src/infrastructure/rag/loader.py: threads that import the    *)
(* external RAG under a process-wide lock, the modules and the environment  *)
(* they change on the way, and host code that imports modules of its own    *)
(* with the same flat names.                                                *)
(*                                                                          *)
(* A module object is a record: `from' is the checkout it was loaded from   *)
(* or "host", `kb' the knowledge base the environment named while it was    *)
(* imported, `gen' tells two imports of the same checkout apart.            *)
(***************************************************************************)
EXTENDS Naturals, Sequences, SequencesExt

CONSTANTS
  Threads,          \* threads that call load_rag
  Roots,            \* checkouts
  Kbs,              \* knowledge base directories a caller may pass
  Files,            \* Files[r]: the flat names the checkout r has a module for
  HostNames,        \* flat names the host application has modules for
  MaxCalls          \* bound: calls of load_rag

VARIABLES
  lock,        \* the holder of _lock, or Nobody
  cache,       \* _cache
  sysmodules,  \* sys.modules, at the RAG's four names
  syspath,     \* the checkouts on sys.path
  envkb,       \* NET2TF_KB_DIR, or Unset
  pc, call, left, shadowed, modules,   \* per thread: the frame of load_rag
  outcome,     \* per thread: what the last load_rag returned or raised
  calls,       \* calls so far
  loads,       \* imports started
  hostgot      \* history: for every host import its name, where the module came from and
               \* whether a load was in progress

frame == <<call, shadowed, modules>>
ghosts == <<calls, loads, hostgot>>
vars == <<lock, cache, sysmodules, syspath, envkb, pc, left, frame, outcome, ghosts>>

Nobody == "nobody"

Unset == "unset"
Names == {"app", "config", "planner", "retriever"}
Optional == {"retriever", "planner"}
PopOrder == <<"app", "retriever", "planner", "config">>
ImportOrder == <<"config", "retriever", "planner", "app">>

\* The labels of the model are no threads and no checkouts.
ASSUME RagLoaderAssumption ==
  /\ Nobody \notin Threads
  /\ {"host", "nowhere"} \cap Roots = {}
  /\ HostNames \subseteq Names
  /\ Files \in [Roots -> SUBSET Names]

Absent == [from |-> "nowhere", kb |-> Unset, gen |-> 0]
HostModule == [from |-> "host", kb |-> Unset, gen |-> 0]
NoEntry == [root |-> "none", kb_dir |-> Unset, modules |-> [n \in Names |-> Absent]]
NoOutcome == [kind |-> "none", entry |-> NoEntry]
Raised(kind) == [kind |-> kind, entry |-> NoEntry]

Init ==
  /\ lock = Nobody /\ cache = [r \in Roots |-> NoEntry]
  /\ sysmodules \in [Names -> {Absent, HostModule}]
  /\ \A n \in Names \ HostNames : sysmodules[n] = Absent
  /\ syspath = <<>> /\ envkb \in {Unset} \cup Kbs
  /\ pc = [t \in Threads |-> "idle"]
  /\ call = [t \in Threads |-> [root |-> "none", kb |-> Unset]]
  /\ left = [t \in Threads |-> <<>>]
  /\ shadowed = [t \in Threads |-> [n \in Names |-> Absent]]
  /\ modules = shadowed
  /\ outcome = [t \in Threads |-> NoOutcome]
  /\ calls = 0 /\ loads = 0
  /\ hostgot = {[name |-> n, from |-> "host", during |-> FALSE] :
                   n \in {n \in Names : sysmodules[n] = HostModule}}

--------------------------------------------------------------------------------
Goto(t, label) == pc' = [pc EXCEPT ![t] = label]

\* The host's own module, executed now: during a load it is a new object, because the one
\* the host had is taken out of sys.modules.
HostCopy == [HostModule EXCEPT !.gen = IF lock = Nobody THEN 0 ELSE loads]

\* importlib.import_module: the registered module, else one found along sys.path.  The
\* checkout is its first entry during a load; a name it has no file for is looked for in
\* the host's directories behind it.
Resolve(name) ==
  LET checkout == syspath # <<>> /\ name \in Files[Head(syspath)] IN
  CASE sysmodules[name] # Absent -> sysmodules[name]
    [] sysmodules[name] = Absent /\ checkout ->
         [from |-> Head(syspath), kb |-> envkb, gen |-> loads]
    [] OTHER -> IF name \in HostNames THEN HostCopy ELSE Absent

\* A caller asks for the checkout at r; kb_dir may be given or default to r/kb.
Call(t, r, kb) ==
  /\ pc[t] = "idle" /\ calls < MaxCalls /\ calls' = calls + 1
  /\ call' = [call EXCEPT ![t] = [root |-> r, kb |-> kb]]
  /\ outcome' = [outcome EXCEPT ![t] = NoOutcome]
  /\ Goto(t, "acquire")
  /\ UNCHANGED <<lock, cache, sysmodules, syspath, envkb, left, shadowed, modules, loads,
                 hostgot>>

Acquire(t) ==
  /\ pc[t] = "acquire" /\ lock = Nobody
  /\ lock' = t /\ Goto(t, "lookup")
  /\ UNCHANGED <<cache, sysmodules, syspath, envkb, left, frame, outcome, ghosts>>

\* Leaving the with block, by return or by exception.
Release(t, result) ==
  /\ lock' = Nobody /\ outcome' = [outcome EXCEPT ![t] = result] /\ Goto(t, "idle")

\* A cached entry is returned whatever kb_dir was asked for.
CacheHit(t) ==
  /\ pc[t] = "lookup" /\ cache[call[t].root] # NoEntry
  /\ Release(t, [kind |-> "loaded", entry |-> cache[call[t].root]])
  /\ UNCHANGED <<cache, sysmodules, syspath, envkb, left, frame, ghosts>>

\* No checkout, no app.py or no knowledge base directory.
NotACheckout(t) ==
  /\ pc[t] = "lookup" /\ cache[call[t].root] = NoEntry
  /\ Release(t, Raised("RAGUnavailableError"))
  /\ UNCHANGED <<cache, sysmodules, syspath, envkb, left, frame, ghosts>>

\* Slip: the checkout is exported as the knowledge base.
SetEnvironmentToRoot(t) ==
  /\ pc[t] = "lookup" /\ cache[call[t].root] = NoEntry
  /\ loads' = loads + 1 /\ envkb' = call[t].root
  /\ left' = [left EXCEPT ![t] = PopOrder]
  /\ modules' = [modules EXCEPT ![t] = [n \in Names |-> Absent]]
  /\ Goto(t, "shadow")
  /\ UNCHANGED <<lock, cache, sysmodules, syspath, call, shadowed, outcome, calls, hostgot>>

\* Slip: a checkout that is in the cache is imported again.
SetEnvironmentAgain(t) ==
  /\ pc[t] = "lookup"
  /\ loads' = loads + 1
  /\ envkb' = IF envkb = Unset THEN call[t].kb ELSE envkb
  /\ left' = [left EXCEPT ![t] = PopOrder]
  /\ modules' = [modules EXCEPT ![t] = [n \in Names |-> Absent]]
  /\ Goto(t, "shadow")
  /\ UNCHANGED <<lock, cache, sysmodules, syspath, call, shadowed, outcome, calls, hostgot>>

\* The environment is set (setdefault for the knowledge base) before the import.  Of the
\* four modules only app.py has been looked for by then.
SetEnvironment(t) ==
  /\ pc[t] = "lookup" /\ cache[call[t].root] = NoEntry /\ "app" \in Files[call[t].root]
  /\ loads' = loads + 1
  /\ envkb' = IF envkb = Unset THEN call[t].kb ELSE envkb
  /\ left' = [left EXCEPT ![t] = PopOrder]
  /\ modules' = [modules EXCEPT ![t] = [n \in Names |-> Absent]]
  /\ Goto(t, "shadow")
  /\ UNCHANGED <<lock, cache, sysmodules, syspath, call, shadowed, outcome, calls, hostgot>>

\* Slip: what is registered is remembered and left in place.
ShadowInPlace(t) ==
  /\ pc[t] = "shadow"
  /\ shadowed' = [shadowed EXCEPT ![t][Head(left[t])] = sysmodules[Head(left[t])]]
  /\ IF Len(left[t]) > 1
     THEN left' = [left EXCEPT ![t] = Tail(@)] /\ UNCHANGED pc
     ELSE left' = [left EXCEPT ![t] = ImportOrder] /\ Goto(t, "path")
  /\ UNCHANGED <<lock, cache, sysmodules, syspath, envkb, call, modules, outcome, ghosts>>

\* What is registered under one of the names is remembered and taken out.
Shadow(t) ==
  /\ pc[t] = "shadow"
  /\ LET name == Head(left[t]) IN
       /\ shadowed' = [shadowed EXCEPT ![t][name] = sysmodules[name]]
       /\ sysmodules' = [sysmodules EXCEPT ![name] = Absent]
  /\ IF Len(left[t]) > 1
     THEN left' = [left EXCEPT ![t] = Tail(@)] /\ UNCHANGED pc
     ELSE left' = [left EXCEPT ![t] = ImportOrder] /\ Goto(t, "path")
  /\ UNCHANGED <<lock, cache, syspath, envkb, call, modules, outcome, ghosts>>

InsertPath(t) ==
  /\ pc[t] = "path"
  /\ syspath' = <<call[t].root>> \o syspath /\ Goto(t, "import")
  /\ UNCHANGED <<lock, cache, sysmodules, envkb, left, frame, outcome, ghosts>>

Import(t) ==
  /\ pc[t] = "import"
  /\ LET name == Head(left[t]) IN
       /\ Resolve(name) # Absent
       /\ sysmodules' = [sysmodules EXCEPT ![name] = Resolve(name)]
       /\ modules' = [modules EXCEPT ![t][name] = Resolve(name)]
  /\ left' = [left EXCEPT ![t] = Tail(@)]
  /\ IF Len(left[t]) > 1 THEN UNCHANGED pc ELSE Goto(t, "symbols")
  /\ UNCHANGED <<lock, cache, syspath, envkb, call, shadowed, outcome, ghosts>>

\* Slip: no finally, the exception leaves at once.
UnwindWithoutCleanup(t, kind) ==
  /\ outcome' = [outcome EXCEPT ![t] = Raised(kind)]
  /\ Goto(t, "store")

\* Slip: the lock is taken by hand and an exception skips the release.
UnwindHoldingLock(t, kind) ==
  /\ outcome' = [outcome EXCEPT ![t] = Raised(kind)]
  /\ Goto(t, "idle")

\* The finally block starts with an exception in flight.
Unwind(t, kind) ==
  /\ outcome' = [outcome EXCEPT ![t] = Raised(kind)]
  /\ Goto(t, "unpath")

\* An ImportError.  For config and app it becomes RAGUnavailableError.  For the two
\* optional modules the warning that is logged carries a key `module', which logging
\* refuses with a KeyError: it propagates instead of the `continue'.
ImportFails(t) ==
  /\ pc[t] = "import"
  /\ Unwind(t, IF Head(left[t]) \in Optional THEN "KeyError" ELSE "RAGUnavailableError")
  /\ UNCHANGED <<lock, cache, sysmodules, syspath, envkb, left, frame, ghosts>>

SymbolsPresent(t) ==
  /\ pc[t] = "symbols" /\ Goto(t, "unpath")
  /\ UNCHANGED <<lock, cache, sysmodules, syspath, envkb, left, frame, outcome, ghosts>>

SymbolMissing(t) ==
  /\ pc[t] = "symbols" /\ Unwind(t, "RAGUnavailableError")
  /\ UNCHANGED <<lock, cache, sysmodules, syspath, envkb, left, frame, ghosts>>

\* list.remove: the first entry that is this checkout.
RemovePath(t) ==
  /\ pc[t] = "unpath"
  /\ syspath' = RemoveFirst(syspath, call[t].root)
  /\ left' = [left EXCEPT ![t] = ImportOrder] /\ Goto(t, "unregister")
  /\ UNCHANGED <<lock, cache, sysmodules, envkb, frame, outcome, ghosts>>

Unregister(t) ==
  /\ pc[t] = "unregister"
  /\ sysmodules' = [sysmodules EXCEPT ![Head(left[t])] = Absent]
  /\ IF Len(left[t]) > 1
     THEN left' = [left EXCEPT ![t] = Tail(@)] /\ UNCHANGED pc
     ELSE left' = [left EXCEPT ![t] = PopOrder] /\ Goto(t, "restore")
  /\ UNCHANGED <<lock, cache, syspath, envkb, frame, outcome, ghosts>>

\* Slip: only the modules with required symbols are put back, and config is shadowed beside
\* them.
RestoreRequired(t) ==
  /\ pc[t] = "restore"
  /\ LET name == Head(left[t]) IN
       sysmodules' = IF shadowed[t][name] # Absent /\ name # "config"
                     THEN [sysmodules EXCEPT ![name] = shadowed[t][name]] ELSE sysmodules
  /\ left' = [left EXCEPT ![t] = Tail(@)]
  /\ IF Len(left[t]) > 1 THEN UNCHANGED pc ELSE Goto(t, "store")
  /\ UNCHANGED <<lock, cache, syspath, envkb, frame, outcome, ghosts>>

Restore(t) ==
  /\ pc[t] = "restore"
  /\ LET name == Head(left[t]) IN
       sysmodules' = IF shadowed[t][name] # Absent
                     THEN [sysmodules EXCEPT ![name] = shadowed[t][name]] ELSE sysmodules
  /\ left' = [left EXCEPT ![t] = Tail(@)]
  /\ IF Len(left[t]) > 1 THEN UNCHANGED pc ELSE Goto(t, "store")
  /\ UNCHANGED <<lock, cache, syspath, envkb, frame, outcome, ghosts>>

\* A failed import leaves the lock with its exception; a good one is cached.
Propagate(t) ==
  /\ pc[t] = "store" /\ outcome[t] # NoOutcome
  /\ Release(t, outcome[t])
  /\ UNCHANGED <<cache, sysmodules, syspath, envkb, left, frame, ghosts>>

Store(t) ==
  /\ pc[t] = "store" /\ outcome[t] = NoOutcome
  /\ LET entry == [root |-> call[t].root, kb_dir |-> call[t].kb, modules |-> modules[t]] IN
       /\ cache' = [cache EXCEPT ![call[t].root] = entry]
       /\ Release(t, [kind |-> "loaded", entry |-> entry])
  /\ UNCHANGED <<sysmodules, syspath, envkb, left, frame, ghosts>>

\* reset_cache.
Reset ==
  /\ lock = Nobody /\ cache' = [r \in Roots |-> NoEntry] /\ cache # cache'
  /\ UNCHANGED <<lock, sysmodules, syspath, envkb, pc, left, frame, outcome, ghosts>>

\* Host code imports a module of its own by its flat name.  _lock does not stop it.
HostImport(name) ==
  /\ sysmodules' = [sysmodules EXCEPT ![name] = Resolve(name)]
  /\ hostgot' = hostgot \cup {[name |-> name, from |-> Resolve(name).from,
                               during |-> lock # Nobody]}
  /\ UNCHANGED <<lock, cache, syspath, envkb, pc, left, frame, outcome, calls, loads>>

Load(t) ==
  \/ Acquire(t) \/ CacheHit(t) \/ NotACheckout(t) \/ SetEnvironment(t)
  \/ Shadow(t) \/ InsertPath(t) \/ Import(t) \/ ImportFails(t)
  \/ SymbolsPresent(t) \/ SymbolMissing(t)
  \/ RemovePath(t) \/ Unregister(t) \/ Restore(t) \/ Propagate(t) \/ Store(t)

Next ==
  \/ \E t \in Threads : Load(t) \/ \E r \in Roots, kb \in Kbs : Call(t, r, kb)
  \/ Reset
  \/ \E name \in HostNames : HostImport(name)

Spec == Init /\ [][Next]_vars

--------------------------------------------------------------------------------
(* Properties.                                                               *)

ModuleObjects == [from : Roots \cup {"host", "nowhere"}, kb : Kbs \cup {Unset}, gen : Nat]

\* The lock, the registered modules and the frames stay in their domains.
TypeOK ==
  /\ lock \in Threads \cup {Nobody}
  /\ sysmodules \in [Names -> ModuleObjects]
  /\ \A t \in Threads : modules[t] \in [Names -> ModuleObjects]
  /\ \A i \in 1 .. Len(syspath) : syspath[i] \in Roots
  /\ envkb \in Kbs \cup {Unset}

\* Host code that imported in the middle of a load.
Disturbed == \E g \in hostgot : g.during

\* Whatever fails on the way, once the lock is free the names app, config, planner and
\* retriever mean what they meant to the host before: its own modules, the same objects,
\* or nothing; and no checkout is left on sys.path (_import_modules, finally block).
NamesRestored ==
  lock = Nobody =>
    /\ syspath = <<>>
    /\ ~Disturbed =>
         \A n \in Names :
           sysmodules[n] = IF \E g \in hostgot : g.name = n THEN HostModule ELSE Absent

\* Even when host code imports in the middle of a load, no module of a checkout stays
\* registered under a flat name after it.
NothingLeaks ==
  lock = Nobody => \A n \in Names : sysmodules[n].from \notin Roots

\* A cached RAG is made, name by name, of the modules its own checkout has, all executed by
\* one import; a name the checkout has no file for is the host's module of that name, executed
\* anew.  Never is it a module the host had before the load or one of another checkout
\* (_import_modules: the names are taken out of sys.modules, the path entry comes first).
RagIsItsOwn ==
  ~Disturbed =>
    \A r \in Roots : cache[r] # NoEntry =>
      \A n \in Names : /\ cache[r].modules[n].from = IF n \in Files[r] THEN r ELSE "host"
                       /\ cache[r].modules[n].gen = cache[r].modules["app"].gen

\* A checkout that has been imported is not imported again next to the first copy: its
\* entry is only ever dropped, by reset_cache ("Cached per resolved path").
SingleImport ==
  [][\A r \in Roots : cache[r] # NoEntry => cache'[r] \in {cache[r], NoEntry}]_vars

\* A thread that has left load_rag, with an entry or with an exception, does not hold the
\* lock any more, and one that is inside does: no failure blocks the loads after it.
LockIsOfTheLoad ==
  \A t \in Threads : lock = t <=> pc[t] \notin {"idle", "acquire"}

--------------------------------------------------------------------------------
(* Statements of the repository that the code does not keep.                 *)

\* load_rag: "Raises RAGUnavailableError when the checkout is missing, incomplete ...".
FailuresAreTyped ==
  \A t \in Threads : outcome[t].kind \in {"none", "loaded", "RAGUnavailableError"}
===============================================================================
