----------------------------- MODULE RagLoaderProofs -----------------------------
(***************************************************************************)
(* Proofs about RagLoader: one inductive invariant, LoaderInv, from which   *)
(* all its safety properties follow.                                        *)
(***************************************************************************)
EXTENDS RagLoader, SequenceFacts, TLAPS

Inside == {"lookup", "shadow", "path", "import", "symbols", "unpath", "unregister",
           "restore", "store"}

\* The places where the names that are left to treat are in `left'.
Working == {"shadow", "import", "unregister", "restore"}

\* The places where the checkout is on sys.path.
OnPath == {"import", "symbols", "unpath"}

Holding == lock # Nobody

Shapes ==
  /\ lock \in Threads \cup {Nobody} /\ DOMAIN cache = Roots
  /\ sysmodules \in [Names -> ModuleObjects] /\ envkb \in Kbs \cup {Unset}
  /\ pc \in [Threads -> {"idle", "acquire"} \cup Inside]
  /\ call \in [Threads -> [root : Roots \cup {"none"}, kb : Kbs \cup {Unset}]]
  /\ \A t \in Threads : pc[t] # "idle" => call[t].root \in Roots
  /\ left \in [Threads -> Seq(Names)]
  /\ \A t \in Threads : /\ pc[t] \in Working => left[t] # <<>> /\ Simple(left[t])
                        /\ pc[t] = "path" => left[t] = ImportOrder
  /\ shadowed \in [Threads -> [Names -> ModuleObjects]]
  /\ modules \in [Threads -> [Names -> ModuleObjects]]
  /\ DOMAIN outcome = Threads /\ loads \in Nat

\* The path is the checkout's exactly between its insertion and its removal.
PathInv ==
  syspath = IF Holding /\ pc[lock] \in OnPath THEN <<call[lock].root>> ELSE <<>>

\* A module of a checkout is registered only while one may be imported, and then until it
\* is unregistered; nothing is remembered for restoring but modules of the host.
LeakInv ==
  /\ \A t \in Threads, n \in Names : shadowed[t][n].from \notin Roots
  /\ \A n \in Names : sysmodules[n].from \in Roots =>
       /\ Holding
       /\ pc[lock] \in OnPath \/ (pc[lock] = "unregister" /\ n \in ToSet(left[lock]))

\* What the host has under a name.
Own(n) == IF \E g \in hostgot : g.name = n THEN HostModule ELSE Absent

\* Where a load of the checkout r finds the module of a name.
Origin(r, n) == IF n \in Files[r] THEN r ELSE "host"

\* The thread has the module its checkout stands for, of this import.
Fetched(t, n) == modules[t][n].from = Origin(call[t].root, n) /\ modules[t][n].gen = loads

\* How far an undisturbed load has displaced the host's modules and put them back.
Progress(t) ==
  /\ pc[t] \in {"lookup", "store"} => \A n \in Names : sysmodules[n] = Own(n)
  /\ pc[t] = "shadow" => \A n \in Names :
       IF n \in ToSet(left[t]) THEN sysmodules[n] = Own(n)
       ELSE sysmodules[n] = Absent /\ shadowed[t][n] = Own(n)
  /\ pc[t] \in {"path", "import", "symbols", "unpath", "unregister", "restore"} =>
       \A n \in Names : shadowed[t][n] = Own(n)
  /\ pc[t] = "path" => \A n \in Names : sysmodules[n] = Absent
  /\ pc[t] = "import" => \A n \in Names :
       IF n \in ToSet(left[t]) THEN sysmodules[n] = Absent ELSE Fetched(t, n)
  /\ (pc[t] = "symbols"
      \/ (pc[t] \in {"unpath", "unregister", "restore", "store"} /\ outcome[t] = NoOutcome)) =>
       \A n \in Names : Fetched(t, n)
  /\ pc[t] = "unregister" => \A n \in Names : n \notin ToSet(left[t]) => sysmodules[n] = Absent
  /\ pc[t] = "restore" => \A n \in Names :
       sysmodules[n] = IF n \in ToSet(left[t]) THEN Absent ELSE Own(n)

RestoreInv ==
  ~Disturbed => IF Holding THEN Progress(lock) ELSE \A n \in Names : sysmodules[n] = Own(n)

\* Who has got past the cache is loading what is not in it.
CacheInv ==
  /\ \A t \in Threads : pc[t] \in Inside \ {"lookup"} => cache[call[t].root] = NoEntry
  /\ RagIsItsOwn

LoaderInv == Shapes /\ LockIsOfTheLoad /\ PathInv /\ LeakInv /\ RestoreInv /\ CacheInv

--------------------------------------------------------------------------------
(* Lemmas.                                                                   *)

LEMMA Orders ==
  /\ PopOrder \in Seq(Names) /\ Simple(PopOrder) /\ PopOrder # <<>> /\ ToSet(PopOrder) = Names
  /\ ImportOrder \in Seq(Names) /\ Simple(ImportOrder) /\ ImportOrder # <<>>
  /\ ToSet(ImportOrder) = Names
<1>1. /\ PopOrder \in Seq(Names) /\ PopOrder # <<>> /\ DOMAIN PopOrder = 1 .. 4
      /\ PopOrder[1] = "app" /\ PopOrder[2] = "retriever" /\ PopOrder[3] = "planner"
      /\ PopOrder[4] = "config"
  BY DEF PopOrder, Names
<1>2. /\ ImportOrder \in Seq(Names) /\ ImportOrder # <<>> /\ DOMAIN ImportOrder = 1 .. 4
      /\ ImportOrder[1] = "config" /\ ImportOrder[2] = "retriever" /\ ImportOrder[3] = "planner"
      /\ ImportOrder[4] = "app"
  BY DEF ImportOrder, Names
<1>3. 1 .. 4 = {1, 2, 3, 4}
  OBVIOUS
<1>4. Simple(PopOrder) /\ Simple(ImportOrder)
  BY <1>1, <1>2, <1>3 DEF Simple
<1>5. ToSet(PopOrder) = Names /\ ToSet(ImportOrder) = Names
  BY <1>1, <1>2, <1>3 DEF ToSet, Names
<1>6. QED
  BY <1>1, <1>2, <1>4, <1>5

LEMMA LeftStep ==
  ASSUME Shapes, NEW t \in Threads, pc[t] \in Working
  PROVE  /\ Head(left[t]) \in Names /\ Head(left[t]) \in ToSet(left[t])
         /\ Tail(left[t]) \in Seq(Names) /\ Simple(Tail(left[t]))
         /\ ToSet(Tail(left[t])) = ToSet(left[t]) \ {Head(left[t])}
         /\ Len(left[t]) > 1 => Tail(left[t]) # <<>>
         /\ ~(Len(left[t]) > 1) => ToSet(left[t]) = {Head(left[t])}
<1> DEFINE s == left[t]
<1>1. s \in Seq(Names) /\ s # <<>> /\ Simple(s)
  BY DEF Shapes
<1> HIDE DEF s
<1>2. /\ Head(s) \in Names /\ Head(s) \in ToSet(s) /\ Tail(s) \in Seq(Names) /\ Simple(Tail(s))
      /\ ToSet(Tail(s)) = ToSet(s) \ {Head(s)}
  BY <1>1, TailOfSimple
<1>3. Len(Tail(s)) = Len(s) - 1 /\ Len(s) \in Nat \ {0}
  BY <1>1, HeadTailProperties, EmptySeq
<1>4. Len(s) > 1 => Tail(s) # <<>>
  <2>1. Len(s) > 1 => Len(Tail(s)) # 0
    BY <1>3
  <2>2. Len(Tail(s)) # 0 => Tail(s) # <<>>
    BY <1>2, EmptySeq
  <2>3. QED
    BY <2>1, <2>2
<1>5. ASSUME ~(Len(s) > 1) PROVE ToSet(s) = {Head(s)}
  <2>1. Len(s) = 1 /\ DOMAIN s = {1} /\ Head(s) = s[1]
    BY <1>1, <1>3, <1>5, LenProperties, HeadTailProperties
  <2>2. QED
    BY <2>1 DEF ToSet
<1>6. QED
  BY <1>2, <1>4, <1>5 DEF s

\* Only the thread that holds the lock is inside.
LEMMA Holder ==
  ASSUME LoaderInv, NEW t \in Threads, pc[t] \in Inside
  PROVE  /\ lock = t /\ Holding /\ call[t].root \in Roots
         /\ \A u \in Threads : u # t => pc[u] \in {"idle", "acquire"}
<1>1. lock = t
  BY DEF LoaderInv, LockIsOfTheLoad, Inside
<1>2. \A u \in Threads : u # t => pc[u] \in {"idle", "acquire"}
  BY <1>1 DEF LoaderInv, LockIsOfTheLoad
<1>3. Holding
  BY <1>1, RagLoaderAssumption DEF Holding
<1>4. call[t].root \in Roots
  BY DEF LoaderInv, Shapes, Inside
<1>5. QED
  BY <1>1, <1>2, <1>3, <1>4

LEMMA NoModules ==
  /\ Absent \in ModuleObjects /\ HostModule \in ModuleObjects /\ Absent # HostModule
  /\ Absent.from \notin Roots /\ HostModule.from \notin Roots
BY RagLoaderAssumption DEF Absent, HostModule, ModuleObjects

\* What an import finds: what is registered; else the checkout's module while one is on
\* the path; else a module of the host.
LEMMA Resolved ==
  ASSUME LoaderInv, NEW n \in Names
  PROVE  /\ Resolve(n) \in ModuleObjects
         /\ sysmodules[n] # Absent => Resolve(n) = sysmodules[n]
         /\ syspath = <<>> /\ sysmodules[n] = Absent => Resolve(n).from \notin Roots
         /\ ~Holding /\ sysmodules[n] = Absent /\ n \in HostNames => Resolve(n) = HostModule
         /\ syspath # <<>> /\ sysmodules[n] = Absent /\ Resolve(n) # Absent =>
              /\ Holding /\ Resolve(n).from = Origin(call[lock].root, n)
              /\ Resolve(n).gen = loads
<1> DEFINE checkout == syspath # <<>> /\ n \in Files[Head(syspath)]
<1>1. /\ HostCopy \in ModuleObjects /\ HostCopy.from = "host" /\ "host" \notin Roots
      /\ Holding => HostCopy.gen = loads
      /\ ~Holding => HostCopy = HostModule
  BY RagLoaderAssumption DEF HostCopy, HostModule, ModuleObjects, LoaderInv, Shapes, Holding
<1>2. syspath # <<>> => /\ Holding /\ Head(syspath) = call[lock].root
                        /\ call[lock].root \in Roots
  BY DEF LoaderInv, PathInv, Shapes, Holding, OnPath
<1>3. CASE sysmodules[n] # Absent
  <2>1. Resolve(n) = sysmodules[n]
    BY <1>3 DEF Resolve
  <2>2. QED
    BY <1>3, <2>1 DEF LoaderInv, Shapes
<1>4. CASE sysmodules[n] = Absent /\ checkout
  <2>1. Resolve(n) = [from |-> call[lock].root, kb |-> envkb, gen |-> loads]
    BY <1>2, <1>4 DEF Resolve
  <2>2. QED
    BY <1>2, <1>4, <2>1 DEF LoaderInv, Shapes, ModuleObjects, Origin
<1>5. CASE sysmodules[n] = Absent /\ ~checkout
  <2>1. Resolve(n) = IF n \in HostNames THEN HostCopy ELSE Absent
    BY <1>5 DEF Resolve
  <2>2. syspath # <<>> => n \notin Files[call[lock].root]
    BY <1>2, <1>5
  <2>3. QED
    BY <1>1, <1>2, <1>5, <2>1, <2>2, NoModules DEF Origin
<1>6. QED
  BY <1>3, <1>4, <1>5

LEMMA LoaderInit == Init => LoaderInv
<1> SUFFICES ASSUME Init PROVE LoaderInv
  OBVIOUS
<1>1. lock = Nobody /\ ~Holding /\ syspath = <<>> /\ cache = [r \in Roots |-> NoEntry]
  BY DEF Init, Holding
<1>2. sysmodules \in [Names -> {Absent, HostModule}]
  BY DEF Init
<1>3. /\ shadowed = [t \in Threads |-> [n \in Names |-> Absent]] /\ modules = shadowed
      /\ pc = [t \in Threads |-> "idle"]
  BY DEF Init
<1>4. Shapes
  <2>1. sysmodules \in [Names -> ModuleObjects]
    BY <1>2, NoModules
  <2>2. shadowed \in [Threads -> [Names -> ModuleObjects]]
    BY <1>3, NoModules
  <2>3. left \in [Threads -> Seq(Names)]
    BY DEF Init
  <2>4. call \in [Threads -> [root : Roots \cup {"none"}, kb : Kbs \cup {Unset}]]
    BY DEF Init
  <2>5. \A t \in Threads : pc[t] \notin Working /\ pc[t] # "path"
    BY <1>3 DEF Working
  <2>6. QED
    BY <1>1, <1>3, <2>1, <2>2, <2>3, <2>4, <2>5 DEF Init, Shapes
<1>5. LockIsOfTheLoad
  BY <1>1, <1>3, RagLoaderAssumption DEF LockIsOfTheLoad
<1>6. LeakInv
  BY <1>2, <1>3, NoModules DEF LeakInv
<1>7. RestoreInv
  <2> DEFINE record(n) == [name |-> n, from |-> "host", during |-> FALSE]
             mine == {n \in Names : sysmodules[n] = HostModule}
  <2>1. \A n \in Names : (\E g \in hostgot : g.name = n) <=> sysmodules[n] = HostModule
    <3>1. hostgot = {record(n) : n \in mine} /\ \A n : record(n).name = n
      BY DEF Init
    <3> HIDE DEF record
    <3>2. \A n \in Names : (\E g \in hostgot : g.name = n) <=> n \in mine
      BY <3>1
    <3>3. QED
      BY <3>2
  <2>2. QED
    BY <1>1, <1>2, <2>1 DEF RestoreInv, Own
<1>8. CacheInv
  BY <1>1, <1>3 DEF CacheInv, RagIsItsOwn, Inside
<1>9. QED
  BY <1>1, <1>4, <1>5, <1>6, <1>7, <1>8 DEF LoaderInv, PathInv

\* Host code imports: undisturbed only while nobody loads, and then what it finds is its own.
LEMMA HostKeeps ==
  ASSUME LoaderInv, NEW name \in HostNames, HostImport(name) PROVE LoaderInv'
<1>0. name \in Names
  BY RagLoaderAssumption
<1>1. /\ sysmodules' = [sysmodules EXCEPT ![name] = Resolve(name)]
      /\ hostgot' = hostgot \cup {[name |-> name, from |-> Resolve(name).from, during |-> Holding]}
      /\ UNCHANGED <<lock, cache, syspath, envkb, pc, left, call, shadowed, modules, outcome, loads>>
  BY DEF HostImport, frame, Holding
<1>2. Resolve(name) \in ModuleObjects
  BY <1>0, Resolved
<1>3. Shapes'
  BY <1>0, <1>1, <1>2 DEF LoaderInv, Shapes
<1>4. (LockIsOfTheLoad /\ PathInv)' /\ Holding' = Holding
  BY <1>1 DEF LoaderInv, LockIsOfTheLoad, PathInv, Holding
<1>5. LeakInv'
  <2> SUFFICES ASSUME NEW n \in Names, sysmodules'[n].from \in Roots
               PROVE  /\ Holding
                      /\ pc[lock] \in OnPath \/ (pc[lock] = "unregister" /\ n \in ToSet(left[lock]))
    BY <1>1, <1>4 DEF LoaderInv, LeakInv
  <2>1. CASE sysmodules'[n] = sysmodules[n]
    BY <2>1 DEF LoaderInv, LeakInv
  <2>2. CASE n = name /\ sysmodules[n] = Absent
    <3>1. sysmodules'[n] = Resolve(n)
      BY <1>0, <1>1, <2>2 DEF LoaderInv, Shapes
    <3>2. syspath # <<>>
      BY <1>0, <2>2, <3>1, Resolved
    <3>3. QED
      BY <3>2 DEF LoaderInv, PathInv
  <2>3. QED
    BY <1>0, <1>1, <2>1, <2>2, Resolved DEF LoaderInv, Shapes
<1>6. RestoreInv'
  <2> SUFFICES ASSUME ~Disturbed'
               PROVE  ~Holding /\ \A n \in Names : sysmodules'[n] = Own(n)'
    BY <1>4 DEF RestoreInv
  <2>1. ~Disturbed /\ ~Holding
    <3> DEFINE new == [name |-> name, from |-> Resolve(name).from, during |-> Holding]
    <3>1. new \in hostgot' /\ hostgot \subseteq hostgot' /\ new.during = Holding
      BY <1>1
    <3>2. QED
      BY <3>1 DEF Disturbed
  <2>2. \A n \in Names : sysmodules[n] = Own(n)
    BY <2>1 DEF LoaderInv, RestoreInv
  <2>3. \A n \in Names : n # name => Own(n)' = Own(n)
    BY <1>1 DEF Own
  <2>4. Own(name)' = HostModule
    <3> DEFINE new == [name |-> name, from |-> Resolve(name).from, during |-> Holding]
    <3>1. new \in hostgot' /\ new.name = name
      BY <1>1
    <3> HIDE DEF new
    <3>2. QED
      BY <3>1 DEF Own
  <2>5. Resolve(name) = HostModule
    BY <1>0, <2>1, <2>2, Resolved DEF Own
  <2>6. QED
    BY <1>0, <1>1, <2>1, <2>2, <2>3, <2>4, <2>5 DEF LoaderInv, Shapes
<1>7. CacheInv'
  <2>1. Disturbed => Disturbed'
    BY <1>1 DEF Disturbed
  <2>2. QED
    BY <1>1, <2>1 DEF LoaderInv, CacheInv, RagIsItsOwn
<1>8. QED
  BY <1>3, <1>4, <1>5, <1>6, <1>7 DEF LoaderInv

LEMMA CallKeeps ==
  ASSUME LoaderInv, NEW t \in Threads, NEW r \in Roots, NEW kb \in Kbs, Call(t, r, kb)
  PROVE  LoaderInv'
<1>1. /\ pc[t] = "idle" /\ pc' = [pc EXCEPT ![t] = "acquire"]
      /\ call' = [call EXCEPT ![t] = [root |-> r, kb |-> kb]]
      /\ outcome' = [outcome EXCEPT ![t] = NoOutcome]
      /\ UNCHANGED <<lock, cache, sysmodules, syspath, envkb, left, shadowed, modules, loads, hostgot>>
  BY DEF Call, Goto
<1>2. lock # t /\ Holding' = Holding
  BY <1>1 DEF LoaderInv, LockIsOfTheLoad, Holding
<1>3. \A u \in Threads : u # t => pc'[u] = pc[u] /\ call'[u] = call[u] /\ outcome'[u] = outcome[u]
  BY <1>1 DEF LoaderInv, Shapes
<1>4. pc'[t] = "acquire"
  BY <1>1 DEF LoaderInv, Shapes
<1>5. Holding => lock \in Threads /\ pc'[lock] = pc[lock] /\ call'[lock] = call[lock] /\ outcome'[lock] = outcome[lock]
  BY <1>2, <1>3 DEF LoaderInv, Shapes, Holding
<1>6. Shapes'
  <2>1. \A u \in Threads : pc'[u] \in Working \cup {"path"} => pc'[u] = pc[u]
    BY <1>3, <1>4 DEF Working
  <2>2. QED
    BY <1>1, <2>1 DEF LoaderInv, Shapes
<1>7. LockIsOfTheLoad'
  BY <1>1, <1>2, <1>3, <1>4 DEF LoaderInv, LockIsOfTheLoad
<1>8. PathInv' /\ LeakInv'
  BY <1>1, <1>2, <1>5 DEF LoaderInv, PathInv, LeakInv
<1>9. RestoreInv'
  <2>1. Disturbed' = Disturbed /\ \A n : Own(n)' = Own(n)
    BY <1>1 DEF Disturbed, Own
  <2>2. Holding /\ Progress(lock) => Progress(lock)'
    BY <1>1, <1>5, <2>1 DEF Progress, Fetched
  <2>3. QED
    BY <1>1, <1>2, <2>1, <2>2 DEF LoaderInv, RestoreInv
<1>10. CacheInv'
  BY <1>1, <1>3, <1>4 DEF LoaderInv, CacheInv, RagIsItsOwn, Disturbed, Inside
<1>11. QED
  BY <1>6, <1>7, <1>8, <1>9, <1>10 DEF LoaderInv

LEMMA AcquireKeeps ==
  ASSUME LoaderInv, NEW t \in Threads, Acquire(t) PROVE LoaderInv'
<1>1. /\ pc[t] = "acquire" /\ pc' = [pc EXCEPT ![t] = "lookup"] /\ lock = Nobody /\ lock' = t
      /\ UNCHANGED <<cache, sysmodules, syspath, envkb, left, call, shadowed, modules, outcome,
                     loads, hostgot>>
  BY DEF Acquire, Goto, frame, ghosts
<1>2. pc'[t] = "lookup" /\ \A u \in Threads : u # t => pc'[u] = pc[u]
  BY <1>1 DEF LoaderInv, Shapes
<1>3. ~Holding /\ Holding'
  BY <1>1, RagLoaderAssumption DEF Holding
<1>4. Shapes'
  BY <1>1, <1>2 DEF LoaderInv, Shapes, Working, Inside
<1>5. LockIsOfTheLoad'
  BY <1>1, <1>2, RagLoaderAssumption DEF LoaderInv, LockIsOfTheLoad
<1>6. PathInv' /\ LeakInv'
  BY <1>1, <1>2, <1>3 DEF LoaderInv, PathInv, LeakInv, OnPath
<1>7. RestoreInv'
  <2>1. Disturbed' = Disturbed /\ \A n : Own(n)' = Own(n)
    BY <1>1 DEF Disturbed, Own
  <2>2. QED
    BY <1>1, <1>2, <1>3, <2>1 DEF LoaderInv, RestoreInv, Progress
<1>8. CacheInv'
  BY <1>1, <1>2 DEF LoaderInv, CacheInv, RagIsItsOwn, Disturbed, Inside
<1>9. QED
  BY <1>4, <1>5, <1>6, <1>7, <1>8 DEF LoaderInv

\* The lock is given up with the names in order, the path as it was, and nothing new in the
\* cache but modules of the checkout.
LEMMA ReleaseKeeps ==
  ASSUME LoaderInv, NEW t \in Threads, pc[t] \in {"lookup", "store"}, NEW result,
         Release(t, result), DOMAIN cache' = Roots, RagIsItsOwn',
         UNCHANGED <<sysmodules, syspath, envkb, left, call, shadowed, modules, loads, hostgot>>
  PROVE  LoaderInv'
<1>1. lock' = Nobody /\ ~Holding' /\ DOMAIN outcome' = Threads /\ pc' = [pc EXCEPT ![t] = "idle"]
  BY DEF LoaderInv, Shapes, Release, Goto, Holding
<1>2. lock = t /\ Holding /\ \A u \in Threads : u # t => pc[u] \in {"idle", "acquire"}
  BY Holder DEF Inside
<1>3. \A u \in Threads : pc'[u] \in {"idle", "acquire"} /\ (u # t => pc'[u] = pc[u])
  BY <1>1, <1>2 DEF LoaderInv, Shapes
<1>4. Shapes'
  BY <1>1, <1>3 DEF LoaderInv, Shapes, Working
<1>5. LockIsOfTheLoad'
  BY <1>1, <1>3, RagLoaderAssumption DEF LockIsOfTheLoad
<1>6. PathInv' /\ LeakInv'
  BY <1>1, <1>2 DEF LoaderInv, PathInv, LeakInv, OnPath
<1>7. RestoreInv'
  <2>1. Disturbed' = Disturbed /\ \A n : Own(n)' = Own(n)
    BY DEF Disturbed, Own
  <2>2. QED
    BY <1>1, <1>2, <2>1 DEF LoaderInv, RestoreInv, Progress
<1>8. CacheInv'
  BY <1>3 DEF CacheInv, Inside
<1>9. QED
  BY <1>4, <1>5, <1>6, <1>7, <1>8 DEF LoaderInv

\* A step inside the load: what every one of them leaves in order.
LEMMA InsideKeeps ==
  ASSUME LoaderInv, NEW t \in Threads, pc[t] \in Inside, NEW to \in Inside \ {"lookup"},
         pc' = [pc EXCEPT ![t] = to], cache[call[t].root] = NoEntry,
         UNCHANGED <<lock, cache, call, hostgot>>
  PROVE  /\ LockIsOfTheLoad' /\ CacheInv' /\ Disturbed' = Disturbed
         /\ lock = t /\ lock' = t /\ Holding /\ Holding' /\ pc'[t] = to
         /\ \A n : Own(n)' = Own(n)
         /\ \A u \in Threads : u # t => pc'[u] = pc[u] /\ pc[u] \in {"idle", "acquire"}
<1>1. /\ lock = t /\ Holding /\ \A u \in Threads : u # t => pc[u] \in {"idle", "acquire"}
  BY Holder
<1>2. pc'[t] = to /\ \A u \in Threads : u # t => pc'[u] = pc[u]
  BY DEF LoaderInv, Shapes
<1>3. LockIsOfTheLoad'
  BY <1>1, <1>2 DEF LoaderInv, LockIsOfTheLoad, Inside
<1>4. CacheInv'
  BY <1>1, <1>2 DEF LoaderInv, CacheInv, RagIsItsOwn, Disturbed, Inside
<1>5. QED
  BY <1>1, <1>2, <1>3, <1>4 DEF Disturbed, Own, Holding

\* What is left of such a step to look at.
LEMMA InsideIsEnough ==
  ASSUME LoaderInv, NEW t \in Threads, pc[t] \in Inside, NEW to \in Inside \ {"lookup"},
         pc' = [pc EXCEPT ![t] = to], cache[call[t].root] = NoEntry,
         UNCHANGED <<lock, cache, call, hostgot>>,
         sysmodules' \in [Names -> ModuleObjects], envkb' \in Kbs \cup {Unset},
         left' \in [Threads -> Seq(Names)],
         to \in Working => left'[t] # <<>> /\ Simple(left'[t]),
         to = "path" => left'[t] = ImportOrder,
         shadowed' \in [Threads -> [Names -> ModuleObjects]],
         modules' \in [Threads -> [Names -> ModuleObjects]],
         DOMAIN outcome' = Threads, loads' \in Nat,
         syspath' = IF to \in OnPath THEN <<call[t].root>> ELSE <<>>,
         \A u \in Threads, n \in Names : shadowed'[u][n].from \notin Roots,
         \A n \in Names : sysmodules'[n].from \in Roots =>
           to \in OnPath \/ (to = "unregister" /\ n \in ToSet(left'[t])),
         ~Disturbed => (Progress(t) => Progress(t)')
  PROVE  LoaderInv'
<1>1. /\ LockIsOfTheLoad' /\ CacheInv' /\ Disturbed' = Disturbed
      /\ lock = t /\ lock' = t /\ Holding /\ Holding' /\ pc'[t] = to
      /\ \A u \in Threads : u # t => pc'[u] = pc[u] /\ pc[u] \in {"idle", "acquire"}
  BY InsideKeeps
<1>2. Shapes'
  <2>1. \A u \in Threads : /\ pc'[u] \in Working => left'[u] # <<>> /\ Simple(left'[u])
                           /\ pc'[u] = "path" => left'[u] = ImportOrder
    BY <1>1 DEF Working
  <2>2. \A u \in Threads : pc'[u] # "idle" => call[u].root \in Roots
    BY <1>1, Holder DEF LoaderInv, Shapes
  <2>3. pc' \in [Threads -> {"idle", "acquire"} \cup Inside]
    BY DEF LoaderInv, Shapes
  <2>4. QED
    BY <2>1, <2>2, <2>3 DEF LoaderInv, Shapes
<1>3. PathInv'
  BY <1>1 DEF PathInv
<1>4. LeakInv'
  BY <1>1 DEF LeakInv
<1>5. RestoreInv'
  BY <1>1 DEF LoaderInv, RestoreInv
<1>6. QED
  BY <1>1, <1>2, <1>3, <1>4, <1>5 DEF LoaderInv

LEMMA EnvironmentKeeps ==
  ASSUME LoaderInv, NEW t \in Threads, SetEnvironment(t) PROVE LoaderInv'
<1>1. /\ pc[t] = "lookup" /\ pc' = [pc EXCEPT ![t] = "shadow"] /\ cache[call[t].root] = NoEntry
      /\ loads' = loads + 1 /\ envkb' \in {envkb, call[t].kb}
      /\ left' = [left EXCEPT ![t] = PopOrder]
      /\ modules' = [modules EXCEPT ![t] = [n \in Names |-> Absent]]
      /\ UNCHANGED <<lock, cache, sysmodules, syspath, call, shadowed, outcome, hostgot>>
  BY DEF SetEnvironment, Goto
<1>2. /\ lock = t /\ lock' = t /\ Holding /\ pc'[t] = "shadow" /\ \A n : Own(n)' = Own(n)
  BY <1>1, InsideKeeps DEF Inside
<1>3. left' \in [Threads -> Seq(Names)] /\ left'[t] = PopOrder
  BY <1>1, Orders DEF LoaderInv, Shapes
<1>4. envkb' \in Kbs \cup {Unset} /\ modules' \in [Threads -> [Names -> ModuleObjects]]
      /\ DOMAIN outcome' = Threads /\ loads' \in Nat
  BY <1>1, NoModules DEF LoaderInv, Shapes
<1>5. syspath' = <<>> /\ \A n \in Names : sysmodules'[n].from \notin Roots
  BY <1>1, <1>2 DEF LoaderInv, PathInv, LeakInv, OnPath
<1>6. Progress(t) => Progress(t)'
  BY <1>1, <1>2, <1>3, Orders DEF Progress
<1>7. QED
  BY <1>1, <1>3, <1>4, <1>5, <1>6, Orders, InsideIsEnough
     DEF LoaderInv, Shapes, LeakInv, Inside, OnPath, Working

LEMMA ShadowKeeps ==
  ASSUME LoaderInv, NEW t \in Threads, Shadow(t) PROVE LoaderInv'
<1> DEFINE s == left[t]
           name == Head(left[t])
           to == IF Len(s) > 1 THEN "shadow" ELSE "path"
<1>1. /\ pc[t] = "shadow" /\ shadowed' = [shadowed EXCEPT ![t][name] = sysmodules[name]]
      /\ sysmodules' = [sysmodules EXCEPT ![name] = Absent]
      /\ left' = [left EXCEPT ![t] = IF Len(s) > 1 THEN Tail(s) ELSE ImportOrder]
      /\ UNCHANGED <<lock, cache, syspath, envkb, call, modules, outcome, loads, hostgot>>
  BY DEF Shadow, ghosts
<1>2. pc' = [pc EXCEPT ![t] = to] /\ cache[call[t].root] = NoEntry
  BY <1>1 DEF Shadow, Goto, LoaderInv, Shapes, CacheInv, Inside
<1>3. /\ name \in Names /\ name \in ToSet(s) /\ Tail(s) \in Seq(Names) /\ Simple(Tail(s))
      /\ ToSet(Tail(s)) = ToSet(s) \ {name} /\ (Len(s) > 1 => Tail(s) # <<>>)
      /\ (~(Len(s) > 1) => ToSet(s) = {name})
  BY <1>1, LeftStep DEF LoaderInv, Working
<1>4. lock = t /\ Holding /\ pc'[t] = to /\ \A n : Own(n)' = Own(n)
  BY <1>1, <1>2, InsideKeeps DEF Inside
<1>5. left' \in [Threads -> Seq(Names)]
      /\ left'[t] = IF Len(s) > 1 THEN Tail(s) ELSE ImportOrder
  BY <1>1, <1>3, Orders DEF LoaderInv, Shapes
<1>6. syspath = <<>> /\ \A n \in Names : sysmodules[n].from \notin Roots
  BY <1>1, <1>4 DEF LoaderInv, PathInv, LeakInv, OnPath
<1> HIDE DEF s, name
<1>7. /\ sysmodules' \in [Names -> ModuleObjects]
      /\ shadowed' \in [Threads -> [Names -> ModuleObjects]]
      /\ sysmodules'[name] = Absent /\ shadowed'[t][name] = sysmodules[name]
      /\ \A n \in Names : n # name => sysmodules'[n] = sysmodules[n] /\ shadowed'[t][n] = shadowed[t][n]
      /\ \A u \in Threads : u # t => shadowed'[u] = shadowed[u]
  BY <1>1, <1>3, NoModules DEF LoaderInv, Shapes
<1>8. \A n \in Names : sysmodules'[n].from \notin Roots
  BY <1>6, <1>7, NoModules
<1>9. \A u \in Threads, n \in Names : shadowed'[u][n].from \notin Roots
  BY <1>3, <1>6, <1>7 DEF LoaderInv, LeakInv
<1>10. Progress(t) => Progress(t)'
  <2> SUFFICES ASSUME Progress(t) PROVE Progress(t)'
    OBVIOUS
  <2>1. \A n \in Names : IF n \in ToSet(s) THEN sysmodules[n] = Own(n)
                         ELSE sysmodules[n] = Absent /\ shadowed[t][n] = Own(n)
    BY <1>1 DEF Progress, s
  <2>2. CASE Len(s) > 1
    <3>1. pc'[t] = "shadow" /\ ToSet(left'[t]) = ToSet(s) \ {name}
      BY <1>3, <1>4, <1>5, <2>2
    <3>2. \A n \in Names : IF n \in ToSet(left'[t]) THEN sysmodules'[n] = Own(n)
                           ELSE sysmodules'[n] = Absent /\ shadowed'[t][n] = Own(n)
      BY <1>3, <1>7, <2>1, <3>1
    <3>3. QED
      BY <1>4, <3>1, <3>2 DEF Progress
  <2>3. CASE ~(Len(s) > 1)
    <3>1. pc'[t] = "path" /\ \A n \in Names : sysmodules'[n] = Absent /\ shadowed'[t][n] = Own(n)
      BY <1>3, <1>4, <1>7, <2>1, <2>3
    <3>2. QED
      BY <1>4, <3>1 DEF Progress
  <2>4. QED
    BY <2>2, <2>3
<1>11. to \in Inside \ {"lookup"} /\ to \notin OnPath /\ (to = "path" => left'[t] = ImportOrder)
       /\ (to \in Working => left'[t] # <<>> /\ Simple(left'[t]))
  BY <1>3, <1>5 DEF Inside, OnPath, Working
<1> HIDE DEF to
<1>12. QED
  BY <1>1, <1>2, <1>5, <1>6, <1>7, <1>8, <1>9, <1>10, <1>11, InsideIsEnough
     DEF LoaderInv, Shapes, Inside

LEMMA PathKeeps ==
  ASSUME LoaderInv, NEW t \in Threads, InsertPath(t) PROVE LoaderInv'
<1>1. /\ pc[t] = "path" /\ pc' = [pc EXCEPT ![t] = "import"]
      /\ syspath' = <<call[t].root>> \o syspath
      /\ UNCHANGED <<lock, cache, sysmodules, envkb, left, call, shadowed, modules, outcome, loads,
                     hostgot>>
  BY DEF InsertPath, Goto, frame, ghosts
<1>2. cache[call[t].root] = NoEntry /\ left'[t] = ImportOrder
  BY <1>1 DEF LoaderInv, Shapes, CacheInv, Inside
<1>3. lock = t /\ Holding /\ pc'[t] = "import" /\ \A n : Own(n)' = Own(n)
  BY <1>1, <1>2, InsideKeeps DEF Inside
<1>4. syspath' = <<call[t].root>>
  <2>1. syspath = <<>>
    BY <1>1, <1>3 DEF LoaderInv, PathInv, OnPath
  <2>2. QED
    BY <1>1, <2>1
<1>5. Progress(t) => Progress(t)'
  BY <1>1, <1>2, <1>3, Orders DEF Progress
<1>6. QED
  BY <1>1, <1>2, <1>4, <1>5, Orders, InsideIsEnough DEF LoaderInv, Shapes, LeakInv, Inside, OnPath

LEMMA ImportKeeps ==
  ASSUME LoaderInv, NEW t \in Threads, Import(t) PROVE LoaderInv'
<1> DEFINE s == left[t]
           name == Head(left[t])
           to == IF Len(s) > 1 THEN "import" ELSE "symbols"
<1>1. /\ pc[t] = "import" /\ Resolve(name) # Absent
      /\ sysmodules' = [sysmodules EXCEPT ![name] = Resolve(name)]
      /\ modules' = [modules EXCEPT ![t][name] = Resolve(name)]
      /\ left' = [left EXCEPT ![t] = Tail(s)]
      /\ UNCHANGED <<lock, cache, syspath, envkb, call, shadowed, outcome, loads, hostgot>>
  BY DEF Import, ghosts
<1>2. pc' = [pc EXCEPT ![t] = to] /\ cache[call[t].root] = NoEntry
  BY <1>1 DEF Import, Goto, LoaderInv, Shapes, CacheInv, Inside
<1>3. /\ name \in Names /\ name \in ToSet(s) /\ Tail(s) \in Seq(Names) /\ Simple(Tail(s))
      /\ ToSet(Tail(s)) = ToSet(s) \ {name} /\ (Len(s) > 1 => Tail(s) # <<>>)
      /\ (~(Len(s) > 1) => ToSet(s) = {name})
  BY <1>1, LeftStep DEF LoaderInv, Working
<1>4. lock = t /\ Holding /\ pc'[t] = to /\ \A n : Own(n)' = Own(n)
  BY <1>1, <1>2, InsideKeeps DEF Inside
<1>5. left' \in [Threads -> Seq(Names)] /\ left'[t] = Tail(s)
  BY <1>1, <1>3 DEF LoaderInv, Shapes
<1>6. syspath = <<call[t].root>> /\ syspath # <<>>
  BY <1>1, <1>4 DEF LoaderInv, PathInv, OnPath
<1> HIDE DEF s, name
<1>7. /\ sysmodules' \in [Names -> ModuleObjects]
      /\ modules' \in [Threads -> [Names -> ModuleObjects]]
      /\ modules'[t][name] = Resolve(name)
      /\ \A n \in Names : n # name => sysmodules'[n] = sysmodules[n] /\ modules'[t][n] = modules[t][n]
  BY <1>1, <1>3, Resolved DEF LoaderInv, Shapes
<1>8. Progress(t) => Progress(t)'
  <2> SUFFICES ASSUME Progress(t) PROVE Progress(t)'
    OBVIOUS
  <2>1. \A n \in Names : IF n \in ToSet(s) THEN sysmodules[n] = Absent ELSE Fetched(t, n)
    BY <1>1 DEF Progress, s
  <2>2. modules'[t][name].from = Origin(call'[t].root, name) /\ modules'[t][name].gen = loads'
    <3>1. sysmodules[name] = Absent
      BY <1>3, <2>1
    <3>2. Resolve(name).from = Origin(call[t].root, name) /\ Resolve(name).gen = loads
      BY <1>1, <1>3, <1>4, <1>6, <3>1, Resolved
    <3>3. QED
      BY <1>1, <1>7, <3>2
  <2>3. \A n \in Names : n # name => (Fetched(t, n)' <=> Fetched(t, n))
    BY <1>1, <1>7 DEF Fetched
  <2>4. \A n \in Names : IF n \in ToSet(Tail(s)) THEN sysmodules'[n] = Absent ELSE Fetched(t, n)'
    <3> SUFFICES ASSUME NEW n \in Names
                 PROVE  IF n \in ToSet(Tail(s)) THEN sysmodules'[n] = Absent ELSE Fetched(t, n)'
      OBVIOUS
    <3>1. CASE n = name
      <4>1. n \notin ToSet(Tail(s)) /\ Fetched(t, n)'
        BY <1>3, <2>2, <3>1 DEF Fetched
      <4>2. QED
        BY <4>1
    <3>2. CASE n # name
      <4>1. n \in ToSet(Tail(s)) <=> n \in ToSet(s)
        BY <1>3, <3>2
      <4>2. n \in ToSet(s) => sysmodules'[n] = Absent
        BY <1>7, <2>1, <3>2
      <4>3. n \notin ToSet(s) => Fetched(t, n)'
        BY <2>1, <2>3, <3>2
      <4>4. QED
        BY <4>1, <4>2, <4>3
    <3>3. QED
      BY <3>1, <3>2
  <2>5. \A n \in Names : shadowed'[t][n] = Own(n)'
    BY <1>1, <1>4 DEF Progress
  <2>6. ~(Len(s) > 1) => \A n \in Names : Fetched(t, n)'
    BY <1>3, <2>4
  <2>7. QED
    BY <1>4, <1>5, <2>4, <2>5, <2>6 DEF Progress
<1>9. to \in Inside \ {"lookup"} /\ to \in OnPath /\ to # "path"
      /\ (to \in Working => left'[t] # <<>> /\ Simple(left'[t]))
  BY <1>3, <1>5 DEF Inside, OnPath, Working
<1> HIDE DEF to
<1>10. QED
  BY <1>1, <1>2, <1>5, <1>6, <1>7, <1>8, <1>9, InsideIsEnough
     DEF LoaderInv, Shapes, LeakInv, Inside

\* Leaving the imports and the symbols, well or with an exception in flight.
LEMMA LeaveKeeps ==
  ASSUME LoaderInv, NEW t \in Threads, pc[t] \in {"import", "symbols"}, Goto(t, "unpath"),
         DOMAIN outcome' = Threads,
         outcome'[t] = NoOutcome => pc[t] = "symbols",
         UNCHANGED <<lock, cache, sysmodules, syspath, envkb, left, call, shadowed, modules, loads,
                     hostgot>>
  PROVE  LoaderInv'
<1>1. pc' = [pc EXCEPT ![t] = "unpath"] /\ cache[call[t].root] = NoEntry
  BY DEF Goto, LoaderInv, CacheInv, Inside
<1>2. lock = t /\ Holding /\ pc'[t] = "unpath" /\ \A n : Own(n)' = Own(n)
  BY <1>1, InsideKeeps DEF Inside
<1>3. syspath' = <<call[t].root>>
  BY <1>2 DEF LoaderInv, PathInv, OnPath
<1>4. Progress(t) => Progress(t)'
  BY <1>2 DEF Progress, Fetched
<1>5. QED
  BY <1>1, <1>3, <1>4, InsideIsEnough DEF LoaderInv, Shapes, LeakInv, Inside, OnPath, Working

LEMMA RaisedIsAnOutcome ==
  \A kind \in {"KeyError", "RAGUnavailableError"} : Raised(kind) # NoOutcome
BY DEF Raised, NoOutcome

LEMMA RemovePathKeeps ==
  ASSUME LoaderInv, NEW t \in Threads, RemovePath(t) PROVE LoaderInv'
<1>1. /\ pc[t] = "unpath" /\ pc' = [pc EXCEPT ![t] = "unregister"]
      /\ syspath' = RemoveFirst(syspath, call[t].root)
      /\ left' = [left EXCEPT ![t] = ImportOrder]
      /\ UNCHANGED <<lock, cache, sysmodules, envkb, call, shadowed, modules, outcome, loads, hostgot>>
  BY DEF RemovePath, Goto, frame, ghosts
<1>2. cache[call[t].root] = NoEntry /\ left'[t] = ImportOrder /\ left' \in [Threads -> Seq(Names)]
  BY <1>1, Orders DEF LoaderInv, Shapes, CacheInv, Inside
<1>3. lock = t /\ Holding /\ pc'[t] = "unregister" /\ \A n : Own(n)' = Own(n)
  BY <1>1, <1>2, InsideKeeps DEF Inside
<1>4. syspath' = <<>>
  <2> DEFINE root == call[t].root
  <2>1. syspath = <<root>> /\ root \in Roots
    BY <1>1, <1>3 DEF LoaderInv, PathInv, OnPath, Shapes
  <2> HIDE DEF root
  <2>2. syspath \in Seq(Roots) /\ Simple(syspath) /\ ToSet(syspath) = {root}
    BY <2>1 DEF Simple, ToSet
  <2>3. /\ RemoveFirst(syspath, root) \in Seq(Roots)
        /\ ToSet(RemoveFirst(syspath, root)) = ToSet(syspath) \ {root}
    BY <2>2, RemoveOne
  <2>4. syspath' = RemoveFirst(syspath, root)
    BY <1>1 DEF root
  <2>5. syspath' \in Seq(Roots) /\ ToSet(syspath') = {}
    BY <2>2, <2>3, <2>4
  <2>6. \A q \in Seq(Roots) : ToSet(q) = {} => q = <<>>
    <3> SUFFICES ASSUME NEW q \in Seq(Roots), q # <<>> PROVE ToSet(q) # {}
      OBVIOUS
    <3>1. 1 \in DOMAIN q
      BY EmptySeq, LenProperties
    <3>2. QED
      BY <3>1 DEF ToSet
  <2>7. QED
    BY <2>5, <2>6
<1>5. Progress(t) => Progress(t)'
  BY <1>1, <1>2, <1>3, Orders DEF Progress, Fetched
<1>6. QED
  BY <1>1, <1>2, <1>4, <1>5, Orders, InsideIsEnough DEF LoaderInv, Shapes, LeakInv, Inside, OnPath

LEMMA UnregisterKeeps ==
  ASSUME LoaderInv, NEW t \in Threads, Unregister(t) PROVE LoaderInv'
<1> DEFINE s == left[t]
           name == Head(left[t])
           to == IF Len(s) > 1 THEN "unregister" ELSE "restore"
<1>1. /\ pc[t] = "unregister" /\ sysmodules' = [sysmodules EXCEPT ![name] = Absent]
      /\ left' = [left EXCEPT ![t] = IF Len(s) > 1 THEN Tail(s) ELSE PopOrder]
      /\ UNCHANGED <<lock, cache, syspath, envkb, call, shadowed, modules, outcome, loads, hostgot>>
  BY DEF Unregister, frame, ghosts
<1>2. pc' = [pc EXCEPT ![t] = to] /\ cache[call[t].root] = NoEntry
  BY <1>1 DEF Unregister, Goto, LoaderInv, Shapes, CacheInv, Inside
<1>3. /\ name \in Names /\ name \in ToSet(s) /\ Tail(s) \in Seq(Names) /\ Simple(Tail(s))
      /\ ToSet(Tail(s)) = ToSet(s) \ {name} /\ (Len(s) > 1 => Tail(s) # <<>>)
      /\ (~(Len(s) > 1) => ToSet(s) = {name})
  BY <1>1, LeftStep DEF LoaderInv, Working
<1>4. lock = t /\ Holding /\ pc'[t] = to /\ \A n : Own(n)' = Own(n)
  BY <1>1, <1>2, InsideKeeps DEF Inside
<1>5. left' \in [Threads -> Seq(Names)]
      /\ left'[t] = IF Len(s) > 1 THEN Tail(s) ELSE PopOrder
  BY <1>1, <1>3, Orders DEF LoaderInv, Shapes
<1>6. syspath = <<>> /\ \A n \in Names : sysmodules[n].from \in Roots => n \in ToSet(s)
  BY <1>1, <1>4 DEF LoaderInv, PathInv, LeakInv, OnPath
<1> HIDE DEF s, name
<1>7. /\ sysmodules' \in [Names -> ModuleObjects] /\ sysmodules'[name] = Absent
      /\ \A n \in Names : n # name => sysmodules'[n] = sysmodules[n]
  BY <1>1, <1>3, NoModules DEF LoaderInv, Shapes
<1>8. \A n \in Names : sysmodules'[n].from \in Roots => to = "unregister" /\ n \in ToSet(left'[t])
  BY <1>3, <1>5, <1>6, <1>7, NoModules
<1>9. Progress(t) => Progress(t)'
  <2> SUFFICES ASSUME Progress(t) PROVE Progress(t)'
    OBVIOUS
  <2>1. \A n \in Names : n \notin ToSet(s) \ {name} => sysmodules'[n] = Absent
    BY <1>1, <1>7 DEF Progress, s
  <2>2. Len(s) > 1 => \A n \in Names : n \notin ToSet(left'[t]) => sysmodules'[n] = Absent
    BY <1>3, <1>5, <2>1
  <2>3. ~(Len(s) > 1) => ToSet(left'[t]) = Names /\ \A n \in Names : sysmodules'[n] = Absent
    BY <1>3, <1>5, <2>1, Orders
  <2>4. QED
    BY <1>1, <1>4, <2>2, <2>3 DEF Progress, Fetched
<1>10. to \in Inside \ {"lookup"} /\ to \notin OnPath /\ to # "path"
       /\ (to \in Working => left'[t] # <<>> /\ Simple(left'[t]))
  BY <1>3, <1>5, Orders DEF Inside, OnPath, Working
<1> HIDE DEF to
<1>11. QED
  BY <1>1, <1>2, <1>5, <1>6, <1>7, <1>8, <1>9, <1>10, InsideIsEnough
     DEF LoaderInv, Shapes, LeakInv, Inside

LEMMA RestoreKeeps ==
  ASSUME LoaderInv, NEW t \in Threads, Restore(t) PROVE LoaderInv'
<1> DEFINE s == left[t]
           name == Head(left[t])
           to == IF Len(s) > 1 THEN "restore" ELSE "store"
           back == IF shadowed[t][name] # Absent THEN shadowed[t][name] ELSE sysmodules[name]
<1>1. /\ pc[t] = "restore"
      /\ sysmodules' = IF shadowed[t][name] # Absent
                       THEN [sysmodules EXCEPT ![name] = shadowed[t][name]] ELSE sysmodules
      /\ left' = [left EXCEPT ![t] = Tail(s)]
      /\ UNCHANGED <<lock, cache, syspath, envkb, call, shadowed, modules, outcome, loads, hostgot>>
  BY DEF Restore, frame, ghosts
<1>2. pc' = [pc EXCEPT ![t] = to] /\ cache[call[t].root] = NoEntry
  BY <1>1 DEF Restore, Goto, LoaderInv, Shapes, CacheInv, Inside
<1>3. /\ name \in Names /\ name \in ToSet(s) /\ Tail(s) \in Seq(Names) /\ Simple(Tail(s))
      /\ ToSet(Tail(s)) = ToSet(s) \ {name} /\ (Len(s) > 1 => Tail(s) # <<>>)
      /\ (~(Len(s) > 1) => ToSet(s) = {name})
  BY <1>1, LeftStep DEF LoaderInv, Working
<1>4. lock = t /\ Holding /\ pc'[t] = to /\ \A n : Own(n)' = Own(n)
  BY <1>1, <1>2, InsideKeeps DEF Inside
<1>5. left' \in [Threads -> Seq(Names)] /\ left'[t] = Tail(s)
  BY <1>1, <1>3 DEF LoaderInv, Shapes
<1>6. syspath = <<>> /\ \A n \in Names : sysmodules[n].from \notin Roots
  BY <1>1, <1>4 DEF LoaderInv, PathInv, LeakInv, OnPath
<1> HIDE DEF s, name
<1>7. /\ sysmodules' \in [Names -> ModuleObjects] /\ sysmodules'[name] = back
      /\ \A n \in Names : n # name => sysmodules'[n] = sysmodules[n]
  BY <1>1, <1>3 DEF LoaderInv, Shapes
<1>8. \A n \in Names : sysmodules'[n].from \notin Roots
  BY <1>3, <1>6, <1>7 DEF LoaderInv, LeakInv
<1>9. Progress(t) => Progress(t)'
  <2> SUFFICES ASSUME Progress(t) PROVE Progress(t)'
    OBVIOUS
  <2>1. /\ \A n \in Names : shadowed[t][n] = Own(n)
        /\ \A n \in Names : sysmodules[n] = IF n \in ToSet(s) THEN Absent ELSE Own(n)
        /\ outcome[t] = NoOutcome => \A n \in Names : Fetched(t, n)
    BY <1>1 DEF Progress, s
  <2>2. back = Own(name)
    BY <1>3, <2>1
  <2>3. \A n \in Names : sysmodules'[n] = IF n \in ToSet(Tail(s)) THEN Absent ELSE Own(n)
    BY <1>3, <1>7, <2>1, <2>2
  <2>4. ~(Len(s) > 1) => \A n \in Names : sysmodules'[n] = Own(n)
    BY <1>3, <2>3
  <2>5. QED
    BY <1>1, <1>4, <1>5, <2>1, <2>3, <2>4 DEF Progress, Fetched
<1>10. to \in Inside \ {"lookup"} /\ to \notin OnPath /\ to # "path"
       /\ (to \in Working => left'[t] # <<>> /\ Simple(left'[t]))
  BY <1>3, <1>5 DEF Inside, OnPath, Working
<1> HIDE DEF to
<1>11. QED
  BY <1>1, <1>2, <1>5, <1>6, <1>7, <1>8, <1>9, <1>10, InsideIsEnough
     DEF LoaderInv, Shapes, LeakInv, Inside

LEMMA StoreKeeps ==
  ASSUME LoaderInv, NEW t \in Threads, Store(t) PROVE LoaderInv'
<1> DEFINE entry == [root |-> call[t].root, kb_dir |-> call[t].kb, modules |-> modules[t]]
<1>1. /\ pc[t] = "store" /\ outcome[t] = NoOutcome
      /\ cache' = [cache EXCEPT ![call[t].root] = entry]
      /\ Release(t, [kind |-> "loaded", entry |-> entry])
      /\ UNCHANGED <<sysmodules, syspath, envkb, left, call, shadowed, modules, loads, hostgot>>
  BY DEF Store, frame, ghosts
<1>2. lock = t /\ Holding
  BY <1>1, Holder DEF Inside
<1>3. DOMAIN cache' = Roots /\ entry.modules = modules[t]
      /\ \A r \in Roots : cache'[r] = IF r = call[t].root THEN entry ELSE cache[r]
  BY <1>1 DEF LoaderInv, Shapes
<1> HIDE DEF entry
<1>4. RagIsItsOwn'
  <2> SUFFICES ASSUME ~Disturbed', NEW r \in Roots, cache'[r] # NoEntry, NEW n \in Names
               PROVE  /\ cache'[r].modules[n].from = Origin(r, n)
                      /\ cache'[r].modules[n].gen = cache'[r].modules["app"].gen
    BY DEF RagIsItsOwn, Origin
  <2>1. ~Disturbed
    BY <1>1 DEF Disturbed
  <2>2. CASE r = call[t].root
    <3>1. \A m \in Names : Fetched(t, m)
      BY <1>1, <1>2, <2>1 DEF LoaderInv, RestoreInv, Progress
    <3>2. "app" \in Names
      BY DEF Names
    <3>3. QED
      BY <1>3, <2>2, <3>1, <3>2 DEF Fetched
  <2>3. CASE r # call[t].root
    BY <1>3, <2>1, <2>3 DEF LoaderInv, CacheInv, RagIsItsOwn, Origin
  <2>4. QED
    BY <2>2, <2>3
<1>5. QED
  BY <1>1, <1>3, <1>4, ReleaseKeeps

LEMMA LoaderStep == LoaderInv /\ [Next]_vars => LoaderInv'
<1> SUFFICES ASSUME LoaderInv, [Next]_vars PROVE LoaderInv'
  OBVIOUS
<1>1. CASE UNCHANGED vars
  BY <1>1 DEF vars, frame, ghosts, LoaderInv, Shapes, LockIsOfTheLoad, PathInv, LeakInv, RestoreInv,
              CacheInv, RagIsItsOwn, Disturbed, Holding, Progress, Fetched, Own
<1>2. CASE Reset
  <2>1. /\ lock = Nobody /\ cache' = [r \in Roots |-> NoEntry]
        /\ UNCHANGED <<lock, sysmodules, syspath, envkb, pc, left, call, shadowed, modules, outcome,
                       loads, hostgot>>
    BY <1>2 DEF Reset, frame, ghosts
  <2>2. \A t \in Threads : pc[t] \notin Inside
    BY <2>1, RagLoaderAssumption DEF LoaderInv, LockIsOfTheLoad, Inside
  <2>3. QED
    BY <2>1, <2>2 DEF LoaderInv, Shapes, LockIsOfTheLoad, PathInv, LeakInv, RestoreInv,
                      CacheInv, RagIsItsOwn, Disturbed, Holding, Own
<1>3. ASSUME NEW t \in Threads, CacheHit(t) \/ NotACheckout(t) \/ Propagate(t) PROVE LoaderInv'
  <2>1. /\ pc[t] \in {"lookup", "store"} /\ (\E result : Release(t, result))
        /\ UNCHANGED <<cache, sysmodules, syspath, envkb, left, call, shadowed, modules, loads, hostgot>>
    BY <1>3 DEF CacheHit, NotACheckout, Propagate, frame, ghosts
  <2>2. DOMAIN cache' = Roots /\ RagIsItsOwn'
    BY <2>1 DEF LoaderInv, Shapes, CacheInv, RagIsItsOwn, Disturbed
  <2>3. QED
    BY <2>1, <2>2, ReleaseKeeps
<1>4. ASSUME NEW t \in Threads, ImportFails(t) \/ SymbolsPresent(t) \/ SymbolMissing(t) PROVE LoaderInv'
  <2>1. /\ pc[t] \in {"import", "symbols"} /\ Goto(t, "unpath")
        /\ UNCHANGED <<lock, cache, sysmodules, syspath, envkb, left, call, shadowed, modules, loads,
                       hostgot>>
    BY <1>4 DEF ImportFails, SymbolsPresent, SymbolMissing, Unwind, frame, ghosts
  <2>2. DOMAIN outcome' = Threads /\ (outcome'[t] = NoOutcome => pc[t] = "symbols")
    <3>1. CASE SymbolsPresent(t)
      BY <3>1 DEF SymbolsPresent, LoaderInv, Shapes
    <3>2. CASE ImportFails(t) \/ SymbolMissing(t)
      BY <3>2, RaisedIsAnOutcome DEF ImportFails, SymbolMissing, Unwind, LoaderInv, Shapes
    <3>3. QED
      BY <1>4, <3>1, <3>2
  <2>3. QED
    BY <2>1, <2>2, LeaveKeeps
<1>5. QED
  BY <1>1, <1>2, <1>3, <1>4, HostKeeps, CallKeeps, AcquireKeeps, EnvironmentKeeps, ShadowKeeps,
     PathKeeps, ImportKeeps, RemovePathKeeps, UnregisterKeeps, RestoreKeeps, StoreKeeps
     DEF Next, Load

--------------------------------------------------------------------------------
(* Theorems.                                                                 *)

\* LoaderInv holds in every reachable state.
THEOREM Loader == Spec => []LoaderInv
BY LoaderInit, LoaderStep, PTL DEF Spec

\* The loader's variables stay in their domains.
THEOREM LoaderTyped == Spec => []TypeOK
<1>1. LoaderInv => TypeOK
  <2> SUFFICES ASSUME LoaderInv PROVE TypeOK
    OBVIOUS
  <2>1. \A i \in 1 .. Len(syspath) : syspath[i] \in Roots
    <3>1. CASE syspath = <<>>
      BY <3>1
    <3>2. CASE Holding /\ pc[lock] \in OnPath
      <4>1. call[lock].root \in Roots
        BY <3>2 DEF LoaderInv, Shapes, Holding, OnPath
      <4>2. syspath = <<call[lock].root>>
        BY <3>2 DEF LoaderInv, PathInv
      <4>3. QED
        BY <4>1, <4>2
    <3>3. QED
      BY <3>1, <3>2 DEF LoaderInv, PathInv
  <2>2. QED
    BY <2>1 DEF LoaderInv, Shapes, TypeOK
<1>2. QED
  BY <1>1, Loader, PTL

\* The lock is held exactly by the thread inside load_rag, however it leaves.
THEOREM LockIsGivenUp == Spec => []LockIsOfTheLoad
<1>1. LoaderInv => LockIsOfTheLoad
  BY DEF LoaderInv
<1>2. QED
  BY <1>1, Loader, PTL

\* Whatever fails, the host's modules are back under their names once the lock is free, and
\* no checkout is on sys.path.
THEOREM HostIsRestored == Spec => []NamesRestored
<1>1. LoaderInv => NamesRestored
  BY DEF LoaderInv, NamesRestored, PathInv, RestoreInv, Holding, Own
<1>2. QED
  BY <1>1, Loader, PTL

\* No module of a checkout stays registered, even if the host imports during a load.
THEOREM NoLeak == Spec => []NothingLeaks
<1>1. LoaderInv => NothingLeaks
  BY DEF LoaderInv, NothingLeaks, LeakInv, Holding
<1>2. QED
  BY <1>1, Loader, PTL

\* A cached RAG consists, for the names its checkout has, of the checkout's modules, and for
\* the others of copies of the host's, all of one import: never of a module that was there.
THEOREM CachedIsWhole == Spec => []RagIsItsOwn
<1>1. LoaderInv => RagIsItsOwn
  BY DEF LoaderInv, CacheInv
<1>2. QED
  BY <1>1, Loader, PTL

\* What is in the cache is never replaced by a second import of the same checkout.
THEOREM ImportedOnce == Spec => SingleImport
<1>1. LoaderInv /\ [Next]_vars =>
        [\A r \in Roots : cache[r] # NoEntry => cache'[r] \in {cache[r], NoEntry}]_vars
  <2> SUFFICES ASSUME LoaderInv, Next, NEW r \in Roots, cache[r] # NoEntry
               PROVE  cache'[r] \in {cache[r], NoEntry}
    OBVIOUS
  <2>1. CASE Reset
    BY <2>1 DEF Reset
  <2>2. ASSUME NEW t \in Threads, Store(t) PROVE cache'[r] = cache[r]
    <3>1. cache[call[t].root] = NoEntry
      BY <2>2 DEF Store, LoaderInv, CacheInv, Inside
    <3>2. QED
      BY <2>2, <3>1 DEF Store, LoaderInv, Shapes
  <2>3. ASSUME NEW t \in Threads, Load(t), ~Store(t) PROVE cache' = cache
    BY <2>3 DEF Load, Acquire, CacheHit, NotACheckout, SetEnvironment, Shadow, InsertPath, Import,
                ImportFails, SymbolsPresent, SymbolMissing, RemovePath, Unregister, Restore, Propagate
  <2>4. CASE UNCHANGED cache
    BY <2>4
  <2>5. QED
    BY <2>1, <2>2, <2>3, <2>4 DEF Next, Call, HostImport
<1>2. QED
  BY <1>1, Loader, PTL DEF Spec, SingleImport
===============================================================================
