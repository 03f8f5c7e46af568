---------------------------- MODULE RagProviderProofs ----------------------------
(***************************************************************************)
(* Proofs about RagProvider.                                                *)
(***************************************************************************)
EXTENDS RagProvider, SequenceFacts, TLAPS

AnyJob == [request : Requests, attempt : Nat, kind : {"load", "call"}]

Answered == {a.job : a \in posted}

Shapes ==
  /\ phase \in [Requests -> {"idle", "gate", "loading", "calling"}]
  /\ attempt \in [Requests -> Nat] /\ DOMAIN outcome = Requests
  /\ queue \in Seq(AnyJob) /\ Simple(queue)
  /\ running \subseteq AnyJob /\ posted \subseteq [job : AnyJob, ok : BOOLEAN]

\* A queued job is awaited, and no thread has had it.
QueueIsAwaited ==
  \A job \in ToSet(queue) : Awaited(job) /\ job \notin running \cup Answered

\* Jobs are of attempts that were made, and of the present one only as far as it got.
JobsAreOfAttempts ==
  \A job \in ToSet(queue) \cup running \cup Answered :
    /\ job.attempt <= attempt[job.request]
    /\ job.attempt = attempt[job.request] =>
         phase[job.request] # "gate" /\ (job.kind = "call" => phase[job.request] # "loading")

\* The inductive invariant of the pool.
PoolInv == Shapes /\ QueueIsAwaited /\ JobsAreOfAttempts /\ NobodyWaitsForNothing


--------------------------------------------------------------------------------
(* The invariant.                                                            *)

\* A job that is awaited is the one its coroutine submitted last.
LEMMA AwaitedJob ==
  ASSUME NEW job \in AnyJob, Awaited(job)
  PROVE  /\ job = Job(job.request, job.kind)
         /\ phase[job.request] = "loading" => job = Job(job.request, "load")
         /\ phase[job.request] = "calling" => job = Job(job.request, "call")
         /\ phase[job.request] \in {"loading", "calling"}
BY DEF Awaited, Job, AnyJob

\* The jobs a coroutine awaits are jobs.
LEMMA OwnJobs ==
  ASSUME Shapes, NEW r \in Requests, NEW kind \in {"load", "call"}
  PROVE  /\ Job(r, kind) \in AnyJob /\ Job(r, kind).request = r
         /\ Job(r, kind).attempt = attempt[r] /\ Job(r, kind).kind = kind
BY DEF Shapes, Job, AnyJob

\* Whatever is queued, running or answered is a job.
LEMMA AllAreJobs ==
  ASSUME Shapes
  PROVE  ToSet(queue) \cup running \cup Answered \subseteq AnyJob
<1>1. ToSet(queue) \subseteq AnyJob
  BY DEF Shapes, ToSet
<1>2. Answered \subseteq AnyJob
  BY DEF Shapes, Answered
<1>3. QED
  BY <1>1, <1>2 DEF Shapes

\* A coroutine ends, and no job of it stays in the queue.
LEMMA EndKeeps ==
  ASSUME PoolInv, NEW r \in Requests, Goto(r, "idle"),
         attempt' = attempt, running' = running, posted' \subseteq posted,
         DOMAIN outcome' = Requests,
         queue' \in Seq(AnyJob), Simple(queue'), ToSet(queue') \subseteq ToSet(queue),
         \A job \in ToSet(queue') : job.request # r,
         \A job \in ToSet(queue) \cup Answered :
           job.request # r => job \in ToSet(queue') \cup Answered'
  PROVE  PoolInv'
<1> DEFINE before == ToSet(queue) \cup running \cup Answered
           after == ToSet(queue') \cup running' \cup Answered'
<1>1. Shapes'
  BY DEF PoolInv, Shapes, Goto
<1>2. Answered' \subseteq Answered
  BY DEF Answered
<1>3. before \subseteq AnyJob /\ \A q \in Requests : q # r => phase'[q] = phase[q]
  BY AllAreJobs DEF PoolInv, Shapes, Goto
<1>4. phase'[r] = "idle"
  BY DEF PoolInv, Shapes, Goto
<1>5. QueueIsAwaited'
  <2> SUFFICES ASSUME NEW job \in ToSet(queue')
               PROVE  Awaited(job)' /\ job \notin running' \cup Answered'
    BY DEF QueueIsAwaited
  <2>1. Awaited(job) /\ job \notin running \cup Answered /\ job.request # r /\ job.request \in Requests
    BY <1>3 DEF PoolInv, QueueIsAwaited, AnyJob
  <2>2. QED
    BY <1>2, <1>3, <2>1 DEF Awaited
<1>6. JobsAreOfAttempts'
  <2> SUFFICES ASSUME NEW job \in after
               PROVE  /\ job.attempt <= attempt'[job.request]
                      /\ job.attempt = attempt'[job.request] =>
                           phase'[job.request] # "gate"
                           /\ (job.kind = "call" => phase'[job.request] # "loading")
    BY DEF JobsAreOfAttempts
  <2>1. job \in before /\ job.request \in Requests
    BY <1>2, <1>3 DEF AnyJob
  <2>2. QED
    BY <1>3, <1>4, <2>1 DEF PoolInv, JobsAreOfAttempts
<1>7. NobodyWaitsForNothing'
  <2> SUFFICES ASSUME NEW q \in Requests
               PROVE  /\ phase'[q] = "loading" => Job(q, "load")' \in after
                      /\ phase'[q] = "calling" => Job(q, "call")' \in after
    BY DEF NobodyWaitsForNothing, Answered
  <2>1. CASE q = r
    BY <1>4, <2>1
  <2>2. CASE q # r
    <3>1. phase'[q] = phase[q] /\ \A kind : Job(q, kind)' = Job(q, kind) /\ Job(q, kind).request = q
      BY <1>3, <2>2 DEF Job
    <3>2. /\ phase[q] = "loading" => Job(q, "load") \in before
          /\ phase[q] = "calling" => Job(q, "call") \in before
      BY DEF PoolInv, NobodyWaitsForNothing, Answered
    <3>3. \A job \in before : job.request # r => job \in after
      OBVIOUS
    <3>4. QED
      BY <2>2, <3>1, <3>2, <3>3
  <2>3. QED
    BY <2>1, <2>2
<1>8. QED
  BY <1>1, <1>5, <1>6, <1>7 DEF PoolInv

\* A coroutine submits a job no one has had, while none of its jobs is queued.
LEMMA SubmitKeeps ==
  ASSUME PoolInv, NEW r \in Requests, NEW kind \in {"load", "call"},
         Goto(r, IF kind = "load" THEN "loading" ELSE "calling"),
         attempt' = attempt, running' = running, posted' \subseteq posted, outcome' = outcome,
         queue' = Append(queue, Job(r, kind)),
         Job(r, kind) \notin ToSet(queue) \cup running \cup Answered,
         \A job \in ToSet(queue) : job.request # r,
         \A job \in Answered : job.request # r => job \in Answered',
         kind = "load" => \A job \in running \cup Answered :
                            job.request = r => job.attempt # attempt[r]
  PROVE  PoolInv'
<1> DEFINE new == Job(r, kind)
           before == ToSet(queue) \cup running \cup Answered
           after == ToSet(queue') \cup running' \cup Answered'
<1>1. new \in AnyJob /\ new.request = r /\ new.attempt = attempt[r] /\ new.kind = kind
  BY OwnJobs DEF PoolInv
<1>2. queue' \in Seq(AnyJob) /\ Simple(queue') /\ ToSet(queue') = ToSet(queue) \cup {new}
  BY <1>1, AppendNew DEF PoolInv, Shapes
<1>3. Shapes'
  BY <1>2 DEF PoolInv, Shapes, Goto
<1>4. Answered' \subseteq Answered
  BY DEF Answered
<1>5. before \subseteq AnyJob /\ \A q \in Requests : q # r => phase'[q] = phase[q]
  BY AllAreJobs DEF PoolInv, Shapes, Goto
<1>6. phase'[r] = IF kind = "load" THEN "loading" ELSE "calling"
  BY DEF PoolInv, Shapes, Goto
<1> HIDE DEF new
<1>7. QueueIsAwaited'
  <2> SUFFICES ASSUME NEW job \in ToSet(queue')
               PROVE  Awaited(job)' /\ job \notin running' \cup Answered'
    BY DEF QueueIsAwaited
  <2>1. CASE job = new
    BY <1>1, <1>4, <1>6, <2>1 DEF Awaited, new
  <2>2. CASE job \in ToSet(queue)
    <3>1. Awaited(job) /\ job \notin running \cup Answered /\ job.request # r /\ job.request \in Requests
      BY <1>5, <2>2 DEF PoolInv, QueueIsAwaited, AnyJob
    <3>2. QED
      BY <1>4, <1>5, <3>1 DEF Awaited
  <2>3. QED
    BY <1>2, <2>1, <2>2
<1>8. JobsAreOfAttempts'
  <2> SUFFICES ASSUME NEW job \in after
               PROVE  /\ job.attempt <= attempt'[job.request]
                      /\ job.attempt = attempt'[job.request] =>
                           phase'[job.request] # "gate"
                           /\ (job.kind = "call" => phase'[job.request] # "loading")
    BY DEF JobsAreOfAttempts
  <2>1. CASE job = new
    <3>1. attempt[r] <= attempt[r]
      BY DEF PoolInv, Shapes
    <3>2. QED
      BY <1>1, <1>6, <2>1, <3>1
  <2>2. CASE job \in before /\ job.request # r
    <3>1. job.request \in Requests
      BY <1>5, <2>2 DEF AnyJob
    <3>2. QED
      BY <1>5, <2>2, <3>1 DEF PoolInv, JobsAreOfAttempts
  <2>3. CASE job \in running \cup Answered /\ job.request = r
    BY <1>6, <2>3 DEF PoolInv, JobsAreOfAttempts
  <2>4. QED
    BY <1>2, <1>4, <2>1, <2>2, <2>3
<1>9. NobodyWaitsForNothing'
  <2> SUFFICES ASSUME NEW q \in Requests
               PROVE  /\ phase'[q] = "loading" => Job(q, "load")' \in after
                      /\ phase'[q] = "calling" => Job(q, "call")' \in after
    BY DEF NobodyWaitsForNothing, Answered
  <2>1. CASE q = r
    <3>1. Job(r, kind)' \in after
      BY <1>2 DEF new, Job
    <3>2. QED
      BY <1>6, <2>1, <3>1
  <2>2. CASE q # r
    <3>1. phase'[q] = phase[q] /\ \A k : Job(q, k)' = Job(q, k) /\ Job(q, k).request = q
      BY <1>5, <2>2 DEF Job
    <3>2. /\ phase[q] = "loading" => Job(q, "load") \in before
          /\ phase[q] = "calling" => Job(q, "call") \in before
      BY DEF PoolInv, NobodyWaitsForNothing, Answered
    <3>3. \A job \in before : job.request # r => job \in after
      BY <1>2
    <3>4. QED
      BY <2>2, <3>1, <3>2, <3>3
  <2>3. QED
    BY <2>1, <2>2
<1>10. QED
  BY <1>3, <1>7, <1>8, <1>9 DEF PoolInv

LEMMA PoolInit == Init => PoolInv
<1> SUFFICES ASSUME Init PROVE PoolInv
  OBVIOUS
<1>1. queue = <<>> /\ ToSet(queue) = {} /\ DOMAIN queue = {} /\ Answered = {} /\ running = {}
  BY DEF Init, ToSet, Answered
<1>2. Shapes
  BY <1>1 DEF Init, Shapes, Simple
<1>3. QED
  BY <1>1, <1>2 DEF Init, PoolInv, QueueIsAwaited, JobsAreOfAttempts, NobodyWaitsForNothing

\* No job of a coroutine is queued that is at rest or before its load.
LEMMA NothingQueued ==
  ASSUME PoolInv, NEW r \in Requests, phase[r] \in {"idle", "gate"}
  PROVE  \A job \in ToSet(queue) : job.request # r
<1> SUFFICES ASSUME NEW job \in ToSet(queue), job.request = r PROVE FALSE
  OBVIOUS
<1>1. job \in AnyJob /\ Awaited(job)
  BY AllAreJobs DEF PoolInv, QueueIsAwaited
<1>2. phase[r] \in {"loading", "calling"}
  BY <1>1, AwaitedJob
<1>3. QED
  BY <1>2

\* No job of a coroutine is queued whose awaited answer has arrived.
LEMMA NothingQueuedBeside ==
  ASSUME PoolInv, NEW answer \in posted, Awaited(answer.job)
  PROVE  \A job \in ToSet(queue) : job.request # answer.job.request
<1> SUFFICES ASSUME NEW job \in ToSet(queue), job.request = answer.job.request PROVE FALSE
  OBVIOUS
<1>1. job \in AnyJob /\ answer.job \in AnyJob
  BY AllAreJobs DEF PoolInv, Answered
<1>2. Awaited(job) /\ job # answer.job
  BY DEF PoolInv, QueueIsAwaited, Answered
<1>3. job = answer.job
  BY <1>1, <1>2, AwaitedJob
<1>4. QED
  BY <1>2, <1>3

LEMMA StartKeeps ==
  ASSUME PoolInv, NEW r \in Requests, Start(r) PROVE PoolInv'
<1> DEFINE all == ToSet(queue) \cup running \cup Answered
<1>1. all' = all /\ Answered' = Answered
  BY DEF Start, Answered
<1>2. all \subseteq AnyJob
  BY AllAreJobs DEF PoolInv
<1>3. /\ attempt[r] \in Nat /\ attempt'[r] = attempt[r] + 1 /\ phase'[r] = "gate"
      /\ \A q \in Requests : q # r => attempt'[q] = attempt[q] /\ phase'[q] = phase[q]
  BY DEF PoolInv, Shapes, Start, Goto
<1>4. Shapes'
  BY DEF PoolInv, Shapes, Start, Goto
<1>5. \A job \in ToSet(queue) : job.request # r
  BY NothingQueued DEF Start
<1>6. QueueIsAwaited'
  <2> SUFFICES ASSUME NEW job \in ToSet(queue)
               PROVE  Awaited(job)' /\ job \notin running \cup Answered
    BY <1>1 DEF QueueIsAwaited, Start
  <2>1. job.request \in Requests /\ job.request # r /\ Awaited(job)
    BY <1>2, <1>5 DEF PoolInv, QueueIsAwaited, AnyJob
  <2>2. QED
    BY <1>3, <2>1 DEF PoolInv, QueueIsAwaited, Awaited
<1>7. JobsAreOfAttempts'
  <2> SUFFICES ASSUME NEW job \in all
               PROVE  /\ job.attempt <= attempt'[job.request]
                      /\ job.attempt = attempt'[job.request] =>
                           phase'[job.request] # "gate"
                           /\ (job.kind = "call" => phase'[job.request] # "loading")
    BY <1>1 DEF JobsAreOfAttempts
  <2>1. job.request \in Requests /\ job.attempt \in Nat /\ job.attempt <= attempt[job.request]
    BY <1>2 DEF PoolInv, JobsAreOfAttempts, AnyJob
  <2>2. CASE job.request = r
    BY <1>3, <2>1, <2>2
  <2>3. CASE job.request # r
    BY <1>3, <2>1, <2>3 DEF PoolInv, JobsAreOfAttempts
  <2>4. QED
    BY <2>2, <2>3
<1>8. NobodyWaitsForNothing'
  <2> SUFFICES ASSUME NEW q \in Requests
               PROVE  /\ phase'[q] = "loading" => Job(q, "load")' \in all
                      /\ phase'[q] = "calling" => Job(q, "call")' \in all
    BY <1>1 DEF NobodyWaitsForNothing, Answered
  <2>1. CASE q = r
    BY <1>3, <2>1
  <2>2. CASE q # r
    BY <1>3, <2>2 DEF PoolInv, NobodyWaitsForNothing, Answered, Job
  <2>3. QED
    BY <2>1, <2>2
<1>9. QED
  BY <1>4, <1>6, <1>7, <1>8 DEF PoolInv

\* Jobs move on, and whoever awaited one still finds it.
LEMMA MoveKeeps ==
  ASSUME PoolInv, Shapes', UNCHANGED <<phase, attempt>>,
         ToSet(queue') \cup running' \cup Answered' \subseteq ToSet(queue) \cup running \cup Answered,
         ToSet(queue') \subseteq ToSet(queue),
         \A job \in ToSet(queue') : job \notin running' \cup Answered',
         \A job \in ToSet(queue) \cup running \cup Answered :
           Awaited(job) => job \in ToSet(queue') \cup running' \cup Answered'
  PROVE  PoolInv'
<1>1. QueueIsAwaited'
  BY DEF PoolInv, QueueIsAwaited, Awaited
<1>2. JobsAreOfAttempts'
  BY DEF PoolInv, JobsAreOfAttempts
<1>3. NobodyWaitsForNothing'
  <2> SUFFICES ASSUME NEW q \in Requests
               PROVE  /\ phase[q] = "loading" => Job(q, "load") \in ToSet(queue') \cup running' \cup Answered'
                      /\ phase[q] = "calling" => Job(q, "call") \in ToSet(queue') \cup running' \cup Answered'
    BY DEF NobodyWaitsForNothing, Answered, Job
  <2>1. /\ phase[q] = "loading" => Job(q, "load") \in ToSet(queue) \cup running \cup Answered
        /\ phase[q] = "calling" => Job(q, "call") \in ToSet(queue) \cup running \cup Answered
    BY DEF PoolInv, NobodyWaitsForNothing, Answered
  <2>2. /\ phase[q] = "loading" => Awaited(Job(q, "load"))
        /\ phase[q] = "calling" => Awaited(Job(q, "call"))
    BY DEF Awaited, Job
  <2>3. QED
    BY <2>1, <2>2
<1>4. QED
  BY <1>1, <1>2, <1>3 DEF PoolInv

LEMMA TakeKeeps ==
  ASSUME PoolInv, Take PROVE PoolInv' /\ Head(queue) \in ToSet(queue)
<1>1. /\ Head(queue) \in AnyJob /\ Head(queue) \in ToSet(queue)
      /\ queue' \in Seq(AnyJob) /\ Simple(queue') /\ ToSet(queue') = ToSet(queue) \ {Head(queue)}
  BY TailOfSimple DEF PoolInv, Shapes, Take
<1>2. running' = running \cup {Head(queue)} /\ UNCHANGED <<phase, attempt, posted, outcome>>
  BY DEF Take
<1>3. Answered' = Answered
  BY <1>2 DEF Answered
<1>4. Shapes'
  BY <1>1, <1>2 DEF PoolInv, Shapes
<1>5. \A job \in ToSet(queue') : job \notin running' \cup Answered'
  BY <1>1, <1>2, <1>3 DEF PoolInv, QueueIsAwaited
<1>6. QED
  BY <1>1, <1>2, <1>3, <1>4, <1>5, MoveKeeps

LEMMA FinishKeeps ==
  ASSUME PoolInv, NEW job \in running, NEW ok \in BOOLEAN, Finish(job, ok) PROVE PoolInv'
<1>1. /\ running' = running \ {job} /\ posted' = posted \cup {[job |-> job, ok |-> ok]}
      /\ UNCHANGED <<phase, attempt, queue, outcome>>
  BY DEF Finish
<1>2. Answered' = Answered \cup {job}
  <2> DEFINE late == [job |-> job, ok |-> ok]
  <2>1. late.job = job /\ posted' = posted \cup {late}
    BY <1>1
  <2> HIDE DEF late
  <2>2. QED
    BY <2>1 DEF Answered
<1>3. job \in AnyJob
  BY AllAreJobs DEF PoolInv
<1>4. Shapes'
  BY <1>1, <1>3 DEF PoolInv, Shapes
<1>5. \A j \in ToSet(queue') : j \notin running' \cup Answered'
  BY <1>1, <1>2 DEF PoolInv, QueueIsAwaited
<1>6. QED
  BY <1>1, <1>2, <1>4, <1>5, MoveKeeps

LEMMA DeliverKeeps ==
  ASSUME PoolInv, NEW answer \in posted, Deliver(answer) PROVE PoolInv'
<1> DEFINE r == answer.job.request
<1>1. /\ posted' = posted \ {answer} /\ attempt' = attempt /\ running' = running
      /\ posted' \subseteq posted
  BY DEF Deliver
<1>2. answer.job \in AnyJob /\ r \in Requests
  BY AllAreJobs DEF PoolInv, Answered, AnyJob
<1>3. Answered' \subseteq Answered /\ \A job \in Answered : job # answer.job => job \in Answered'
  BY <1>1 DEF Answered
<1>4. CASE ~Awaited(answer.job)
  <2>1. UNCHANGED <<phase, outcome, queue>>
    BY <1>4 DEF Deliver
  <2>2. Shapes'
    BY <1>1, <2>1 DEF PoolInv, Shapes
  <2>3. \A job \in ToSet(queue') : job \notin running' \cup Answered'
    BY <1>1, <1>3, <2>1 DEF PoolInv, QueueIsAwaited
  <2>4. \A job \in ToSet(queue) \cup running \cup Answered :
          Awaited(job) => job \in ToSet(queue') \cup running' \cup Answered'
    BY <1>1, <1>3, <1>4, <2>1
  <2>5. QED
    BY <1>1, <1>3, <2>1, <2>2, <2>3, <2>4, MoveKeeps
<1>5. ASSUME Awaited(answer.job), NEW kind, End(r, kind), UNCHANGED queue PROVE PoolInv'
  <2>1. Goto(r, "idle") /\ DOMAIN outcome' = Requests
    BY <1>5 DEF PoolInv, Shapes, End
  <2>2. \A job \in ToSet(queue') : job.request # r
    BY <1>5, NothingQueuedBeside
  <2>3. queue' \in Seq(AnyJob) /\ Simple(queue') /\ ToSet(queue') = ToSet(queue)
    BY <1>5 DEF PoolInv, Shapes
  <2>4. \A job \in ToSet(queue) \cup Answered :
          job.request # r => job \in ToSet(queue') \cup Answered'
    BY <1>3, <2>3
  <2> HIDE DEF r
  <2>5. QED
    BY <1>1, <1>2, <2>1, <2>2, <2>3, <2>4, EndKeeps
<1>6. ASSUME Awaited(answer.job), answer.job.kind = "load", Goto(r, "calling"),
             queue' = Append(queue, Job(r, "call")), UNCHANGED outcome
      PROVE  PoolInv'
  <2>1. phase[r] = "loading"
    BY <1>6 DEF Awaited
  <2>2. \A job \in ToSet(queue) : job.request # r
    BY <1>6, NothingQueuedBeside
  <2> HIDE DEF r
  <2>3. Job(r, "call") \notin ToSet(queue) \cup running \cup Answered
    BY <1>2, <2>1, OwnJobs DEF PoolInv, JobsAreOfAttempts
  <2>4. \A job \in Answered : job.request # r => job \in Answered'
    BY <1>3 DEF r
  <2>5. QED
    BY <1>1, <1>2, <1>6, <2>2, <2>3, <2>4, SubmitKeeps
<1>7. CASE Awaited(answer.job)
  <2>1. CASE answer.job.kind = "call"
    BY <1>5, <1>7, <2>1 DEF Deliver, ResumeWithAnswer
  <2>2. CASE answer.job.kind = "load" /\ answer.ok /\ r \in Translations
    BY <1>6, <1>7, <2>2 DEF Deliver, ResumeWithRag
  <2>3. CASE answer.job.kind = "load" /\ answer.ok /\ r \notin Translations
    BY <1>5, <1>7, <2>3 DEF Deliver, ResumeWithRag
  <2>4. CASE answer.job.kind = "load" /\ ~answer.ok
    <3>1. PICK error : ResumeWithoutRag(r, error)
      BY <1>7, <2>4 DEF Deliver
    <3>2. QED
      BY <1>5, <1>7, <3>1 DEF ResumeWithoutRag
  <2>5. QED
    BY <1>2, <2>1, <2>2, <2>3, <2>4 DEF AnyJob
<1>8. QED
  BY <1>4, <1>7

LEMMA PoolStep == PoolInv /\ [Next]_vars => PoolInv'
<1> SUFFICES ASSUME PoolInv, [Next]_vars PROVE PoolInv'
  OBVIOUS
<1>1. ASSUME NEW r \in Requests, Start(r) PROVE PoolInv'
  BY <1>1, StartKeeps
<1>2. ASSUME NEW r \in Requests, Refuse(r) PROVE PoolInv'
  <2>1. /\ Goto(r, "idle") /\ DOMAIN outcome' = Requests /\ UNCHANGED <<attempt, queue, running, posted>>
        /\ phase[r] = "gate"
    BY <1>2 DEF PoolInv, Shapes, Refuse, End
  <2>2. \A job \in ToSet(queue) : job.request # r
    BY <2>1, NothingQueued
  <2>3. queue' \in Seq(AnyJob) /\ Simple(queue') /\ Answered' = Answered
    BY <2>1 DEF PoolInv, Shapes, Answered
  <2>4. QED
    BY <2>1, <2>2, <2>3, EndKeeps
<1>3. ASSUME NEW r \in Requests, SubmitLoad(r) PROVE PoolInv'
  <2>1. /\ phase[r] = "gate" /\ queue' = Append(queue, Job(r, "load")) /\ Goto(r, "loading")
        /\ UNCHANGED <<attempt, running, posted, outcome>>
    BY <1>3 DEF SubmitLoad
  <2>2. \A job \in ToSet(queue) : job.request # r
    BY <2>1, NothingQueued
  <2>3. \A job \in ToSet(queue) \cup running \cup Answered :
          job.request = r => job.attempt # attempt[r]
    BY <2>1 DEF PoolInv, JobsAreOfAttempts
  <2>4. Job(r, "load") \notin ToSet(queue) \cup running \cup Answered
    BY <2>3, OwnJobs DEF PoolInv
  <2>5. Answered' = Answered
    BY <2>1 DEF Answered
  <2>6. QED
    BY <2>1, <2>2, <2>3, <2>4, <2>5, SubmitKeeps
<1>4. ASSUME NEW r \in Requests, Timeout(r) PROVE PoolInv'
  <2>1. /\ phase[r] = "calling" /\ Goto(r, "idle") /\ DOMAIN outcome' = Requests
        /\ queue' = RemoveFirst(queue, Job(r, "call")) /\ UNCHANGED <<attempt, running, posted>>
    BY <1>4 DEF PoolInv, Shapes, Timeout, End
  <2>2. /\ queue' \in Seq(AnyJob) /\ Simple(queue')
        /\ ToSet(queue') = ToSet(queue) \ {Job(r, "call")}
    BY <2>1, RemoveOne DEF PoolInv, Shapes
  <2>3. Answered' = Answered
    BY <2>1 DEF Answered
  <2>4. ASSUME NEW job \in ToSet(queue'), job.request = r PROVE FALSE
    <3>1. job \in AnyJob /\ Awaited(job)
      BY <2>2, <2>4, AllAreJobs DEF PoolInv, QueueIsAwaited
    <3>2. job = Job(r, "call")
      BY <2>1, <2>4, <3>1, AwaitedJob
    <3>3. QED
      BY <2>2, <3>2
  <2>5. \A job \in ToSet(queue) \cup Answered :
          job.request # r => job \in ToSet(queue') \cup Answered'
    BY <2>2, <2>3 DEF Job
  <2>6. QED
    BY <2>1, <2>2, <2>3, <2>4, <2>5, EndKeeps
<1>5. CASE UNCHANGED vars
  BY <1>5 DEF vars, PoolInv, Shapes, Simple, QueueIsAwaited, JobsAreOfAttempts,
              NobodyWaitsForNothing, Awaited, Answered, Job
<1>6. QED
  BY <1>1, <1>2, <1>3, <1>4, <1>5, TakeKeeps, FinishKeeps, DeliverKeeps DEF Next

--------------------------------------------------------------------------------
(* Bounds.                                                                   *)

AllJobs == ToSet(queue) \cup running \cup Answered

\* Who is under way was started, and no more jobs run than there are threads.
PoolBounds ==
  /\ \A r \in Requests : attempt[r] <= MaxAttempts /\ (phase[r] # "idle" => attempt[r] >= 1)
  /\ \A job \in AllJobs : job.attempt >= 1
  /\ IsFiniteSet(running) /\ Cardinality(running) <= Workers

\* A step starts no coroutine and adds at most a job of one that is under way.
Quiet ==
  /\ attempt' = attempt
  /\ \A r \in Requests : phase'[r] # "idle" => phase[r] # "idle"
  /\ \A job \in AllJobs' :
       job \in AllJobs \/ \E r \in Requests, kind \in {"load", "call"} : phase[r] # "idle" /\ job = Job(r, kind)

LEMMA QuietKeeps ==
  ASSUME PoolInv, PoolBounds, Quiet, IsFiniteSet(running'), Cardinality(running') <= Workers
  PROVE  PoolBounds'
<1>1. \A job \in AllJobs' : job.attempt >= 1
  BY DEF PoolBounds, Quiet, Job
<1>2. QED
  BY <1>1 DEF PoolBounds, Quiet

LEMMA AppendedJobs ==
  ASSUME PoolInv, NEW r \in Requests, NEW kind \in {"load", "call"},
         queue' = Append(queue, Job(r, kind)), running' = running, posted' \subseteq posted
  PROVE  AllJobs' \subseteq AllJobs \cup {Job(r, kind)}
<1>1. queue \in Seq(AnyJob) /\ Job(r, kind) \in AnyJob
  BY OwnJobs DEF PoolInv, Shapes
<1>2. ToSet(queue') \subseteq ToSet(queue) \cup {Job(r, kind)}
  <2> DEFINE new == Job(r, kind)
             q == Append(queue, new)
  <2>1. /\ Len(queue) \in Nat /\ DOMAIN queue = 1 .. Len(queue)
        /\ DOMAIN q = 1 .. Len(queue) + 1 /\ q[Len(queue) + 1] = new
        /\ \A i \in 1 .. Len(queue) : q[i] = queue[i]
    BY <1>1, AppendProperties, LenProperties
  <2> HIDE DEF new, q
  <2>2. ToSet(q) \subseteq ToSet(queue) \cup {new}
    BY <2>1 DEF ToSet
  <2>3. QED
    BY <2>2 DEF new, q
<1>3. Answered' \subseteq Answered
  BY DEF Answered
<1>4. QED
  BY <1>2, <1>3 DEF AllJobs

LEMMA BoundsStep == PoolInv /\ PoolBounds /\ [Next]_vars => PoolBounds'
<1> SUFFICES ASSUME PoolInv, PoolBounds, [Next]_vars PROVE PoolBounds'
  OBVIOUS
<1>0. MaxAttempts \in Nat /\ Workers \in Nat \ {0} /\ IsFiniteSet(running)
      /\ Cardinality(running) \in Nat /\ Cardinality(running) <= Workers
  BY RagProviderAssumption, FS_CardinalityType DEF PoolBounds
<1>1. ASSUME NEW r \in Requests, Start(r) PROVE PoolBounds'
  <2>1. /\ AllJobs' = AllJobs /\ running' = running
        /\ attempt[r] \in Nat /\ attempt[r] < MaxAttempts /\ attempt'[r] = attempt[r] + 1
        /\ \A q \in Requests : q # r => attempt'[q] = attempt[q] /\ phase'[q] = phase[q]
    BY <1>1 DEF Start, AllJobs, Answered, Goto, PoolInv, Shapes
  <2>2. ASSUME NEW q \in Requests
        PROVE  attempt'[q] <= MaxAttempts /\ (phase'[q] # "idle" => attempt'[q] >= 1)
    <3>1. CASE q = r
      BY <1>0, <2>1, <3>1
    <3>2. CASE q # r
      BY <2>1, <3>2 DEF PoolBounds
    <3>3. QED
      BY <3>1, <3>2
  <2>3. QED
    BY <2>1, <2>2 DEF PoolBounds
<1>2. ASSUME NEW r \in Requests, Refuse(r) PROVE PoolBounds'
  <2>1. Quiet /\ running' = running
    BY <1>2 DEF Refuse, End, Goto, Quiet, AllJobs, Answered, PoolInv, Shapes
  <2>2. QED
    BY <1>0, <2>1, QuietKeeps
<1>3. ASSUME NEW r \in Requests, SubmitLoad(r) PROVE PoolBounds'
  <2>1. /\ phase[r] = "gate" /\ queue' = Append(queue, Job(r, "load")) /\ Goto(r, "loading")
        /\ attempt' = attempt /\ running' = running /\ posted' = posted
    BY <1>3 DEF SubmitLoad
  <2>2. Quiet
    BY <2>1, AppendedJobs DEF Quiet, Goto, PoolInv, Shapes
  <2>3. QED
    BY <1>0, <2>1, <2>2, QuietKeeps
<1>4. ASSUME NEW r \in Requests, Timeout(r) PROVE PoolBounds'
  <2>1. /\ queue' = RemoveFirst(queue, Job(r, "call")) /\ Goto(r, "idle")
        /\ attempt' = attempt /\ running' = running /\ posted' = posted
    BY <1>4 DEF Timeout, End
  <2>2. ToSet(queue') \subseteq ToSet(queue)
    BY <2>1, RemoveOne DEF PoolInv, Shapes
  <2>3. AllJobs' \subseteq AllJobs
    BY <2>1, <2>2 DEF AllJobs, Answered
  <2>4. Quiet
    BY <2>1, <2>3 DEF Quiet, Goto, PoolInv, Shapes
  <2>5. QED
    BY <1>0, <2>1, <2>4, QuietKeeps
<1>5. CASE Take
  <2>1. /\ ToSet(queue') \subseteq ToSet(queue) /\ Head(queue) \in ToSet(queue)
        /\ running' = running \cup {Head(queue)} /\ Cardinality(running) < Workers
        /\ UNCHANGED <<phase, attempt, posted>>
    BY <1>5, TailOfSimple DEF Take, PoolInv, Shapes
  <2>2. Quiet
    BY <2>1 DEF Quiet, AllJobs, Answered
  <2>3. IsFiniteSet(running') /\ Cardinality(running') <= Cardinality(running) + 1
    <3> DEFINE job == Head(queue)
    <3>1. running' = running \cup {job}
      BY <2>1
    <3> HIDE DEF job
    <3>2. /\ IsFiniteSet(running \cup {job})
          /\ Cardinality(running \cup {job}) =
               IF job \in running THEN Cardinality(running) ELSE Cardinality(running) + 1
      BY <1>0, FS_AddElement
    <3>3. QED
      BY <1>0, <3>1, <3>2
  <2>4. QED
    BY <1>0, <2>1, <2>2, <2>3, QuietKeeps, FS_CardinalityType
<1>6. ASSUME NEW job \in running, NEW ok \in BOOLEAN, Finish(job, ok) PROVE PoolBounds'
  <2>1. /\ running' = running \ {job} /\ posted' = posted \cup {[job |-> job, ok |-> ok]}
        /\ UNCHANGED <<phase, attempt, queue>>
    BY <1>6 DEF Finish
  <2>2. Answered' \subseteq Answered \cup {job}
    BY <2>1 DEF Answered
  <2>3. Quiet
    BY <2>1, <2>2 DEF Quiet, AllJobs
  <2>4. IsFiniteSet(running') /\ Cardinality(running') <= Cardinality(running)
    BY <1>0, <2>1, FS_RemoveElement
  <2>5. QED
    BY <1>0, <2>3, <2>4, QuietKeeps, FS_CardinalityType
<1>7. ASSUME NEW answer \in posted, Deliver(answer) PROVE PoolBounds'
  <2> DEFINE r == answer.job.request
  <2>1. /\ posted' \subseteq posted /\ attempt' = attempt /\ running' = running
        /\ Answered' \subseteq Answered
    BY <1>7 DEF Deliver, Answered
  <2>2. r \in Requests
    BY AllAreJobs DEF PoolInv, Answered, AnyJob
  <2>3. CASE UNCHANGED <<phase, queue>>
    BY <1>0, <2>1, <2>3, QuietKeeps DEF Quiet, AllJobs
  <2>4. CASE Goto(r, "idle") /\ UNCHANGED queue
    BY <1>0, <2>1, <2>2, <2>4, QuietKeeps DEF Quiet, AllJobs, Goto, PoolInv, Shapes
  <2>5. CASE Goto(r, "calling") /\ queue' = Append(queue, Job(r, "call")) /\ Awaited(answer.job)
    <3>1. phase[r] # "idle"
      BY <2>5 DEF Awaited
    <3>2. AllJobs' \subseteq AllJobs \cup {Job(r, "call")}
      BY <2>1, <2>2, <2>5, AppendedJobs
    <3>3. Quiet
      BY <2>1, <2>2, <2>5, <3>1, <3>2 DEF Quiet, Goto, PoolInv, Shapes
    <3>4. QED
      BY <1>0, <2>1, <3>3, QuietKeeps
  <2>6. QED
    BY <1>7, <2>3, <2>4, <2>5
       DEF Deliver, ResumeWithRag, ResumeWithoutRag, ResumeWithAnswer, End
<1>8. CASE UNCHANGED vars
  BY <1>8 DEF vars, PoolBounds, AllJobs, Answered
<1>9. QED
  BY <1>1, <1>2, <1>3, <1>4, <1>5, <1>6, <1>7, <1>8 DEF Next

LEMMA BoundsInit == Init => PoolBounds
<1> SUFFICES ASSUME Init PROVE PoolBounds
  OBVIOUS
<1>1. ToSet(queue) = {} /\ Answered = {} /\ running = {}
  BY DEF Init, ToSet, Answered
<1>2. IsFiniteSet(running) /\ Cardinality(running) = 0
  BY <1>1, FS_EmptySet
<1>3. QED
  BY <1>1, <1>2, RagProviderAssumption DEF Init, PoolBounds, AllJobs

--------------------------------------------------------------------------------
(* Theorems.                                                                 *)

\* Queue, pool and answers hold jobs of the attempts that were made, and never more jobs run
\* than there are threads.
THEOREM PoolTyped == Spec => []TypeOK
<1>1. PoolInv /\ PoolBounds => TypeOK
  <2> SUFFICES ASSUME PoolInv, PoolBounds PROVE TypeOK
    OBVIOUS
  <2>1. \A job \in AllJobs : job \in Jobs
    <3> SUFFICES ASSUME NEW job \in AllJobs PROVE job \in Jobs
      OBVIOUS
    <3>1. job \in AnyJob /\ job.attempt >= 1 /\ job.attempt <= attempt[job.request]
      BY AllAreJobs DEF PoolInv, PoolBounds, JobsAreOfAttempts, AllJobs, Answered
    <3>2. job.request \in Requests /\ job.attempt \in Nat /\ attempt[job.request] \in Nat
          /\ attempt[job.request] <= MaxAttempts
      BY <3>1 DEF PoolInv, Shapes, PoolBounds, AnyJob
    <3>3. job.attempt \in 1 .. MaxAttempts
      BY <3>1, <3>2, RagProviderAssumption
    <3>4. QED
      BY <3>1, <3>3 DEF AnyJob, Jobs
  <2>2. queue \in Seq(Jobs)
    <3>1. queue \in Seq(AnyJob) /\ \A i \in 1 .. Len(queue) : queue[i] \in ToSet(queue)
      BY LenProperties DEF PoolInv, Shapes, ToSet
    <3>2. \A i \in 1 .. Len(queue) : queue[i] \in Jobs
      BY <2>1, <3>1 DEF AllJobs
    <3>3. QED
      BY <3>1, <3>2, LenProperties, SeqDef
  <2>3. posted \subseteq [job : Jobs, ok : BOOLEAN]
    <3> SUFFICES ASSUME NEW a \in posted PROVE a \in [job : Jobs, ok : BOOLEAN]
      OBVIOUS
    <3>1. a \in [job : AnyJob, ok : BOOLEAN] /\ a.job \in Jobs
      BY <2>1 DEF PoolInv, Shapes, AllJobs, Answered
    <3>2. QED
      BY <3>1
  <2>4. QED
    BY <2>1, <2>2, <2>3 DEF TypeOK, PoolInv, Shapes, PoolBounds, AllJobs
<1>2. QED
  BY <1>1, PoolInit, PoolStep, BoundsInit, BoundsStep, PTL DEF Spec

\* No coroutine waits for a job that is neither queued nor running nor answered, however
\* many translations share however few threads (to_thread and wait_for in provider.py).
THEOREM SomebodyIsAtIt == Spec => []NobodyWaitsForNothing
<1>1. PoolInv => NobodyWaitsForNothing
  BY DEF PoolInv
<1>2. QED
  BY <1>1, PoolInit, PoolStep, PTL DEF Spec

\* No call of the RAG begins for a translation that was given up: the timeout of _invoke
\* cancels what is still queued.
THEOREM NoIdleCall == Spec => NoCallForNobody
<1>1. PoolInv /\ [Next]_vars => [\A job \in running' \ running : Awaited(job)]_vars
  <2> SUFFICES ASSUME PoolInv, Next, NEW job \in running', job \notin running
               PROVE  Awaited(job)
    OBVIOUS
  <2>1. Take
    BY DEF Next, Start, Refuse, SubmitLoad, Timeout, Finish, Deliver
  <2>2. job = Head(queue) /\ Head(queue) \in ToSet(queue)
    BY <2>1, TakeKeeps DEF Take
  <2>3. QED
    BY <2>2 DEF PoolInv, QueueIsAwaited
<1>2. QED
  BY <1>1, PoolInit, PoolStep, PTL DEF Spec, NoCallForNobody
===============================================================================
