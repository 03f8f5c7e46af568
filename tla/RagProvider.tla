------------------------------- MODULE RagProvider -------------------------------
(***************************************************************************)
(* Net2TFRAGProvider of src/infrastructure/rag/provider.py: translations    *)
(* and health checks as coroutines of one event loop that hand load_rag and *)
(* the synchronous call of the external RAG to a bounded pool of threads,   *)
(* the latter under a timeout.  The pool, the futures and wait_for are      *)
(* asyncio's: a job that is still queued can be cancelled, a running one    *)
(* cannot, and an answer reaches the coroutine in a later turn of the loop. *)
(***************************************************************************)
EXTENDS Naturals, Sequences, FiniteSets, SequencesExt

CONSTANTS
  Translations,   \* coroutines that translate
  Checks,         \* coroutines that check the health
  Workers,        \* threads of the default executor
  MaxAttempts     \* bound: how often one coroutine is started

ASSUME RagProviderAssumption == Workers \in Nat \ {0} /\ MaxAttempts \in Nat

Requests == Translations \cup Checks

VARIABLES
  phase,     \* per request: where the coroutine is
  attempt,   \* per request: how often it was started
  queue,     \* jobs no thread has taken
  running,   \* jobs a thread is at
  posted,    \* answers on their way to the event loop
  outcome    \* per request: what the last attempt returned or raised

vars == <<phase, attempt, queue, running, posted, outcome>>

Job(r, kind) == [request |-> r, attempt |-> attempt[r], kind |-> kind]

NoOutcome == [kind |-> "none", attempt |-> 0]

\* The future of a job is pending exactly while its coroutine awaits that very job.
Awaited(job) ==
  /\ job.attempt = attempt[job.request]
  /\ phase[job.request] = IF job.kind = "load" THEN "loading" ELSE "calling"

Init ==
  /\ phase = [r \in Requests |-> "idle"] /\ attempt = [r \in Requests |-> 0]
  /\ queue = <<>> /\ running = {} /\ posted = {}
  /\ outcome = [r \in Requests |-> NoOutcome]

--------------------------------------------------------------------------------
Goto(r, label) == phase' = [phase EXCEPT ![r] = label]

\* The coroutine returns, or an exception leaves it.
End(r, kind) ==
  /\ Goto(r, "idle")
  /\ outcome' = [outcome EXCEPT ![r] = [kind |-> kind, attempt |-> attempt[r]]]

\* translate or health_check is called, possibly again after a failure.
Start(r) ==
  /\ phase[r] = "idle" /\ attempt[r] < MaxAttempts
  /\ attempt' = [attempt EXCEPT ![r] = @ + 1]
  /\ outcome' = [outcome EXCEPT ![r] = NoOutcome]
  /\ Goto(r, "gate")
  /\ UNCHANGED <<queue, running, posted>>

\* The gate, first thing in translate: ValidationError before anything is loaded.
Refuse(r) ==
  /\ phase[r] = "gate" /\ r \in Translations
  /\ End(r, "ValidationError")
  /\ UNCHANGED <<attempt, queue, running, posted>>

\* to_thread(load_rag), awaited without a timeout.
SubmitLoad(r) ==
  /\ phase[r] = "gate"
  /\ queue' = Append(queue, Job(r, "load")) /\ Goto(r, "loading")
  /\ UNCHANGED <<attempt, running, posted, outcome>>

\* The checkout is loaded: a translation maps its architecture and submits the call
\* under wait_for, a health check reports.
ResumeWithRag(r) ==
  IF r \in Translations
  THEN /\ queue' = Append(queue, Job(r, "call")) /\ Goto(r, "calling")
       /\ UNCHANGED outcome
  ELSE End(r, "report") /\ UNCHANGED queue

\* load_rag raised.  A health check turns RAGUnavailableError into a report; whatever
\* else comes out of load_rag leaves both coroutines as it is.
ResumeWithoutRag(r, error) ==
  /\ End(r, IF r \in Checks /\ error = "RAGUnavailableError" THEN "report" ELSE error)
  /\ UNCHANGED queue

\* _invoke lets a RAGUnavailableError through and turns whatever else the RAG raises, and
\* an answer that is no dictionary, into RAGError.  Of a dictionary the assembler makes the
\* translation, or raises RAGError for an incomplete plan, or the ValueError of a cloud
\* architecture that is not coherent.
ResumeWithAnswer(r, ok) ==
  /\ \E kind \in IF ok THEN {"translated", "RAGError", "ValueError"}
               ELSE {"RAGUnavailableError", "RAGError"} : End(r, kind)
  /\ UNCHANGED queue

\* Slip: an exception is logged and the coroutine not resumed.
DeliverGoodOnly(answer) ==
  LET r == answer.job.request IN
    /\ answer \in posted /\ posted' = posted \ {answer}
    /\ IF ~(Awaited(answer.job) /\ answer.ok) THEN UNCHANGED <<phase, outcome, queue>>
       ELSE IF answer.job.kind = "call" THEN ResumeWithAnswer(r, TRUE) ELSE ResumeWithRag(r)
    /\ UNCHANGED <<attempt, running>>

\* The event loop hands an answer to the coroutine that awaits it; one nobody awaits any
\* more is dropped.
Deliver(answer) ==
  LET r == answer.job.request IN
    /\ answer \in posted /\ posted' = posted \ {answer}
    /\ IF ~Awaited(answer.job) THEN UNCHANGED <<phase, outcome, queue>>
       ELSE IF answer.job.kind = "call" THEN ResumeWithAnswer(r, answer.ok)
       ELSE IF answer.ok THEN ResumeWithRag(r)
       ELSE \E error \in {"RAGUnavailableError", "KeyError"} : ResumeWithoutRag(r, error)
    /\ UNCHANGED <<attempt, running>>

\* Slip: the future is shielded from the timeout.
TimeoutShielded(r) ==
  /\ phase[r] = "calling" /\ End(r, "RAGError")
  /\ UNCHANGED <<attempt, queue, running, posted>>

\* Slip: the time is counted from the moment a thread takes the job.
TimeoutOfRunning(r) ==
  /\ phase[r] = "calling" /\ Job(r, "call") \in running /\ End(r, "RAGError")
  /\ UNCHANGED <<attempt, queue, running, posted>>

\* wait_for expires: the job is cancelled if no thread has it yet, else left to itself.
Timeout(r) ==
  /\ phase[r] = "calling" /\ End(r, "RAGError")
  /\ queue' = RemoveFirst(queue, Job(r, "call"))
  /\ UNCHANGED <<attempt, running, posted>>

\* Slip: every job gets a thread of its own.
TakeAtOnce ==
  /\ queue # <<>>
  /\ running' = running \cup {Head(queue)} /\ queue' = Tail(queue)
  /\ UNCHANGED <<phase, attempt, posted, outcome>>

\* A free thread takes the oldest job.
Take ==
  /\ queue # <<>> /\ Cardinality(running) < Workers
  /\ running' = running \cup {Head(queue)} /\ queue' = Tail(queue)
  /\ UNCHANGED <<phase, attempt, posted, outcome>>

\* A job ends, well or badly, and its thread is free.
Finish(job, ok) ==
  /\ job \in running /\ running' = running \ {job}
  /\ posted' = posted \cup {[job |-> job, ok |-> ok]}
  /\ UNCHANGED <<phase, attempt, queue, outcome>>

Next ==
  \/ \E r \in Requests : Start(r) \/ Refuse(r) \/ SubmitLoad(r) \/ Timeout(r)
  \/ Take
  \/ \E job \in running, ok \in BOOLEAN : Finish(job, ok)
  \/ \E answer \in posted : Deliver(answer)

Spec == Init /\ [][Next]_vars

FinishSome(kind) ==
  \E job \in running, ok \in BOOLEAN : job.kind = kind /\ Finish(job, ok)

\* The loop runs its coroutines, callbacks and timers, the pool its threads, and an
\* import of the checkout ends.  A call of the external RAG need not.
FairSpec ==
  /\ Spec
  /\ \A r \in Requests : WF_vars(SubmitLoad(r) \/ Refuse(r)) /\ WF_vars(Timeout(r))
  /\ WF_vars(Take) /\ WF_vars(FinishSome("load"))
  /\ WF_vars(\E answer \in posted : Deliver(answer))

--------------------------------------------------------------------------------
(* Properties.                                                               *)

Jobs == [request : Requests, attempt : 1 .. MaxAttempts, kind : {"load", "call"}]

\* Queue, pool and answers hold jobs, and never more jobs run than there are threads.
TypeOK ==
  /\ phase \in [Requests -> {"idle", "gate", "loading", "calling"}]
  /\ queue \in Seq(Jobs) /\ running \subseteq Jobs /\ Cardinality(running) <= Workers
  /\ posted \subseteq [job : Jobs, ok : BOOLEAN]

\* No call of the RAG begins for a translation that has already been given up: what
\* waits in the queue when the timeout strikes is cancelled.
NoCallForNobody ==
  [][\A job \in running' \ running : Awaited(job)]_vars

\* A job is awaited exactly while it is queued, running or answered: no coroutine waits
\* for something nobody is working on.
NobodyWaitsForNothing ==
  \A r \in Requests :
    /\ phase[r] = "loading" => Job(r, "load") \in ToSet(queue) \cup running \cup {a.job : a \in posted}
    /\ phase[r] = "calling" => Job(r, "call") \in ToSet(queue) \cup running \cup {a.job : a \in posted}

\* _invoke ends even when the external RAG never returns.
EveryInvokeEnds == \A r \in Translations : phase[r] = "calling" ~> phase[r] # "calling"

--------------------------------------------------------------------------------
(* Statements of the repository that the code does not keep.                 *)

\* "Timeout | RAGError with the configured limit": a translation that is let through the
\* gate ends.
EveryTranslationEnds == \A r \in Translations : phase[r] = "loading" ~> phase[r] = "idle"
===============================================================================
