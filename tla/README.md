# TopoForge AI: specifications

TLA+ models of TopoForge AI, the model-checking runs over them, and TLAPS proofs.
TopoForge turns a network (a drawing or a prompt) into a validated network
architecture, has an external RAG translate it into a cloud architecture, generates
Terraform and Ansible from that, and applies a plan a human has approved.

All paths below are relative to the repository root; the map in `PROJECT.json`
prefixes them with `src/`.

## 1. The system

### Components, their state and operations

| Component | Code | State | Operations |
|---|---|---|---|
| Workflow graph, routing | `infrastructure/orchestration/langgraph/{spec,routing}.py` | none (data and pure functions) | edges, branches, interrupts; eight routing functions |
| Workflow state | `.../langgraph/state.py` | the checkpoint `NetworkWorkflowState`, one per thread `project:architecture` | `initial_state` |
| Deployment | `domain/deployment/models.py` | `DeploymentState`: plan, approval, stage, completed stages | `checksum`, `authorises`, `may_apply`, `advanced_to`, `progress` |
| Executor ports | `application/ports/deployment.py` | the cloud account (external) | `plan`, `apply`, `destroy`, configuration |
| RAG loader | `infrastructure/rag/loader.py` | `_lock`, `_cache`, and the process's `sys.modules`, `sys.path`, environment | `load_rag`, `reset_cache` |
| RAG provider | `infrastructure/rag/provider.py` | coroutines, futures, the default thread pool | `translate`, `_invoke`, `health_check` |
| Network architecture | `domain/architecture/{models,issues}.py` | the document, its report and gaps, its revisions | `can_proceed_to_rag`, `blocking_reasons`, `with_validation`, `succeed` |
| Network mapper | `infrastructure/rag/network_mapper.py` | none | architecture to RAG payload |
| Cloud assembler | `infrastructure/rag/cloud_assembler.py` | none | RAG plan to cloud architecture |
| Cloud architecture, validators | `domain/cloud/*.py` | immutable document | referential checks |
| Generators | `infrastructure/generators/**` | files of a project | Terraform, Ansible, inventory |
| Toolchain validators | `.../{terraform,ansible}/validator.py` | a workspace directory, child processes | the checks in order, under timeouts |
| Topology, routing, network, common | `domain/{topology,routing,network,common}` | immutable values | graph operations, parsing |
| Ports, settings, logging, telemetry | `application/ports`, `shared` | none of their own | interfaces |

### How they interact

The workflow threads one state through the nodes of the graph. Its routers read the
validation reports, the approval and the errors that nodes put there. The node
`rag_translate` goes through the provider's gate (`can_proceed_to_rag`), the provider
hands `load_rag` and the call of the RAG to threads and puts the answer through mapper
and assembler. The generators read the cloud architecture, the validators run the
tools over what they wrote. `terraform_plan` and `terraform_apply` use the executor
port, whose contract is `ApprovalRecord.authorises`. The node bodies, the graph
builder and the executors are not in the repository: it declares the graph as data and
the ports as interfaces.

### What is hard, and what makes each component correct

* *Workflow.* A thread is reused by later workflows with the same architecture, and
  `initial_state` does not name every field; interrupts, crashes after an effect,
  malformed resumes, a node with two kinds of outgoing edges. Correct: no apply without
  a human's approval of that plan; nothing stale crosses a gate; a run that ends
  complete has done what it says; every run comes to rest.
* *Deployment.* The plan changes between looking and applying. Correct: what is applied
  is what was on the screen.
* *Loader.* Process-wide state is changed while other threads load or import, and every
  step may raise. Correct: everything displaced is put back, a cached RAG is of one
  piece and takes nothing from elsewhere that the checkout has, the lock is given up.
* *Provider.* A timeout races its answer, a thread cannot be cancelled, the pool is
  finite. Correct: nobody waits for what nobody does, no call begins for nobody, every
  call ends.
* *Architecture.* The report travels with a document that is changed by copying.
  Correct: gate, reasons and status agree; no revision history is forked or has gaps.
* *Translation pipeline* (mapper, assembler, cloud validators, generators): references
  must stay closed through three translations, each with its own index of ids, and two
  generators spell the name of the same output. Correct: no reference without its target
  and nothing lost unless a warning or the list of unmapped items says so; what the
  validators accept can be placed; the inventory says only what was reported.
* *Toolchain.* A timeout ends the wait for a tool and not the tool, which goes on in a
  workspace that later checks use and that is deleted; the project may be generated again
  meanwhile. Correct: a valid result whose fingerprint fits is true of the project; every
  validation ends.

`PROJECT.json` lists the hazards with their lines and the properties that cover them.

## 2. Modules

| Module | Models | Built on |
|---|---|---|
| `Approval` | checksum, approval record, `authorises` | |
| `WorkflowGraph` | `GRAPH_SPEC` as data, the routing functions | |
| `Workflow` | one thread: engine, nodes, users, crashes, restarts | `WorkflowGraph`, `Approval` |
| `DeliveryContract` | what a delivery promises, as seven phases | |
| `WorkflowRefinement` | the mapping from `Workflow` to `DeliveryContract` | `Workflow` |
| `WorkflowProofs` | proofs | `Workflow`, `WorkflowRefinement` |
| `Deployment`, `DeploymentProofs` | one `DeploymentState` among reviewers | `Approval` |
| `RagLoader`, `RagLoaderProofs` | the import guard | |
| `RagProvider`, `RagProviderProofs` | coroutines over a thread pool | |
| `Listing` | the lists the translation makes: comprehensions, `dict.fromkeys`, `sorted` | |
| `SequenceFacts` | facts about these lists and about sequences without repetition, for the proofs about queues, displaced names and the translation | `Listing` |
| `Architecture`, `ArchitectureProofs` | the document and its revisions | |
| `Subnets` | addresses, prefixes, containment (the part of `ipaddress` the code uses) | `Listing` |
| `NetworkMapper` | architecture to RAG payload; segments | `Subnets` |
| `CloudAssembler` | RAG plan to cloud architecture | `NetworkMapper` |
| `CloudValidators` | referential integrity, the findings of the validators | `Subnets` |
| `TerraformMapping` | the mappers, the address index, warnings, outputs | `CloudValidators` |
| `AnsibleProject` | plays, role order, files of roles, inventory | `CloudValidators` |
| `Translation`, `TranslationProofs` | one architecture through all of these to an inventory | all of these |
| `Toolchain`, `ToolchainProofs` | the two project validators and their results | |
| `MC*` | constants for the runs | the module each is named after |

In several modules an operator introduced by "Slip:" stands before a definition: it is
the definition as a plausible mistake would have it. The `mutants` of `PROJECT.json`
put it in the definition's place and the property it names must then fail.

### Workflow

*State.* `todo` and `next` are the frontier of the superstep; `mode` says whether an
invocation runs, waits at an interrupt, was stopped by an exception, or is done; `state`
is the checkpoint, cut down to the fields routing, ports and provenance depend on.
Artefacts are represented by the workflow they stem from (a stamp) and what routing reads of
them. `consented`, `applied`, `configured`, `ended` are histories.

*Actions.* One per node. `Leave(n, s)` is the engine: it takes n out of the superstep,
stores s, follows the unconditional edge *and* the branch of n on s, and starts the next
superstep once the present one is empty. `Resume` continues an interrupt; `Stop` ends
the invocation with nothing of the running node checkpointed; `Recover` repeats it;
`StartWorkflow` merges `initial_state` into the old checkpoint. `CrashAfterApply` is the
death of the process between the effect of an apply and its checkpoint.

*External.* Node bodies are nondeterministic over what their place in the graph lets
them produce: verdicts, gaps, failures. Nodes upstream of a router that reads
`errors` record a failure there, in the others a failure is an exception. Which routing
function is attached where is fixed by the branch labels.

### Deployment

`plan`, `approval`, `stage`, `completed_stages`, `failed` are the fields of
`DeploymentState`; `project` and `cloud` the two inputs of a plan; `screen` what each
reviewer looks at. `Replan` makes a plan with a new id, `Refresh` another content under
the same id, `Drift` and `Regenerate` change what the next plan says. `Decide` builds
the record from the *screen* and attaches it by copying. `Apply` is enabled by
`may_apply` and makes the cloud what the plan says. The checksum is its preimage: the
fingerprint and the pairs (address, action) of the changes that do something; SHA-256
is taken to be collision free.

### RagLoader

A thread walks through `load_rag` by `pc`: acquire, lookup, the environment, shadowing
one name after another, the path, one import after another, the symbols, and the finally
block step by step. `ImportFails` and `SymbolMissing` are the ways out. `Resolve` is
`importlib.import_module`: the registered module, else the first one on `sys.path`, where
a checkout at the head has what `Files` says and the host's modules come behind it. Of a
checkout the code only knows that it has `app.py`. `HostImport` may happen at any moment: `_lock` does not concern the host. A module
object is told apart by where it came from, the environment it was configured with and
the import it belongs to.

### RagProvider

`phase` is the await a coroutine is at; `queue`, `running` and `posted` are the
executor's queue, its threads, and answers not yet handed over by the event loop.
`Timeout` is `wait_for`: a queued job is cancelled, a running one left to itself.
`Deliver` drops an answer nobody awaits. What a call raises keeps its kind: a
`RAGUnavailableError` of the loader, a `ValueError` of the assembler, a `RAGError` for
everything else. An attempt may be repeated once it has ended.

### Architecture

`working` is the copy an editor holds, `base` the architecture and number of the revision
`succeed` will be called on, `stored` the revisions of all architectures, `fresh` a history:
nothing changed since the last validation. An edit keeps report, gaps and status, as
`model_copy` does; a pasted document carries whatever id, revision number and verdict its
JSON says (`Claims`), and `Restore` takes up an old document to be committed on top of
another revision, perhaps of another architecture. `Validate` merges the reports of all validators; `Commit` is
`ArchitectureRevision.succeed` with its consistency checks.

### Translation

*State.* One document per stage, `NoDocument` until it exists, and `stage`, the last stage
that ended: drawn, sent, assembled, validated, generated, configured, applied, inventoried,
or refused. Each action is the whole call of a stage, since the stages are pure: `Send`
(`map_architecture`), `Translate` (`assemble`, with the model's validator that may refuse
the result), `Receive` (another provider behind the port), `ValidateCloud`,
`GenerateTerraform`, `GenerateAnsible`, `Apply` (external), `GenerateInventory`. What the
RAG answers and what an apply reports are choices.

*Data.* The stages are operators, one per function of the code with control of its own.
A network architecture keeps its nodes with kind, name and services, its interfaces with
addresses, its edges and routing; a node's name matters through its slug, which may
coincide (`Slug` is a constant). A plan keeps, for each node, the words the label
classification reacts to and the configuration entries that are read; for the free text
only whether a kind of gateway is absent, asked for, or declined. Ids are structured
values such as `<<"vpc", 1>>` instead of strings, so two ids are equal when the code's
strings are; that of a subnet holds the slug of its prefix (`PrefixSlug`, a constant), in
which two IPv6 prefixes may meet. The prefix of an address is a number of bits below `AddressBits`; IPv4 and
IPv6 are told apart. A Terraform block keeps its address and the addresses it refers to. An
Ansible project keeps its paths, plays, copied assets and warnings. `StubPlan` is the
answer of `StubRagProvider`.

### Toolchain

*State.* `task[v]` is the call of `validate` under way in validator v, at an await
(`waiting`) or between two tools; `left` are the commands it still runs, `checks` those it has
outcomes of, `shared` says that a process it gave up may have written in its workspace.
`orphans` are the calls with such a process, `result[v]` what the last call returned or
raised, `current` the project the workflow holds.

*Actions.* `Validate` (the refusals before a tool runs, then the first check), `Launch`,
`Skip` (no binary, or the process cannot be created), `Exit`, `Timeout`, `Return`, and
`CleanupFails`, when the deletion of the workspace meets a process that still writes.
`Regenerate` and `OrphanEnds` are the surroundings.

*Data.* The content of a file is the set of the checks that object to it. A tool may always
fail; it passes only if no file objects, or in a shared workspace, where anything may
be found. A fingerprint is the set of files: SHA-256 is taken to be collision free.

## 3. Runs

| Run | Bounds | Shows |
|---|---|---|
| `workflow_delivery` | 1 question, 3 configurations, 2 workflows on the thread, 1 recovery | TypeOK; AppliedOnlyApproved; TranslatedOnlyValidated; PlanProvenance; ConfiguredPlanWasValidated; CompletionIsHonest; ConfiguredHostsExist; WithinRecursionLimit; the refinement ContractSpec; the liveness property ComesToRest |
| `deployment_gate` | 2 reviewers, 2 codes, 1 address, 2 plans | TypeOK; AppliedAsSeen; ViewForgetsNothing |
| `loader_guard` | 2 threads, 2 checkouts, one of them without `config.py`, 3 calls, host owns `config` | TypeOK; NamesRestored; NothingLeaks; RagIsItsOwn; LockIsOfTheLoad; SingleImport |
| `provider_pool` | 2 translations, 1 health check, 2 threads, 2 attempts each | TypeOK; NobodyWaitsForNothing; NoCallForNobody; EveryInvokeEnds |
| `architecture_editing` | 2 editors, 2 architectures, 2 contents, 2 claims, 3 revision numbers, 4 stored, 3 changes | VerdictIsOfAllValidators; StatusAgreesWithGate; HistoryIsAChain |
| `translation` | 29 drawings of up to four nodes, up to 134 plans each, 50 architectures of another provider, addresses of 5 bits | TypeOK; RefusedOnlyForCollisions; SmallestCover; NoPrefixIsLost; AcceptedAddressesAreSound; NoSilentDangling; AssembledIsBuildable; RolesReachTheirHosts; InventoryNeverInvents |
| `toolchain` | 5 projects, 3 sets of installed tools, 2 validations | TypeOK; ValidIsTrueOfTheProject; EveryValidationEnds |
| `workflow_skip`, `workflow_fanout`, `loader_typed`, `provider_hung`, `translation_roles` | as small as the case | the disagreements of section 6 |

*Why the bounds are enough.* Two workflows are what staleness needs: one that leaves
something and one that finds it. One question makes every shape of the clarification
loop (not asked, asked as optional or as required, answered, skipped and kept, skipped and
dropped); more questions only multiply them, since routing looks at emptiness of sets. Two codes and one address give a
plan every kind of change (create, update, delete, none) and let the same content come
back under another id. Two threads race for one checkout; the second checkout is there
so that a module of the wrong one can be told from the right one, and it lacks a module the
host has; the third call finds a cache that was filled and reset. Two coroutines and a health check on two threads
make the pool overflow; two attempts make a late answer. Two
editors and two architectures with room for two commits let both commit from one revision,
one commit on top of the other's, and either commit the other architecture's document;
three numbers let a pasted document carry the right one, a smaller and a larger one. Three
changes are what a stale verdict takes: validate, edit, and look again.

For `translation` the inputs are enumerated by hand, because the pipeline branches on the shape of a
drawing and not on its size. The drawings hold each shape the mapper and the assembler
distinguish: one LAN with its router's address at the bottom of the prefix or elsewhere, two
routed domains with a link (names equal or not), a LAN two routers share, a server
with two NICs, a segment with no router, three segments of one router in every order of
prefix length and version, addresses without prefix, one address on two machines, two IPv6
prefixes of one slug, of which one may be a transport link, an interface with two prefixes. The plans combine
every class of node mapping with every mixture of gateways, or with security rules, or with targets
and tasks, and the double's own. The architectures of another provider have what this
assembler never makes: a NAT without a subnet, VPN, transit and peering, a database, a
balancer with a target that does not exist, roles that require one another in a chain or a
circle, assets whose names collide, a host that names another machine's output or a
database's, a subnet listed twice by a database. With five bits a /2 has
eight addresses, of which the cloud reserves all but three: enough for a machine on a
reserved address, one on a free one, and two that collide.

For `toolchain`, two validations are one of each kind, or two of the same kind with the
project replaced in between, also while tools of the first are still running. The projects
are, for each kind, one to which nothing objects and one to which tools do, and one
that cannot be written to disk.

*Deadlock* is checked for `Deployment`, `Architecture` and `Toolchain`, where somebody can
always do something. `Workflow` ends when its workflows are used up, `RagLoader` and
`RagProvider` when their calls are, and `Translation` with the inventory or a refusal: there
the check is off.

*Symmetry* is used for threads, reviewers, editors and architectures, in runs without
liveness properties.

*Fairness.* `Workflow!FairSpec`: the engine runs what is scheduled; an invocation that
was stopped is repeated as often as the bound allows; a user asked again and again in
the end answers everything that is missing (strong fairness: each time the question may
first be met by a partial answer) and a reviewer in the end decides. The first is
LangGraph's loop, the others are assumptions about people, and without them a workflow
waits for ever by design. `RagProvider!FairSpec`: the event loop runs its coroutines,
callbacks and timers, the pool gives its free threads work, an import ends. There is no
fairness for a call of the external RAG: it may hang, which is why the timeout exists.
`Toolchain!FairSpec`: the event loop resumes a task that is ready and fires its timers;
no tool need ever end.

## 4. Proofs

| Theorem | States | Argument |
|---|---|---|
| `WorkflowProofs!TypeCorrect` | `[]TypeOK` | TypeOK is inductive given that every router returns a label of its branches (`RoutesAreLabels`, `SuccessorsAreNodes`) |
| `WorkflowProofs!ApplyNeedsApproval` | `[]AppliedOnlyApproved` | `ConsentInv`, below |
| `WorkflowProofs!GateIntoTranslation` | `[]TranslatedOnlyValidated` | `PipelineInv`, below |
| `WorkflowProofs!PlanIsOfThisWorkflow` | `[]PlanProvenance` | `PipelineInv` |
| `WorkflowProofs!PlanOfValidatedCode` | `[]ConfiguredPlanWasValidated` | `PipelineInv` |
| `WorkflowProofs!LimitIsNeverReached` | `[]WithinRecursionLimit` | `LimitInv`, below |
| `WorkflowProofs!OnlyRealHosts` | `[]ConfiguredHostsExist` | `SettleInv`, below |
| `WorkflowProofs!CompleteIsDelivered` | `[]CompletionIsHonest` | `SettleInv` |
| `WorkflowProofs!KeepsTheContract` | `Spec => ContractSpec`: every step of the workflow is a step of the delivery contract or none | `NumberInv`, with `ConsentInv`, `PipelineInv` and `SettleInv` |
| `DeploymentProofs!DeploymentTyped` | `[]TypeOK` | inductive with: ids on the plan, the record and the screens are ids handed out |
| `DeploymentProofs!ApplyIsAsSeen` | `[]AppliedAsSeen` | `GateInv`, below |
| `DeploymentProofs!NothingIsForgotten` | `[]ViewForgetsNothing` | `ViewInv`, below |
| `ArchitectureProofs!HistoryHasNoGaps` | `[]HistoryIsAChain` | `ChainInv`, below |
| `ArchitectureProofs!StatusIsTheGate` | `[]StatusAgreesWithGate` | `StatusInv`, below |
| `ArchitectureProofs!VerdictIsComplete` | `[]VerdictIsOfAllValidators` | `StatusInv` |
| `RagLoaderProofs!LoaderTyped` | `[]TypeOK` | `LoaderInv`, below |
| `RagLoaderProofs!LockIsGivenUp` | `[]LockIsOfTheLoad` | `LoaderInv` |
| `RagLoaderProofs!HostIsRestored` | `[]NamesRestored` | `LoaderInv` |
| `RagLoaderProofs!NoLeak` | `[]NothingLeaks` | `LoaderInv` |
| `RagLoaderProofs!CachedIsWhole` | `[]RagIsItsOwn` | `LoaderInv` |
| `RagLoaderProofs!ImportedOnce` | `SingleImport` | `LoaderInv` |
| `RagProviderProofs!PoolTyped` | `[]TypeOK` | `PoolInv`, below |
| `RagProviderProofs!SomebodyIsAtIt` | `[]NobodyWaitsForNothing` | `PoolInv` |
| `RagProviderProofs!NoIdleCall` | `NoCallForNobody` | `PoolInv` |
| `ToolchainProofs!ToolchainTyped` | `[]TypeOK` | inductive with: what a call has done and what it has left are what it began with |
| `ToolchainProofs!ValidResultIsTrue` | `[]ValidIsTrueOfTheProject` | `ValidInv`, below |
| `TranslationProofs!TranslationTypes` | `[]TypeOK` | `TranslationInv`, below |
| `TranslationProofs!OnlyCollisionsRefuse` | `[]RefusedOnlyForCollisions` | `TranslationInv`; unique ids, below |
| `TranslationProofs!NetworksAreTight` | `[]SmallestCover` | `TranslationInv`; prefixes, below |
| `TranslationProofs!PrefixesAreKept` | `[]NoPrefixIsLost` | `TranslationInv`; segments, below |
| `TranslationProofs!AddressesAreSound` | `[]AcceptedAddressesAreSound` | `TranslationInv`; the walk, below |
| `TranslationProofs!ReferencesHold` | `[]NoSilentDangling` | `TranslationInv`; references, below |
| `TranslationProofs!BuildableWhenAssembled` | `[]AssembledIsBuildable` | `TranslationInv`; references |
| `TranslationProofs!RolesAreApplied` | `[]RolesReachTheirHosts` | `PlaybookInv`; the visit, below |
| `TranslationProofs!InventoryIsReported` | `[]InventoryNeverInvents` | `TranslationInv` |

They hold for every value of the constants that satisfies the assumptions named beside
them in their modules, and so for any number of questions, workflows, reviewers, plans,
editors, architectures, projects, validations, threads, checkouts, modules and coroutines,
for every drawing, plan and width of addresses, and for every map of names or of prefixes to
slugs. `RagLoaderAssumption` gives a checkout any of the flat names, or none of them;
`ArchitectureAssumption` lets pasted JSON claim any report, gaps and status.
The assumptions of `Translation` are what the constructors enforce: a drawing has ids of
its own for its nodes, addresses of the width there is, and lists of services with names
(`IsDrawing`); the targets of a plan are a list, its tasks finitely many, and what they and
the declared roles name are names (`IsAnswer`); no answer is the absence of one; what another provider answers is
referentially intact, its machines and their NICs are lists, and it has finitely many roles,
of which no requirement need be met (`IsConfiguration`, `OtherCloudsAssumption`). Which
output a host of it names is any string, as it is for the constructor. `RouterAssumption` says
that a literal is a string, which is so but unknown to the provers.
`LimitIsNeverReached` has a hypothesis of its own: the limit exceeds the longest way
through the graph without an interrupt, which is 19 nodes; the settings say 60.

* `ConsentInv`. AppliedOnlyApproved says nothing of the record the next apply will
  look at. The strengthening adds that a record in the checkpoint whose decision is
  `approved` names a plan in `consented`. It survives crashes and restarts because
  only a decision writes the record, and restarts because `consented` only grows.
* `PipelineInv`. A gate speaks of the node about to run; what it demands was established
  by nodes that ran before. The strengthening gives every node a precondition
  (`Ready`), and says that up to `collect_outputs` the frontier is a single node
  (`Straight`): otherwise a second node could undo what the first relied on. The
  two lemmas on successors are the only place where the edges and routers are expanded.
  An interrupt keeps the invariant because an answer or a decision writes no field that
  `Ready` reads; a restart because it goes back to a node that demands nothing.
* `SettleInv`. CompletionIsHonest speaks of a delivery's end and of what happened many
  nodes before. The strengthening says of each late node what has happened when it is
  scheduled (`Late`, `Settled`), and of the tail, where two branches run side by side, that a
  failure before it has a `fail` node of its own that ends no later than the superstep
  in which the inventory is built (`FailureEndsFirst`). So a workflow that failed never
  ends with `complete` alone.
* `LimitInv`. `Way` is the longest way from a node to an interrupt or the end. It exists
  because every cycle of the graph contains an interrupt; an edge shortens it, so the
  supersteps of an invocation and the way ahead never add up to more than 19.
* `NumberInv`. A workflow makes at most one plan, so that plan numbers stay within the
  number of workflows. Along the edges the phases of the contract follow each other, from
  the tail on the phase stays what it is, and the other invariants give the contract's
  guards (approved, validated, delivered).
* `LoaderInv`. The holder of the lock is the only thread inside. What has to be carried
  through the steps is how far it has come (`Progress`): which names it has displaced, in
  which order, and which of them it has already put back; and that a module of a checkout is
  registered only while the checkout is on the path or its name is still to be put back.
  Host imports come between any two steps. NamesRestored and NothingLeaks are the two ends of
  this; RagIsItsOwn needs that what is at the head of the path stays this checkout during
  its imports, and that all of the names are free when the first of them begins.
* `PoolInv`. A queued job is awaited by its coroutine and queued once; a running job or a
  posted answer belongs to an attempt that was made, and no attempt has more jobs than
  it has come to. A coroutine that waits for nothing would have a job that is none of
  queued, running and posted.
* `GateInv`. AppliedAsSeen relates the plan applied to the one last approved; inductive
  with: an approving record on the deployment is the record of the plan that was on the
  screen when it was given. With `authorises` the id and the checksum of
  the present plan are then those of that plan.
* `ViewInv`. The view is computed from the present stage and from the completed ones, and the
  stage may go back. The strengthening says that a plan, a record or an applied
  plan in the state is matched by a stage that was completed or is the present one.
* `ChainInv`. A commit adds base + 1 with parent base, under the id of the base: that a
  stored revision has the id and the number of every editor's base is what has to be
  carried along (`Based`), whatever the committed document says of itself.
* `StatusInv`. A fresh document has the report merged from the findings of its content,
  and the status the report and the gaps give. The properties follow from the
  definition of the merge alone.
* `ValidInv`. A result is judged after the fact, against the project held *now*. The
  strengthening says of a call under way that each of its checks that passed had nothing to
  object to, as long as its workspace was its own (`CallInv`), and that a timeout is itself a
  failed check, so that a shared workspace can no longer lead to a valid result; and of a
  result, that if it is valid its checks are true of every project with its fingerprint
  (`ResultInv`). Regeneration then needs no argument.

* `TranslationInv`. A property of the pipeline speaks of two documents, made at different
  stages. The strengthening says that each document is what its stage makes of the one
  before (`PlanInv`, `ReportInv`, `ProjectInv`, `InventoryInv`), which exist when
  (`StageInv`), and that an apply reports addresses under the name of the output they were
  declared by (`OutputsInv`). That is inductive at once; the rest of each proof is about
  the operators, for every drawing and plan:
  * *Unique ids*: ids of different kinds of resources differ in their first part, those of
    one kind in the slug of a node or of the prefix; so the ids of all resources are as
    many as the resources, unless two networks, two subnets, or two firewalls or machines
    meet (`Distinguished`). Relationships join ids the same loops have just made
    (`RelationshipsHold`).
  * *Prefixes*: two prefixes are nested or apart (`Nested`), since a power of two divides a
    larger one (`SumOfPowers`, by counting subsets). The widening loop keeps the prefix
    around the first subnet that covers what was looked at, and the longest such
    (`IsCover`); a prefix around any other subnet that covered all would contain the first
    one as well and so be one of those that do not.
  * *Segments*: every first prefix of an interface is a segment once; a segment is transport, or
    in the domain that owns it, and that domain has a network or is reported.
  * *The walk*: an address the walk met twice is reported with the holder it was first met
    on, so a walk without findings has one holder for each address (`NoDuplicates`).
  * *References*: a mapper refers only to addresses in the index; each of these is of a
    block that is emitted, or of a resource whose mapper refused it with a HIGH warning.
    For an assembled architecture no mapper has a reason to refuse (`GatewaysAreQuiet`,
    `NothingIsLost`).
  * *The visit* of `_ordered_roles`. `PlaybookInv` says that a playbook is what was
    generated from the configuration there is. `visit` is a recursive function, of the name,
    of the roles the call is made from and of what is ordered so far; a call from all the
    defined roles visits nothing more, so the number of roles it is not in is a level, and
    the function exists by induction over levels (`VisitExists`). The same induction shows
    what a call returns (`IsOutcome`): it extends what is ordered; all that is required by
    what it adds is ordered or is visited from (`IsKnown`); and what a role requires
    is ahead of it or leads back to it (`IsPlaced`), given that the roles visited from lead
    to the name. That x leads to r is said without paths, as r being in every set that has
    x and what is required by its members (`Leads`). A play keeps the order of the roles it
    keeps (`SelectedInOrder`).

The library's induction theorems take an operator for the property, which the provers
cannot instantiate. `SequenceFacts` states induction about the *set* of numbers that have the
property (`LeastNumber`, `Induction`), and from it what `FlattenSeq`, `Only`, `Distinct`
and `SortedBy` return for every list; `WideningExists` does the same for the fold of
`CoveringSupernet`.

Only model-checked: liveness under fairness (ComesToRest, EveryInvokeEnds, EveryValidationEnds),
which is out of the prover's reach. Every invariant and action property of the runs is proved.

## 5. Not modelled

* The bodies of the workflow nodes, the engine, the executors, the store and the
  external RAG are not in the repository. They enter as nondeterministic steps.
* Texts, layouts, timestamps, hashes other than by equality, logging, telemetry.
* Directory creation of the loader (an `OSError` there), `_git_revision`.
* `destroy` and the configuration port, which nothing implements or calls.
* In the translation: the policy tables of the payload (NAT, ACL, VLAN), `bastion_host_id`,
  prices, tags and the value constraints of single fields; global and group variables by
  value; the text of `.tf` and YAML files, `variables.tf`, the escaping of Terraform
  identifiers, so that two ids that escape to the same identifier are not seen; the text of
  tasks.
* In the toolchain: cancellation of `validate` by its caller; the output the diagnostics are
  parsed from.
* `domain/network/parsing.py`: text to addresses, which are numbers here. The graph queries
  of the topology and the routing plan, which only tests call.
* Settings, other ports, common values: no state and no control of their own.

## 6. Where code and text disagree

Each of these is a run that ends in a counterexample.

* `workflow_skip` *(bug)*: without configuration the graph goes from
  `validate_terraform` to the plan, and no router on that way reads the result, against
  `routing.py:102`.
* `workflow_fanout` *(bug)*: `collect_outputs` has an unconditional edge (`spec.py:179`)
  beside its branches; the configuration runs also on the branches `complete` and
  `fail`.
* `loader_typed` *(bug)*: the warning about a missing optional module passes a reserved
  key to logging and raises `KeyError`, where it should go on.
* `translation_roles` *(bug)*: the play of a group carries the roles of all its hosts
  (`ansible/generator.py:149`), so a host gets roles it does not name
  (`configuration.py:59`).
* `provider_hung`: hung calls keep their threads, and the load of a later translation
  waits for a thread without a timeout.

Seen while modelling and left without a run.

*Workflow, deployment, architecture.* A router lets a record of an earlier plan through to
`terraform_apply`, where only the executor's contract stops it (`LANGGRAPH_WORKFLOW.md:129`,
`routing.py:121`). A gap that was skipped and kept sends the user back to a clarification
with nothing outstanding (`LANGGRAPH_WORKFLOW.md:117`, `routing.py:70`). No approval
survives a re-plan, since every plan has a new id (`deployment/models.py:161` against
`:111-113`, `DEPLOYMENT_FLOW.md:45-46`). The checksum leaves the details of a change
out (`deployment/models.py:118`, `156`), `model_copy` attaches an approval beside a plan it
does not name (`:223`, `244`), and stages that were skipped are shown as complete
(`:259`). A document nobody validated has an empty report and passes the gate
(`architecture/models.py:214` against `:211-212`). Two commits from one revision get the same
number with different content, and `parent_revision` then names either
(`architecture/models.py:393`).

*RAG.* Host code that imports during a load gets the checkout's module (`loader.py:138`).
The knowledge base of the first load serves all later ones while each entry describes its
own (`loader.py:48`, `116`). A checkout that lacks `config.py`, or another module behind
`app.py`, is not refused as incomplete (`loader.py:82-83`): the import goes on to the host's
module of that name (`:99`, `:148`), which becomes part of the cached RAG. RagIsItsOwn says
that this happens for no name the checkout has.

*Mapper and assembler.* Bare addresses, and all but the last address of a version, are
dropped, against "nothing is dropped silently" (`network_mapper.py:12`). Further prefixes of
an interface make no segment and are not reported as unmapped (`cloud_assembler.py:246`,
against "reported, never silently dropped", `cloud/models.py:177-178`); NoPrefixIsLost
speaks of the first ones. Subnet ids are slugs of prefixes (`cloud_assembler.py:384`), in
which IPv6 prefixes such as `fd00::100/120` and `fd00:100::/120` meet: a valid drawing with
both is refused, and if one of them is a transport link its interfaces are put in the
subnet of the other. A LAN two routers
share loses its subnet to `unplaced` hosts; a dual-homed server gets NICs in two VPCs. A
gateway is created when its name occurs anywhere in the plan, also where the plan
declines it, against `cloud_assembler.py:17-18`; peering and transit between the same two
networks give duplicate routes. Nodes mapped to a database or a balancer, and nodes of a
kind without default, produce nothing and are not reported as unmapped. An assembly that
breaks referential integrity raises a `ValueError` and not a `RAGError`: it takes two
routers of one name, two ids of one slug, or two such prefixes. A router's `.1` address is reserved
by AWS, so that a plan that keeps the drawing's addresses does not validate.

*Generators.* `unresolved_role_names` accepts role ids while plays match names, and
`requires` by id goes into the dependencies. `_asset_name` calls its names collision free
(`ansible/generator.py:509`); two that collide are refused as duplicate paths.
A file may notify a handler of a service its role does not have. VPN gateways are indexed
and never emitted. "An explicit output reference on the host wins"
(`inventory/generator.py:99`) holds only where no address was resolved, and a host's
variables may override the address (`:132`). `address_output_ref` is any string
(`configuration.py:67`): a host of another provider gets the value of whatever output it
names, its own machine's or not.

*Toolchain.* With no tool installed a project is valid (`terraform/validator.py:3-5`). A
file below another file leaves `validate` as an `OSError`; so does the deletion of a
workspace in which a tool that timed out still writes, against `validator.py:9`. An `init`
that timed out may still run while `validate` starts.

## 7. What is left

In the order of what it would add:

1. *Identifiers*: escaping of Terraform identifiers as a map that is not injective,
   so that collisions of block addresses are seen.
2. *Domain*: referential integrity of the architecture added to `Architecture`, the
   rules of the routing plan, parsing of addresses.
