# Contract-bound autonomy: a TLA+ verification project

The program is a control plane for autonomous remediation. A language model
proposes a plan for an incident; deterministic code decides, under an
*operational contract*, whether the plan may run, whether a human has to agree,
and what happens when an action fails. These modules model that deterministic
code, TLC checks them on small instances, and TLAPS proves the central
properties for every contract, plan and number of submissions: every safety property
of the runs that hold but two (`RollbackUndoesRelease` and `FlushedOnce`), and the safety
half of their liveness properties.

Paths below are relative to the repository (`src/`).

## 1. Inventory of the system

| Part | State it keeps | Operations | Hard behaviour | What makes it correct |
|------|----------------|------------|----------------|-----------------------|
| Workflow graph: `core/orchestration/{nodes,routing,builder,state}.py` | the LangGraph channels of an incident (contract, plan, verdict, decision, retry counter, histories, outcome, audit trail); histories and audit trail append, the others overwrite | 13 nodes, 6 routers | retry loop fed from three places, channels left over from earlier plans and earlier submissions, exceptions outside try blocks, a pause for a human | only governed plans execute; humans are asked and obeyed; attempts bounded; outcome truthful |
| Execution: `execute_actions`, `core/execution/client.py`, `drivers/` | local results, the infrastructure | call a driver per action, stop at the first failure, compensate | partial failure, crash in the middle of the node | results are a prefix of the plan; compensation in reverse, once each |
| Contracts and adaptation: `core/contracts/` | contract, effective contract | load, resolve rules, narrow limits and permissions | several rules in file order, duplicates in lists, validation skipped by `model_copy` | never gives more than the contract file |
| Guardrails: `core/guardrails/{engine,validators}.py` | none between calls | evaluate a plan: budget, compliance, forbidden, allowed, limits, availability | early returns, accumulated violations, exceptions on untyped parameters, history over several attempts | forbidden always wins; limits hold over the whole incident |
| Risk: `core/guardrails/risk.py` | none | score 0-100, band, approval flag | trust scaling, truncation, order of branches | a critical incident is never automatic |
| Planner, policy, investigation and summary agents: `core/agents/` | none | call a model, parse and normalize | a call fails or answers something unexpected | a failure never counts as a verdict |
| Runner and queue: `core/orchestration/orchestrator.py`, `apps/worker/` | checkpoints, job queue | run, resume, persist | redelivery, crash, timeout, two jobs on one incident | each repetition of a side effect has an answer or a fault of its own, and a fault unless jobs overlap; the database agrees with the graph |
| API: `apps/api/` | none of its own | submit, list and answer approvals, status, event stream | check-then-enqueue, reading a status that is being written | an answered approval is not answered twice |
| Persistence: `core/persistence/` | incident, approval, audit and user rows | upsert, insert, resolve | statement-wise transactions | one pending approval per incident, ledger complete |
| Event bus: `core/events/` | history and subscriber queues per incident | publish, subscribe with replay, close | events between snapshot and subscription, trimming | no event lost or doubled, a terminal event ends the stream |
| Mock infrastructure: `core/execution/tools.py`, `drivers/mock.py` | a simulated cluster per incident: pods, and metrics beside them | restart, scale, roll back, read | metrics kept apart from the pods, an error rate computed from the one before, negative counts, unknown deployments | the counts and the error rate follow the pods |
| Trust, budget, compliance: `core/trust`, `core/budget`, `core/compliance` | counters and ledger in memory | record, score, evaluate | never fed by the workflow | budget never overdrawn, score in [0, 1] |
| Kubernetes driver: `examples/incident_commander/drivers/kubernetes.py` | none of its own; the cluster's deployments and ReplicaSets | restart, scale, roll back | a controller that follows later, refused calls, lost answers, which ReplicaSet is "previous" | a rollback undoes the release |
| Process startup: `apps/worker/context.py`, `apps/api/main.py` | none of its own | create the tables, ingest, seed the graph, first administrator | processes that start together and die half-way, over stores that others read | some process comes up; the stores end complete whoever dies |
| Knowledge index: `core/knowledge/{ingestion,metadata,retriever}.py` | vector store, chunks under the hash of their text | look up, add a batch, retrieve with a filter | a file cut off, texts shared by files, two ingestions at once | a runbook is found under its service |
| Service graph: `core/knowledge/graph.py` | nodes, dependencies, criticalities | wipe, seed statement by statement, blast radius | emptied under its readers, two seedings at once | whole after a seeding; the blast radius is the dependents |
| Memory: `core/memory` | embeddings of past incidents | store, retrieve | numerical, I/O | a missing context is only a fallback |
| Identity: `core/identity`, `routes_auth.py` | users, tokens | register, log in, check a role | check then insert | roles form a ladder |
| Audit formatting, observability, LLM factory, configuration, UI, examples | none the workflow reads | | | |

**How they interact.** The API submits an incident or an approver's answer to the
queue; a job calls `run_workflow`, which streams the graph. The graph calls the
agents, the resolver, the engine and the risk evaluator as plain functions, and
the client for each action. LangGraph stores a checkpoint after each node. When
the graph stops or pauses, the runner writes the incident row, the pending
approval or the audit rows, and publishes events that the API streams. Before any
of this each API and worker process sets up the stores it shares with the others:
tables, knowledge index, dependency graph, and (the API) the first administrator.

`PROJECT.json` lists each part, what models it, and every hazard at its line.

## 2. Modules

| Module | Models | State and actions |
|--------|--------|-------------------|
| `Contracts` | `enums.py`, `models.py`, `contracts.py`, `adaptive.py`, `normalize_plan` | operators: a contract's mutable `scope` and its fixed fields, rules, `ApplyMutation`, `Effective` (a recursive function over the rules) |
| `AdaptiveContract` | the resolver's loop | `scope`, `next`; `ApplyRule`, `SkipRule`, one rule per step |
| `AdaptiveGuardrails` | the resolver with the guardrails on top | the comparison of verdicts before and after adaptation |
| `Guardrails` | `validators.py` and the engine's verdict | operators: the violations of an action and of a plan, as sets of failed checks |
| `GuardrailEngine` | `GuardrailEngine.evaluate` as a loop | `phase`, `cursor`, `violations`, `approval_required`; pre-checks, one action per step, exception, return |
| `Trust` | `core/trust` | operators on a scorecard: `OutcomeRecorded`, `RejectionRecorded`, `TrustScore` |
| `Risk` | `RiskEvaluator.evaluate` | operators in integer arithmetic |
| `Assessment` | the evaluator and a planner's scorecard between two calls | `plan`, `severity`, `checkout`, `card`; each step makes the assessment worse, or records an outcome or a rejection |
| `Execution` | the body of `execute_actions` | `direction`, `cursor`, `results`, `compensations`; one driver call per step |
| `Kubernetes` | the driver of `examples/incident_commander` | operators on a deployment with its template, ReplicaSets and revisions: `Patched`; `Revised` and `Reconciled` are the external controller |
| `Infrastructure` | the simulated cluster and the mock driver | operators on a deployment: `Healed`, `Resized`, `Recalculated`; `Succeeds` is a call's answer, `Served` the deployment after it |
| `ClusterExecution` | the node over a driver, for any plans and deployments, with the saga's and the clusters' properties | `Execution` with `cluster`, `targets` and the chosen `backend` (simulated, Kubernetes, any other); one call of the client per step, and the controller at any time |
| `Workflow` | nodes, routers, topology, and the runner's three inputs | a variable per channel and `pc`; one action per node |
| `Governance` | nothing in the code: the promise | `stage`, `sensitive`, `mandate`, `attempts`, `effects` |
| `WorkflowGovernance` | | the refinement mapping from `Workflow` to `Governance` |
| `Runner` | the requests, the queue, `run_workflow`, `_persist_terminal`, `_emit`, the incident, approval and audit rows, the status request | `queue`, `notice` (the last event that ends or pauses a stream), and per worker `task`, `step`, `mem`, `unflushed`; ghosts for the faults and for jobs that overlapped; one action per statement that awaits the database, the bus or the graph; `Shown` is the answer to a status request |
| `EventBus` | `core/events/` and the loop of `stream_incident_events` | `backend`, `log`, and per reader `phase`, `pending`, `last_id`; publish, trim, expire, subscribe, read, close, restart |
| `KnowledgeIndex` | `ingestion.py`, `metadata.py`, the filter of `retriever.py` | operators on the store: `Found`, `Added`, `BatchRefused`, `Retrievable` |
| `ServiceGraph` | `graph.py` | operators on the graph: `AfterStatement`, `ReachedBy` (a recursive function over the length of the path), `BlastRadius` |
| `Startup` | `build_context`, the API's lifespan, `bootstrap_admin`, `create_user` | `tables`, `store`, `graph`, `users`, and per process `phase`, `at`, `known`; one action per call of a store, a crash and a failing call at each |
| `MC*` | | constants and, for what TLC alone checks, properties |
| `PolicyProofs` | | what the operators of `Contracts`, `Guardrails`, `Risk` and `Trust` return, for every contract, plan and scorecard; the proofs about the workflow, the resolver and the execution use it |
| `GuardrailsProofs` | | theorems about `GuardrailEngine` and `Assessment` |
| the other `*Proofs` | | theorems about the module they are named after (`ExecutionProofs`: `Execution` and `ClusterExecution`) |

**Correspondence and abstractions.**

- A node is one atomic step, as the checkpointer makes it: its updates are applied
  when it returns. `execute_actions` is the exception, because its calls reach the
  infrastructure one by one before the node returns; its locals are variables.
- `SubmitIncident` is a job with a new input. It may come while the graph is idle,
  ended, failed or paused for a human, and leaves every channel as it was:
  LangGraph starts at the first node on the checkpointed state, and only
  `ingest_incident` resets anything, the retry counter.
- What a model answers is nondeterministic: any plan of `Plans` or a failure for
  the planner, pass, fail or an exception for the policy agent. A driver call
  succeeds or fails nondeterministically in `Workflow` and on the `other` backend of
  `ClusterExecution`; on the `mock` backend the cluster decides.
- On the `kubernetes` backend the driver patches a deployment and a controller, which
  is not part of the program, gives the template the newest revision at any later time;
  a call may be refused, or change the cluster and lose its answer. A template is its
  image and its restart annotation, which is the time of the call and so new each time.
  A rollback patches with the old template's `to_dict()` (`kubernetes.py:166`), whose
  keys are Python's and not the API's: it is modelled as what the driver means, the old
  template, and what a real server makes of it is not.
- The client is looked up by incident, so no other incident touches the cluster; an
  incident's client is never released (`release_mcp_client` has no caller), and a
  worker that restarts begins with a fresh cluster, which is not modelled. Of the
  metrics, the latency and the request rate, which no operation changes, are left out.
  The error rate is in hundredths of a percent and computed as in the code from the one
  before; a tie is rounded up, where Python's floats may round it down.
- `allowed_actions` is a bag, because `list.remove` takes away one occurrence and
  the file may list an action twice.
- Texts are reduced to what is decided on: a violation message to the check that
  wrote it, an audit event to its type and outcome, an action's name to its type
  and whether blanks surround it (`padded`: the guardrails trim the name, the risk
  evaluator does not). `typed = FALSE` stands for a parameter that is no number.
- Exceptions that leave a node end the job (`pc = "raised"`): the contract built
  again by `plan_remediation`, a validator on an untyped parameter, the policy
  agent's call, a driver that cannot be made before the first action
  (`RaiseWithoutDriver`, `nodes.py:619`), metrics that cannot be read after the last
  (`RaiseInMetrics`, `nodes.py:708`). In `Governance` such a job abandons its attempt.
- A plan has an action at least (`core/models.py:49`). Of the audit trail `Workflow`
  keeps the newest five events (`TrailKept`), the longest chain that an execution is
  shown to rest on.
- `performed`, `restarted` and `batches` are ghosts: what the infrastructure saw,
  and executions per submission. Nothing reads them but properties.
- `trust` is the neutral score in `Workflow`, as in the code, where each node
  builds a `TrustManager` of its own; `Assessment` lets the planner's scorecard grow
  under the assessment. Scores are in sixtieths, exact up to six outcomes.
- `Runner` sees the graph from outside, in five stages with a checkpoint after each
  (plan, ask, execute, assess, finalize): what `Workflow` says of the nodes in
  between is not repeated. A plan is named by its rank, so that its side effects can
  be counted and its approval traced. A job with a new incident starts over on the
  saved channels; a job with a decision continues where the last checkpoint is, and
  its decision counts only if that is the approval. The trail has two events, the
  approver's and the end.
- Two jobs of one incident may be at work at once: each runs the graph on the thread it
  loaded and saves over what the other has saved. `overlapped` records that it happened.
- A worker that dies is an action at every step of a job; the queue delivers the job
  again, ahead of or behind the jobs that wait. A job that is timed out is dropped:
  `CancelledError` is no `Exception`, so nothing is written for it. An audit row that
  cannot be inserted is skipped (`LoseOne`, `orchestrator.py:136`). The queue gives a job
  up at its fifth delivery, which the bound on faults does not reach. The mode without a
  queue is not modelled, nor are the other failures of the database.
- Of the events only those that pause or end a stream are kept, and of those the last
  one (`notice`): the runner publishes it before or after the row it goes with, as a
  step of its own. `Shown` is what the status request answers in a state.
- `EventBus` knows an event by its rank and by whether it is terminal. The backend is
  chosen in the initial state, as at startup; the two share the reader's loop.
  Redis trims the stream when it suits it, to no less than its limit. Subscriptions
  without replay have no caller and are left out.
- In `Startup` all processes share one knowledge index, one graph and one database.
  The compose files give each container an index of its own: the instance with one
  process. Each statement of the seeding is a transaction, as in the code, and each file
  is looked up and added in two calls. What the embedding ranks first is left out: what
  `Retrievable` gives is what the filter leaves to choose among. A failing call is
  handled where the code does: an ingestion or a graph that fails is left out, tables or
  an administrator that cannot be looked up or created keep the process down, which is
  what a crash at that call does (`Crash`). A look-up of a file that repeats a text is
  refused by the store and finds nothing (`Found`). The checkpointer's tables are created
  "if not exists", with a race of their own in the row of the migrations; they are not
  modelled.
- The budget and compliance pre-checks are optional arguments that the nodes do
  not pass; `GuardrailEngine` models them, `Workflow` calls the engine as the node
  does.

## 3. Runs

| Run | Question | States | Bounds |
|-----|----------|--------|--------|
| `adaptive` | can rules give more than the file? | 6 136 | every sequence of up to 3 of 7 rules; 4 severities; actions at and past each limit |
| `guardrail_engine` | does the loop compute the verdict, do its early returns hold? | 18 984 | every plan of 1 or 2 of 10 actions, two contracts, three measurements, with and without pre-checks |
| `execution` | is a failed plan undone properly, do the metrics follow the pods, does a rollback undo the release? | 124 153 | every plan of up to 3 of 7 actions, a degraded deployment and a missing one, two compensating actions; on Kubernetes and on the other backend every call failing or not, on Kubernetes the controller at any time |
| `risk` | can an assessment or a scorecard get worse and the risk lower? | 435 200 | plans of up to 4 of 4 actions, all severities, scorecards of up to 3 outcomes and 7 rejections |
| `workflow` | an incident submitted and submitted again; `Governance` implemented | 52 183 | three contracts (one that no plan can satisfy), two incidents, three plans (one untyped and one with a padded name), up to 2 retries |
| `runner` | do rows, events and the status request agree with the graph, what repeats a side effect, does the queue run dry? | 1 147 081 | two workers whose jobs may overlap, two plans, one outcome; of two submissions, two answers and one fault (a crash, a timeout or a failed insert, at any step) any three (`MaxInputs`) |
| `events` | is an event lost, doubled or reordered, does a stream end? | 49 768 | two readers, four events, a history and a stream of two, reads of two |
| `startup` | do processes that start together, and die, leave the stores whole, and does one come up? | 130 500 | two API processes and a worker of which any two start or one starts twice, up to two faults at any call, three files, a topology of full depth, two accounts |

Why the bounds are enough: two rules on one limit and a third between them are the most the
resolver's `min(override, base)` can be sensitive to; the engine's loop carries only a set
and a flag from one action to the next, so two actions show each interaction; three actions
give the saga a success to undo on both sides of one with nothing to undo; seven rejections
exceed the cap of the penalty; three pods, of which one is healthy, tell a restart of one
from a restart of all; two retries are an attempt before and one after any other, and
`WorkflowProofs` covers any number; a second submission shows every stale channel. Two jobs
are what it takes for one to overtake or overlap another, a third input for a
submission between two answers or a fault beside two jobs, and two plans for a decision to
meet a plan it was not given for; one fault at every step shows each half-done write. The other outcomes differ in
their name only, and DENIED comes from the decision. `RunnerProofs` covers any number of all
of these. Two starts are what a race takes, or a death and what it leaves to the next start,
and two faults let both go wrong; `SomeoneStarts` and `RestartSucceeds` count the crashes
from the moment a process is on its way, so that they say something of starts with no fault,
with one and with two, the race for the tables and the one for the administrator among them.
`StartupProofs` covers any number of each. The three files share a text within a service,
share one across services and repeat one in themselves; the chain of four dependencies is as
deep as the query. Four events exceed the history and a read by two each; readers do not see
each other, so two are one more than needed. The constants are drawn from the sample
contract `knowledge/contracts/inventory-service-contract.json`.

Runs that end in a violation state what a comment or a document says and the code
does not do:

| Run | Said | Done |
|-----|------|------|
| `no_postconditions` | `nodes.py:703` "No postconditions defined — treating as success" | the router takes the empty list for a failure: the plan is made and executed again until the retries are spent |
| `stale_outcome` | `docs/USE-CASE.md:139` "If the postconditions fail, the incident is **not** marked resolved" | `finalize` keeps the status that an earlier run of the same incident left (`nodes.py:802`): a second run whose postconditions fail is recorded SUCCESS |
| `guardrail_restarts` | `validators.py:75` "Total restarts (historical + proposed)" | the plan's other restarts are not counted |
| `runner_idempotent` | `docs/03-domain-model.md:29` "resolution is idempotent" | a job carries the decision and not the plan it was given for: the second of two answers to one request approves the plan of the retry, unseen |

More divergences were met while modelling and follow from the definitions alone:

- ten jobs run at a time and nothing keeps two of one incident apart (`worker.py:69`):
  the second of two answers may resume the graph at `execute_actions` while the first is
  in it, and the plan is carried out twice without any fault; the rows of one job come
  between those of the other, so that two approvals may be pending, the incident's row
  may say something else than the graph, and the ledger may mix two trails. What is left
  then is the first part of `RepeatsAreCounted`, `PausedIsShown` and `ClosedIsRecorded`;
- "flush the audit trail exactly once" (`orchestrator.py:129`): the trail is flushed as a
  whole each time a job finds the graph ended, so after a redelivery, a second submission,
  an answer that comes when the graph has ended, or with two jobs at a time, its first
  events are in the ledger twice. `FlushedOnce` is what holds;
- an audit event that cannot be inserted is logged and skipped (`orchestrator.py:136`): the
  incident is closed and its ledger has a gap;
- "one bad rule can't block remediation" (`nodes.py:184`): an override out of range passes
  `model_copy`, and every planning step then raises (`nodes.py:271`);
- the decision of an earlier run stays in its channel too: a resubmitted run that needs
  no human and ends after a REJECTED one is recorded DENIED although it executed;
- a paused incident that is submitted again and ends without a second pause keeps
  its pending approval: only a new pause supersedes it (`orchestrator.py:101`);
- after a resubmission the status request still reports how the first run ended,
  while the second runs (`routes_incidents.py:72`), and a reader of the event stream
  is stopped by the first run's terminal event (`routes_incidents.py:150`);
- the terminal event is published before the final status is written
  (`orchestrator.py:80`, 131), so its reader may read the old status; and a worker that
  dies between the last checkpoint and the event never publishes it: the job that is
  delivered again writes the rows, and the streams stay open;
- "All passed → success" (`routing.py:81`): `finalize` looks at the history of all
  attempts, and after one failed attempt the run is FAILED for good;
- compensation is "derived deterministically during normalization" (`models.py:41`):
  normalization leaves it empty, so nothing is ever compensated. `Execution` checks
  the saga for plans that carry compensations;
- "each one that matches tightens" (`docs/ADOPTION.md:165`): a later rule may raise a
  limit an earlier one lowered, up to the base (`NeverElevates` is what holds);
- "penalized by guardrail rejections" (`core/trust/models.py:19`): a planner of whom
  nothing but rejections is recorded keeps the neutral score;
- "whenever the pod list changes" and "Error rate drops proportionally as pods become
  healthy" (`tools.py:62`, 74): the rate of the call before is scaled again on every call,
  so a restart of no pod and a scaling to the size it has lower it too, while a pod is
  healthy; and a rollback sets 0.3, which may be more than before (`tools.py:232`).
  `MetricsFollowPods` is what holds;
- an escalated run under a contract with fewer than three retries is recorded FAILED
  (`nodes.py:815`, against `docs/03-domain-model.md:57`);
- a finalized incident can be submitted, executed and finalized again
  (`orchestrator.py:155`, against `docs/03-domain-model.md:20`);
- a plan of the CRITICAL band runs on an approval (`routing.py:61`, against
  `risk.py:10`);
- past incidents get the service "unknown" (`metadata.py`), so the filter by service never
  returns them, against `docs/ADOPTION.md:141`; the environment is always "production",
  so an incident of staging retrieves nothing;
- a file that repeats a text is refused as a whole (one batch may not name an id twice);
  the chunks of a file that has changed stay beside the new ones;
- "everything that (transitively) DEPENDS_ON it" (`graph.py`): the query follows four
  dependencies, no more;
- every start of any process empties the graph under those that answer from it, and a
  process that dies or fails meanwhile leaves it so until the next start;
- processes that start together on an empty database race for `create_all`, and the
  loser does not start; two requests for one account are answered 500, not 409;
- the "previous" ReplicaSet of the Kubernetes driver is the last but one, whichever
  revision the action names: after a restart that is the same image, and a second
  rollback brings the bad release back; a rollback before the controller has numbered the
  release goes back one too far, so that `RollbackUndoesRelease` asks for a deployment that
  was settled and is rolled back once; the count of a restart is not used; a lost answer
  counts as a failure and is not undone; and postconditions are read before the rollout is
  over;
- a rule may forbid an action and leave it on the allowlist (`adaptive.py:119`,
  against `docs/03-domain-model.md:10`) - harmless, as `ForbiddenAlwaysWins` shows.

**Fairness.** In `Workflow` only `WF_vars(NodeStep)` (in `FairSpec`): a job that runs goes
on to its next node, because every node is an awaited call with a client-side timeout and
the graph runs until no edge is left. In `Runner` weak fairness of each worker's steps: a
live worker polls the queue and runs what it takes, and crashes and timeouts are finitely
many. In `Startup` weak fairness of each started process's next call; nobody has to start
one. In `EventBus` weak fairness of a connected reader's next read and of the `finally`
clause after a terminal event. Nobody is assumed to submit, to answer an approval, to
publish, to subscribe or to leave: a paused run counts as settled. `CHECK_DEADLOCK FALSE` is
set everywhere, since each of these programs ends: a loop returns, an incident is finalized
and nobody need submit it again, all events the bound allows are published.

Each property was also checked against a plausible bug in the code (the
definitions commented "Mutant"), under which TLC finds it violated.

## 4. Proofs

All theorems hold for every value of the constants. The assumptions are the named
`ASSUME`s of `Workflow`, `GuardrailEngine`, `AdaptiveContract`, `AdaptiveGuardrails`,
`ClusterExecution`, `Assessment`, `Runner`, `EventBus` and `Startup` with its parts:
contracts, plans, incidents and requests are well formed, limits in a contract file passed
validation, workers are finitely many, `Unset` is no number and no severity. Two theorems
rest on one more:

- `WorkflowImplementsGovernance` rests on `AttemptLimitBounds` of `WorkflowGovernance`: the
  limit that `Governance` promises is no less than any file's `max_plan_retries`;
- `BlastRadiusStaysHonest` assumes `WithinHops`: no service depends on another only over
  more dependencies than the query follows. The longest chain of the topology in the
  code, of the sample `knowledge/topology.json` and of the run's topology is exactly of that
  length; a longer one makes the property false, as said above.

The arguments, by module:

- **`PolicyProofs`.** `InductionBySet` is induction on the natural numbers with a set in the
  place of the predicate, from the well-foundedness of `<`: with it what the recursive
  functions of the model compute is proved for plans and rule lists of any length.
  `ScopeAfterUnfolds` uses it to show that the recursion over the rules has the solution that
  its definition says. From it, `EffectiveWithinFile` (the effective contract is the file's
  but for a scope within the file's) and `PassesUnderFile` (what passes under the effective
  contract passes under the file). `CriticalIncidentNeedsHuman` and `WorseIsRiskier` bound and
  compare the points and the scaled, truncated score; `TrustFollowsOutcomes` compares
  quotients (`DivGalois`), the cap of the penalty and the neutral score of an empty card.
- **`WorkflowProofs`.** `TypeInv` (types, and the locals of `execute_actions` fresh
  outside it, the cursor within the plan while it runs) with `ContractInHand` (from
  planning on a contract is loaded) is inductive; the other invariants are proved
  relative to it, one lemma per step:
  - `WorkflowGoverned`: `ExecutionGoverned` only speaks of `execute_actions`;
    `Governed` says the same at the nodes between the guardrails and the execution,
    where plan, contract, history and metrics must not change. With `PassesUnderFile`
    it gives `WorkflowWithinFile`: what is executed passes under the file as written.
  - `WorkflowAttempts`: a counter of executions cannot be bounded by a counter of
    retries alone; `Attempts` relates the two at each stage: `batches <= retry_count`
    while planning, `<= retry_count + 1` from the execution until the retry is counted.
  - `WorkflowLeavesEvidence`: `Evidence` says for each stage how many of the events of
    the chain are at the end of the trail.
  - `WorkflowAsksHuman`: `Gated` says that the guardrails' approval flag survives until
    the risk node merges it, and that the normalized plan is as long as the proposed
    one. It uses `CriticalIncidentNeedsHuman`.
  - `WorkflowHeedsVeto`: `Vetoed` says that a rejection is the newest event of the trail
    only between the approver's answer and `finalize`, which follows at once and calls
    nothing; that no other step records such an event is `OnlyHumanRejects`.
  - `WorkflowOutcome`: `FirstRun` says what each stage of the first submission has left in
    the channels that `finalize` reads, with a contract and without one.
  - `WorkflowKeepsBudget`: `Budget` says that no restart escapes what the guardrails will
    count: the calls of a running node are in its results, those of earlier attempts in the
    history, and a plan has one restart, of one pod (the hypothesis of `RestartBudget`; for
    other plans the run `guardrail_restarts` shows the limit broken).
  - `WorkflowImplementsGovernance`: every step of `Workflow`, under `Governed`, `Attempts` and
    `Gated`, is a step of `Governance` or a stutter. The driver's calls are its effects, an
    approval its mandate, and `Attempts` is what leaves an attempt for each mandate.
- **`ExecutionProofs`.** Neither property of the saga is inductive, as they say nothing of
  the loop's place on the plan. `Loop` does: going forward the results are those of the
  mutating actions before the cursor, all of them successes; going back, what was
  compensated followed by what is still to be, reversed, is the whole debt (`BackFrom`).
  `NamedUnfolds` shows that the recursion over the plan has a solution. `Consistent` (a
  simulated deployment is as nobody created it, or its counts are those of its pods and
  its error rate is in range, and low where all are healthy) gives `ClusterMeasured`: it
  is kept because the unhealthy share of a rate is no more than the rate, and nothing
  where no pod is unhealthy (`ShareTyped`).
  `ExecutionCalls` bounds what the infrastructure is asked: `CallsBehind` relates the
  calls made to the place on the plan, one for each action behind it going forward, and one
  more for each that the way back has left.
- **`GuardrailsProofs`**: the loop invariant (violations and flag are those of
  the actions before the cursor, none of which raises) gives `TypeOK`,
  `LoopComputesVerdict`, `ForbiddenAlwaysWins` and `PreChecksAreFinal`. `AssessmentAsks` and
  `AssessmentGrows` are the properties of the run `risk` for plans of any length over any
  actions, any contract and any scorecard: the steps of an assessment, put under
  `WorseIsRiskier`, `TrustFollowsOutcomes` and `CriticalIncidentNeedsHuman`.
- **`AdaptiveContractProofs`**: types, `NeverElevates`, `PermissionsOnlyShrink`, that
  what the guardrails approve under the effective contract they approve under the
  contract file (`AdaptationOnlyRestricts`), and that the loop computes `Effective`
  (`LoopComputesEffective`: the scope is always that after the rules before `next`).
- **`EventBusProofs`.** `LogRanks` (what the bus has is the newest ranks without a gap)
  is what makes the rest inductive: an open in-memory subscription holds - was sent, or
  has queued - exactly the newest ranks too, and at least as many (`Newly`), so it has
  all that the history has; a Redis one holds nothing beyond the last entry it has read
  and every entry up to it (`UpToLast`). `ReadHeld` shows that a batch of any size keeps
  this, `MovedHead` that handing out an event does not change what is held.
- **`StartupProofs`.** `GraphStaysWhole` needs, for each process at its k-th statement,
  what the graph has for certain: all statements before k if it emptied the graph last.
  `AccountsStaySound` needs who may be between the look-up and the insert, and that
  an API that is up has passed them. `RunbooksStayFound` needs that what a look-up has
  found is still stored when the rest is added, that a process without a fault has left
  every text of the files before its place in the store, and that a text is stored under
  a file that has it. For `BlastRadiusStaysHonest` the query's unfolding over the hops
  (`ImpactedUnfolds`) is monotone in the edges, stays within every closed set, and under
  `WithinHops` is closed itself: so it is the least one, `Dependents`.
  `RacesLeaveSomeone` says that the races alone never leave everybody down: as long as
  nobody died, some process that was started is not down. Whoever created the tables goes
  on beyond them, and whoever inserted the administrator is up (`RaceInv`).
- **`RunnerProofs`.** No theorem has a hypothesis on how jobs interleave. Each of the
  three properties has a part for every behaviour and a stricter one for those in which no
  two jobs have overlapped yet (`~overlapped`, a ghost that `Take` sets); they are proved
  apart. `TypeInv` adds to the types that a thread about to be shown or executed has a
  plan, and `Employed` that a busy worker has a job.
  - However jobs overlap, a plan is carried out at most `1 + answers + crashes` times
    (`RunnerAnswers`), so that a submission or a timeout never repeats one. An effect
    cannot be charged to a plan in advance, because a job that resumes executes whatever
    plan it finds waiting. So the invariant counts *licences*, the jobs with an answer in
    the queue or at work: an answer issues one, a crash may put one back (`Issued`), and of
    each plan the effects, the licences in the queue and the workers that may still carry
    it out stay within the bound together (`Spent`); a plan not made yet has none (`Known`).
  - Unless they did, `RepeatInv` says that the graph runs on the thread that is saved
    (`InStep`), that a plan not made yet has no effects (`Fresh`), and that a plan still to
    be carried out has none but those that faults account for (`Owed`): the step that calls
    the driver spends what the step that crashes pays back (`RunnerRepeatsAlone`).
  - `PausedIsShown` and `ClosedIsRecorded` only speak of moments when nothing runs. However
    jobs overlap, the last of them to look at the thread sees how it stands: until then
    something is `Stirring` (a job waits, or will save the thread or read it), and from then
    on it has a row to write (`Asked`), the trail to insert (`Inserted`) or the status to
    set (`InProgress`). Unless they did, `WriteInv` says of each statement of a job what the
    thread and the rows before it are (`Writing`), what the last event is once the end is
    published (`Announced`), and what a finished job leaves (`Rest`).

**Towards the liveness properties.** Liveness under fairness is out of the prover's reach, but
what it rests on is not: that no step leads away from the goal. For each of these there is a
variant in a well-founded order, and the theorem says that the steps which are assumed fair
bring it down, and that no other step, of another process or a fault, sets it back. With the
fairness of section 3 that is the liveness property; that last inference is left to TLC.

| Theorem | Safety half of | Variant |
|---------|----------------|---------|
| `WorkflowGetsNearer` | `Settles` | stages of the intake, then retries, then stages of the attempt, then `Remaining`, in lexicographic order. Every step of a run brings it down: only a submission raises it |
| `RunnerGetsNearer` | `Drains` | for each worker: what requests and faults may still do and the jobs that wait (a request or a death queues one job and spends the allowance of two, a lost row spends it and queues none), then plans to come, then steps of `run_workflow`, then events to insert. A worker's step brings its own down, and nobody's step raises it, with any number of workers |
| `StartGetsNearer` | `SomeoneStarts` | phases to go, then files or statements to go; a failing call brings it down too |
| `RacesLeaveSomeone` | `SomeoneStarts` | without a crash somebody is always left; with `StartGetsNearer` it comes up |
| `RestartStaysAssured` | `RestartSucceeds` | a process on a database that was set up before stays on its way unless it dies; with `StartGetsNearer` it comes up |
| `StreamGetsNearer` | `StreamEnds` | the ranks between the last event sent and the one that is ahead, for each event; it stays ahead until it was sent, unless the reader leaves or the stream drops it unread |

For the last one two facts beside the invariant are needed: that neighbours in order are all
in order (`EarlierIsLess`, by the same induction with a set as in `PolicyProofs`), and
that a read leaves nothing between what it returned and what it will return, which is
`NoneSkipped` in the state after.

Only model-checked are the liveness properties as such (`Settles`, `Drains`,
`StreamEnds`, `SomeoneStarts`, `RestartSucceeds`), as fairness and ENABLED are out of the
prover's reach, and two safety properties, `RollbackUndoesRelease` and `FlushedOnce`.
`Governance` states no fairness, so the refinement says nothing of it.

## 5. Plan

Done, in this order: `Contracts`, `Guardrails`, `Risk` with `Trust`, `Execution`, `Workflow`
with `Governance`, `Runner` with its events, `EventBus`, `Infrastructure` and `Kubernetes`
under `Execution`, `Startup` with `KnowledgeIndex` and `ServiceGraph`, and the proofs
above: the safety properties of these but for the two named, the refinement of `Governance`,
and the safety halves of the liveness properties. Next, in
order of importance:

1. **The promise of an approval** (one decision, one effect) as a specification that
   `Runner` implements up to the divergences above; a job without a queue.
2. **The cluster in the loop**: the postconditions of `Workflow` read from `Infrastructure`
   over several attempts, the registry of clients with two incidents, and a worker that
   restarts with a fresh cluster between the execution and the postconditions.
3. **`Budget`**: the ledger under the engine's pre-check, which nothing calls yet.

Not modelled, and not planned: the texts of prompts and answers, embedding and
ranking of knowledge, password hashing and token signing, tracing, configuration,
the user interface, and the example domains - library calls, I/O or presentation
without a protocol of their own.
