# Formal models of vibe-thinker

TLA+ specifications of the parts of this repository in which several activities
share state, and of the loops that decide what may be called verified: the job
queue, the federation and its nodes, the sandbox containers with the gateway and the
proxy of their traffic, the stores an installation keeps in files, the orchestrator with
its code loop, claim-level reasoning and model back ends, and the web application.  TLC
checks them on small instances; TLAPS proves most of their safety properties for every
instance: those of the job queue with its refinement, of both coordinators, the warm pool,
the egress path, the stores, answering and the web application.

Run from this directory, for example: `tlc -config JobQueue.cfg MCJobQueue.tla`,
`tlapm JobQueueProofs.tla`.

## 1. The system

A query enters through the command line (`rfsn_cli.py`), the web application
(`web/app.py`) or the federation, becomes a job of a queue and is answered by the
orchestrator (`hybrid_orchestrator.py`), which routes it to a solver, a code
specialist whose candidates run in a sandbox, or claim-level reasoning
(`vibe_clr_async.py`), looks up and feeds a result cache and a trajectory store,
and records what happened in an audit log.

| Component | State it keeps | Operations | Interacts with | What is hard | What makes it correct |
|---|---|---|---|---|---|
| Job queue `rfsn_job_queue.py` | pending list, jobs, events, tasks, persistence file | submit, start, stop, cancel, wait_for, get, dispatcher, run of a job | audit log, file, callbacks | cancellation between any two awaits, crash at any point, restart into a non-empty memory | accepted jobs finish once and survive a crash; a waiter wakes with a finished job; slots are not exceeded; stop() drains |
| Coordinator in memory `federation_server.py` | job records, heartbeat times | /submit, /claim, /complete, /heartbeat, reaper | workers over HTTP | lost answers, late reports, timers, restart | zombies are found, live claims kept, results final |
| Coordinator over Redis `federation_server.py` | one hash per job, one sorted set, set of ids | the same | Redis, other coordinators | commands of several coordinators interleave | hash and set agree; one run per job |
| Federated worker `federated_queue.py` | local queue, heartbeat task per job | claim loop, heartbeat loop, report with retries over several URLs | coordinator, job queue | slow posts, failing URLs, cancellation at the job timeout | beats while it runs, reports once |
| Warm pool `sandbox/warm_pool_executor.py` | list of containers, semaphores, round-robin index | start, execute, recycle, cleanup | Docker, code loop | recycling while others queue, failing commands, two starts, cancelled calls | one candidate per container; every call returns |
| Trajectory store `persistent_cache.py`, synthesis in `hybrid_orchestrator.py` | entries, embeddings, file, vector mirror | store, retrieve, find_clusters, remove, store_synthesized, load | generalist model, verifiers | positions kept across awaits, eviction | nothing verified is lost by compressing it |
| Result cache `persistent_cache.py`, `vector_store.py`, `agentdb_migration.py` | entries, file, mirror | lookup, insert, evict, back-fill, verify recall | CLR, orchestrator | mirror and list drift apart | only trustworthy results are served |
| Code loop `hybrid_orchestrator.py` | attempt, candidates, tests | generate tests, verify candidates, mutation check, repair | sandboxes, verifiers | failing and vacuous tests, fallback | an answer called verified was verified by non-vacuous tests |
| Adaptive CLR `vibe_clr_async.py` | trajectories, budget, policy | three phases, scoring, verifier | queue load, verifiers | partial failures, refutation | budget kept; unverified scores capped |
| Audit log `bitemporal_log.py` | chained, signed records | record, verify_chain, correct, history, state_as_of | job queue, signers | torn write, two writers, equal times | the chain detects change; views of the past agree |
| Docker sandbox `sandbox/docker_executor.py` | gateway network and container | execute, start and stop of the gateway, cleanup | Docker, SNI proxy | concurrent set-ups, failures, cancellation | no egress except through a running gateway, which is kept while needed |
| Allow-list `sandbox/network_allowlist.py`, `sandbox/envoy_sidecar.py` | the rules | match a host and a port, generate Envoy's configuration | sandbox, proxy | wildcards, ports, literal addresses | a list is enforced as it reads |
| Web app `web/app.py` | jobs, WebSocket clients, Redis channel | query, claim, complete, broadcast, lazy start | job execution, workers | job run locally and remotely, clients leaving | a job ends once, with its result |
| SNI proxy `sandbox/sni_proxy.py` | DNS window, connections | connect, resolve, tunnel, drain | sandbox | rate limit across an await, names that disagree | the limit holds; what leaves was permitted |
| Orchestrator `hybrid_orchestrator.py` | shared HTTP session, route cache | run, start, cleanup | all of the above | cleanup during requests, cached routes, failing models | answers rest on what was said and verified; no session leaks |
| Specialist model `vibe_clr_async.py` | instances, thread pool, semaphore | load, call, cancel | CLR | threads that outlive their caller | no instance is used twice at once or lost |
| Federated queue `federated_queue.py` | local queue, sticky URL | start, submit, publish, stop | coordinators | failing start, lost answers, outages | a job runs here whatever the federation does |
| Pattern exchange `hybrid_orchestrator.py`, `federation_server.py` | patterns, reputations | sync, import, export, record outcome | nodes | lost posts, restarts, bad nodes | patterns spread, those of bad nodes do not |

Configuration, command line, parsers, task-specific verifiers, solvers, signers, model bindings, demos and
scripts keep no state that several activities share; `PROJECT.json` lists them with
the reason each is left out.

## 2. Modules

| Module | Models | Used by |
|---|---|---|
| `JobQueue` | the asyncio job queue, one step from await to await | `MCJobQueue`, `JobQueueProofs` |
| `JobService` | abstract: a durable service that accepts, finishes and never forgets a job | instance in `JobQueue` |
| `Federation` | in-memory coordinator and workers, with timers | `MCFederation`, `FederationProofs` |
| `RedisFederation` | several coordinators over one Redis, command by command | `MCRedisFederation`, `RedisFederationProofs` |
| `Wire` | jobs and lost messages, common to both sides of the federation | `Federation`, `FederatedQueue` |
| `FederatedQueue` | the queue of a node: local and published jobs | `Swarm` |
| `SonaGossip` | patterns and reputations between nodes | instance in `Swarm` |
| `Swarm` | the node's side of the federation: the two above | `MCSwarm`, `FederationProofs` |
| `WarmPool` | pool of containers and the calls of execute() | `MCWarmPool`, `WarmPoolProofs` |
| `AllowList` | rules, their matching and the two enforcers | `Gateway`, `SniProxy` |
| `Gateway` | the Docker executor and its gateway container | `Egress` |
| `SniProxy` | connections and DNS limit of the proxy | `Egress` |
| `Egress` | scripts, gateway and proxy together | `MCEgress`, `EgressProofs` |
| `TrajectoryStore` | the store, queries that use it, synthesis | `Stores` |
| `SemanticMemory` | result cache or trajectory store, its file, its AgentDB mirror, the migration | instance in `Stores` |
| `AuditLog` | the chained log, its writers, its verification and its views | instance in `Stores`, `MCAuditLog` |
| `Stores` | what an installation keeps in files: the three above | `MCStores`, `StoresProofs` |
| `Listing` | sorted lists and filtered lists of a finite set | the three above |
| `CodeLoop` | one request of the verified code specialist | `Answering` |
| `AdaptiveCLR` | claim-level reasoning with adaptive compute, run after run | instance in `Answering` |
| `Specialist` | the specialist model: instances, threads, HTTP | instance in `Answering` |
| `Orchestrator` | routing, the shared session, steps of an answer, what is kept of it | instance in `Answering` |
| `Answering` | how a query is answered: the four above | `MCAnswering`, `AnsweringProofs` |
| `WebJobs` | queries of the web application, remote workers, live pages | `MCWebJobs`, `WebJobsProofs` |
| `JobQueueProofs`, `FederationProofs`, `RedisFederationProofs`, `WarmPoolProofs`, `EgressProofs`, `StoresProofs`, `AnsweringProofs`, `WebJobsProofs` | theorems | |

The MC modules declare model values and the few functions a configuration needs.
Definitions called `Slip_...` are no part of a specification: each is a plausible
slip in the definition that follows it, and shows that the properties notice it.
Variables commented as history are read by no action but only by properties: they
record what happened (`disturbed`, `overlap`, `faults`, `hurt`), so that one run can check
both what always holds and what holds until that happens.

`Egress` is a true composition: the proxy listens in the gateway container, its
connections end when that stops, and only scripts that were told of it connect.
`Stores`, `Swarm` and `Answering` put components side by side (variable `part`): what
passes between them are the results of calls, and each takes every result the
one below it can give, so exploring them one at a time loses no behaviour.

### JobQueue

`pending`, `jobs`, `status`, `eventSet`, `task`, `taskMap` are `_pending`, `_jobs`,
`Job.status`, the events, `_job_tasks` and `_job_task_map`.  All code runs on one
event loop, so what lies between two awaits is one action: `Submit`, `Cancel...`,
`Start`, `RecoverOne`, `Stop`, `StopReturns`, the dispatcher's steps, and for a job's
coroutine `RunBegins`, `RunCompletes`, `RunFails`, `RunCancelled`, `CallbackEnds`.  A
job OBJECT is a pair of id and copy, because `start()` builds new objects from the
file even for ids that are in memory.  `file`, `torn` and `audit` are on disk and survive
`Crash`.

A step that writes to the disk twice, an audit record and then the persistence file, is one
action as long as the process lives; a process that dies in between does so in `Crash`, by
`DiesInSubmit` (recorded as submitted, no line or part of one) or `DiesInEnd` (recorded as
ended, the line still there, so that the next process runs the job again).  `audit` keeps, per
id, the last of submitted and started and the number of recorded ends.  `PersistJob` and
`UnpersistJob` swallow an `OSError` as the code does (`FileFails`), the first perhaps after a
part of the line was written.  A torn last line swallows the one line that is appended next;
lines after that are whole again, but while a torn line is anywhere in the file
`_unpersist_job` gives up.  That a line is torn exactly before its newline (it can still be
parsed, until the next append) is not told apart.

`JobService` says what a client may rely on: a job accepted stays accepted until it
has an outcome, through crashes.  `JobQueue` implements it (property
`ImplementsService`): a job is accepted while its line is in the file.

### Federation and RedisFederation

`Federation` keeps, per job, status, claimer and the time since the last sign of
life (`contact`); per run of a worker, the time since its last heartbeat and how many
failed in a row.  `Tick` lets time pass for all of them; it may not pass a deadline at
which a heartbeat or the reaper is due.  Messages are lost by the explicit actions
that count `lost`.  A run that reaches the execution timeout (`TimesOut`) reports an error and
goes on `executing`: nobody cancels the job in the worker's local queue, so a run that is
over may be left behind there (`LeftBehind`, until `EndsUnheard` or a crash).

`RedisFederation` leaves time out (a claim may become stale whenever the living
worker's heartbeats allow it) and takes Redis apart: a script, a transaction or a
single command is a step, `HGET` before `HSET` two.  A claim is one step (`Claim`), or, when
scripting is refused, a read (`WatchRead`) and an `EXEC` (`WatchExec`) that any change of the
set in between makes fail (`Noticed`); any claim may take either way.  `disturbed` says that a job was
submitted again, that the claim of a waiting worker went stale, or that two passes of
reapers overlapped.  The timeout is here as in `Federation`; `finished` stands for `done` and
`error`, which nothing in this module tells apart.

### WarmPool

The list of containers holds references to dictionaries; a call keeps the reference
and the number of its semaphore while it waits.  `Found` is `list.index()`, by value.
Docker may refuse to `run` or restart a container (bounds in `Setups`); `docker rm -f` ends
what runs inside.

A call, or `start()`, may be cancelled at any await (`CancelQueued`, `CancelHolding`,
`CancelStart`): `JobQueue.cancel()` cancels the job that gathers the candidates
(`hybrid_orchestrator.py` 2046), `CancelledError` passes `except Exception`, and `finally`
releases the semaphore without killing anything.  `stray` are the cancelled calls whose
candidate goes on in its container; nothing times it out, but whoever kills, removes or
replaces there ends it.  `late` are the docker commands that such a call was waiting for: the
daemon may carry them out at any later time, or never.  When a call times out only the client
of `docker exec` is killed, so a call cancelled after that leaves a candidate too.

Four instances are explored in one run: many calls over a started pool, with faults and
timeouts or with timeouts and cancellations, and two calls with concurrent `start()` and
`cleanup()`, with faults and a timeout or with a cancellation.

### AllowList, Gateway, SniProxy, Egress

`at` follows each call of `execute()` through its Docker commands: create the network,
run the gateway, attach it, wait for its log line, run the script.  The Docker daemon is
what those commands see (`netExists`, `gateway`, `stray`); a command may fail (`docker stop`
and `docker rm` too, which nobody notices), the call may
be cancelled at any await, the gateway may die.  `started` is `_gateway_started`, which is
set when the gateway answered and never looked at again.  `conf` is what the script was
given: its network, the proxy, lines of `/etc/hosts`.  A list is a sequence of rules;
`ProxyAllows` (with `IsDomainAllowed` and `IsPortAllowed`), `EnvoyForwards` and `AddHosts`
are the three places that read it.
`stage` follows each connection of the proxy from its first line to its tunnel;
`limit`, `window` and `crowded` belong to the DNS limit: the check and the record of a
look-up are two steps with the look-up between them.  `hurt` says what happened to the
gateway behind its starter's back, `shared` which calls met another one setting up.

### TrajectoryStore

Entries are records of the solutions they stand for, class (embedding), kind, score,
use count.  The file equals the list at every await.  Synthesis holds positions, the
batch it showed to the generalist and the positions to remove at the end.  The
history variable `disturbed` says that a synthesis met an eviction or a restart.

### SemanticMemory

One of the two semantic memories (`kind`), with the entries in memory (`cache`), the
file, its archive (`bak`), the vector about to be sent (`mirror`) and those in AgentDB
(`db`).  Insertion, save and upsert fail separately.  `tool` is a back-fill or a
cut-over at work on the files of a process that goes on; `conf` says whether the process
is up and where it looks: its own embeddings, mirrored or not, or AgentDB only.  `gap` records that a vector is missing or positions have moved.

### CodeLoop

One request of `_run_code_specialist_verified()`.  `pc` follows the function: `spec`
(the tests are being written, at most twice per call of `_generate_test_spec()`),
`generate`, `verify` (all candidates in the sandbox at once, `Verified(i, v)` in any
order), `judge` (the candidates in their order, each passing one against its mutant),
`repair`, and `plain` and `fallback` without tests.  `cands` holds the verdicts of the
current batch (`passed`, `code_bug` for ASSERTION_FAILED and IMPORT_ERROR,
`test_error`, `other` for the rest), `rejected` the candidates whose mutant passed,
`vacuous` the specs that let a mutant pass.  `config` says what the installation
offers; without an executor nothing ever passes.  The operators of `mutate_code()` are
abstracted to the outcome of the check: the mutant passes, or it fails, cannot be made
or makes the check raise, which the code treats alike.

### AdaptiveCLR

`slots` are the trajectories of a run, each with its answer, its boxed answer and how
many of its claims passed; `Generate(i)` gives one of the outcomes the model call and
its parsing can have.  `Branch` is what follows phase 1 (early exit on consensus,
high risk, refutation), `Phase1Verdict` and `LastVerdict` are the two calls of the
external verifier, which may confirm, refute, abstain or raise.  Scores are computed
as in the code, in units of 1/10000.  `AdjustMaxK` changes the budget between runs.

### AuditLog

`log` is the sequence of lines, each a record or `Garbage` (a line that is not JSON);
`open` says that the last line has no newline, so that the next append makes one line
with it.  A call of `record()` takes its times and the hash of the last readable entry
(`Begin`), reads the file again for the number (`Number`) and appends (`Write`,
`WriteFails`, `DiesWriting`); calls of different processes interleave, for nothing locks
the file.  The identity of a record stands for its hash.  `Damage` happens to one record
after it was written.  `written` is the history of the records written to the end,
`faults` of what went wrong.  The views are operators over the readable records, with
the code's choice among records of equal time.

### Specialist

`free` is the queue of instances (or the lock of the only one), `at` where each call of
`_call_model()` is: waiting for a thread, in a thread waiting for an instance, in the
model, or posting under the semaphore.  `Cancel` tells the awaiter and drops a future
that has not started; a running thread goes on and puts its instance back.

### Orchestrator

A request has a route, fixed by the type of its task (`TaskType`, from the keywords and
patterns found in the query) or by the router's similarity, and from it the steps of its
answer: model calls over the shared session, and solvers, which come back with one of
the results they can have.  `session` and `open` are the session the orchestrator holds
and those that are not closed; `cleanup()` awaits `close()` and then forgets whatever
session there is.  `routes` and `disk` are the route cache and its file, `tried` the embedding models the
router has been started with (`model_name` is not compared when the file is loaded).  `learned` and
`cached` are what the trajectory store and the result cache take of an answer.

### WebJobs

`status` and `claimedBy` are the records of `AppState`, `task` the background task of a
query, `fans` the broadcasts on their way: each has a text and a position in
`wsClients`, a list from which others remove (`Kept`) while it waits.  With Redis a message
is published and comes back to be fanned out.  `raced`, `stumbled` and `missed` record a job
begun here although a worker had it, a broadcast that raised, and a page that was skipped.

### FederatedQueue and SonaGossip

`local` is the job in the local queue, `posting` its publication with the URLs still to
be tried, `sticky` the URL tried first, `copies` the coordinators that took it.
`SonaGossip` has the coordinator's reputations (`score`, in tenths, by the name reports
carry) and patterns (`shared`), and per node what it knows and where in its sync it is.
`copies`, `unheard` and `earned` are history: acceptances, those whose answer was lost, and
the score a node's own outcomes amount to.

## 3. What is checked

| Run | Question | Bounds |
|---|---|---|
| `jobqueue` | agreement of file, memory, events and waiters; refinement of `JobService`; jobs, waiters, cancellations and stop() come to their end | 2 jobs of equal priority, 1 slot, an audit log, 2 crashes, also between the two writes of a step |
| `jobqueue_anytime` | what holds even if clients submit before start() and after stop() | 2 jobs, 2 priorities, 2 slots, up to 3 objects per job, no audit log, 1 crash or failing access of the file, torn lines |
| `federation` | zombie detection, who may execute a job twice and after how many losses, progress | 1 job, 2 workers, the timers of `vt_config` in units of 30 s (the post's 10 s rounded up), 5 claims, 3 losses, 1 crash |
| `redis` | every pending job can be claimed, whatever happens; one run per job, save beside one given up, and finality until disturbed | 1 job, 2 coordinators, 3 submissions, slow workers, 2 claims answered, 2 lost messages, 2 crashes |
| `warmpool` | executions disturb each other only through what a cancelled call left behind, no container is used after a timeout that its call lived to deal with, every call returns or is cancelled | 5 calls over 3 containers, 2 failing Docker commands, 2 timeouts; 4 over 2, 2 timeouts, 2 cancellations; 2 over 1 with concurrent start and cleanup, with 2 faults and 1 timeout or 1 cancellation |
| `egress` | the gateway is kept while needed and not longer; traffic leaves through the allow-list only; DNS limit | 2 scripts, 2 connections, 1 Docker fault, 1 cancellation, 1 cleanup, 6 settings; all lists of up to 3 rules |
| `stores` | nothing lost or doubled by synthesis, eviction, migration; only verified results served; the mirror agrees; the chain verifies and the past stays | 5 solutions in 2 classes, room for 5; 3 insertions over 2 starts, 1 fault, 2 tool calls; 3 records, 2 processes, 2 times, 1 damage |
| `answering` | verified means verified, scores earned, effort excused, nothing shared leaks, answers backed by their route, requests end | 3 candidates, 2 repairs; budget 2 or 3 of claim-level reasoning; 2 requests, 4 kinds of query, 2 embedding models, 2 sessions, 1 restart; 3 calls, 2 instances, 2 threads |
| `web` | pages show what is, outcomes stand, queries finish | 2 jobs, 2 pages, 1 worker, 2 broadcasts at once, both transports, 1 outage |
| `swarm` | jobs run here whatever the federation does, one copy per publication, bad nodes add nothing, patterns spread | 2 jobs, 3 coordinators, 1 lost post, 2 outages; 3 nodes, 2 patterns, 1 report, 1 restart |
| `auditlog_past` | a disagreement, see below | 1 process, 1 job |
| `answers_reused` | a disagreement, see below | as `answering` |

Properties that speak of one question are conjoined under one name, whose comment says
what the parts are; each type invariant is the first part of an invariant of its
module, those of `JobQueue` and `CodeLoop` are proved instead.

The instances are small because the hazards are local: two objects of one job, two
claims of one job, two candidates behind one semaphore, two calls that set up one gateway,
one eviction during one synthesis, one broadcast that others walk through.  Two jobs
suffice for order (equal and unequal priorities are separate runs) and two crashes for a
crash during recovery.  Three losses are what it takes for a live worker to lose its
claim (three heartbeats in a row) and to report late; over Redis, where a claim may be
found stale at any time, two losses and two claims do.  Three records are what a torn
line, the record it swallows and a reader of both need.  Three candidates give one that
passes, one that is rejected and one with a defect in a batch; what they show of the code
loop is proved for any number.  A run of claim-level reasoning has a phase of one or two
trajectories and one more: enough for agreement, contradiction, a refuted first answer
and a confirmed other one.  Two sessions are the one being closed and the one taken
meanwhile; three calls, two instances and two threads make a call wait for a thread and a
cancelled one hold its instance.  A route cache of one entry evicts at every new query.
Three rules can contradict, shadow and complete each other, and the matching of a rule
does not depend on the others' number.

### Fairness

- `JobQueue`: weak fairness of the dispatcher, of started coroutines, of recovery and
  of `StopReturns`: an event loop runs every ready task.  Jobs end because the
  execution of a job is bounded by its caller.  Clients and crashes are unfair.
- `Federation`: time passes, workers poll and post, the reaper runs; every run stops being
  waited for, since `wait_for()` has a timeout, but a job given up may go on for ever.
- `WarmPool`: Docker commands end, each runs under a timeout.  Cancellations, late commands and
  the ends of strays are unfair.
- `Answering`: the models and the sandbox answer or time out (every call has a
  timeout), so the code loop goes on as long as a step is possible; the executor's threads
  run and a model call returns.  Cancellation is unfair.
- `WebJobs`: the event loop runs the broadcasts and the tasks of queries, and Redis delivers.
- `Swarm`: publications and the local queue run, a post ends within its 5 seconds, the
  sync loop comes round.  Submissions, reports and outages are unfair.
- `RedisFederation`, `Egress` and `Stores` state safety only.

### Disagreements found

By a run:

- `auditlog_past`: `state_as_of()` leaves out every superseded record, also one whose
  correction was recorded after the time asked for.  A correction therefore changes what
  the transaction axis says was known before it; the docstring calls that axis what the
  system knew at that time.  `OnlyCorrectionsRewrite` says what does hold.
- `answers_reused`: the dictionary that `_build_cache_result_dict()` hands to
  `should_cache()` has no key `verified`, so the result cache never takes a claim-level
  answer, verified or not; the comments at its creation and at the insertion say it skips
  re-running high-score problems.

Stated as definitions that no run checks, because they fail:

- `SonaGossip!BadNodesSilenced`: `federation_server.py` says that patterns of nodes with a
  low reputation are downweighted, but this repository's worker posts to /complete
  without `worker_id` and without `verified`, so only errors count, and against a name
  that is nobody's.  `BadNodesAddNothing` says what holds of reports that carry a name.
- `SemanticMemory!VectorsSurvive`: the cut-over calls AgentDB the authoritative index and
  promises no loss, but the tools' default collection is read by no process, back-filled
  entries of the result cache lack the fields a look-up demands, and a vector that was
  missing before the cut-over is gone after it.
- `TrajectoryStore!MastersKept`: `synthesize_trajectories()` removes whole clusters
  (`all_removed_indices.extend(cluster)`), but the prompt is built from the raw entries only:
  an old master of the cluster is never shown to the generalist, and what it stood for is in no entry
  afterwards.  The docstring speaks of the raw entries that are removed.
  `NothingForgotten` says what holds: raw solutions are kept or distilled, and masters
  are dropped only in clusters that get a new one.
- `Orchestrator!RoutesAsDocumented`: the docstring of `_classify_route()` and a comment in it say
  that planning, retrieval and unknown queries go to the hybrid; with an embedding router
  such a query goes where the router's similarity sends it, to the generalist or the
  specialist.  `AnswersBacked` says what holds: the task type decides where the code
  lets it, the router elsewhere.
- `CodeLoop!VerifiedTestsMeaningful`: tests that let a broken candidate pass are rewritten
  once; when that happens in a repair round, or again after the rewriting, the loop keeps
  them, and the next candidate whose own mutant they catch is returned as verified with
  score 1.0.  `VerifiedPassed` says what does hold.

What the passing properties had to leave out, by component:

- Job queue: a job submitted before `start()` of a persistent queue gets a second object
  and a second event, so a waiter may wait for ever with `SubmitWhenStopped`; the drain in
  `Progress` fails when every audit record raises (`AuditRaises`); after a torn line of the
  file nothing is removed from it any more.  A process that dies between the audit record of
  an end and the rewrite of the file leaves a job that is on record as completed and is run
  again, so its log shows two ends; one that dies between the record and the line of a
  submission leaves a job that is on record and in no file.  `RecordsAgree` says that this is
  all (`AuditExplained`), for a queue whose file can be written.
- Federation: `_claim_and_report()` reports an error when the execution timeout (600 s) has
  passed and leaves the job to its local queue, which `wait_for()` does not cancel.  If that
  one report is lost the heartbeats stop, the reaper re-queues the job, and a second worker
  executes it beside the first; with no message lost the job is an error for good while it
  still runs.  `OneRunPerJob` says so in both modules: two executions need a loss, and with
  fewer than two losses one of them is a run that was given up.
- Redis: without `~disturbed`, `OneRunPerJob` and `FinishedIsFinal` fail: a repeated
  submission, a worker slower than its heartbeats or two reapers suffice.
- Warm pool: a container that cannot be restarted leaves the list but not its semaphore;
  afterwards two semaphores stand for one container and two candidates run in it.  Of two
  concurrent starts the second removes containers candidates are in.  `cleanup()` during a
  call removes the container the candidate is in (`Calm`) and makes a completed run reported
  as failed.  A call that is cancelled frees the semaphore of a container its candidate still
  runs in, so the next candidate shares it and kills it in the end; a docker command it was
  waiting for may still kill, remove or start there (`Abandoned`).  Cancelled between its timeout
  and the end of the recycling, it leaves the container in the list, and the next call runs in it
  (`CutShort`).  A cancelled `start()` leaves containers listed in a pool that does not count as
  started: the next one removes them under their candidates and lists them again.
- Egress: the gateway's address is never validated again; cancellation during the start
  leaves a container whose name blocks later starts; the container of a timed-out script
  runs on; the second of two concurrent set-ups is refused and its script runs without
  network; a call whose `docker run` cannot be spawned stops the gateway others use; when
  `docker rm` fails nobody notices and the name stays taken.  The
  DNS limit may be exceeded by the number of look-ups of one host under way; it is exact
  while they do not overlap.  A direction of a tunnel that is silent for 30 s closes it;
  `drain()` has no timeout.  Envoy's configuration ignores ports and matches wildcards
  otherwise; exact entries in mixed case never match.
- Trajectories: `synthesize_trajectories()` drops old masters unseen (`MastersKept` above) and
  removes by positions found before the generalist
  was awaited; an eviction in between re-sorts the list (`~disturbed`).  In a full store
  a master can be evicted by the call that stores it; masters without verification do not
  survive a restart; once all entries have been used no new one stays.
- Result cache: ids are positions, reused after an eviction and from 0 after the cut-over;
  the recall check compares ids only and passes with half of them; an unreadable file
  counts as empty and the next save replaces it; two processes overwrite each other.
- Audit log: a strict verification cannot tell that the end was cut off, nor, when two
  processes wrote after the same record, that one was lost; among records of one time
  `state_as_of()` returns the first, `current_state()` and `history()` the last.
- Claim-level reasoning: `trajectories_used` exceeds `max_trajectories` when a policy has
  more initial trajectories than the lowered `max_k` (the constants keep them below, as
  the default policy does: `make_fast_specialist_policy()` starts with 3 and 5, the load
  adjustment lowers the budget to 2, and `_run_adaptive` clamps it for the later phases only;
  nothing but tests calls the adjustment today); the contradiction penalty vanishes for full marks, because
  both ends meet at the cap of 0.65; an answer refuted in phase 1 may be returned,
  unverified and under the cap, when the verifier then fails.
- Code loop: candidates are meant to have diverse temperatures, but none is passed on; the
  fallbacks get the answer with its Markdown fences; a mutation may hit a comment, and good
  tests then count as vacuous.
- Orchestrator: a session created while `cleanup()` waits for the old one is leaked
  (`overlap`); a closed session raises at once, without the fallback; the route cache's
  `model_name` is saved but never compared; `_detect_task_type` has seven results, so the
  factual, schema and logic verifiers are not reached from `run()`; a hybrid result is
  never stored.
- Specialist: the thread of a cancelled request still waits for an instance and runs the
  model for nobody; an empty forced tool call counts as content.
- Web: a removal during a send skips a client.  A removal also moves the pages behind it
  forward: of two updates of a job that was run twice, the older one may then be overtaken
  while it waits for a page further down, and show its old status to pages that connected
  meanwhile (three pages and one hang-up suffice, `PagesIntact`).  A second removal raises, which makes a
  finished job an error or leaves it running for ever; a claim between the creation of a
  task and its first step runs the job twice; there is no reaper, although a docstring
  mentions one; several first requests all call `start()`.
- Federated queue: `start()` uses `aiohttp`, which the module does not import, and raises
  after the local queue is running; the claim loop never starts.  A job is published AND
  run here, and nobody reads the remote result.  After a lost answer a second coordinator
  gets a copy.

## 4. What is proved

Every theorem holds for all values of the constants that satisfy the named assumptions of
the modules (sizes are naturals, some sets are finite, distinct things are distinct) and,
where it is stated with one, its hypothesis.  Liveness under fairness and ENABLED are beyond
the prover; so are recursive operators and what a fold computes, so orders are stated with
positions, not recursion.  Each proof module begins with its inductive invariant; one lemma
per action shows that it is kept, and the theorem takes its property from it.

### JobQueueProofs

From `JobQueueAssumption`:

- `TypeCorrect`, `SlotsNeverExceeded` (`SlotsBounded`) and `SemaphoreNeverBlocks`: a task is
  created only in the step that has just found the number of tasks below the limit
  (invariant `IInv`); the semaphore inside `_run_job` never makes a task wait.
- `PendingServed` (`PendingIsServed`) and `TerminalFinal` (`TerminalIsFinal`), for every
  queue, also after torn and failed writes, failing audit records and submissions to a stopped
  queue.  They
  need `QueueInv`: an id may have several objects, so the invariant says where the
  first of them stands in `pending` and in `_job_task_map`, that what is queued is in no
  stage of a run, and that a cancelled object is never handed to a task.
- `RecordsAlwaysAgree` (`RecordsAgree`), `FifoOrder` (`PendingFifo`), `StopLeavesNothing` and
  `ServiceImplemented`: the refinement of `JobService`, by a lemma that maps every step of
  the queue to a step of the service or a stutter.  `RecordsAlwaysAgree` rests on `AuditInv`
  besides: a job whose start or end is on record and which has no outcome has its line, so a
  crash costs each job at most one record too many.  The hypothesis `Durable` names the
  installation they are promised for: a persistent queue whose clients submit while it
  runs, whose lines and audit records can be written.  Without each of its parts a property
  fails (see "Disagreements found").  `DurableInv` says that every id has one object, that
  a line of the file is there exactly for what is accepted and not over, in the order
  of `pending`, also halfway through a recovery, and that a stopped queue is empty.

### FederationProofs

Of the coordinator, from `FederationAssumption`:

- `ZombiesAreDetected` (`ZombieDetected`) and `FinishedStays`: `FedInv` bounds the silence of
  a claim by the timeout plus the time since the reaper last looked.
- `OneWorkerAtATime` (`OneRunPerJob`): before a second message is lost, two local queues
  execute a job only after one loss and beside a run that was given up.  `Held` says what a
  run that is waited for may rely on: its record is gone with a coordinator or names its
  worker, and was heard of no longer ago than its heartbeat and its missed posts explain;
  hence `OneLive`, no two such runs of a job.  `Reported` adds that, while nothing is lost, the
  record of a run left behind is finished or gone and so never claimed again.  The hypothesis `Tolerant` (two rounds of a heartbeat and its
  post fit in the claim timeout) is what the defaults in `vt_config` satisfy; TLC shows a
  double run after one loss when they do not.

Of the nodes (`Swarm`), from `FederatedQueueAssumption` and `SonaGossipAssumption`:

- `OneCopyLeft` (`OneCopyPerPublication`): a publication leaves one copy for the answer that
  was heard and one for each answer that was lost.  `PublishInv` adds that the copies and
  the URLs left to try are together no more than the list has, that a lost answer is a
  loss of the network, and that nothing is left behind before the URLs are fixed.
- `FailoverTriesAll`: the order of the URLs has each of the list once, the sticky one first;
  hence the assumption that the URLs differ, and hence `PublishInv` must know that the sticky
  URL is always on the list.
- `BadNodesStaySilent` (`BadNodesAddNothing`): `GossipInv` says that, for reports that name the
  node to a server without certificates, the score of a name is what the node's outcomes
  amount to, also across restarts; then `MergedWeights` says what a merge may change.

Both invariants hold through every step of either half (`SwarmInvariant`): the halves share only
the count of losses, and each survives the other's.

### RedisFederationProofs

For any number of jobs, workers, coordinators and requests, from `RedisFederationAssumption`:

- `PendingStaysClaimable`: `Spec => []PendingIsClaimable`.  A pass that re-queues writes the
  `created_at` it read before, so the invariant is inductive only with `PassReadsHash`: what
  a pass still has to read was submitted, and no hash is deleted.  That a submission
  gets a number of its own is a lemma on cardinalities (`NowIsStamp`).
- `ClaimedOnce` and `OutcomeStays`: `OneRunPerJob` and `FinishedIsFinal`.  Both hold until
  `disturbed`; up to then `Quiet` is kept: a job has at most one member and only while it is
  pending, the worker at work on it is the one the hash names, what a reaper finds nobody
  works on, one pass is made at a time, and what a claim without script watches is still
  there.  Each conjunct needs the others, so every action has a lemma for all of them.
  They are about runs that are waited for.  For the executions that outlive the waiting
  `ClaimedOnce` adds `Reported` (while nothing is lost, the job of a run left behind is
  finished, and stays so by `FinishedKept`) and `Paired`, which only a claim can break.

### WarmPoolProofs

For pools of any size and any number of calls; the hypothesis `OneStart` says that the
orchestrator starts the pool once (clients may still call `start()` before that is over,
and the properties say what then holds no more):

- `ExecutionsSafe` (`ExecutionsUndisturbed`) and `TimedOutIsReplaced` (`FreshAfterTimeout`).
  The inductive invariant is `CareInv`.
  `PoolInv` ties the stage of a call to the semaphore it queues for and to its place in that
  queue, whose head is the one that holds it; `Remnants` says that strays are candidates of cancelled calls.
  `Alone` says what a call that meets no other finds; `Once` and `Suspects` that a container in
  which a candidate timed out is one its call is still replacing, is no longer listed, or was
  left by a cancelled call; `Steady` that, while all is calm, the list is in the order of
  the names, so that semaphore and container are the same number, that a container
  is in the list and alive, or being restarted by the call that holds its semaphore, or was
  had by a cancelled call, and that late commands name only such containers.  Two facts carry
  it through every step: a cancelled call stays cancelled with the name of its container
  (`StaysAbandoned`), and what is calm now was calm before (`CalmStep`).

### EgressProofs

For every allow-list of any length and any number of scripts and connections, from
`AllowListAssumption`, `GatewayAssumption`, `SniProxyAssumption` and `EgressAssumption` (blocks
hold addresses, names, addresses and blocks are different things, requests and lists are
well formed, connections are finitely many):

- `Filtered`: `Spec => []EgressFiltered`.  Its part about lists is proved for a list as such
  (`ListEnforced`, `NothingDenied`): the two-level look-up permits only what some entry
  permits, and an entry that is alone for its host keeps its ports.  The rest
  is the invariant `GatewayInv /\ ProxyInv /\ ClientInv`: a script has no network or the one its
  mode may give (`Given`), gateways are set up under the enforcing mode only; what a
  connection has passed so far was checked (`Checked`); who opened it was told of the
  proxy and still is the script that was.
- `GatewayServes` (`GatewayKept`): `KeptInv` says which container a starter owns at each of its
  steps, that at most one starter owns the running one, and which of the entries of
  `hurt` and `shared` excuses a script that does not find its own.
- `LimitHolds` (`RateLimitKept`): for a host whose look-ups never overlapped the look-ups
  under way count against its limit, so that check and record, an await apart, cannot be
  separated by another (`RateInv`).

### StoresProofs

For any classes, problems, scores, sizes and numbers of faults, from
`TrajectoryStoreAssumption` and `StoresAssumption`.  Rankings, filtered lists and evictions are lists made by
counting (`Listing`): the n-th is the member with n - 1 members before it, so that what
such a list holds, and in which order, is a fact about cardinalities (`ListedFacts`,
`AtFacts`), with no fold to reason about.

- `VerifiedServed` (`OnlyVerifiedServed`), `SavedLasts` (`NothingLost`) and `MirrorAgrees`
  (`MirrorFaithful`), from `MemInv`.  `Remembered` says that what was saved is in the file or its archive
  and, while the process is up, also in memory or the archive, so that the next save, which
  overwrites the file, loses nothing.  `Synced` says that up to a gap the file is what the memory
  began with, that a back-fill copies what began the file, and that AgentDB mirrors both
  but for the vector about to be sent, which is the last entry's (`LastPending`).  An
  eviction always moves positions: of more entries than fit one goes, by cardinality.
- `DistilledOnceAlways` (`DistilledOnce`) and `NothingIsForgotten` (`NothingForgotten`), from
  `TrajInv`.  `Midway` is the state of a synthesis between two clusters: what it will remove lies in
  clusters it has finished, beside a raw entry that was shown; each raw solution of that is
  stood for by an entry outside the clusters, made before or during this synthesis; the
  entries it keeps have no solution in common.  `Batched` says that the batch shown to the generalist is of the cluster at hand.
  Both hold until the synthesis meets an eviction or a restart (`disturbed`).
- `LogIsSound` (`LogSound`) and `PastIsCorrectedOnly` (`OnlyCorrectionsRewrite`), from `AuditInv`, with the
  assumption `GarbageIsNoRecord`.  Of a file with lines that cannot be read, what is read
  after a line was added follows from the list of legible places being the only one of
  its kind (`ListsOnce`, `ReadableAppend`).  `TakeTurns` says that writers that do not overlap are at
  work one at a time; `ChainHolds`, that what such a call has read of the file is still so
  (`Continues`), so that its record continues the chain.  `Complete` says that a file that was not
  damaged and has no garbage is what was written, `DamageShows` that damage to the
  chain of one writer at a time leaves a line that cannot be read, is not the n-th, or does not
  have its hash (`Broken`), and that this lasts.  The present: the last of the latest records is
  unique (`LatestExist`).  The past: a record changes what was known at an earlier time only
  if the record known then leaves the rows, and it leaves them only when corrected
  (`LaterRecord`).

### AnsweringProofs

Of the code loop by itself, for any number of candidates and repair rounds (`CodeLoopAssumption`): `TypeCorrect`,
`VerifiedWasVerified`, `NoGoodCandidateLost`, `PartialCreditWithoutTests`,
`OnlyBadTestsRewritten`, `EffortIsBounded` (`EffortBounded` is proved and no longer
model-checked).

None is inductive as it stands.  `IInv` adds three parts.  `TypeStage` ties the stage
to the data: while candidates are judged none is waiting, and a spec exists from
`generate` on.  `BatchInv` says of the current
batch that verdicts are outstanding only in `verify` or after a verifier raised, that
nothing passes without an executor, that the tests of a first batch are not known as
vacuous before its verdict is over, and that repair begins only when every passing
candidate was rejected or the tests are vacuous.  `ResultInv` says of a finished request what the result rests on;
it follows from `BatchInv` in the step that returns.  `EffortInv` counts: batches made
so far are at most one per attempt and one per repair round, calls N per batch.  The
foremost candidate of a set is the least number in it, which exists by well-founded
induction on the naturals (`ForemostExists`).

For all values of the constants of `Answering`:

- `SharedIsKept`: `AnsweringSpec => []NothingLeaks`.  The session's half needs that no
  session is open while `cleanup()` waits (`SessionInv`): only then does forgetting the
  session lose nothing.  The instances' half needs that a thread has an instance exactly
  while it runs the model (`InstanceInv`); the two steps that move an instance have a
  lemma each.
- `AnswersVerified`, `GoodAnswersKept`, `AnswersKeepGoodTests`: what is shown above
  of the code loop holds of it inside `Answering`, because every step of `Answering` is a
  step of each part or leaves it alone (`StepOfEachPart`).
- `AnswersAreBacked` (`AnswersBacked`): `BackedInv` adds that each cached route, in memory and on
  disk, is one its query may take under some model the router was started with (`tried`),
  and that a request has what its steps so far can have given it (`RequestSound`).
- `ScoresAreEarned` (`ScoresEarned`) and `ExitsAreExcused`: `ReasonInv` ties the slots of a run,
  its phase, the verdicts the verifier gave and the result together; scores are
  bounded without evaluating the formula, from the ranges of its terms.
- `EffortIsExcused` (`EffortExcused`), under `PolicyFits`: the initial trajectories of the
  policy are at most the lowest budget the load adjustment can set.  The default policy fits; without
  the hypothesis the code exceeds its budget (see "Disagreements found").

### WebJobsProofs

For any jobs, pages and workers, with either broadcaster, from `WebAssumption` only:

- `PagesShowWhatIs` (`ShownIsSo`).  The invariant `WebInv` follows an update on its way.  `InOrder`
  and `Fresh...` say that of the updates of a job on one stretch (waiting to be published,
  on the channel, or being sent) the youngest shows its status; `Viewed` says that a page
  that does not show it has it still to come (`Coming`), or was skipped, or is excused; when
  nothing is on its way nothing is to come.  `FansSound` says what the owner of a
  broadcast waits for, so that no job has two from the same side.  The search for this
  invariant found the overtaking described above, which bounds of two pages hide.
- `OutcomesStand` (`OutcomeStands`), from the same invariant.

### Only model-checked

- Liveness, which needs fairness and ENABLED: `Progress`, `JobsFinish`, `ExecutesReturn`,
  `AnswersCome`, `QueriesFinish` and `NodesGoOn`.  Every other property of a passing run is
  the statement of a theorem above, or a part of one.
- The two disagreements, which are counterexamples.

## 5. What is left

Proofs: none of a safety property some run checks; liveness stays with the model checker.

Models: the mirror of the trajectory store during a synthesis, the repair call inside one
claim-level trajectory as a step of its own, the tool-callback rounds of
`tool_callbacks.py`; a run for the budget under the fast-specialist policy.

## 6. Not modelled

Text: prompts, answers, parsing, formatting, logging.  Numbers beyond what a guard
compares.  `start()` called while `stop()` is in progress, callbacks that call the
queue again and timeouts of `wait_for()` in the job queue.  Encryption and certificates of the federation beyond whether a
coordinator can read a post.  The index inside AgentDB and its HTTP transport.  Docker's
hardening flags, the launch of Envoy, the deprecated iptables script, the bytes of a TLS
hello.  The operators of `verifiers/mutation.py` and the harness of `code_verifier.py` beyond
the verdicts they give.  The repair call inside one claim-level trajectory is part of its
outcome.  Pages, static files, reporting endpoints and `web_security.py` of the web
application.  Few-shot examples and feature flags of the orchestrator.

The task-specific verifiers, answer formats, math solver, retrieval, tool callbacks,
signers, command line, RuvLLM binding and the other sandbox executors are sequential and
keep no state between calls that several activities share; where another component depends
on them, every outcome they can have is an input of its model.
