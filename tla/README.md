# SithAssembly-SithInsta: a TLA+ verification project

SithAssembly-SithInsta is a local, single-operator case desk: a threaded HTTP
server (`src/server.py`) over one SQLite file (`src/database.py`,
`src/repository.py`), a persistent job ledger for registered agents
(`src/SithAssembly/Conclave/`), optional OCR and depth models, and signed,
encrypted evidence packages (`src/SithAssembly/EvidenceVault/`), a command console
and a graph of accounts per case. This directory holds TLA+ models of its stateful
core, the TLC runs that check them on small instances, and TLAPS proofs for every
size.

Paths below are relative to the repository root. `PROJECT.json` maps every
definition to the lines it translates.

    tlc -workers 2 -config queue_races.cfg MCJobQueue     # one run
    tlapm JobQueueProofs.tla                              # one proof module

1. [The system](#1-the-system)
2. [The models and the code](#2-the-models-and-the-code)
3. [The runs](#3-the-runs)
4. [The proofs](#4-the-proofs)
5. [Disagreements between code and documents](#5-disagreements-between-code-and-documents)
6. [What is not modelled](#6-what-is-not-modelled)
7. [Plan](#7-plan)

## 1. The system

One process serves requests on a bounded number of threads. All of them share
one `Repository`, one `PersistentJobQueue` and one `LocalJobWorker`. There is no
lock around the database: every method opens a connection of its own, and what
happens between its statements depends on two facts, both used throughout:

* Python's `sqlite3` begins a transaction at the first INSERT, UPDATE or DELETE
  of a connection. A SELECT before that sees the rows committed at that moment
  and protects nothing afterwards.
* SQLite has one writer. From the first write to the commit no other thread or
  process writes; closing a connection without a commit rolls back
  (`open_connection`, `src/database.py:307`).

So a method that reads, decides and then writes is (at least) two atomic steps.
Files (images, the vault key, packages, the registry, the report journal) are
outside of any transaction.

### Components

| component | state | operations | hard behaviour | what makes it correct |
|---|---|---|---|---|
| Job ledger (`Conclave/job_queue.py`) | `agent_jobs`, `agent_job_events` | enqueue (one job per routed agent, idempotent), start, complete, fail, needs_review, cancel, requeue | SELECT then INSERT or UPDATE by id; last write wins | one row per key, all-or-nothing fan-out, bounded attempts, final jobs stay final, the event trail explains the row |
| Job worker and job commands (`Conclave/job_worker.py`, `repository.py:1129-1198`) | the command of each thread, `_ocr_lock`, `_depth_lock`, `ocr_runs`, `depth_runs`, `processing_jobs` | queue, transition, execute a job; direct inference | two transactions per command, locks taken without waiting, exceptions, busy database, crash | locks released, no model without confirmation, results backed by a stored run, no orphan without a fault |
| Agent registry (`Conclave/agent_coordination.py`) | the file, `_registry`, `_configuration_version`, a second coordinator in the server | load, snapshot, enqueue's version check, report validation, operator edits | shared attributes without a lock, the file read twice, a coordinator never reloaded | jobs go to active subscribers and carry the version that routed them |
| Case store (`repository.py`) | cases, actors with scores, observations, `case_observations`, captured evidence, fingerprints, `import_batches` | create, import, seed, create case, three start-up transactions | check-then-insert of actors and demo data, item-by-item imports, start-up run by the command-line tool while the server works, crash between its steps, stores of older versions | every observation auditable, scores current, batches account for their items |
| Image evidence and vault (`repository.py:847-1110`, `EvidenceVault/evidence_vault.py`, `SIF_EvidenceVault.py`) | image files and rows, the signing key file, packages and rows, the vault lock | upload, create, verify | file and row are never written together; several processes; crash in any gap | recorded exports verify, packages are complete, the key is never replaced |
| HTTP server (`server.py`) | request slots, one thread per connection | accept, 503 when full, read with a 15 s socket timeout, dispatch, answer | slot release on every path, a thread that cannot be started, clients that never send | slots bounded and given back |
| Profile history, review queue (`repository.py:1286, 1874`) | `profile_snapshots`, `processing_jobs` | snapshot and compare within `create_observation`; list | out-of-order and equal capture times, review entries nobody resolves | an entry is backed by two snapshots; in capture order none is missed |
| Command console (`CommandDeck/command_engine.py`) | command history | execute | the command's change and its history entry are two transactions; the active case may not exist | answers and history tell what was done |
| Notes, sources, tags, claims, confidences, screenshots (`repository.py:791-845, 1256-1284, 1433-1456`) | single rows and a timeline entry | insert, update | concurrent verdicts on one claim | what was answered as done is stored |
| Report journal, runtime log | append-only files | append under a lock, tail, rotation | torn last line, errors under the lock | other lines stay readable, the lock is free again |
| Graph (`repository.py:727-762`, `GhostCluster/graph_viewer.py`) | none: two SELECTs, then pure functions | `/graph path`, `/graph communities` | an observation between the two reads, hop bound, equal handles | paths documented and shortest; communities a partition |
| Timeline, pattern, comment analysis | none | pure functions | | |
| LLM bridge, Clawdbot adapter, module runtime, doctor, preflight | configuration read per call or at start-up | read and forward | registry read twice per request | |
| Drafter, analyzer, digests, reports, facades, launchers, web | none | formatting, delegation | | |

### Interactions

`server.py` calls `Repository` on the request's thread. `Repository` calls the
ledger (`queue_agent_job`, `transition_agent_job`) and, for `execute_agent_job`,
the worker, which calls the ledger, then a handler of `Repository`
(`_execute_ocr_job` -> `run_ocr`, `_execute_depth_job` -> `run_depth`), then the
ledger again. After each of these commands the repository writes the timeline.
The ledger reloads the agent registry on every enqueue and status call; report
validation uses the server's own copy. `create_evidence_vault` exports the
case, reads image files that `add_local_image` wrote, and signs with a key that
any process over the same data directory may be creating. A request's thread gives
its slot back when the handler has ended, so what a handler may wait for (a lock, a
busy database) decides about the server; only the journal's lock is waited for
without limit. The console calls `Repository` like an API handler and then
`record_command`.

## 2. The models and the code

Every operation that changes state is one action per atomic step of the code.
A comment `Mutant of X` marks a plausible wrong version of X; mutants are no
part of a specification, they are substituted for X to see that the property
they are listed with notices.

**JobLifecycle** is what `docs/JOB_QUEUE.md` ("Lifecycle") promises of one job:
a state machine with a bounded number of attempts. It knows no threads.

**JobQueue** is `PersistentJobQueue` on several threads. `agent_jobs` and
`agent_job_events` are committed rows; `writer` is the thread inside a
multi-statement write transaction; `call` is each thread's call in progress.

| action | code |
|---|---|
| `BeginEnqueue`, `Lookup`, `Insert`, `FinishEnqueue` | `enqueue`: per routed agent a SELECT for the idempotency key, an INSERT that takes the write lock and may meet the UNIQUE constraint, one commit at the end |
| `Approve` | the part of `transition` before the UPDATE: the job is read, `Admits` holds its state and attempt conditions |
| `Start` ... `Requeue` | the UPDATE by id, the event from the row re-read inside the transaction, the commit |
| `Abort` | busy time-out, size limit or process end: rollback |

An idempotency key stands for the tuple the code hashes; result objects and
error types are members of small sets. Where a transition's own size check
fails, no state has changed, which `Abort` covers.

**JobWorker** extends JobQueue with `exec` (the repository command each thread
executes), `engine_lock`, `model_runs`, `processing_jobs`, and faults. Each step
of `execute_agent_job` is an action: `BeginExecute`, `Claim`, `Park` (no
handler), `Handle` (missing evidence, missing confirmation, busy lock, or lock
taken), `Infer`, `Store`, `Report`, `FailJob`, `Record`. `DatabaseError` rolls
one transaction back and sends the command where the code's `except` sends it;
`Crash` ends all commands and frees in-memory locks. An engine is external: it
returns some result, to be completed or reviewed, or raises.

**AgentRegistry** is the registry file under edits. A version is the content it
is the hash of. A request is `Load` (parse, validate), `Assign` (to the shared
`_registry`), `Route` (from the shared `_registry`, which may be another
thread's by now), `Hash` (the second read), `Check` and `Stamp` (two reads of the
shared version). `desk_registry` is the coordinator `server.py:697` loads once
and never again, by which the journal accepts reports. `calm` is a history
variable: no edit so far fell into a request.

**CaseStore** is how observations enter the store. `Lookup` is the last read
before an item's transaction, `Create` the whole transaction (actor,
observation, fingerprint, case link, captured content, mentioned actors,
refreshed score); `GiveUp` is the uncaught IntegrityError of a lost race for an
actor. A score is modelled as the set of observations it averages. `Refused` is a
ValueError of `create_observation`; a text of the batch row that SQLite cannot encode
ends the import without its row (`DatabaseError`).

`Repository.__init__` runs three start-up transactions in every process that opens
the database: in the server when it starts (`Restart`) and in the command-line tool
(`CliStart`, `SIF_EvidenceVault.py:18`), which runs beside the server and ends none of
its commands. `phase` says how far each process is.

| action | code |
|---|---|
| `FindCase`, `EnsureDefaultCase` | `_ensure_default_case`: a SELECT for the lowest case; then the inbox, created if there was none (by another process as well, so there may be two), and a place in it for every observation |
| `BackfillEvidence` | `_backfill_legacy_evidence`: one statement, captured content for the places that have none, whoever made them |
| `FindFingerprints`, `BackfillFingerprints` | `_backfill_legacy_fingerprints`: a SELECT of what has no fingerprint, then the inserts; if another process was faster, a primary key is taken and only `CliStop` or `Restart` is left |
| `CliStop`, `Restart` | the process ends, between any two of these |

While the tool is between its first two transactions, places in the inbox of
observations of other cases have no captured content although the server serves, and
if the tool dies there, not until somebody's next backfill. `Auditable` says that no
other places lack it; `owing` is the history variable that records such a death.
Start-ups treat stores that an older version left, too (`Legacies`).

**EvidenceVault** is `add_local_image` (`CheckImage`, `OpenImage`, `WriteImage`,
`AddEvidence`), `create_evidence_vault` (`BeginCreate` takes the process's lock,
`ReadReport`, `ReadRows`, `ReadFile`, `Encrypt`, `LookForKey`, `InstallKey` with
O_EXCL, `WriteKey`, `LoadKey`, `OpenPackage`, `WritePackage`, `RecordExport`) and
`verify_evidence_vault`. Clients belong to processes, which share the files and
the database but not the lock. A key is named by the client that generated it; a
signature by the key it was made with.

**DepthVault** extends it with `run_depth` and with what a vault packs of its runs.
The derivative of an image has one path, whichever run writes it.

| action | code |
|---|---|
| `BeginDepth`, `DeriveNothing` | `run_depth` up to the lock, taken without waiting; an engine that is not installed makes no file |
| `OpenDerivative`, `SaveDerivative` | `Image.save` truncates the file at the fixed path and writes it, under the lock |
| `RecordRun` | the `depth_runs` row, in a transaction after the lock is released |
| `ReportRuns`, `ListRuns`, `ReadDerivative` | the runs in the exported report, their rows read again, their files read |
| `PackDerivatives`, `LeaveVault` | the package with what was read; the ends of the command |
| `Elsewhere` | every other step of EvidenceVault, by a client that derives nothing |

Each of its steps is one of EvidenceVault or leaves it alone (`DepthImplementsVault`),
so what is proved of exports holds while derivatives are made. The command line never
uploads or derives (`SIF_EvidenceVault.py`).

**RequestServer** is `BoundedThreadingHTTPServer` with a connection per client.
`slots` is the semaphore's value and `conn` where each connection is.

| action | code |
|---|---|
| `Accept`, `Refuse`, `HangUp` | `process_request` on the accepting thread: a slot without waiting, else 503 and shutdown |
| `Launch`, `LaunchFails` | the thread is started, or cannot be: the slot is `stranded`, for nothing else would release it |
| `Deliver`, `Dismiss` | the request is read and passes its checks, or does not, or the socket times out |
| `Finish`, `Fail`, `Release` | the handler ends or raises; answer, shutdown and the `finally` that gives the slot back |
| `Restart` | the process dies and is started again |

**CommandDeck** extends it with what handlers do. A request is a record of the
channel, the operation, the console's active case, its `--case`, whether the text
as typed starts with `/case create` (which `execute` tests a second time, on the text
before its spaces are cleaned up), and whether it is `odd`: it holds, outside of what
the operation stores, characters that cannot be encoded. A request takes `Submit`, then either
`RefuseRequest` or the operation's transaction (`CreateCase`, `AddRow`, `AddClaim`,
`Judge`, `Weigh`, or `Read` for the commands that change nothing); a console command
goes on to `Record`, to `RecordRejected` if the foreign key of `command_history`
fails, or to `RecordRefused` if its text is odd. A report is `BeginReport` and
`EndReport` under `journal_lock`, in two parts, for a write may be cut off; an odd one
is written escaped, but the answer that repeats it cannot be sent. Both errors are
`UnicodeEncodeError`, a ValueError, which `do_POST` answers with 400
(`server.py:488`) as it does an input it refused before any change. `WorkFails` is any
other error, answered with 500, `Crash` the end of the
process. `served` is a history variable: each request, the case it changed and how
it was answered. Every action of the desk conjoins one of the server's or leaves the
server alone, so the desk implements the server (`DeskImplementsServer`).

**ProfileHistory** is the other half of `create_observation`'s transaction: actors,
relationships, the snapshot and its review entries, one step under the write lock.
`Latest` is the `ORDER BY captured_at DESC, id DESC LIMIT 1`; capture times come in
any order.

**GraphViewer** extends it with readers. `ReadNodes` and `ReadEdges` are the two
SELECTs of `get_case_graph`, between which observations may be added; `Communities`
is `enrich` and the lookup of members that raises StopIteration for a member that is
no node; `BeginSearch`, `Expand`, `Found`, `Exhausted` and `NoSuchNode` are
`shortest_path` turn by turn. The order in which edges lead to new nodes depends on
weights and ids and is left open.

**MC...** modules give the constants small values for TLC; **...Proofs**
modules hold the theorems.

## 3. The runs

| run | instance | states | shows |
|---|---|---|---|
| `queue_races` | 2 threads, fan-out to 2 agents with one listed twice, limits {1, 2}, 6 and 2 events | 1,017,881 | keys are unique and the fan-out atomic; the trail explains the row; results have provenance; attempts overshoot the limit by less than the number of threads; a settled job never changes |
| `queue_serial` | 1 thread, the same fan-out, 7 events for each job | 45,469 | JobQueue implements JobLifecycle; columns agree with the state |
| `queue_restart` | 2 threads, 1 job, 5 events | | **violated**: a completed job runs again |
| `worker_faults` | 2 threads, 1 OCR job, 2 attempts, 2 faults | 1,762,908 | lock discipline; reported results are stored; the timeline never shows what did not happen; orphans need a fault |
| `worker_live` | 2 threads, a job that is confirmed, one that is not or one without a handler; weak fairness; no fault occurs | 111,180 | no model without confirmation; commands end; running jobs do not run for ever |
| `registry_edits` | 2 threads, 2 valid contents and 1 broken, 1 edit | 803,856 | jobs and reports come from agents some installed registry routes; with edits only between requests versions are exact and versions asked for are honoured |
| `registry_version` | 1 thread, 1 edit | | **violated**: a job carries the hash of a registry that does not route it |
| `store_races` | the server with 2 threads, one run after another of the tool beside it, 2 handles, valid, malformed and unsafe items, imports of 2 and 3 items, 3 commands, 3 observations, 2 cases, restarts unbounded, a new store or an older version's | 1,923,827 | every observation is auditable whenever the server serves, and a start-up leaves nothing without captured content but what it put into the inbox; current scores; batches account for items; imports recorded; demo data bounded |
| `store_inbox` | 1 thread, 2 cases | | **violated**: the default case gets an observation another case has |
| `vault` | 2 server threads and 1 command-line run, 1 image with 1 derivative, 1 fault | 1,824,529 | exports verify; packages cover their report, images and derivatives; one creation per process; half-written files need a fault; the key is never replaced |
| `desk` | 3 clients, 2 slots, 17 kinds of request (3 odd), 2 requests delivered, 1 fault | 380,791 | slots are accounted for and come back; answers tell the truth, a refusal's included; what is in no history is explained; entries are filed where the change was; reports stay readable |
| `graph` | 4 accounts, 2 of one handle, 2 cases, 8 kinds of observation, 4 observations, 1 reader | 1,312,840 | review entries are justified and, in capture order, exact; paths are documented and shortest; communities are a partition unless the two reads differ |

**Why the bounds are enough.** Two threads are what a check-then-act race needs; the
third client of `vault` adds a second process, which the lock does not exclude.
Events are bounded by job (`MaxEvents`): six on one allow start, fail, requeue,
start and complete with a racing transition on top, two on the other let its enqueue
and one transition fall into these; 2 attempts allow a retry. In `worker_faults` a
thread can be cancelled, its job requeued and started by the other thread, while two
faults allow an error on the report and another one on the failure that follows.
`MaxEvents` is far out of reach in the worker runs: there `MaxRequests` stops *new*
requests on a job but no command that has begun. In `vault` a creation may begin
while there is no package, so up to two packages are written (one for each process),
while the image is derived by a thread that creates none. A second derivative of an
image, by which an earlier run's file may be packed torn, is left to the theorem
`DerivativesAlwaysPacked`, as are a second fault and a second image. In
`store_races` two cases are an inbox and a case of the operator's, or the two
inboxes that racing start-ups can create. One run of the tool at a time is enough
for a start-up to race with the server's own and with commands, and it may begin
again without limit, so one that died is followed by another. Two commands race for
one actor, an import, a seed or a single creation each; the third one is there for a
third seed, and its states are explored (`ThirdCommandEarly`, a constraint) only
while no tool runs and before a start-up has given an observation to a second case.
More tools, cases and commands are left to the theorems of CaseStoreProofs. In
`desk` the third client meets a full server while the other two race; two requests
are enough for a command on a case another client is just creating, for two verdicts
on one claim, and for a report after a torn line. In `graph` four observations make
walks of three hops, two components, one handle twice and three snapshots of one
account, of which the last may have been captured first. What a bound could hide is
covered by the theorems of section 4, which have none. Threads are symmetric; the
server's two clients are in `vault`; no symmetry is used in `worker_live`, whose
properties are temporal.

Every variable is bounded by guards that name their bound: `MaxEvents`,
`MaxRequests`, `MaxFaults`, `MaxEdits`, `MaxReports`, `MaxCases`, `MaxObservations`,
`MaxCommands`, `MaxPackages`, `MaxRuns`, `MaxKeys`. `store_races` alone has a state
constraint besides, the one above. No run disables the deadlock
check: a thread at rest can always begin something, or a crash or restart is
possible, or a call can still abort.

**Fairness.** Two runs use it. `worker_live`: weak fairness of `Progress(t)`, the
steps a thread takes once it has begun a command. Threads are scheduled by the
operating system; the locks are taken without waiting; the database write lock is
held for one transaction, and waiting for it is bounded by the busy time-out
(`open_connection`); an engine call returns. Nothing is assumed of requests:
nobody has to begin, cancel or requeue anything. `desk`: weak fairness of
`Progress(c)`, the steps of the server and of a handler. The accepting thread and the
request threads are scheduled; the socket's 15 seconds (`server.py:119`) make
`Dismiss` happen to a client that sends nothing, so clients need not send; the
journal's lock is held for one append. Faults are not fair, and a stranded slot does
not come back: `SlotsComeBack` speaks of connections, `SlotsAccounted` of slots.

## 4. The proofs

All theorems are about `Spec` without bounds on threads, keys, clients, files, edits
or requests, under the modules' named assumptions (`QueueAssumption`,
`RegistryAssumption`, `StoreAssumption`, `VaultAssumption`, `DepthAssumption`,
`ServerAssumption`, `DeckAssumption`, `PayloadAssumption`, `BoundAssumption`,
`QuestionAssumption`), which say only what kind of thing a constant is and, where
the code enforces it, its range: attempt limits are 1..10, hop bounds 1..8, a
payload names no actor twice. Threads, clients and actors are finitely many. Six
theorems assume more, and say so in their statement:

* `FanOutsAtomic`: requests that share an idempotency key have all keys in common
  (`RoutesAgree`). A key contains the case, topic, agent, input and registry hash, so
  this leaves out exactly the edit between routing and hashing that `registry_version`
  shows. Without it the property is false: one key of a request can be another's.
* `SerialRowsCoherent`, `SerialFollowsLifecycle` (and `SerialWithinLimit`): one
  thread, as in `queue_serial`. Two can take a job where the document's life cycle
  does not go, see `queue_restart`.
* `ReportedRunsStored`: results are reported by the worker (`WorkerReports`), not
  typed in through `/api/jobs/<id>/transition`, which takes any result object.
* `OrphansComeOfFaults`: jobs are started by the worker, not by that endpoint.

| module | theorem | says |
|---|---|---|
| JobQueueProofs | `TypeCorrect` | `[]TypeOK` |
| | `AttemptsBounded` | `[]AttemptOvershootBounded` |
| | `SerialWithinLimit` | one thread: `[]AttemptsWithinLimit` |
| | `KeysUnique` | `[]UniqueKeys` |
| | `SettledStays` | `SettledForever` |
| | `TrailsExplain`, `ResultsAccounted` | `[]TrailExplainsRow`, `[]ResultHasProvenance` |
| | `FanOutsAtomic` | `[]FanOutAtomic` |
| | `SerialRowsCoherent` | one thread: `[]RowCoherent` |
| | `SerialFollowsLifecycle` | one thread: the ledger implements JobLifecycle |
| JobWorkerProofs | `WorkerTypeCorrect`, `LocksMatch` | `[]WorkerTypeOK`, `[]LocksMatchInference` |
| | `ConfirmationNeeded` | `[]ModelsNeedConfirmation` |
| | `ReportedRunsStored`, `OrphansComeOfFaults` | `[]ReportedRunStored`, `[]OrphansNeedFault` |
| | `TimelinesBacked` | `[]TimelineBacked` |
| AgentRegistryProofs | `RegistryTypeCorrect`, `AgentsRouted` | `[]RegistryTypeOK`, `[]AgentsWereRouted` |
| | `CalmVersions`, `CalmRequests` | `[]CalmVersionsExact`, `[]CalmRequestsHonoured` |
| CaseStoreProofs | `StoreTypeCorrect`, `StoreAuditable`, `ScoresAlwaysCurrent` | `[]StoreTypeOK`, `[]Auditable`, `[]ScoresCurrent` |
| | `BatchesTrue`, `ImportsAlwaysRecorded` | `[]BatchesAccount`, `[]ImportsRecorded` |
| | `SeedsAlwaysBounded` | `[]SeedsBounded` |
| EvidenceVaultProofs | `VaultTypeCorrect`, `ExportsStayVerifiable` | `[]VaultTypeOK`, `[]ExportsVerifiable` |
| | `KeyIsKept` | `KeyNeverReplaced` |
| | `PackagesComplete` | `[]PackagesCoverReport` |
| | `CreationSerialized`, `HalfWrittenHasWriter` | `[]SerializedPerProcess`, `[]HalfWrittenNeedsFault` |
| DepthVaultProofs | `DepthImplementsVault`, `DepthExportsVerifiable` | vaults with derivatives implement EvidenceVault, so their exports verify |
| | `DerivativesAlwaysPacked` | `[]DerivativesPacked` |
| CommandDeckProofs | `SlotsAreAccounted` | of the server alone: `[]SlotsAccounted` |
| | `DeskImplementsServer`, `DeskSlotsAccounted` | the desk implements the server, so its slots are accounted for |
| | `AnswersAreTruthful`, `UnfiledAreExplained`, `FiledAsChanged` | `[]AnswersTruthful`, `[]UnfiledExplained`, `[]FiledWhereChanged` |
| | `ReportsStayReadable` | `[]ReportsReadable` |
| GraphViewerProofs | `EntriesAreJustified`, `OrderlyIsExact` | `[]EntriesJustified`, `[]OrderlyExact` |
| | `PathsAreDocumented` | `[]PathsDocumented`, the first part of `PathsShortest` |
| | `PathsAlwaysShortest`, `CommunitiesAreExact` | `[]PathsShortest`, `[]CommunitiesExact` |

The inductive invariants, and why the properties alone do not do:

* *Attempts.* `AttemptOvershootBounded` counts approved but uncommitted starts
  with the attempts made. That is what makes it inductive: a start moves one
  unit from one term to the other, and an approval needs an attempt count below
  the limit, with at most the other threads approved.
* *Unique keys.* `UniqueKeys` says nothing of uncommitted rows. `KeyInv` adds
  that only the writer has uncommitted rows, that they repeat neither each other
  nor a committed key, so a commit cannot introduce a duplicate.
* *Settled jobs.* No invariant beyond types is needed: a settled job admits no
  approval, and a commit of another job leaves it alone.
* *Trails.* `TrailInv` is the two properties job by job. A lemma says what each kind
  of commit appends and makes of the row; the count of starts in a longer trail and
  the last requeue before a result follow from what was appended.
* *Fan-out.* `FanInv` adds that an enqueue in progress serves some request, of which
  every key is stored, inserted or still to be walked, so that its commit stores all.
* *One thread.* `SoloInv`: an approval still holds when it commits, since nobody else
  has changed the row, and columns agree with states. The refinement then goes by
  action: each commit is the step of JobLifecycle with its name, at the job's row.
* *Commands.* `CommandInv` ties each thread's command to the one ledger call it makes:
  which call may be open at which step, and for which job and action. The actions are
  reduced to a few kinds of step (`Talks`, `Settles`, `EntersModel`, `StoresRun`, ...),
  and each invariant is proved against the kinds: `LocksMatchInference`
  is inductive with the types, `ConfirmInv` follows a job from the lock to the stored
  run, `RunInv` a result from the stored run to the row.
* *Timeline.* `BackedInv`: entries written plus entries some thread is about to write
  are at most the committed events. The sum is what a commit, a late entry and a lost
  one each keep; two entries of one command are of different states.
* *Routes.* `RoutedInv` carries the agents a request has picked, and the
  registry in use, back to contents the file has had.
* *Calm edits.* `CalmInv` follows a request through its steps: while no edit has
  fallen into one, the content parsed, the shared registry and the shared hash
  of a request that is past these steps are the file's current content (`Fresh`).
* *Audit.* `AuditInv`, process by process: links exist only for rows; captured content
  is 0 or 1, exists only for links, and is missing only while a backfill is due
  (`Backfilling`); and `Established`: what each start-up has done so far, for the
  observations there were, nothing another process does takes away. Of the server's
  own it is all observations, because nothing is created before it serves.
* *Imports.* `CommandsNumbered`: running commands have different numbers, no batch row
  has one of them, and what bears a running command's number is of its kind. `Tallied`:
  a running import has counted what it created, all of it in its case, and what it
  refused. The batch row is written from these counts.
* *Demo data.* `SeedInv` counts the seeds still running with those that have created
  something; one may begin only while the store is empty, so there are never more of
  both than threads.
* *Vault.* `KeyInv`: only one client is ever between creating and writing the key
  file, and a client that signs holds the key that is in the file. `RowInv`: a
  package is written before a row names it. `CoverInv`: what the report lists has
  a row, what has a row has a file, and what is no longer to be read is packed. The
  lock's property is inductive with the types, the one about half-written files with
  all of these.
* *Derivatives.* `SaveOK`: a row of a run is inserted after its file is written, and
  while an image has been derived once nobody else writes that file. `ListingOK`
  follows a vault command: the runs of its report are among those read or still to be
  read, so that all are packed when none is left.
* *Slots.* `SlotsAccounted` is inductive with the types: each action moves one
  connection and at most one slot. `DeskImplementsServer` then carries it to the desk
  step by step.
* *Desk.* `WorkInv` says what a handler between its two transactions has done and
  that no two handlers have one request; `ServedInv` that what a request changed is
  in the store, that a refusal with a change behind it is of an odd request, whose
  change or report is stored whole, that a row, a claim or a review names a request
  known to have changed something (`AuthorsKnown`, so that all other requests left
  nothing), and why a request may have failed; `HistoryInv` that an entry belongs to a
  request answered as done, at most one to each; `JournalInv` that a line's second
  part follows its first, and that a first part without one is torn by a fault or
  held under the lock.
* *Profiles.* `ChangesInv` says exactly which entries the snapshots have led to.
  Stored snapshots never change, so a step adds the entries of its own one only; both
  properties follow from the invariant without looking at a step.
* *Paths.* `SearchInv` carries a walk from the source for every node the search has
  reached, within the bound. For the shortest one `LayerInv` is breadth-first search:
  the queue is in order of distance and spans at most two, what has left it is no
  farther, has led to all its successors unless it is at the bound, and is not the
  target. An empty queue, or the target at its head, then decides what `Within` holds.
* *Communities.* `GroupInv`: every end of a relationship has its row in `actors`; what a
  reader holds after the first SELECT are the ends of all relationships it has seen,
  after the second the ends of all edges unless an account arrived. That `Component`
  is the least closed set around a node (`ComponentLeast`) is a lemma about the
  operator: were every round to add a node, there would be more nodes than actors.

**Induction over data.** `Within`, `Component` and `Registered` are recursive
functions. Theorems of the library that take an operator cannot be used, so
`CountingUp` states induction for a *set* of numbers (with 0 and all successors it is
`Nat`), proved from the cardinality of finite sets, and `RecursionExists` that a
recursion over numbers has a solution.

The type invariants of JobQueue, AgentRegistry, CaseStore and EvidenceVault and
`AttemptsWithinLimit` are theorems and in no run.

Only model-checked: the liveness properties `CommandsEnd`, `RunningJobsEnd` and
`SlotsComeBack`, as liveness under fairness is not something this prover does. Every
invariant, action property and refinement that a passing run checks is a theorem.

## 5. Disagreements between code and documents

Three runs end in a counterexample to something the repository says:

* `queue_restart`: `docs/JOB_QUEUE.md:19`, "Completed and review-required jobs
  cannot be silently restarted." A start approved while the job was queued
  commits after another thread has started and completed it.
* `registry_version`: `docs/JOB_QUEUE.md:9`, "the exact registry configuration
  hash". The file is read once to route and once to hash.
* `store_inbox`: `src/repository.py:1752`, "Local inbox for observations that have
  not yet been assigned." A restart links every observation to it.

Met while modelling and not given a run of their own: `AGENT_COORDINATION.md:139`
says "Only active agents present in the registry may report.", while the server's
coordinator is loaded once (`server.py:697`), so an agent disabled since may go on
reporting until a restart; a console command with `--case`, or a create command typed
with more than one space, changes the store and is answered with 500 if the active
case is not in the store (`UnfiledExplained` allows just these); a console command
with unencodable text outside of what it stores is answered with 400 after its change
is committed, and without a history entry (`command_engine.py:73`), and a report with
such text is in the journal (`agent_coordination.py:186`) although its sender reads
400 (`server.py:488`, `529`; `AnswersTruthful` allows just these); opening a vault
with the command-line tool puts every observation into the inbox case of a serving
desk, for a moment, or after a kill until the next start-up, without captured content
there (`Auditable` allows just this); `/graph communities`
may end in an error if an observation comes in between the two reads;
`docs/MODEL_INTEGRATIONS.md:50` says a depth derivative "is included in encrypted
evidence vaults together with its run record", while all runs over an image write one
file, so that an earlier run's record may be packed with a newer or a torn derivative
(`DerivativesPacked` allows just this); racing starts may exceed `max_attempts` (by
less than the number of threads, see `AttemptsBounded`);
`execute_agent_job` makes two ledger transitions and one timeline entry, where
`docs/JOB_QUEUE.md:67` speaks of an entry when jobs are transitioned; a version
named in a request can be overtaken by another thread's reload between check and
stamp; and a crash between creating and writing the vault key leaves an empty key
file that makes every later vault fail until somebody removes it.

## 6. What is not modelled

* Wire formats, HTTP parsing, HTML, PDF and report layout, command grammar:
  string handling without state of its own.
* Cryptography: a signature is valid exactly if it was made with the key, a hash
  tells contents apart. Reading a vault with its passphrase changes nothing.
* The engines, the local LLM providers, the operating system: external; their
  calls return or raise.
* Size limits, where exceeding one ends a call without effect (`Abort`, `Reject`,
  `RefuseInput`).
* In CaseStore: tags, sources and timeline entries, which are rows of the same
  transaction as the observation; its relationships and snapshots are in
  ProfileHistory, which leaves out what CaseStore has, and relationships of an actor
  to itself, which the code stores. ProfileHistory and GraphViewer
  have no restart (nothing but the database is kept) and no failing transaction (it
  leaves nothing).
* The order of `captured_at`: the code compares the texts it was given, the model
  numbers. That two texts with different UTC offsets sort by their local times is a
  hazard of the code that no property is about.
* Reading the review queue, profile pages, timelines and histories; the tail of the
  journal. What adds entries to the review queue is modelled; nothing in the code
  takes an entry of a profile change out again.
* Weights in the graph: they decide which of several shortest paths is shown.
* The runtime log, a rotating handler of the standard library.
* Components with status `not_modelled` in `PROJECT.json`, each with its reason.

## 7. Plan

Done: JobLifecycle, JobQueue, JobWorker, AgentRegistry, CaseStore, EvidenceVault,
DepthVault, RequestServer, CommandDeck, ProfileHistory, GraphViewer, and the proofs of
all their safety properties. Next, in this order:

1. The review queue: which entries of jobs and profile changes it lists.
2. The LLM registry's two reads per request (`MindForge/local_llm.py:183-187`).
3. Which of the worker's invariants hold when the operator may report results and
   start jobs through the API, and what replaces those that do not.

New runs are to be few: a module's races and its restarts belong in one run, and
a violation run is kept only where a document says otherwise.
