------------------------------- MODULE JobWorker -------------------------------
(***************************************************************************)
(* The job commands of repository.py over the ledger: queue_agent_job,     *)
(* transition_agent_job and execute_agent_job, with Conclave/job_worker.py *)
(* (LocalJobWorker.execute), the two model handlers run_ocr and run_depth, *)
(* their non-blocking locks, and the processing timeline, which is written *)
(* in a second transaction after the ledger's own.                         *)
(*                                                                         *)
(* Each command is a sequence of ledger calls (actions of JobQueue) and of *)
(* steps of its own.  A fault is a database error, which rolls back one    *)
(* transaction and raises, or a crash of the process, which ends every     *)
(* command, rolls back and frees the in-memory locks.                      *)
(***************************************************************************)
EXTENDS JobQueue

LOCAL INSTANCE Functions

CONSTANTS
  Engines,         \* the inference engines, one lock each
  Engine,          \* Engine[k]: the engine that handles key k, or NoEngine
  NoEngine,
  Confirmed,       \* keys whose input carries the confirmation flag
  Unconfirmed,     \* the result object "confirmation_required"
  ApiActions,      \* transition actions the operator sends
  MaxRequests,     \* bound: no new request on a job with this many events
  MaxKeys,         \* bound on the different keys that are queued
  MaxFaults        \* bound on faults

ASSUME WorkerAssumption ==
  /\ Engine \in [Keys -> Engines \cup {NoEngine}]
  /\ NoEngine \notin Engines
  /\ Confirmed \subseteq Keys
  /\ Unconfirmed \in Results \ {EmptyResult}
  /\ ApiActions \subseteq Actions
  /\ MaxRequests \in Nat /\ MaxFaults \in Nat /\ MaxKeys \in Nat

VARIABLES
  exec,            \* the repository command each thread is executing
  engine_lock,     \* _ocr_lock and _depth_lock: the thread inside
  model_runs,      \* rows of ocr_runs and depth_runs: <<job, result>>
  processing_jobs, \* rows the ledger commands add to the timeline, in order
  faults           \* faults so far

wvars == <<vars, exec, engine_lock, model_runs, processing_jobs, faults>>

queueVars == vars

\* The job number of a model run requested directly, without a job.
Direct == 0

Resting == [step |-> "rest"]

\* The objects an engine returns.
RunResults == Results \ {EmptyResult, Unconfirmed}

\* Mutant of ProcessingState: the state is stored as it is.
ProcessingStateAsIs(state) == state

\* Timeline states: needs_review is shown as review_needed.
ProcessingState(state) ==
  IF state = "needs_review" THEN "review_needed" ELSE state

TimelineStates ==
  {"queued", "running", "completed", "failed", "review_needed", "cancelled"}

Command ==
  {Resting}
    \cup [step : {"queue"}]
    \cup [step : {"transition", "claim", "handle", "park", "fail"}, job : Nat]
    \cup [step : {"infer"}, job : Nat, engine : Engines]
    \cup [step : {"store", "report"}, job : Nat, result : Results,
          action : {"complete", "needs_review"}]
    \cup [step : {"record"},
          entries : Seq([job : Nat, state : TimelineStates])]

WorkerInit ==
  /\ Init
  /\ exec = [t \in Threads |-> Resting]
  /\ engine_lock = [e \in Engines |-> NoThread]
  /\ model_runs = {}
  /\ processing_jobs = << >>
  /\ faults = 0

Go(t, command) == exec' = [exec EXCEPT ![t] = command]

InLedger == UNCHANGED <<exec, engine_lock, model_runs, processing_jobs, faults>>

OutsideLedger == UNCHANGED <<engine_lock, model_runs, processing_jobs, faults>>

\* The thread turns to its timeline transaction for these entries.
Enter(t, entries) ==
  Go(t, IF entries = << >> THEN Resting
        ELSE [step |-> "record", entries |-> entries])

Entry(j, state) == [job |-> j, state |-> ProcessingState(state)]

OpenToRequests(j) == Len(agent_job_events[j]) < MaxRequests

\* The keys of enqueue calls in progress.
Queueing ==
  UNION {Range(call[t].todo) \cup Range(call[t].inserted) :
           t \in {u \in Threads : exec[u].step = "queue"}}

-----------------------------------------------------------------------------
(* queue_agent_job *)

BeginQueueJob(t) ==
  /\ exec[t] = Resting
  /\ \E r \in Requests, limit \in AttemptLimits :
        /\ Cardinality(Stored \cup Queueing \cup RouteKeys(r)) <= MaxKeys
        /\ BeginEnqueue(t, r, limit)
  /\ Go(t, [step |-> "queue"])
  /\ OutsideLedger

QueueJob(t) ==
  /\ exec[t].step = "queue"
  /\ \/ (Lookup(t) \/ Insert(t)) /\ InLedger
     \/ /\ FinishEnqueue(t)
        /\ Enter(t, [i \in 1 .. Len(call[t].inserted) |->
                       Entry(Len(agent_jobs) + i, "queued")])
        /\ OutsideLedger

-----------------------------------------------------------------------------
(* transition_agent_job *)

BeginTransition(t) ==
  /\ exec[t] = Resting
  /\ \E j \in JobIds, action \in ApiActions, payload \in Results \cup ErrorTypes :
        /\ OpenToRequests(j)
        /\ payload \in Payloads(action)
        /\ Approve(t, j, action, payload)
        /\ Go(t, [step |-> "transition", job |-> j])
  /\ OutsideLedger

Transition(t) ==
  /\ exec[t].step = "transition"
  /\ CommitStep(t)
  /\ Enter(t, <<Entry(exec[t].job, agent_jobs'[exec[t].job].state)>>)
  /\ OutsideLedger

-----------------------------------------------------------------------------
(* execute_agent_job *)

\* get_job: the job exists and is queued.
BeginExecute(t, j) ==
  /\ exec[t] = Resting
  /\ agent_jobs[j].state = "queued"
  /\ OpenToRequests(j)
  /\ Go(t, [step |-> "claim", job |-> j])
  /\ UNCHANGED queueVars /\ OutsideLedger

\* A ledger call inside a command: its reads approve it ...
Ask(t, action, payload) ==
  Approve(t, exec[t].job, action, payload) /\ InLedger

\* Mutant of Refused: the error is swallowed and the job as it is recorded.
RefusedButRecorded(t, action, next) ==
  /\ call[t] = Idle
  /\ ~Admits(agent_jobs[exec[t].job], action)
  /\ Enter(t, <<Entry(exec[t].job, agent_jobs[exec[t].job].state)>>)
  /\ UNCHANGED queueVars /\ OutsideLedger

\* ... or it raises ValueError and the command continues at next.
Refused(t, action, next) ==
  /\ call[t] = Idle
  /\ ~Admits(agent_jobs[exec[t].job], action)
  /\ Go(t, next)
  /\ UNCHANGED queueVars /\ OutsideLedger

\* The command's last transition returns; its state goes to the timeline.
Returned(t) ==
  /\ Enter(t, <<Entry(exec[t].job, agent_jobs'[exec[t].job].state)>>)
  /\ OutsideLedger

HandlerOf(j) == Engine[agent_jobs[j].key]

Claim(t) ==
  /\ exec[t].step = "claim"
  /\ \/ Ask(t, "start", EmptyResult)
     \/ Refused(t, "start", Resting)
     \/ /\ Start(t)
        /\ Go(t, [step |-> IF HandlerOf(exec[t].job) = NoEngine
                             THEN "park" ELSE "handle",
                  job |-> exec[t].job])
        /\ OutsideLedger

\* No handler is registered for the job's route.
Park(t) ==
  /\ exec[t].step = "park"
  /\ \/ Ask(t, "needs_review", EmptyResult)
     \/ Refused(t, "needs_review", Resting)
     \/ NeedsReview(t) /\ Returned(t)

FailNext(t) == IF exec[t].job = Direct THEN Resting
               ELSE [step |-> "fail", job |-> exec[t].job]

Acquire(t, e, j) ==
  /\ engine_lock[e] = NoThread
  /\ engine_lock' = [engine_lock EXCEPT ![e] = t]
  /\ Go(t, [step |-> "infer", job |-> j, engine |-> e])

\* Mutant of Handle: the confirmation flag is not read.
HandleUnasked(t) ==
  /\ exec[t].step = "handle"
  /\ LET e == HandlerOf(exec[t].job)
     IN  \/ /\ Go(t, FailNext(t))
            /\ UNCHANGED engine_lock
         \/ Acquire(t, e, exec[t].job)
         \/ /\ engine_lock[e] # NoThread
            /\ Go(t, FailNext(t))
            /\ UNCHANGED engine_lock
  /\ UNCHANGED <<queueVars, model_runs, processing_jobs, faults>>

Handle(t) ==
  /\ exec[t].step = "handle"
  /\ LET j == exec[t].job
         e == HandlerOf(j)
     IN  \/ /\ Go(t, FailNext(t))        \* evidence id, row or file is missing,
            /\ UNCHANGED engine_lock     \* or the language is not acceptable
         \/ /\ agent_jobs[j].key \notin Confirmed
            /\ Go(t, [step |-> "report", job |-> j, action |-> "needs_review",
                      result |-> Unconfirmed])
            /\ UNCHANGED engine_lock
         \/ /\ agent_jobs[j].key \in Confirmed
            /\ \/ Acquire(t, e, j)
               \/ /\ engine_lock[e] # NoThread   \* already running
                  /\ Go(t, FailNext(t))
                  /\ UNCHANGED engine_lock
  /\ UNCHANGED <<queueVars, model_runs, processing_jobs, faults>>

\* The model endpoints call run_ocr and run_depth without a job.
BeginDirect(t, e) ==
  /\ exec[t] = Resting
  /\ Acquire(t, e, Direct)
  /\ UNCHANGED <<queueVars, model_runs, processing_jobs, faults>>

\* Mutant of Infer: the lock is released only when the engine returns.
InferNoFinally(t) ==
  /\ exec[t].step = "infer"
  /\ \/ /\ engine_lock' = [engine_lock EXCEPT ![exec[t].engine] = NoThread]
        /\ \E result \in RunResults, action \in {"complete", "needs_review"} :
             Go(t, [step |-> "store", job |-> exec[t].job, result |-> result,
                    action |-> action])
     \/ Go(t, FailNext(t)) /\ UNCHANGED engine_lock
  /\ UNCHANGED <<queueVars, model_runs, processing_jobs, faults>>

\* Mutant of Infer: the worker does not catch what the engine raises.
InferUncaught(t) ==
  /\ exec[t].step = "infer"
  /\ engine_lock' = [engine_lock EXCEPT ![exec[t].engine] = NoThread]
  /\ \/ \E result \in RunResults, action \in {"complete", "needs_review"} :
           Go(t, [step |-> "store", job |-> exec[t].job, result |-> result,
                  action |-> action])
     \/ Go(t, Resting)
  /\ UNCHANGED <<queueVars, model_runs, processing_jobs, faults>>

\* Mutant of Infer: a job's result is reported without its ocr_runs row.
InferUnstored(t) ==
  /\ exec[t].step = "infer"
  /\ engine_lock' = [engine_lock EXCEPT ![exec[t].engine] = NoThread]
  /\ \/ \E result \in RunResults, action \in {"complete", "needs_review"} :
           Go(t, IF exec[t].job = Direct THEN Resting
                 ELSE [step |-> "report", job |-> exec[t].job,
                       result |-> result, action |-> action])
     \/ Go(t, FailNext(t))
  /\ UNCHANGED <<queueVars, model_runs, processing_jobs, faults>>

\* The engine returns or raises; the lock is released in either case.
Infer(t) ==
  /\ exec[t].step = "infer"
  /\ engine_lock' = [engine_lock EXCEPT ![exec[t].engine] = NoThread]
  /\ \/ \E result \in RunResults, action \in {"complete", "needs_review"} :
           Go(t, [step |-> "store", job |-> exec[t].job, result |-> result,
                  action |-> action])
     \/ Go(t, FailNext(t))
  /\ UNCHANGED <<queueVars, model_runs, processing_jobs, faults>>

Store(t) ==
  /\ exec[t].step = "store"
  /\ writer = NoThread
  /\ model_runs' = model_runs \cup {<<exec[t].job, exec[t].result>>}
  /\ Go(t, IF exec[t].job = Direct THEN Resting
           ELSE [exec[t] EXCEPT !.step = "report"])
  /\ UNCHANGED <<queueVars, engine_lock, processing_jobs, faults>>

\* The result object is over the ledger's size limit, or the job is no longer
\* running: an error while reporting is an error of the job.
Rejected(t) ==
  /\ call[t] = Idle
  /\ Go(t, FailNext(t))
  /\ UNCHANGED queueVars /\ OutsideLedger

Report(t) ==
  /\ exec[t].step = "report"
  /\ \/ Ask(t, exec[t].action, exec[t].result)
     \/ Rejected(t)
     \/ (Complete(t) \/ NeedsReview(t)) /\ Returned(t)

\* Mutant of FailJob: the worker insists until the failure is recorded.
FailJobInsists(t) ==
  /\ exec[t].step = "fail"
  /\ \/ \E error \in ErrorTypes : Ask(t, "fail", error)
     \/ Refused(t, "fail", exec[t])
     \/ Fail(t) /\ Returned(t)

FailJob(t) ==
  /\ exec[t].step = "fail"
  /\ \/ \E error \in ErrorTypes : Ask(t, "fail", error)
     \/ Refused(t, "fail", Resting)
     \/ Fail(t) /\ Returned(t)

-----------------------------------------------------------------------------
(* The timeline transaction of all three commands *)

Record(t) ==
  /\ exec[t].step = "record"
  /\ writer = NoThread
  /\ processing_jobs' = processing_jobs \o exec[t].entries
  /\ Go(t, Resting)
  /\ UNCHANGED <<queueVars, engine_lock, model_runs, faults>>

-----------------------------------------------------------------------------
(* Faults *)

Fault == faults < MaxFaults /\ faults' = faults + 1

\* The transaction of the command's current step is rolled back.
DatabaseError(t) ==
  /\ Fault
  /\ \/ Abort(t)
     \/ exec[t].step \in {"store", "record"} /\ UNCHANGED queueVars
  /\ Go(t, IF exec[t].step \in {"store", "report"} THEN FailNext(t) ELSE Resting)
  /\ UNCHANGED <<engine_lock, model_runs, processing_jobs>>

Crash ==
  /\ Fault
  /\ \E t \in Threads : exec[t] # Resting
  /\ exec' = [t \in Threads |-> Resting]
  /\ call' = [t \in Threads |-> Idle]
  /\ writer' = NoThread
  /\ engine_lock' = [e \in Engines |-> NoThread]
  /\ UNCHANGED <<agent_jobs, agent_job_events, model_runs, processing_jobs>>

-----------------------------------------------------------------------------

\* The steps a command takes once it has begun.
Progress(t) ==
  \/ QueueJob(t) \/ Transition(t)
  \/ Claim(t) \/ Park(t) \/ Handle(t) \/ Infer(t) \/ Store(t) \/ Report(t)
  \/ FailJob(t) \/ Record(t)

Request(t) ==
  \/ BeginQueueJob(t) \/ BeginTransition(t)
  \/ \E j \in JobIds : BeginExecute(t, j)
  \/ \E e \in Engines : BeginDirect(t, e)

WorkerNext ==
  \/ \E t \in Threads : Request(t) \/ Progress(t) \/ DatabaseError(t)
  \/ Crash

WorkerSpec == WorkerInit /\ [][WorkerNext]_wvars

(***************************************************************************)
(* A thread that has begun a command goes on with it: threads are          *)
(* scheduled, an engine call returns, and a write waits for the lock no    *)
(* longer than the busy time-out, after which it is a fault.               *)
(***************************************************************************)
FairWorkerSpec == WorkerSpec /\ \A t \in Threads : WF_wvars(Progress(t))

-----------------------------------------------------------------------------
(* Properties *)

\* Every variable keeps its type.
WorkerTypeOK ==
  /\ TypeOK
  /\ DOMAIN exec = Threads /\ \A t \in Threads : exec[t] \in Command
  /\ engine_lock \in [Engines -> Threads \cup {NoThread}]
  /\ model_runs \subseteq (JobIds \cup {Direct}) \X RunResults
  /\ processing_jobs \in Seq([job : JobIds, state : TimelineStates])
  /\ faults \in 0 .. MaxFaults

(***************************************************************************)
(* "Without confirmation, the job is marked needs_review and no model is   *)
(* run" (docs/JOB_QUEUE.md): no model runs, or has run, for a job whose    *)
(* input does not carry the confirmation flag.                             *)
(***************************************************************************)
ModelsNeedConfirmation ==
  \A j \in JobIds :
     \/ agent_jobs[j].key \in Confirmed
     \/ /\ \A run \in model_runs : run[1] # j
        /\ \A t \in Threads : exec[t].step = "infer" => exec[t].job # j

(***************************************************************************)
(* A model lock is held exactly while its owner is inside the engine: it   *)
(* is released when the engine raises, when the process restarts, and      *)
(* before the database is written.                                         *)
(***************************************************************************)
LocksMatchInference ==
  \A e \in Engines, t \in Threads :
     engine_lock[e] = t <=> /\ exec[t].step = "infer"
                            /\ exec[t].engine = e

(***************************************************************************)
(* When results come from the worker only, the result a job shows is that  *)
(* of a model run recorded for this very job, whatever crashed, was rolled *)
(* back, cancelled, retried or executed twice in between.                  *)
(***************************************************************************)
ReportedRunStored ==
  \A j \in JobIds :
     agent_jobs[j].result \in RunResults
       => <<j, agent_jobs[j].result>> \in model_runs

(***************************************************************************)
(* The timeline shows only transitions that were committed: for every job  *)
(* and state it has at most as many entries as the event trail.            *)
(***************************************************************************)
Shown(j, state) ==
  Cardinality({i \in DOMAIN processing_jobs :
                 processing_jobs[i] = Entry(j, state)})

Happened(j, state) ==
  Cardinality({i \in DOMAIN agent_job_events[j] :
                 agent_job_events[j][i].state = state})

TimelineBacked ==
  \A j \in JobIds, state \in JOB_STATES : Shown(j, state) <= Happened(j, state)

(***************************************************************************)
(* A running job that no thread is executing cannot be finished by         *)
(* anything but an operator.  Only a fault leaves one behind: racing       *)
(* claims, cancellations, refused reports and busy models do not.          *)
(***************************************************************************)
Executing(t, j) ==
  /\ exec[t].step \in {"park", "handle", "infer", "store", "report", "fail"}
  /\ exec[t].job = j

OrphansNeedFault ==
  \A j \in JobIds :
     agent_jobs[j].state = "running" =>
       faults > 0 \/ \E t \in Threads : Executing(t, j)

(***************************************************************************)
(* Every command a thread begins ends when nothing fails: a worker whose   *)
(* reports are refused gives up, and no writer waits for a lock that is    *)
(* never released.                                                         *)
(***************************************************************************)
CommandsEnd ==
  \A t \in Threads : exec[t] # Resting ~> exec[t] = Resting

\* Without faults a job that execute_agent_job started does not run forever.
Running(j) == j \in JobIds /\ agent_jobs[j].state = "running"

RunningJobsEnd == \A j \in 1 .. MaxKeys : Running(j) ~> ~Running(j)
=============================================================================
