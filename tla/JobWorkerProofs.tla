---------------------------- MODULE JobWorkerProofs ----------------------------
(***************************************************************************)
(* Proofs about JobWorker for any set of threads, keys, requests, engines  *)
(* and results and for any number of faults.                               *)
(*                                                                         *)
(* The ledger's own proofs are about Spec, of which WorkerSpec is not a    *)
(* refinement (a crash ends every call at once), so what is used here are  *)
(* their lemmas about one ledger action each.                              *)
(***************************************************************************)
EXTENDS JobWorker, JobQueueProofs

-----------------------------------------------------------------------------
(* What a thread's command says about its ledger call *)

Stated == [job : JobIds, state : TimelineStates]

\* Command, with the jobs that are stored and the results that can occur there.
Held ==
  {Resting}
    \cup [step : {"queue"}]
    \cup [step : {"transition", "claim", "handle", "park", "fail"}, job : JobIds]
    \cup [step : {"infer"}, job : JobIds \cup {Direct}, engine : Engines]
    \cup [step : {"store"}, job : JobIds \cup {Direct}, result : RunResults,
          action : {"complete", "needs_review"}]
    \cup [step : {"report"}, job : JobIds, result : Results \ {EmptyResult},
          action : {"complete", "needs_review"}]
    \cup [step : {"record"}, entries : Seq(Stated)]

\* The one ledger call that command c makes.
Asked(c, action, payload) ==
  \/ c.step = "claim" /\ action = "start"
  \/ c.step = "park" /\ action = "needs_review" /\ payload = EmptyResult
  \/ c.step = "report" /\ action = c.action /\ payload = c.result
  \/ c.step = "fail" /\ action = "fail"

Asking(c, k) ==
  k.op = "transition" /\ k.job = c.job /\ Asked(c, k.action, k.payload)

\* Call k can be in progress during command c.
Matches(c, k) ==
  /\ c.step \in {"rest", "handle", "infer", "store", "record"} => k = Idle
  /\ c.step = "queue" => k.op \in {"lookup", "insert"}
  /\ c.step = "transition" =>
       k.op = "transition" /\ k.job = c.job /\ k.action \in ApiActions
  /\ c.step \in {"claim", "park", "report", "fail"} => k = Idle \/ Asking(c, k)

\* A job that is handled has an engine.
Handled(t) == exec[t].step = "handle" => HandlerOf(exec[t].job) \in Engines

CommandInv ==
  /\ DOMAIN exec = Threads
  /\ \A t \in Threads : /\ exec[t] \in Held
                        /\ Matches(exec[t], call[t])
                        /\ Handled(t)

StoreInv ==
  /\ engine_lock \in [Engines -> Threads \cup {NoThread}]
  /\ model_runs \subseteq (JobIds \cup {Direct}) \X RunResults
  /\ processing_jobs \in Seq(Stated)
  /\ faults \in 0 .. MaxFaults

WorkInv == TypeOK /\ CommandInv /\ StoreInv

-----------------------------------------------------------------------------
(* The kinds of step: what a step of thread t changes *)

Rows == <<agent_jobs, agent_job_events>>

\* Nothing changes outside the ledger but the thread's command.
Alone == UNCHANGED <<engine_lock, model_runs, processing_jobs, faults>>

OthersStay(t) ==
  \A u \in Threads : u # t => exec'[u] = exec[u] /\ call'[u] = call[u]

Failed(j) == [step |-> "fail", job |-> j]

\* A ledger call begins, goes on or is begun by a new command.
Talks(t) ==
  /\ UNCHANGED Rows /\ Alone
  /\ Matches(exec'[t], call'[t])
  /\ \/ exec'[t] = exec[t]
     \/ /\ exec[t] = Resting
        /\ \/ exec'[t] = [step |-> "queue"]
           \/ \E j \in JobIds, step \in {"transition", "claim"} :
                 exec'[t] = [step |-> step, job |-> j]

\* The ledger refuses, or the handler gives up.
Yields(t) ==
  /\ UNCHANGED Rows /\ Alone
  /\ call[t] = Idle /\ call'[t] = Idle
  /\ \/ exec[t].step = "claim" /\ exec'[t] = Resting
     \/ /\ exec[t].step \in {"park", "fail"} /\ exec'[t] = Resting
        /\ agent_jobs[exec[t].job].state # "running"
     \/ exec[t].step \in {"handle", "report"} /\ exec'[t] = Failed(exec[t].job)
     \/ /\ exec[t].step = "handle"
        /\ exec'[t] = [step |-> "report", job |-> exec[t].job,
                       action |-> "needs_review", result |-> Unconfirmed]

\* The thread gets the engine's lock.
EntersModel(t) ==
  /\ UNCHANGED <<Rows, model_runs, processing_jobs, faults>>
  /\ call[t] = Idle /\ call'[t] = Idle
  /\ \E e \in Engines, j \in JobIds \cup {Direct} :
        /\ \/ exec[t] = Resting /\ j = Direct
           \/ /\ exec[t].step = "handle" /\ j = exec[t].job
              /\ agent_jobs[j].key \in Confirmed
        /\ engine_lock[e] = NoThread
        /\ engine_lock' = [engine_lock EXCEPT ![e] = t]
        /\ exec'[t] = [step |-> "infer", job |-> j, engine |-> e]

\* It leaves the engine, with a result or without.
LeavesModel(t) ==
  /\ UNCHANGED <<Rows, model_runs, processing_jobs, faults>>
  /\ call[t] = Idle /\ call'[t] = Idle
  /\ exec[t].step = "infer"
  /\ engine_lock' = [engine_lock EXCEPT ![exec[t].engine] = NoThread]
  /\ \/ \E result \in RunResults, action \in {"complete", "needs_review"} :
           exec'[t] = [step |-> "store", job |-> exec[t].job, result |-> result,
                       action |-> action]
     \/ exec[t].job = Direct /\ exec'[t] = Resting
     \/ exec[t].job # Direct /\ exec'[t] = Failed(exec[t].job)

\* The model run is stored, and reported when it has a job.
StoresRun(t) ==
  /\ UNCHANGED <<Rows, engine_lock, processing_jobs, faults>>
  /\ call[t] = Idle /\ call'[t] = Idle
  /\ exec[t].step = "store"
  /\ model_runs' = model_runs \cup {<<exec[t].job, exec[t].result>>}
  /\ \/ exec[t].job = Direct /\ exec'[t] = Resting
     \/ /\ exec[t].job # Direct
        /\ exec'[t] = [step |-> "report", job |-> exec[t].job,
                       result |-> exec[t].result, action |-> exec[t].action]

RecordsEntries(t) ==
  /\ UNCHANGED <<Rows, engine_lock, model_runs, faults>>
  /\ call[t] = Idle /\ call'[t] = Idle
  /\ exec[t].step = "record"
  /\ processing_jobs' = processing_jobs \o exec[t].entries
  /\ exec'[t] = Resting

\* The enqueue commits: its jobs will be recorded.
Submits(t) ==
  /\ Alone
  /\ exec[t].step = "queue" /\ FinishEnqueue(t)
  /\ \/ call[t].inserted = << >> /\ exec'[t] = Resting
     \/ exec'[t] = [step |-> "record",
                    entries |-> [i \in 1 .. Len(call[t].inserted) |->
                                   Entry(Len(agent_jobs) + i, "queued")]]

\* The transition commits row r with event e: the command goes on with its job.
Settles(t, r, e) ==
  /\ Alone
  /\ Commits(t, r, e)
  /\ call[t].job = exec[t].job
  /\ \/ /\ exec[t].step = "claim" /\ call[t].action = "start"
        /\ exec'[t] = [step |-> "park", job |-> exec[t].job]
     \/ /\ exec[t].step = "claim" /\ call[t].action = "start"
        /\ HandlerOf(exec[t].job) \in Engines
        /\ exec'[t] = [step |-> "handle", job |-> exec[t].job]
     \/ /\ exec[t].step \in {"transition", "park", "report", "fail"}
        /\ exec[t].step = "transition" => call[t].action \in ApiActions
        /\ exec[t].step # "transition" =>
             Asked(exec[t], call[t].action, call[t].payload)
        /\ exec'[t] = [step |-> "record",
                       entries |-> <<Entry(exec[t].job, r.state)>>]

\* A fault ends the call and, except for a handler's error, the command.
Errs(t) ==
  /\ UNCHANGED <<Rows, engine_lock, model_runs, processing_jobs>>
  /\ faults < MaxFaults /\ faults' = faults + 1
  /\ exec[t].step # "infer" /\ call'[t] = Idle
  /\ \/ exec'[t] = Resting
     \/ /\ exec[t].step \in {"store", "report"} /\ exec[t].job # Direct
        /\ exec'[t] = Failed(exec[t].job)

Step(t) ==
  /\ DOMAIN exec' = Threads /\ OthersStay(t)
  /\ \/ Talks(t) \/ Yields(t) \/ EntersModel(t) \/ LeavesModel(t)
     \/ StoresRun(t) \/ RecordsEntries(t) \/ Submits(t)
     \/ (\E r, e : Settles(t, r, e)) \/ Errs(t)

-----------------------------------------------------------------------------
(* Every action is a step of one of these kinds *)

\* The commands are told apart by step.
LEMMA HeldShapes ==
  ASSUME NEW c \in Held
  PROVE  /\ c.step = "rest" => c = Resting
         /\ c.step = "queue" => c = [step |-> "queue"]
         /\ c.step \in {"transition", "claim", "handle", "park", "fail"} =>
              c.job \in JobIds
         /\ c.step = "infer" =>
              c.job \in JobIds \cup {Direct} /\ c.engine \in Engines
         /\ c.step = "store" =>
              /\ c.job \in JobIds \cup {Direct} /\ c.result \in RunResults
              /\ c.action \in {"complete", "needs_review"}
              /\ [c EXCEPT !.step = "report"] =
                   [step |-> "report", job |-> c.job, result |-> c.result,
                    action |-> c.action]
         /\ c.step = "report" =>
              /\ c.job \in JobIds /\ c.result \in Results \ {EmptyResult}
              /\ c.action \in {"complete", "needs_review"}
         /\ c.step = "record" => c.entries \in Seq(Stated)
         /\ c.step \in {"rest", "queue", "transition", "claim", "handle", "park",
                        "infer", "store", "report", "fail", "record"}
  BY DEF Held, Resting

\* Jobs are numbered from 1.
LEMMA JobNumbers ==
  ASSUME TypeOK
  PROVE  JobIds = 1 .. Len(agent_jobs) /\ Len(agent_jobs) \in Nat /\ Direct \notin JobIds
  BY DEF TypeOK, JobIds, Direct

\* A step of the command changes no other thread's command.
LEMMA GoOthers ==
  ASSUME CommandInv, NEW t \in Threads, NEW c, Go(t, c)
  PROVE  /\ DOMAIN exec' = Threads /\ exec'[t] = c
         /\ \A u \in Threads : u # t => exec'[u] = exec[u]
  BY DEF CommandInv, Go

\* What a thread is doing.
LEMMA Doing ==
  ASSUME CommandInv, NEW t \in Threads
  PROVE  exec[t] \in Held /\ Matches(exec[t], call[t]) /\ Handled(t)
  BY DEF CommandInv

\* A ledger call of a command: its reads approve it.
LEMMA AskTalks ==
  ASSUME TypeOK, CommandInv, NEW t \in Threads, NEW action, NEW payload,
         Ask(t, action, payload), Asked(exec[t], action, payload),
         exec[t].step \in {"claim", "park", "report", "fail"}
  PROVE  Step(t)
<1> DEFINE k == [op |-> "transition", job |-> exec[t].job, action |-> action,
                 payload |-> payload]
<1>1. /\ UNCHANGED <<agent_jobs, agent_job_events>> /\ exec' = exec
      /\ UNCHANGED <<engine_lock, model_runs, processing_jobs, faults>>
      /\ call' = [call EXCEPT ![t] = k]
  BY DEF Ask, Approve, InLedger
<1>2. call'[t] = k /\ OthersStay(t) /\ DOMAIN exec' = Threads
  BY <1>1 DEF TypeOK, CommandInv, OthersStay
<1>3. k.op = "transition" /\ k.job = exec[t].job /\ k.action = action
      /\ k.payload = payload
  OBVIOUS
<1> HIDE DEF k
<1>4. Matches(exec'[t], call'[t])
  BY <1>1, <1>2, <1>3 DEF Matches, Asking
<1>5. QED
  BY <1>1, <1>2, <1>4 DEF Step, Talks, Rows, Alone

\* The beginnings of commands.
LEMMA RequestSteps ==
  ASSUME WorkInv, NEW t \in Threads, Request(t)
  PROVE  Step(t)
<1>0. TypeOK /\ CommandInv
  BY DEF WorkInv
<1>1. CASE BeginQueueJob(t)
  <2>1. PICK r \in Requests, limit \in AttemptLimits : BeginEnqueue(t, r, limit)
    BY <1>1 DEF BeginQueueJob
  <2>2. /\ exec[t] = Resting /\ Go(t, [step |-> "queue"]) /\ OutsideLedger
    BY <1>1 DEF BeginQueueJob
  <2>3. /\ UNCHANGED <<agent_jobs, agent_job_events>>
        /\ call'[t].op = "lookup" /\ \A u \in Threads : u # t => call'[u] = call[u]
    BY <1>0, <2>1 DEF BeginEnqueue, Walk, TypeOK
  <2>4. /\ DOMAIN exec' = Threads /\ exec'[t] = [step |-> "queue"]
        /\ \A u \in Threads : u # t => exec'[u] = exec[u]
    BY <1>0, <2>2, GoOthers
  <2>5. Matches(exec'[t], call'[t])
    BY <2>3, <2>4 DEF Matches
  <2>6. QED
    BY <2>2, <2>3, <2>4, <2>5 DEF Step, Talks, OthersStay, Rows, Alone, OutsideLedger
<1>2. CASE BeginTransition(t)
  <2>1. PICK j \in JobIds, action \in ApiActions, payload \in Results \cup ErrorTypes :
          Approve(t, j, action, payload) /\ Go(t, [step |-> "transition", job |-> j])
    BY <1>2 DEF BeginTransition
  <2>2. exec[t] = Resting /\ OutsideLedger
    BY <1>2 DEF BeginTransition
  <2>3. /\ UNCHANGED <<agent_jobs, agent_job_events>>
        /\ call'[t] = [op |-> "transition", job |-> j, action |-> action,
                       payload |-> payload]
        /\ \A u \in Threads : u # t => call'[u] = call[u]
    BY <1>0, <2>1 DEF Approve, TypeOK
  <2>4. /\ DOMAIN exec' = Threads /\ exec'[t] = [step |-> "transition", job |-> j]
        /\ \A u \in Threads : u # t => exec'[u] = exec[u]
    BY <1>0, <2>1, GoOthers
  <2>5. Matches(exec'[t], call'[t])
    BY <2>3, <2>4 DEF Matches
  <2>6. QED
    BY <2>2, <2>3, <2>4, <2>5 DEF Step, Talks, OthersStay, Rows, Alone, OutsideLedger
<1>3. ASSUME NEW j \in JobIds, BeginExecute(t, j)
      PROVE  Step(t)
  <2>1. /\ exec[t] = Resting /\ Go(t, [step |-> "claim", job |-> j])
        /\ UNCHANGED vars /\ OutsideLedger
    BY <1>3 DEF BeginExecute, queueVars
  <2>2. /\ DOMAIN exec' = Threads /\ exec'[t] = [step |-> "claim", job |-> j]
        /\ \A u \in Threads : u # t => exec'[u] = exec[u]
    BY <1>0, <2>1, GoOthers
  <2>3. call[t] = Idle
    BY <1>0, <2>1, Doing DEF Matches, Resting
  <2>4. UNCHANGED <<agent_jobs, agent_job_events>> /\ call' = call
    BY <2>1 DEF vars
  <2>5. Matches(exec'[t], call'[t])
    BY <2>2, <2>3, <2>4 DEF Matches
  <2>6. QED
    BY <2>1, <2>2, <2>4, <2>5 DEF Step, Talks, OthersStay, Rows, Alone, OutsideLedger
<1>4. ASSUME NEW e \in Engines, BeginDirect(t, e)
      PROVE  Step(t)
  <2>1. /\ exec[t] = Resting /\ Acquire(t, e, Direct)
        /\ UNCHANGED vars /\ UNCHANGED <<model_runs, processing_jobs, faults>>
    BY <1>4 DEF BeginDirect, queueVars
  <2> DEFINE c == [step |-> "infer", job |-> Direct, engine |-> e]
  <2>2. /\ engine_lock[e] = NoThread /\ Go(t, c)
        /\ engine_lock' = [engine_lock EXCEPT ![e] = t]
    BY <2>1 DEF Acquire
  <2>3. /\ DOMAIN exec' = Threads /\ exec'[t] = c
        /\ \A u \in Threads : u # t => exec'[u] = exec[u]
    BY <1>0, <2>2, GoOthers
  <2>4. call[t] = Idle
    BY <1>0, <2>1, Doing DEF Matches, Resting
  <2>5. UNCHANGED <<agent_jobs, agent_job_events>> /\ call' = call
    BY <2>1 DEF vars
  <2>6. EntersModel(t)
    BY <2>1, <2>2, <2>3, <2>4, <2>5 DEF EntersModel, Rows
  <2>7. QED
    BY <2>3, <2>5, <2>6 DEF Step, OthersStay
<1>5. QED
  BY <1>1, <1>2, <1>3, <1>4 DEF Request

\* A commit whose resulting state is going to be recorded.
LEMMA ReturnSettles ==
  ASSUME TypeOK, CommandInv, NEW t \in Threads, CommitStep(t),
         Enter(t, <<Entry(exec[t].job, agent_jobs'[exec[t].job].state)>>),
         OutsideLedger, call[t].job = exec[t].job,
         exec[t].step \in {"transition", "park", "report", "fail"},
         exec[t].step = "transition" => call[t].action \in ApiActions,
         exec[t].step # "transition" =>
           Asked(exec[t], call[t].action, call[t].payload)
  PROVE  Step(t)
<1>1. PICK r, e : Commits(t, r, e)
  BY CommitOutcome
<1>2. /\ agent_jobs'[call[t].job] = r /\ call'[t] = Idle
      /\ \A u \in Threads : u # t => call'[u] = call[u]
  BY <1>1, CommitsEffect
<1> DEFINE entries == <<Entry(exec[t].job, r.state)>>
<1>3. entries # << >>
  OBVIOUS
<1>4. Go(t, [step |-> "record", entries |-> entries])
  BY <1>2, <1>3 DEF Enter
<1> HIDE DEF entries
<1>5. /\ DOMAIN exec' = Threads /\ exec'[t] = [step |-> "record", entries |-> entries]
      /\ \A u \in Threads : u # t => exec'[u] = exec[u]
  BY <1>4, GoOthers
<1>6. Settles(t, r, e)
  BY <1>1, <1>5 DEF Settles, Alone, OutsideLedger, entries
<1>7. QED
  BY <1>2, <1>5, <1>6 DEF Step, OthersStay

\* queue_agent_job and transition_agent_job.
LEMMA QueueSteps ==
  ASSUME WorkInv, NEW t \in Threads, QueueJob(t)
  PROVE  Step(t)
<1>0. TypeOK /\ CommandInv /\ exec[t].step = "queue"
  BY DEF WorkInv, QueueJob
<1>1. CASE (Lookup(t) \/ Insert(t)) /\ InLedger
  <2>1. /\ UNCHANGED <<agent_jobs, agent_job_events>>
        /\ \A u \in Threads : u # t => call'[u] = call[u]
    BY <1>0, <1>1, QuietEffect
  <2>2. call'[t].op \in {"lookup", "insert"}
    BY <1>0, <1>1 DEF Lookup, Insert, Found, Missing, Inserted, Walk, TypeOK
  <2>3. exec' = exec /\ DOMAIN exec' = Threads
    BY <1>0, <1>1 DEF InLedger, CommandInv
  <2>4. Matches(exec'[t], call'[t])
    BY <1>0, <2>2, <2>3 DEF Matches
  <2>5. QED
    BY <1>1, <2>1, <2>3, <2>4 DEF Step, Talks, OthersStay, Rows, Alone, InLedger
<1>2. CASE /\ FinishEnqueue(t)
           /\ Enter(t, [i \in 1 .. Len(call[t].inserted) |->
                          Entry(Len(agent_jobs) + i, "queued")])
           /\ OutsideLedger
  <2> DEFINE n == Len(call[t].inserted)
             entries == [i \in 1 .. n |-> Entry(Len(agent_jobs) + i, "queued")]
  <2>1. /\ call[t].inserted \in Seq(Keys)
        /\ \A u \in Threads : u # t => call'[u] = call[u]
    BY <1>0, <1>2, PublishEffect
  <2>2. Enter(t, entries)
    BY <1>2
  <2>3. entries = << >> => call[t].inserted = << >>
    <3>1. n \in Nat /\ DOMAIN entries = 1 .. n
      BY <2>1
    <3>2. entries = << >> => DOMAIN entries = {}
      OBVIOUS
    <3>3. DOMAIN entries = {} => n = 0
      BY <3>1
    <3>4. n = 0 => call[t].inserted = << >>
      BY <2>1
    <3>5. QED
      BY <3>2, <3>3, <3>4
  <2> HIDE DEF entries
  <2>4. /\ DOMAIN exec' = Threads
        /\ exec'[t] = IF entries = << >> THEN Resting
                      ELSE [step |-> "record", entries |-> entries]
        /\ \A u \in Threads : u # t => exec'[u] = exec[u]
    BY <1>0, <2>2, GoOthers DEF Enter
  <2>5. Submits(t)
    BY <1>0, <1>2, <2>3, <2>4 DEF Submits, Alone, OutsideLedger, entries
  <2>6. QED
    BY <2>1, <2>4, <2>5 DEF Step, OthersStay
<1>3. QED
  BY <1>1, <1>2 DEF QueueJob

LEMMA TransitionSteps ==
  ASSUME WorkInv, NEW t \in Threads, Transition(t)
  PROVE  Step(t)
<1>1. TypeOK /\ CommandInv /\ exec[t].step = "transition"
  BY DEF WorkInv, Transition
<1>2. /\ CommitStep(t) /\ OutsideLedger
      /\ Enter(t, <<Entry(exec[t].job, agent_jobs'[exec[t].job].state)>>)
  BY DEF Transition
<1>3. call[t].job = exec[t].job /\ call[t].action \in ApiActions
  BY <1>1, Doing DEF Matches
<1>4. QED
  BY <1>1, <1>2, <1>3, ReturnSettles

\* A commit during one of these commands is of the call the command makes.
LEMMA Transiting ==
  ASSUME CommandInv, NEW t \in Threads,
         exec[t].step \in {"claim", "park", "report", "fail"}, CommitStep(t)
  PROVE  Asking(exec[t], call[t])
<1>1. call[t].op = "transition"
  BY DEF CommitStep, Start, Complete, Fail, NeedsReview, Cancel, Requeue, Committing
<1>2. Matches(exec[t], call[t])
  BY Doing
<1>3. QED
  BY <1>1, <1>2 DEF Matches, Idle

\* The command turns to next while the ledger and the rest stand still.
LEMMA TurnStep ==
  ASSUME TypeOK, CommandInv, NEW t \in Threads, NEW c, Go(t, c),
         UNCHANGED queueVars
  PROVE  /\ DOMAIN exec' = Threads /\ OthersStay(t) /\ exec'[t] = c
         /\ UNCHANGED Rows /\ call' = call
  BY GoOthers DEF queueVars, vars, Rows, OthersStay

\* The ledger refuses to start, park or fail the job.
LEMMA RefusedYields ==
  ASSUME TypeOK, CommandInv, NEW t \in Threads, NEW action,
         Refused(t, action, Resting),
         exec[t].step = "claim" \/
           (exec[t].step \in {"park", "fail"} /\ action \in {"needs_review", "fail"})
  PROVE  Step(t)
<1>1. /\ call[t] = Idle /\ ~Admits(agent_jobs[exec[t].job], action)
      /\ Go(t, Resting) /\ UNCHANGED queueVars /\ OutsideLedger
  BY DEF Refused
<1>2. /\ DOMAIN exec' = Threads /\ OthersStay(t) /\ exec'[t] = Resting
      /\ UNCHANGED Rows /\ call' = call
  BY <1>1, TurnStep
<1>3. action \in {"needs_review", "fail"} => agent_jobs[exec[t].job].state # "running"
  BY <1>1 DEF Admits
<1>4. QED
  BY <1>1, <1>2, <1>3 DEF Step, Yields, Alone, OutsideLedger

LEMMA ClaimSteps ==
  ASSUME WorkInv, NEW t \in Threads, Claim(t)
  PROVE  Step(t)
<1>1. TypeOK /\ CommandInv /\ exec[t].step = "claim"
  BY DEF WorkInv, Claim
<1>2. CASE Ask(t, "start", EmptyResult)
  BY <1>1, <1>2, AskTalks DEF Asked
<1>3. CASE Refused(t, "start", Resting)
  BY <1>1, <1>3, RefusedYields
<1>4. CASE /\ Start(t)
           /\ Go(t, [step |-> IF HandlerOf(exec[t].job) = NoEngine
                                THEN "park" ELSE "handle",
                     job |-> exec[t].job])
           /\ OutsideLedger
  <2> DEFINE next == IF HandlerOf(exec[t].job) = NoEngine THEN "park" ELSE "handle"
             c == [step |-> next, job |-> exec[t].job]
  <2>1. CommitStep(t) /\ call[t].action = "start"
    BY <1>4 DEF CommitStep, Start, Committing
  <2>2. call[t].job = exec[t].job
    BY <1>1, <2>1, Transiting DEF Asking
  <2>3. exec[t].job \in JobIds
    BY <1>1, Doing, HeldShapes
  <2>4. HandlerOf(exec[t].job) \in Engines \cup {NoEngine}
    BY <1>1, <2>3, RowNumbers, WorkerAssumption DEF Row, HandlerOf
  <2>5. PICK r, e : Commits(t, r, e)
    BY <1>1, <2>1, CommitOutcome
  <2>6. \A u \in Threads : u # t => call'[u] = call[u]
    BY <1>1, <2>5, CommitsEffect
  <2>7. Go(t, c)
    BY <1>4
  <2>8. \/ next = "park"
        \/ next = "handle" /\ HandlerOf(exec[t].job) \in Engines
    BY <2>4
  <2> HIDE DEF next
  <2>9. DOMAIN exec' = Threads /\ exec'[t] = c
        /\ \A u \in Threads : u # t => exec'[u] = exec[u]
    BY <1>1, <2>7, GoOthers
  <2>10. Settles(t, r, e)
    BY <1>1, <1>4, <2>1, <2>2, <2>5, <2>8, <2>9 DEF Settles, Alone, OutsideLedger
  <2>11. QED
    BY <2>6, <2>9, <2>10 DEF Step, OthersStay
<1>5. QED
  BY <1>2, <1>3, <1>4 DEF Claim

LEMMA ParkSteps ==
  ASSUME WorkInv, NEW t \in Threads, Park(t)
  PROVE  Step(t)
<1>1. TypeOK /\ CommandInv /\ exec[t].step = "park"
  BY DEF WorkInv, Park
<1>2. CASE Ask(t, "needs_review", EmptyResult)
  BY <1>1, <1>2, AskTalks DEF Asked
<1>3. CASE Refused(t, "needs_review", Resting)
  BY <1>1, <1>3, RefusedYields
<1>4. CASE NeedsReview(t) /\ Returned(t)
  <2>1. CommitStep(t)
    BY <1>4 DEF CommitStep
  <2>2. Asking(exec[t], call[t])
    BY <1>1, <2>1, Transiting
  <2>3. QED
    BY <1>1, <1>4, <2>1, <2>2, ReturnSettles DEF Returned, Asking
<1>5. QED
  BY <1>2, <1>3, <1>4 DEF Park

LEMMA FailSteps ==
  ASSUME WorkInv, NEW t \in Threads, FailJob(t)
  PROVE  Step(t)
<1>1. TypeOK /\ CommandInv /\ exec[t].step = "fail"
  BY DEF WorkInv, FailJob
<1>2. ASSUME NEW error \in ErrorTypes, Ask(t, "fail", error)
      PROVE  Step(t)
  BY <1>1, <1>2, AskTalks DEF Asked
<1>3. CASE Refused(t, "fail", Resting)
  BY <1>1, <1>3, RefusedYields
<1>4. CASE Fail(t) /\ Returned(t)
  <2>1. CommitStep(t)
    BY <1>4 DEF CommitStep
  <2>2. Asking(exec[t], call[t])
    BY <1>1, <2>1, Transiting
  <2>3. QED
    BY <1>1, <1>4, <2>1, <2>2, ReturnSettles DEF Returned, Asking
<1>5. QED
  BY <1>2, <1>3, <1>4 DEF FailJob

LEMMA ReportSteps ==
  ASSUME WorkInv, NEW t \in Threads, Report(t)
  PROVE  Step(t)
<1>1. TypeOK /\ CommandInv /\ exec[t].step = "report"
  BY DEF WorkInv, Report
<1>2. CASE Ask(t, exec[t].action, exec[t].result)
  BY <1>1, <1>2, AskTalks DEF Asked
<1>3. CASE Rejected(t)
  <2>1. exec[t].job \in JobIds
    BY <1>1, Doing, HeldShapes
  <2>2. FailNext(t) = Failed(exec[t].job)
    BY <1>1, <2>1, JobNumbers DEF FailNext, Failed
  <2>3. /\ call[t] = Idle /\ Go(t, Failed(exec[t].job))
        /\ UNCHANGED queueVars /\ OutsideLedger
    BY <1>3, <2>2 DEF Rejected
  <2>4. /\ DOMAIN exec' = Threads /\ OthersStay(t) /\ exec'[t] = Failed(exec[t].job)
        /\ UNCHANGED Rows /\ call' = call
    BY <1>1, <2>3, TurnStep
  <2>5. QED
    BY <1>1, <2>3, <2>4 DEF Step, Yields, Alone, OutsideLedger
<1>4. CASE (Complete(t) \/ NeedsReview(t)) /\ Returned(t)
  <2>1. CommitStep(t)
    BY <1>4 DEF CommitStep
  <2>2. Asking(exec[t], call[t])
    BY <1>1, <2>1, Transiting
  <2>3. QED
    BY <1>1, <1>4, <2>1, <2>2, ReturnSettles DEF Returned, Asking
<1>5. QED
  BY <1>2, <1>3, <1>4 DEF Report

LEMMA HandleSteps ==
  ASSUME WorkInv, NEW t \in Threads, Handle(t)
  PROVE  Step(t)
<1> DEFINE j == exec[t].job
           e == HandlerOf(j)
<1>1. TypeOK /\ CommandInv /\ exec[t].step = "handle"
  BY DEF WorkInv, Handle
<1>2. j \in JobIds /\ call[t] = Idle /\ e \in Engines
  BY <1>1, Doing, HeldShapes DEF Matches, Handled
<1>3. FailNext(t) = Failed(j)
  BY <1>1, <1>2, JobNumbers DEF FailNext, Failed
<1>4. UNCHANGED <<queueVars, model_runs, processing_jobs, faults>>
  BY DEF Handle
<1>5. \/ Go(t, Failed(j)) /\ UNCHANGED engine_lock
      \/ /\ Go(t, [step |-> "report", job |-> j, action |-> "needs_review",
                   result |-> Unconfirmed])
         /\ UNCHANGED engine_lock
      \/ agent_jobs[j].key \in Confirmed /\ Acquire(t, e, j)
  BY <1>3 DEF Handle
<1> HIDE DEF e
<1>6. CASE Go(t, Failed(j)) /\ UNCHANGED engine_lock
  <2>1. /\ DOMAIN exec' = Threads /\ OthersStay(t) /\ exec'[t] = Failed(j)
        /\ UNCHANGED Rows /\ call' = call
    BY <1>1, <1>4, <1>6, TurnStep
  <2>2. QED
    BY <1>1, <1>2, <1>4, <1>6, <2>1 DEF Step, Yields, Alone
<1>7. CASE /\ Go(t, [step |-> "report", job |-> j, action |-> "needs_review",
                     result |-> Unconfirmed])
           /\ UNCHANGED engine_lock
  <2>1. /\ DOMAIN exec' = Threads /\ OthersStay(t)
        /\ exec'[t] = [step |-> "report", job |-> j, action |-> "needs_review",
                       result |-> Unconfirmed]
        /\ UNCHANGED Rows /\ call' = call
    BY <1>1, <1>4, <1>7, TurnStep
  <2>2. QED
    BY <1>1, <1>2, <1>4, <1>7, <2>1 DEF Step, Yields, Alone
<1>8. CASE agent_jobs[j].key \in Confirmed /\ Acquire(t, e, j)
  <2>1. /\ engine_lock[e] = NoThread
        /\ engine_lock' = [engine_lock EXCEPT ![e] = t]
        /\ Go(t, [step |-> "infer", job |-> j, engine |-> e])
    BY <1>8 DEF Acquire
  <2>2. /\ DOMAIN exec' = Threads /\ OthersStay(t)
        /\ exec'[t] = [step |-> "infer", job |-> j, engine |-> e]
        /\ UNCHANGED Rows /\ call' = call
    BY <1>1, <1>4, <2>1, TurnStep
  <2>3. QED
    BY <1>1, <1>2, <1>4, <1>8, <2>1, <2>2 DEF Step, EntersModel
<1>9. QED
  BY <1>5, <1>6, <1>7, <1>8

LEMMA InferSteps ==
  ASSUME WorkInv, NEW t \in Threads, Infer(t)
  PROVE  Step(t)
<1>1. TypeOK /\ CommandInv /\ exec[t].step = "infer"
  BY DEF WorkInv, Infer
<1>2. call[t] = Idle
  BY <1>1, Doing DEF Matches
<1>3. /\ UNCHANGED <<queueVars, model_runs, processing_jobs, faults>>
      /\ engine_lock' = [engine_lock EXCEPT ![exec[t].engine] = NoThread]
  BY DEF Infer
<1>4. PICK c : /\ Go(t, c)
               /\ \/ \E result \in RunResults, action \in {"complete", "needs_review"} :
                        c = [step |-> "store", job |-> exec[t].job,
                             result |-> result, action |-> action]
                  \/ c = FailNext(t)
  BY DEF Infer
<1>5. /\ DOMAIN exec' = Threads /\ OthersStay(t) /\ exec'[t] = c
      /\ UNCHANGED Rows /\ call' = call
  BY <1>1, <1>3, <1>4, TurnStep
<1>6. c = FailNext(t) => \/ exec[t].job = Direct /\ c = Resting
                         \/ exec[t].job # Direct /\ c = Failed(exec[t].job)
  BY DEF FailNext, Failed
<1>7. LeavesModel(t)
  BY <1>1, <1>2, <1>3, <1>4, <1>5, <1>6 DEF LeavesModel
<1>8. QED
  BY <1>5, <1>7 DEF Step

LEMMA StoreSteps ==
  ASSUME WorkInv, NEW t \in Threads, Store(t)
  PROVE  Step(t)
<1>1. TypeOK /\ CommandInv /\ exec[t].step = "store"
  BY DEF WorkInv, Store
<1>2. /\ call[t] = Idle
      /\ [exec[t] EXCEPT !.step = "report"] =
           [step |-> "report", job |-> exec[t].job, result |-> exec[t].result,
            action |-> exec[t].action]
  BY <1>1, Doing, HeldShapes DEF Matches
<1>3. /\ model_runs' = model_runs \cup {<<exec[t].job, exec[t].result>>}
      /\ UNCHANGED <<queueVars, engine_lock, processing_jobs, faults>>
  BY DEF Store
<1>4. PICK c : /\ Go(t, c)
               /\ c = IF exec[t].job = Direct THEN Resting
                      ELSE [exec[t] EXCEPT !.step = "report"]
  BY DEF Store
<1>5. /\ DOMAIN exec' = Threads /\ OthersStay(t) /\ exec'[t] = c
      /\ UNCHANGED Rows /\ call' = call
  BY <1>1, <1>3, <1>4, TurnStep
<1>6. StoresRun(t)
  BY <1>1, <1>2, <1>3, <1>4, <1>5 DEF StoresRun
<1>7. QED
  BY <1>5, <1>6 DEF Step

LEMMA RecordSteps ==
  ASSUME WorkInv, NEW t \in Threads, Record(t)
  PROVE  Step(t)
<1>1. TypeOK /\ CommandInv /\ exec[t].step = "record"
  BY DEF WorkInv, Record
<1>2. call[t] = Idle
  BY <1>1, Doing DEF Matches
<1>3. /\ processing_jobs' = processing_jobs \o exec[t].entries
      /\ UNCHANGED <<queueVars, engine_lock, model_runs, faults>>
      /\ Go(t, Resting)
  BY DEF Record
<1>4. /\ DOMAIN exec' = Threads /\ OthersStay(t) /\ exec'[t] = Resting
      /\ UNCHANGED Rows /\ call' = call
  BY <1>1, <1>3, TurnStep
<1>5. QED
  BY <1>1, <1>2, <1>3, <1>4 DEF Step, RecordsEntries

LEMMA ErrorSteps ==
  ASSUME WorkInv, NEW t \in Threads, DatabaseError(t)
  PROVE  Step(t)
<1>1. TypeOK /\ CommandInv
  BY DEF WorkInv
<1>2. /\ UNCHANGED Rows /\ call'[t] = Idle /\ exec[t].step # "infer"
      /\ \A u \in Threads : u # t => call'[u] = call[u]
  <2>1. CASE Abort(t)
    BY <1>1, <2>1, Doing DEF Abort, Matches, Rows, TypeOK
  <2>2. CASE exec[t].step \in {"store", "record"} /\ UNCHANGED queueVars
    BY <1>1, <2>2, Doing DEF Matches, Rows, queueVars, vars
  <2>3. QED
    BY <2>1, <2>2 DEF DatabaseError
<1>3. PICK c : /\ Go(t, c)
               /\ c = IF exec[t].step \in {"store", "report"} THEN FailNext(t)
                      ELSE Resting
  BY DEF DatabaseError
<1>4. /\ DOMAIN exec' = Threads /\ exec'[t] = c
      /\ \A u \in Threads : u # t => exec'[u] = exec[u]
  BY <1>1, <1>3, GoOthers
<1>5. \/ c = Resting
      \/ /\ exec[t].step \in {"store", "report"} /\ exec[t].job # Direct
         /\ c = Failed(exec[t].job)
  BY <1>3 DEF FailNext, Failed
<1>6. Errs(t)
  BY <1>2, <1>4, <1>5 DEF Errs, DatabaseError, Fault
<1>7. QED
  BY <1>2, <1>4, <1>6 DEF Step, OthersStay

\* Every step that is not a crash is a step of one thread, of one of the kinds.
LEMMA WorkerSteps ==
  ASSUME WorkInv, WorkerNext
  PROVE  (\E t \in Threads : Step(t)) \/ Crash
<1>1. ASSUME NEW t \in Threads, Progress(t)
      PROVE  Step(t)
  BY <1>1, QueueSteps, TransitionSteps, ClaimSteps, ParkSteps, HandleSteps,
     InferSteps, StoreSteps, ReportSteps, FailSteps, RecordSteps DEF Progress
<1>2. QED
  BY <1>1, RequestSteps, ErrorSteps DEF WorkerNext

-----------------------------------------------------------------------------
(* The ledger keeps its types *)

\* A ledger call a command asks for has the payload of its action.
LEMMA AskTypeOK ==
  ASSUME WorkInv, NEW t \in Threads, NEW action, NEW payload,
         Ask(t, action, payload), action \in Actions, payload \in Payloads(action),
         exec[t].step \in {"claim", "park", "report", "fail"}
  PROVE  TypeOK'
<1>1. TypeOK /\ exec[t].job \in JobIds
  BY Doing, HeldShapes DEF WorkInv
<1>2. QED
  BY <1>1, ApprovalTypeOK DEF Ask

LEMMA RestTypeOK ==
  ASSUME TypeOK, UNCHANGED queueVars
  PROVE  TypeOK'
  BY DEF queueVars, vars, TypeOK, JobIds

LEMMA ProgressTypeOK ==
  ASSUME WorkInv, NEW t \in Threads, Progress(t)
  PROVE  TypeOK'
<1>1. TypeOK /\ EmptyResult \in Results
  BY QueueAssumption DEF WorkInv
<1>2. CASE QueueJob(t)
  BY <1>1, <1>2, EnqueueTypeOK DEF QueueJob, EnqueueStep
<1>3. CASE Transition(t)
  BY <1>1, <1>3, CommitStepTypeOK DEF Transition
<1>4. CASE Claim(t)
  <2>1. "start" \in Actions /\ EmptyResult \in Payloads("start")
    BY DEF Actions, Payloads
  <2>2. QED
    BY <1>1, <1>4, <2>1, AskTypeOK, RestTypeOK, CommitStepTypeOK
       DEF Claim, Refused, CommitStep
<1>5. CASE Park(t)
  <2>1. "needs_review" \in Actions /\ EmptyResult \in Payloads("needs_review")
    BY <1>1 DEF Actions, Payloads
  <2>2. QED
    BY <1>1, <1>5, <2>1, AskTypeOK, RestTypeOK, CommitStepTypeOK
       DEF Park, Refused, CommitStep
<1>6. CASE Handle(t) \/ Infer(t) \/ Store(t) \/ Record(t)
  BY <1>1, <1>6, RestTypeOK DEF Handle, Infer, Store, Record
<1>7. CASE Report(t)
  <2>1. /\ exec[t].step = "report" /\ exec[t].result \in Results
        /\ exec[t].action \in {"complete", "needs_review"}
    BY <1>7, Doing, HeldShapes DEF WorkInv, Report
  <2>2. exec[t].action \in Actions /\ exec[t].result \in Payloads(exec[t].action)
    BY <2>1, Zenon DEF Actions, Payloads
  <2>3. QED
    BY <1>1, <1>7, <2>1, <2>2, AskTypeOK, RestTypeOK, CommitStepTypeOK
       DEF Report, Rejected, CommitStep
<1>8. CASE FailJob(t)
  <2>1. "fail" \in Actions /\ \A error \in ErrorTypes : error \in Payloads("fail")
    BY DEF Actions, Payloads
  <2>2. QED
    BY <1>1, <1>8, <2>1, AskTypeOK, RestTypeOK, CommitStepTypeOK
       DEF FailJob, Refused, CommitStep
<1>9. QED
  BY <1>2, <1>3, <1>4, <1>5, <1>6, <1>7, <1>8 DEF Progress

LEMMA WorkerTypes ==
  ASSUME WorkInv, WorkerNext
  PROVE  TypeOK'
<1>1. TypeOK
  BY DEF WorkInv
<1>2. ASSUME NEW t \in Threads, Request(t)
      PROVE  TypeOK'
  <2>1. CASE BeginQueueJob(t)
    BY <1>1, <2>1, EnqueueTypeOK DEF BeginQueueJob, EnqueueStep
  <2>2. CASE BeginTransition(t)
    <3>1. PICK j \in JobIds, action \in ApiActions :
            \E payload \in Payloads(action) : Approve(t, j, action, payload)
      BY <2>2 DEF BeginTransition
    <3>2. QED
      BY <1>1, <3>1, ApprovalTypeOK, WorkerAssumption
  <2>3. CASE (\E j \in JobIds : BeginExecute(t, j)) \/ \E e \in Engines : BeginDirect(t, e)
    BY <1>1, <2>3, RestTypeOK DEF BeginExecute, BeginDirect
  <2>4. QED
    BY <1>2, <2>1, <2>2, <2>3 DEF Request
<1>3. ASSUME NEW t \in Threads, DatabaseError(t)
      PROVE  TypeOK'
  BY <1>1, <1>3, AbortTypeOK, RestTypeOK DEF DatabaseError
<1>4. CASE Crash
  BY <1>1, <1>4 DEF Crash, TypeOK, JobIds
<1>5. QED
  BY <1>2, <1>3, <1>4, ProgressTypeOK DEF WorkerNext

-----------------------------------------------------------------------------
(* The commands and their calls stay together *)

LEMMA SeqGrows ==
  ASSUME NEW S, NEW T, S \subseteq T, NEW s \in Seq(S)
  PROVE  s \in Seq(T)
  OBVIOUS

\* A command that names stored jobs still does when there are more.
LEMMA HeldKept ==
  ASSUME JobIds \subseteq JobIds', NEW c, c \in Held
  PROVE  c \in Held'
<1>1. Stated \subseteq Stated'
  BY DEF Stated
<1>2. Seq(Stated) \subseteq Seq(Stated')
  BY <1>1, SeqGrows
<1>3. QED
  BY <1>2 DEF Held

\* The commands that are made.
LEMMA HeldMade ==
  /\ Resting \in Held /\ [step |-> "queue"] \in Held
  /\ \A j \in JobIds, step \in {"transition", "claim", "handle", "park", "fail"} :
       [step |-> step, job |-> j] \in Held
  /\ \A j \in JobIds \cup {Direct}, result \in RunResults,
        action \in {"complete", "needs_review"} :
       [step |-> "store", job |-> j, result |-> result, action |-> action] \in Held
  BY DEF Held

\* Jobs are never removed and keep their key.
LEMMA JobsStay ==
  ASSUME TypeOK, NEW t \in Threads, Step(t)
  PROVE  /\ JobIds \subseteq JobIds'
         /\ \A j \in JobIds : agent_jobs'[j].key = agent_jobs[j].key
<1>1. CASE UNCHANGED Rows
  BY <1>1 DEF Rows, JobIds
<1>2. CASE Submits(t)
  <2>1. /\ JobIds = 1 .. Len(agent_jobs) /\ Len(agent_jobs) \in Nat
        /\ JobIds' = 1 .. Len(agent_jobs) + Len(call[t].inserted)
        /\ call[t].inserted \in Seq(Keys)
        /\ \A j \in JobIds : agent_jobs'[j] = agent_jobs[j]
    BY <1>2, PublishEffect DEF Submits
  <2>2. Len(call[t].inserted) \in Nat
    BY <2>1
  <2>3. 1 .. Len(agent_jobs) \subseteq 1 .. Len(agent_jobs) + Len(call[t].inserted)
    BY <2>1, <2>2
  <2>4. QED
    BY <2>1, <2>3, Zenon
<1>3. ASSUME NEW r, NEW e, Settles(t, r, e)
      PROVE  /\ JobIds \subseteq JobIds'
             /\ \A j \in JobIds : agent_jobs'[j].key = agent_jobs[j].key
  <2>1. Commits(t, r, e)
    BY <1>3 DEF Settles
  <2>2. PICK i \in JobIds : i = call[t].job
    BY <2>1 DEF Commits
  <2>3. r.key = agent_jobs[i].key
    BY <2>1, <2>2 DEF Commits, Outcome
  <2>4. /\ JobIds' = JobIds /\ agent_jobs'[i] = r
        /\ \A j \in JobIds : j # i => agent_jobs'[j] = agent_jobs[j]
    BY <2>1, <2>2, CommitsEffect
  <2>5. QED
    BY <2>3, <2>4
<1>4. QED
  BY <1>1, <1>2, <1>3
     DEF Step, Talks, Yields, EntersModel, LeavesModel, StoresRun,
         RecordsEntries, Errs, Rows

\* Record entries of a job.
LEMMA EntryStated ==
  ASSUME NEW j \in JobIds, NEW state \in JOB_STATES
  PROVE  Entry(j, state) \in Stated
  BY DEF Entry, Stated, ProcessingState, JOB_STATES, TimelineStates

\* The command a thread goes on with is one that names stored jobs.
LEMMA NextHeld ==
  ASSUME WorkInv, NEW t \in Threads, Step(t)
  PROVE  exec'[t] \in Held'
<1>1. TypeOK /\ CommandInv /\ JobIds \subseteq JobIds'
  BY JobsStay DEF WorkInv
<1>2. exec[t] \in Held
  BY <1>1, Doing
<1>3. /\ Unconfirmed \in Results \ {EmptyResult}
      /\ RunResults \subseteq Results \ {EmptyResult}
  BY WorkerAssumption DEF RunResults
<1>4. CASE Talks(t)
  <2>1. CASE exec'[t] = exec[t]
    BY <1>1, <1>2, <2>1, HeldKept
  <2>2. CASE exec'[t] = [step |-> "queue"]
    BY <1>1, <2>2, HeldMade, HeldKept
  <2>3. ASSUME NEW j \in JobIds, NEW step \in {"transition", "claim"},
               exec'[t] = [step |-> step, job |-> j]
        PROVE  exec'[t] \in Held'
    BY <1>1, <2>3, HeldMade, HeldKept
  <2>4. QED
    BY <1>4, <2>1, <2>2, <2>3 DEF Talks
<1>5. CASE Yields(t)
  <2>1. exec[t].step \in {"claim", "park", "fail", "handle", "report"} =>
          exec[t].job \in JobIds
    BY <1>2, HeldShapes
  <2>2. exec'[t] \in Held
    BY <1>3, <1>5, <2>1 DEF Yields, Held, Failed
  <2>3. QED
    BY <1>1, <2>2, HeldKept
<1>6. CASE EntersModel(t)
  <2>1. exec'[t] \in Held
    BY <1>6 DEF EntersModel, Held
  <2>2. QED
    BY <1>1, <2>1, HeldKept
<1>7. CASE LeavesModel(t)
  <2>1. exec[t].job \in JobIds \cup {Direct}
    BY <1>2, <1>7, HeldShapes DEF LeavesModel
  <2>2. ASSUME NEW result \in RunResults, NEW action \in {"complete", "needs_review"},
               exec'[t] = [step |-> "store", job |-> exec[t].job, result |-> result,
                           action |-> action]
        PROVE  exec'[t] \in Held
    BY <2>1, <2>2, HeldMade
  <2>3. CASE exec[t].job = Direct /\ exec'[t] = Resting
    BY <1>1, <2>3, HeldMade, HeldKept
  <2>4. CASE exec[t].job # Direct /\ exec'[t] = Failed(exec[t].job)
    BY <1>1, <2>1, <2>4, HeldMade, HeldKept DEF Failed
  <2>5. QED
    BY <1>1, <1>7, <2>2, <2>3, <2>4, HeldKept DEF LeavesModel
<1>8. CASE StoresRun(t)
  <2>1. /\ exec[t].job \in JobIds \cup {Direct} /\ exec[t].result \in RunResults
        /\ exec[t].action \in {"complete", "needs_review"}
    BY <1>2, <1>8, HeldShapes DEF StoresRun
  <2>2. exec'[t] \in Held
    BY <1>3, <1>8, <2>1 DEF StoresRun, Held
  <2>3. QED
    BY <1>1, <2>2, HeldKept
<1>9. CASE RecordsEntries(t)
  BY <1>9 DEF RecordsEntries, Held
<1>10. CASE Submits(t)
  <2> DEFINE n == Len(call[t].inserted)
             entries == [i \in 1 .. n |-> Entry(Len(agent_jobs) + i, "queued")]
  <2>1. /\ call[t].inserted \in Seq(Keys) /\ Len(agent_jobs) \in Nat
        /\ JobIds' = 1 .. Len(agent_jobs) + n
    BY <1>1, <1>10, PublishEffect DEF Submits
  <2>2. n \in Nat
    BY <2>1
  <2>3. ASSUME NEW i \in 1 .. n
        PROVE  Entry(Len(agent_jobs) + i, "queued") \in Stated'
    <3>1. Len(agent_jobs) + i \in JobIds'
      BY <2>1, <2>2
    <3>2. ProcessingState("queued") \in TimelineStates
      BY DEF ProcessingState, TimelineStates
    <3>3. QED
      BY <3>1, <3>2 DEF Entry, Stated
  <2>4. entries \in Seq(Stated')
    BY <2>2, <2>3
  <2>5. exec'[t] = Resting \/ exec'[t] = [step |-> "record", entries |-> entries]
    BY <1>10 DEF Submits
  <2> HIDE DEF entries
  <2>6. QED
    BY <2>4, <2>5 DEF Held
<1>11. ASSUME NEW r, NEW e, Settles(t, r, e)
       PROVE  exec'[t] \in Held'
  <2>1. exec[t].job \in JobIds
    BY <1>2, <1>11, HeldShapes DEF Settles
  <2>2. r.state \in JOB_STATES
    BY <1>11 DEF Settles, Commits, Outcome, Row
  <2>3. Entry(exec[t].job, r.state) \in Stated
    BY <2>1, <2>2, EntryStated
  <2> DEFINE entries == <<Entry(exec[t].job, r.state)>>
  <2>4. entries \in Seq(Stated)
    BY <2>3
  <2>5. \/ exec'[t] = [step |-> "park", job |-> exec[t].job]
        \/ exec'[t] = [step |-> "handle", job |-> exec[t].job]
        \/ exec'[t] = [step |-> "record", entries |-> entries]
    BY <1>11 DEF Settles
  <2> HIDE DEF entries
  <2>6. exec'[t] \in Held
    BY <2>1, <2>4, <2>5 DEF Held
  <2>7. QED
    BY <1>1, <2>6, HeldKept
<1>12. CASE Errs(t)
  <2>1. exec[t].step \in {"store", "report"} /\ exec[t].job # Direct
          => exec[t].job \in JobIds
    BY <1>2, HeldShapes
  <2>2. exec'[t] \in Held
    BY <1>12, <2>1 DEF Errs, Held, Failed
  <2>3. QED
    BY <1>1, <2>2, HeldKept
<1>13. QED
  BY <1>4, <1>5, <1>6, <1>7, <1>8, <1>9, <1>10, <1>11, <1>12 DEF Step

\* Its call is one that the command makes, and a handled job has an engine.
LEMMA NextMatches ==
  ASSUME WorkInv, NEW t \in Threads, Step(t)
  PROVE  Matches(exec'[t], call'[t]) /\ Handled(t)'
<1>1. TypeOK /\ CommandInv /\ JobIds \subseteq JobIds'
      /\ \A j \in JobIds : agent_jobs'[j].key = agent_jobs[j].key
  BY JobsStay DEF WorkInv
<1>2. exec[t] \in Held /\ Matches(exec[t], call[t]) /\ Handled(t)
  BY <1>1, Doing
<1>3. CASE Talks(t)
  <2>1. CASE exec'[t] = exec[t]
    <3>1. exec[t].step = "handle" => exec[t].job \in JobIds
      BY <1>2, HeldShapes
    <3>2. QED
      BY <1>1, <1>2, <1>3, <2>1, <3>1 DEF Talks, Handled, HandlerOf
  <2>2. CASE exec'[t] = [step |-> "queue"]
    BY <1>3, <2>2 DEF Talks, Handled
  <2>3. ASSUME NEW j \in JobIds, NEW step \in {"transition", "claim"},
               exec'[t] = [step |-> step, job |-> j]
        PROVE  Matches(exec'[t], call'[t]) /\ Handled(t)'
    BY <1>3, <2>3 DEF Talks, Handled
  <2>4. QED
    BY <1>3, <2>1, <2>2, <2>3 DEF Talks
<1>4. ASSUME NEW r, NEW e, Settles(t, r, e)
      PROVE  Matches(exec'[t], call'[t]) /\ Handled(t)'
  <2>1. call'[t] = Idle
    BY <1>1, <1>4, CommitsEffect DEF Settles
  <2>2. PICK j \in JobIds : j = exec[t].job
    BY <1>2, <1>4, HeldShapes DEF Settles
  <2>3. agent_jobs'[j].key = agent_jobs[j].key
    BY <1>1
  <2>4. exec'[t].step = "handle" => HandlerOf(j) \in Engines /\ exec'[t].job = j
    BY <1>4, <2>2 DEF Settles
  <2>5. exec'[t].step \in {"park", "handle", "record"}
    BY <1>4 DEF Settles
  <2>6. QED
    BY <2>1, <2>3, <2>4, <2>5 DEF Matches, Handled, HandlerOf
<1>5. ASSUME call'[t] = Idle,
             exec'[t].step \in {"rest", "fail", "report", "infer", "store", "record"}
      PROVE  Matches(exec'[t], call'[t]) /\ Handled(t)'
  BY <1>5 DEF Matches, Handled
<1>6. CASE Yields(t)
  BY <1>5, <1>6 DEF Yields, Resting, Failed
<1>7. CASE EntersModel(t)
  BY <1>5, <1>7 DEF EntersModel
<1>8. CASE LeavesModel(t)
  <2>1. call'[t] = Idle
    BY <1>8 DEF LeavesModel
  <2>2. ASSUME NEW result, NEW action,
               exec'[t] = [step |-> "store", job |-> exec[t].job, result |-> result,
                           action |-> action]
        PROVE  Matches(exec'[t], call'[t]) /\ Handled(t)'
    BY <1>5, <2>1, <2>2
  <2>3. ASSUME exec'[t] = Resting \/ exec'[t] = Failed(exec[t].job)
        PROVE  Matches(exec'[t], call'[t]) /\ Handled(t)'
    BY <1>5, <2>1, <2>3 DEF Resting, Failed
  <2>4. QED
    BY <1>8, <2>2, <2>3, Zenon DEF LeavesModel
<1>9. CASE StoresRun(t)
  BY <1>5, <1>9 DEF StoresRun, Resting
<1>10. CASE RecordsEntries(t)
  BY <1>5, <1>10 DEF RecordsEntries, Resting
<1>11. CASE Submits(t)
  BY <1>1, <1>5, <1>11, PublishEffect DEF Submits, Resting
<1>12. CASE Errs(t)
  BY <1>5, <1>12 DEF Errs, Resting, Failed
<1>13. QED
  BY <1>3, <1>4, <1>6, <1>7, <1>8, <1>9, <1>10, <1>11, <1>12 DEF Step

\* Locks, runs, timeline and faults keep their types.
LEMMA NextStored ==
  ASSUME WorkInv, NEW t \in Threads, Step(t)
  PROVE  StoreInv'
<1>1. TypeOK /\ CommandInv /\ JobIds \subseteq JobIds'
  BY JobsStay DEF WorkInv
<1>2. exec[t] \in Held
  BY <1>1, Doing
<1>3. /\ engine_lock \in [Engines -> Threads \cup {NoThread}]
      /\ model_runs \subseteq (JobIds \cup {Direct}) \X RunResults
      /\ processing_jobs \in Seq(Stated)
      /\ faults \in 0 .. MaxFaults /\ MaxFaults \in Nat
  BY WorkerAssumption DEF WorkInv, StoreInv
<1>4. /\ model_runs \subseteq (JobIds' \cup {Direct}) \X RunResults
      /\ processing_jobs \in Seq(Stated')
  <2>1. Stated \subseteq Stated'
    BY <1>1 DEF Stated
  <2>2. QED
    BY <1>1, <1>3, <2>1, SeqGrows
<1>5. /\ engine_lock' \in [Engines -> Threads \cup {NoThread}]
      /\ faults' \in 0 .. MaxFaults
  <2>1. CASE UNCHANGED <<engine_lock, faults>>
    BY <1>3, <2>1
  <2>2. CASE EntersModel(t)
    BY <1>3, <2>2 DEF EntersModel
  <2>3. CASE LeavesModel(t)
    BY <1>3, <2>3 DEF LeavesModel
  <2>4. CASE Errs(t)
    BY <1>3, <2>4 DEF Errs
  <2>5. QED
    BY <2>1, <2>2, <2>3, <2>4
       DEF Step, Talks, Yields, StoresRun, RecordsEntries, Submits, Settles, Alone
<1>6. model_runs' \subseteq (JobIds' \cup {Direct}) \X RunResults
  <2>1. CASE UNCHANGED model_runs
    BY <1>4, <2>1
  <2>2. CASE StoresRun(t)
    <3>1. exec[t].job \in JobIds \cup {Direct} /\ exec[t].result \in RunResults
      BY <1>2, <2>2, HeldShapes DEF StoresRun
    <3>2. QED
      BY <1>1, <1>4, <2>2, <3>1 DEF StoresRun
  <2>3. QED
    BY <2>1, <2>2
       DEF Step, Talks, Yields, EntersModel, LeavesModel, RecordsEntries, Submits,
           Settles, Errs, Alone
<1>7. processing_jobs' \in Seq(Stated')
  <2>1. CASE UNCHANGED processing_jobs
    BY <1>4, <2>1
  <2>2. CASE RecordsEntries(t)
    <3>1. exec[t].entries \in Seq(Stated)
      BY <1>2, <2>2, HeldShapes DEF RecordsEntries
    <3>2. processing_jobs' \in Seq(Stated) /\ UNCHANGED agent_jobs
      BY <1>3, <2>2, <3>1 DEF RecordsEntries, Rows
    <3>3. Stated' = Stated
      BY <3>2 DEF Stated, JobIds
    <3>4. QED
      BY <3>2, <3>3
  <2>3. QED
    BY <2>1, <2>2
       DEF Step, Talks, Yields, EntersModel, LeavesModel, StoresRun, Submits,
           Settles, Errs, Alone
<1>8. QED
  BY <1>5, <1>6, <1>7 DEF StoreInv

\* After a crash every thread rests and every lock is free.
LEMMA CrashWorkInv ==
  ASSUME WorkInv, Crash
  PROVE  WorkInv'
<1>1. TypeOK'
  BY DEF WorkInv, Crash, TypeOK, JobIds
<1>2. /\ exec' = [t \in Threads |-> Resting] /\ call' = [t \in Threads |-> Idle]
      /\ engine_lock' = [e \in Engines |-> NoThread]
      /\ UNCHANGED <<agent_jobs, model_runs, processing_jobs>>
      /\ faults < MaxFaults /\ faults' = faults + 1
  BY DEF Crash, Fault
<1>3. CommandInv'
  BY <1>2 DEF CommandInv, Held, Matches, Handled, Resting
<1>4. /\ model_runs \subseteq (JobIds \cup {Direct}) \X RunResults
      /\ processing_jobs \in Seq(Stated)
      /\ faults \in 0 .. MaxFaults /\ MaxFaults \in Nat
  BY WorkerAssumption DEF WorkInv, StoreInv
<1>5. JobIds' = JobIds /\ Stated' = Stated
  BY <1>2 DEF JobIds, Stated
<1>6. StoreInv'
  BY <1>2, <1>4, <1>5 DEF StoreInv
<1>7. QED
  BY <1>1, <1>3, <1>6 DEF WorkInv

\* A command that no step touches keeps its place.
LEMMA OtherCommands ==
  ASSUME WorkInv, NEW t \in Threads, Step(t), NEW u \in Threads, u # t
  PROVE  /\ exec'[u] \in Held' /\ Matches(exec'[u], call'[u]) /\ Handled(u)'
<1>1. TypeOK /\ CommandInv /\ JobIds \subseteq JobIds'
      /\ \A j \in JobIds : agent_jobs'[j].key = agent_jobs[j].key
  BY JobsStay DEF WorkInv
<1>2. exec'[u] = exec[u] /\ call'[u] = call[u]
  BY DEF Step, OthersStay
<1>3. exec[u] \in Held /\ Matches(exec[u], call[u]) /\ Handled(u)
  BY <1>1, Doing
<1>4. exec'[u] \in Held'
  BY <1>1, <1>2, <1>3, HeldKept
<1>5. exec[u].step = "handle" => exec[u].job \in JobIds
  BY <1>3, HeldShapes
<1>6. QED
  BY <1>1, <1>2, <1>3, <1>4, <1>5 DEF Handled, HandlerOf

LEMMA StepWorkInv == WorkInv /\ [WorkerNext]_wvars => WorkInv'
<1>1. ASSUME WorkInv, UNCHANGED wvars
      PROVE  WorkInv'
  <2>1. UNCHANGED <<agent_jobs, agent_job_events, writer, call, exec, engine_lock,
                    model_runs, processing_jobs, faults>>
    BY <1>1 DEF wvars, vars
  <2>2. JobIds' = JobIds /\ Stated' = Stated /\ Held' = Held
    BY <2>1 DEF JobIds, Stated, Held
  <2>3. TypeOK' /\ StoreInv'
    BY <1>1, <2>1, <2>2 DEF WorkInv, TypeOK, StoreInv
  <2>4. CommandInv'
    BY <1>1, <2>1, <2>2 DEF WorkInv, CommandInv, Handled, HandlerOf
  <2>5. QED
    BY <2>3, <2>4 DEF WorkInv
<1>2. ASSUME WorkInv, WorkerNext
      PROVE  WorkInv'
  <2>1. TypeOK'
    BY <1>2, WorkerTypes
  <2>2. ASSUME NEW t \in Threads, Step(t)
        PROVE  WorkInv'
    <3>1. DOMAIN exec' = Threads
      BY <2>2 DEF Step
    <3>2. ASSUME NEW u \in Threads
          PROVE  exec'[u] \in Held' /\ Matches(exec'[u], call'[u]) /\ Handled(u)'
      BY <1>2, <2>2, NextHeld, NextMatches, OtherCommands
    <3>3. CommandInv'
      BY <3>1, <3>2 DEF CommandInv
    <3>4. StoreInv'
      BY <1>2, <2>2, NextStored
    <3>5. QED
      BY <2>1, <3>3, <3>4 DEF WorkInv
  <2>3. QED
    BY <1>2, <2>2, WorkerSteps, CrashWorkInv
<1>3. QED
  BY <1>1, <1>2

LEMMA InitWorkInv == WorkerInit => WorkInv
<1> SUFFICES ASSUME WorkerInit
             PROVE  WorkInv
  OBVIOUS
<1>1. TypeOK
  BY InitTypeOK DEF WorkerInit
<1>2. exec = [t \in Threads |-> Resting] /\ call = [t \in Threads |-> Idle]
  BY DEF WorkerInit, Init
<1>3. CommandInv
  BY <1>2 DEF CommandInv, Held, Matches, Handled, Resting
<1>4. StoreInv
  BY WorkerAssumption DEF WorkerInit, StoreInv
<1>5. QED
  BY <1>1, <1>3, <1>4 DEF WorkInv

LEMMA WorkerInvariant == WorkerSpec => []WorkInv
  BY InitWorkInv, StepWorkInv, PTL DEF WorkerSpec

LEMMA WorkInvTypes == WorkInv => WorkerTypeOK
<1> SUFFICES ASSUME WorkInv
             PROVE  WorkerTypeOK
  OBVIOUS
<1>1. JobIds \subseteq Nat /\ Direct \in Nat
      /\ RunResults \subseteq Results
  BY JobNumbers DEF WorkInv, Direct, RunResults
<1>2. [job : JobIds, state : TimelineStates] \subseteq
        [job : Nat, state : TimelineStates]
  BY <1>1
<1>3. Seq(Stated) \subseteq Seq([job : Nat, state : TimelineStates])
  BY <1>2, SeqGrows DEF Stated
<1>4. Held \subseteq Command
  BY <1>1, <1>3 DEF Held, Command
<1>5. QED
  BY <1>4 DEF WorkInv, CommandInv, StoreInv, WorkerTypeOK, Stated

(***************************************************************************)
(* Every reachable state of the job commands is well typed: a command      *)
(* names a stored job and, while it runs, the one ledger call it makes.    *)
(***************************************************************************)
THEOREM WorkerTypeCorrect == WorkerSpec => []WorkerTypeOK
  BY WorkerInvariant, WorkInvTypes, PTL

-----------------------------------------------------------------------------
(* What the kinds of step make of the command *)

LEMMA TalkKeeps ==
  ASSUME NEW t \in Threads, Talks(t)
  PROVE  \/ exec'[t] = exec[t]
         \/ /\ exec[t].step = "rest"
            /\ exec'[t].step \in {"queue", "transition", "claim"}
<1>1. ASSUME NEW j, NEW step \in {"transition", "claim"},
             exec'[t] = [step |-> step, job |-> j]
      PROVE  exec'[t].step \in {"queue", "transition", "claim"}
  BY <1>1
<1>2. exec'[t] = [step |-> "queue"] =>
        exec'[t].step \in {"queue", "transition", "claim"}
  OBVIOUS
<1>3. exec[t] = Resting => exec[t].step = "rest"
  BY DEF Resting
<1>4. QED
  BY <1>1, <1>2, <1>3, Zenon DEF Talks

LEMMA LeaveKeeps ==
  ASSUME NEW t \in Threads, LeavesModel(t)
  PROVE  \/ /\ exec'[t].step = "store" /\ exec'[t].job = exec[t].job
            /\ exec'[t].result \in RunResults
         \/ exec'[t].step = "rest" /\ exec[t].job = Direct
         \/ exec'[t].step = "fail" /\ exec'[t].job = exec[t].job
<1>1. ASSUME NEW result \in RunResults, NEW action,
             exec'[t] = [step |-> "store", job |-> exec[t].job, result |-> result,
                         action |-> action]
      PROVE  /\ exec'[t].step = "store" /\ exec'[t].job = exec[t].job
             /\ exec'[t].result \in RunResults
  BY <1>1
<1>2. exec'[t] = Resting => exec'[t].step = "rest"
  BY DEF Resting
<1>3. exec'[t] = Failed(exec[t].job) =>
        exec'[t].step = "fail" /\ exec'[t].job = exec[t].job
  BY DEF Failed
<1>4. QED
  BY <1>1, <1>2, <1>3, Zenon DEF LeavesModel

LEMMA EnterKeeps ==
  ASSUME NEW t \in Threads, EntersModel(t)
  PROVE  \E e \in Engines, j \in JobIds \cup {Direct} :
            /\ engine_lock[e] = NoThread
            /\ engine_lock' = [engine_lock EXCEPT ![e] = t]
            /\ exec'[t].step = "infer" /\ exec'[t].engine = e /\ exec'[t].job = j
            /\ \/ exec[t].step = "rest" /\ j = Direct
               \/ /\ exec[t].step = "handle" /\ j = exec[t].job
                  /\ agent_jobs[j].key \in Confirmed
<1>1. PICK e \in Engines, j \in JobIds \cup {Direct} :
        /\ \/ exec[t] = Resting /\ j = Direct
           \/ /\ exec[t].step = "handle" /\ j = exec[t].job
              /\ agent_jobs[j].key \in Confirmed
        /\ engine_lock[e] = NoThread
        /\ engine_lock' = [engine_lock EXCEPT ![e] = t]
        /\ exec'[t] = [step |-> "infer", job |-> j, engine |-> e]
  BY Zenon DEF EntersModel
<1>2. /\ exec'[t].step = "infer" /\ exec'[t].engine = e /\ exec'[t].job = j
      /\ exec[t] = Resting => exec[t].step = "rest"
  BY <1>1 DEF Resting
<1>3. QED
  BY <1>1, <1>2

-----------------------------------------------------------------------------
(* The model locks *)

\* A step that neither enters nor leaves an engine leaves the locks alone.
LEMMA LocksKept ==
  ASSUME LocksMatchInference, NEW t \in Threads, Step(t), UNCHANGED engine_lock,
         exec'[t] = exec[t] \/ (exec[t].step # "infer" /\ exec'[t].step # "infer")
  PROVE  LocksMatchInference'
  BY DEF LocksMatchInference, Step, OthersStay

LEMMA LocksEntered ==
  ASSUME WorkInv, LocksMatchInference, NEW t \in Threads, Step(t), EntersModel(t)
  PROVE  LocksMatchInference'
<1>1. PICK e \in Engines :
        /\ exec[t].step # "infer" /\ engine_lock[e] = NoThread
        /\ engine_lock' = [engine_lock EXCEPT ![e] = t]
        /\ exec'[t].step = "infer" /\ exec'[t].engine = e
  BY EnterKeeps
<1>2. engine_lock \in [Engines -> Threads \cup {NoThread}]
  BY DEF WorkInv, StoreInv
<1>3. ASSUME NEW d \in Engines, NEW u \in Threads
      PROVE  engine_lock'[d] = u <=> exec'[u].step = "infer" /\ exec'[u].engine = d
  <2>1. engine_lock[d] = u <=> exec[u].step = "infer" /\ exec[u].engine = d
    BY DEF LocksMatchInference
  <2>2. engine_lock[d] # t
    BY <1>1 DEF LocksMatchInference
  <2>3. engine_lock[e] # u
    BY <1>1, QueueAssumption
  <2>4. u # t => exec'[u] = exec[u]
    BY DEF Step, OthersStay
  <2>5. exec'[t].step = "infer" /\ exec'[t].engine = e
    BY <1>1
  <2>6. engine_lock'[d] = IF d = e THEN t ELSE engine_lock[d]
    BY <1>1, <1>2
  <2>7. QED
    BY <2>1, <2>2, <2>3, <2>4, <2>5, <2>6
<1>4. QED
  BY <1>3 DEF LocksMatchInference

LEMMA LocksLeft ==
  ASSUME WorkInv, LocksMatchInference, NEW t \in Threads, Step(t), LeavesModel(t)
  PROVE  LocksMatchInference'
<1>1. exec'[t].step # "infer"
  BY LeaveKeeps
<1>2. /\ exec[t].step = "infer"
      /\ engine_lock' = [engine_lock EXCEPT ![exec[t].engine] = NoThread]
      /\ engine_lock \in [Engines -> Threads \cup {NoThread}]
  BY DEF LeavesModel, WorkInv, StoreInv
<1>3. ASSUME NEW d \in Engines, NEW u \in Threads
      PROVE  engine_lock'[d] = u <=> exec'[u].step = "infer" /\ exec'[u].engine = d
  <2>1. engine_lock[d] = u <=> exec[u].step = "infer" /\ exec[u].engine = d
    BY DEF LocksMatchInference
  <2>2. engine_lock[d] = t <=> exec[t].engine = d
    BY <1>2 DEF LocksMatchInference
  <2>3. u # t => exec'[u] = exec[u]
    BY DEF Step, OthersStay
  <2>4. engine_lock'[d] = IF d = exec[t].engine THEN NoThread ELSE engine_lock[d]
    BY <1>2
  <2>5. QED
    BY <1>1, <2>1, <2>2, <2>3, <2>4, QueueAssumption
<1>4. QED
  BY <1>3 DEF LocksMatchInference

LEMMA StepLocks ==
  WorkInv /\ LocksMatchInference /\ [WorkerNext]_wvars => LocksMatchInference'
<1> SUFFICES ASSUME WorkInv, LocksMatchInference, [WorkerNext]_wvars
             PROVE  LocksMatchInference'
  OBVIOUS
<1>1. CASE UNCHANGED wvars
  BY <1>1 DEF wvars, LocksMatchInference
<1>2. CASE Crash
  <2>1. /\ \A t \in Threads : exec'[t].step = "rest"
        /\ \A e \in Engines : engine_lock'[e] = NoThread
    BY <1>2 DEF Crash, Resting
  <2>2. QED
    BY <2>1, QueueAssumption DEF LocksMatchInference
<1>3. ASSUME NEW t \in Threads, Step(t)
      PROVE  LocksMatchInference'
  <2>1. CASE Talks(t)
    BY <1>3, <2>1, TalkKeeps, LocksKept DEF Talks, Alone
  <2>2. CASE Yields(t)
    BY <1>3, <2>2, LocksKept DEF Yields, Alone, Resting, Failed
  <2>3. CASE EntersModel(t)
    BY <1>3, <2>3, LocksEntered
  <2>4. CASE LeavesModel(t)
    BY <1>3, <2>4, LocksLeft
  <2>5. CASE StoresRun(t)
    BY <1>3, <2>5, LocksKept DEF StoresRun, Resting
  <2>6. CASE RecordsEntries(t)
    BY <1>3, <2>6, LocksKept DEF RecordsEntries, Resting
  <2>7. CASE Submits(t)
    BY <1>3, <2>7, LocksKept DEF Submits, Alone, Resting
  <2>8. ASSUME NEW r, NEW e, Settles(t, r, e)
        PROVE  LocksMatchInference'
    BY <1>3, <2>8, LocksKept DEF Settles, Alone
  <2>9. CASE Errs(t)
    BY <1>3, <2>9, LocksKept DEF Errs, Resting, Failed
  <2>10. QED
    BY <1>3, <2>1, <2>2, <2>3, <2>4, <2>5, <2>6, <2>7, <2>8, <2>9 DEF Step
<1>4. QED
  BY <1>1, <1>2, <1>3, WorkerSteps

LEMMA InitLocks == WorkerInit => LocksMatchInference
  BY QueueAssumption DEF WorkerInit, LocksMatchInference, Resting

(***************************************************************************)
(* A model lock is held exactly while its owner is inside the engine, for  *)
(* every set of engines and threads: it is released whether the engine     *)
(* returns or raises and when the process crashes, and no second thread    *)
(* enters.                                                                 *)
(***************************************************************************)
THEOREM LocksMatch == WorkerSpec => []LocksMatchInference
  BY WorkerInvariant, InitLocks, StepLocks, PTL DEF WorkerSpec

-----------------------------------------------------------------------------
(* No model runs for a job without the confirmation flag *)

Permitted(j) == j # Direct => agent_jobs[j].key \in Confirmed

UsesModel(t) == exec[t].step \in {"infer", "store"}

\* From the engine's lock to the stored run, the job is a confirmed one.
ConfirmInv ==
  /\ \A t \in Threads : UsesModel(t) => Permitted(exec[t].job)
  /\ \A run \in model_runs : Permitted(run[1])

\* The input of a job does not change, so neither does its confirmation.
LEMMA PermittedKept ==
  ASSUME TypeOK, NEW t \in Threads, Step(t), NEW j \in JobIds \cup {Direct},
         Permitted(j)
  PROVE  Permitted(j)'
  BY JobsStay DEF Permitted

LEMMA StepConfirmInv == WorkInv /\ ConfirmInv /\ [WorkerNext]_wvars => ConfirmInv'
<1> SUFFICES ASSUME WorkInv, ConfirmInv, [WorkerNext]_wvars
             PROVE  ConfirmInv'
  OBVIOUS
<1>1. CASE UNCHANGED wvars
  BY <1>1 DEF wvars, vars, ConfirmInv, Permitted, UsesModel
<1>2. CASE Crash
  BY <1>2 DEF Crash, ConfirmInv, Permitted, UsesModel, Resting
<1>3. ASSUME NEW t \in Threads, Step(t)
      PROVE  ConfirmInv'
  <2>1. TypeOK /\ CommandInv /\ exec[t] \in Held
        /\ model_runs \subseteq (JobIds \cup {Direct}) \X RunResults
    BY Doing DEF WorkInv, StoreInv
  <2>2. ASSUME NEW u \in Threads, u # t, UsesModel(u)'
        PROVE  (Permitted(exec[u].job))'
    <3>1. exec'[u] = exec[u]
      BY <1>3, <2>2 DEF Step, OthersStay
    <3>2. exec[u] \in Held /\ exec[u].step \in {"infer", "store"}
      BY <2>1, <2>2, <3>1, Doing DEF UsesModel
    <3>3. PICK j \in JobIds \cup {Direct} : j = exec[u].job
      BY <3>2, HeldShapes
    <3>4. Permitted(j)'
      BY <1>3, <2>1, <3>2, <3>3, PermittedKept DEF ConfirmInv, UsesModel
    <3>5. QED
      BY <3>1, <3>3, <3>4 DEF Permitted
  <2>3. ASSUME UsesModel(t)'
        PROVE  (Permitted(exec[t].job))'
    <3>0. exec'[t].step \in {"infer", "store"}
      BY <2>3 DEF UsesModel
    <3>1. PICK j \in JobIds \cup {Direct} : j = exec'[t].job /\ Permitted(j)
      <4>1. ASSUME exec[t].step \in {"infer", "store"}, exec'[t].job = exec[t].job
            PROVE  \E j \in JobIds \cup {Direct} : j = exec'[t].job /\ Permitted(j)
        <5>1. exec[t].job \in JobIds \cup {Direct}
          BY <2>1, <4>1, HeldShapes
        <5>2. QED
          BY <4>1, <5>1 DEF ConfirmInv, UsesModel
      <4>2. CASE Talks(t)
        BY <3>0, <4>1, <4>2, TalkKeeps
      <4>3. CASE EntersModel(t)
        BY <4>3, EnterKeeps DEF Permitted
      <4>4. CASE LeavesModel(t)
        BY <3>0, <4>1, <4>4, LeaveKeeps DEF LeavesModel
      <4>5. ASSUME NEW r, NEW e, Settles(t, r, e)
            PROVE  FALSE
        BY <3>0, <4>5 DEF Settles
      <4>6. ~Yields(t) /\ ~StoresRun(t) /\ ~RecordsEntries(t) /\ ~Submits(t) /\ ~Errs(t)
        BY <3>0 DEF Yields, StoresRun, RecordsEntries, Submits, Errs, Resting, Failed
      <4>7. QED
        BY <1>3, <4>2, <4>3, <4>4, <4>5, <4>6 DEF Step
    <3>2. Permitted(j)'
      BY <1>3, <2>1, <3>1, PermittedKept
    <3>3. QED
      BY <3>1, <3>2 DEF Permitted
  <2>4. ASSUME NEW run \in model_runs'
        PROVE  Permitted(run[1])'
    <3>1. PICK j \in JobIds \cup {Direct} : j = run[1] /\ Permitted(j)
      <4>1. CASE run \in model_runs
        BY <2>1, <4>1 DEF ConfirmInv
      <4>2. CASE run \notin model_runs
        <5>1. StoresRun(t)
          BY <1>3, <2>4, <4>2 DEF Step, Talks, Yields, EntersModel, LeavesModel,
                          RecordsEntries, Submits, Settles, Errs, Alone
        <5>2. run = <<exec[t].job, exec[t].result>> /\ exec[t].step = "store"
          BY <2>4, <4>2, <5>1 DEF StoresRun
        <5>3. QED
          BY <2>1, <5>2, HeldShapes DEF ConfirmInv, UsesModel
      <4>3. QED
        BY <4>1, <4>2
    <3>2. Permitted(j)'
      BY <1>3, <2>1, <3>1, PermittedKept
    <3>3. QED
      BY <3>1, <3>2
  <2>5. QED
    BY <2>2, <2>3, <2>4 DEF ConfirmInv
<1>4. QED
  BY <1>1, <1>2, <1>3, WorkerSteps

LEMMA InitConfirmInv == WorkerInit => ConfirmInv
  BY DEF WorkerInit, ConfirmInv, UsesModel, Resting

LEMMA ConfirmInvSuffices == WorkInv /\ ConfirmInv => ModelsNeedConfirmation
<1> SUFFICES ASSUME WorkInv, ConfirmInv, NEW j \in JobIds,
                    agent_jobs[j].key \notin Confirmed
             PROVE  /\ \A run \in model_runs : run[1] # j
                    /\ \A t \in Threads : exec[t].step = "infer" => exec[t].job # j
  BY DEF ModelsNeedConfirmation
<1>1. ~Permitted(j)
  BY JobNumbers DEF Permitted, WorkInv
<1>2. QED
  BY <1>1 DEF ConfirmInv, UsesModel

(***************************************************************************)
(* "Without confirmation ... no model is run", for any keys, engines,      *)
(* threads and faults: neither an inference in progress nor a stored run   *)
(* belongs to a job whose input lacks the flag.                            *)
(***************************************************************************)
THEOREM ConfirmationNeeded == WorkerSpec => []ModelsNeedConfirmation
  BY WorkerInvariant, InitConfirmInv, StepConfirmInv, ConfirmInvSuffices, PTL
     DEF WorkerSpec

-----------------------------------------------------------------------------
(* What a transition makes of the job's result and state *)

\* The result a row shows after a commit is the row's own, the empty one or the
\* one that is reported.
LEMMA SettledResult ==
  ASSUME NEW t \in Threads, NEW r, NEW e, Settles(t, r, e)
  PROVE  \/ r.result = agent_jobs[call[t].job].result
         \/ r.result = EmptyResult
         \/ /\ call[t].action \in {"complete", "needs_review"}
            /\ r.result = call[t].payload
  BY DEF Settles, Commits, Outcome

\* A commit leaves a job running only when it starts it.
LEMMA SettledState ==
  ASSUME NEW t \in Threads, NEW r, NEW e, Settles(t, r, e)
  PROVE  r.state = "running" => call[t].action = "start"
  BY DEF Settles, Commits, Outcome

-----------------------------------------------------------------------------
(* A reported result is that of a stored run *)

\* Results come from the worker only.
WorkerReports == ApiActions \cap {"complete", "needs_review"} = {}

\* A result on its way to the ledger is stored first.
RunKept(t) ==
  exec[t].step = "report" /\ exec[t].result \in RunResults
    => <<exec[t].job, exec[t].result>> \in model_runs

RunInv == ReportedRunStored /\ \A t \in Threads : RunKept(t)

LEMMA RunsGrow ==
  ASSUME NEW t \in Threads, Step(t)
  PROVE  model_runs \subseteq model_runs'
  BY DEF Step, Talks, Yields, EntersModel, LeavesModel, StoresRun, RecordsEntries,
         Submits, Settles, Errs, Alone

LEMMA StepRunInv ==
  ASSUME WorkerReports
  PROVE  WorkInv /\ RunInv /\ [WorkerNext]_wvars => RunInv'
<1> SUFFICES ASSUME WorkInv, RunInv, [WorkerNext]_wvars
             PROVE  RunInv'
  OBVIOUS
<1>0. EmptyResult \notin RunResults /\ Unconfirmed \notin RunResults
  BY DEF RunResults
<1>1. CASE UNCHANGED wvars
  BY <1>1 DEF wvars, vars, RunInv, RunKept, ReportedRunStored, JobIds
<1>2. CASE Crash
  BY <1>2 DEF Crash, RunInv, RunKept, ReportedRunStored, JobIds, Resting
<1>3. ASSUME NEW t \in Threads, Step(t)
      PROVE  RunInv'
  <2>1. TypeOK /\ model_runs \subseteq model_runs'
    BY <1>3, RunsGrow DEF WorkInv
  <2>2. ASSUME NEW u \in Threads, u # t
        PROVE  RunKept(u)'
    BY <1>3, <2>1, <2>2 DEF Step, OthersStay, RunInv, RunKept
  <2>3. RunKept(t)'
    <3>1. CASE Talks(t)
      <4>1. exec'[t].step = "report" => exec'[t] = exec[t]
        BY <3>1, TalkKeeps
      <4>2. QED
        BY <2>1, <4>1 DEF RunInv, RunKept
    <3>2. CASE Yields(t)
      BY <1>0, <3>2 DEF Yields, RunKept, Resting, Failed
    <3>3. CASE EntersModel(t)
      BY <3>3, EnterKeeps DEF RunKept
    <3>4. CASE LeavesModel(t)
      BY <3>4, LeaveKeeps DEF RunKept
    <3>5. CASE StoresRun(t)
      BY <3>5 DEF StoresRun, RunKept, Resting
    <3>6. ASSUME NEW r, NEW e, Settles(t, r, e)
          PROVE  RunKept(t)'
      BY <3>6 DEF Settles, RunKept
    <3>7. CASE RecordsEntries(t) \/ Submits(t) \/ Errs(t)
      BY <3>7 DEF RecordsEntries, Submits, Errs, RunKept, Resting, Failed
    <3>8. QED
      BY <1>3, <3>1, <3>2, <3>3, <3>4, <3>5, <3>6, <3>7 DEF Step
  <2>4. ReportedRunStored'
    <3>1. CASE UNCHANGED Rows
      BY <2>1, <3>1 DEF Rows, RunInv, ReportedRunStored, JobIds
    <3>2. CASE Submits(t)
      <4>1. FinishEnqueue(t)
        BY <3>2 DEF Submits
      <4>2. ASSUME NEW j \in JobIds', agent_jobs'[j].result \in RunResults
            PROVE  <<j, agent_jobs'[j].result>> \in model_runs'
        <5>1. CASE j \in JobIds
          BY <2>1, <4>1, <4>2, <5>1, PublishEffect DEF RunInv, ReportedRunStored
        <5>2. CASE j \notin JobIds
          <6>1. PICK i \in 1 .. Len(call[t].inserted) : j = Len(agent_jobs) + i
            BY <2>1, <4>1, <4>2, <5>2, NewJob
          <6>2. agent_jobs'[j] = NewRow(call[t].inserted[i], call[t].max_attempts)
            BY <2>1, <4>1, <6>1, PublishEffect
          <6>3. QED
            BY <1>0, <4>2, <6>2 DEF NewRow
        <5>3. QED
          BY <5>1, <5>2
      <4>3. QED
        BY <4>2 DEF ReportedRunStored
    <3>3. ASSUME NEW r, NEW e, Settles(t, r, e)
          PROVE  ReportedRunStored'
      <4>1. Commits(t, r, e) /\ call[t].job = exec[t].job
        BY <3>3 DEF Settles
      <4>2. PICK i \in JobIds : i = call[t].job
        BY <4>1 DEF Commits
      <4>3. /\ JobIds' = JobIds /\ agent_jobs'[i] = r
            /\ \A j \in JobIds : j # i => agent_jobs'[j] = agent_jobs[j]
        BY <2>1, <4>1, <4>2, CommitsEffect
      <4>4. call[t].action \in {"complete", "needs_review"}
              => /\ exec[t].step \in {"park", "report"}
                 /\ exec[t].step = "park" => call[t].payload = EmptyResult
                 /\ exec[t].step = "report" => call[t].payload = exec[t].result
        BY <3>3 DEF Settles, Asked, WorkerReports
      <4>5. ASSUME r.result \in RunResults
            PROVE  <<i, r.result>> \in model_runs
        <5>1. CASE r.result = agent_jobs[i].result
          BY <4>5, <5>1 DEF RunInv, ReportedRunStored
        <5>2. CASE /\ call[t].action \in {"complete", "needs_review"}
                   /\ r.result = call[t].payload
          BY <1>0, <4>1, <4>2, <4>4, <4>5, <5>2 DEF RunInv, RunKept
        <5>3. QED
          BY <1>0, <3>3, <4>2, <4>5, <5>1, <5>2, SettledResult
      <4>6. QED
        BY <2>1, <4>3, <4>5 DEF RunInv, ReportedRunStored
    <3>4. QED
      BY <1>3, <3>1, <3>2, <3>3
         DEF Step, Talks, Yields, EntersModel, LeavesModel, StoresRun,
             RecordsEntries, Errs, Rows
  <2>5. QED
    BY <2>2, <2>3, <2>4 DEF RunInv
<1>4. QED
  BY <1>1, <1>2, <1>3, WorkerSteps

LEMMA InitRunInv == WorkerInit => RunInv
  BY DEF WorkerInit, Init, RunInv, RunKept, ReportedRunStored, JobIds, Resting

(***************************************************************************)
(* When only the worker reports results, the result a job shows is that of *)
(* a model run stored for this very job, for any number of threads, jobs   *)
(* and faults: whatever crashed, was rolled back, cancelled or retried.    *)
(***************************************************************************)
THEOREM ReportedRunsStored ==
  ASSUME WorkerReports
  PROVE  WorkerSpec => []ReportedRunStored
<1>1. WorkInv /\ RunInv /\ [WorkerNext]_wvars => RunInv'
  BY StepRunInv
<1>2. RunInv => ReportedRunStored
  BY DEF RunInv
<1>3. QED
  BY <1>1, <1>2, WorkerInvariant, InitRunInv, PTL DEF WorkerSpec

-----------------------------------------------------------------------------
(* Without a fault no running job is left behind *)

\* The thread that executes a running job goes on with it, unless a fault ends
\* the command.
LEMMA ExecutingKept ==
  ASSUME TypeOK, CommandInv, NEW t \in Threads, Step(t), ~Errs(t), UNCHANGED Rows,
         NEW j \in JobIds, Executing(t, j), agent_jobs[j].state = "running"
  PROVE  Executing(t, j)'
<1>1. /\ exec[t].step \in {"park", "handle", "infer", "store", "report", "fail"}
      /\ exec[t].job = j /\ exec[t].job # Direct
  BY JobNumbers DEF Executing
<1>2. CASE Talks(t)
  BY <1>1, <1>2, TalkKeeps DEF Executing
<1>3. CASE Yields(t)
  BY <1>1, <1>3 DEF Yields, Executing, Failed
<1>4. CASE EntersModel(t)
  BY <1>1, <1>4, EnterKeeps DEF Executing
<1>5. CASE LeavesModel(t)
  BY <1>1, <1>5, LeaveKeeps DEF Executing
<1>6. CASE StoresRun(t)
  BY <1>1, <1>6 DEF StoresRun, Executing
<1>7. ~RecordsEntries(t) /\ ~Submits(t)
  BY <1>1 DEF RecordsEntries, Submits
<1>8. ASSUME NEW r, NEW e, Settles(t, r, e)
      PROVE  Executing(t, j)'
  <2>1. Commits(t, r, e) /\ call[t].job = j /\ exec[t].step # "transition"
        /\ exec[t].step # "claim" /\ Asked(exec[t], call[t].action, call[t].payload)
    BY <1>1, <1>8 DEF Settles
  <2>2. agent_jobs'[j] = r
    BY <2>1, CommitsEffect
  <2>3. call[t].action = "start"
    BY <1>8, <2>2, SettledState DEF Rows
  <2>4. exec[t].step = "report" => exec[t].action \in {"complete", "needs_review"}
    BY Doing, HeldShapes
  <2>5. QED
    BY <1>1, <2>1, <2>3, <2>4 DEF Asked
<1>9. QED
  BY <1>2, <1>3, <1>4, <1>5, <1>6, <1>7, <1>8 DEF Step

LEMMA StepOrphans ==
  ASSUME "start" \notin ApiActions
  PROVE  WorkInv /\ OrphansNeedFault /\ [WorkerNext]_wvars => OrphansNeedFault'
<1> SUFFICES ASSUME WorkInv, OrphansNeedFault, [WorkerNext]_wvars
             PROVE  OrphansNeedFault'
  OBVIOUS
<1>0. faults \in Nat
  BY WorkerAssumption DEF WorkInv, StoreInv
<1>1. CASE UNCHANGED wvars
  BY <1>1 DEF wvars, vars, OrphansNeedFault, Executing, JobIds
<1>2. CASE Crash
  BY <1>0, <1>2 DEF Crash, Fault, OrphansNeedFault
<1>3. ASSUME NEW t \in Threads, Step(t)
      PROVE  OrphansNeedFault'
  <2>1. TypeOK /\ CommandInv
    BY DEF WorkInv
  <2>2. CASE Errs(t)
    BY <1>0, <2>2 DEF Errs, OrphansNeedFault
  <2>3. CASE faults > 0 /\ ~Errs(t)
    BY <1>3, <2>3
       DEF Step, Talks, Yields, EntersModel, LeavesModel, StoresRun, RecordsEntries,
           Submits, Settles, Alone, OrphansNeedFault
  <2>4. ASSUME ~Errs(t), ~(faults > 0), NEW j \in JobIds',
               agent_jobs'[j].state = "running"
        PROVE  \E u \in Threads : Executing(u, j)'
    <3>1. ASSUME NEW u \in Threads, u # t, Executing(u, j)
          PROVE  Executing(u, j)'
      BY <1>3, <3>1 DEF Step, OthersStay, Executing
    <3>2. CASE UNCHANGED Rows
      <4>1. j \in JobIds /\ agent_jobs[j].state = "running"
        BY <2>4, <3>2 DEF Rows, JobIds
      <4>2. PICK u \in Threads : Executing(u, j)
        BY <2>4, <4>1 DEF OrphansNeedFault
      <4>3. Executing(u, j)'
        BY <1>3, <2>1, <2>4, <3>1, <3>2, <4>1, <4>2, ExecutingKept
      <4>4. QED
        BY <4>3
    <3>3. CASE Submits(t)
      <4>1. FinishEnqueue(t) /\ exec[t].step = "queue"
        BY <3>3 DEF Submits
      <4>2. j \in JobIds
        <5>1. ASSUME j \notin JobIds
              PROVE  FALSE
          <6>1. PICK i \in 1 .. Len(call[t].inserted) : j = Len(agent_jobs) + i
            BY <2>1, <2>4, <4>1, <5>1, NewJob
          <6>2. agent_jobs'[j] = NewRow(call[t].inserted[i], call[t].max_attempts)
            BY <2>1, <4>1, <6>1, PublishEffect
          <6>3. QED
            BY <2>4, <6>2 DEF NewRow
        <5>2. QED
          BY <5>1
      <4>3. agent_jobs[j].state = "running"
        BY <2>1, <2>4, <4>1, <4>2, PublishEffect
      <4>4. PICK u \in Threads : Executing(u, j)
        BY <2>4, <4>2, <4>3 DEF OrphansNeedFault
      <4>5. u # t
        BY <4>1, <4>4 DEF Executing
      <4>6. QED
        BY <3>1, <4>4, <4>5
    <3>4. ASSUME NEW r, NEW e, Settles(t, r, e)
          PROVE  \E u \in Threads : Executing(u, j)'
      <4>1. Commits(t, r, e) /\ call[t].job = exec[t].job
        BY <3>4 DEF Settles
      <4>2. PICK i \in JobIds : i = call[t].job
        BY <4>1 DEF Commits
      <4>3. /\ JobIds' = JobIds /\ agent_jobs'[i] = r
            /\ \A k \in JobIds : k # i => agent_jobs'[k] = agent_jobs[k]
        BY <2>1, <4>1, <4>2, CommitsEffect
      <4>4. CASE j = i
        <5>1. call[t].action = "start"
          BY <2>4, <3>4, <4>3, <4>4, SettledState
        <5>2. exec[t].step \notin {"transition", "park", "report", "fail"}
          <6>1. PICK action : action = call[t].action /\ action = "start"
            BY <5>1
          <6>2. exec[t].step = "report" =>
                  exec[t].action \in {"complete", "needs_review"}
            BY Doing, HeldShapes DEF WorkInv
          <6>3. QED
            BY <3>4, <6>1, <6>2 DEF Settles, Asked
        <5>3. exec'[t].step \in {"park", "handle"} /\ exec'[t].job = exec[t].job
          BY <3>4, <5>2 DEF Settles
        <5>4. QED
          BY <4>1, <4>2, <4>4, <5>3 DEF Executing
      <4>5. CASE j # i
        <5>1. j \in JobIds /\ agent_jobs[j].state = "running"
          BY <2>4, <4>3, <4>5
        <5>2. PICK u \in Threads : Executing(u, j)
          BY <2>4, <5>1 DEF OrphansNeedFault
        <5>3. u # t
          BY <4>1, <4>2, <4>5, <5>2 DEF Executing
        <5>4. QED
          BY <3>1, <5>2, <5>3
      <4>6. QED
        BY <4>4, <4>5
    <3>5. QED
      BY <1>3, <2>4, <3>2, <3>3, <3>4
         DEF Step, Talks, Yields, EntersModel, LeavesModel, StoresRun,
             RecordsEntries, Rows
  <2>5. QED
    BY <2>2, <2>3, <2>4 DEF OrphansNeedFault
<1>4. QED
  BY <1>1, <1>2, <1>3, WorkerSteps

LEMMA InitOrphans == WorkerInit => OrphansNeedFault
  BY DEF WorkerInit, Init, OrphansNeedFault, JobIds

(***************************************************************************)
(* A running job that no thread is executing is the work of a fault, for   *)
(* any number of threads and jobs, when jobs are started by the worker     *)
(* only: racing claims, cancellations, requeues, refused reports and busy  *)
(* models leave none behind.                                               *)
(***************************************************************************)
THEOREM OrphansComeOfFaults ==
  ASSUME "start" \notin ApiActions
  PROVE  WorkerSpec => []OrphansNeedFault
<1>1. WorkInv /\ OrphansNeedFault /\ [WorkerNext]_wvars => OrphansNeedFault'
  BY StepOrphans
<1>2. QED
  BY <1>1, WorkerInvariant, InitOrphans, PTL DEF WorkerSpec

-----------------------------------------------------------------------------
(* Counting in sequences *)

Positions(s, x) == {i \in DOMAIN s : s[i] = x}

InState(trail, state) == {i \in DOMAIN trail : trail[i].state = state}

Distinct(s) == \A i, k \in DOMAIN s : s[i] = s[k] => i = k

LEMMA PositionsFinite ==
  ASSUME NEW S, NEW s \in Seq(S), NEW x
  PROVE  /\ IsFiniteSet(Positions(s, x)) /\ Cardinality(Positions(s, x)) \in Nat
         /\ IsFiniteSet(InState(s, x)) /\ Cardinality(InState(s, x)) \in Nat
<1>1. DOMAIN s = 1 .. Len(s) /\ Len(s) \in Nat
  OBVIOUS
<1>2. IsFiniteSet(DOMAIN s)
  BY <1>1, FS_Interval
<1>3. Positions(s, x) \subseteq DOMAIN s /\ InState(s, x) \subseteq DOMAIN s
  BY DEF Positions, InState
<1>4. QED
  BY <1>2, <1>3, FS_Subset, FS_CardinalityType

\* A concatenation has the positions of its first part, and one more for an
\* element of its second.
LEMMA PositionsConcat ==
  ASSUME NEW S, NEW u \in Seq(S), NEW v \in Seq(S), Distinct(v), NEW x
  PROVE  Cardinality(Positions(u \o v, x)) =
           Cardinality(Positions(u, x)) + IF x \in {v[i] : i \in DOMAIN v} THEN 1 ELSE 0
<1> DEFINE w == u \o v
<1>1. /\ w \in Seq(S) /\ Len(w) = Len(u) + Len(v)
      /\ Len(u) \in Nat /\ Len(v) \in Nat
      /\ DOMAIN w = 1 .. Len(w) /\ DOMAIN u = 1 .. Len(u) /\ DOMAIN v = 1 .. Len(v)
  OBVIOUS
<1>2. \A i \in 1 .. Len(u) : w[i] = u[i]
  OBVIOUS
<1>3. \A i \in 1 .. Len(v) : w[Len(u) + i] = v[i]
  BY ConcatTail
<1>4. \A i \in DOMAIN w : i \notin DOMAIN u =>
        i - Len(u) \in DOMAIN v /\ w[i] = v[i - Len(u)]
  <2>1. ASSUME NEW i \in DOMAIN w, i \notin DOMAIN u
        PROVE  i - Len(u) \in 1 .. Len(v) /\ i = Len(u) + (i - Len(u))
    <3> HIDE DEF w
    <3> QED
      BY <1>1, <2>1
  <2>2. QED
    BY <1>1, <1>3, <2>1
<1>5. IsFiniteSet(Positions(u, x)) /\ Cardinality(Positions(u, x)) \in Nat
  BY PositionsFinite
<1> HIDE DEF w
<1>6. CASE x \notin {v[i] : i \in DOMAIN v}
  <2>1. Positions(w, x) = Positions(u, x)
    BY <1>1, <1>2, <1>4, <1>6 DEF Positions
  <2>2. QED
    BY <1>5, <1>6, <2>1 DEF w
<1>7. CASE x \in {v[i] : i \in DOMAIN v}
  <2>1. PICK k \in DOMAIN v : v[k] = x
    BY <1>7
  <2>2. Len(u) + k \in DOMAIN w /\ Len(u) + k \notin DOMAIN u /\ w[Len(u) + k] = x
    BY <1>1, <1>3, <2>1
  <2>3. \A i \in DOMAIN w : i \notin DOMAIN u /\ w[i] = x => i = Len(u) + k
    BY <1>1, <1>4, <2>1 DEF Distinct
  <2>4. Positions(w, x) = Positions(u, x) \cup {Len(u) + k}
    BY <1>1, <1>2, <2>2, <2>3 DEF Positions
  <2>5. Len(u) + k \notin Positions(u, x)
    BY <2>2 DEF Positions
  <2>6. Cardinality(Positions(w, x)) = Cardinality(Positions(u, x)) + 1
    BY <1>5, <2>4, <2>5, FS_AddElement
  <2>7. QED
    BY <1>7, <2>6 DEF w
<1>8. QED
  BY <1>6, <1>7

\* An appended event is one more of its state.
LEMMA StatesAppended ==
  ASSUME NEW S, NEW trail \in Seq(S), NEW e \in S, NEW state
  PROVE  Cardinality(InState(Append(trail, e), state)) =
           Cardinality(InState(trail, state)) + IF e.state = state THEN 1 ELSE 0
<1> DEFINE w == Append(trail, e)
           n == Len(trail) + 1
<1>1. /\ DOMAIN w = 1 .. n /\ DOMAIN trail = 1 .. Len(trail) /\ Len(trail) \in Nat
      /\ w[n] = e /\ \A i \in 1 .. Len(trail) : w[i] = trail[i]
  OBVIOUS
<1>2. 1 .. n = (1 .. Len(trail)) \cup {n} /\ n \notin 1 .. Len(trail)
  BY <1>1
<1>3. IsFiniteSet(InState(trail, state)) /\ Cardinality(InState(trail, state)) \in Nat
  BY PositionsFinite
<1> HIDE DEF w, n
<1>4. n \notin InState(trail, state)
  BY <1>1, <1>2 DEF InState
<1>5. CASE e.state = state
  <2>1. InState(w, state) = InState(trail, state) \cup {n}
    BY <1>1, <1>2, <1>5 DEF InState
  <2>2. Cardinality(InState(w, state)) = Cardinality(InState(trail, state)) + 1
    BY <1>3, <1>4, <2>1, FS_AddElement
  <2>3. QED
    BY <1>5, <2>2 DEF w
<1>6. CASE e.state # state
  <2>1. InState(w, state) = InState(trail, state)
    BY <1>1, <1>2, <1>6 DEF InState
  <2>2. QED
    BY <1>3, <1>6, <2>1 DEF w
<1>7. QED
  BY <1>5, <1>6

-----------------------------------------------------------------------------
(* The timeline shows only transitions that were committed *)

\* Thread t is about to record that job j is in state.
Records(t, j, state) ==
  /\ exec[t].step = "record"
  /\ Entry(j, state) \in {exec[t].entries[i] : i \in DOMAIN exec[t].entries}

Waiting(j, state) == {t \in Threads : Records(t, j, state)}

\* The entries there are and those still to come are backed by events.
Backed(j, state) ==
  Shown(j, state) + Cardinality(Waiting(j, state)) <= Happened(j, state)

DistinctEntries(t) == exec[t].step = "record" => Distinct(exec[t].entries)

BackedInv ==
  /\ \A j \in JobIds, state \in JOB_STATES : Backed(j, state)
  /\ \A t \in Threads : DistinctEntries(t)

\* Different states of the ledger are shown differently.
LEMMA EntriesDiffer ==
  ASSUME NEW i, NEW j, NEW a \in JOB_STATES, NEW b \in JOB_STATES,
         Entry(i, a) = Entry(j, b)
  PROVE  i = j /\ a = b
<1>1. i = j /\ ProcessingState(a) = ProcessingState(b)
  BY DEF Entry
<1>2. QED
  BY <1>1 DEF ProcessingState, JOB_STATES

\* The three counts are numbers.
LEMMA Counts ==
  ASSUME WorkInv, NEW j \in JobIds, NEW state
  PROVE  /\ Shown(j, state) \in Nat /\ Happened(j, state) \in Nat
         /\ Shown(j, state) = Cardinality(Positions(processing_jobs, Entry(j, state)))
         /\ Happened(j, state) = Cardinality(InState(agent_job_events[j], state))
         /\ IsFiniteSet(Waiting(j, state)) /\ Cardinality(Waiting(j, state)) \in Nat
<1>1. processing_jobs \in Seq(Stated) /\ agent_job_events[j] \in Seq(Event)
  BY DEF WorkInv, StoreInv, TypeOK, JobIds
<1>2. /\ Shown(j, state) = Cardinality(Positions(processing_jobs, Entry(j, state)))
      /\ Happened(j, state) = Cardinality(InState(agent_job_events[j], state))
  BY DEF Shown, Happened, Positions, InState
<1>3. Waiting(j, state) \in SUBSET Threads
  BY DEF Waiting
<1>4. IsFiniteSet(Waiting(j, state)) /\ Cardinality(Waiting(j, state)) \in Nat
  BY <1>3, QueueAssumption, FS_Subset, FS_CardinalityType
<1>5. QED
  BY <1>1, <1>2, <1>4, PositionsFinite

\* Other threads have the same entries to record as before.
LEMMA OthersRecord ==
  ASSUME NEW t \in Threads, Step(t), NEW u \in Threads, u # t, NEW j, NEW state
  PROVE  Records(u, j, state)' <=> Records(u, j, state)
<1>1. exec'[u] = exec[u]
  BY DEF Step, OthersStay
<1>2. QED
  BY <1>1 DEF Records, Entry

\* A step that adds no entry to record and no row to the timeline.
LEMMA BackedKept ==
  ASSUME WorkInv, WorkInv', NEW j \in JobIds, NEW state \in JOB_STATES,
         Backed(j, state), UNCHANGED processing_jobs, JobIds \subseteq JobIds',
         Happened(j, state)' = Happened(j, state),
         Waiting(j, state)' \subseteq Waiting(j, state)
  PROVE  Backed(j, state)'
<1>1. /\ Shown(j, state) \in Nat /\ Happened(j, state) \in Nat
      /\ IsFiniteSet(Waiting(j, state)) /\ Cardinality(Waiting(j, state)) \in Nat
  BY Counts
<1>2. /\ Cardinality(Waiting(j, state)') \in Nat
      /\ Cardinality(Waiting(j, state)') <= Cardinality(Waiting(j, state))
  BY <1>1, FS_Subset, FS_CardinalityType
<1>3. Shown(j, state)' = Shown(j, state)
  BY DEF Shown, Entry
<1>4. QED
  BY <1>1, <1>2, <1>3 DEF Backed

\* The thread has nothing to record after most steps.
LEMMA NothingToRecord ==
  ASSUME NEW t \in Threads,
         \/ Talks(t) \/ Yields(t) \/ EntersModel(t) \/ LeavesModel(t)
         \/ StoresRun(t) \/ RecordsEntries(t) \/ Errs(t)
  PROVE  exec'[t].step = "record" => Talks(t) /\ exec'[t] = exec[t]
<1>1. CASE Talks(t)
  BY <1>1, TalkKeeps
<1>2. CASE Yields(t)
  BY <1>2 DEF Yields, Resting, Failed
<1>3. CASE EntersModel(t)
  BY <1>3, EnterKeeps
<1>4. CASE LeavesModel(t)
  BY <1>4, LeaveKeeps
<1>5. CASE StoresRun(t) \/ RecordsEntries(t) \/ Errs(t)
  BY <1>5 DEF StoresRun, RecordsEntries, Errs, Resting, Failed
<1>6. QED
  BY <1>1, <1>2, <1>3, <1>4, <1>5

\* Steps that leave the ledger's rows alone.
LEMMA QuietBacked ==
  ASSUME WorkInv, WorkInv', BackedInv, NEW t \in Threads, Step(t),
         \/ Talks(t) \/ Yields(t) \/ EntersModel(t) \/ LeavesModel(t)
         \/ StoresRun(t) \/ Errs(t)
  PROVE  BackedInv'
<1>1. UNCHANGED Rows /\ UNCHANGED processing_jobs /\ JobIds' = JobIds
  BY DEF Talks, Yields, EntersModel, LeavesModel, StoresRun, Errs, Rows, Alone, JobIds
<1>2. exec'[t].step = "record" => exec'[t] = exec[t]
  BY NothingToRecord
<1>3. ASSUME NEW j \in JobIds, NEW state \in JOB_STATES
      PROVE  Backed(j, state)'
  <2>1. ASSUME NEW u \in Threads, Records(u, j, state)'
        PROVE  Records(u, j, state)
    <3>1. CASE u = t
      BY <1>2, <2>1, <3>1 DEF Records, Entry
    <3>2. CASE u # t
      BY <2>1, <3>2, OthersRecord
    <3>3. QED
      BY <3>1, <3>2
  <2>2. Waiting(j, state)' \subseteq Waiting(j, state)
    BY <2>1 DEF Waiting
  <2>3. Happened(j, state)' = Happened(j, state)
    BY <1>1 DEF Happened, Rows
  <2>4. Backed(j, state)
    BY DEF BackedInv
  <2>5. QED
    BY <1>1, <2>2, <2>3, <2>4, BackedKept
<1>4. ASSUME NEW u \in Threads
      PROVE  DistinctEntries(u)'
  BY <1>2 DEF Step, OthersStay, BackedInv, DistinctEntries
<1>5. QED
  BY <1>1, <1>3, <1>4 DEF BackedInv

\* The timeline transaction: entries that were waiting are shown.
LEMMA RecordBacked ==
  ASSUME WorkInv, WorkInv', BackedInv, NEW t \in Threads, Step(t), RecordsEntries(t)
  PROVE  BackedInv'
<1>1. /\ UNCHANGED Rows /\ JobIds' = JobIds
      /\ processing_jobs' = processing_jobs \o exec[t].entries
      /\ exec[t].step = "record" /\ exec'[t].step # "record"
  BY DEF RecordsEntries, Rows, JobIds, Resting
<1>2. exec[t].entries \in Seq(Stated) /\ processing_jobs \in Seq(Stated)
      /\ Distinct(exec[t].entries)
  BY <1>1, Doing, HeldShapes DEF WorkInv, StoreInv, BackedInv, DistinctEntries
<1>3. ASSUME NEW j \in JobIds, NEW state \in JOB_STATES
      PROVE  Backed(j, state)'
  <2> DEFINE w == Waiting(j, state)
             x == Entry(j, state)
             sh == Cardinality(Positions(processing_jobs, x))
             h == Cardinality(InState(agent_job_events[j], state))
  <2>1. /\ sh \in Nat /\ h \in Nat /\ IsFiniteSet(w) /\ Cardinality(w) \in Nat
        /\ sh + Cardinality(w) <= h
    BY Counts DEF BackedInv, Backed
  <2>2. /\ Shown(j, state)' =
             sh + IF Records(t, j, state) THEN 1 ELSE 0
        /\ Happened(j, state)' = h
    <3>1. Shown(j, state)' = Cardinality(Positions(processing_jobs', x))
      BY DEF Shown, Positions, Entry
    <3>2. Cardinality(Positions(processing_jobs', x)) =
            sh + IF x \in {exec[t].entries[i] : i \in DOMAIN exec[t].entries}
                 THEN 1 ELSE 0
      BY <1>1, <1>2, PositionsConcat
    <3>3. Happened(j, state)' = h
      BY <1>1 DEF Happened, InState, Rows
    <3>4. QED
      BY <1>1, <3>1, <3>2, <3>3 DEF Records
  <2>3. w' = w \ {t}
    <3>1. ~Records(t, j, state)'
      BY <1>1 DEF Records
    <3>2. QED
      BY <3>1, OthersRecord DEF Waiting
  <2>4. CASE Records(t, j, state)
    <3>1. t \in w
      BY <2>4 DEF Waiting
    <3>2. Cardinality(w') = Cardinality(w) - 1
      BY <2>1, <2>3, <3>1, FS_RemoveElement
    <3> HIDE DEF sh, h, w
    <3>3. QED
      BY <2>1, <2>2, <2>4, <3>2 DEF Backed, w
  <2>5. CASE ~Records(t, j, state)
    <3>1. Cardinality(w') <= Cardinality(w) /\ Cardinality(w') \in Nat
      BY <2>1, <2>3, FS_Subset, FS_CardinalityType
    <3> HIDE DEF sh, h, w
    <3>2. QED
      BY <2>1, <2>2, <2>5, <3>1 DEF Backed, w
  <2>6. QED
    BY <2>4, <2>5
<1>4. ASSUME NEW u \in Threads
      PROVE  DistinctEntries(u)'
  BY <1>1 DEF Step, OthersStay, BackedInv, DistinctEntries
<1>5. QED
  BY <1>1, <1>3, <1>4 DEF BackedInv

\* A committed transition: its event is there before its entry.
LEMMA SettleBacked ==
  ASSUME WorkInv, WorkInv', BackedInv, NEW t \in Threads, Step(t),
         NEW r, NEW e, Settles(t, r, e)
  PROVE  BackedInv'
<1>1. /\ Commits(t, r, e) /\ call[t].job = exec[t].job /\ UNCHANGED processing_jobs
      /\ TypeOK
  BY DEF Settles, Alone, WorkInv
<1>2. PICK i \in JobIds : i = call[t].job
  BY <1>1 DEF Commits
<1>3. /\ JobIds' = JobIds /\ agent_job_events[i] \in Seq(Event) /\ e \in Event
      /\ agent_job_events'[i] = Append(agent_job_events[i], e)
      /\ \A j \in JobIds : j # i => agent_job_events'[j] = agent_job_events[j]
      /\ e.state = r.state /\ r.state \in JOB_STATES
  <2>1. r \in Row /\ e \in Event /\ e.state = r.state
    BY <1>1 DEF Commits, Outcome
  <2>2. r.state \in JOB_STATES
    BY <2>1 DEF Row
  <2>3. /\ JobIds' = JobIds
        /\ agent_job_events[call[t].job] \in Seq(Event)
        /\ agent_job_events'[call[t].job] =
             Append(agent_job_events[call[t].job], e)
        /\ \A j \in JobIds : j # call[t].job =>
             agent_job_events'[j] = agent_job_events[j]
    BY <1>1 DEF Commits, TypeOK, JobIds
  <2>4. QED
    BY <1>2, <2>1, <2>2, <2>3, Zenon
<1>4. exec[t].step # "record"
  BY DEF Settles
<1>5. exec'[t].step = "record" => exec'[t].entries = <<Entry(i, r.state)>>
  BY <1>1, <1>2 DEF Settles
<1>6. ASSUME NEW j \in JobIds, NEW state \in JOB_STATES
      PROVE  Backed(j, state)'
  <2> DEFINE w == Waiting(j, state)
             sh == Shown(j, state)
             h == Happened(j, state)
  <2>1. /\ sh \in Nat /\ h \in Nat /\ IsFiniteSet(w) /\ Cardinality(w) \in Nat
        /\ sh + Cardinality(w) <= h /\ Backed(j, state)
    BY Counts DEF BackedInv, Backed
  <2>2. sh' = sh
    BY <1>1 DEF Shown, Entry
  <2>3. h' = h + IF j = i /\ state = r.state THEN 1 ELSE 0
    <3>1. CASE j = i
      <4>1. h = Cardinality(InState(agent_job_events[i], state))
        BY <3>1 DEF Happened, InState
      <4>2. h' = Cardinality(InState(Append(agent_job_events[i], e), state))
        BY <1>3, <3>1 DEF Happened, InState
      <4>3. h' = h + IF e.state = state THEN 1 ELSE 0
        BY <1>3, <4>1, <4>2, StatesAppended
      <4> HIDE DEF h
      <4>4. QED
        BY <1>3, <3>1, <4>3
    <3>2. CASE j # i
      <4>1. h' = h
        BY <1>3, <3>2 DEF Happened
      <4> HIDE DEF h
      <4>2. QED
        BY <2>1, <3>2, <4>1
    <3>3. QED
      BY <3>1, <3>2
  <2>4. t \notin w
    BY <1>4 DEF Waiting, Records
  <2>5. \A u \in Threads : u # t => (u \in w' <=> u \in w)
    BY OthersRecord DEF Waiting
  <2>6. t \in w' => j = i /\ state = r.state
    <3>1. ASSUME Records(t, j, state)'
          PROVE  j = i /\ state = r.state
      <4>1. exec'[t].entries = <<Entry(i, r.state)>>
        BY <1>5, <3>1 DEF Records
      <4>2. \E k \in DOMAIN exec'[t].entries : Entry(j, state) = exec'[t].entries[k]
        BY <3>1 DEF Records, Entry
      <4>3. Entry(j, state) = Entry(i, r.state)
        BY <4>1, <4>2
      <4>4. QED
        BY <1>3, <4>3, EntriesDiffer
    <3>2. QED
      BY <3>1 DEF Waiting
  <2>7. w' \subseteq w \cup {t}
    BY <2>5 DEF Waiting
  <2>8. CASE t \in w'
    <3>1. Cardinality(w \cup {t}) = Cardinality(w) + 1 /\ IsFiniteSet(w \cup {t})
      BY <2>1, <2>4, FS_AddElement
    <3>2. Cardinality(w') \in Nat /\ Cardinality(w') <= Cardinality(w) + 1
      BY <2>7, <3>1, FS_Subset, FS_CardinalityType
    <3>3. h' = h + 1
      BY <2>3, <2>6, <2>8
    <3> HIDE DEF sh, h, w
    <3>4. sh' + Cardinality(w') <= h'
      BY <2>1, <2>2, <3>2, <3>3
    <3>5. QED
      BY <3>4 DEF Backed, sh, h, w
  <2>9. CASE t \notin w'
    <3>1. w' \subseteq w
      BY <2>7, <2>9
    <3>2. Cardinality(w') \in Nat /\ Cardinality(w') <= Cardinality(w)
      BY <2>1, <3>1, FS_Subset, FS_CardinalityType
    <3> HIDE DEF sh, h, w
    <3>3. h' \in Nat /\ h' >= h
      BY <2>1, <2>3
    <3>4. sh' + Cardinality(w') <= h'
      BY <2>1, <2>2, <3>2, <3>3
    <3>5. QED
      BY <3>4 DEF Backed, sh, h, w
  <2>10. QED
    BY <2>8, <2>9
<1>7. ASSUME NEW u \in Threads
      PROVE  DistinctEntries(u)'
  BY <1>5 DEF Step, OthersStay, BackedInv, DistinctEntries, Distinct
<1>8. QED
  BY <1>3, <1>6, <1>7 DEF BackedInv

\* What names no stored job is neither shown nor waiting.
LEMMA NewJobUnseen ==
  ASSUME WorkInv, NEW j, j \notin JobIds, NEW state
  PROVE  /\ Positions(processing_jobs, Entry(j, state)) = {}
         /\ \A u \in Threads : ~Records(u, j, state)
<1>1. processing_jobs \in Seq(Stated)
  BY DEF WorkInv, StoreInv
<1>2. ASSUME NEW s \in Seq(Stated), NEW i \in DOMAIN s
      PROVE  s[i] # Entry(j, state)
  <2>1. s[i] \in Stated
    BY <1>2
  <2>2. s[i].job \in JobIds
    BY <2>1 DEF Stated
  <2>3. QED
    BY <2>2 DEF Entry
<1>3. ASSUME NEW u \in Threads, Records(u, j, state)
      PROVE  FALSE
  <2>1. exec[u].step = "record" /\ exec[u].entries \in Seq(Stated)
    BY <1>3, Doing, HeldShapes DEF WorkInv, Records
  <2>2. QED
    BY <1>2, <1>3, <2>1 DEF Records
<1>4. QED
  BY <1>1, <1>2, <1>3 DEF Positions

\* The commit of an enqueue: each new job has its event and waits to be shown.
LEMMA SubmitBacked ==
  ASSUME WorkInv, WorkInv', BackedInv, NEW t \in Threads, Step(t), Submits(t)
  PROVE  BackedInv'
<1> DEFINE n == Len(call[t].inserted)
<1>1. /\ TypeOK /\ FinishEnqueue(t) /\ exec[t].step = "queue"
      /\ UNCHANGED processing_jobs
  BY DEF WorkInv, Submits, Alone
<1>2. /\ JobIds = 1 .. Len(agent_jobs) /\ Len(agent_jobs) \in Nat
      /\ JobIds' = 1 .. Len(agent_jobs) + n /\ n \in Nat
  <2>1. call[t].inserted \in Seq(Keys)
    BY <1>1, PublishEffect
  <2>2. QED
    BY <1>1, <2>1, PublishEffect
<1>3. JobIds \subseteq JobIds'
  BY <1>2
<1>4. exec'[t].step = "record" =>
        exec'[t].entries = [i \in 1 .. n |-> Entry(Len(agent_jobs) + i, "queued")]
  <2> DEFINE x == [i \in 1 .. n |-> Entry(Len(agent_jobs) + i, "queued")]
  <2>1. exec'[t] = Resting \/ exec'[t] = [step |-> "record", entries |-> x]
    BY DEF Submits
  <2> HIDE DEF x
  <2>2. ASSUME exec'[t] = Resting, exec'[t].step = "record"
        PROVE  FALSE
    BY <2>2 DEF Resting
  <2>3. ASSUME exec'[t] = [step |-> "record", entries |-> x]
        PROVE  exec'[t].entries = x
    BY <2>3
  <2>4. exec'[t].step = "record" => exec'[t].entries = x
    BY <2>1, <2>2, <2>3
  <2>5. QED
    BY <2>4 DEF x
<1>5. ASSUME NEW j \in JobIds', NEW state \in JOB_STATES, Records(t, j, state)'
      PROVE  j \notin JobIds /\ state = "queued"
  <2>1. exec'[t].step = "record"
        /\ \E i \in DOMAIN exec'[t].entries : Entry(j, state) = exec'[t].entries[i]
    BY <1>5 DEF Records, Entry
  <2>2. PICK i \in 1 .. n : Entry(j, state) = Entry(Len(agent_jobs) + i, "queued")
    BY <1>4, <2>1
  <2>3. "queued" \in JOB_STATES
    BY DEF JOB_STATES
  <2>4. j = Len(agent_jobs) + i /\ state = "queued"
    BY <2>2, <2>3, EntriesDiffer
  <2>5. QED
    BY <1>2, <2>4
<1>6. ASSUME NEW j \in JobIds, NEW state \in JOB_STATES
      PROVE  Backed(j, state)'
  <2>1. ASSUME NEW u \in Threads, Records(u, j, state)'
        PROVE  Records(u, j, state)
    BY <1>3, <1>5, <2>1, OthersRecord
  <2>2. Waiting(j, state)' \subseteq Waiting(j, state)
    BY <2>1 DEF Waiting
  <2>3. agent_job_events'[j] = agent_job_events[j]
    BY <1>1, PublishTrails
  <2>4. Happened(j, state)' = Happened(j, state)
    BY <2>3 DEF Happened
  <2>5. Backed(j, state)
    BY DEF BackedInv
  <2>6. QED
    BY <1>1, <1>3, <2>2, <2>4, <2>5, BackedKept
<1>7. ASSUME NEW j \in JobIds', NEW state \in JOB_STATES, j \notin JobIds
      PROVE  Backed(j, state)'
  <2>1. Shown(j, state)' = 0
    <3>1. Shown(j, state)' = Cardinality(Positions(processing_jobs, Entry(j, state)))
      BY <1>1 DEF Shown, Positions, Entry
    <3>2. QED
      BY <1>7, <3>1, NewJobUnseen, FS_EmptySet
  <2>2. Waiting(j, state)' \subseteq {t}
    BY <1>7, NewJobUnseen, OthersRecord DEF Waiting
  <2>3. PICK i \in 1 .. n : j = Len(agent_jobs) + i
    BY <1>1, <1>7, NewJob
  <2>4. agent_job_events'[j] = <<QueuedEvent>>
    BY <1>1, <2>3, PublishTrails
  <2>5. Happened(j, state)' = IF state = "queued" THEN 1 ELSE 0
    <3>1. Happened(j, state)' = Cardinality(InState(<<QueuedEvent>>, state))
      BY <2>4 DEF Happened, InState
    <3>2. InState(<<QueuedEvent>>, state) = IF state = "queued" THEN {1} ELSE {}
      BY DEF InState, QueuedEvent
    <3>3. Cardinality({1}) = 1
      BY FS_Singleton
    <3>4. Cardinality({}) = 0
      BY FS_EmptySet
    <3>5. QED
      BY <3>1, <3>2, <3>3, <3>4
  <2>6. CASE Records(t, j, state)'
    <3>1. state = "queued"
      BY <1>5, <2>6
    <3>2. IsFiniteSet({t}) /\ Cardinality({t}) = 1
      BY FS_Singleton
    <3>3. /\ Cardinality(Waiting(j, state)') \in Nat
          /\ Cardinality(Waiting(j, state)') <= 1
      BY <2>2, <3>2, FS_Subset, FS_CardinalityType
    <3>4. QED
      BY <2>1, <2>5, <3>1, <3>3 DEF Backed
  <2>7. CASE ~Records(t, j, state)'
    <3>1. Waiting(j, state)' = {}
      BY <2>2, <2>7 DEF Waiting
    <3>2. Cardinality(Waiting(j, state)') = 0
      BY <3>1, FS_EmptySet
    <3>3. QED
      BY <2>1, <2>5, <3>2 DEF Backed
  <2>8. QED
    BY <2>6, <2>7
<1>8. ASSUME NEW u \in Threads
      PROVE  DistinctEntries(u)'
  <2>1. CASE u # t
    BY <2>1 DEF Step, OthersStay, BackedInv, DistinctEntries
  <2>2. CASE u = t
    <3>1. ASSUME NEW i \in 1 .. n, NEW k \in 1 .. n,
                 Entry(Len(agent_jobs) + i, "queued") =
                   Entry(Len(agent_jobs) + k, "queued")
          PROVE  i = k
      BY <1>2, <3>1 DEF Entry
    <3>2. exec'[t].step = "record" => Distinct(exec'[t].entries)
      BY <1>4, <3>1 DEF Distinct
    <3>3. QED
      BY <2>2, <3>2 DEF DistinctEntries
  <2>3. QED
    BY <2>1, <2>2
<1>9. QED
  BY <1>6, <1>7, <1>8 DEF BackedInv

LEMMA StepBackedInv == WorkInv /\ BackedInv /\ [WorkerNext]_wvars => BackedInv'
<1> SUFFICES ASSUME WorkInv, BackedInv, [WorkerNext]_wvars
             PROVE  BackedInv'
  OBVIOUS
<1>0. WorkInv'
  BY StepWorkInv
<1>1. CASE UNCHANGED wvars
  BY <1>1 DEF wvars, vars, BackedInv, Backed, Shown, Happened, Waiting, Records,
              DistinctEntries, Entry, JobIds
<1>2. CASE Crash
  <2>1. /\ JobIds' = JobIds /\ UNCHANGED <<agent_job_events, processing_jobs>>
        /\ \A u \in Threads : exec'[u].step = "rest"
    BY <1>2 DEF Crash, JobIds, Resting
  <2>2. ASSUME NEW j \in JobIds, NEW state \in JOB_STATES
        PROVE  Backed(j, state)'
    <3>1. Waiting(j, state)' \subseteq Waiting(j, state)
      BY <2>1 DEF Waiting, Records
    <3>2. Happened(j, state)' = Happened(j, state)
      BY <2>1 DEF Happened
    <3>3. Backed(j, state)
      BY DEF BackedInv
    <3>4. QED
      BY <1>0, <2>1, <3>1, <3>2, <3>3, BackedKept
  <2>3. QED
    BY <2>1, <2>2 DEF BackedInv, DistinctEntries
<1>3. ASSUME NEW t \in Threads, Step(t)
      PROVE  BackedInv'
  BY <1>0, <1>3, QuietBacked, RecordBacked, SettleBacked, SubmitBacked DEF Step
<1>4. QED
  BY <1>1, <1>2, <1>3, WorkerSteps

LEMMA InitBackedInv == WorkerInit => BackedInv
  BY DEF WorkerInit, Init, BackedInv, DistinctEntries, JobIds, Resting

(***************************************************************************)
(* The timeline shows only what was committed: it never has more entries   *)
(* of a job in a state than the job's trail has events with that state,    *)
(* although it is written in a transaction of its own, which may come late *)
(* or never.                                                               *)
(***************************************************************************)
THEOREM TimelinesBacked == WorkerSpec => []TimelineBacked
<1>1. WorkInv /\ BackedInv => TimelineBacked
  <2> SUFFICES ASSUME WorkInv, BackedInv, NEW j \in JobIds, NEW state \in JOB_STATES
               PROVE  Shown(j, state) <= Happened(j, state)
    BY DEF TimelineBacked
  <2>1. /\ Shown(j, state) \in Nat /\ Happened(j, state) \in Nat
        /\ Cardinality(Waiting(j, state)) \in Nat
    BY Counts
  <2>2. Backed(j, state)
    BY DEF BackedInv
  <2>3. QED
    BY <2>1, <2>2 DEF Backed
<1>2. QED
  BY <1>1, WorkerInvariant, InitBackedInv, StepBackedInv, PTL DEF WorkerSpec
=============================================================================
