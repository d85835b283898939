------------------------------- MODULE JobQueue -------------------------------
(***************************************************************************)
(* Conclave/job_queue.py: PersistentJobQueue, the job ledger, used by      *)
(* several request threads over one SQLite file.                           *)
(*                                                                         *)
(* Every call opens its own connection (database.py: open_connection).     *)
(* SELECTs that precede the first INSERT or UPDATE of a call run outside   *)
(* any transaction and see the committed rows of that moment; the first    *)
(* INSERT or UPDATE takes SQLite's single write lock, which is held until  *)
(* the commit (or the rollback that closing the connection implies).  So a *)
(* transition is two steps, an approval that reads the job and a commit    *)
(* that rewrites it, and other threads may commit in between.              *)
(***************************************************************************)
EXTENDS Integers, Sequences, FiniteSets

CONSTANTS
  Threads,         \* request threads of the server
  NoThread,        \* nobody holds the write lock
  Keys,            \* idempotency keys: case, topic, agent, input hash, version
  Requests,        \* distinct enqueue requests
  Routes,          \* Routes[r]: the keys of r, one per subscribed agent, in order
  AttemptLimits,   \* values of max_attempts
  Results,         \* result objects a caller may report
  EmptyResult,     \* the result '{}' a job starts with
  ErrorTypes,      \* error types a caller may report
  NoError,         \* error_type NULL
  MaxEvents        \* bound, by key: approvals stop once a trail has this many events

ASSUME QueueAssumption ==
  /\ IsFiniteSet(Threads) /\ Threads # {}
  /\ NoThread \notin Threads
  /\ Routes \in [Requests -> Seq(Keys)]
  /\ AttemptLimits \subseteq 1 .. 10 /\ AttemptLimits # {}
  /\ EmptyResult \in Results
  /\ NoError \notin ErrorTypes
  /\ MaxEvents \in [Keys -> Nat]

VARIABLES
  agent_jobs,        \* committed rows of agent_jobs, by id
  agent_job_events,  \* committed rows of agent_job_events, by job id
  writer,            \* the thread inside a multi-statement write transaction
  call               \* the call each thread is executing

vars == <<agent_jobs, agent_job_events, writer, call>>

JOB_STATES == {"queued", "running", "completed", "failed", "needs_review",
               "cancelled"}

Actions == {"start", "complete", "fail", "needs_review", "cancel", "requeue"}

Row == [key : Keys, state : JOB_STATES,
        attempt_count : Nat, max_attempts : AttemptLimits,
        result : Results, error_type : ErrorTypes \cup {NoError},
        started_at : BOOLEAN, completed_at : BOOLEAN, cancelled_at : BOOLEAN]

Event == [event_type : {"job.queued", "job.started", "job.completed",
                        "job.failed", "job.needs_review", "job.cancelled",
                        "job.requeued"},
          state : JOB_STATES,
          detail : Results \cup ErrorTypes]

(***************************************************************************)
(* What a transition request carries besides its action.                   *)
(***************************************************************************)
Payloads(action) ==
  CASE action \in {"complete", "needs_review"} -> Results
    [] action = "fail"                         -> ErrorTypes
    [] OTHER                                   -> {EmptyResult}

Idle == [op |-> "idle"]

(***************************************************************************)
(* A call in progress.  An enqueue walks the agents of its topic ("lookup" *)
(* before the SELECT for the first key of todo, "insert" when that SELECT  *)
(* found nothing); inserted are its uncommitted rows.  A transition is     *)
(* remembered once its reads have approved it.                             *)
(***************************************************************************)
EnqueueCall == {c \in [op : {"lookup", "insert"}, todo : Seq(Keys),
                       max_attempts : AttemptLimits, inserted : Seq(Keys)] :
                  c.op = "insert" => c.todo # << >>}

TransitionCall == {c \in [op : {"transition"}, job : Nat, action : Actions,
                          payload : Results \cup ErrorTypes] :
                     c.payload \in Payloads(c.action)}

JobIds == DOMAIN agent_jobs

Stored == {agent_jobs[j].key : j \in JobIds}

Init ==
  /\ agent_jobs = << >>
  /\ agent_job_events = << >>
  /\ writer = NoThread
  /\ call = [t \in Threads |-> Idle]

-----------------------------------------------------------------------------
(* enqueue: one transaction that gives every routed agent its own job       *)

NewRow(key, limit) ==
  [key |-> key, state |-> "queued", attempt_count |-> 0,
   max_attempts |-> limit, result |-> EmptyResult, error_type |-> NoError,
   started_at |-> FALSE, completed_at |-> FALSE, cancelled_at |-> FALSE]

QueuedEvent ==
  [event_type |-> "job.queued", state |-> "queued", detail |-> EmptyResult]

Walk(phase, todo, limit, inserted) ==
  [op |-> phase, todo |-> todo, max_attempts |-> limit, inserted |-> inserted]

\* The registry routes the topic and the case exists.
BeginEnqueue(t, r, limit) ==
  /\ call[t] = Idle
  /\ Routes[r] # << >>
  /\ call' = [call EXCEPT ![t] = Walk("lookup", Routes[r], limit, << >>)]
  /\ UNCHANGED <<agent_jobs, agent_job_events, writer>>

\* The keys a statement of thread t can see: committed rows and its own.
Visible(t) == Stored \cup {call[t].inserted[i] : i \in DOMAIN call[t].inserted}

\* The SELECT finds the agent's job, which is then answered, or it does not.
Found(t) ==
  /\ Head(call[t].todo) \in Visible(t)
  /\ call' = [call EXCEPT ![t] = Walk("lookup", Tail(call[t].todo),
                                     call[t].max_attempts, call[t].inserted)]

Missing(t) ==
  /\ Head(call[t].todo) \notin Visible(t)
  /\ call' = [call EXCEPT ![t] = Walk("insert", call[t].todo,
                                     call[t].max_attempts, call[t].inserted)]

Lookup(t) ==
  /\ call[t].op = "lookup"
  /\ call[t].todo # << >>
  /\ Found(t) \/ Missing(t)
  /\ UNCHANGED <<agent_jobs, agent_job_events, writer>>

Inserted(t) ==
  call' = [call EXCEPT ![t] =
             Walk("lookup", Tail(call[t].todo), call[t].max_attempts,
                  Append(call[t].inserted, Head(call[t].todo)))]

\* Mutant of Insert: the table without its UNIQUE constraint.
InsertUnchecked(t) ==
  /\ call[t].op = "insert"
  /\ writer \in {NoThread, t}
  /\ writer' = t
  /\ Inserted(t)
  /\ UNCHANGED <<agent_jobs, agent_job_events>>

(***************************************************************************)
(* INSERT takes the write lock.  A key committed since the lookup violates *)
(* the table's UNIQUE constraint; the handler then answers with that job.  *)
(***************************************************************************)
Insert(t) ==
  /\ call[t].op = "insert"
  /\ writer \in {NoThread, t}
  /\ writer' = t
  /\ \/ Found(t)
     \/ Head(call[t].todo) \notin Visible(t) /\ Inserted(t)
  /\ UNCHANGED <<agent_jobs, agent_job_events>>

Publish(t) ==
  agent_jobs' = agent_jobs \o
    [i \in 1 .. Len(call[t].inserted) |->
       NewRow(call[t].inserted[i], call[t].max_attempts)]

\* Mutant of FinishEnqueue: the loop commits before its last agent.
FinishEnqueueEarly(t) ==
  /\ call[t].op = "lookup"
  /\ Publish(t)
  /\ agent_job_events' = agent_job_events \o
       [i \in 1 .. Len(call[t].inserted) |-> <<QueuedEvent>>]
  /\ writer' = IF writer = t THEN NoThread ELSE writer
  /\ call' = [call EXCEPT ![t] = Idle]

FinishEnqueue(t) ==
  /\ call[t].op = "lookup"
  /\ call[t].todo = << >>
  /\ Publish(t)
  /\ agent_job_events' = agent_job_events \o
       [i \in 1 .. Len(call[t].inserted) |-> <<QueuedEvent>>]
  /\ writer' = IF writer = t THEN NoThread ELSE writer
  /\ call' = [call EXCEPT ![t] = Idle]

-----------------------------------------------------------------------------
(* transition: the reads of a call approve it                               *)

\* Mutant of Admits: the attempt limit is never consulted.
AdmitsAnyAttempt(row, action) ==
  \/ action = "start" /\ row.state = "queued"
  \/ action \in {"complete", "fail", "needs_review"} /\ row.state = "running"
  \/ action = "cancel" /\ row.state \in {"queued", "running"}
  \/ action = "requeue" /\ row.state \in {"failed", "cancelled"}

\* Mutant of Admits: finished jobs can be cancelled.
AdmitsLateCancel(row, action) ==
  \/ action = "start" /\ row.state = "queued"
                      /\ row.attempt_count < row.max_attempts
  \/ action \in {"complete", "fail", "needs_review"} /\ row.state = "running"
  \/ action = "cancel" /\ row.state # "cancelled"
  \/ action = "requeue" /\ row.state \in {"failed", "cancelled"}
                        /\ row.attempt_count < row.max_attempts

Admits(row, action) ==
  \/ action = "start" /\ row.state = "queued"
                      /\ row.attempt_count < row.max_attempts
  \/ action \in {"complete", "fail", "needs_review"} /\ row.state = "running"
  \/ action = "cancel" /\ row.state \in {"queued", "running"}
  \/ action = "requeue" /\ row.state \in {"failed", "cancelled"}
                        /\ row.attempt_count < row.max_attempts

Approve(t, j, action, payload) ==
  /\ call[t] = Idle
  /\ Admits(agent_jobs[j], action)
  /\ call' = [call EXCEPT ![t] = [op |-> "transition", job |-> j,
                                  action |-> action, payload |-> payload]]
  /\ UNCHANGED <<agent_jobs, agent_job_events, writer>>

-----------------------------------------------------------------------------
(* transition: the UPDATE names the job by id only, so it does not depend   *)
(* on the state that was read; the event is made from the row re-read       *)
(* inside the same transaction                                              *)

Committing(t, action) ==
  /\ call[t].op = "transition"
  /\ call[t].action = action
  /\ writer = NoThread

Commit(t, row, event_type, detail) ==
  /\ agent_jobs' = [agent_jobs EXCEPT ![call[t].job] = row]
  /\ agent_job_events' = [agent_job_events EXCEPT ![call[t].job] =
       Append(@, [event_type |-> event_type, state |-> row.state,
                  detail |-> detail])]
  /\ call' = [call EXCEPT ![t] = Idle]
  /\ UNCHANGED writer

Current(t) == agent_jobs[call[t].job]

\* Mutant of Start: the attempt is not counted.
StartUncounted(t) ==
  /\ Committing(t, "start")
  /\ Commit(t, [Current(t) EXCEPT !.state = "running", !.started_at = TRUE,
                                  !.error_type = NoError],
            "job.started", EmptyResult)

Start(t) ==
  /\ Committing(t, "start")
  /\ Commit(t, [Current(t) EXCEPT !.state = "running", !.attempt_count = @ + 1,
                                  !.started_at = TRUE, !.error_type = NoError],
            "job.started", EmptyResult)

Complete(t) ==
  /\ Committing(t, "complete")
  /\ Commit(t, [Current(t) EXCEPT !.state = "completed",
                                  !.result = call[t].payload,
                                  !.completed_at = TRUE],
            "job.completed", call[t].payload)

Fail(t) ==
  /\ Committing(t, "fail")
  /\ Commit(t, [Current(t) EXCEPT !.state = "failed",
                                  !.error_type = call[t].payload,
                                  !.completed_at = TRUE],
            "job.failed", call[t].payload)

NeedsReview(t) ==
  /\ Committing(t, "needs_review")
  /\ Commit(t, [Current(t) EXCEPT !.state = "needs_review",
                                  !.result = call[t].payload,
                                  !.completed_at = TRUE],
            "job.needs_review", call[t].payload)

Cancel(t) ==
  /\ Committing(t, "cancel")
  /\ Commit(t, [Current(t) EXCEPT !.state = "cancelled", !.cancelled_at = TRUE],
            "job.cancelled", EmptyResult)

\* Mutant of Requeue: only the state and the error are reset.
RequeueStateOnly(t) ==
  /\ Committing(t, "requeue")
  /\ Commit(t, [Current(t) EXCEPT !.state = "queued", !.error_type = NoError],
            "job.requeued", EmptyResult)

Requeue(t) ==
  /\ Committing(t, "requeue")
  /\ Commit(t, [Current(t) EXCEPT !.state = "queued", !.error_type = NoError,
                                  !.started_at = FALSE, !.completed_at = FALSE,
                                  !.cancelled_at = FALSE,
                                  !.result = EmptyResult],
            "job.requeued", EmptyResult)

(***************************************************************************)
(* A call ends without effect: the database stays busy past the timeout,   *)
(* an object is over the 1 MB limit, or the process dies.  Closing the     *)
(* connection rolls the transaction back.                                  *)
(***************************************************************************)
Abort(t) ==
  /\ call[t] # Idle
  /\ writer' = IF writer = t THEN NoThread ELSE writer
  /\ call' = [call EXCEPT ![t] = Idle]
  /\ UNCHANGED <<agent_jobs, agent_job_events>>

-----------------------------------------------------------------------------

EnqueueStep(t) ==
  \/ \E r \in Requests, limit \in AttemptLimits : BeginEnqueue(t, r, limit)
  \/ Lookup(t)
  \/ Insert(t)
  \/ FinishEnqueue(t)

ApproveStep(t) ==
  \E j \in JobIds, action \in Actions :
     /\ Len(agent_job_events[j]) < MaxEvents[agent_jobs[j].key]
     /\ \E payload \in Payloads(action) : Approve(t, j, action, payload)

CommitStep(t) ==
  Start(t) \/ Complete(t) \/ Fail(t) \/ NeedsReview(t) \/ Cancel(t) \/ Requeue(t)

Next ==
  \E t \in Threads : EnqueueStep(t) \/ ApproveStep(t) \/ CommitStep(t) \/ Abort(t)

Spec == Init /\ [][Next]_vars

-----------------------------------------------------------------------------
(* Properties *)

\* Every variable keeps its type; the call in progress names a stored job.
TypeOK ==
  /\ agent_jobs \in Seq(Row)
  /\ agent_job_events \in Seq(Seq(Event))
  /\ Len(agent_job_events) = Len(agent_jobs)
  /\ writer \in Threads \cup {NoThread}
  /\ DOMAIN call = Threads
  /\ \A t \in Threads :
        \/ call[t] = Idle
        \/ call[t] \in EnqueueCall
        \/ call[t] \in TransitionCall /\ call[t].job \in JobIds

(***************************************************************************)
(* "Submitting the same input again returns the existing job rather than   *)
(* creating a duplicate" (docs/JOB_QUEUE.md): however enqueue calls        *)
(* interleave between their SELECT and their INSERT, an idempotency key    *)
(* never has two rows.                                                     *)
(***************************************************************************)
UniqueKeys ==
  \A i, j \in JobIds : agent_jobs[i].key = agent_jobs[j].key => i = j

(***************************************************************************)
(* enqueue is all or nothing: a request whose agents were partly served is *)
(* never visible, whatever aborts and whoever else was inserting the same  *)
(* keys.                                                                   *)
(***************************************************************************)
RouteKeys(r) == {Routes[r][i] : i \in DOMAIN Routes[r]}

FanOutAtomic ==
  \A r \in Requests :
     RouteKeys(r) \cap Stored # {} => RouteKeys(r) \subseteq Stored

(***************************************************************************)
(* The event trail explains the row: it opens with the one job.queued, its *)
(* last state is the row's state, it holds one job.started per counted     *)
(* attempt, and a finished job's last event carries the row's result.      *)
(***************************************************************************)
Starts(j) ==
  {i \in DOMAIN agent_job_events[j] :
     agent_job_events[j][i].event_type = "job.started"}

TrailExplainsRow ==
  \A j \in JobIds :
     LET trail == agent_job_events[j]
         row == agent_jobs[j]
     IN  /\ trail # << >>
         /\ \A i \in DOMAIN trail :
               (trail[i].event_type = "job.queued") <=> (i = 1)
         /\ trail[Len(trail)].state = row.state
         /\ Cardinality(Starts(j)) = row.attempt_count
         /\ row.state \in {"completed", "needs_review"}
               => trail[Len(trail)].detail = row.result

(***************************************************************************)
(* A result kept in a row was reported for that job after it was last      *)
(* requeued: a retried job never shows the result of an earlier attempt.   *)
(***************************************************************************)
ResultHasProvenance ==
  \A j \in JobIds :
     LET trail == agent_job_events[j]
     IN  agent_jobs[j].result # EmptyResult =>
           \E i \in DOMAIN trail :
              /\ trail[i].event_type \in {"job.completed", "job.needs_review"}
              /\ trail[i].detail = agent_jobs[j].result
              /\ \A k \in i .. Len(trail) : trail[k].event_type # "job.requeued"

(***************************************************************************)
(* The attempt limit under races.  start checks attempt_count against      *)
(* max_attempts before it takes the write lock, so racing starts can pass  *)
(* the same check; the overshoot is still bounded: the attempts made plus  *)
(* the starts approved but not committed never exceed                      *)
(* max_attempts - 1 + the number of threads.                               *)
(***************************************************************************)
ApprovedStarts(j) ==
  {t \in Threads : /\ call[t].op = "transition"
                   /\ call[t].job = j
                   /\ call[t].action = "start"}

AttemptOvershootBounded ==
  \A j \in JobIds :
     agent_jobs[j].attempt_count + Cardinality(ApprovedStarts(j))
       <= agent_jobs[j].max_attempts - 1 + Cardinality(Threads)

(***************************************************************************)
(* "Completed and review-required jobs cannot be silently restarted": once *)
(* a job is final and no approved call on it is still waiting to commit,   *)
(* no step of any thread changes the job or gets a call on it approved.    *)
(***************************************************************************)
Pending(j) == \E t \in Threads : call[t].op = "transition" /\ call[t].job = j

Settled(j) ==
  /\ agent_jobs[j].state \in {"completed", "needs_review"}
  /\ ~Pending(j)

SettledForever ==
  [][\A j \in JobIds :
        Settled(j) => /\ Settled(j)'
                      /\ agent_jobs'[j] = agent_jobs[j]
                      /\ agent_job_events'[j] = agent_job_events[j]]_vars

-----------------------------------------------------------------------------
(* What the documents and the code's own messages say of every execution,   *)
(* and what holds when requests are handled one at a time                   *)

\* "job reached its maximum attempts" (transition, start and requeue).
AttemptsWithinLimit ==
  \A j \in JobIds : agent_jobs[j].attempt_count <= agent_jobs[j].max_attempts

\* "Completed and review-required jobs cannot be silently restarted."
FinalNeverRestarted ==
  [][\A j \in JobIds :
        agent_jobs[j].state \in {"completed", "needs_review"}
          => agent_jobs'[j].state \notin {"queued", "running"}]_vars

(***************************************************************************)
(* The columns of a row agree with its state: a queued job carries no      *)
(* trace of an earlier attempt, only a failed one has an error type, and   *)
(* the time stamps are those of the states it passed through.              *)
(***************************************************************************)
RowCoherent ==
  \A j \in JobIds :
     LET row == agent_jobs[j]
     IN  /\ row.state = "failed" <=> row.error_type # NoError
         /\ row.completed_at <=> row.state \in {"completed", "failed",
                                                "needs_review"}
         /\ row.cancelled_at <=> row.state = "cancelled"
         /\ row.state # "cancelled" =>
               (row.started_at <=> row.state # "queued")
         /\ row.result # EmptyResult => row.state \in {"completed",
                                                       "needs_review"}

\* The ledger seen as the documented life cycle.
Lifecycle == INSTANCE JobLifecycle WITH
  Limits <- AttemptLimits,
  jobs <- [j \in JobIds |-> [state |-> agent_jobs[j].state,
                             attempts |-> agent_jobs[j].attempt_count,
                             limit |-> agent_jobs[j].max_attempts]]

\* Every behaviour of the ledger is one the life cycle allows.
FollowsLifecycle == Lifecycle!Spec
=============================================================================
