---------------------------- MODULE JobQueueProofs ----------------------------
(***************************************************************************)
(* Proofs about JobQueue for any set of threads, keys, requests and limits *)
(* and for any bound on the trails.                                        *)
(***************************************************************************)
EXTENDS JobQueue, FiniteSetTheorems, TLAPS

-----------------------------------------------------------------------------
(* Type correctness *)

\* The shapes a call can have are told apart by op.
LEMMA CallShapes ==
  ASSUME TypeOK, NEW t \in Threads
  PROVE  /\ call[t].op = "idle" => call[t] = Idle
         /\ call[t].op \in {"lookup", "insert"} =>
              /\ call[t] \in EnqueueCall
              /\ call[t].todo \in Seq(Keys)
              /\ call[t].max_attempts \in AttemptLimits
              /\ call[t].inserted \in Seq(Keys)
         /\ call[t].op = "insert" => call[t].todo # << >>
         /\ call[t].op = "transition" =>
              /\ call[t] \in TransitionCall
              /\ call[t].job \in JobIds
              /\ call[t].action \in Actions
              /\ call[t].payload \in Payloads(call[t].action)
  BY DEF TypeOK, Idle, EnqueueCall, TransitionCall

\* A call's record after the step that replaces it.
LEMMA CallTypeOK ==
  ASSUME TypeOK, NEW t \in Threads, NEW c,
         call' = [call EXCEPT ![t] = c],
         c = Idle \/ c \in EnqueueCall \/ (c \in TransitionCall /\ c.job \in JobIds),
         UNCHANGED <<agent_jobs, agent_job_events>>,
         writer' \in Threads \cup {NoThread}
  PROVE  TypeOK'
  BY DEF TypeOK, JobIds, Idle

\* A committed transition replaces one row and extends that job's trail.
LEMMA CommitTypeOK ==
  ASSUME TypeOK, NEW t \in Threads, call[t].op = "transition",
         NEW row \in Row, NEW type, NEW detail,
         [event_type |-> type, state |-> row.state, detail |-> detail] \in Event,
         Commit(t, row, type, detail)
  PROVE  TypeOK'
<1> DEFINE j == call[t].job
           e == [event_type |-> type, state |-> row.state, detail |-> detail]
<1>1. j \in JobIds
  BY CallShapes
<1>2. agent_jobs' \in Seq(Row) /\ Len(agent_jobs') = Len(agent_jobs)
  BY <1>1 DEF Commit, TypeOK, JobIds
<1>3. Append(agent_job_events[j], e) \in Seq(Event)
  BY <1>1 DEF TypeOK, JobIds
<1>4. agent_job_events' \in Seq(Seq(Event))
      /\ Len(agent_job_events') = Len(agent_job_events)
  BY <1>1, <1>3 DEF Commit, TypeOK, JobIds
<1>5. DOMAIN agent_jobs' = DOMAIN agent_jobs
  BY <1>2 DEF TypeOK
<1>6. QED
  BY <1>2, <1>4, <1>5 DEF Commit, TypeOK, JobIds

\* Initially nothing is stored, held or in progress.
LEMMA InitTypeOK == Init => TypeOK
  BY DEF Init, TypeOK, Idle

\* Concatenation of sequences over the same set.
LEMMA ConcatSeq ==
  ASSUME NEW S, NEW u \in Seq(S), NEW v \in Seq(S)
  PROVE  u \o v \in Seq(S) /\ Len(u \o v) = Len(u) + Len(v)
  OBVIOUS

\* The steps of an enqueue: the walk over its agents, and its commit.
LEMMA EnqueueTypeOK ==
  ASSUME TypeOK, NEW t \in Threads, EnqueueStep(t)
  PROVE  TypeOK'
<1>1. writer \in Threads \cup {NoThread}
  BY DEF TypeOK
<1>2. ASSUME NEW r \in Requests, NEW limit \in AttemptLimits,
             BeginEnqueue(t, r, limit)
      PROVE  TypeOK'
  <2>1. Routes[r] \in Seq(Keys) /\ << >> \in Seq(Keys)
    BY QueueAssumption
  <2>2. Walk("lookup", Routes[r], limit, << >>) \in EnqueueCall
    BY <2>1 DEF Walk, EnqueueCall
  <2>3. QED
    BY <1>1, <1>2, <2>2, CallTypeOK DEF BeginEnqueue
<1>3. ASSUME call[t].op \in {"lookup", "insert"}, call[t].todo # << >>, Found(t),
             UNCHANGED <<agent_jobs, agent_job_events>>,
             writer' \in Threads \cup {NoThread}
      PROVE  TypeOK'
  <2>1. /\ Tail(call[t].todo) \in Seq(Keys)
        /\ call[t].max_attempts \in AttemptLimits
        /\ call[t].inserted \in Seq(Keys)
    BY <1>3, CallShapes
  <2>2. Walk("lookup", Tail(call[t].todo), call[t].max_attempts,
             call[t].inserted) \in EnqueueCall
    BY <2>1 DEF Walk, EnqueueCall
  <2>3. QED
    BY <1>3, <2>2, CallTypeOK DEF Found
<1>4. CASE Lookup(t)
  <2>1. CASE Found(t)
    BY <1>1, <1>3, <1>4, <2>1 DEF Lookup
  <2>2. CASE Missing(t)
    <3>1. Walk("insert", call[t].todo, call[t].max_attempts,
               call[t].inserted) \in EnqueueCall
      BY <1>4, CallShapes DEF Lookup, Walk, EnqueueCall
    <3>2. QED
      BY <1>1, <1>4, <2>2, <3>1, CallTypeOK DEF Lookup, Missing
  <2>3. QED
    BY <1>4, <2>1, <2>2 DEF Lookup
<1>5. CASE Insert(t)
  <2>1. CASE Found(t)
    BY <1>3, <1>5, <2>1, CallShapes DEF Insert
  <2>2. CASE Inserted(t)
    <3>1. /\ call[t].todo \in Seq(Keys) /\ call[t].todo # << >>
          /\ call[t].max_attempts \in AttemptLimits
          /\ call[t].inserted \in Seq(Keys)
      BY <1>5, CallShapes DEF Insert
    <3>2. Walk("lookup", Tail(call[t].todo), call[t].max_attempts,
               Append(call[t].inserted, Head(call[t].todo))) \in EnqueueCall
      BY <3>1 DEF Walk, EnqueueCall
    <3>3. QED
      BY <1>5, <2>2, <3>2, CallTypeOK DEF Insert, Inserted
  <2>3. QED
    BY <1>5, <2>1, <2>2 DEF Insert
<1>6. CASE FinishEnqueue(t)
  <2> DEFINE c == call[t]
             n == Len(c.inserted)
  <2>1. c.inserted \in Seq(Keys) /\ c.max_attempts \in AttemptLimits
    BY <1>6, CallShapes DEF FinishEnqueue
  <2>2. \A i \in 1 .. n : NewRow(c.inserted[i], c.max_attempts) \in Row
    BY <2>1, QueueAssumption DEF NewRow, Row, JOB_STATES
  <2>3. [i \in 1 .. n |-> NewRow(c.inserted[i], c.max_attempts)] \in Seq(Row)
    BY <2>1, <2>2
  <2>4. agent_jobs' \in Seq(Row) /\ Len(agent_jobs') = Len(agent_jobs) + n
    BY <1>6, <2>1, <2>3 DEF FinishEnqueue, Publish, TypeOK
  <2>5. <<QueuedEvent>> \in Seq(Event)
    BY QueueAssumption DEF QueuedEvent, Event, JOB_STATES
  <2> DEFINE q == [i \in 1 .. n |-> <<QueuedEvent>>]
  <2>6. q \in Seq(Seq(Event)) /\ Len(q) = n
    BY <2>1, <2>5
  <2>7. agent_job_events' = agent_job_events \o q
    BY <1>6 DEF FinishEnqueue
  <2> HIDE DEF q
  <2>8. /\ agent_job_events' \in Seq(Seq(Event))
        /\ Len(agent_job_events') = Len(agent_job_events) + n
    <3>1. agent_job_events \in Seq(Seq(Event))
      BY DEF TypeOK
    <3>2. /\ agent_job_events \o q \in Seq(Seq(Event))
          /\ Len(agent_job_events \o q) = Len(agent_job_events) + Len(q)
      BY <2>6, <3>1, ConcatSeq, Zenon
    <3>3. QED
      BY <2>6, <2>7, <3>2, Zenon
  <2>9. JobIds \subseteq JobIds'
    BY <2>1, <2>4 DEF JobIds, TypeOK
  <2>10. writer' \in Threads \cup {NoThread}
    BY <1>1, <1>6 DEF FinishEnqueue
  <2>11. QED
    BY <1>6, <2>4, <2>8, <2>9, <2>10 DEF FinishEnqueue, TypeOK
<1>7. QED
  BY <1>2, <1>4, <1>5, <1>6 DEF EnqueueStep

\* The UPDATE of each of the six transitions, with its event.
LEMMA CommitStepTypeOK ==
  ASSUME TypeOK, NEW t \in Threads, CommitStep(t)
  PROVE  TypeOK'
<1> DEFINE row == agent_jobs[call[t].job]
           p == call[t].payload
<1>1. call[t].op = "transition" /\ writer = NoThread
  BY DEF CommitStep, Start, Complete, Fail, NeedsReview, Cancel, Requeue, Committing
<1>2. row \in Row
  BY <1>1, CallShapes DEF TypeOK, JobIds
<1>3. /\ row.state \in JOB_STATES /\ EmptyResult \in Results
      /\ {"queued", "running", "completed", "failed", "needs_review",
          "cancelled"} = JOB_STATES
  BY <1>2, QueueAssumption DEF Row, JOB_STATES
<1>4. call[t].action \in {"complete", "needs_review"} => p \in Results
  BY <1>1, CallShapes, Zenon DEF Payloads
<1>5. call[t].action = "fail" => p \in ErrorTypes
  BY <1>1, CallShapes, Zenon DEF Payloads
<1>6. CASE Start(t)
  <2> DEFINE n == row.attempt_count + 1
             r == [row EXCEPT !.state = "running", !.attempt_count = n,
                              !.started_at = TRUE, !.error_type = NoError]
  <2>1. n \in Nat
    BY <1>2 DEF Row
  <2>2. Commit(t, r, "job.started", EmptyResult)
    BY <1>6, Zenon DEF Start, Current
  <2> HIDE DEF n
  <2>3. r \in Row /\ r.state = "running"
    BY <1>2, <1>3, <2>1, Zenon DEF Row
  <2>4. [event_type |-> "job.started", state |-> r.state,
         detail |-> EmptyResult] \in Event
    BY <1>3, <2>3 DEF Event
  <2>5. QED
    BY <1>1, <2>2, <2>3, <2>4, CommitTypeOK
<1>7. ASSUME NEW state \in {"completed", "needs_review"}, NEW type,
             type \in {"job.completed", "job.needs_review"}, p \in Results,
             Commit(t, [row EXCEPT !.state = state, !.result = p,
                                   !.completed_at = TRUE], type, p)
      PROVE  TypeOK'
  <2> DEFINE r == [row EXCEPT !.state = state, !.result = p, !.completed_at = TRUE]
  <2>1. r \in Row /\ r.state = state
    BY <1>2, <1>3, <1>7, Zenon DEF Row
  <2>2. [event_type |-> type, state |-> r.state, detail |-> p] \in Event
    BY <1>3, <1>7, <2>1 DEF Event
  <2>3. QED
    BY <1>1, <1>7, <2>1, <2>2, CommitTypeOK
<1>8. CASE Complete(t)
  <2>1. p \in Results
    BY <1>4, <1>8 DEF Complete, Committing
  <2>2. QED
    BY <1>7, <1>8, <2>1, Zenon DEF Complete, Current
<1>9. CASE NeedsReview(t)
  <2>1. p \in Results
    BY <1>4, <1>9 DEF NeedsReview, Committing
  <2>2. QED
    BY <1>7, <1>9, <2>1, Zenon DEF NeedsReview, Current
<1>10. CASE Fail(t)
  <2> DEFINE r == [row EXCEPT !.state = "failed", !.error_type = p,
                              !.completed_at = TRUE]
  <2>1. p \in ErrorTypes
    BY <1>5, <1>10 DEF Fail, Committing
  <2>2. r \in Row /\ r.state = "failed"
    BY <1>2, <1>3, <2>1, Zenon DEF Row
  <2>3. [event_type |-> "job.failed", state |-> r.state, detail |-> p] \in Event
    BY <1>3, <2>1, <2>2 DEF Event
  <2>4. Commit(t, r, "job.failed", p)
    BY <1>10, Zenon DEF Fail, Current
  <2>5. QED
    BY <1>1, <2>2, <2>3, <2>4, CommitTypeOK
<1>11. CASE Cancel(t)
  <2> DEFINE r == [row EXCEPT !.state = "cancelled", !.cancelled_at = TRUE]
  <2>1. r \in Row /\ r.state = "cancelled"
    BY <1>2, <1>3, Zenon DEF Row
  <2>2. [event_type |-> "job.cancelled", state |-> r.state,
         detail |-> EmptyResult] \in Event
    BY <1>3, <2>1 DEF Event
  <2>3. Commit(t, r, "job.cancelled", EmptyResult)
    BY <1>11, Zenon DEF Cancel, Current
  <2>4. QED
    BY <1>1, <2>1, <2>2, <2>3, CommitTypeOK
<1>12. CASE Requeue(t)
  <2> DEFINE r == [row EXCEPT !.state = "queued", !.error_type = NoError,
                              !.started_at = FALSE, !.completed_at = FALSE,
                              !.cancelled_at = FALSE, !.result = EmptyResult]
  <2>1. r \in Row /\ r.state = "queued"
    BY <1>2, <1>3, Zenon DEF Row
  <2>2. [event_type |-> "job.requeued", state |-> r.state,
         detail |-> EmptyResult] \in Event
    BY <1>3, <2>1 DEF Event
  <2>3. Commit(t, r, "job.requeued", EmptyResult)
    BY <1>12, Zenon DEF Requeue, Current
  <2>4. QED
    BY <1>1, <2>1, <2>2, <2>3, CommitTypeOK
<1>13. QED
  BY <1>6, <1>8, <1>9, <1>10, <1>11, <1>12 DEF CommitStep

\* The reads that approve a transition.
LEMMA ApprovalTypeOK ==
  ASSUME TypeOK, NEW t \in Threads, NEW j \in JobIds, NEW action \in Actions,
         NEW payload \in Payloads(action), Approve(t, j, action, payload)
  PROVE  TypeOK'
<1> DEFINE c == [op |-> "transition", job |-> j, action |-> action,
                 payload |-> payload]
<1>1. payload \in Results \cup ErrorTypes
  BY QueueAssumption, Zenon DEF Payloads
<1>2. j \in Nat
  BY DEF JobIds, TypeOK
<1>3. c \in TransitionCall /\ c.job \in JobIds
  BY <1>1, <1>2 DEF TransitionCall
<1>4. writer' \in Threads \cup {NoThread}
  BY DEF Approve, TypeOK
<1>5. QED
  BY <1>3, <1>4, CallTypeOK DEF Approve

LEMMA ApproveTypeOK ==
  ASSUME TypeOK, NEW t \in Threads, ApproveStep(t)
  PROVE  TypeOK'
  BY ApprovalTypeOK DEF ApproveStep

\* A call that ends without effect.
LEMMA AbortTypeOK ==
  ASSUME TypeOK, NEW t \in Threads, Abort(t)
  PROVE  TypeOK'
<1>1. writer' \in Threads \cup {NoThread}
  BY DEF Abort, TypeOK
<1>2. QED
  BY <1>1, CallTypeOK DEF Abort

\* Every step of every thread keeps the types.
LEMMA StepTypeOK == TypeOK /\ [Next]_vars => TypeOK'
<1>1. ASSUME TypeOK, UNCHANGED vars
      PROVE  TypeOK'
  BY <1>1 DEF vars, TypeOK, JobIds
<1>2. ASSUME TypeOK, Next
      PROVE  TypeOK'
  BY <1>2, EnqueueTypeOK, ApproveTypeOK, CommitStepTypeOK, AbortTypeOK DEF Next
<1>3. QED
  BY <1>1, <1>2

(***************************************************************************)
(* Every reachable state of the ledger is well typed: the call each thread *)
(* holds always names a stored job, so the UPDATE by id finds its row.     *)
(***************************************************************************)
THEOREM TypeCorrect == Spec => []TypeOK
  BY InitTypeOK, StepTypeOK, PTL DEF Spec

-----------------------------------------------------------------------------
(* How far racing starts can overshoot the attempt limit *)

Overshoot(j) ==
  agent_jobs[j].attempt_count + Cardinality(ApprovedStarts(j))
    <= agent_jobs[j].max_attempts - 1 + Cardinality(Threads)

\* Cardinalities used below are numbers, whatever the calls are.
LEMMA ApprovedFinite ==
  ASSUME NEW j
  PROVE  /\ IsFiniteSet(ApprovedStarts(j))
         /\ Cardinality(ApprovedStarts(j)) \in Nat
         /\ Cardinality(ApprovedStarts(j)) <= Cardinality(Threads)
         /\ Cardinality(Threads) \in Nat
<1>1. ApprovedStarts(j) \in SUBSET Threads
  BY DEF ApprovedStarts
<1>2. QED
  BY <1>1, QueueAssumption, FS_Subset, FS_CardinalityType

\* The numbers of a stored row.
LEMMA RowNumbers ==
  ASSUME TypeOK, NEW j \in JobIds
  PROVE  /\ agent_jobs[j] \in Row
         /\ agent_jobs[j].attempt_count \in Nat
         /\ agent_jobs[j].max_attempts \in 1 .. 10
<1>1. agent_jobs[j] \in Row
  BY DEF TypeOK, JobIds
<1>2. QED
  BY <1>1, QueueAssumption DEF Row

\* Dropping approvals of other calls never hurts the bound of an unchanged row.
LEMMA OvershootKept ==
  ASSUME TypeOK, NEW j \in JobIds, Overshoot(j),
         agent_jobs'[j].attempt_count = agent_jobs[j].attempt_count,
         agent_jobs'[j].max_attempts = agent_jobs[j].max_attempts,
         ApprovedStarts(j)' \subseteq ApprovedStarts(j)
  PROVE  Overshoot(j)'
<1>1. /\ IsFiniteSet(ApprovedStarts(j))
      /\ Cardinality(ApprovedStarts(j)) \in Nat
      /\ Cardinality(Threads) \in Nat
  BY ApprovedFinite
<1>2. /\ Cardinality(ApprovedStarts(j)') \in Nat
      /\ Cardinality(ApprovedStarts(j)') <= Cardinality(ApprovedStarts(j))
  BY <1>1, FS_Subset, FS_CardinalityType
<1>3. agent_jobs[j].attempt_count \in Nat /\ agent_jobs[j].max_attempts \in Int
  BY RowNumbers
<1>4. QED
  BY <1>1, <1>2, <1>3 DEF Overshoot

\* What a commit leaves alone, and what it replaces.
LEMMA CommitEffect ==
  ASSUME TypeOK, NEW t \in Threads, call[t].op = "transition",
         NEW row, NEW type, NEW detail, Commit(t, row, type, detail)
  PROVE  /\ JobIds' = JobIds
         /\ agent_jobs'[call[t].job] = row
         /\ \A j \in JobIds : j # call[t].job => agent_jobs'[j] = agent_jobs[j]
         /\ call'[t] = Idle
         /\ \A u \in Threads : u # t => call'[u] = call[u]
<1>1. call[t].job \in JobIds
  BY CallShapes
<1>2. QED
  BY <1>1 DEF Commit, TypeOK, JobIds

\* When only calls other than starts change, approvals can only be dropped.
LEMMA ApprovedDropped ==
  ASSUME NEW j, NEW t \in Threads,
         \A u \in Threads : u # t => call'[u] = call[u],
         call'[t].op = "transition" => call'[t].action # "start"
  PROVE  ApprovedStarts(j)' \subseteq ApprovedStarts(j) \ {t}
  BY DEF ApprovedStarts

\* A committed start turns an approved start into a counted attempt.
LEMMA StartOvershoot ==
  ASSUME TypeOK, NEW t \in Threads, Start(t), NEW j \in JobIds, Overshoot(j)
  PROVE  Overshoot(j)' /\ JobIds' = JobIds
<1> DEFINE row == agent_jobs[call[t].job]
           n == row.attempt_count + 1
           r == [row EXCEPT !.state = "running", !.attempt_count = n,
                            !.started_at = TRUE, !.error_type = NoError]
<1>1. call[t].op = "transition" /\ call[t].action = "start"
  BY DEF Start, Committing
<1>2. Commit(t, r, "job.started", EmptyResult)
  BY Zenon DEF Start, Current
<1>3. /\ JobIds' = JobIds /\ agent_jobs'[call[t].job] = r
      /\ \A i \in JobIds : i # call[t].job => agent_jobs'[i] = agent_jobs[i]
      /\ call'[t] = Idle /\ \A u \in Threads : u # t => call'[u] = call[u]
  BY <1>1, <1>2, CommitEffect
<1>4. ApprovedStarts(j)' \subseteq ApprovedStarts(j) \ {t}
  BY <1>3, ApprovedDropped DEF Idle
<1>5. CASE j # call[t].job
  BY <1>3, <1>4, <1>5, OvershootKept
<1>6. CASE j = call[t].job
  <2>1. t \in ApprovedStarts(j)
    BY <1>1, <1>6 DEF ApprovedStarts
  <2>2. /\ IsFiniteSet(ApprovedStarts(j))
        /\ Cardinality(ApprovedStarts(j)) \in Nat
        /\ Cardinality(Threads) \in Nat
    BY ApprovedFinite
  <2>3. /\ IsFiniteSet(ApprovedStarts(j) \ {t})
        /\ Cardinality(ApprovedStarts(j) \ {t}) = Cardinality(ApprovedStarts(j)) - 1
    BY <2>1, <2>2, FS_RemoveElement
  <2>4. /\ Cardinality(ApprovedStarts(j)') \in Nat
        /\ Cardinality(ApprovedStarts(j)') <= Cardinality(ApprovedStarts(j)) - 1
    BY <1>4, <2>3, FS_Subset, FS_CardinalityType
  <2>5. row \in Row /\ row.attempt_count \in Nat /\ row.max_attempts \in 1 .. 10
    BY <1>6, RowNumbers
  <2>6. r.attempt_count = n /\ r.max_attempts = row.max_attempts
    <3> HIDE DEF n, row
    <3> QED
      BY <2>5, Zenon DEF Row
  <2>7. agent_jobs'[j] = r
    BY <1>3, <1>6
  <2>8. /\ agent_jobs'[j].attempt_count = agent_jobs[j].attempt_count + 1
        /\ agent_jobs'[j].max_attempts = agent_jobs[j].max_attempts
    <3> HIDE DEF r, n
    <3>1. n = agent_jobs[j].attempt_count + 1
      BY <1>6 DEF n
    <3>2. QED
      BY <1>6, <2>6, <2>7, <3>1
  <2>9. QED
    <3> HIDE DEF r
    <3>1. Overshoot(j)'
      BY <1>6, <2>2, <2>4, <2>5, <2>8 DEF Overshoot
    <3>2. QED
      BY <1>3, <3>1
<1>7. QED
  BY <1>3, <1>5, <1>6

\* The other transitions count no attempt.
LEMMA OtherCommits ==
  ASSUME TypeOK, NEW t \in Threads,
         Complete(t) \/ Fail(t) \/ NeedsReview(t) \/ Cancel(t) \/ Requeue(t)
  PROVE  /\ call[t].op = "transition"
         /\ JobIds' = JobIds
         /\ call'[t] = Idle /\ \A u \in Threads : u # t => call'[u] = call[u]
         /\ \A j \in JobIds :
              /\ agent_jobs'[j].attempt_count = agent_jobs[j].attempt_count
              /\ agent_jobs'[j].max_attempts = agent_jobs[j].max_attempts
              /\ agent_jobs'[j].key = agent_jobs[j].key
              /\ j # call[t].job => agent_jobs'[j] = agent_jobs[j]
<1> DEFINE row == agent_jobs[call[t].job]
<1>1. call[t].op = "transition"
  BY DEF Complete, Fail, NeedsReview, Cancel, Requeue, Committing
<1>2. call[t].job \in JobIds
  BY <1>1, CallShapes
<1>3. row \in Row
  BY <1>2, RowNumbers
<1>4. PICK r, type, detail :
        /\ Commit(t, r, type, detail)
        /\ r.attempt_count = row.attempt_count
        /\ r.max_attempts = row.max_attempts
        /\ r.key = row.key
  <2>1. CASE Complete(t)
    <3> DEFINE q == [row EXCEPT !.state = "completed", !.result = call[t].payload,
                          !.completed_at = TRUE]
    <3>1. Commit(t, q, "job.completed", call[t].payload)
      BY <2>1, Zenon DEF Complete, Current
    <3>2. /\ q.attempt_count = row.attempt_count
          /\ q.max_attempts = row.max_attempts
          /\ q.key = row.key
      <4> HIDE DEF row
      <4> QED
        BY <1>3, Zenon DEF Row
    <3> HIDE DEF q, row
    <3>3. QED
      BY <3>1, <3>2, Zenon
  <2>2. CASE Fail(t)
    <3> DEFINE q == [row EXCEPT !.state = "failed", !.error_type = call[t].payload,
                          !.completed_at = TRUE]
    <3>1. Commit(t, q, "job.failed", call[t].payload)
      BY <2>2, Zenon DEF Fail, Current
    <3>2. /\ q.attempt_count = row.attempt_count
          /\ q.max_attempts = row.max_attempts
          /\ q.key = row.key
      <4> HIDE DEF row
      <4> QED
        BY <1>3, Zenon DEF Row
    <3> HIDE DEF q, row
    <3>3. QED
      BY <3>1, <3>2, Zenon
  <2>3. CASE NeedsReview(t)
    <3> DEFINE q == [row EXCEPT !.state = "needs_review", !.result = call[t].payload,
                          !.completed_at = TRUE]
    <3>1. Commit(t, q, "job.needs_review", call[t].payload)
      BY <2>3, Zenon DEF NeedsReview, Current
    <3>2. /\ q.attempt_count = row.attempt_count
          /\ q.max_attempts = row.max_attempts
          /\ q.key = row.key
      <4> HIDE DEF row
      <4> QED
        BY <1>3, Zenon DEF Row
    <3> HIDE DEF q, row
    <3>3. QED
      BY <3>1, <3>2, Zenon
  <2>4. CASE Cancel(t)
    <3> DEFINE q == [row EXCEPT !.state = "cancelled", !.cancelled_at = TRUE]
    <3>1. Commit(t, q, "job.cancelled", EmptyResult)
      BY <2>4, Zenon DEF Cancel, Current
    <3>2. /\ q.attempt_count = row.attempt_count
          /\ q.max_attempts = row.max_attempts
          /\ q.key = row.key
      <4> HIDE DEF row
      <4> QED
        BY <1>3, Zenon DEF Row
    <3> HIDE DEF q, row
    <3>3. QED
      BY <3>1, <3>2, Zenon
  <2>5. CASE Requeue(t)
    <3> DEFINE q == [row EXCEPT !.state = "queued", !.error_type = NoError,
                          !.started_at = FALSE, !.completed_at = FALSE,
                          !.cancelled_at = FALSE, !.result = EmptyResult]
    <3>1. Commit(t, q, "job.requeued", EmptyResult)
      BY <2>5, Zenon DEF Requeue, Current
    <3>2. /\ q.attempt_count = row.attempt_count
          /\ q.max_attempts = row.max_attempts
          /\ q.key = row.key
      <4> HIDE DEF row
      <4> QED
        BY <1>3, Zenon DEF Row
    <3> HIDE DEF q, row
    <3>3. QED
      BY <3>1, <3>2, Zenon
  <2>6. QED
    BY <2>1, <2>2, <2>3, <2>4, <2>5
<1>5. /\ JobIds' = JobIds
      /\ agent_jobs'[call[t].job] = r
      /\ \A j \in JobIds : j # call[t].job => agent_jobs'[j] = agent_jobs[j]
      /\ call'[t] = Idle /\ \A u \in Threads : u # t => call'[u] = call[u]
  BY <1>1, <1>4, CommitEffect
<1>6. QED
  BY <1>1, <1>4, <1>5

\* No job, no attempt.
LEMMA InitOvershoot == Init => AttemptOvershootBounded
  BY DEF Init, AttemptOvershootBounded, JobIds

\* The steps of an enqueue before its commit, an abort: only t's call changes.
LEMMA QuietEffect ==
  ASSUME TypeOK, NEW t \in Threads,
         \/ \E r \in Requests, limit \in AttemptLimits : BeginEnqueue(t, r, limit)
         \/ Lookup(t) \/ Insert(t) \/ Abort(t)
  PROVE  /\ UNCHANGED <<agent_jobs, agent_job_events>>
         /\ JobIds' = JobIds
         /\ call'[t].op # "transition"
         /\ \A u \in Threads : u # t => call'[u] = call[u]
  BY DEF TypeOK, BeginEnqueue, Lookup, Insert, Abort, Found, Missing, Inserted,
         Walk, Idle, JobIds

\* A new row is queued, untried and has the request's key and limit.
LEMMA NewRowFields ==
  ASSUME NEW key, NEW limit
  PROVE  /\ NewRow(key, limit).key = key
         /\ NewRow(key, limit).attempt_count = 0
         /\ NewRow(key, limit).max_attempts = limit
  BY DEF NewRow

\* What the commit of an enqueue adds: queued rows after the existing ones.
LEMMA PublishEffect ==
  ASSUME TypeOK, NEW t \in Threads, FinishEnqueue(t)
  PROVE  /\ call[t].inserted \in Seq(Keys) /\ call[t].max_attempts \in AttemptLimits
         /\ JobIds = 1 .. Len(agent_jobs) /\ Len(agent_jobs) \in Nat
         /\ JobIds' = 1 .. Len(agent_jobs) + Len(call[t].inserted)
         /\ \A j \in JobIds : agent_jobs'[j] = agent_jobs[j]
         /\ \A i \in 1 .. Len(call[t].inserted) :
              agent_jobs'[Len(agent_jobs) + i] =
                NewRow(call[t].inserted[i], call[t].max_attempts)
         /\ call'[t] = Idle
         /\ \A u \in Threads : u # t => call'[u] = call[u]
<1> DEFINE c == call[t]
           new == [i \in 1 .. Len(c.inserted) |-> NewRow(c.inserted[i], c.max_attempts)]
<1>1. c.inserted \in Seq(Keys) /\ c.max_attempts \in AttemptLimits
  BY CallShapes DEF FinishEnqueue
<1>2. agent_jobs \in Seq(Row) /\ JobIds = 1 .. Len(agent_jobs) /\ Len(agent_jobs) \in Nat
  BY DEF TypeOK, JobIds
<1>3. \A i \in 1 .. Len(c.inserted) : NewRow(c.inserted[i], c.max_attempts) \in Row
  BY <1>1, QueueAssumption DEF NewRow, Row, JOB_STATES
<1>4. new \in Seq(Row) /\ Len(new) = Len(c.inserted)
  BY <1>1, <1>3
<1>5. \A i \in 1 .. Len(c.inserted) : new[i] = NewRow(c.inserted[i], c.max_attempts)
  OBVIOUS
<1>6. agent_jobs' = agent_jobs \o new
  BY DEF FinishEnqueue, Publish
<1>7. call'[t] = Idle /\ \A u \in Threads : u # t => call'[u] = call[u]
  BY DEF FinishEnqueue, TypeOK
<1> HIDE DEF new
<1>8. JobIds' = 1 .. Len(agent_jobs) + Len(c.inserted)
  <2>1. agent_jobs' \in Seq(Row) /\ Len(agent_jobs') = Len(agent_jobs) + Len(new)
    BY <1>2, <1>4, <1>6, ConcatSeq
  <2>2. QED
    BY <1>4, <2>1 DEF JobIds
<1>9. \A j \in JobIds : agent_jobs'[j] = agent_jobs[j]
  BY <1>2, <1>4, <1>6
<1>10. \A i \in 1 .. Len(c.inserted) : agent_jobs'[Len(agent_jobs) + i] = new[i]
  BY <1>1, <1>2, <1>4, <1>6
<1>11. QED
  BY <1>1, <1>2, <1>5, <1>7, <1>8, <1>9, <1>10

\* An approved start counts against the limit at once: attempt_count was below.
LEMMA ApproveOvershoot ==
  ASSUME TypeOK, NEW t \in Threads, ApproveStep(t), NEW j \in JobIds, Overshoot(j)
  PROVE  Overshoot(j)'
<1>1. PICK i \in JobIds, action \in Actions :
        \E payload \in Payloads(action) : Approve(t, i, action, payload)
  BY DEF ApproveStep
<1>2. PICK payload \in Payloads(action) : Approve(t, i, action, payload)
  BY <1>1
<1>3. /\ agent_jobs' = agent_jobs /\ JobIds' = JobIds
      /\ call'[t] = [op |-> "transition", job |-> i, action |-> action,
                     payload |-> payload]
      /\ \A u \in Threads : u # t => call'[u] = call[u]
  BY <1>2 DEF Approve, TypeOK, JobIds
<1>4. CASE action # "start"
  BY <1>3, <1>4, ApprovedDropped, OvershootKept
<1>5. CASE i # j
  <2>1. ApprovedStarts(j)' \subseteq ApprovedStarts(j)
    BY <1>3, <1>5 DEF ApprovedStarts
  <2>2. QED
    BY <1>3, <2>1, OvershootKept
<1>6. CASE action = "start" /\ i = j
  <2>1. agent_jobs[j].attempt_count < agent_jobs[j].max_attempts
    BY <1>2, <1>6 DEF Approve, Admits
  <2>2. agent_jobs[j].attempt_count \in Nat /\ agent_jobs[j].max_attempts \in 1 .. 10
    BY RowNumbers
  <2>3. ApprovedStarts(j)' \subseteq Threads
    BY DEF ApprovedStarts
  <2>4. /\ Cardinality(ApprovedStarts(j)') \in Nat /\ Cardinality(Threads) \in Nat
        /\ Cardinality(ApprovedStarts(j)') <= Cardinality(Threads)
    BY <2>3, QueueAssumption, FS_Subset, FS_CardinalityType
  <2>5. QED
    BY <1>3, <2>1, <2>2, <2>4 DEF Overshoot
<1>7. QED
  BY <1>4, <1>5, <1>6

\* Every step of every thread keeps the bound on the overshoot.
LEMMA StepOvershoot ==
  ASSUME TypeOK, AttemptOvershootBounded, [Next]_vars
  PROVE  AttemptOvershootBounded'
<1>1. \A j \in JobIds : Overshoot(j)
  BY DEF AttemptOvershootBounded, Overshoot
<1>2. SUFFICES ASSUME NEW j \in JobIds'
               PROVE  Overshoot(j)'
  BY DEF AttemptOvershootBounded, Overshoot
<1>3. CASE UNCHANGED vars
  <2>1. j \in JobIds
    BY <1>3 DEF vars, JobIds
  <2>2. Overshoot(j)
    BY <1>1, <2>1
  <2>3. QED
    BY <1>3, <2>2 DEF vars, Overshoot, ApprovedStarts
<1>4. ASSUME NEW t \in Threads,
             \/ \E r \in Requests, limit \in AttemptLimits : BeginEnqueue(t, r, limit)
             \/ Lookup(t) \/ Insert(t) \/ Abort(t)
      PROVE  Overshoot(j)'
  BY <1>1, <1>4, QuietEffect, ApprovedDropped, OvershootKept
<1>5. ASSUME NEW t \in Threads, FinishEnqueue(t)
      PROVE  Overshoot(j)'
  <2>1. ApprovedStarts(j)' \subseteq ApprovedStarts(j)
    <3>1. /\ call'[t] = Idle /\ call'[t].op # "transition"
          /\ \A u \in Threads : u # t => call'[u] = call[u]
      BY <1>5, PublishEffect DEF Idle
    <3>2. QED
      BY <3>1, ApprovedDropped
  <2>2. CASE j \in JobIds
    BY <1>1, <1>5, <2>1, <2>2, PublishEffect, OvershootKept
  <2>3. CASE j \notin JobIds
    <3>1. PICK i \in 1 .. Len(call[t].inserted) : j = Len(agent_jobs) + i
      <4> DEFINE n == Len(call[t].inserted)
      <4>1. /\ n \in Nat /\ Len(agent_jobs) \in Nat
            /\ j \in 1 .. Len(agent_jobs) + n
            /\ ~(j \in 1 .. Len(agent_jobs))
        BY <1>5, <2>3, PublishEffect
      <4>2. j - Len(agent_jobs) \in 1 .. n /\ j = Len(agent_jobs) + (j - Len(agent_jobs))
        BY <4>1
      <4>3. QED
        BY <4>2
    <3>2. agent_jobs'[j] = NewRow(call[t].inserted[i], call[t].max_attempts)
      BY <1>5, <3>1, PublishEffect
    <3>3. agent_jobs'[j].attempt_count = 0 /\ agent_jobs'[j].max_attempts \in 1 .. 10
      <4>1. call[t].max_attempts \in AttemptLimits
        BY <1>5, PublishEffect
      <4>2. call[t].max_attempts \in 1 .. 10
        BY <4>1, QueueAssumption
      <4> DEFINE new == NewRow(call[t].inserted[i], call[t].max_attempts)
      <4>3. new.attempt_count = 0 /\ new.max_attempts = call[t].max_attempts
        BY NewRowFields
      <4>4. agent_jobs'[j] = new
        BY <3>2
      <4> HIDE DEF new
      <4>5. QED
        BY <4>2, <4>3, <4>4
    <3>4. /\ Cardinality(ApprovedStarts(j)') \in Nat /\ Cardinality(Threads) \in Nat
          /\ Cardinality(ApprovedStarts(j)') <= Cardinality(Threads)
      <4>1. ApprovedStarts(j)' \subseteq Threads
        BY DEF ApprovedStarts
      <4>2. QED
        BY <4>1, QueueAssumption, FS_Subset, FS_CardinalityType
    <3>5. QED
      BY <3>3, <3>4 DEF Overshoot
  <2>4. QED
    BY <2>2, <2>3
<1>6. ASSUME NEW t \in Threads, ApproveStep(t)
      PROVE  Overshoot(j)'
  <2>1. JobIds' = JobIds
    BY <1>6 DEF ApproveStep, Approve, JobIds
  <2>2. QED
    BY <1>1, <1>6, <2>1, ApproveOvershoot
<1>7. ASSUME NEW t \in Threads, Start(t)
      PROVE  Overshoot(j)'
  <2>1. JobIds' = JobIds
    BY <1>7, CommitEffect DEF Start, Committing
  <2>2. QED
    BY <1>1, <1>7, <2>1, StartOvershoot
<1>8. ASSUME NEW t \in Threads,
             Complete(t) \/ Fail(t) \/ NeedsReview(t) \/ Cancel(t) \/ Requeue(t)
      PROVE  Overshoot(j)'
  <2>1. ApprovedStarts(j)' \subseteq ApprovedStarts(j)
    BY <1>8, OtherCommits, ApprovedDropped DEF Idle
  <2>2. QED
    BY <1>1, <1>8, <2>1, OtherCommits, OvershootKept
<1>9. QED
  BY <1>3, <1>4, <1>5, <1>6, <1>7, <1>8 DEF Next, EnqueueStep, CommitStep

(***************************************************************************)
(* However many threads race, a job is started at most                     *)
(* max_attempts - 1 + |Threads| times: the check of the limit is late by   *)
(* at most one start for every other thread.                               *)
(***************************************************************************)
THEOREM AttemptsBounded == Spec => []AttemptOvershootBounded
  BY TypeCorrect, InitOvershoot, StepOvershoot, PTL DEF Spec

(***************************************************************************)
(* With a single thread the limit itself holds: "job reached its maximum   *)
(* attempts" is answered before a start too many.                          *)
(***************************************************************************)
THEOREM SerialWithinLimit ==
  ASSUME Cardinality(Threads) = 1
  PROVE  Spec => []AttemptsWithinLimit
<1>1. TypeOK /\ AttemptOvershootBounded => AttemptsWithinLimit
  <2>1. SUFFICES ASSUME TypeOK, AttemptOvershootBounded, NEW j \in JobIds
                 PROVE  agent_jobs[j].attempt_count <= agent_jobs[j].max_attempts
    BY DEF AttemptsWithinLimit
  <2>2. /\ agent_jobs[j].attempt_count \in Nat
        /\ agent_jobs[j].max_attempts \in 1 .. 10
    BY <2>1, RowNumbers
  <2>3. Cardinality(ApprovedStarts(j)) \in Nat
    BY ApprovedFinite
  <2>4. QED
    BY <2>1, <2>2, <2>3 DEF AttemptOvershootBounded
<1>2. QED
  BY <1>1, TypeCorrect, AttemptsBounded, PTL

-----------------------------------------------------------------------------
(* An idempotency key has one row *)

(***************************************************************************)
(* The strengthening: only the holder of the write lock has uncommitted    *)
(* rows, and their keys are new and different.  UniqueKeys alone says      *)
(* nothing of the rows a commit is about to add.                           *)
(***************************************************************************)
Enqueuing(t) == call[t].op \in {"lookup", "insert"}

FreshInserts(t) ==
  Enqueuing(t) =>
    /\ call[t].inserted # << >> => writer = t
    /\ \A i \in DOMAIN call[t].inserted : call[t].inserted[i] \notin Stored
    /\ \A i, k \in DOMAIN call[t].inserted :
          call[t].inserted[i] = call[t].inserted[k] => i = k

KeyInv == UniqueKeys /\ \A t \in Threads : FreshInserts(t)

\* At the start nothing is stored and every thread is idle.
LEMMA InitKeyInv == Init => KeyInv
  BY DEF Init, KeyInv, UniqueKeys, FreshInserts, Enqueuing, Idle, JobIds

\* A step that changes neither the keys nor t's call keeps t's rows fresh.
LEMMA FreshKept ==
  ASSUME NEW t \in Threads, FreshInserts(t), call'[t] = call[t],
         Stored' = Stored,
         call[t].inserted # << >> /\ Enqueuing(t) => writer' = t
  PROVE  FreshInserts(t)'
  BY DEF FreshInserts, Enqueuing

\* Keys that keep their rows: nothing about them can change.
LEMMA KeysKept ==
  ASSUME JobIds' = JobIds,
         \A j \in JobIds : agent_jobs'[j].key = agent_jobs[j].key
  PROVE  Stored' = Stored /\ (UniqueKeys => UniqueKeys')
  BY DEF Stored, UniqueKeys

\* The steps of an enqueue before its commit, and an abort.
LEMMA QuietKeyInv ==
  ASSUME TypeOK, KeyInv, NEW t \in Threads,
         \/ \E r \in Requests, limit \in AttemptLimits : BeginEnqueue(t, r, limit)
         \/ Lookup(t) \/ Insert(t) \/ Abort(t)
  PROVE  KeyInv'
<1>1. /\ agent_jobs' = agent_jobs /\ JobIds' = JobIds
      /\ \A u \in Threads : u # t => call'[u] = call[u]
  BY QuietEffect
<1>2. Stored' = Stored /\ UniqueKeys'
  BY <1>1, KeysKept DEF KeyInv
<1>3. ASSUME NEW u \in Threads, u # t
      PROVE  FreshInserts(u)'
  <2>1. call[u].inserted # << >> /\ Enqueuing(u) => writer = u
    BY <1>3 DEF KeyInv, FreshInserts
  <2>2. writer = u => writer' = u
    BY <1>3, QueueAssumption
    DEF BeginEnqueue, Lookup, Insert, Abort
  <2>3. QED
    BY <1>1, <1>2, <1>3, <2>1, <2>2, FreshKept DEF KeyInv
<1>4. FreshInserts(t)'
  <2>1. CASE \E r \in Requests, limit \in AttemptLimits : BeginEnqueue(t, r, limit)
    <3>1. call'[t].inserted = << >>
      BY <2>1 DEF BeginEnqueue, Walk, TypeOK
    <3>2. QED
      BY <3>1 DEF FreshInserts
  <2>2. CASE Abort(t)
    BY <2>2 DEF Abort, FreshInserts, Enqueuing, Idle, TypeOK
  <2>3. ASSUME Enqueuing(t), Found(t) \/ Missing(t), writer' \in {writer, t}
        PROVE  FreshInserts(t)'
    <3>1. call'[t].inserted = call[t].inserted
      BY <2>3 DEF Found, Missing, Walk, TypeOK
    <3>2. QED
      BY <1>2, <2>3, <3>1 DEF KeyInv, FreshInserts
  <2>4. CASE Lookup(t)
    BY <2>3, <2>4 DEF Lookup, Enqueuing
  <2>5. CASE Insert(t)
    <3>1. CASE Found(t)
      BY <2>3, <2>5, <3>1 DEF Insert, Enqueuing
    <3>2. CASE Head(call[t].todo) \notin Visible(t) /\ Inserted(t)
      <4> DEFINE old == call[t].inserted
                 k == Head(call[t].todo)
      <4>1. old \in Seq(Keys) /\ Enqueuing(t)
        BY <2>5, CallShapes DEF Insert, Enqueuing
      <4>2. call'[t].inserted = Append(old, k) /\ writer' = t
        BY <2>5, <3>2 DEF Insert, Inserted, Walk, TypeOK
      <4>3. k \notin Stored /\ \A i \in DOMAIN old : old[i] # k
        BY <3>2 DEF Visible
      <4>4. /\ \A i \in DOMAIN old : old[i] \notin Stored
            /\ \A i, m \in DOMAIN old : old[i] = old[m] => i = m
        BY <4>1 DEF KeyInv, FreshInserts
      <4> HIDE DEF old, k
      <4> DEFINE new == Append(old, k)
      <4>5. /\ DOMAIN new = 1 .. Len(old) + 1 /\ DOMAIN old = 1 .. Len(old)
            /\ Len(old) \in Nat
            /\ new[Len(old) + 1] = k
            /\ \A i \in DOMAIN old : new[i] = old[i]
        BY <4>1
      <4> HIDE DEF new
      <4>6. \A i \in DOMAIN new : new[i] \notin Stored
        BY <4>3, <4>4, <4>5
      <4>7. \A i, m \in DOMAIN new : new[i] = new[m] => i = m
        BY <4>3, <4>4, <4>5
      <4>8. QED
        BY <1>2, <4>2, <4>6, <4>7 DEF FreshInserts, new
    <3>3. QED
      BY <2>5, <3>1, <3>2 DEF Insert
  <2>6. QED
    BY <2>1, <2>2, <2>4, <2>5
<1>5. QED
  BY <1>2, <1>3, <1>4 DEF KeyInv

\* The commit of an enqueue publishes the fresh keys of the lock's holder.
LEMMA PublishKeyInv ==
  ASSUME TypeOK, KeyInv, NEW t \in Threads, FinishEnqueue(t)
  PROVE  KeyInv'
<1> DEFINE new == call[t].inserted
           n == Len(agent_jobs)
<1>1. /\ new \in Seq(Keys) /\ Len(new) \in Nat /\ DOMAIN new = 1 .. Len(new)
      /\ n \in Nat /\ JobIds = 1 .. n /\ JobIds' = 1 .. n + Len(new)
      /\ \A j \in JobIds : agent_jobs'[j] = agent_jobs[j]
      /\ call'[t] = Idle
      /\ \A u \in Threads : u # t => call'[u] = call[u]
  BY PublishEffect
<1>2. \A i \in 1 .. Len(new) : agent_jobs'[n + i].key = new[i]
  BY PublishEffect, NewRowFields
<1>3. /\ new # << >> => writer = t
      /\ \A i \in DOMAIN new : new[i] \notin Stored
      /\ \A i, k \in DOMAIN new : new[i] = new[k] => i = k
  BY DEF KeyInv, FreshInserts, FinishEnqueue, Enqueuing
<1>4. \A i, j \in JobIds : agent_jobs[i].key = agent_jobs[j].key => i = j
  BY DEF KeyInv, UniqueKeys
<1>5. \A j \in JobIds : agent_jobs[j].key \in Stored
  BY DEF Stored
<1> HIDE DEF new, n
<1>6. \A j \in JobIds' \ JobIds : j - n \in DOMAIN new /\ agent_jobs'[j].key = new[j - n]
  <2>1. SUFFICES ASSUME NEW j \in JobIds' \ JobIds
                 PROVE  j - n \in DOMAIN new /\ agent_jobs'[j].key = new[j - n]
    OBVIOUS
  <2>2. j \in Nat /\ j - n \in 1 .. Len(new) /\ n + (j - n) = j
    BY <1>1
  <2>3. QED
    BY <1>1, <1>2, <2>2
<1>7. UniqueKeys'
  <2>1. SUFFICES ASSUME NEW i \in JobIds', NEW j \in JobIds',
                        agent_jobs'[i].key = agent_jobs'[j].key
                 PROVE  i = j
    BY DEF UniqueKeys
  <2>2. CASE i \in JobIds /\ j \in JobIds
    BY <1>1, <1>4, <2>1, <2>2
  <2>3. CASE i \notin JobIds /\ j \notin JobIds
    <3>1. i - n = j - n
      BY <1>3, <1>6, <2>1, <2>3
    <3>2. QED
      BY <1>1, <3>1
  <2>4. CASE i \in JobIds /\ j \notin JobIds
    BY <1>1, <1>3, <1>5, <1>6, <2>1, <2>4
  <2>5. CASE i \notin JobIds /\ j \in JobIds
    BY <1>1, <1>3, <1>5, <1>6, <2>1, <2>5
  <2>6. QED
    BY <2>2, <2>3, <2>4, <2>5
<1>8. ASSUME NEW u \in Threads, u # t
      PROVE  FreshInserts(u)'
  <2>1. CASE Enqueuing(u) /\ call[u].inserted # << >>
    <3>1. writer = u
      BY <2>1 DEF KeyInv, FreshInserts
    <3>2. new = << >>
      BY <1>3, <1>8, <3>1
    <3>3. Len(new) = 0
      BY <3>2
    <3>4. JobIds' = JobIds
      BY <1>1, <3>3
    <3>5. Stored' = Stored
      BY <1>1, <3>4, KeysKept
    <3>6. writer' = u
      BY <1>8, <3>1 DEF FinishEnqueue
    <3>7. QED
      BY <1>1, <1>8, <3>5, <3>6, FreshKept DEF KeyInv
  <2>2. CASE ~Enqueuing(u)
    BY <1>1, <1>8, <2>2 DEF Enqueuing, FreshInserts
  <2>3. CASE call[u].inserted = << >>
    BY <1>1, <1>8, <2>3 DEF FreshInserts
  <2>4. QED
    BY <2>1, <2>2, <2>3
<1>9. FreshInserts(t)'
  BY <1>1 DEF FreshInserts, Enqueuing, Idle
<1>10. QED
  BY <1>7, <1>8, <1>9 DEF KeyInv

\* A start keeps its row's key, as the other transitions do.
LEMMA StartKeys ==
  ASSUME TypeOK, NEW t \in Threads, Start(t)
  PROVE  /\ call[t].op = "transition"
         /\ JobIds' = JobIds
         /\ call'[t] = Idle /\ \A u \in Threads : u # t => call'[u] = call[u]
         /\ \A j \in JobIds :
              /\ agent_jobs'[j].key = agent_jobs[j].key
              /\ j # call[t].job => agent_jobs'[j] = agent_jobs[j]
<1> DEFINE row == agent_jobs[call[t].job]
           n == row.attempt_count + 1
           r == [row EXCEPT !.state = "running", !.attempt_count = n,
                            !.started_at = TRUE, !.error_type = NoError]
<1>1. call[t].op = "transition"
  BY DEF Start, Committing
<1>2. Commit(t, r, "job.started", EmptyResult)
  BY Zenon DEF Start, Current
<1>3. row \in Row
  BY <1>1, CallShapes, RowNumbers
<1>4. r.key = row.key
  <2> HIDE DEF n, row
  <2> QED
    BY <1>3, Zenon DEF Row
<1>5. /\ JobIds' = JobIds
      /\ agent_jobs'[call[t].job] = r
      /\ \A j \in JobIds : j # call[t].job => agent_jobs'[j] = agent_jobs[j]
      /\ call'[t] = Idle /\ \A u \in Threads : u # t => call'[u] = call[u]
  BY <1>1, <1>2, CommitEffect
<1> HIDE DEF r
<1>6. QED
  BY <1>1, <1>4, <1>5

\* A transition commits while no enqueue holds the write lock.
LEMMA CommitKeyInv ==
  ASSUME TypeOK, KeyInv, NEW t \in Threads, CommitStep(t)
  PROVE  KeyInv'
<1>1. /\ JobIds' = JobIds
      /\ call'[t] = Idle /\ \A u \in Threads : u # t => call'[u] = call[u]
      /\ \A j \in JobIds : agent_jobs'[j].key = agent_jobs[j].key
  BY StartKeys, OtherCommits DEF CommitStep
<1>2. Stored' = Stored /\ UniqueKeys'
  BY <1>1, KeysKept DEF KeyInv
<1>3. writer = NoThread
  BY DEF CommitStep, Start, Complete, Fail, NeedsReview, Cancel, Requeue, Committing
<1>4. ASSUME NEW u \in Threads, u # t
      PROVE  FreshInserts(u)'
  <2>1. ~(call[u].inserted # << >> /\ Enqueuing(u))
    BY <1>3, QueueAssumption DEF KeyInv, FreshInserts
  <2>2. QED
    BY <1>1, <1>2, <1>4, <2>1, FreshKept DEF KeyInv
<1>5. FreshInserts(t)'
  BY <1>1 DEF FreshInserts, Enqueuing, Idle
<1>6. QED
  BY <1>2, <1>4, <1>5 DEF KeyInv

\* Every step of every thread keeps the strengthened invariant.
LEMMA StepKeyInv ==
  ASSUME TypeOK, KeyInv, [Next]_vars
  PROVE  KeyInv'
<1>1. CASE UNCHANGED vars
  BY <1>1 DEF vars, KeyInv, UniqueKeys, FreshInserts, Enqueuing, Stored, JobIds
<1>2. ASSUME NEW t \in Threads, ApproveStep(t)
      PROVE  KeyInv'
  <2>1. /\ agent_jobs' = agent_jobs /\ JobIds' = JobIds /\ writer' = writer
        /\ call'[t].op = "transition"
        /\ \A u \in Threads : u # t => call'[u] = call[u]
    BY <1>2 DEF ApproveStep, Approve, TypeOK, JobIds
  <2>2. Stored' = Stored /\ UniqueKeys'
    BY <2>1, KeysKept DEF KeyInv
  <2>3. FreshInserts(t)'
    BY <2>1 DEF FreshInserts, Enqueuing
  <2>4. \A u \in Threads : u # t => FreshInserts(u)'
    BY <2>1, <2>2, FreshKept DEF KeyInv, FreshInserts
  <2>5. QED
    BY <2>2, <2>3, <2>4 DEF KeyInv
<1>3. QED
  BY <1>1, <1>2, QuietKeyInv, PublishKeyInv, CommitKeyInv DEF Next, EnqueueStep

(***************************************************************************)
(* However enqueues interleave between SELECT and INSERT, a key never gets *)
(* a second row.                                                           *)
(***************************************************************************)
THEOREM KeysUnique == Spec => []UniqueKeys
<1>1. KeyInv => UniqueKeys
  BY DEF KeyInv
<1>2. QED
  BY <1>1, TypeCorrect, InitKeyInv, StepKeyInv, PTL DEF Spec

-----------------------------------------------------------------------------
(* A finished job with no call in flight stays as it is *)

SettledStep ==
  \A j \in JobIds :
     Settled(j) => /\ Settled(j)'
                   /\ agent_jobs'[j] = agent_jobs[j]
                   /\ agent_job_events'[j] = agent_job_events[j]

\* A commit touches the trail of its own job only.
LEMMA CommitTrails ==
  ASSUME TypeOK, NEW t \in Threads, CommitStep(t)
  PROVE  \A j \in JobIds :
            j # call[t].job => agent_job_events'[j] = agent_job_events[j]
<1>1. PICK row, type, detail : Commit(t, row, type, detail)
  BY Zenon DEF CommitStep, Start, Complete, Fail, NeedsReview, Cancel, Requeue
<1>2. QED
  BY <1>1 DEF Commit, TypeOK, JobIds

\* An unchanged job stays settled when no call on it appears.
LEMMA SettledKept ==
  ASSUME NEW j \in JobIds, Settled(j), agent_jobs'[j] = agent_jobs[j],
         NEW t \in Threads,
         \A u \in Threads : u # t => call'[u] = call[u],
         call'[t].op = "transition" => call'[t].job # j
  PROVE  Settled(j)'
  BY DEF Settled, Pending

\* No step of any thread touches a settled job.
LEMMA StepSettled ==
  ASSUME TypeOK, [Next]_vars
  PROVE  SettledStep
<1>1. SUFFICES ASSUME NEW j \in JobIds, Settled(j)
               PROVE  /\ Settled(j)'
                      /\ agent_jobs'[j] = agent_jobs[j]
                      /\ agent_job_events'[j] = agent_job_events[j]
  BY DEF SettledStep
<1>2. CASE UNCHANGED vars
  BY <1>1, <1>2 DEF vars, Settled, Pending
<1>3. ASSUME NEW t \in Threads,
             \/ \E r \in Requests, limit \in AttemptLimits : BeginEnqueue(t, r, limit)
             \/ Lookup(t) \/ Insert(t) \/ Abort(t)
      PROVE  /\ Settled(j)'
             /\ agent_jobs'[j] = agent_jobs[j]
             /\ agent_job_events'[j] = agent_job_events[j]
  BY <1>1, <1>3, QuietEffect, SettledKept
<1>4. ASSUME NEW t \in Threads, FinishEnqueue(t)
      PROVE  /\ Settled(j)'
             /\ agent_jobs'[j] = agent_jobs[j]
             /\ agent_job_events'[j] = agent_job_events[j]
  <2>1. /\ agent_jobs'[j] = agent_jobs[j]
        /\ call'[t] = Idle /\ call'[t].op # "transition"
        /\ \A u \in Threads : u # t => call'[u] = call[u]
    BY <1>4, PublishEffect DEF Idle
  <2>2. Settled(j)'
    BY <1>1, <2>1, SettledKept
  <2> DEFINE q == [i \in 1 .. Len(call[t].inserted) |-> <<QueuedEvent>>]
  <2>3. /\ agent_job_events' = agent_job_events \o q
        /\ q \in Seq({<<QueuedEvent>>})
    BY <1>4, PublishEffect DEF FinishEnqueue
  <2>4. j \in 1 .. Len(agent_job_events)
    BY DEF TypeOK, JobIds
  <2> HIDE DEF q
  <2>5. agent_job_events \in Seq(Seq(Event))
    BY DEF TypeOK
  <2>6. agent_job_events'[j] = agent_job_events[j]
    BY <2>3, <2>4, <2>5
  <2>7. QED
    BY <2>1, <2>2, <2>6
<1>5. ASSUME NEW t \in Threads, ApproveStep(t)
      PROVE  /\ Settled(j)'
             /\ agent_jobs'[j] = agent_jobs[j]
             /\ agent_job_events'[j] = agent_job_events[j]
  <2>1. PICK i \in JobIds, action \in Actions :
          \E payload \in Payloads(action) : Approve(t, i, action, payload)
    BY <1>5 DEF ApproveStep
  <2>2. PICK payload \in Payloads(action) : Approve(t, i, action, payload)
    BY <2>1
  <2>3. /\ agent_jobs' = agent_jobs /\ agent_job_events' = agent_job_events
        /\ call'[t].job = i
        /\ \A u \in Threads : u # t => call'[u] = call[u]
    BY <2>2 DEF Approve, TypeOK
  <2>4. i # j
    BY <1>1, <2>2 DEF Settled, Approve, Admits
  <2>5. QED
    BY <1>1, <2>3, <2>4, SettledKept
<1>6. ASSUME NEW t \in Threads, CommitStep(t)
      PROVE  /\ Settled(j)'
             /\ agent_jobs'[j] = agent_jobs[j]
             /\ agent_job_events'[j] = agent_job_events[j]
  <2>1. /\ call[t].op = "transition" /\ call'[t] = Idle
        /\ \A u \in Threads : u # t => call'[u] = call[u]
        /\ j # call[t].job => agent_jobs'[j] = agent_jobs[j]
    BY <1>6, StartKeys, OtherCommits DEF CommitStep
  <2>2. j # call[t].job
    BY <1>1, <2>1 DEF Settled, Pending
  <2>3. Settled(j)'
    BY <1>1, <2>1, <2>2, SettledKept DEF Idle
  <2>4. QED
    BY <1>6, <2>1, <2>2, <2>3, CommitTrails
<1>7. QED
  BY <1>2, <1>3, <1>4, <1>5, <1>6 DEF Next, EnqueueStep

(***************************************************************************)
(* A final job with no approved call waiting is never restarted, changed   *)
(* or given another event, by any number of threads.                       *)
(***************************************************************************)
THEOREM SettledStays == Spec => SettledForever
<1>1. TypeOK /\ [Next]_vars => [SettledStep]_vars
  BY StepSettled
<1>2. SettledForever <=> [][SettledStep]_vars
  BY PTL DEF SettledForever, SettledStep
<1>3. QED
  BY <1>1, <1>2, TypeCorrect, PTL DEF Spec

-----------------------------------------------------------------------------
(* What each transition makes of a row, and the event it adds *)

\* The fields of row that a transition may change are those of r.
Outcome(action, payload, row, r, e) ==
  /\ r \in Row /\ e \in Event
  /\ r.key = row.key /\ r.max_attempts = row.max_attempts
  /\ e.state = r.state
  /\ \/ /\ action = "start" /\ e.event_type = "job.started"
        /\ r.state = "running" /\ r.attempt_count = row.attempt_count + 1
        /\ r.result = row.result /\ r.error_type = NoError
        /\ r.started_at = TRUE
        /\ r.completed_at = row.completed_at /\ r.cancelled_at = row.cancelled_at
     \/ /\ r.attempt_count = row.attempt_count
        /\ \/ /\ \/ /\ action = "complete" /\ e.event_type = "job.completed"
                    /\ r.state = "completed"
                 \/ /\ action = "needs_review" /\ e.event_type = "job.needs_review"
                    /\ r.state = "needs_review"
              /\ r.result = payload /\ e.detail = payload
              /\ r.error_type = row.error_type
              /\ r.started_at = row.started_at /\ r.completed_at = TRUE
              /\ r.cancelled_at = row.cancelled_at
           \/ /\ action = "fail" /\ e.event_type = "job.failed"
              /\ r.state = "failed" /\ r.result = row.result
              /\ r.error_type = payload /\ payload \in ErrorTypes
              /\ r.started_at = row.started_at /\ r.completed_at = TRUE
              /\ r.cancelled_at = row.cancelled_at
           \/ /\ action = "cancel" /\ e.event_type = "job.cancelled"
              /\ r.state = "cancelled" /\ r.result = row.result
              /\ r.error_type = row.error_type
              /\ r.started_at = row.started_at
              /\ r.completed_at = row.completed_at /\ r.cancelled_at = TRUE
           \/ /\ action = "requeue" /\ e.event_type = "job.requeued"
              /\ r.state = "queued" /\ r.result = EmptyResult
              /\ r.error_type = NoError
              /\ r.started_at = FALSE /\ r.completed_at = FALSE
              /\ r.cancelled_at = FALSE

Commits(t, r, e) ==
  /\ call[t].op = "transition" /\ call[t].job \in JobIds
  /\ Outcome(call[t].action, call[t].payload, agent_jobs[call[t].job], r, e)
  /\ agent_jobs' = [agent_jobs EXCEPT ![call[t].job] = r]
  /\ agent_job_events' =
       [agent_job_events EXCEPT ![call[t].job] = Append(agent_job_events[call[t].job], e)]
  /\ call' = [call EXCEPT ![t] = Idle]
  /\ writer = NoThread /\ writer' = NoThread

\* The event a commit appends is e when it is given e's parts.
LEMMA EventParts ==
  ASSUME NEW r, NEW type, NEW detail,
         NEW e, e = [event_type |-> type, state |-> r.state, detail |-> detail],
         e \in Event
  PROVE  /\ e.event_type = type /\ e.state = r.state /\ e.detail = detail
  OBVIOUS

\* A commit of row r with event e, once their fields are known.
LEMMA CommitIsCommits ==
  ASSUME TypeOK, NEW t \in Threads, NEW r, NEW type, NEW detail,
         call[t].op = "transition", writer = NoThread,
         Commit(t, r, type, detail),
         NEW e, e = [event_type |-> type, state |-> r.state, detail |-> detail],
         Outcome(call[t].action, call[t].payload, agent_jobs[call[t].job], r, e)
  PROVE  Commits(t, r, e)
<1>1. call[t].job \in JobIds
  BY CallShapes
<1>2. call[t].job \in DOMAIN agent_job_events
  BY <1>1 DEF TypeOK, JobIds
<1>3. QED
  BY <1>1, <1>2 DEF Commit, Commits

\* Each transition commits its outcome.
LEMMA CommitOutcome ==
  ASSUME TypeOK, NEW t \in Threads, CommitStep(t)
  PROVE  \E r, e : Commits(t, r, e)
<1> DEFINE row == agent_jobs[call[t].job]
           p == call[t].payload
<1>1. call[t].op = "transition" /\ writer = NoThread
  BY DEF CommitStep, Start, Complete, Fail, NeedsReview, Cancel, Requeue, Committing
<1>2. row \in Row
  BY <1>1, CallShapes, RowNumbers
<1>3. /\ row.state \in JOB_STATES /\ EmptyResult \in Results
      /\ {"queued", "running", "completed", "failed", "needs_review",
          "cancelled"} = JOB_STATES
  BY <1>2, QueueAssumption DEF Row, JOB_STATES
<1>4. call[t].action \in {"complete", "needs_review"} => p \in Results
  BY <1>1, CallShapes, Zenon DEF Payloads
<1>5. call[t].action = "fail" => p \in ErrorTypes
  BY <1>1, CallShapes, Zenon DEF Payloads
<1>6. CASE Start(t)
  <2> DEFINE n == row.attempt_count + 1
             r == [row EXCEPT !.state = "running", !.attempt_count = n,
                              !.started_at = TRUE, !.error_type = NoError]
             e == [event_type |-> "job.started", state |-> r.state,
                   detail |-> EmptyResult]
  <2>1. n \in Nat
    BY <1>2 DEF Row
  <2>2. Commit(t, r, "job.started", EmptyResult) /\ call[t].action = "start"
    BY <1>6, Zenon DEF Start, Current, Committing
  <2>3. /\ r \in Row /\ r.state = "running" /\ r.key = row.key
        /\ r.max_attempts = row.max_attempts /\ r.attempt_count = n
        /\ r.result = row.result /\ r.error_type = NoError
        /\ r.started_at = TRUE /\ r.completed_at = row.completed_at
        /\ r.cancelled_at = row.cancelled_at
    <3> HIDE DEF n, row
    <3> QED
      BY <1>2, <1>3, <2>1, Zenon DEF Row
  <2> HIDE DEF r
  <2>4. e \in Event
    BY <1>3, <2>3 DEF Event
  <2>5. Outcome(call[t].action, p, row, r, e)
    BY <2>2, <2>3, <2>4 DEF Outcome
  <2>6. QED
    BY <1>1, <2>2, <2>5, CommitIsCommits
<1>7. ASSUME NEW state, NEW type,
             \/ /\ state = "completed" /\ type = "job.completed"
                /\ call[t].action = "complete"
             \/ /\ state = "needs_review" /\ type = "job.needs_review"
                /\ call[t].action = "needs_review",
             Commit(t, [row EXCEPT !.state = state, !.result = p,
                                   !.completed_at = TRUE], type, p)
      PROVE  \E r, e : Commits(t, r, e)
  <2> DEFINE r == [row EXCEPT !.state = state, !.result = p, !.completed_at = TRUE]
             e == [event_type |-> type, state |-> r.state, detail |-> p]
  <2>1. p \in Results /\ state \in JOB_STATES
    BY <1>3, <1>4, <1>7
  <2>2. /\ r \in Row /\ r.state = state /\ r.key = row.key
        /\ r.max_attempts = row.max_attempts
        /\ r.attempt_count = row.attempt_count
        /\ r.result = p /\ r.error_type = row.error_type
        /\ r.started_at = row.started_at /\ r.completed_at = TRUE
        /\ r.cancelled_at = row.cancelled_at
    <3> HIDE DEF row, p
    <3> QED
      BY <1>2, <1>3, <2>1, Zenon DEF Row
  <2>3. Commit(t, r, type, p)
    BY <1>7
  <2> HIDE DEF r
  <2>4. e \in Event
    BY <1>3, <1>7, <2>1, <2>2 DEF Event
  <2>5. Outcome(call[t].action, p, row, r, e)
    BY <1>7, <2>2, <2>4 DEF Outcome
  <2>6. QED
    BY <1>1, <2>3, <2>5, CommitIsCommits
<1>8. CASE Complete(t)
  BY <1>7, <1>8, Zenon DEF Complete, Current, Committing
<1>9. CASE NeedsReview(t)
  BY <1>7, <1>9, Zenon DEF NeedsReview, Current, Committing
<1>10. CASE Fail(t)
  <2> DEFINE r == [row EXCEPT !.state = "failed", !.error_type = p,
                              !.completed_at = TRUE]
             e == [event_type |-> "job.failed", state |-> r.state, detail |-> p]
  <2>1. Commit(t, r, "job.failed", p) /\ call[t].action = "fail"
    BY <1>10, Zenon DEF Fail, Current, Committing
  <2>2. p \in ErrorTypes
    BY <1>5, <2>1
  <2>3. /\ r \in Row /\ r.state = "failed" /\ r.key = row.key
        /\ r.max_attempts = row.max_attempts
        /\ r.attempt_count = row.attempt_count
        /\ r.result = row.result /\ r.error_type = p
        /\ r.started_at = row.started_at /\ r.completed_at = TRUE
        /\ r.cancelled_at = row.cancelled_at
    <3> HIDE DEF row, p
    <3> QED
      BY <1>2, <1>3, <2>2, Zenon DEF Row
  <2> HIDE DEF r
  <2>4. e \in Event
    BY <1>3, <2>2, <2>3 DEF Event
  <2>5. Outcome(call[t].action, p, row, r, e)
    BY <2>1, <2>2, <2>3, <2>4 DEF Outcome
  <2>6. QED
    BY <1>1, <2>1, <2>5, CommitIsCommits
<1>11. CASE Cancel(t)
  <2> DEFINE r == [row EXCEPT !.state = "cancelled", !.cancelled_at = TRUE]
             e == [event_type |-> "job.cancelled", state |-> r.state,
                   detail |-> EmptyResult]
  <2>1. Commit(t, r, "job.cancelled", EmptyResult) /\ call[t].action = "cancel"
    BY <1>11, Zenon DEF Cancel, Current, Committing
  <2>2. /\ r \in Row /\ r.state = "cancelled" /\ r.key = row.key
        /\ r.max_attempts = row.max_attempts
        /\ r.attempt_count = row.attempt_count
        /\ r.result = row.result /\ r.error_type = row.error_type
        /\ r.started_at = row.started_at /\ r.completed_at = row.completed_at
        /\ r.cancelled_at = TRUE
    <3> HIDE DEF row
    <3> QED
      BY <1>2, <1>3, Zenon DEF Row
  <2> HIDE DEF r
  <2>3. e \in Event
    BY <1>3, <2>2 DEF Event
  <2>4. Outcome(call[t].action, p, row, r, e)
    BY <2>1, <2>2, <2>3 DEF Outcome
  <2>5. QED
    BY <1>1, <2>1, <2>4, CommitIsCommits
<1>12. CASE Requeue(t)
  <2> DEFINE r == [row EXCEPT !.state = "queued", !.error_type = NoError,
                              !.started_at = FALSE, !.completed_at = FALSE,
                              !.cancelled_at = FALSE, !.result = EmptyResult]
             e == [event_type |-> "job.requeued", state |-> r.state,
                   detail |-> EmptyResult]
  <2>1. Commit(t, r, "job.requeued", EmptyResult) /\ call[t].action = "requeue"
    BY <1>12, Zenon DEF Requeue, Current, Committing
  <2>2. /\ r \in Row /\ r.state = "queued" /\ r.key = row.key
        /\ r.max_attempts = row.max_attempts
        /\ r.attempt_count = row.attempt_count
        /\ r.result = EmptyResult /\ r.error_type = NoError
        /\ r.started_at = FALSE /\ r.completed_at = FALSE
        /\ r.cancelled_at = FALSE
    <3> HIDE DEF row
    <3> QED
      BY <1>2, <1>3, Zenon DEF Row
  <2> HIDE DEF r
  <2>3. e \in Event
    BY <1>3, <2>2 DEF Event
  <2>4. Outcome(call[t].action, p, row, r, e)
    BY <2>1, <2>2, <2>3 DEF Outcome
  <2>5. QED
    BY <1>1, <2>1, <2>4, CommitIsCommits
<1>13. QED
  BY <1>6, <1>8, <1>9, <1>10, <1>11, <1>12 DEF CommitStep

\* What a commit leaves alone, and what it replaces.
LEMMA CommitsEffect ==
  ASSUME TypeOK, NEW t \in Threads, NEW r, NEW e, Commits(t, r, e)
  PROVE  /\ JobIds' = JobIds /\ call[t].job \in JobIds
         /\ agent_jobs[call[t].job] \in Row
         /\ agent_jobs'[call[t].job] = r
         /\ agent_job_events[call[t].job] \in Seq(Event)
         /\ agent_job_events'[call[t].job] =
              Append(agent_job_events[call[t].job], e)
         /\ \A j \in JobIds : j # call[t].job =>
              /\ agent_jobs'[j] = agent_jobs[j]
              /\ agent_job_events'[j] = agent_job_events[j]
         /\ call'[t] = Idle
         /\ \A u \in Threads : u # t => call'[u] = call[u]
  BY DEF Commits, TypeOK, JobIds

\* The second of two concatenated sequences follows the first.
LEMMA ConcatTail ==
  ASSUME NEW S, NEW u \in Seq(S), NEW v \in Seq(S), NEW i \in 1 .. Len(v)
  PROVE  (u \o v)[Len(u) + i] = v[i]
  OBVIOUS

\* The commit of an enqueue keeps the trails there are and opens the new ones.
LEMMA PublishTrails ==
  ASSUME TypeOK, NEW t \in Threads, FinishEnqueue(t)
  PROVE  /\ \A j \in JobIds : agent_job_events'[j] = agent_job_events[j]
         /\ \A i \in 1 .. Len(call[t].inserted) :
              agent_job_events'[Len(agent_jobs) + i] = <<QueuedEvent>>
<1> DEFINE n == Len(call[t].inserted)
           q == [i \in 1 .. n |-> <<QueuedEvent>>]
<1>1. n \in Nat
  BY PublishEffect
<1>2. <<QueuedEvent>> \in Seq(Event)
  BY QueueAssumption DEF QueuedEvent, Event, JOB_STATES
<1>3. q \in Seq(Seq(Event)) /\ Len(q) = n /\ \A i \in 1 .. n : q[i] = <<QueuedEvent>>
  BY <1>1, <1>2
<1>4. agent_job_events' = agent_job_events \o q
  BY DEF FinishEnqueue
<1>5. /\ agent_job_events \in Seq(Seq(Event))
      /\ Len(agent_job_events) = Len(agent_jobs)
      /\ Len(agent_jobs) \in Nat /\ JobIds = 1 .. Len(agent_jobs)
  BY DEF TypeOK, JobIds
<1> HIDE DEF q, n
<1>6. \A j \in JobIds : agent_job_events'[j] = agent_job_events[j]
  BY <1>3, <1>4, <1>5
<1>7. \A i \in 1 .. n : (agent_job_events \o q)[Len(agent_job_events) + i] = q[i]
  BY <1>3, <1>5, ConcatTail
<1>8. QED
  BY <1>3, <1>4, <1>5, <1>6, <1>7 DEF n

\* A job that a commit of t adds is one of the rows t inserted.
LEMMA NewJob ==
  ASSUME TypeOK, NEW t \in Threads, FinishEnqueue(t), NEW j \in JobIds', j \notin JobIds
  PROVE  \E i \in 1 .. Len(call[t].inserted) : j = Len(agent_jobs) + i
<1> DEFINE n == Len(call[t].inserted)
           i == j - Len(agent_jobs)
<1>1. /\ n \in Nat /\ Len(agent_jobs) \in Nat
      /\ j \in 1 .. Len(agent_jobs) + n
      /\ ~(j \in 1 .. Len(agent_jobs))
  BY PublishEffect
<1>2. i \in 1 .. n /\ j = Len(agent_jobs) + i
  BY <1>1
<1>3. QED
  BY <1>2

-----------------------------------------------------------------------------
(* The event trail of a job explains its row, and its result *)

OfType(trail, type) == {i \in DOMAIN trail : trail[i].event_type = type}

\* The trail explains the row (TrailExplainsRow, for one job).
Explains(trail, row) ==
  /\ trail # << >>
  /\ \A i \in DOMAIN trail : (trail[i].event_type = "job.queued") <=> (i = 1)
  /\ trail[Len(trail)].state = row.state
  /\ Cardinality(OfType(trail, "job.started")) = row.attempt_count
  /\ row.state \in {"completed", "needs_review"} => trail[Len(trail)].detail = row.result

\* The trail shows where the result came from (ResultHasProvenance, for one job).
Accounts(trail, row) ==
  row.result # EmptyResult =>
    \E i \in DOMAIN trail :
       /\ trail[i].event_type \in {"job.completed", "job.needs_review"}
       /\ trail[i].detail = row.result
       /\ \A k \in i .. Len(trail) : trail[k].event_type # "job.requeued"

TrailInv ==
  \A j \in JobIds : /\ Explains(agent_job_events[j], agent_jobs[j])
                    /\ Accounts(agent_job_events[j], agent_jobs[j])

\* A trail with one more event.
LEMMA Appended ==
  ASSUME NEW S, NEW s \in Seq(S), NEW e \in S
  PROVE  /\ Len(s) \in Nat /\ DOMAIN s = 1 .. Len(s)
         /\ Append(s, e) \in Seq(S)
         /\ Len(Append(s, e)) = Len(s) + 1
         /\ DOMAIN Append(s, e) = 1 .. Len(s) + 1
         /\ Append(s, e)[Len(s) + 1] = e
         /\ \A i \in 1 .. Len(s) : Append(s, e)[i] = s[i]
  OBVIOUS

\* The positions of a kind of event in a trail, after one more event.
LEMMA CountAppended ==
  ASSUME NEW s \in Seq(Event), NEW e \in Event, NEW type
  PROVE  /\ Cardinality(OfType(s, type)) \in Nat
         /\ Cardinality(OfType(Append(s, e), type)) =
              IF e.event_type = type THEN Cardinality(OfType(s, type)) + 1
              ELSE Cardinality(OfType(s, type))
<1> DEFINE n == Len(s)
           a == Append(s, e)
           old == OfType(s, type)
           new == OfType(a, type)
<1>1. /\ n \in Nat /\ DOMAIN s = 1 .. n /\ DOMAIN a = 1 .. n + 1
      /\ a[n + 1] = e /\ \A i \in 1 .. n : a[i] = s[i]
  BY Appended
<1> HIDE DEF a
<1>2. IsFiniteSet(1 .. n) /\ old \in SUBSET (1 .. n)
  BY <1>1, FS_Interval DEF OfType
<1>3. IsFiniteSet(old) /\ Cardinality(old) \in Nat
  BY <1>2, FS_Subset, FS_CardinalityType
<1>4. new = IF e.event_type = type THEN old \cup {n + 1} ELSE old
  BY <1>1 DEF OfType
<1>5. n + 1 \notin old
  BY <1>1 DEF OfType
<1>6. Cardinality(old \cup {n + 1}) = Cardinality(old) + 1
  BY <1>3, <1>5, FS_AddElement
<1>7. QED
  BY <1>3, <1>4, <1>6 DEF a

\* A transition extends the trail as it changes the row.
LEMMA OutcomeExplained ==
  ASSUME NEW action, NEW payload, NEW row \in Row, NEW r, NEW e,
         Outcome(action, payload, row, r, e), NEW trail \in Seq(Event),
         Explains(trail, row)
  PROVE  Explains(Append(trail, e), r)
<1> DEFINE n == Len(trail)
           a == Append(trail, e)
           old == OfType(trail, "job.started")
           new == OfType(a, "job.started")
<1>1. /\ n \in Nat /\ DOMAIN trail = 1 .. n /\ DOMAIN a = 1 .. n + 1
      /\ Len(a) = n + 1 /\ a[n + 1] = e /\ \A i \in 1 .. n : a[i] = trail[i]
      /\ a \in Seq(Event)
  BY Appended DEF Outcome
<1>2. /\ Cardinality(old) = row.attempt_count
      /\ Cardinality(new) = IF e.event_type = "job.started" THEN Cardinality(old) + 1
                            ELSE Cardinality(old)
  <2>1. e \in Event
    BY DEF Outcome
  <2>2. QED
    BY <2>1, CountAppended DEF Explains
<1>3. n # 0
  BY <1>1 DEF Explains
<1> HIDE DEF a
<1>4. a # << >>
  BY <1>1
<1>5. e.event_type # "job.queued"
  BY DEF Outcome
<1>6. \A i \in 1 .. n : (a[i].event_type = "job.queued") <=> (i = 1)
  BY <1>1 DEF Explains
<1>7. \A i \in DOMAIN a : (a[i].event_type = "job.queued") <=> (i = 1)
  BY <1>1, <1>3, <1>5, <1>6
<1>8. a[Len(a)].state = r.state
  BY <1>1 DEF Outcome
<1>9. Cardinality(new) = r.attempt_count
  BY <1>2 DEF Outcome
<1>10. r.state \in {"completed", "needs_review"} => a[Len(a)].detail = r.result
  BY <1>1 DEF Outcome
<1>11. QED
  BY <1>4, <1>7, <1>8, <1>9, <1>10 DEF Explains, a

\* Only a requeue forgets a result, and it forgets it in the row as well.
LEMMA OutcomeAccounted ==
  ASSUME NEW action, NEW payload, NEW row \in Row, NEW r, NEW e,
         Outcome(action, payload, row, r, e), NEW trail \in Seq(Event),
         Accounts(trail, row)
  PROVE  Accounts(Append(trail, e), r)
<1> DEFINE n == Len(trail)
           a == Append(trail, e)
<1>1. /\ n \in Nat /\ DOMAIN trail = 1 .. n /\ DOMAIN a = 1 .. n + 1
      /\ Len(a) = n + 1 /\ a[n + 1] = e /\ \A i \in 1 .. n : a[i] = trail[i]
  BY Appended DEF Outcome
<1> HIDE DEF a
<1>2. CASE e.event_type \in {"job.completed", "job.needs_review"}
  <2>1. e.detail = r.result
    BY <1>2 DEF Outcome
  <2>2. \A k \in n + 1 .. n + 1 : a[k].event_type # "job.requeued"
    BY <1>1, <1>2
  <2>3. QED
    BY <1>1, <1>2, <2>1, <2>2 DEF Accounts, a
<1>3. CASE e.event_type = "job.requeued"
  BY <1>3 DEF Outcome, Accounts
<1>4. CASE e.event_type \in {"job.started", "job.failed", "job.cancelled"}
  <2>1. r.result = row.result
    BY <1>4 DEF Outcome
  <2>2. SUFFICES ASSUME row.result # EmptyResult
                 PROVE  Accounts(a, r)
    BY <2>1 DEF Accounts, a
  <2>3. PICK i \in 1 .. n :
          /\ trail[i].event_type \in {"job.completed", "job.needs_review"}
          /\ trail[i].detail = row.result
          /\ \A k \in i .. n : trail[k].event_type # "job.requeued"
    BY <1>1, <2>2 DEF Accounts
  <2>4. \A k \in i .. n + 1 : a[k].event_type # "job.requeued"
    BY <1>1, <1>4, <2>3
  <2>5. i \in DOMAIN a /\ a[i] = trail[i]
    BY <1>1
  <2>6. QED
    BY <1>1, <2>1, <2>3, <2>4, <2>5 DEF Accounts
<1>5. QED
  BY <1>2, <1>3, <1>4 DEF Outcome, Event

\* A new job's trail has the one event job.queued.
LEMMA NewJobExplained ==
  ASSUME NEW key, NEW limit
  PROVE  /\ Explains(<<QueuedEvent>>, NewRow(key, limit))
         /\ Accounts(<<QueuedEvent>>, NewRow(key, limit))
<1>1. OfType(<<QueuedEvent>>, "job.started") = {}
  BY DEF OfType, QueuedEvent
<1>2. QED
  BY <1>1, FS_EmptySet DEF Explains, Accounts, NewRow, QueuedEvent

\* A commit keeps the trails that explain their rows.
LEMMA CommitTrailInv ==
  ASSUME TypeOK, TrailInv, NEW t \in Threads, CommitStep(t)
  PROVE  TrailInv'
<1>1. PICK r, e : Commits(t, r, e)
  BY CommitOutcome
<1> DEFINE j == call[t].job
<1>2. /\ JobIds' = JobIds /\ j \in JobIds /\ agent_jobs[j] \in Row
      /\ agent_jobs'[j] = r
      /\ agent_job_events[j] \in Seq(Event)
      /\ agent_job_events'[j] = Append(agent_job_events[j], e)
      /\ \A i \in JobIds : i # j => /\ agent_jobs'[i] = agent_jobs[i]
                                    /\ agent_job_events'[i] = agent_job_events[i]
  BY <1>1, CommitsEffect
<1>3. Outcome(call[t].action, call[t].payload, agent_jobs[j], r, e)
  BY <1>1 DEF Commits
<1> HIDE DEF j
<1>4. /\ Explains(agent_job_events[j], agent_jobs[j])
      /\ Accounts(agent_job_events[j], agent_jobs[j])
  BY <1>2 DEF TrailInv
<1>5. /\ Explains(Append(agent_job_events[j], e), r)
      /\ Accounts(Append(agent_job_events[j], e), r)
  BY <1>2, <1>3, <1>4, OutcomeExplained, OutcomeAccounted
<1>6. SUFFICES ASSUME NEW i \in JobIds
               PROVE  /\ Explains(agent_job_events'[i], agent_jobs'[i])
                      /\ Accounts(agent_job_events'[i], agent_jobs'[i])
  BY <1>2 DEF TrailInv, Explains, Accounts, OfType
<1>7. QED
  BY <1>2, <1>5 DEF TrailInv

\* Every step of every thread keeps the trails that explain their rows.
LEMMA StepTrailInv ==
  ASSUME TypeOK, TrailInv, [Next]_vars
  PROVE  TrailInv'
<1>1. ASSUME UNCHANGED <<agent_jobs, agent_job_events>>
      PROVE  TrailInv'
  <2>1. SUFFICES ASSUME NEW j \in JobIds'
                 PROVE  /\ Explains(agent_job_events'[j], agent_jobs'[j])
                        /\ Accounts(agent_job_events'[j], agent_jobs'[j])
    BY DEF TrailInv, Explains, Accounts, OfType
  <2>2. j \in JobIds
    BY <1>1 DEF JobIds
  <2>3. QED
    BY <1>1, <2>2 DEF TrailInv
<1>2. ASSUME NEW t \in Threads, FinishEnqueue(t)
      PROVE  TrailInv'
  <2>1. SUFFICES ASSUME NEW j \in JobIds'
                 PROVE  /\ Explains(agent_job_events'[j], agent_jobs'[j])
                        /\ Accounts(agent_job_events'[j], agent_jobs'[j])
    BY DEF TrailInv, Explains, Accounts, OfType
  <2>2. CASE j \in JobIds
    BY <1>2, <2>2, PublishEffect, PublishTrails DEF TrailInv
  <2>3. CASE j \notin JobIds
    <3>1. PICK i \in 1 .. Len(call[t].inserted) : j = Len(agent_jobs) + i
      BY <1>2, <2>3, NewJob
    <3>2. /\ agent_jobs'[j] = NewRow(call[t].inserted[i], call[t].max_attempts)
          /\ agent_job_events'[j] = <<QueuedEvent>>
      BY <1>2, <3>1, PublishEffect, PublishTrails
    <3>3. QED
      BY <3>2, NewJobExplained
  <2>4. QED
    BY <2>2, <2>3
<1>3. ASSUME NEW t \in Threads, ApproveStep(t)
      PROVE  TrailInv'
  BY <1>1, <1>3 DEF ApproveStep, Approve
<1>4. QED
  BY <1>1, <1>2, <1>3, QuietEffect, CommitTrailInv DEF Next, EnqueueStep, vars

\* No job, no trail.
LEMMA InitTrailInv == Init => TrailInv
  BY DEF Init, TrailInv, JobIds

(***************************************************************************)
(* Whatever threads race, the trail of a job starts with its one           *)
(* job.queued, ends in the row's state, has a job.started for every        *)
(* counted attempt and, for a finished job, carries the row's result.      *)
(***************************************************************************)
THEOREM TrailsExplain == Spec => []TrailExplainsRow
<1>1. TrailInv => TrailExplainsRow
  BY DEF TrailInv, Explains, OfType, TrailExplainsRow, Starts
<1>2. QED
  BY <1>1, TypeCorrect, InitTrailInv, StepTrailInv, PTL DEF Spec

(***************************************************************************)
(* A result in a row was reported for that job after its last requeue,     *)
(* whatever threads race.                                                  *)
(***************************************************************************)
THEOREM ResultsAccounted == Spec => []ResultHasProvenance
<1>1. TrailInv => ResultHasProvenance
  BY DEF TrailInv, Accounts, ResultHasProvenance
<1>2. QED
  BY <1>1, TypeCorrect, InitTrailInv, StepTrailInv, PTL DEF Spec

-----------------------------------------------------------------------------
(* An enqueue is all or nothing *)

(***************************************************************************)
(* A key names the case, the topic, the agent, the input and the version   *)
(* of the registry (the hash of its file), so requests that share a key    *)
(* are routed by one registry content and have all their keys in common.   *)
(* That leaves out an edit of the file between routing and hashing, which  *)
(* AgentRegistry is about.                                                 *)
(***************************************************************************)
RoutesAgree ==
  \A r, s \in Requests :
     RouteKeys(r) \cap RouteKeys(s) # {} => RouteKeys(r) = RouteKeys(s)

Members(s) == {s[i] : i \in DOMAIN s}

(***************************************************************************)
(* The strengthening: an enqueue in progress serves some request; every    *)
(* key of that request is stored, inserted or still to be walked, and the  *)
(* call has no others.                                                     *)
(***************************************************************************)
Serves(c, r) ==
  /\ Members(c.todo) \cup Members(c.inserted) \subseteq RouteKeys(r)
  /\ RouteKeys(r) \subseteq Stored \cup Members(c.todo) \cup Members(c.inserted)

OnRoute(t) == Enqueuing(t) => \E r \in Requests : Serves(call[t], r)

FanInv == FanOutAtomic /\ \A t \in Threads : OnRoute(t)

\* The members of a sequence taken apart and put together.
LEMMA MembersOf ==
  ASSUME NEW S, NEW s \in Seq(S)
  PROVE  /\ s = << >> => Members(s) = {}
         /\ s # << >> => Members(s) = {Head(s)} \cup Members(Tail(s))
         /\ \A x \in S : Members(Append(s, x)) = Members(s) \cup {x}
<1>1. s = << >> => Members(s) = {}
  BY DEF Members
<1>2. ASSUME s # << >>
      PROVE  Members(s) = {Head(s)} \cup Members(Tail(s))
  <2> DEFINE n == Len(s)
             z == Tail(s)
  <2>1. /\ n \in Nat /\ n > 0 /\ DOMAIN s = 1 .. n /\ DOMAIN z = 1 .. n - 1
        /\ s[1] = Head(s)
        /\ \A i \in 1 .. n - 1 : z[i] = s[i + 1]
    BY <1>2
  <2> HIDE DEF n, z
  <2>2. ASSUME NEW i \in 1 .. n
        PROVE  s[i] \in {Head(s)} \cup Members(z)
    <3>1. CASE i = 1
      BY <2>1, <3>1
    <3>2. CASE i # 1
      <4>1. i - 1 \in 1 .. n - 1 /\ (i - 1) + 1 = i
        BY <2>1, <3>2
      <4>2. z[i - 1] = s[i]
        BY <2>1, <4>1
      <4>3. QED
        BY <2>1, <4>1, <4>2 DEF Members
    <3>3. QED
      BY <3>1, <3>2
  <2>3. ASSUME NEW i \in 1 .. n - 1
        PROVE  z[i] \in Members(s)
    <3>1. i + 1 \in 1 .. n
      BY <2>1
    <3>2. QED
      BY <2>1, <3>1 DEF Members
  <2>4. Head(s) \in Members(s)
    BY <2>1 DEF Members
  <2>5. QED
    BY <2>1, <2>2, <2>3, <2>4 DEF Members, z
<1>3. ASSUME NEW x \in S
      PROVE  Members(Append(s, x)) = Members(s) \cup {x}
  <2> DEFINE n == Len(s)
             a == Append(s, x)
  <2>1. /\ n \in Nat /\ DOMAIN s = 1 .. n /\ DOMAIN a = 1 .. n + 1
        /\ a[n + 1] = x /\ \A i \in 1 .. n : a[i] = s[i]
    BY <1>3, Appended
  <2> HIDE DEF n, a
  <2>2. 1 .. n + 1 = (1 .. n) \cup {n + 1}
    BY <2>1
  <2>3. QED
    BY <2>1, <2>2 DEF Members, a
<1>4. QED
  BY <1>1, <1>2, <1>3

\* A call that a thread keeps goes on serving its request as keys are added.
LEMMA OnRouteKept ==
  ASSUME NEW t \in Threads, OnRoute(t), call'[t] = call[t], Stored \subseteq Stored'
  PROVE  OnRoute(t)'
<1>1. CASE ~Enqueuing(t)
  BY <1>1 DEF OnRoute, Enqueuing
<1>2. CASE Enqueuing(t)
  <2>1. PICK r \in Requests : Serves(call[t], r)
    BY <1>2 DEF OnRoute
  <2>2. Serves(call[t], r)'
    BY <2>1 DEF Serves, RouteKeys
  <2>3. QED
    BY <2>2 DEF OnRoute
<1>3. QED
  BY <1>1, <1>2

\* The steps of an enqueue before its commit, and an abort.
LEMMA QuietFanInv ==
  ASSUME TypeOK, FanInv, NEW t \in Threads,
         \/ \E r \in Requests, limit \in AttemptLimits : BeginEnqueue(t, r, limit)
         \/ Lookup(t) \/ Insert(t) \/ Abort(t)
  PROVE  FanInv'
<1>1. /\ agent_jobs' = agent_jobs /\ JobIds' = JobIds
      /\ \A u \in Threads : u # t => call'[u] = call[u]
  BY QuietEffect
<1>2. Stored' = Stored
  BY <1>1 DEF Stored
<1>3. FanOutAtomic'
  BY <1>2 DEF FanInv, FanOutAtomic, RouteKeys
<1>4. \A u \in Threads : u # t => OnRoute(u)'
  BY <1>1, <1>2, OnRouteKept DEF FanInv
<1>5. ASSUME NEW r \in Requests, NEW limit \in AttemptLimits, BeginEnqueue(t, r, limit)
      PROVE  OnRoute(t)'
  <2>1. call'[t].todo = Routes[r] /\ call'[t].inserted = << >>
    BY <1>5 DEF BeginEnqueue, Walk, TypeOK
  <2>2. Members(call'[t].todo) = RouteKeys(r) /\ Members(call'[t].inserted) = {}
    BY <2>1 DEF Members, RouteKeys
  <2>3. Serves(call[t], r)'
    BY <2>2 DEF Serves, RouteKeys, Members
  <2>4. QED
    BY <2>3 DEF OnRoute
<1>6. ASSUME Abort(t)
      PROVE  OnRoute(t)'
  <2>1. call'[t] = Idle
    BY <1>6 DEF Abort, TypeOK
  <2>2. QED
    BY <2>1 DEF OnRoute, Enqueuing, Idle
<1>7. ASSUME Enqueuing(t),
             Members(call'[t].todo) \cup Members(call'[t].inserted) \subseteq
               Members(call[t].todo) \cup Members(call[t].inserted),
             Members(call[t].todo) \cup Members(call[t].inserted) \subseteq
               Stored \cup Members(call'[t].todo) \cup Members(call'[t].inserted)
      PROVE  OnRoute(t)'
  <2>1. PICK r \in Requests : Serves(call[t], r)
    BY <1>7 DEF FanInv, OnRoute
  <2>2. RouteKeys(r)' = RouteKeys(r)
    BY DEF RouteKeys
  <2>3. Serves(call[t], r)'
    BY <1>2, <1>7, <2>1, <2>2 DEF Serves, Members
  <2>4. QED
    BY <2>3 DEF OnRoute
<1> DEFINE todo == call[t].todo
           inserted == call[t].inserted
<1>8. ASSUME Enqueuing(t), todo # << >>, Found(t)
      PROVE  OnRoute(t)'
  <2>1. call'[t].todo = Tail(todo) /\ call'[t].inserted = inserted
    BY <1>8 DEF Found, Walk, TypeOK
  <2>2. todo \in Seq(Keys)
    BY <1>8, CallShapes DEF Enqueuing
  <2>3. Members(todo) = {Head(todo)} \cup Members(Tail(todo))
    BY <1>8, <2>2, MembersOf
  <2>4. Head(todo) \in Stored \cup Members(inserted)
    BY <1>8 DEF Found, Visible, Members
  <2>5. QED
    BY <1>7, <1>8, <2>1, <2>3, <2>4
<1>9. ASSUME Lookup(t)
      PROVE  OnRoute(t)'
  <2>1. Enqueuing(t) /\ todo # << >>
    BY <1>9 DEF Lookup, Enqueuing
  <2>2. ASSUME Missing(t)
        PROVE  OnRoute(t)'
    <3>1. call'[t].todo = todo /\ call'[t].inserted = inserted
      BY <2>2 DEF Missing, Walk, TypeOK
    <3>2. QED
      BY <1>7, <2>1, <3>1
  <2>3. Found(t) \/ Missing(t)
    BY <1>9 DEF Lookup
  <2>4. QED
    BY <1>8, <2>1, <2>2, <2>3
<1>10. ASSUME Insert(t)
       PROVE  OnRoute(t)'
  <2>1. Enqueuing(t) /\ todo # << >> /\ todo \in Seq(Keys) /\ inserted \in Seq(Keys)
    BY <1>10, CallShapes DEF Insert, Enqueuing
  <2>2. ASSUME Inserted(t)
        PROVE  OnRoute(t)'
    <3>1. /\ call'[t].todo = Tail(todo)
          /\ call'[t].inserted = Append(inserted, Head(todo))
      BY <2>2 DEF Inserted, Walk, TypeOK
    <3>2. Members(todo) = {Head(todo)} \cup Members(Tail(todo))
      BY <2>1, MembersOf
    <3>3. Head(todo) \in Keys
      BY <2>1
    <3>4. Members(Append(inserted, Head(todo))) = Members(inserted) \cup {Head(todo)}
      BY <2>1, <3>3, MembersOf
    <3>5. QED
      BY <1>7, <2>1, <3>1, <3>2, <3>4
  <2>3. Found(t) \/ Inserted(t)
    BY <1>10 DEF Insert
  <2>4. QED
    BY <1>8, <2>1, <2>2, <2>3
<1>11. QED
  BY <1>3, <1>4, <1>5, <1>6, <1>9, <1>10 DEF FanInv

\* The commit of an enqueue stores all that its request still lacked.
LEMMA PublishFanInv ==
  ASSUME RoutesAgree, TypeOK, FanInv, NEW t \in Threads, FinishEnqueue(t)
  PROVE  FanInv'
<1> DEFINE new == call[t].inserted
           n == Len(agent_jobs)
<1>1. /\ new \in Seq(Keys) /\ DOMAIN new = 1 .. Len(new) /\ Len(new) \in Nat
      /\ n \in Nat /\ JobIds = 1 .. n /\ JobIds' = 1 .. n + Len(new)
      /\ \A j \in JobIds : agent_jobs'[j] = agent_jobs[j]
      /\ call'[t] = Idle
      /\ \A u \in Threads : u # t => call'[u] = call[u]
  BY PublishEffect
<1>2. \A i \in 1 .. Len(new) : agent_jobs'[n + i].key = new[i]
  BY PublishEffect, NewRowFields
<1>3. Stored' = Stored \cup Members(new)
  <2>1. ASSUME NEW j \in JobIds'
        PROVE  agent_jobs'[j].key \in Stored \cup Members(new)
    <3>1. CASE j \in JobIds
      BY <1>1, <3>1 DEF Stored
    <3>2. CASE j \notin JobIds
      <4>1. PICK i \in 1 .. Len(new) : j = n + i
        BY <2>1, <3>2, NewJob
      <4>2. QED
        BY <1>1, <1>2, <4>1 DEF Members
    <3>3. QED
      BY <3>1, <3>2
  <2>2. ASSUME NEW j \in JobIds
        PROVE  agent_jobs[j].key \in Stored'
    <3>1. j \in JobIds'
      BY <1>1
    <3>2. QED
      BY <1>1, <3>1 DEF Stored
  <2>3. ASSUME NEW i \in DOMAIN new
        PROVE  new[i] \in Stored'
    <3>1. n + i \in JobIds'
      BY <1>1
    <3>2. QED
      BY <1>1, <1>2, <3>1 DEF Stored
  <2>4. QED
    BY <2>1, <2>2, <2>3 DEF Stored, Members
<1>4. PICK r \in Requests : Serves(call[t], r)
  BY DEF FanInv, OnRoute, FinishEnqueue, Enqueuing
<1>5. Members(call[t].todo) = {}
  BY DEF FinishEnqueue, Members
<1>6. Members(new) \subseteq RouteKeys(r) /\ RouteKeys(r) \subseteq Stored'
  BY <1>3, <1>4, <1>5 DEF Serves
<1> HIDE DEF new, n
<1>7. FanOutAtomic'
  <2>1. SUFFICES ASSUME NEW s \in Requests, RouteKeys(s) \cap Stored' # {}
                 PROVE  RouteKeys(s) \subseteq Stored'
    BY DEF FanOutAtomic, RouteKeys
  <2>2. CASE RouteKeys(s) \cap Stored # {}
    BY <1>3, <2>2 DEF FanInv, FanOutAtomic
  <2>3. CASE RouteKeys(s) \cap Members(new) # {}
    <3>1. RouteKeys(s) = RouteKeys(r)
      BY <1>6, <2>3 DEF RoutesAgree
    <3>2. QED
      BY <1>6, <3>1
  <2>4. QED
    BY <1>3, <2>1, <2>2, <2>3
<1>8. \A u \in Threads : u # t => OnRoute(u)'
  BY <1>1, <1>3, OnRouteKept DEF FanInv
<1>9. OnRoute(t)'
  BY <1>1 DEF OnRoute, Enqueuing, Idle
<1>10. QED
  BY <1>7, <1>8, <1>9 DEF FanInv

\* Every step of every thread keeps the strengthened invariant.
LEMMA StepFanInv ==
  ASSUME RoutesAgree, TypeOK, FanInv, [Next]_vars
  PROVE  FanInv'
<1>1. ASSUME Stored' = Stored, NEW t \in Threads,
             ~Enqueuing(t)', \A u \in Threads : u # t => call'[u] = call[u]
      PROVE  FanInv'
  <2>1. FanOutAtomic'
    BY <1>1 DEF FanInv, FanOutAtomic, RouteKeys
  <2>2. \A u \in Threads : OnRoute(u)'
    BY <1>1, OnRouteKept DEF FanInv, OnRoute
  <2>3. QED
    BY <2>1, <2>2 DEF FanInv
<1>2. CASE UNCHANGED vars
  <2>1. Stored' = Stored
    BY <1>2 DEF vars, Stored, JobIds
  <2>2. FanOutAtomic'
    BY <2>1 DEF FanInv, FanOutAtomic, RouteKeys
  <2>3. \A u \in Threads : OnRoute(u)'
    BY <1>2, <2>1, OnRouteKept DEF FanInv, vars
  <2>4. QED
    BY <2>2, <2>3 DEF FanInv
<1>3. ASSUME NEW t \in Threads, ApproveStep(t)
      PROVE  FanInv'
  <2>1. /\ agent_jobs' = agent_jobs /\ JobIds' = JobIds
        /\ call'[t].op = "transition"
        /\ \A u \in Threads : u # t => call'[u] = call[u]
    BY <1>3 DEF ApproveStep, Approve, TypeOK, JobIds
  <2>2. Stored' = Stored /\ ~Enqueuing(t)'
    BY <2>1 DEF Stored, Enqueuing
  <2>3. QED
    BY <1>1, <2>1, <2>2
<1>4. ASSUME NEW t \in Threads, CommitStep(t)
      PROVE  FanInv'
  <2>1. /\ JobIds' = JobIds
        /\ call'[t] = Idle /\ \A u \in Threads : u # t => call'[u] = call[u]
        /\ \A j \in JobIds : agent_jobs'[j].key = agent_jobs[j].key
    BY <1>4, StartKeys, OtherCommits DEF CommitStep
  <2>2. Stored' = Stored /\ ~Enqueuing(t)'
    BY <2>1, KeysKept DEF Enqueuing, Idle
  <2>3. QED
    BY <1>1, <2>1, <2>2
<1>5. QED
  BY <1>2, <1>3, <1>4, QuietFanInv, PublishFanInv DEF Next, EnqueueStep

\* Nothing is stored and nobody enqueues.
LEMMA InitFanInv == Init => FanInv
  BY DEF Init, FanInv, FanOutAtomic, OnRoute, Enqueuing, Idle, Stored, JobIds

(***************************************************************************)
(* However enqueues interleave, abort and meet each other's keys, no       *)
(* request is ever partly served, provided requests that share a key are   *)
(* routed by the same registry content.                                    *)
(***************************************************************************)
THEOREM FanOutsAtomic ==
  ASSUME RoutesAgree
  PROVE  Spec => []FanOutAtomic
<1>1. FanInv => FanOutAtomic
  BY DEF FanInv
<1>2. QED
  BY <1>1, TypeCorrect, InitFanInv, StepFanInv, PTL DEF Spec

-----------------------------------------------------------------------------
(* Requests handled one at a time *)

(***************************************************************************)
(* With one thread nothing comes between the reads of a transition and its *)
(* commit, so what was approved still is when it commits.                  *)
(***************************************************************************)
ApprovalsHold ==
  \A t \in Threads : call[t].op = "transition" =>
                       Admits(agent_jobs[call[t].job], call[t].action)

\* The columns of a row agree with its state (RowCoherent, for one job).
Coherent(row) ==
  /\ row.state = "failed" <=> row.error_type # NoError
  /\ row.completed_at <=> row.state \in {"completed", "failed", "needs_review"}
  /\ row.cancelled_at <=> row.state = "cancelled"
  /\ row.state # "cancelled" => (row.started_at <=> row.state # "queued")
  /\ row.result # EmptyResult => row.state \in {"completed", "needs_review"}

SoloInv == ApprovalsHold /\ \A j \in JobIds : Coherent(agent_jobs[j])

\* A transition that is admitted keeps a coherent row coherent.
LEMMA OutcomeCoherent ==
  ASSUME NEW action, NEW payload, NEW row \in Row, NEW r, NEW e,
         Outcome(action, payload, row, r, e), Admits(row, action), Coherent(row)
  PROVE  Coherent(r)
<1>1. r \in Row /\ NoError \notin ErrorTypes
  BY QueueAssumption DEF Outcome
<1>2. CASE action = "start"
  BY <1>1, <1>2 DEF Outcome, Admits, Coherent, Row
<1>3. CASE action \in {"complete", "needs_review"}
  BY <1>1, <1>3 DEF Outcome, Admits, Coherent, Row
<1>4. CASE action = "fail"
  BY <1>1, <1>4 DEF Outcome, Admits, Coherent, Row
<1>5. CASE action = "cancel"
  BY <1>1, <1>5 DEF Outcome, Admits, Coherent, Row
<1>6. CASE action = "requeue"
  BY <1>1, <1>6 DEF Outcome, Admits, Coherent, Row
<1>7. QED
  BY <1>2, <1>3, <1>4, <1>5, <1>6 DEF Outcome

\* A new row is coherent.
LEMMA NewRowCoherent ==
  ASSUME NEW key, NEW limit
  PROVE  Coherent(NewRow(key, limit))
  BY DEF Coherent, NewRow

\* There is one thread.
LEMMA OneThread ==
  ASSUME Cardinality(Threads) = 1, NEW t \in Threads, NEW u \in Threads
  PROVE  u = t
  BY QueueAssumption, FS_Singleton

\* With one thread every step keeps rows coherent and approvals valid.
LEMMA StepSoloInv ==
  ASSUME Cardinality(Threads) = 1, TypeOK, SoloInv, [Next]_vars
  PROVE  SoloInv'
<1>1. ASSUME NEW t \in Threads, call'[t].op # "transition"
      PROVE  ApprovalsHold'
  BY <1>1, OneThread DEF ApprovalsHold
<1>2. ASSUME agent_jobs' = agent_jobs
      PROVE  \A j \in JobIds' : Coherent(agent_jobs'[j])
  BY <1>2 DEF SoloInv, JobIds
<1>3. CASE UNCHANGED vars
  BY <1>2, <1>3 DEF SoloInv, ApprovalsHold, vars, Coherent
<1>4. ASSUME NEW t \in Threads,
             \/ \E r \in Requests, limit \in AttemptLimits : BeginEnqueue(t, r, limit)
             \/ Lookup(t) \/ Insert(t) \/ Abort(t)
      PROVE  SoloInv'
  BY <1>1, <1>2, <1>4, QuietEffect DEF SoloInv, Coherent
<1>5. ASSUME NEW t \in Threads, FinishEnqueue(t)
      PROVE  SoloInv'
  <2>1. ApprovalsHold'
    BY <1>1, <1>5, PublishEffect DEF Idle
  <2>2. ASSUME NEW j \in JobIds'
        PROVE  Coherent(agent_jobs'[j])
    <3>1. CASE j \in JobIds
      BY <1>5, <3>1, PublishEffect DEF SoloInv
    <3>2. CASE j \notin JobIds
      <4>1. PICK i \in 1 .. Len(call[t].inserted) : j = Len(agent_jobs) + i
        BY <1>5, <2>2, <3>2, NewJob
      <4>2. QED
        BY <1>5, <4>1, PublishEffect, NewRowCoherent
    <3>3. QED
      BY <3>1, <3>2
  <2>3. QED
    BY <2>1, <2>2 DEF SoloInv, Coherent
<1>6. ASSUME NEW t \in Threads, ApproveStep(t)
      PROVE  SoloInv'
  <2>1. PICK i \in JobIds, action \in Actions :
          \E payload \in Payloads(action) : Approve(t, i, action, payload)
    BY <1>6 DEF ApproveStep
  <2>2. /\ Admits(agent_jobs[i], action) /\ agent_jobs' = agent_jobs
        /\ call'[t].job = i /\ call'[t].action = action
    BY <2>1 DEF Approve, TypeOK
  <2>3. ApprovalsHold'
    <3>1. Admits(agent_jobs[call[t].job], call[t].action)'
      BY <2>2 DEF Admits
    <3>2. QED
      BY <3>1, OneThread DEF ApprovalsHold
  <2>4. QED
    BY <1>2, <2>2, <2>3 DEF SoloInv, Coherent
<1>7. ASSUME NEW t \in Threads, CommitStep(t)
      PROVE  SoloInv'
  <2>1. PICK r, e : Commits(t, r, e)
    BY <1>7, CommitOutcome
  <2> DEFINE j == call[t].job
  <2>2. /\ JobIds' = JobIds /\ j \in JobIds /\ agent_jobs[j] \in Row
        /\ agent_jobs'[j] = r /\ call'[t] = Idle
        /\ \A i \in JobIds : i # j => agent_jobs'[i] = agent_jobs[i]
    BY <2>1, CommitsEffect
  <2>3. /\ Outcome(call[t].action, call[t].payload, agent_jobs[j], r, e)
        /\ Admits(agent_jobs[j], call[t].action)
    BY <2>1 DEF Commits, SoloInv, ApprovalsHold
  <2> HIDE DEF j
  <2>4. Coherent(r)
    BY <2>2, <2>3, OutcomeCoherent DEF SoloInv
  <2>5. \A i \in JobIds' : Coherent(agent_jobs'[i])
    BY <2>2, <2>4 DEF SoloInv
  <2>6. ApprovalsHold'
    BY <1>1, <2>2 DEF Idle
  <2>7. QED
    BY <2>5, <2>6 DEF SoloInv, Coherent
<1>8. QED
  BY <1>3, <1>4, <1>5, <1>6, <1>7 DEF Next, EnqueueStep

\* No job, no call.
LEMMA InitSoloInv == Init => SoloInv
  BY DEF Init, SoloInv, ApprovalsHold, Idle, JobIds

(***************************************************************************)
(* One request at a time: the columns of a row agree with its state.       *)
(***************************************************************************)
THEOREM SerialRowsCoherent ==
  ASSUME Cardinality(Threads) = 1
  PROVE  Spec => []RowCoherent
<1>1. SoloInv => RowCoherent
  BY DEF SoloInv, Coherent, RowCoherent
<1>2. QED
  BY <1>1, TypeCorrect, InitSoloInv, StepSoloInv, PTL DEF Spec

-----------------------------------------------------------------------------
(* One request at a time the ledger is the documented life cycle *)

\* What the life cycle shows of a row, and of the table.
View(row) == [state |-> row.state, attempts |-> row.attempt_count,
              limit |-> row.max_attempts]

Views == [j \in JobIds |-> [state |-> agent_jobs[j].state,
                            attempts |-> agent_jobs[j].attempt_count,
                            limit |-> agent_jobs[j].max_attempts]]

\* A function on the first n numbers is a sequence of length n.
LEMMA FunctionLen ==
  ASSUME NEW n \in Nat, NEW f, f = [i \in 1 .. n |-> f[i]]
  PROVE  Len(f) = n /\ DOMAIN f = 1 .. n
<1>1. f \in Seq({f[i] : i \in 1 .. n})
  OBVIOUS
<1>2. QED
  BY <1>1

\* The view is a sequence, job by job.
LEMMA ViewsSeq ==
  ASSUME TypeOK
  PROVE  /\ Len(Views) = Len(agent_jobs) /\ DOMAIN Views = JobIds
         /\ JobIds = 1 .. Len(agent_jobs) /\ Len(agent_jobs) \in Nat
         /\ \A j \in JobIds : Views[j] = View(agent_jobs[j])
<1>1. JobIds = 1 .. Len(agent_jobs) /\ Len(agent_jobs) \in Nat
  BY DEF TypeOK, JobIds
<1>2. DOMAIN Views = 1 .. Len(agent_jobs)
  BY <1>1 DEF Views
<1>3. \A j \in JobIds : Views[j] = View(agent_jobs[j])
  BY DEF Views, View
<1>4. Len(Views) = Len(agent_jobs)
  BY <1>1, <1>2, FunctionLen DEF Views
<1>5. QED
  BY <1>1, <1>2, <1>3, <1>4

\* An empty table is an empty life cycle.
LEMMA LifecycleInit == Init => Lifecycle!Init
  BY DEF Init, Lifecycle!Init, JobIds

\* The commit of an enqueue is a submission, or nothing when no key was new.
LEMMA PublishIsSubmit ==
  ASSUME TypeOK, NEW t \in Threads, FinishEnqueue(t)
  PROVE  Lifecycle!Submit \/ Views' = Views
<1> DEFINE new == call[t].inserted
           limit == call[t].max_attempts
           n == Len(agent_jobs)
<1>1. /\ limit \in AttemptLimits /\ Len(new) \in Nat /\ n \in Nat
      /\ JobIds = 1 .. n /\ JobIds' = 1 .. n + Len(new)
      /\ \A j \in JobIds : agent_jobs'[j] = agent_jobs[j]
      /\ \A i \in 1 .. Len(new) : agent_jobs'[n + i] = NewRow(new[i], limit)
  BY PublishEffect
<1>2. Len(Views)' = n + Len(new)
  <2>1. Views' = [j \in 1 .. n + Len(new) |-> Views'[j]]
    BY <1>1 DEF Views
  <2> HIDE DEF n, new
  <2>2. n + Len(new) \in Nat
    BY <1>1
  <2>3. QED
    BY <2>1, <2>2, FunctionLen
<1>3. Len(Views) = n /\ \A j \in JobIds : Views[j] = View(agent_jobs[j])
  BY ViewsSeq
<1>4. \A j \in JobIds' : Views'[j] = View(agent_jobs'[j])
  BY DEF Views, View
<1>6. \A i \in JobIds : Views'[i] = Views[i]
  BY <1>1, <1>3, <1>4
<1>7. CASE Len(new) = 0
  BY <1>1, <1>7 DEF Views
<1>8. CASE Len(new) > 0
  <2>1. ASSUME NEW i \in n + 1 .. n + Len(new)
        PROVE  Views'[i] = [state |-> "queued", attempts |-> 0, limit |-> limit]
    <3>1. i - n \in 1 .. Len(new) /\ n + (i - n) = i /\ i \in JobIds'
      <4>1. /\ i \in n + 1 .. n + Len(new) /\ n \in Nat /\ Len(new) \in Nat
            /\ JobIds' = 1 .. n + Len(new)
        BY <1>1, <2>1
      <4> HIDE DEF n, new
      <4>2. QED
        BY <4>1
    <3>2. agent_jobs'[i] = NewRow(new[i - n], limit)
      BY <1>1, <3>1
    <3>3. View(NewRow(new[i - n], limit)) =
            [state |-> "queued", attempts |-> 0, limit |-> limit]
      BY DEF View, NewRow
    <3>4. QED
      BY <1>4, <3>1, <3>2, <3>3
  <2> HIDE DEF new, limit, n
  <2>2. Len(Views)' > Len(Views)
    BY <1>1, <1>2, <1>3, <1>8
  <2>3. \A i \in 1 .. Len(Views) : Views'[i] = Views[i]
    BY <1>1, <1>3, <1>6
  <2>4. \A i \in Len(Views) + 1 .. Len(Views)' :
          Views'[i] = [state |-> "queued", attempts |-> 0, limit |-> limit]
    BY <1>2, <1>3, <2>1
  <2>5. QED
    BY <1>1, <2>2, <2>3, <2>4 DEF Lifecycle!Submit, Views
<1>9. QED
  BY <1>1, <1>7, <1>8

\* The commit of an admitted transition is a step of the job's life cycle.
LEMMA CommitIsStep ==
  ASSUME TypeOK, ApprovalsHold, NEW t \in Threads, CommitStep(t)
  PROVE  \E j \in JobIds : Lifecycle!Step(j)
<1>1. PICK r, e : Commits(t, r, e)
  BY CommitOutcome
<1>0. PICK j \in JobIds : j = call[t].job
  BY <1>1 DEF Commits
<1> DEFINE row == agent_jobs[j]
<1>2. /\ JobIds' = JobIds /\ j \in JobIds /\ row \in Row
      /\ agent_jobs'[j] = r
      /\ \A i \in JobIds : i # j => agent_jobs'[i] = agent_jobs[i]
  BY <1>0, <1>1, CommitsEffect
<1>3. Outcome(call[t].action, call[t].payload, row, r, e) /\ Admits(row, call[t].action)
  BY <1>0, <1>1 DEF Commits, ApprovalsHold
<1>4. Views[j] = View(row)
  BY <1>2 DEF Views, View
<1>5. Views' = [Views EXCEPT ![j] = View(r)]
  BY <1>2 DEF Views, View
<1> HIDE DEF row
<1>6. /\ Views[j].state = row.state /\ Views[j].attempts = row.attempt_count
      /\ Views[j].limit = row.max_attempts
  BY <1>4 DEF View
<1>7. CASE call[t].action = "start"
  <2> DEFINE n == row.attempt_count + 1
  <2>1. View(r) = [Views[j] EXCEPT !.state = "running", !.attempts = n]
    <3>1. /\ r.state = "running" /\ r.attempt_count = n
          /\ r.max_attempts = row.max_attempts
      BY <1>3, <1>7 DEF Outcome
    <3> HIDE DEF n
    <3>2. View(r) = [state |-> "running", attempts |-> n, limit |-> row.max_attempts]
      BY <3>1 DEF View
    <3>3. Views[j] = [state |-> row.state, attempts |-> row.attempt_count,
                      limit |-> row.max_attempts]
      BY <1>4 DEF View
    <3> DEFINE one == [Views[j] EXCEPT !.state = "running"]
    <3>4. one = [state |-> "running", attempts |-> row.attempt_count,
                 limit |-> row.max_attempts]
      BY <3>3
    <3> HIDE DEF one
    <3>5. [one EXCEPT !.attempts = n]
            = [state |-> "running", attempts |-> n, limit |-> row.max_attempts]
      BY <3>4
    <3>6. View(r) = [one EXCEPT !.attempts = n]
      BY <3>2, <3>5
    <3>7. QED
      BY <3>6 DEF one
  <2>0. n = Views[j].attempts + 1
    BY <1>6
  <2> HIDE DEF n
  <2>2. Views' = [Views EXCEPT ![j].state = "running", ![j].attempts = @ + 1]
    BY <1>2, <1>5, <2>0, <2>1 DEF Views
  <2>3. row.state = "queued" /\ row.attempt_count < row.max_attempts
    BY <1>3, <1>7 DEF Admits
  <2>4. Lifecycle!Step(j)
    BY <1>2, <1>6, <2>2, <2>3 DEF Lifecycle!Step, Lifecycle!Start, Views
  <2>5. QED
    BY <1>2, <2>4
<1>8. CASE call[t].action # "start"
  <2>1. View(r) = [Views[j] EXCEPT !.state = r.state]
    BY <1>3, <1>4, <1>8 DEF Outcome, View
  <2>2. Views' = [Views EXCEPT ![j].state = r.state]
    BY <1>5, <2>1
  <2>3. Lifecycle!Become(j, r.state)
    BY <2>2 DEF Lifecycle!Become, Views
  <2>4. CASE call[t].action \in {"complete", "fail", "needs_review"}
    <3>1. row.state = "running" /\ r.state \in {"completed", "failed", "needs_review"}
      BY <1>3, <2>4 DEF Admits, Outcome
    <3>2. Lifecycle!Step(j)
      BY <1>2, <1>6, <2>3, <3>1 DEF Lifecycle!Step, Lifecycle!Finish, Views
    <3>3. QED
      BY <1>2, <3>2
  <2>5. CASE call[t].action = "cancel"
    <3>1. row.state \in {"queued", "running"} /\ r.state = "cancelled"
      BY <1>3, <2>5 DEF Admits, Outcome
    <3>2. Lifecycle!Step(j)
      BY <1>2, <1>6, <2>3, <3>1 DEF Lifecycle!Step, Lifecycle!Cancel, Views
    <3>3. QED
      BY <1>2, <3>2
  <2>6. CASE call[t].action = "requeue"
    <3>1. /\ row.state \in {"failed", "cancelled"} /\ r.state = "queued"
          /\ row.attempt_count < row.max_attempts
      BY <1>3, <2>6 DEF Admits, Outcome
    <3>2. Lifecycle!Step(j)
      BY <1>2, <1>6, <2>3, <3>1 DEF Lifecycle!Step, Lifecycle!Requeue, Views
    <3>3. QED
      BY <1>2, <3>2
  <2>7. QED
    BY <1>3, <1>8, <2>4, <2>5, <2>6 DEF Outcome
<1>9. QED
  BY <1>7, <1>8

\* Every step of the ledger is one of the life cycle or changes nothing in it.
LEMMA LifecycleStep ==
  ASSUME TypeOK, SoloInv, [Next]_vars
  PROVE  [Lifecycle!Next]_Views
<1>1. ASSUME agent_jobs' = agent_jobs
      PROVE  Views' = Views
  BY <1>1 DEF Views, JobIds
<1>2. CASE UNCHANGED vars
  BY <1>1, <1>2 DEF vars
<1>3. ASSUME NEW t \in Threads, ApproveStep(t)
      PROVE  Views' = Views
  BY <1>1, <1>3 DEF ApproveStep, Approve
<1>4. ASSUME NEW t \in Threads, CommitStep(t)
      PROVE  Lifecycle!Next
  BY <1>4, CommitIsStep, ViewsSeq DEF Lifecycle!Next, SoloInv, Views
<1>5. ASSUME NEW t \in Threads, FinishEnqueue(t)
      PROVE  [Lifecycle!Next]_Views
  BY <1>5, PublishIsSubmit DEF Lifecycle!Next
<1>6. QED
  BY <1>1, <1>2, <1>3, <1>4, <1>5, QuietEffect DEF Next, EnqueueStep

(***************************************************************************)
(* One request at a time the ledger implements the life cycle of           *)
(* docs/JOB_QUEUE.md: every step is an accepted request of that document   *)
(* or changes no job.                                                      *)
(***************************************************************************)
THEOREM SerialFollowsLifecycle ==
  ASSUME Cardinality(Threads) = 1
  PROVE  Spec => FollowsLifecycle
<1>1. Spec => [](TypeOK /\ SoloInv)
  BY TypeCorrect, InitSoloInv, StepSoloInv, PTL DEF Spec
<1>2. FollowsLifecycle <=> Lifecycle!Init /\ [][Lifecycle!Next]_Views
  BY DEF FollowsLifecycle, Lifecycle!Spec, Views
<1>3. QED
  BY <1>1, <1>2, LifecycleInit, LifecycleStep, PTL DEF Spec
=============================================================================
