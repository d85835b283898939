----------------------------- MODULE JobLifecycle -----------------------------
(***************************************************************************)
(* What the Conclave job ledger promises (docs/JOB_QUEUE.md, "Lifecycle"): *)
(* every job is a small state machine with a bounded number of attempts.   *)
(* Nothing here mentions threads, transactions or time: each step is one   *)
(* accepted request.  JobQueue is shown to implement this specification    *)
(* when requests are handled one at a time.                                *)
(***************************************************************************)
EXTENDS Naturals, Sequences

CONSTANT Limits          \* the attempt limits a caller may ask for

VARIABLE jobs            \* the jobs, in the order they were created

Init == jobs = << >>

(***************************************************************************)
(* A batch of new jobs, one for every agent subscribed to the topic, all   *)
(* with the attempt limit of the request.                                  *)
(***************************************************************************)
Submit ==
  /\ Len(jobs') > Len(jobs)
  /\ \A i \in 1 .. Len(jobs) : jobs'[i] = jobs[i]
  /\ \E limit \in Limits : \A i \in (Len(jobs) + 1) .. Len(jobs') :
        jobs'[i] = [state |-> "queued", attempts |-> 0, limit |-> limit]

Become(j, state) == jobs' = [jobs EXCEPT ![j].state = state]

Start(j) ==
  /\ jobs[j].state = "queued"
  /\ jobs[j].attempts < jobs[j].limit
  /\ jobs' = [jobs EXCEPT ![j].state = "running", ![j].attempts = @ + 1]

Finish(j) ==
  /\ jobs[j].state = "running"
  /\ \E state \in {"completed", "failed", "needs_review"} : Become(j, state)

Cancel(j) ==
  /\ jobs[j].state \in {"queued", "running"}
  /\ Become(j, "cancelled")

Requeue(j) ==
  /\ jobs[j].state \in {"failed", "cancelled"}
  /\ jobs[j].attempts < jobs[j].limit
  /\ Become(j, "queued")

Step(j) == Start(j) \/ Finish(j) \/ Cancel(j) \/ Requeue(j)

Next == Submit \/ \E j \in DOMAIN jobs : Step(j)

Spec == Init /\ [][Next]_jobs
=============================================================================
