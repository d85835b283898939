---------------------------- MODULE CommandDeck ----------------------------
(***************************************************************************)
(* The desk at work: HTTP handlers (RequestServer) that change the case    *)
(* store through the command console (CommandDeck/command_engine.py), the  *)
(* analyst's API calls (src/src/repository.py) and the agent report        *)
(* journal (Conclave/agent_coordination.py).  A console command commits    *)
(* its change first and is filed in command_history by a second            *)
(* transaction; a report is appended to a file under a lock.               *)
(***************************************************************************)
EXTENDS RequestServer, Sequences

CONSTANTS
  NoCase,        \* no case selected, None
  NoClient,      \* the journal lock is free
  Requests,      \* requests the clients may send
  StoredClaims,  \* identity claims in the store at the start
  MaxRequests    \* bound on requests delivered

\* The first case exists from the start (Repository._ensure_default_case).
FirstCase == 1

\* A request: `active` is the case of the console or of the API path,
\* `option` the console's --case, `prefix` says that the text typed starts
\* with "/case create", `value` is the verdict, the confidence or the label.
\* `odd`: a lone surrogate, which no encoder takes, is in the text typed, in
\* an option the command ignores, or in the report.  (One in what the
\* operation is to store fails its INSERT: that is "malformed".)
ApiOps == {"create", "note", "screenshot", "claim", "report", "malformed"}
Rows == {"note", "source", "screenshot", "tag"}
ConsoleOps == {"find", "unknown", "context", "create", "note", "source", "tag",
               "judge", "weigh", "malformed"}
CaseIds == (FirstCase .. FirstCase + MaxRequests) \cup {NoCase}

ASSUME DeckAssumption ==
  /\ MaxRequests \in Nat
  /\ NoCase \notin Nat
  /\ NoClient \notin Clients
  /\ StoredClaims \in Nat
  /\ \A r \in Requests :
        /\ \/ r.via = "console" /\ r.op \in ConsoleOps
           \/ r.via = "api" /\ r.op \in ApiOps /\ r.option = NoCase /\ ~r.prefix
        /\ r.active \in CaseIds /\ r.option \in CaseIds
        /\ r.prefix \in BOOLEAN /\ (r.prefix => r.op \in {"create", "unknown"})
        /\ r.odd \in BOOLEAN /\ (r.odd => r.via = "console" \/ r.op = "report")

VARIABLES
  cases,             \* rows of table cases: ids 1 .. cases
  rows,              \* case_notes, evidence and tags: [op, case, value, by]
  identity_claims,   \* [case, state, by], by id
  relationship,      \* weight of the stored relationship of the first case
  processing_jobs,   \* the "Review" entries of the timeline: [about, state, by]
  command_history,   \* [case, by], by id
  journal,           \* parts of the lines of agent_reports.jsonl
  journal_lock,      \* AgentReportJournal._lock
  work,              \* what each client's handler does: [no, step, made]
  served             \* every request delivered, what it changed, how it ended

store_vars == <<cases, rows, identity_claims, relationship, processing_jobs>>
file_vars == <<journal, journal_lock>>
deck_vars == <<server_vars, store_vars, file_vars, command_history, work, served>>

Idle == [no |-> 0, step |-> "idle"]

DeckInit ==
  /\ ServerInit
  /\ cases = FirstCase
  /\ rows = {}
  /\ identity_claims = [n \in 1 .. StoredClaims |->
                          [case |-> FirstCase, state |-> "unverified", by |-> 0]]
  /\ relationship = "recorded"
  /\ processing_jobs = <<>>
  /\ command_history = <<>>
  /\ journal = <<>>
  /\ journal_lock = NoClient
  /\ work = [c \in Clients |-> Idle]
  /\ served = <<>>

No(c) == work[c].no
RequestOf(c) == served[No(c)].request

\* CommandEngine._case_id; an API call names its case in the path.
Target(r) == IF r.option # NoCase THEN r.option ELSE r.active
Exists(case) == case # NoCase /\ case \in FirstCase .. cases

\* Mutant of HistoryCase: every command is filed under the active case.
HistoryCaseActive(i) == served[i].request.active

\* The case the history entry is filed under (execute, 68-70): the one a
\* create command returned, recognised by the text as it was typed, else the
\* active one.  A longer word, /case created, is no known command: its
\* result has no id.
HistoryCase(i) ==
  LET r == served[i].request
  IN  IF ~r.prefix THEN r.active
      ELSE IF r.op = "create" THEN served[i].case ELSE NoCase

\* /find, /graph and the other reads take the case as it is given; what
\* writes, /context and /case status look it up.
Acceptable(r) ==
  \/ r.op \in {"create", "report"}
  \/ r.op \in {"find", "unknown"} /\ Target(r) # NoCase
  \/ r.op \in Rows \cup {"context", "claim"} /\ Exists(Target(r))
  \/ r.op = "judge" /\ \E n \in DOMAIN identity_claims : identity_claims[n].case = Target(r)
  \/ r.op = "weigh" /\ Target(r) = FirstCase

Executing(c, ops) ==
  /\ work[c].step = "execute"
  /\ RequestOf(c).op \in ops
  /\ Acceptable(RequestOf(c))

Submit(c) ==
  /\ Len(served) < MaxRequests
  /\ Deliver(c)
  /\ \E r \in Requests :
        served' = Append(served, [request |-> r, case |-> NoCase, outcome |-> "pending"])
  /\ work' = [work EXCEPT ![c] = [no |-> Len(served) + 1, step |-> "execute"]]
  /\ UNCHANGED <<store_vars, file_vars, command_history>>

\* The request ends with an answer.
Settle(c, outcome) ==
  /\ Finish(c)
  /\ served' = [served EXCEPT ![No(c)].outcome = outcome]
  /\ work' = [work EXCEPT ![c] = Idle]

\* Mutant of Committed: without an active case there is no history to keep.
CommittedUnlisted(c, case) ==
  /\ IF RequestOf(c).via = "console" /\ RequestOf(c).active # NoCase
     THEN /\ work' = [work EXCEPT ![c].step = "record"]
          /\ served' = [served EXCEPT ![No(c)].case = case]
          /\ UNCHANGED server_vars
     ELSE /\ served' = [served EXCEPT ![No(c)] = [@ EXCEPT !.case = case, !.outcome = "ok"]]
          /\ work' = [work EXCEPT ![c] = Idle]
          /\ Finish(c)
  /\ UNCHANGED <<file_vars, command_history>>

\* An operation has committed on `case`: a console command goes on to its
\* history entry, an API call is answered.
Committed(c, case) ==
  /\ IF RequestOf(c).via = "console"
     THEN /\ work' = [work EXCEPT ![c].step = "record"]
          /\ served' = [served EXCEPT ![No(c)].case = case]
          /\ UNCHANGED server_vars
     ELSE /\ served' = [served EXCEPT ![No(c)] = [@ EXCEPT !.case = case, !.outcome = "ok"]]
          /\ work' = [work EXCEPT ![c] = Idle]
          /\ Finish(c)
  /\ UNCHANGED <<file_vars, command_history>>

\* A ValueError of the operation itself, before it changed anything: 400.
RefuseRequest(c) ==
  /\ work[c].step = "execute"
  /\ ~Acceptable(RequestOf(c))
  /\ Settle(c, "refused")
  /\ UNCHANGED <<store_vars, file_vars, command_history>>

Read(c) ==
  /\ Executing(c, {"find", "unknown", "context"})
  /\ Committed(c, NoCase)
  /\ UNCHANGED store_vars

CreateCase(c) ==
  /\ Executing(c, {"create"})
  /\ cases' = cases + 1
  /\ Committed(c, cases + 1)
  /\ UNCHANGED <<rows, identity_claims, relationship, processing_jobs>>

\* A label is in a case once: INSERT OR IGNORE.
SameTag(row, r) == row.op = "tag" /\ row.case = Target(r) /\ row.value = r.value

\* add_note, add_case_source, add_screenshot and add_case_tag.
AddRow(c) ==
  LET r == RequestOf(c)
      row == [op |-> r.op, case |-> Target(r), value |-> r.value, by |-> No(c)]
  IN  /\ Executing(c, Rows)
      /\ rows' = IF r.op = "tag" /\ \E old \in rows : SameTag(old, r)
                 THEN rows ELSE rows \cup {row}
      /\ Committed(c, Target(r))
      /\ UNCHANGED <<cases, identity_claims, relationship, processing_jobs>>

AddClaim(c) ==
  LET r == RequestOf(c)
  IN  /\ Executing(c, {"claim"})
      /\ identity_claims' = Append(identity_claims,
            [case |-> Target(r), state |-> "unverified", by |-> No(c)])
      /\ Committed(c, Target(r))
      /\ UNCHANGED <<cases, rows, relationship, processing_jobs>>

Reviewed(about, state, by) ==
  processing_jobs' = Append(processing_jobs, [about |-> about, state |-> state, by |-> by])

\* review_identity_claim: the claim may have been judged before.
Judge(c) ==
  LET r == RequestOf(c)
  IN  /\ Executing(c, {"judge"})
      /\ \E n \in DOMAIN identity_claims :
            /\ identity_claims[n].case = Target(r)
            /\ identity_claims' = [identity_claims EXCEPT ![n].state = r.value]
            /\ Reviewed(n, r.value, No(c))
      /\ Committed(c, Target(r))
      /\ UNCHANGED <<cases, rows, relationship>>

\* set_relationship_confidence on the relationship of the first case.
Weigh(c) ==
  LET r == RequestOf(c)
  IN  /\ Executing(c, {"weigh"})
      /\ relationship' = r.value
      /\ Reviewed(0, r.value, No(c))
      /\ Committed(c, FirstCase)
      /\ UNCHANGED <<cases, rows, identity_claims>>

Recording(c) == work[c].step = "record" /\ ~RequestOf(c).odd
Fileable(i) == HistoryCase(i) = NoCase \/ Exists(HistoryCase(i))

\* record_command, in a transaction of its own.
Record(c) ==
  /\ Recording(c)
  /\ Fileable(No(c))
  /\ command_history' = Append(command_history, [case |-> HistoryCase(No(c)), by |-> No(c)])
  /\ Settle(c, "ok")
  /\ UNCHANGED <<store_vars, file_vars>>

\* Mutant of RecordRejected: the failed insert is swallowed.
RecordSwallowed(c) ==
  /\ Recording(c)
  /\ ~Fileable(No(c))
  /\ Settle(c, "ok")
  /\ UNCHANGED <<store_vars, file_vars, command_history>>

\* The foreign key of command_history fails: the answer is 500, the change
\* of the command stays.
RecordRejected(c) ==
  /\ Recording(c)
  /\ ~Fileable(No(c))
  /\ Settle(c, "no_such_case")
  /\ UNCHANGED <<store_vars, file_vars, command_history>>

\* The text cannot be bound to the INSERT.  UnicodeEncodeError is a
\* ValueError, so the answer is 400; the change of the command stays.
RecordRefused(c) ==
  /\ work[c].step = "record"
  /\ RequestOf(c).odd
  /\ Settle(c, "refused")
  /\ UNCHANGED <<store_vars, file_vars, command_history>>

\* Mutant of BeginReport: the append without the lock.
BeginReportUnlocked(c) ==
  /\ Executing(c, {"report"})
  /\ journal_lock' = c
  /\ journal' = Append(journal, [by |-> No(c), part |-> "head"])
  /\ work' = [work EXCEPT ![c].step = "append"]
  /\ UNCHANGED <<server_vars, store_vars, command_history, served>>

\* A line goes to the file in parts: a buffer may be written only partly.
BeginReport(c) ==
  /\ Executing(c, {"report"})
  /\ journal_lock = NoClient
  /\ journal_lock' = c
  /\ journal' = Append(journal, [by |-> No(c), part |-> "head"])
  /\ work' = [work EXCEPT ![c].step = "append"]
  /\ UNCHANGED <<server_vars, store_vars, command_history, served>>

\* The line is ASCII and is written in any case; the answer repeats the
\* report as UTF-8, which an odd one fails with a ValueError: 400.
EndReport(c) ==
  /\ work[c].step = "append"
  /\ journal' = Append(journal, [by |-> No(c), part |-> "rest"])
  /\ journal_lock' = NoClient
  /\ Settle(c, IF RequestOf(c).odd THEN "refused" ELSE "ok")
  /\ UNCHANGED <<store_vars, command_history>>

\* Mutant of WorkFails: the lock is released only after a write that worked.
WorkFailsLocked(c) ==
  /\ work[c].step # "idle"
  /\ Fail(c)
  /\ served' = [served EXCEPT ![No(c)].outcome = "fault"]
  /\ work' = [work EXCEPT ![c] = Idle]
  /\ UNCHANGED <<store_vars, journal, journal_lock, command_history>>

\* A database error in either transaction, or a full disk in the middle of a
\* line: what was not committed is lost, the lock is released, 500.
WorkFails(c) ==
  /\ work[c].step # "idle"
  /\ Fail(c)
  /\ served' = [served EXCEPT ![No(c)].outcome = "fault"]
  /\ journal_lock' = IF journal_lock = c THEN NoClient ELSE journal_lock
  /\ work' = [work EXCEPT ![c] = Idle]
  /\ UNCHANGED <<store_vars, journal, command_history>>

Crash ==
  /\ Restart
  /\ served' = [i \in DOMAIN served |->
                  IF served[i].outcome = "pending"
                  THEN [served[i] EXCEPT !.outcome = "fault"] ELSE served[i]]
  /\ journal_lock' = NoClient
  /\ work' = [c \in Clients |-> Idle]
  /\ UNCHANGED <<store_vars, journal, command_history>>

\* The steps of a connection that touch nothing but the server.
Connection(c) ==
  /\ \/ Accept(c) \/ Refuse(c) \/ HangUp(c) \/ Launch(c) \/ LaunchFails(c)
     \/ Dismiss(c) \/ Release(c)
  /\ UNCHANGED <<store_vars, file_vars, command_history, work, served>>

Work(c) ==
  \/ RefuseRequest(c) \/ Read(c) \/ CreateCase(c) \/ AddRow(c) \/ AddClaim(c)
  \/ Judge(c) \/ Weigh(c) \/ Record(c) \/ RecordRejected(c)
  \/ RecordRefused(c) \/ BeginReport(c) \/ EndReport(c)

DeckNext ==
  \/ \E c \in Clients : Connection(c) \/ Submit(c) \/ Work(c) \/ WorkFails(c)
  \/ Crash

DeckSpec == DeckInit /\ [][DeckNext]_deck_vars

\* The threads are scheduled and the socket timeout fires; clients need not
\* send anything.  A client's handler is at one step at a time.
Progress(c) ==
  \/ /\ HangUp(c) \/ Launch(c) \/ Dismiss(c) \/ Release(c)
     /\ UNCHANGED <<store_vars, file_vars, command_history, work, served>>
  \/ Work(c)

FairDeckSpec == DeckSpec /\ \A c \in Clients : WF_deck_vars(Progress(c))

-----------------------------------------------------------------------------
Console(i) == served[i].request.via = "console"
Entries(i) == {n \in DOMAIN command_history : command_history[n].by = i}
Lines(i) == {k \in 1 .. Len(journal) - 1 :
               journal[k] = [by |-> i, part |-> "head"] /\ journal[k + 1] = [by |-> i, part |-> "rest"]}

\* Where request i can be found afterwards, if it was to change something.
Stored(i) ==
  LET r == served[i].request
  IN  /\ r.op = "create" => Exists(served[i].case)
      /\ r.op \in Rows =>
           \E row \in rows : /\ row.op = r.op /\ row.case = Target(r) /\ row.value = r.value
                             /\ row.by = i \/ r.op = "tag"
      /\ r.op = "claim" => \E n \in DOMAIN identity_claims : identity_claims[n].by = i
      /\ r.op \in {"judge", "weigh"} =>
           \E n \in DOMAIN processing_jobs :
             processing_jobs[n].by = i /\ processing_jobs[n].state = r.value
      /\ r.op = "report" => Lines(i) # {}

\* Nothing in the store or in the journal is the work of request i.
Untouched(i) ==
  /\ served[i].case = NoCase
  /\ \A row \in rows : row.by # i
  /\ \A n \in DOMAIN identity_claims : identity_claims[n].by # i
  /\ \A n \in DOMAIN processing_jobs : processing_jobs[n].by # i
  /\ \A k \in DOMAIN journal : journal[k].by # i

\* What an answer tells.  A request answered as done has left what it was to
\* store, and a console command exactly one history entry.  A request
\* answered with 400 is in no history; it has changed nothing, unless its
\* text was odd: then all it was to store is there, and it must not be
\* repeated.  No 400 leaves a part of a change.
AnswersTruthful ==
  \A i \in DOMAIN served :
    /\ served[i].outcome = "ok" =>
         Stored(i) /\ (Console(i) => Cardinality(Entries(i)) = 1)
    /\ served[i].outcome = "refused" =>
         /\ Entries(i) = {}
         /\ Untouched(i) \/ (served[i].request.odd /\ Stored(i))

\* A console command that changed the store and is in no history met a fault,
\* was typed with odd text, or named its case by --case (or created one in an
\* unusual spelling) while the active case was not in the store.  A plain
\* command on an existing case never changes it unrecorded.
UnfiledExplained ==
  \A i \in DOMAIN served :
    LET r == served[i].request
    IN  Console(i) /\ served[i].case # NoCase /\ Entries(i) = {} =>
          \/ served[i].outcome \in {"pending", "fault"}
          \/ served[i].outcome = "refused" /\ r.odd
          \/ /\ served[i].outcome = "no_such_case"
             /\ r.option # NoCase \/ (r.op = "create" /\ ~r.prefix)

\* Otherwise the entry is filed under the case that was changed, also for the
\* commands of several analysts on several cases at once.
FiledWhereChanged ==
  \A n \in DOMAIN command_history :
    LET i == command_history[n].by
        r == served[i].request
    IN  served[i].case # NoCase /\ r.option = NoCase /\ (r.op = "create" => r.prefix)
          => command_history[n].case = served[i].case

\* The line of a recorded report, one answered with 400 as well, is whole,
\* and can be read unless it follows the torn line of a report that met a
\* fault.
ReportsReadable ==
  \A i \in DOMAIN served :
    served[i].request.op = "report" /\ served[i].outcome \in {"ok", "refused"} =>
      \E k \in Lines(i) : k > 1 =>
        \/ journal[k - 1].part = "rest"
        \/ served[journal[k - 1].by].outcome = "fault"

\* Whatever its client does, a connection that took a slot gives it back.
SlotsComeBack == \A c \in Clients : c \in Holding ~> c \notin Holding
=============================================================================
