------------------------- MODULE CommandDeckProofs -------------------------
(***************************************************************************)
(* Proofs about RequestServer and CommandDeck: the request slots are never *)
(* given back twice nor lost on a path of the code, for any number of      *)
(* clients and slots; the desk at work implements the bare server; and     *)
(* what an answer and a history entry say of the store is true.            *)
(***************************************************************************)
EXTENDS CommandDeck, FiniteSetTheorems, SequenceTheorems, TLAPS

-----------------------------------------------------------------------------
(* The server: RequestServer on its own                                     *)

SlotsInv ==
  /\ slots \in Nat
  /\ stranded \in Nat
  /\ conn \in [Clients -> ConnStates]
  /\ faults \in 0 .. MaxFaults
  /\ SlotsAccounted

LEMMA HoldingFinite == IsFiniteSet(Holding) /\ Cardinality(Holding) \in Nat
  BY ServerAssumption, FS_Subset, FS_CardinalityType DEF Holding

LEMMA HoldingFinitePrime == IsFiniteSet(Holding') /\ Cardinality(Holding)' \in Nat
  BY ServerAssumption, FS_Subset, FS_CardinalityType DEF Holding

\* A connection that takes a slot is counted once more, one that ends once
\* less, and any other move leaves the number of holders as it was.
LEMMA MoveCounts ==
  ASSUME NEW c \in Clients, NEW from \in ConnStates, NEW to \in ConnStates,
         conn \in [Clients -> ConnStates], Moves(c, from, to)
  PROVE  /\ conn' \in [Clients -> ConnStates]
         /\ from \notin HoldingStates /\ to \in HoldingStates =>
              Cardinality(Holding)' = Cardinality(Holding) + 1
         /\ from \in HoldingStates /\ to \notin HoldingStates =>
              Cardinality(Holding)' = Cardinality(Holding) - 1
         /\ (from \in HoldingStates <=> to \in HoldingStates) =>
              Cardinality(Holding)' = Cardinality(Holding)
<1>1. conn' \in [Clients -> ConnStates]
  BY DEF Moves
<1>2. from \notin HoldingStates /\ to \in HoldingStates =>
        c \notin Holding /\ Holding' = Holding \cup {c}
  BY DEF Moves, Holding
<1>3. from \in HoldingStates /\ to \notin HoldingStates =>
        c \in Holding /\ Holding' = Holding \ {c}
  BY DEF Moves, Holding
<1>4. (from \in HoldingStates <=> to \in HoldingStates) => Holding' = Holding
  BY DEF Moves, Holding
<1>5. c \notin Holding => Cardinality(Holding \cup {c}) = Cardinality(Holding) + 1
  BY HoldingFinite, FS_AddElement
<1>6. c \in Holding => Cardinality(Holding \ {c}) = Cardinality(Holding) - 1
  BY HoldingFinite, FS_RemoveElement
<1> QED
  BY <1>1, <1>2, <1>3, <1>4, <1>5, <1>6

LEMMA SlotsInitially == ServerInit => SlotsInv
<1> SUFFICES ASSUME ServerInit PROVE SlotsInv
  OBVIOUS
<1>1. Holding = {}
  BY DEF ServerInit, Holding, HoldingStates
<1>2. Cardinality(Holding) = 0
  BY <1>1, FS_EmptySet
<1> QED
  BY <1>2, ServerAssumption DEF ServerInit, SlotsInv, SlotsAccounted, ConnStates

LEMMA SlotsStep == SlotsInv /\ [ServerNext]_server_vars => SlotsInv'
<1> SUFFICES ASSUME SlotsInv, [ServerNext]_server_vars PROVE SlotsInv'
  OBVIOUS
<1> USE DEF SlotsInv, SlotsAccounted
<1>a. /\ MaxWorkers \in Nat /\ MaxFaults \in Nat
      /\ Cardinality(Holding) \in Nat /\ Cardinality(Holding)' \in Nat
  BY ServerAssumption, HoldingFinite, HoldingFinitePrime
<1>b. /\ "away" \in ConnStates \ HoldingStates /\ "refused" \in ConnStates \ HoldingStates
      /\ {"admitted", "reading", "serving", "answering"} \subseteq ConnStates \cap HoldingStates
  BY DEF ConnStates, HoldingStates
<1>1. ASSUME NEW c \in Clients, Accept(c) PROVE SlotsInv'
  BY <1>1, <1>a, <1>b, MoveCounts DEF Accept
<1>2. ASSUME NEW c \in Clients, Refuse(c) \/ HangUp(c) PROVE SlotsInv'
  BY <1>2, <1>a, <1>b, MoveCounts DEF Refuse, HangUp
<1>3. ASSUME NEW c \in Clients,
             Launch(c) \/ Deliver(c) \/ Dismiss(c) \/ Finish(c) \/ Fail(c)
      PROVE  SlotsInv'
  <2>1. \E from, to \in ConnStates \cap HoldingStates : Moves(c, from, to)
    BY <1>3, <1>b DEF Launch, Deliver, Dismiss, Finish, Fail
  <2>2. /\ slots' = slots /\ stranded' = stranded
        /\ faults' = faults \/ Fault
    BY <1>3 DEF Launch, Deliver, Dismiss, Finish, Fail
  <2> QED
    BY <2>1, <2>2, <1>a, MoveCounts DEF Fault
<1>4. ASSUME NEW c \in Clients, LaunchFails(c) PROVE SlotsInv'
  BY <1>4, <1>a, <1>b, MoveCounts DEF LaunchFails, Fault
<1>5. ASSUME NEW c \in Clients, Release(c) PROVE SlotsInv'
  BY <1>5, <1>a, <1>b, MoveCounts DEF Release
<1>6. CASE Restart
  <2>1. Holding' = {}
    BY <1>6, <1>b DEF Restart, Holding, HoldingStates
  <2>2. Cardinality(Holding)' = 0
    BY <2>1, FS_EmptySet
  <2> QED
    BY <1>6, <2>2, <1>a, <1>b DEF Restart, Fault
<1>7. CASE UNCHANGED server_vars
  <2>1. Holding' = Holding
    BY <1>7 DEF server_vars, Holding
  <2> QED
    BY <1>7, <2>1 DEF server_vars
<1> QED
  BY <1>1, <1>2, <1>3, <1>4, <1>5, <1>6, <1>7 DEF ServerNext

\* For any clients, slots and faults: every slot is free, held by one
\* connection, or was stranded by a thread that could not be started.
THEOREM SlotsAreAccounted == ServerSpec => []SlotsAccounted
<1>1. SlotsInv => SlotsAccounted
  BY DEF SlotsInv
<1> QED
  BY SlotsInitially, SlotsStep, <1>1, PTL DEF ServerSpec

\* Type correctness of the server's state.
THEOREM ServerTypeCorrect == ServerSpec => []ServerTypeOK
<1>1. SlotsInv => ServerTypeOK
  BY HoldingFinite, ServerAssumption DEF SlotsInv, ServerTypeOK, SlotsAccounted
<1> QED
  BY SlotsInitially, SlotsStep, <1>1, PTL DEF ServerSpec

-----------------------------------------------------------------------------
(* The desk implements the server                                           *)

LEMMA DeckStepIsServerStep == [DeckNext]_deck_vars => [ServerNext]_server_vars
<1> SUFFICES ASSUME [DeckNext]_deck_vars PROVE [ServerNext]_server_vars
  OBVIOUS
<1>1. ASSUME NEW c \in Clients, Connection(c) PROVE ServerNext
  BY <1>1 DEF Connection, ServerNext
<1>2. ASSUME NEW c \in Clients, Submit(c) PROVE ServerNext
  BY <1>2 DEF Submit, ServerNext
<1>3. ASSUME NEW c \in Clients, Work(c) PROVE [ServerNext]_server_vars
  <2>1. Finish(c) \/ UNCHANGED server_vars
    BY <1>3 DEF Work, RefuseRequest, Read, CreateCase, AddRow, AddClaim, Judge, Weigh,
                Record, RecordRejected, RecordRefused, BeginReport, EndReport, Settle, Committed
  <2> QED
    BY <2>1 DEF ServerNext
<1>4. ASSUME NEW c \in Clients, WorkFails(c) PROVE ServerNext
  BY <1>4 DEF WorkFails, ServerNext
<1>5. CASE Crash
  BY <1>5 DEF Crash, ServerNext
<1>6. CASE UNCHANGED deck_vars
  BY <1>6 DEF deck_vars
<1> QED
  BY <1>1, <1>2, <1>3, <1>4, <1>5, <1>6 DEF DeckNext

\* Whatever the handlers do with the store, the connections behave as the
\* bare server's.
THEOREM DeskImplementsServer == DeckSpec => ServerSpec
<1>1. DeckInit => ServerInit
  BY DEF DeckInit
<1> QED
  BY <1>1, DeckStepIsServerStep, PTL DEF DeckSpec, ServerSpec

\* The slots of the desk at work are accounted for.
THEOREM DeskSlotsAccounted == DeckSpec => []SlotsAccounted
  BY DeskImplementsServer, SlotsAreAccounted, PTL

-----------------------------------------------------------------------------
(* What the desk answers: the inductive invariant                           *)

Outcomes == {"pending", "ok", "refused", "fault", "no_such_case"}
Changing == Rows \cup {"create", "claim", "judge", "weigh"}
Values == {r.value : r \in Requests}

Claim == [case : Nat \cup {NoCase}, state : Values \cup {"unverified"}, by : Nat]
Review == [about : Nat, state : Values, by : Nat]
Entry == [case : Nat \cup {NoCase}, by : Nat]
Part == [by : Nat, part : {"head", "rest"}]
ServedRequest == [request : Requests, case : Nat \cup {NoCase}, outcome : Outcomes]
Job == [no : Nat, step : {"idle", "execute", "record", "append"}]

DeckTypeOK ==
  /\ cases \in Nat \ {0}
  /\ identity_claims \in Seq(Claim)
  /\ processing_jobs \in Seq(Review)
  /\ command_history \in Seq(Entry)
  /\ journal \in Seq(Part)
  /\ journal_lock \in Clients \cup {NoClient}
  /\ work \in [Clients -> Job]
  /\ served \in Seq(ServedRequest)

Busy(c) == work[c].step # "idle"

\* The handlers at work: each has a request of its own that is not settled,
\* and what it has done so far is what its step says.
HandlerOK(c) ==
  Busy(c) =>
    /\ conn[c] = "serving"
    /\ No(c) \in DOMAIN served
    /\ served[No(c)].outcome = "pending"
    /\ work[c].step = "execute" => served[No(c)].case = NoCase
    /\ work[c].step = "record" =>
         /\ Console(No(c))
         /\ RequestOf(c).op \in Changing => served[No(c)].case # NoCase
    /\ work[c].step = "append" =>
         /\ RequestOf(c).op = "report" /\ journal_lock = c
         /\ Len(journal) > 0 /\ journal[Len(journal)] = [by |-> No(c), part |-> "head"]

OwnRequests == \A c, d \in Clients : Busy(c) /\ Busy(d) /\ c # d => No(c) # No(d)

WorkInv ==
  /\ conn \in [Clients -> ConnStates]
  /\ \A c \in Clients : HandlerOK(c)
  /\ OwnRequests
  /\ journal_lock # NoClient =>
       journal_lock \in Clients /\ work[journal_lock].step = "append"

\* The rows a request that changed something has left, found by its number.
Kept(r, i) ==
  /\ r.op \in Rows =>
       \E row \in rows : /\ row.op = r.op /\ row.case = Target(r) /\ row.value = r.value
                         /\ row.by = i \/ r.op = "tag"
  /\ r.op = "claim" => \E n \in DOMAIN identity_claims : identity_claims[n].by = i
  /\ r.op \in {"judge", "weigh"} =>
       \E n \in DOMAIN processing_jobs : processing_jobs[n].by = i /\ processing_jobs[n].state = r.value

ChangeBacked(i) ==
  LET r == served[i].request
  IN  served[i].case # NoCase =>
        /\ r.op \in Changing /\ Exists(served[i].case)
        /\ r.op # "create" => served[i].case = Target(r)
        /\ Kept(r, i)

DoneBacked(i) ==
  LET r == served[i].request
  IN  served[i].outcome = "ok" =>
        /\ r.op \in Changing => served[i].case # NoCase
        /\ Console(i) => \E n \in DOMAIN command_history : command_history[n].by = i

FailureExplained(i) ==
  LET r == served[i].request
  IN  /\ served[i].outcome = "refused" =>
           r.odd \/ (served[i].case = NoCase /\ r.op # "report")
      /\ served[i].outcome = "no_such_case" =>
           \/ served[i].case = NoCase
           \/ r.option # NoCase
           \/ r.op = "create" /\ ~r.prefix

\* A report that was answered, with 400 as well, has its line.
ReportBacked(i) ==
  served[i].request.op = "report" /\ served[i].outcome \in {"ok", "refused"} => Lines(i) # {}

Backed(i) == ChangeBacked(i) /\ DoneBacked(i) /\ FailureExplained(i) /\ ReportBacked(i)

\* A row, a claim or a review is the work of a request known to have changed
\* something.
Changed(i) == i \in DOMAIN served /\ served[i].case # NoCase

AuthorsKnown ==
  /\ \A row \in rows : Changed(row.by)
  /\ \A n \in DOMAIN identity_claims : identity_claims[n].by = 0 \/ Changed(identity_claims[n].by)
  /\ \A n \in DOMAIN processing_jobs : Changed(processing_jobs[n].by)

ServedInv == AuthorsKnown /\ \A i \in DOMAIN served : Backed(i)

EntryOK(n) ==
  LET i == command_history[n].by
  IN  /\ i \in DOMAIN served /\ served[i].outcome = "ok" /\ Console(i)
      /\ command_history[n].case = HistoryCase(i)

HistoryInv ==
  /\ \A n \in DOMAIN command_history : EntryOK(n)
  /\ \A m, n \in DOMAIN command_history :
       command_history[m].by = command_history[n].by => m = n

PartOK(k) ==
  LET i == journal[k].by
  IN  /\ i \in DOMAIN served /\ served[i].request.op = "report"
      /\ journal[k].part = "rest" => k > 1 /\ journal[k - 1] = [by |-> i, part |-> "head"]
      /\ journal[k].part = "head" =>
           \/ served[i].outcome = "fault"
           \/ k < Len(journal) /\ journal[k + 1].part = "rest"
           \/ k = Len(journal) /\ journal_lock # NoClient /\ No(journal_lock) = i

JournalInv == \A k \in DOMAIN journal : PartOK(k)

\* The foreign key of identity_claims.
ClaimsFiled == \A n \in DOMAIN identity_claims : Exists(identity_claims[n].case)

DeckInv == DeckTypeOK /\ WorkInv /\ ServedInv /\ HistoryInv /\ JournalInv /\ ClaimsFiled

-----------------------------------------------------------------------------
(* Types                                                                    *)

LEMMA SeqElements ==
  ASSUME NEW S, NEW q \in Seq(S)
  PROVE  Len(q) \in Nat /\ DOMAIN q = 1 .. Len(q) /\ \A i \in DOMAIN q : q[i] \in S
  BY LenProperties, ElementOfSeq

LEMMA ServedTyped ==
  ASSUME DeckTypeOK
  PROVE  /\ Len(served) \in Nat /\ DOMAIN served = 1 .. Len(served)
         /\ \A i \in DOMAIN served :
              /\ served[i] \in ServedRequest
              /\ served[i].request \in Requests
              /\ served[i].case \in Nat \cup {NoCase}
              /\ served[i].outcome \in Outcomes
<1>1. /\ Len(served) \in Nat /\ DOMAIN served = 1 .. Len(served)
      /\ \A i \in DOMAIN served : served[i] \in ServedRequest
  BY SeqElements DEF DeckTypeOK
<1> QED
  BY <1>1 DEF ServedRequest

LEMMA ExceptElements ==
  ASSUME NEW S, NEW q \in Seq(S), NEW i \in DOMAIN q, NEW e \in S
  PROVE  LET p == [q EXCEPT ![i] = e]
         IN  /\ p \in Seq(S) /\ Len(p) = Len(q) /\ DOMAIN p = DOMAIN q
             /\ \A j \in DOMAIN q : p[j] = IF j = i THEN e ELSE q[j]
  BY SeqElements, ExceptSeq

LEMMA JournalTyped ==
  ASSUME DeckTypeOK
  PROVE  /\ Len(journal) \in Nat /\ DOMAIN journal = 1 .. Len(journal)
         /\ \A k \in DOMAIN journal :
              journal[k] \in Part /\ journal[k].part \in {"head", "rest"}
<1>1. /\ Len(journal) \in Nat /\ DOMAIN journal = 1 .. Len(journal)
      /\ \A k \in DOMAIN journal : journal[k] \in Part
  BY SeqElements DEF DeckTypeOK
<1> QED
  BY <1>1 DEF Part

-----------------------------------------------------------------------------
(* What follows from the invariant                                          *)

\* A plain command is filed under the case it changed.
LEMMA PlainFiling ==
  ASSUME DeckTypeOK, ServedInv, NEW i \in DOMAIN served, served[i].case # NoCase,
         served[i].request.option = NoCase,
         served[i].request.op = "create" => served[i].request.prefix
  PROVE  HistoryCase(i) = served[i].case
<1>1. served[i].request \in Requests
  BY ServedTyped
<1>2. served[i].request.prefix => served[i].request.op \in {"create", "unknown"}
  BY <1>1, DeckAssumption
<1>3. served[i].request.op # "unknown"
  BY DEF ServedInv, Backed, ChangeBacked, Changing, Rows
<1> QED
  BY <1>2, <1>3 DEF ServedInv, Backed, ChangeBacked, HistoryCase, Target

\* A request that was to change something, and did, has stored all of it.
LEMMA ChangeStored ==
  ASSUME DeckInv, NEW i \in DOMAIN served,
         served[i].request.op \in Changing => served[i].case # NoCase,
         served[i].request.op = "report" => Lines(i) # {}
  PROVE  Stored(i)
<1> DEFINE r == served[i].request
<1>1. r.op \in Changing => Exists(served[i].case) /\ Kept(r, i)
  BY DEF DeckInv, ServedInv, Backed, ChangeBacked
<1> QED
  BY <1>1 DEF Stored, Changing, Kept

\* One that changed no case and reported nothing has left nothing behind.
LEMMA NothingLeft ==
  ASSUME DeckInv, NEW i \in DOMAIN served, served[i].case = NoCase,
         served[i].request.op # "report"
  PROVE  Untouched(i)
<1>1. i # 0
  BY ServedTyped DEF DeckInv
<1>2. ~Changed(i)
  BY DEF Changed
<1>3. \A k \in DOMAIN journal : journal[k].by # i
  BY DEF DeckInv, JournalInv, PartOK
<1> QED
  BY <1>1, <1>2, <1>3 DEF Untouched, DeckInv, ServedInv, AuthorsKnown

LEMMA InvAnswersTruthful == DeckInv => AnswersTruthful
<1> SUFFICES ASSUME DeckInv, NEW i \in DOMAIN served
             PROVE  /\ served[i].outcome = "ok" =>
                         Stored(i) /\ (Console(i) => Cardinality(Entries(i)) = 1)
                    /\ served[i].outcome = "refused" =>
                         /\ Entries(i) = {}
                         /\ Untouched(i) \/ (served[i].request.odd /\ Stored(i))
  BY DEF AnswersTruthful
<1>0. Backed(i)
  BY DEF DeckInv, ServedInv
<1>1. ASSUME served[i].outcome = "ok" PROVE Stored(i)
  BY <1>0, <1>1, ChangeStored DEF Backed, DoneBacked, ReportBacked
<1>2. ASSUME served[i].outcome = "ok", Console(i) PROVE Cardinality(Entries(i)) = 1
  <2>1. PICK n \in DOMAIN command_history : command_history[n].by = i
    BY <1>0, <1>2 DEF Backed, DoneBacked
  <2>2. Entries(i) = {n}
    BY <2>1 DEF DeckInv, HistoryInv, EntryOK, Entries
  <2> QED
    BY <2>2, FS_Singleton
<1>3. ASSUME served[i].outcome = "refused"
      PROVE  Untouched(i) \/ (served[i].request.odd /\ Stored(i))
  <2>1. CASE served[i].case = NoCase /\ served[i].request.op # "report"
    BY <2>1, NothingLeft
  <2>2. CASE served[i].case # NoCase \/ served[i].request.op = "report"
    <3>1. served[i].request.odd
      BY <1>0, <1>3, <2>2 DEF Backed, FailureExplained
    <3>2. served[i].request.op = "report" => Lines(i) # {}
      BY <1>0, <1>3 DEF Backed, ReportBacked
    <3>3. served[i].request.op \in Changing => served[i].case # NoCase
      BY <2>2 DEF Changing, Rows
    <3> QED
      BY <3>1, <3>2, <3>3, ChangeStored
  <2> QED
    BY <2>1, <2>2
<1>4. ASSUME served[i].outcome = "refused" PROVE Entries(i) = {}
  BY <1>4 DEF DeckInv, HistoryInv, EntryOK, Entries
<1> QED
  BY <1>1, <1>2, <1>3, <1>4

LEMMA InvUnfiledExplained == DeckInv => UnfiledExplained
<1> SUFFICES ASSUME DeckInv, NEW i \in DOMAIN served,
                    Console(i), served[i].case # NoCase, Entries(i) = {}
             PROVE  \/ served[i].outcome \in {"pending", "fault"}
                    \/ served[i].outcome = "refused" /\ served[i].request.odd
                    \/ /\ served[i].outcome = "no_such_case"
                       /\ \/ served[i].request.option # NoCase
                          \/ served[i].request.op = "create" /\ ~served[i].request.prefix
  BY DEF UnfiledExplained
<1>1. served[i].outcome \in Outcomes
  BY ServedTyped DEF DeckInv
<1>2. served[i].outcome # "ok"
  BY DEF DeckInv, ServedInv, Backed, DoneBacked, Entries
<1> QED
  BY <1>1, <1>2 DEF DeckInv, ServedInv, Backed, FailureExplained, Outcomes

LEMMA InvFiledWhereChanged == DeckInv => FiledWhereChanged
  BY PlainFiling DEF DeckInv, FiledWhereChanged, HistoryInv, EntryOK

LEMMA InvReportsReadable == DeckInv => ReportsReadable
<1> SUFFICES ASSUME DeckInv, NEW i \in DOMAIN served,
                    served[i].request.op = "report", served[i].outcome \in {"ok", "refused"}
             PROVE  \E k \in Lines(i) : k > 1 =>
                      \/ journal[k - 1].part = "rest"
                      \/ served[journal[k - 1].by].outcome = "fault"
  BY DEF ReportsReadable
<1>1. PICK k \in Lines(i) : TRUE
  BY DEF DeckInv, ServedInv, Backed, ReportBacked
<1>2. /\ k \in DOMAIN journal /\ k \in Nat
      /\ journal[k].part = "head"
      /\ Len(journal) \in Nat /\ DOMAIN journal = 1 .. Len(journal)
  BY JournalTyped DEF Lines, DeckInv
<1>3. ASSUME k > 1
      PROVE  /\ k - 1 \in DOMAIN journal /\ k - 1 < Len(journal) /\ (k - 1) + 1 = k
             /\ journal[k - 1].part \in {"head", "rest"}
  BY <1>2, <1>3, JournalTyped DEF DeckInv
<1>4. ASSUME k > 1
      PROVE  \/ journal[k - 1].part = "rest"
             \/ served[journal[k - 1].by].outcome = "fault"
  <2>1. PICK j : j = k - 1
    OBVIOUS
  <2>2. PartOK(j) /\ j + 1 = k /\ j # Len(journal)
    BY <1>3, <1>4, <2>1 DEF DeckInv, JournalInv
  <2> QED
    BY <1>2, <1>3, <1>4, <2>1, <2>2 DEF PartOK
<1> QED
  BY <1>1, <1>4

-----------------------------------------------------------------------------
(* What a step of one handler does to the histories                         *)

\* Of the requests served only c's changes: what it changed and its outcome.
Updated(c, case, o) ==
  /\ served' \in Seq(ServedRequest)
  /\ Len(served') = Len(served) /\ DOMAIN served' = DOMAIN served
  /\ \A i \in DOMAIN served :
       /\ served'[i].request = served[i].request
       /\ served'[i].case = IF i = No(c) THEN case ELSE served[i].case
       /\ served'[i].outcome = IF i = No(c) THEN o ELSE served[i].outcome

WorkMoves(c, step) ==
  /\ work' \in [Clients -> Job]
  /\ \A d \in Clients \ {c} : work'[d] = work[d]
  /\ work'[c].step = step
  /\ step # "idle" => work'[c].no = work[c].no

ConnMoves(c, step) ==
  /\ conn' \in [Clients -> ConnStates]
  /\ \A d \in Clients \ {c} : conn'[d] = conn[d]
  /\ step # "idle" => conn'[c] = conn[c]

StoreGrows ==
  /\ cases' >= cases
  /\ rows \subseteq rows'
  /\ \A n \in DOMAIN identity_claims :
       n \in DOMAIN identity_claims' /\ identity_claims'[n].by = identity_claims[n].by
  /\ \A n \in DOMAIN processing_jobs :
       n \in DOMAIN processing_jobs' /\ processing_jobs'[n] = processing_jobs[n]

\* What is new in the store is the work of c's request, which has changed
\* `case`.
OwnAdditions(c, case) ==
  /\ \A row \in rows' \ rows : row.by = No(c) /\ case # NoCase
  /\ \A n \in DOMAIN identity_claims' :
       \/ n \in DOMAIN identity_claims /\ identity_claims'[n].by = identity_claims[n].by
       \/ identity_claims'[n].by = No(c) /\ case # NoCase
  /\ \A n \in DOMAIN processing_jobs' :
       \/ n \in DOMAIN processing_jobs /\ processing_jobs'[n].by = processing_jobs[n].by
       \/ processing_jobs'[n].by = No(c) /\ case # NoCase

\* What is in a sequence stays where it is.
Extends(q1, q2) == \A n \in DOMAIN q1 : n \in DOMAIN q2 /\ q2[n] = q1[n]

LEMMA AppendExtends ==
  ASSUME NEW S, NEW q \in Seq(S), NEW e \in S
  PROVE  /\ Append(q, e) \in Seq(S)
         /\ Len(Append(q, e)) = Len(q) + 1
         /\ Append(q, e)[Len(q) + 1] = e
         /\ \A n \in DOMAIN Append(q, e) : n \in DOMAIN q \/ n = Len(q) + 1
         /\ Extends(q, Append(q, e))
  BY AppendProperties, SeqElements DEF Extends

LEMMA OutcomeUpdated ==
  ASSUME DeckTypeOK, NEW c \in Clients, No(c) \in DOMAIN served, NEW o \in Outcomes,
         served' = [served EXCEPT ![No(c)].outcome = o]
  PROVE  Updated(c, served[No(c)].case, o)
<1> DEFINE e == [served[No(c)] EXCEPT !.outcome = o]
<1>1. e \in ServedRequest /\ e.request = served[No(c)].request
      /\ e.case = served[No(c)].case /\ e.outcome = o
  BY ServedTyped DEF ServedRequest
<1>2. served' = [served EXCEPT ![No(c)] = e]
  OBVIOUS
<1> HIDE DEF e
<1>3. /\ served' \in Seq(ServedRequest) /\ Len(served') = Len(served)
      /\ DOMAIN served' = DOMAIN served
      /\ \A j \in DOMAIN served : served'[j] = IF j = No(c) THEN e ELSE served[j]
  <2>1. served \in Seq(ServedRequest) /\ e \in ServedRequest
    BY <1>1 DEF DeckTypeOK
  <2> QED
    BY <1>2, <2>1, ExceptElements
<1> QED
  BY <1>1, <1>3 DEF Updated

LEMMA CaseUpdated ==
  ASSUME DeckTypeOK, NEW c \in Clients, No(c) \in DOMAIN served, NEW case \in Nat \cup {NoCase},
         served' = [served EXCEPT ![No(c)].case = case]
  PROVE  Updated(c, case, served[No(c)].outcome)
<1> DEFINE e == [served[No(c)] EXCEPT !.case = case]
<1>1. e \in ServedRequest /\ e.request = served[No(c)].request
      /\ e.case = case /\ e.outcome = served[No(c)].outcome
  BY ServedTyped DEF ServedRequest
<1>2. served' = [served EXCEPT ![No(c)] = e]
  OBVIOUS
<1> HIDE DEF e
<1>3. /\ served' \in Seq(ServedRequest) /\ Len(served') = Len(served)
      /\ DOMAIN served' = DOMAIN served
      /\ \A j \in DOMAIN served : served'[j] = IF j = No(c) THEN e ELSE served[j]
  <2>1. served \in Seq(ServedRequest) /\ e \in ServedRequest
    BY <1>1 DEF DeckTypeOK
  <2> QED
    BY <1>2, <2>1, ExceptElements
<1> QED
  BY <1>1, <1>3 DEF Updated

LEMMA CaseAndOutcomeUpdated ==
  ASSUME DeckTypeOK, NEW c \in Clients, No(c) \in DOMAIN served, NEW case \in Nat \cup {NoCase},
         served' = [served EXCEPT ![No(c)] = [@ EXCEPT !.case = case, !.outcome = "ok"]]
  PROVE  Updated(c, case, "ok")
<1> DEFINE e == [served[No(c)] EXCEPT !.case = case, !.outcome = "ok"]
<1>1. e \in ServedRequest /\ e.request = served[No(c)].request
      /\ e.case = case /\ e.outcome = "ok"
  BY ServedTyped DEF ServedRequest, Outcomes
<1>2. served' = [served EXCEPT ![No(c)] = e]
  OBVIOUS
<1> HIDE DEF e
<1>3. /\ served' \in Seq(ServedRequest) /\ Len(served') = Len(served)
      /\ DOMAIN served' = DOMAIN served
      /\ \A j \in DOMAIN served : served'[j] = IF j = No(c) THEN e ELSE served[j]
  <2>1. served \in Seq(ServedRequest) /\ e \in ServedRequest
    BY <1>1 DEF DeckTypeOK
  <2> QED
    BY <1>2, <2>1, ExceptElements
<1> QED
  BY <1>1, <1>3 DEF Updated

LEMMA LinesStay ==
  ASSUME DeckTypeOK, journal' \in Seq(Part), Extends(journal, journal'), NEW i
  PROVE  Lines(i) \subseteq Lines(i)'
<1>1. SUFFICES ASSUME NEW k \in Lines(i) PROVE k \in Lines(i)'
  OBVIOUS
<1>2. k \in DOMAIN journal /\ k + 1 \in DOMAIN journal /\ k \in Nat
  BY JournalTyped DEF Lines
<1>3. /\ k + 1 \in DOMAIN journal' /\ DOMAIN journal' = 1 .. Len(journal') /\ Len(journal') \in Nat
      /\ journal'[k] = journal[k] /\ journal'[k + 1] = journal[k + 1]
  BY <1>2, SeqElements DEF Extends
<1>4. k \in 1 .. Len(journal') - 1
  BY <1>2, <1>3
<1> QED
  BY <1>3, <1>4 DEF Lines

LEMMA KeptStays ==
  ASSUME StoreGrows, NEW r, NEW i, Kept(r, i)
  PROVE  Kept(r, i)'
<1>1. r.op \in Rows =>
       \E row \in rows' : /\ row.op = r.op /\ row.case = Target(r) /\ row.value = r.value
                          /\ row.by = i \/ r.op = "tag"
  BY DEF Kept, StoreGrows
<1>2. r.op = "claim" => \E n \in DOMAIN identity_claims' : identity_claims'[n].by = i
  BY DEF Kept, StoreGrows
<1>3. r.op \in {"judge", "weigh"} =>
       \E n \in DOMAIN processing_jobs' :
         processing_jobs'[n].by = i /\ processing_jobs'[n].state = r.value
  BY DEF Kept, StoreGrows
<1> QED
  BY <1>1, <1>2, <1>3 DEF Kept, Target

-----------------------------------------------------------------------------
(* A step of one handler preserves each part of the invariant               *)

LEMMA ServedStep ==
  ASSUME DeckInv, NEW c \in Clients, Busy(c), NEW case \in Nat \cup {NoCase}, NEW o \in Outcomes,
         Updated(c, case, o), StoreGrows,
         cases' \in Nat,
         Extends(command_history, command_history'),
         journal' \in Seq(Part), Extends(journal, journal'),
         OwnAdditions(c, case),
         served[No(c)].case # NoCase => case = served[No(c)].case,
         case # NoCase =>
           /\ RequestOf(c).op \in Changing /\ Exists(case)'
           /\ RequestOf(c).op # "create" => case = Target(RequestOf(c)),
         \A r, i : r = RequestOf(c) /\ i = No(c) /\ case # NoCase => Kept(r, i)',
         o = "ok" =>
           /\ RequestOf(c).op \in Changing => case # NoCase
           /\ Console(No(c)) => \E n \in DOMAIN command_history' : command_history'[n].by = No(c),
         RequestOf(c).op = "report" /\ o \in {"ok", "refused"} =>
           \A i : i = No(c) => Lines(i)' # {},
         o = "refused" => RequestOf(c).odd \/ (case = NoCase /\ RequestOf(c).op # "report"),
         o = "no_such_case" =>
           case = NoCase \/ RequestOf(c).option # NoCase
             \/ (RequestOf(c).op = "create" /\ ~RequestOf(c).prefix)
  PROVE  ServedInv'
<1>0. No(c) \in DOMAIN served /\ served[No(c)].outcome = "pending"
  BY DEF DeckInv, WorkInv, HandlerOK
<1>1. \A n : n # NoCase /\ Exists(n) => Exists(n)'
  BY DEF StoreGrows, Exists, DeckInv, DeckTypeOK, FirstCase
<1>2. ASSUME NEW i \in DOMAIN served, i # No(c) PROVE Backed(i)'
  <2>1. /\ served'[i].request = served[i].request /\ served'[i].case = served[i].case
        /\ served'[i].outcome = served[i].outcome
    BY <1>2 DEF Updated
  <2>2. ChangeBacked(i) /\ DoneBacked(i) /\ FailureExplained(i) /\ ReportBacked(i)
    BY DEF DeckInv, ServedInv, Backed
  <2>3. Kept(served[i].request, i) => Kept(served[i].request, i)'
    <3>1. PICK r : r = served[i].request
      OBVIOUS
    <3>2. Kept(r, i) => \A q : q = r => Kept(q, i)'
      BY KeptStays
    <3> QED
      BY <2>1, <3>1, <3>2
  <2>4. Lines(i) \subseteq Lines(i)'
    BY LinesStay DEF DeckInv
  <2>5. ChangeBacked(i)'
    BY <1>1, <2>1, <2>2, <2>3 DEF ChangeBacked, Target
  <2>6. DoneBacked(i)'
    BY <2>1, <2>2 DEF DoneBacked, Extends, Console
  <2>7. FailureExplained(i)'
    BY <2>1, <2>2 DEF FailureExplained
  <2>8. ReportBacked(i)'
    BY <2>1, <2>2, <2>4 DEF ReportBacked
  <2> QED
    BY <2>5, <2>6, <2>7, <2>8 DEF Backed
<1>3. ASSUME NEW i, i = No(c) PROVE Backed(i)'
  <2>1. /\ served'[i].request = RequestOf(c) /\ served'[i].case = case
        /\ served'[i].outcome = o
    BY <1>0, <1>3 DEF Updated, RequestOf
  <2>2. \A r : r = RequestOf(c) /\ case # NoCase => Kept(r, i)'
    BY <1>3
  <2>3. case # NoCase => Kept(served[i].request, i)'
    BY <2>1, <2>2
  <2>4. ChangeBacked(i)'
    BY <2>1, <2>3 DEF ChangeBacked, Target
  <2>5. RequestOf(c).op = "report" /\ o \in {"ok", "refused"} => Lines(i)' # {}
    BY <1>3
  <2>6. Console(i)' <=> Console(No(c))
    BY <2>1, <1>3 DEF Console, RequestOf
  <2>7. DoneBacked(i)'
    BY <2>1, <2>6, <1>3 DEF DoneBacked
  <2>8. FailureExplained(i)'
    BY <2>1 DEF FailureExplained
  <2>9. ReportBacked(i)'
    BY <2>1, <2>5 DEF ReportBacked
  <2> QED
    BY <2>4, <2>7, <2>8, <2>9 DEF Backed
<1>4. AuthorsKnown'
  <2>1. AuthorsKnown
    BY DEF DeckInv, ServedInv
  <2>2. \A i : Changed(i) \/ (i = No(c) /\ case # NoCase) => Changed(i)'
    BY <1>0 DEF Changed, Updated
  <2>3. \A row \in rows' : Changed(row.by)'
    BY <2>1, <2>2 DEF AuthorsKnown, OwnAdditions
  <2>4. \A n \in DOMAIN identity_claims' :
          identity_claims'[n].by = 0 \/ Changed(identity_claims[n].by)'
    BY <2>1, <2>2 DEF AuthorsKnown, OwnAdditions
  <2>5. \A n \in DOMAIN processing_jobs' : Changed(processing_jobs[n].by)'
    BY <2>1, <2>2 DEF AuthorsKnown, OwnAdditions
  <2> QED
    BY <2>3, <2>4, <2>5 DEF AuthorsKnown
<1> QED
  BY <1>2, <1>3, <1>4 DEF ServedInv, Updated

\* The history stays, but for an entry of the request that is being settled.
LEMMA HistoryStep ==
  ASSUME DeckInv, NEW c \in Clients, Busy(c), NEW case, NEW o, Updated(c, case, o),
         \/ command_history' = command_history
         \/ /\ \E e \in Entry : /\ command_history' = Append(command_history, e)
                                /\ e.by = No(c) /\ e.case = HistoryCase(No(c))
            /\ o = "ok" /\ Console(No(c)) /\ case = served[No(c)].case
  PROVE  HistoryInv'
<1>0. No(c) \in DOMAIN served /\ served[No(c)].outcome = "pending"
  BY DEF DeckInv, WorkInv, HandlerOK
<1>1. /\ Len(command_history) \in Nat /\ DOMAIN command_history = 1 .. Len(command_history)
      /\ command_history \in Seq(Entry)
  BY SeqElements DEF DeckInv, DeckTypeOK
<1>2. ASSUME NEW n \in DOMAIN command_history, command_history'[n] = command_history[n]
      PROVE  EntryOK(n)' /\ command_history[n].by # No(c)
  <2>1. PICK i : i = command_history[n].by
    OBVIOUS
  <2>2. /\ i \in DOMAIN served /\ served[i].outcome = "ok" /\ Console(i)
        /\ command_history[n].case = HistoryCase(i)
    BY <2>1 DEF DeckInv, HistoryInv, EntryOK
  <2>3. /\ i # No(c) /\ i \in DOMAIN served'
        /\ served'[i].request = served[i].request /\ served'[i].case = served[i].case
        /\ served'[i].outcome = served[i].outcome
    BY <1>0, <2>2 DEF Updated
  <2>4. Console(i)' /\ HistoryCase(i)' = HistoryCase(i)
    BY <2>2, <2>3 DEF Console, HistoryCase
  <2> QED
    BY <1>2, <2>1, <2>2, <2>3, <2>4 DEF EntryOK
<1>3. CASE command_history' = command_history
  BY <1>2, <1>3 DEF DeckInv, HistoryInv
<1>4. CASE /\ \E e \in Entry : /\ command_history' = Append(command_history, e)
                               /\ e.by = No(c) /\ e.case = HistoryCase(No(c))
           /\ o = "ok" /\ Console(No(c)) /\ case = served[No(c)].case
  <2>1. PICK e \in Entry : /\ command_history' = Append(command_history, e)
                           /\ e.by = No(c) /\ e.case = HistoryCase(No(c))
    BY <1>4
  <2>2. PICK i : i = No(c)
    OBVIOUS
  <2>3. /\ i \in DOMAIN served' /\ served'[i].outcome = "ok" /\ Console(i)'
        /\ e.by = i /\ e.case = HistoryCase(i)'
    BY <1>0, <1>4, <2>1, <2>2 DEF Updated, Console, HistoryCase
  <2>4. /\ Append(command_history, e)[Len(command_history) + 1] = e
        /\ \A n \in DOMAIN Append(command_history, e) :
             n \in DOMAIN command_history \/ n = Len(command_history) + 1
        /\ Extends(command_history, Append(command_history, e))
    BY <1>1, AppendExtends
  <2>5. /\ command_history'[Len(command_history) + 1] = e
        /\ \A n \in DOMAIN command_history' :
             n \in DOMAIN command_history \/ n = Len(command_history) + 1
        /\ \A n \in DOMAIN command_history : command_history'[n] = command_history[n]
    BY <2>1, <2>4 DEF Extends
  <2>6. ASSUME NEW n \in DOMAIN command_history' PROVE EntryOK(n)'
    <3>1. CASE n \in DOMAIN command_history
      BY <1>2, <2>5, <3>1
    <3>2. CASE n = Len(command_history) + 1
      BY <2>3, <2>5, <3>2 DEF EntryOK
    <3> QED
      BY <2>5, <3>1, <3>2
  <2>7. ASSUME NEW m \in DOMAIN command_history', NEW n \in DOMAIN command_history',
               command_history'[m].by = command_history'[n].by
        PROVE  m = n
    BY <1>2, <2>2, <2>3, <2>5, <2>7 DEF DeckInv, HistoryInv
  <2> QED
    BY <2>6, <2>7 DEF HistoryInv
<1> QED
  BY <1>3, <1>4

\* The handlers the step is not about, and their requests.
LEMMA OthersStay ==
  ASSUME DeckInv, NEW c \in Clients, Busy(c), NEW case, NEW o, NEW step,
         Updated(c, case, o), WorkMoves(c, step), ConnMoves(c, step),
         NEW d \in Clients \ {c}, Busy(d)'
  PROVE  /\ Busy(d) /\ No(d)' = No(d) /\ No(d) # No(c) /\ conn'[d] = "serving"
         /\ work'[d] = work[d]
         /\ No(d) \in DOMAIN served' /\ served'[No(d)].outcome = "pending"
         /\ RequestOf(d)' = RequestOf(d) /\ served'[No(d)].case = served[No(d)].case
<1>1. /\ Busy(d) /\ No(d)' = No(d) /\ work'[d] = work[d] /\ conn'[d] = conn[d]
  BY DEF Busy, WorkMoves, ConnMoves, No
<1>2. /\ No(d) # No(c) /\ conn[d] = "serving" /\ No(d) \in DOMAIN served
      /\ served[No(d)].outcome = "pending"
  BY <1>1 DEF DeckInv, WorkInv, HandlerOK, OwnRequests
<1> QED
  BY <1>1, <1>2 DEF Updated, RequestOf

\* A step outside the journal leaves the handlers and the file in order.
LEMMA WorkStep ==
  ASSUME DeckInv, NEW c \in Clients, Busy(c), work[c].step # "append",
         NEW case, NEW o, NEW step \in {"idle", "record"},
         Updated(c, case, o), WorkMoves(c, step), ConnMoves(c, step),
         UNCHANGED file_vars,
         step = "record" => /\ o = "pending" /\ Console(No(c))
                            /\ RequestOf(c).op \in Changing => case # NoCase
  PROVE  WorkInv' /\ JournalInv'
<1>0. /\ No(c) \in DOMAIN served /\ served[No(c)].outcome = "pending" /\ conn[c] = "serving"
  BY DEF DeckInv, WorkInv, HandlerOK
<1>1. journal' = journal /\ journal_lock' = journal_lock
  BY DEF file_vars
<1>2. ASSUME NEW d \in Clients PROVE HandlerOK(d)'
  <2>1. CASE d # c /\ Busy(d)'
    <3>1. HandlerOK(d)
      BY DEF DeckInv, WorkInv
    <3>2. Console(No(d))' <=> Console(No(d))
      BY <2>1, OthersStay DEF Console, RequestOf
    <3> QED
      BY <1>1, <2>1, <3>1, <3>2, OthersStay DEF HandlerOK
  <2>2. CASE d = c /\ step = "record"
    <3>1. No(c)' = No(c) /\ conn'[c] = "serving"
      BY <1>0, <2>2 DEF WorkMoves, ConnMoves, No
    <3>2. /\ No(c) \in DOMAIN served' /\ served'[No(c)].outcome = "pending"
          /\ served'[No(c)].case = case /\ served'[No(c)].request = RequestOf(c)
      BY <1>0, <2>2 DEF Updated, RequestOf
    <3>3. Console(No(c))' /\ RequestOf(c)' = RequestOf(c)
      BY <2>2, <3>1, <3>2 DEF Console, RequestOf
    <3> QED
      BY <2>2, <3>1, <3>2, <3>3 DEF HandlerOK, WorkMoves
  <2>3. CASE ~Busy(d)'
    BY <2>3 DEF HandlerOK
  <2> QED
    BY <2>1, <2>2, <2>3 DEF Busy, WorkMoves
<1>3. OwnRequests'
  <2>1. Busy(c)' => No(c)' = No(c)
    BY DEF Busy, WorkMoves, No
  <2> QED
    BY <2>1, OthersStay DEF OwnRequests, DeckInv, WorkInv
<1>4. journal_lock # NoClient =>
        /\ journal_lock \in Clients \ {c} /\ work'[journal_lock] = work[journal_lock]
        /\ work[journal_lock].step = "append"
  BY DEF DeckInv, WorkInv, WorkMoves
<1>5. ASSUME NEW k \in DOMAIN journal PROVE PartOK(k)'
  <2>1. PartOK(k)
    BY DEF DeckInv, JournalInv
  <2>2. PICK i : i = journal[k].by
    OBVIOUS
  <2>3. /\ i \in DOMAIN served' /\ served'[i].request.op = "report"
        /\ served[i].outcome = "fault" => served'[i].outcome = "fault"
    BY <1>0, <2>1, <2>2 DEF PartOK, Updated
  <2>4. journal_lock # NoClient => No(journal_lock)' = No(journal_lock)
    BY <1>1, <1>4 DEF No
  <2> QED
    BY <1>1, <2>1, <2>2, <2>3, <2>4 DEF PartOK
<1> QED
  BY <1>1, <1>2, <1>3, <1>4, <1>5 DEF WorkInv, JournalInv, ConnMoves

-----------------------------------------------------------------------------
(* The actions                                                              *)

LEMMA WorkTyped ==
  ASSUME DeckTypeOK, NEW c \in Clients
  PROVE  work[c] \in Job /\ No(c) \in Nat
  BY DEF DeckTypeOK, Job, No

LEMMA SettleMoves ==
  ASSUME DeckInv, NEW c \in Clients, Busy(c), NEW o \in Outcomes,
         Finish(c) \/ Fail(c),
         served' = [served EXCEPT ![No(c)].outcome = o],
         work' = [work EXCEPT ![c] = Idle]
  PROVE  /\ Updated(c, served[No(c)].case, o)
         /\ WorkMoves(c, "idle") /\ ConnMoves(c, "idle")
<1>1. No(c) \in DOMAIN served /\ DeckTypeOK
  BY DEF DeckInv, WorkInv, HandlerOK
<1>2. Updated(c, served[No(c)].case, o)
  BY <1>1, OutcomeUpdated
<1>3. WorkMoves(c, "idle")
  BY <1>1 DEF WorkMoves, DeckTypeOK, Idle, Job
<1>4. ConnMoves(c, "idle")
  BY DEF ConnMoves, DeckInv, WorkInv, Finish, Fail, Moves, ConnStates, HoldingStates
<1> QED
  BY <1>2, <1>3, <1>4

LEMMA StoreStays ==
  ASSUME DeckTypeOK, UNCHANGED store_vars
  PROVE  /\ StoreGrows /\ cases' \in Nat
         /\ \A c, case : OwnAdditions(c, case)
         /\ \A r, i : Kept(r, i) => Kept(r, i)'
<1>1. StoreGrows
  BY DEF StoreGrows, store_vars, DeckTypeOK
<1>2. \A c, case : OwnAdditions(c, case)
  BY DEF OwnAdditions, store_vars
<1> QED
  BY <1>1, <1>2, KeptStays DEF store_vars, DeckTypeOK

LEMMA ClaimsStay ==
  ASSUME DeckInv, cases' \in Nat, cases' >= cases,
         DOMAIN identity_claims' = DOMAIN identity_claims,
         \A n \in DOMAIN identity_claims : identity_claims'[n].case = identity_claims[n].case
  PROVE  ClaimsFiled'
  BY DEF DeckInv, DeckTypeOK, ClaimsFiled, Exists, FirstCase

\* An operation that committed: its change is in the store.
LEMMA CommittedStep ==
  ASSUME DeckInv, NEW c \in Clients, work[c].step = "execute",
         NEW case \in Nat \cup {NoCase}, Committed(c, case), StoreGrows,
         cases' \in Nat \ {0}, identity_claims' \in Seq(Claim), processing_jobs' \in Seq(Review),
         ClaimsFiled',
         OwnAdditions(c, case),
         case # NoCase =>
           /\ RequestOf(c).op \in Changing /\ Exists(case)'
           /\ RequestOf(c).op # "create" => case = Target(RequestOf(c)),
         \A r, i : r = RequestOf(c) /\ i = No(c) /\ case # NoCase => Kept(r, i)',
         RequestOf(c).op \in Changing => case # NoCase,
         RequestOf(c).op # "report"
  PROVE  DeckInv'
<1> DEFINE api == RequestOf(c).via # "console"
           o == IF api THEN "ok" ELSE "pending"
           step == IF api THEN "idle" ELSE "record"
<1>0. /\ Busy(c) /\ No(c) \in DOMAIN served /\ served[No(c)].outcome = "pending"
      /\ served[No(c)].case = NoCase /\ DeckTypeOK
      /\ o \in Outcomes /\ step \in {"idle", "record"}
  BY DEF DeckInv, WorkInv, HandlerOK, Busy, Outcomes
<1>1. Updated(c, case, o)
  BY <1>0, CaseUpdated, CaseAndOutcomeUpdated DEF Committed
<1>2. WorkMoves(c, step)
  <2>1. CASE api
    <3>1. work' = [work EXCEPT ![c] = Idle] /\ step = "idle"
      BY <2>1 DEF Committed
    <3>2. Idle \in Job /\ Idle.step = "idle"
      BY DEF Idle, Job
    <3> QED
      BY <1>0, <3>1, <3>2 DEF WorkMoves, DeckTypeOK
  <2>2. CASE ~api
    <3>1. work' = [work EXCEPT ![c] = [work[c] EXCEPT !.step = "record"]]
      BY <2>2 DEF Committed
    <3>2. LET w == [work[c] EXCEPT !.step = "record"]
          IN  w \in Job /\ w.step = "record" /\ w.no = work[c].no
      BY <1>0, WorkTyped DEF Job
    <3> QED
      BY <1>0, <2>2, <3>1, <3>2 DEF WorkMoves, DeckTypeOK
  <2> QED
    BY <2>1, <2>2
<1>3. ConnMoves(c, step)
  BY DEF ConnMoves, DeckInv, WorkInv, Committed, Finish, Moves, ConnStates, HoldingStates, server_vars
<1>4. UNCHANGED <<journal, journal_lock, command_history>>
  BY DEF Committed, file_vars
<1>5. /\ Extends(command_history, command_history') /\ Extends(journal, journal')
      /\ journal' \in Seq(Part)
  BY <1>0, <1>4 DEF Extends, DeckTypeOK
<1>6. Console(No(c)) <=> ~api
  BY DEF Console, RequestOf
<1> HIDE DEF api, o, step
<1>7. /\ o = "ok" => api
      /\ o # "refused" /\ o # "no_such_case"
      /\ step = "record" => o = "pending" /\ ~api
  BY DEF api, o, step
<1>8. ServedInv'
  BY <1>0, <1>1, <1>4, <1>5, <1>6, <1>7, ServedStep
<1>9. HistoryInv'
  BY <1>0, <1>1, <1>4, HistoryStep
<1>10. WorkInv' /\ JournalInv'
  BY <1>0, <1>1, <1>2, <1>3, <1>4, <1>6, <1>7, WorkStep DEF file_vars
<1>11. DeckTypeOK'
  BY <1>0, <1>1, <1>2, <1>4 DEF DeckTypeOK, Updated, WorkMoves
<1> QED
  BY <1>8, <1>9, <1>10, <1>11 DEF DeckInv

LEMMA ReadStep == ASSUME DeckInv, NEW c \in Clients, Read(c) PROVE DeckInv'
<1>1. /\ RequestOf(c).op \notin Changing \cup {"report"} /\ work[c].step = "execute"
      /\ Committed(c, NoCase) /\ UNCHANGED store_vars /\ DeckTypeOK
  BY DEF Read, Executing, Changing, Rows, DeckInv
<1>2. StoreGrows /\ OwnAdditions(c, NoCase)
  BY <1>1, StoreStays
<1>3. cases' \in Nat \ {0} /\ identity_claims' \in Seq(Claim) /\ processing_jobs' \in Seq(Review)
  BY <1>1 DEF DeckTypeOK, store_vars
<1>4. ClaimsFiled'
  BY <1>1, <1>3, ClaimsStay DEF store_vars, DeckTypeOK
<1> QED
  BY <1>1, <1>2, <1>3, <1>4, CommittedStep

LEMMA CreateCaseStep == ASSUME DeckInv, NEW c \in Clients, CreateCase(c) PROVE DeckInv'
<1>1. /\ RequestOf(c).op = "create" /\ work[c].step = "execute"
      /\ Committed(c, cases + 1) /\ cases' = cases + 1
      /\ UNCHANGED <<rows, identity_claims, relationship, processing_jobs>> /\ DeckTypeOK
  BY DEF CreateCase, Executing, DeckInv
<1>2. /\ cases \in Nat \ {0} /\ cases + 1 \in Nat /\ cases + 1 # NoCase
      /\ cases' \in Nat \ {0} /\ identity_claims' \in Seq(Claim) /\ processing_jobs' \in Seq(Review)
  BY <1>1, DeckAssumption DEF DeckTypeOK
<1>3. StoreGrows
  BY <1>1, <1>2 DEF StoreGrows
<1>4. PICK m : m = cases + 1
  OBVIOUS
<1>5. Exists(m)' /\ m \in Nat /\ m # NoCase /\ Committed(c, m)
  BY <1>1, <1>2, <1>4 DEF Exists, FirstCase
<1>6. \A r, i : r = RequestOf(c) => Kept(r, i)'
  BY <1>1 DEF Kept, Rows
<1>7. RequestOf(c).op \in Changing /\ OwnAdditions(c, m)
  BY <1>1 DEF Changing, OwnAdditions
<1>8. ClaimsFiled'
  BY <1>1, <1>2, ClaimsStay
<1> QED
  BY <1>1, <1>2, <1>3, <1>5, <1>6, <1>7, <1>8, CommittedStep

LEMMA AddRowStep == ASSUME DeckInv, NEW c \in Clients, AddRow(c) PROVE DeckInv'
<1> DEFINE r == RequestOf(c)
           row == [op |-> r.op, case |-> Target(r), value |-> r.value, by |-> No(c)]
<1>1. /\ r.op \in Rows /\ work[c].step = "execute" /\ Exists(Target(r))
      /\ rows' = IF r.op = "tag" /\ \E old \in rows : SameTag(old, r)
                 THEN rows ELSE rows \cup {row}
      /\ Committed(c, Target(r))
      /\ UNCHANGED <<cases, identity_claims, relationship, processing_jobs>> /\ DeckTypeOK
  BY DEF AddRow, Executing, Acceptable, Rows, DeckInv
<1>2. /\ Target(r) \in Nat /\ Target(r) # NoCase
      /\ cases' \in Nat \ {0} /\ identity_claims' \in Seq(Claim) /\ processing_jobs' \in Seq(Review)
  BY <1>1 DEF DeckTypeOK, Exists, FirstCase
<1>3. StoreGrows
  BY <1>1, <1>2 DEF StoreGrows, DeckTypeOK
<1>4. Exists(Target(r)) /\ cases' = cases
  BY <1>1
<1>5. \E found \in rows' : /\ found.op = r.op /\ found.case = Target(r) /\ found.value = r.value
                           /\ found.by = No(c) \/ r.op = "tag"
  <2>1. CASE r.op = "tag" /\ \E old \in rows : SameTag(old, r)
    BY <1>1, <2>1 DEF SameTag
  <2>2. CASE ~(r.op = "tag" /\ \E old \in rows : SameTag(old, r))
    <3>1. row \in rows'
      BY <1>1, <2>2
    <3>2. row.op = r.op /\ row.case = Target(r) /\ row.value = r.value /\ row.by = No(c)
      OBVIOUS
    <3> QED
      BY <3>1, <3>2
  <2> QED
    BY <2>1, <2>2
<1>6. \A q, i : q = r /\ i = No(c) => Kept(q, i)'
  BY <1>1, <1>5 DEF Kept, Rows, Target
<1>7. PICK m : m = Target(r)
  OBVIOUS
<1>8. Exists(m)' /\ m \in Nat /\ Committed(c, m)
  BY <1>1, <1>2, <1>4, <1>7 DEF Exists
<1>9. /\ OwnAdditions(c, m)
      /\ r.op \in Changing /\ r.op # "report"
  BY <1>1, <1>2, <1>7 DEF Changing, Rows, OwnAdditions
<1>11. ClaimsFiled'
  BY <1>1, <1>2, ClaimsStay DEF DeckTypeOK
<1> HIDE DEF r, row
<1>10. work[c].step = "execute" /\ m # NoCase /\ m = Target(r)
  BY <1>1, <1>2, <1>7
<1> QED
  BY <1>2, <1>3, <1>6, <1>8, <1>9, <1>10, <1>11, CommittedStep DEF r

LEMMA AddClaimStep == ASSUME DeckInv, NEW c \in Clients, AddClaim(c) PROVE DeckInv'
<1> DEFINE r == RequestOf(c)
           claim == [case |-> Target(r), state |-> "unverified", by |-> No(c)]
<1>1. /\ r.op = "claim" /\ work[c].step = "execute" /\ Exists(Target(r))
      /\ identity_claims' = Append(identity_claims, claim)
      /\ Committed(c, Target(r))
      /\ UNCHANGED <<cases, rows, relationship, processing_jobs>> /\ DeckTypeOK
  BY DEF AddClaim, Executing, Acceptable, Rows, DeckInv
<1>2. /\ Target(r) \in Nat /\ Target(r) # NoCase /\ claim \in Claim
      /\ cases' \in Nat \ {0} /\ processing_jobs' \in Seq(Review)
      /\ identity_claims \in Seq(Claim)
  BY <1>1, WorkTyped DEF DeckTypeOK, Exists, FirstCase, Claim
<1>3. /\ identity_claims' \in Seq(Claim) /\ Extends(identity_claims, identity_claims')
      /\ Len(identity_claims) + 1 \in DOMAIN identity_claims'
      /\ identity_claims'[Len(identity_claims) + 1] = claim
      /\ \A n \in DOMAIN identity_claims' :
           n \in DOMAIN identity_claims \/ n = Len(identity_claims) + 1
  <2> HIDE DEF claim
  <2>1. /\ Append(identity_claims, claim) \in Seq(Claim)
        /\ Len(Append(identity_claims, claim)) = Len(identity_claims) + 1
        /\ Append(identity_claims, claim)[Len(identity_claims) + 1] = claim
        /\ Extends(identity_claims, Append(identity_claims, claim))
        /\ \A n \in DOMAIN Append(identity_claims, claim) :
             n \in DOMAIN identity_claims \/ n = Len(identity_claims) + 1
    BY <1>2, AppendExtends
  <2> QED
    BY <1>1, <1>2, <2>1, SeqElements
<1>4. StoreGrows
  BY <1>1, <1>3 DEF StoreGrows, Extends, DeckTypeOK
<1>5. \A q, i : q = r /\ i = No(c) => Kept(q, i)'
  BY <1>1, <1>3 DEF Kept, Rows
<1>6. PICK m : m = Target(r)
  OBVIOUS
<1>7. Exists(m)' /\ m \in Nat /\ Committed(c, m)
  BY <1>1, <1>2, <1>6 DEF Exists
<1>8. /\ r.op \in Changing /\ r.op # "report"
      /\ work[c].step = "execute" /\ m # NoCase /\ m = Target(r)
  BY <1>1, <1>2, <1>6 DEF Changing
<1>9. claim.case = Target(r) /\ claim.by = No(c) /\ UNCHANGED <<cases, rows, processing_jobs>>
  BY <1>1
<1> HIDE DEF r, claim
<1>10. ClaimsFiled'
  BY <1>1, <1>3, <1>6, <1>7, <1>8, <1>9 DEF ClaimsFiled, Extends, DeckInv, Exists
<1>11. OwnAdditions(c, m)
  BY <1>3, <1>8, <1>9 DEF OwnAdditions, Extends
<1> QED
  BY <1>2, <1>3, <1>4, <1>5, <1>7, <1>8, <1>10, <1>11, CommittedStep DEF r

\* A review entry is appended by a judgement of c on a case.
LEMMA ReviewedStep ==
  ASSUME DeckInv, NEW c \in Clients, work[c].step = "execute",
         RequestOf(c).op \in {"judge", "weigh"},
         NEW about \in Nat, Reviewed(about, RequestOf(c).value, No(c)),
         NEW m \in Nat, m = Target(RequestOf(c)), Exists(m), Committed(c, m),
         UNCHANGED <<cases, rows>>, identity_claims' \in Seq(Claim),
         Len(identity_claims') = Len(identity_claims),
         \A n \in DOMAIN identity_claims :
           /\ identity_claims'[n].by = identity_claims[n].by
           /\ identity_claims'[n].case = identity_claims[n].case
  PROVE  DeckInv'
<1> DEFINE entry == [about |-> about, state |-> RequestOf(c).value, by |-> No(c)]
<1>1. /\ DeckTypeOK /\ RequestOf(c) \in Requests
  BY ServedTyped DEF DeckInv, WorkInv, HandlerOK, Busy, RequestOf
<1>2. entry \in Review /\ processing_jobs \in Seq(Review)
  BY <1>1, WorkTyped DEF Review, Values, DeckTypeOK
<1>3. /\ processing_jobs' \in Seq(Review) /\ Extends(processing_jobs, processing_jobs')
      /\ Len(processing_jobs) + 1 \in DOMAIN processing_jobs'
      /\ processing_jobs'[Len(processing_jobs) + 1] = entry
      /\ \A n \in DOMAIN processing_jobs' :
           n \in DOMAIN processing_jobs \/ n = Len(processing_jobs) + 1
  <2>1. processing_jobs' = Append(processing_jobs, entry)
    BY DEF Reviewed
  <2> HIDE DEF entry
  <2>2. /\ Append(processing_jobs, entry) \in Seq(Review)
        /\ Len(Append(processing_jobs, entry)) = Len(processing_jobs) + 1
        /\ Append(processing_jobs, entry)[Len(processing_jobs) + 1] = entry
        /\ Extends(processing_jobs, Append(processing_jobs, entry))
        /\ \A n \in DOMAIN Append(processing_jobs, entry) :
             n \in DOMAIN processing_jobs \/ n = Len(processing_jobs) + 1
    BY <1>2, AppendExtends
  <2> QED
    BY <1>2, <2>1, <2>2, SeqElements
<1>4. /\ DOMAIN identity_claims' = DOMAIN identity_claims
  BY <1>1, SeqElements DEF DeckTypeOK
<1>5. StoreGrows /\ cases' \in Nat \ {0}
  BY <1>1, <1>3, <1>4 DEF StoreGrows, Extends, DeckTypeOK
<1>6. \A q, i : q = RequestOf(c) /\ i = No(c) => Kept(q, i)'
  BY <1>3 DEF Kept, Rows
<1>7. /\ Exists(m)' /\ m # NoCase
      /\ RequestOf(c).op \in Changing /\ RequestOf(c).op # "report"
  BY DeckAssumption DEF Exists, Changing
<1>8. ClaimsFiled'
  BY <1>1, <1>4, <1>5, ClaimsStay DEF DeckTypeOK
<1>9. OwnAdditions(c, m)
  BY <1>3, <1>4, <1>7 DEF OwnAdditions, Extends
<1> QED
  BY <1>3, <1>5, <1>6, <1>7, <1>8, <1>9, CommittedStep

LEMMA JudgeStep == ASSUME DeckInv, NEW c \in Clients, Judge(c) PROVE DeckInv'
<1> DEFINE r == RequestOf(c)
<1>1. /\ r.op = "judge" /\ work[c].step = "execute" /\ Committed(c, Target(r))
      /\ UNCHANGED <<cases, rows, relationship>> /\ DeckTypeOK /\ r \in Requests
  BY ServedTyped DEF Judge, Executing, DeckInv, WorkInv, HandlerOK, Busy, RequestOf
<1>2. PICK n \in DOMAIN identity_claims :
        /\ identity_claims[n].case = Target(r)
        /\ identity_claims' = [identity_claims EXCEPT ![n].state = r.value]
        /\ Reviewed(n, r.value, No(c))
  BY DEF Judge
<1> DEFINE claim == [identity_claims[n] EXCEPT !.state = r.value]
<1>3. identity_claims \in Seq(Claim) /\ identity_claims[n] \in Claim /\ n \in Nat
  BY <1>1, SeqElements DEF DeckTypeOK
<1>4. claim \in Claim /\ claim.by = identity_claims[n].by /\ claim.case = identity_claims[n].case
  BY <1>1, <1>3 DEF Claim, Values
<1>5. identity_claims' = [identity_claims EXCEPT ![n] = claim]
  BY <1>2
<1> HIDE DEF claim
<1>6. /\ identity_claims' \in Seq(Claim) /\ Len(identity_claims') = Len(identity_claims)
      /\ \A k \in DOMAIN identity_claims :
           /\ identity_claims'[k].by = identity_claims[k].by
           /\ identity_claims'[k].case = identity_claims[k].case
  BY <1>3, <1>4, <1>5, ExceptElements
<1>7. Exists(Target(r)) /\ Target(r) \in Nat
  BY <1>1, <1>2 DEF DeckInv, ClaimsFiled, Exists, FirstCase, DeckTypeOK
<1>8. PICK m : m = Target(r)
  OBVIOUS
<1> QED
  BY <1>1, <1>2, <1>3, <1>6, <1>7, <1>8, ReviewedStep DEF Exists

LEMMA WeighStep == ASSUME DeckInv, NEW c \in Clients, Weigh(c) PROVE DeckInv'
<1> DEFINE r == RequestOf(c)
<1>1. /\ r.op = "weigh" /\ work[c].step = "execute" /\ Target(r) = FirstCase
      /\ Committed(c, FirstCase) /\ Reviewed(0, r.value, No(c))
      /\ UNCHANGED <<cases, rows, identity_claims>> /\ DeckTypeOK
  BY DEF Weigh, Executing, Acceptable, Rows, DeckInv
<1>2. /\ identity_claims' \in Seq(Claim) /\ Len(identity_claims') = Len(identity_claims)
      /\ \A n \in DOMAIN identity_claims :
           /\ identity_claims'[n].by = identity_claims[n].by
           /\ identity_claims'[n].case = identity_claims[n].case
  BY <1>1 DEF DeckTypeOK
<1>3. Exists(FirstCase) /\ FirstCase \in Nat
  BY <1>1, DeckAssumption DEF Exists, FirstCase, DeckTypeOK
<1> QED
  BY <1>1, <1>2, <1>3, ReviewedStep

\* An answer without an operation of its own: the store and the file stay.
LEMMA AnswerStep ==
  ASSUME DeckInv, NEW c \in Clients, work[c].step \in {"execute", "record"},
         NEW o \in {"ok", "refused", "fault", "no_such_case"},
         Finish(c) \/ Fail(c),
         served' = [served EXCEPT ![No(c)].outcome = o],
         work' = [work EXCEPT ![c] = Idle],
         UNCHANGED <<store_vars, file_vars>>,
         \/ command_history' = command_history /\ o # "ok"
         \/ /\ \E e \in Entry : /\ command_history' = Append(command_history, e)
                                /\ e.by = No(c) /\ e.case = HistoryCase(No(c))
            /\ o = "ok" /\ work[c].step = "record",
         o = "refused" =>
           RequestOf(c).op # "report" /\ (RequestOf(c).odd \/ served[No(c)].case = NoCase),
         o = "no_such_case" =>
           \/ served[No(c)].case = NoCase
           \/ RequestOf(c).option # NoCase
           \/ RequestOf(c).op = "create" /\ ~RequestOf(c).prefix
  PROVE  DeckInv'
<1>0. /\ Busy(c) /\ No(c) \in DOMAIN served /\ o \in Outcomes /\ DeckTypeOK
      /\ work[c].step # "append"
      /\ served[No(c)].case \in Nat \cup {NoCase}
      /\ command_history \in Seq(Entry) /\ journal \in Seq(Part)
  BY ServedTyped DEF DeckInv, WorkInv, HandlerOK, Busy, Outcomes, DeckTypeOK
<1>1. PICK case : case = served[No(c)].case
  OBVIOUS
<1>2. Updated(c, case, o) /\ WorkMoves(c, "idle") /\ ConnMoves(c, "idle")
  BY <1>0, <1>1, SettleMoves
<1>3. /\ StoreGrows /\ cases' \in Nat /\ OwnAdditions(c, case)
      /\ \A r, i : Kept(r, i) => Kept(r, i)'
  BY <1>0, StoreStays
<1>4. /\ command_history' \in Seq(Entry) /\ Extends(command_history, command_history')
      /\ o = "ok" => \E n \in DOMAIN command_history' : command_history'[n].by = No(c)
  <2>1. CASE command_history' = command_history /\ o # "ok"
    BY <1>0, <2>1 DEF Extends
  <2>2. CASE \E e \in Entry : /\ command_history' = Append(command_history, e)
                              /\ e.by = No(c) /\ e.case = HistoryCase(No(c))
    <3>1. PICK e \in Entry : command_history' = Append(command_history, e) /\ e.by = No(c)
      BY <2>2
    <3>2. Len(command_history) + 1 \in DOMAIN Append(command_history, e)
      BY <1>0, AppendExtends, SeqElements
    <3> QED
      BY <1>0, <3>1, <3>2, AppendExtends
  <2> QED
    BY <2>1, <2>2
<1>5. journal' = journal /\ journal' \in Seq(Part) /\ Extends(journal, journal')
  BY <1>0 DEF file_vars, Extends
<1>6. /\ case # NoCase =>
           /\ RequestOf(c).op \in Changing /\ Exists(case)
           /\ RequestOf(c).op # "create" => case = Target(RequestOf(c))
           /\ \A r, i : r = RequestOf(c) /\ i = No(c) => Kept(r, i)
      /\ o = "ok" => Console(No(c)) /\ (RequestOf(c).op \in Changing => case # NoCase)
      /\ RequestOf(c).op = "report" => ~Console(No(c))
  <2>1. ChangeBacked(No(c)) /\ HandlerOK(c)
    BY <1>0 DEF DeckInv, ServedInv, Backed, WorkInv
  <2>2. RequestOf(c) \in Requests
    BY <1>0, ServedTyped DEF RequestOf
  <2>3. RequestOf(c).op = "report" => ~Console(No(c))
    BY <2>2, DeckAssumption DEF Console, RequestOf, ConsoleOps
  <2>4. case # NoCase =>
           /\ RequestOf(c).op \in Changing /\ Exists(case)
           /\ RequestOf(c).op # "create" => case = Target(RequestOf(c))
           /\ Kept(RequestOf(c), No(c))
    BY <1>1, <2>1 DEF ChangeBacked, RequestOf
  <2>5. o = "ok" => Console(No(c)) /\ (RequestOf(c).op \in Changing => case # NoCase)
    BY <1>0, <1>1, <2>1 DEF HandlerOK
  <2> QED
    BY <2>3, <2>4, <2>5
<1>7. case # NoCase => Exists(case)'
  BY <1>0, <1>3, <1>6 DEF Exists, StoreGrows, DeckTypeOK, FirstCase
<1>8. case \in Nat \cup {NoCase} /\ (served[No(c)].case # NoCase => case = served[No(c)].case)
  BY <1>0, <1>1
<1>9. ServedInv'
  <2>1. RequestOf(c).op = "report" => o # "ok" /\ o # "refused"
    BY <1>6
  <2> QED
    BY <1>0, <1>1, <1>2, <1>3, <1>4, <1>5, <1>6, <1>7, <1>8, <2>1, ServedStep
<1>10. HistoryInv'
  <2>1. o = "ok" => Console(No(c))
    BY <1>6
  <2> QED
    BY <1>0, <1>1, <1>2, <2>1, HistoryStep
<1>11. WorkInv' /\ JournalInv'
  BY <1>0, <1>2, WorkStep
<1>12. DeckTypeOK'
  BY <1>0, <1>2, <1>4 DEF DeckTypeOK, Updated, WorkMoves, store_vars, file_vars
<1>13. ClaimsFiled'
  BY <1>0, <1>3, ClaimsStay DEF StoreGrows, DeckTypeOK, store_vars
<1> QED
  BY <1>9, <1>10, <1>11, <1>12, <1>13 DEF DeckInv

LEMMA RefuseStep == ASSUME DeckInv, NEW c \in Clients, RefuseRequest(c) PROVE DeckInv'
<1>1. served[No(c)].case = NoCase /\ RequestOf(c).op # "report"
  BY DEF RefuseRequest, Acceptable, DeckInv, WorkInv, HandlerOK, Busy
<1> QED
  BY <1>1, AnswerStep DEF RefuseRequest, Settle

LEMMA RecordStep == ASSUME DeckInv, NEW c \in Clients, Record(c) PROVE DeckInv'
<1>1. PICK e : e = [case |-> HistoryCase(No(c)), by |-> No(c)]
  OBVIOUS
<1>2. No(c) \in DOMAIN served /\ DeckTypeOK
  BY DEF Record, Recording, DeckInv, WorkInv, HandlerOK, Busy
<1>3. HistoryCase(No(c)) \in Nat \cup {NoCase}
  BY <1>2, DeckAssumption DEF Record, Fileable, Exists, FirstCase, DeckTypeOK
<1>4. e \in Entry /\ e.by = No(c) /\ e.case = HistoryCase(No(c))
  BY <1>1, <1>2, <1>3, WorkTyped DEF Entry
<1> QED
  BY <1>1, <1>4, AnswerStep DEF Record, Recording, Settle

LEMMA RecordRejectedStep ==
  ASSUME DeckInv, NEW c \in Clients, RecordRejected(c) PROVE DeckInv'
<1>1. No(c) \in DOMAIN served /\ DeckTypeOK /\ ServedInv
  BY DEF RecordRejected, Recording, DeckInv, WorkInv, HandlerOK, Busy
<1>2. \/ served[No(c)].case = NoCase
      \/ RequestOf(c).option # NoCase
      \/ RequestOf(c).op = "create" /\ ~RequestOf(c).prefix
  <2>1. served[No(c)].case # NoCase => Exists(served[No(c)].case)
    BY <1>1 DEF ServedInv, Backed, ChangeBacked
  <2>2. HistoryCase(No(c)) # NoCase /\ ~Exists(HistoryCase(No(c)))
    BY DEF RecordRejected, Fileable
  <2> QED
    BY <1>1, <2>1, <2>2, PlainFiling DEF RequestOf
<1> QED
  BY <1>2, AnswerStep DEF RecordRejected, Recording, Settle

LEMMA RecordRefusedStep ==
  ASSUME DeckInv, NEW c \in Clients, RecordRefused(c) PROVE DeckInv'
<1>1. RequestOf(c) \in Requests /\ Console(No(c))
  BY ServedTyped DEF RecordRefused, DeckInv, WorkInv, HandlerOK, Busy, RequestOf
<1>2. RequestOf(c).op # "report"
  BY <1>1, DeckAssumption DEF Console, RequestOf, ConsoleOps
<1> QED
  BY <1>2, AnswerStep DEF RecordRefused, Settle

\* Only the handler that holds the lock is in the middle of a line.
LEMMA LockHolder ==
  ASSUME DeckInv, NEW d \in Clients
  PROVE  /\ work[d].step = "append" <=> journal_lock = d
         /\ journal_lock = NoClient \/ journal_lock \in Clients
  BY DeckAssumption DEF DeckInv, WorkInv, HandlerOK, Busy

LEMMA BeginReportStep == ASSUME DeckInv, NEW c \in Clients, BeginReport(c) PROVE DeckInv'
<1> DEFINE part == [by |-> No(c), part |-> "head"]
<1>1. /\ work[c].step = "execute" /\ RequestOf(c).op = "report" /\ journal_lock = NoClient
      /\ journal_lock' = c /\ journal' = Append(journal, part)
      /\ work' = [work EXCEPT ![c].step = "append"]
      /\ UNCHANGED <<server_vars, store_vars, command_history, served>>
  BY DEF BeginReport, Executing
<1>2. /\ DeckTypeOK /\ Busy(c) /\ No(c) \in DOMAIN served /\ conn[c] = "serving"
      /\ served[No(c)].outcome = "pending" /\ served[No(c)].case = NoCase
      /\ No(c) \in Nat /\ part \in Part /\ journal \in Seq(Part)
  BY <1>1, WorkTyped DEF DeckInv, WorkInv, HandlerOK, Busy, Part, DeckTypeOK
<1>3. WorkMoves(c, "append") /\ ConnMoves(c, "append")
  <2>1. work' = [work EXCEPT ![c] = [work[c] EXCEPT !.step = "append"]]
    BY <1>1
  <2>2. LET w == [work[c] EXCEPT !.step = "append"]
        IN  w \in Job /\ w.step = "append" /\ w.no = work[c].no
    BY <1>2, WorkTyped DEF Job
  <2> QED
    BY <1>1, <1>2, <2>1, <2>2 DEF WorkMoves, ConnMoves, DeckTypeOK, server_vars, DeckInv, WorkInv
<1>4. Updated(c, NoCase, "pending")
  BY <1>1, <1>2, ServedTyped DEF Updated, DeckTypeOK
<1>5. /\ StoreGrows /\ cases' \in Nat /\ OwnAdditions(c, NoCase)
  BY <1>1, <1>2, StoreStays
<1> HIDE DEF part
<1>6. /\ journal' \in Seq(Part) /\ Extends(journal, journal')
      /\ Len(journal') = Len(journal) + 1 /\ journal'[Len(journal) + 1] = part
      /\ \A k \in DOMAIN journal' : k \in DOMAIN journal \/ k = Len(journal) + 1
      /\ Len(journal) \in Nat /\ DOMAIN journal = 1 .. Len(journal)
  BY <1>1, <1>2, AppendExtends, SeqElements
<1>7. ServedInv'
  <2>1. Extends(command_history, command_history')
    BY <1>1 DEF Extends
  <2> QED
    BY <1>1, <1>2, <1>4, <1>5, <1>6, <2>1, ServedStep DEF Outcomes
<1>8. HistoryInv'
  BY <1>1, <1>2, <1>4, HistoryStep
<1>9. /\ part = [by |-> No(c), part |-> "head"] /\ c # NoClient
      /\ No(c)' = No(c) /\ RequestOf(c)' = RequestOf(c)
      /\ work'[c].step = "append" /\ conn'[c] = "serving"
  BY <1>1, <1>2, <1>3, DeckAssumption DEF part, No, RequestOf, WorkMoves, ConnMoves
<1>10. WorkInv'
  <2>1. HandlerOK(c)'
    BY <1>1, <1>2, <1>6, <1>9 DEF HandlerOK
  <2>2. ASSUME NEW d \in Clients, d # c, Busy(d)'
        PROVE  HandlerOK(d)'
    <3>1. HandlerOK(d) /\ work[d].step # "append"
      BY <1>1, LockHolder, DeckAssumption DEF DeckInv, WorkInv
    <3>2. Console(No(d))' <=> Console(No(d))
      BY <1>2, <1>3, <1>4, <2>2, OthersStay DEF Console, RequestOf
    <3> QED
      BY <1>2, <1>3, <1>4, <2>2, <3>1, <3>2, OthersStay DEF HandlerOK
  <2>3. \A d \in Clients : HandlerOK(d)'
    BY <2>1, <2>2 DEF HandlerOK
  <2>4. OwnRequests'
    <3>1. ASSUME NEW d \in Clients \ {c}, Busy(d)'
          PROVE  Busy(d) /\ No(d)' = No(d) /\ No(d) # No(c)
      BY <1>2, <1>3, <1>4, <3>1, OthersStay
    <3> QED
      BY <1>9, <3>1 DEF OwnRequests, DeckInv, WorkInv
  <2> QED
    BY <1>1, <1>3, <1>9, <2>3, <2>4 DEF WorkInv, ConnMoves
<1>11. JournalInv'
  <2>1. ASSUME NEW k \in DOMAIN journal PROVE PartOK(k)'
    <3>1. PartOK(k)
      BY DEF DeckInv, JournalInv
    <3>2. k \in Nat /\ (k > 1 => k - 1 \in DOMAIN journal) /\ (k < Len(journal) => k + 1 \in DOMAIN journal)
      BY <1>6
    <3>3. PICK j : j = journal[k].by
      OBVIOUS
    <3>4. /\ journal'[k] = journal[k] /\ j \in DOMAIN served' /\ served'[j] = served[j]
          /\ served[j].request.op = "report"
      BY <1>1, <1>6, <3>1, <3>3 DEF PartOK, Extends
    <3>5. journal[k].part = "rest" =>
            k > 1 /\ journal'[k - 1] = [by |-> j, part |-> "head"]
      BY <1>6, <3>1, <3>2, <3>3 DEF PartOK, Extends
    <3>6. journal[k].part = "head" =>
            \/ served[j].outcome = "fault"
            \/ k < Len(journal') /\ journal'[k + 1].part = "rest"
      BY <1>1, <1>6, <3>1, <3>2, <3>3 DEF PartOK, Extends
    <3> QED
      BY <3>3, <3>4, <3>5, <3>6 DEF PartOK
  <2>2. ASSUME NEW k, k = Len(journal) + 1 PROVE PartOK(k)'
    <3>1. PICK i : i = No(c)
      OBVIOUS
    <3>2. /\ No(journal_lock)' = i /\ journal_lock' # NoClient /\ i \in DOMAIN served'
          /\ served'[i].request.op = "report"
          /\ journal'[k] = [by |-> i, part |-> "head"] /\ k = Len(journal')
      BY <1>1, <1>2, <1>6, <1>9, <2>2, <3>1 DEF No, RequestOf
    <3> QED
      BY <3>2 DEF PartOK
  <2> QED
    BY <1>6, <2>1, <2>2 DEF JournalInv
<1>12. DeckTypeOK'
  BY <1>1, <1>2, <1>3, <1>6 DEF DeckTypeOK, WorkMoves, store_vars
<1>13. ClaimsFiled'
  BY <1>1, <1>2, <1>5, ClaimsStay DEF StoreGrows, DeckTypeOK, store_vars
<1> QED
  BY <1>7, <1>8, <1>10, <1>11, <1>12, <1>13 DEF DeckInv

LEMMA EndReportStep == ASSUME DeckInv, NEW c \in Clients, EndReport(c) PROVE DeckInv'
<1> DEFINE part == [by |-> No(c), part |-> "rest"]
           o == IF RequestOf(c).odd THEN "refused" ELSE "ok"
<1>1. /\ work[c].step = "append" /\ journal' = Append(journal, part) /\ journal_lock' = NoClient
      /\ Finish(c) /\ served' = [served EXCEPT ![No(c)].outcome = o]
      /\ work' = [work EXCEPT ![c] = Idle]
      /\ UNCHANGED <<store_vars, command_history>>
  BY DEF EndReport, Settle
<1>0. /\ o \in Outcomes /\ o \in {"ok", "refused"}
      /\ o = "refused" => RequestOf(c).odd
  BY DEF Outcomes
<1> HIDE DEF o
<1>2. /\ DeckTypeOK /\ Busy(c) /\ No(c) \in DOMAIN served
      /\ served[No(c)].outcome = "pending" /\ RequestOf(c).op = "report" /\ journal_lock = c
      /\ Len(journal) > 0 /\ journal[Len(journal)] = [by |-> No(c), part |-> "head"]
      /\ served[No(c)].request \in Requests
      /\ No(c) \in Nat /\ part \in Part /\ journal \in Seq(Part)
  BY <1>1, WorkTyped, ServedTyped DEF DeckInv, WorkInv, HandlerOK, Busy, Part, DeckTypeOK
<1>3. ~Console(No(c)) /\ RequestOf(c).op \notin Changing /\ served[No(c)].case = NoCase
  <2>1. RequestOf(c) \in Requests
    BY <1>2 DEF RequestOf
  <2>2. RequestOf(c).op \notin ConsoleOps \cup Changing
    BY <1>2 DEF ConsoleOps, Changing, Rows
  <2>3. ~Console(No(c))
    BY <2>1, <2>2, DeckAssumption DEF Console, RequestOf
  <2>4. ChangeBacked(No(c))
    BY <1>2 DEF DeckInv, ServedInv, Backed
  <2> QED
    BY <2>2, <2>3, <2>4 DEF ChangeBacked, RequestOf
<1>4. Updated(c, NoCase, o) /\ WorkMoves(c, "idle") /\ ConnMoves(c, "idle")
  <2>1. PICK case : case = served[No(c)].case
    OBVIOUS
  <2>2. Updated(c, case, o) /\ WorkMoves(c, "idle") /\ ConnMoves(c, "idle")
    BY <1>0, <1>1, <1>2, <2>1, SettleMoves
  <2> QED
    BY <1>3, <2>1, <2>2
<1>5. /\ StoreGrows /\ cases' \in Nat /\ OwnAdditions(c, NoCase)
  BY <1>1, <1>2, StoreStays
<1> HIDE DEF part
<1>6. /\ journal' \in Seq(Part) /\ Extends(journal, journal')
      /\ Len(journal') = Len(journal) + 1 /\ journal'[Len(journal) + 1] = part
      /\ \A k \in DOMAIN journal' : k \in DOMAIN journal \/ k = Len(journal) + 1
      /\ Len(journal) \in Nat /\ DOMAIN journal = 1 .. Len(journal)
  BY <1>1, <1>2, AppendExtends, SeqElements
<1>7. PICK i : i = No(c)
  OBVIOUS
<1>8. /\ part = [by |-> i, part |-> "rest"] /\ Len(journal) \in DOMAIN journal
      /\ journal'[Len(journal)] = [by |-> i, part |-> "head"]
      /\ i \in DOMAIN served' /\ served'[i].request.op = "report"
  BY <1>2, <1>4, <1>6, <1>7 DEF part, Extends, Updated, RequestOf
<1>9. Len(journal) \in Lines(i)'
  BY <1>6, <1>8 DEF Lines
<1>10. ServedInv'
  <2>1. Extends(command_history, command_history')
    BY <1>1 DEF Extends
  <2>2. \A j : j = No(c) => Lines(j)' # {}
    BY <1>7, <1>9
  <2>3. o # "no_such_case"
    BY <1>0
  <2> QED
    BY <1>0, <1>2, <1>3, <1>4, <1>5, <1>6, <2>1, <2>2, <2>3, ServedStep
<1>11. HistoryInv'
  BY <1>1, <1>2, <1>4, HistoryStep
<1>12. WorkInv'
  <2>1. ASSUME NEW d \in Clients, Busy(d)'
        PROVE  HandlerOK(d)'
    <3>1. d # c
      BY <1>4, <2>1 DEF Busy, WorkMoves
    <3>2. HandlerOK(d) /\ work[d].step # "append"
      BY <1>2, <3>1, LockHolder DEF DeckInv, WorkInv
    <3>3. Console(No(d))' <=> Console(No(d))
      BY <1>2, <1>4, <2>1, <3>1, OthersStay DEF Console, RequestOf
    <3> QED
      BY <1>2, <1>4, <2>1, <3>1, <3>2, <3>3, OthersStay DEF HandlerOK
  <2>2. \A d \in Clients : HandlerOK(d)'
    BY <2>1 DEF HandlerOK
  <2>3. \A d \in Clients : Busy(d)' => d # c
    BY <1>4 DEF Busy, WorkMoves
  <2>4. OwnRequests'
    BY <1>2, <1>4, <2>3, OthersStay DEF OwnRequests, DeckInv, WorkInv
  <2> QED
    BY <1>1, <1>4, <2>2, <2>4 DEF WorkInv, ConnMoves
<1>13. JournalInv'
  <2>1. ASSUME NEW k \in DOMAIN journal PROVE PartOK(k)'
    <3>1. PartOK(k)
      BY DEF DeckInv, JournalInv
    <3>2. k \in Nat /\ (k > 1 => k - 1 \in DOMAIN journal)
          /\ (k < Len(journal) => k + 1 \in DOMAIN journal) /\ k <= Len(journal)
      BY <1>6
    <3>3. PICK j : j = journal[k].by
      OBVIOUS
    <3>4. /\ j \in DOMAIN served' /\ served'[j].request.op = "report"
          /\ served[j].outcome = "fault" => served'[j].outcome = "fault"
      BY <1>2, <1>4, <3>1, <3>3 DEF PartOK, Updated
    <3>5. k = Len(journal) => journal'[k + 1].part = "rest" /\ k < Len(journal')
      BY <1>6, <1>8
    <3> QED
      BY <1>6, <3>1, <3>2, <3>3, <3>4, <3>5 DEF PartOK, Extends
  <2>2. ASSUME NEW k, k = Len(journal) + 1 PROVE PartOK(k)'
    BY <1>2, <1>6, <1>8, <2>2 DEF PartOK
  <2> QED
    BY <1>6, <2>1, <2>2 DEF JournalInv
<1>14. DeckTypeOK'
  BY <1>1, <1>2, <1>4, <1>6 DEF DeckTypeOK, WorkMoves, Updated, store_vars
<1>15. ClaimsFiled'
  BY <1>1, <1>2, <1>5, ClaimsStay DEF StoreGrows, DeckTypeOK, store_vars
<1> QED
  BY <1>10, <1>11, <1>12, <1>13, <1>14, <1>15 DEF DeckInv

LEMMA WorkFailsStep == ASSUME DeckInv, NEW c \in Clients, WorkFails(c) PROVE DeckInv'
<1>1. /\ Busy(c) /\ Fail(c) /\ served' = [served EXCEPT ![No(c)].outcome = "fault"]
      /\ journal_lock' = IF journal_lock = c THEN NoClient ELSE journal_lock
      /\ work' = [work EXCEPT ![c] = Idle]
      /\ UNCHANGED <<store_vars, journal, command_history>>
  BY DEF WorkFails, Busy
<1>2. /\ DeckTypeOK /\ No(c) \in DOMAIN served /\ served[No(c)].outcome = "pending"
      /\ work[c].step \in {"execute", "record", "append"}
      /\ journal \in Seq(Part)
  BY <1>1, WorkTyped DEF DeckInv, WorkInv, HandlerOK, Busy, DeckTypeOK, Job
<1>3. CASE work[c].step # "append"
  <2>1. journal_lock' = journal_lock
    BY <1>1, <1>3, LockHolder
  <2> QED
    BY <1>1, <1>2, <1>3, <2>1, AnswerStep DEF file_vars
<1>4. CASE work[c].step = "append"
  <2>1. /\ RequestOf(c).op = "report" /\ journal_lock = c /\ journal_lock' = NoClient
        /\ journal[Len(journal)] = [by |-> No(c), part |-> "head"]
    BY <1>1, <1>2, <1>4 DEF DeckInv, WorkInv, HandlerOK
  <2>2. served[No(c)].case = NoCase
    BY <1>2, <2>1 DEF DeckInv, ServedInv, Backed, ChangeBacked, RequestOf, Changing, Rows
  <2>3. Updated(c, NoCase, "fault") /\ WorkMoves(c, "idle") /\ ConnMoves(c, "idle")
    BY <1>1, <1>2, <2>2, SettleMoves DEF Outcomes
  <2>4. /\ StoreGrows /\ cases' \in Nat /\ OwnAdditions(c, NoCase)
    BY <1>1, <1>2, StoreStays
  <2>5. /\ journal' \in Seq(Part) /\ Extends(journal, journal')
        /\ Extends(command_history, command_history') /\ "fault" \in Outcomes
    BY <1>1, <1>2 DEF Extends, Outcomes
  <2>6. ServedInv'
    BY <1>1, <1>2, <2>2, <2>3, <2>4, <2>5, ServedStep
  <2>7. HistoryInv'
    BY <1>1, <2>3, HistoryStep
  <2>8. WorkInv'
    <3>1. ASSUME NEW d \in Clients, Busy(d)'
          PROVE  HandlerOK(d)' /\ d # c
      <4>1. d # c
        BY <2>3, <3>1 DEF Busy, WorkMoves
      <4>2. HandlerOK(d) /\ work[d].step # "append"
        BY <2>1, <4>1, LockHolder DEF DeckInv, WorkInv
      <4>3. Console(No(d))' <=> Console(No(d))
        BY <1>1, <2>3, <3>1, <4>1, OthersStay DEF Console, RequestOf
      <4> QED
        BY <1>1, <2>3, <3>1, <4>1, <4>2, <4>3, OthersStay DEF HandlerOK
    <3>2. \A d \in Clients : HandlerOK(d)'
      BY <3>1 DEF HandlerOK
    <3>3. OwnRequests'
      BY <1>1, <2>3, <3>1, OthersStay DEF OwnRequests, DeckInv, WorkInv
    <3> QED
      BY <2>1, <2>3, <3>2, <3>3 DEF WorkInv, ConnMoves
  <2>9. JournalInv'
    <3>1. SUFFICES ASSUME NEW k \in DOMAIN journal PROVE PartOK(k)'
      BY <1>1 DEF JournalInv
    <3>2. PartOK(k)
      BY DEF DeckInv, JournalInv
    <3>3. PICK j : j = journal[k].by
      OBVIOUS
    <3>4. /\ j \in DOMAIN served' /\ served'[j].request.op = "report"
          /\ served[j].outcome = "fault" => served'[j].outcome = "fault"
      BY <2>3, <3>2, <3>3 DEF PartOK, Updated
    <3>5. k = Len(journal) => served'[j].outcome = "fault"
      BY <1>2, <2>1, <2>3, <3>3 DEF Updated
    <3> QED
      BY <1>1, <3>2, <3>3, <3>4, <3>5 DEF PartOK
  <2>10. DeckTypeOK'
    BY <1>1, <1>2, <2>1, <2>3 DEF DeckTypeOK, WorkMoves, Updated, store_vars
  <2>11. ClaimsFiled'
    BY <1>1, <1>2, <2>4, ClaimsStay DEF StoreGrows, DeckTypeOK, store_vars
  <2> QED
    BY <2>6, <2>7, <2>8, <2>9, <2>10, <2>11 DEF DeckInv
<1> QED
  BY <1>2, <1>3, <1>4

\* A request that is pending is neither filed nor explained: the crash, which
\* turns it into a fault, takes nothing away.
LEMMA CrashStep == ASSUME DeckInv, Crash PROVE DeckInv'
<1>1. /\ conn' = [c \in Clients |-> "away"]
      /\ served' = [i \in DOMAIN served |->
                      IF served[i].outcome = "pending"
                      THEN [served[i] EXCEPT !.outcome = "fault"] ELSE served[i]]
      /\ journal_lock' = NoClient /\ work' = [c \in Clients |-> Idle]
      /\ UNCHANGED <<store_vars, journal, command_history>> /\ DeckTypeOK
  BY DEF Crash, Restart, DeckInv
<1>2. /\ served' \in Seq(ServedRequest) /\ DOMAIN served' = DOMAIN served
      /\ \A i \in DOMAIN served :
           /\ served'[i].request = served[i].request /\ served'[i].case = served[i].case
           /\ served'[i].outcome =
                IF served[i].outcome = "pending" THEN "fault" ELSE served[i].outcome
  <2>1. \A i \in DOMAIN served : served'[i] \in ServedRequest
    BY <1>1, ServedTyped DEF ServedRequest, Outcomes
  <2>2. DOMAIN served' = 1 .. Len(served) /\ Len(served) \in Nat
    BY <1>1, ServedTyped
  <2>3. served' \in Seq(ServedRequest)
    BY <1>1, <2>1, <2>2, SeqDef
  <2> QED
    BY <1>1, <2>3, ServedTyped DEF ServedRequest
<1>3. UNCHANGED <<cases, rows, identity_claims, processing_jobs>>
  BY <1>1 DEF store_vars
<1>4. ASSUME NEW i \in DOMAIN served PROVE Backed(i)'
  <2>1. ChangeBacked(i) /\ DoneBacked(i) /\ FailureExplained(i) /\ ReportBacked(i)
    BY DEF DeckInv, ServedInv, Backed
  <2>2. /\ Lines(i)' = Lines(i) /\ (Console(i)' <=> Console(i))
        /\ Exists(served[i].case)' <=> Exists(served'[i].case)
    BY <1>1, <1>2, <1>3 DEF Lines, Console, Exists
  <2>3. ChangeBacked(i)'
    BY <1>2, <1>3, <2>1 DEF ChangeBacked, Kept, Target, Exists
  <2>4. DoneBacked(i)'
    BY <1>1, <1>2, <2>1, <2>2 DEF DoneBacked
  <2>5. FailureExplained(i)'
    BY <1>2, <2>1 DEF FailureExplained
  <2>6. ReportBacked(i)'
    BY <1>2, <2>1, <2>2 DEF ReportBacked
  <2> QED
    BY <2>3, <2>4, <2>5, <2>6 DEF Backed
<1>5. ServedInv'
  <2>1. \A i : Changed(i) => Changed(i)'
    BY <1>2 DEF Changed
  <2>2. AuthorsKnown'
    BY <1>3, <2>1 DEF AuthorsKnown, ServedInv, DeckInv
  <2> QED
    BY <1>2, <1>4, <2>2 DEF ServedInv
<1>6. HistoryInv'
  <2>1. ASSUME NEW n \in DOMAIN command_history PROVE EntryOK(n)'
    <3>1. PICK i : i = command_history[n].by
      OBVIOUS
    <3>2. /\ i \in DOMAIN served /\ served[i].outcome = "ok" /\ Console(i)
          /\ command_history[n].case = HistoryCase(i)
      BY <3>1 DEF DeckInv, HistoryInv, EntryOK
    <3>3. HistoryCase(i)' = HistoryCase(i) /\ Console(i)'
      BY <1>2, <3>2 DEF HistoryCase, Console
    <3> QED
      BY <1>1, <1>2, <3>1, <3>2, <3>3 DEF EntryOK
  <2> QED
    BY <1>1, <2>1 DEF HistoryInv, DeckInv
<1>7. \A c \in Clients : ~Busy(c)'
  BY <1>1 DEF Busy, Idle
<1>8. WorkInv'
  BY <1>1, <1>7 DEF WorkInv, HandlerOK, OwnRequests, ConnStates
<1>9. JournalInv'
  <2>1. SUFFICES ASSUME NEW k \in DOMAIN journal PROVE PartOK(k)'
    BY <1>1 DEF JournalInv
  <2>2. PartOK(k)
    BY DEF DeckInv, JournalInv
  <2>3. PICK j : j = journal[k].by
    OBVIOUS
  <2>4. k = Len(journal) /\ journal_lock # NoClient /\ No(journal_lock) = j
          => served[j].outcome = "pending"
    BY DEF DeckInv, WorkInv, HandlerOK, Busy
  <2> QED
    BY <1>1, <1>2, <2>2, <2>3, <2>4 DEF PartOK
<1>10. DeckTypeOK'
  BY <1>1, <1>2, <1>3 DEF DeckTypeOK, Idle, Job
<1>11. ClaimsFiled'
  BY <1>1, <1>3, ClaimsStay DEF DeckTypeOK
<1> QED
  BY <1>5, <1>6, <1>8, <1>9, <1>10, <1>11 DEF DeckInv

\* A request is delivered: nothing is known of it yet.
LEMMA SubmitStep == ASSUME DeckInv, NEW c \in Clients, Submit(c) PROVE DeckInv'
<1>1. PICK r \in Requests :
        served' = Append(served, [request |-> r, case |-> NoCase, outcome |-> "pending"])
  BY DEF Submit
<1> DEFINE new == [request |-> r, case |-> NoCase, outcome |-> "pending"]
<1>2. /\ conn[c] = "reading" /\ conn' = [conn EXCEPT ![c] = "serving"]
      /\ work' = [work EXCEPT ![c] = [no |-> Len(served) + 1, step |-> "execute"]]
      /\ UNCHANGED <<store_vars, file_vars, command_history>> /\ DeckTypeOK
      /\ new \in ServedRequest /\ served \in Seq(ServedRequest) /\ ~Busy(c)
  BY DEF Submit, Deliver, Moves, DeckInv, WorkInv, HandlerOK, DeckTypeOK, ServedRequest, Outcomes
<1> HIDE DEF new
<1>3. /\ served' \in Seq(ServedRequest) /\ Extends(served, served')
      /\ Len(served) + 1 \in DOMAIN served' /\ served'[Len(served) + 1] = new
      /\ \A i \in DOMAIN served' : i \in DOMAIN served \/ i = Len(served) + 1
      /\ Len(served) \in Nat /\ DOMAIN served = 1 .. Len(served)
      /\ Len(served) + 1 \notin DOMAIN served
  <2>1. served' = Append(served, new)
    BY <1>1 DEF new
  <2> QED
    BY <1>2, <2>1, AppendExtends, SeqElements
<1>4. UNCHANGED <<cases, rows, identity_claims, processing_jobs, command_history, journal, journal_lock>>
  BY <1>2 DEF store_vars, file_vars
<1>5. ASSUME NEW i \in DOMAIN served PROVE Backed(i)'
  <2>1. /\ ChangeBacked(i) /\ DoneBacked(i) /\ FailureExplained(i) /\ ReportBacked(i)
        /\ served'[i] = served[i]
    BY <1>3 DEF DeckInv, ServedInv, Backed, Extends
  <2>2. /\ Lines(i)' = Lines(i) /\ (Console(i)' <=> Console(i))
    BY <1>4, <2>1 DEF Lines, Console
  <2>3. ChangeBacked(i)'
    BY <1>4, <2>1 DEF ChangeBacked, Kept, Target, Exists
  <2>4. DoneBacked(i)'
    BY <1>4, <2>1, <2>2 DEF DoneBacked
  <2>5. FailureExplained(i)'
    BY <2>1 DEF FailureExplained
  <2>6. ReportBacked(i)'
    BY <2>1, <2>2 DEF ReportBacked
  <2> QED
    BY <2>3, <2>4, <2>5, <2>6 DEF Backed
<1>6. ASSUME NEW i, i = Len(served) + 1 PROVE Backed(i)'
  <2>1. served'[i].case = NoCase /\ served'[i].outcome = "pending"
    BY <1>3, <1>6 DEF new
  <2> QED
    BY <2>1 DEF Backed, ChangeBacked, DoneBacked, FailureExplained, ReportBacked
<1>7. ServedInv'
  <2>1. \A i : Changed(i) => Changed(i)'
    BY <1>3 DEF Changed, Extends
  <2>2. AuthorsKnown'
    BY <1>4, <2>1 DEF AuthorsKnown, ServedInv, DeckInv
  <2> QED
    BY <1>3, <1>5, <1>6, <2>2 DEF ServedInv
<1>8. HistoryInv'
  <2>1. ASSUME NEW n \in DOMAIN command_history PROVE EntryOK(n)'
    <3>1. PICK i : i = command_history[n].by
      OBVIOUS
    <3>2. /\ i \in DOMAIN served /\ served[i].outcome = "ok" /\ Console(i)
          /\ command_history[n].case = HistoryCase(i)
      BY <3>1 DEF DeckInv, HistoryInv, EntryOK
    <3>3. served'[i] = served[i] /\ i \in DOMAIN served'
      BY <1>3, <3>2 DEF Extends
    <3>4. HistoryCase(i)' = HistoryCase(i) /\ Console(i)'
      BY <3>2, <3>3 DEF HistoryCase, Console
    <3> QED
      BY <1>4, <3>1, <3>2, <3>3, <3>4 DEF EntryOK
  <2> QED
    BY <1>4, <2>1 DEF HistoryInv, DeckInv
<1>9. /\ No(c)' = Len(served) + 1 /\ work'[c].step = "execute" /\ conn'[c] = "serving"
      /\ \A d \in Clients \ {c} :
           work'[d] = work[d] /\ No(d)' = No(d) /\ conn'[d] = conn[d]
  BY <1>2 DEF No, DeckTypeOK, DeckInv, WorkInv
<1>10. WorkInv'
  <2>1. HandlerOK(c)'
    BY <1>3, <1>9 DEF HandlerOK, new
  <2>2. ASSUME NEW d \in Clients, d # c PROVE HandlerOK(d)'
    <3>1. HandlerOK(d)
      BY DEF DeckInv, WorkInv
    <3>2. Busy(d) => /\ served'[No(d)] = served[No(d)] /\ No(d) \in DOMAIN served'
      BY <1>3, <3>1 DEF HandlerOK, Extends
    <3>3. Busy(d) => (Console(No(d))' <=> Console(No(d))) /\ RequestOf(d)' = RequestOf(d)
      BY <1>9, <2>2, <3>2 DEF Console, RequestOf
    <3> QED
      BY <1>4, <1>9, <2>2, <3>1, <3>2, <3>3 DEF HandlerOK, Busy
  <2>3. OwnRequests'
    <3>1. \A d \in Clients \ {c} : Busy(d)' => Busy(d) /\ No(d) \in DOMAIN served
      BY <1>9 DEF Busy, DeckInv, WorkInv, HandlerOK
    <3> QED
      BY <1>3, <1>9, <3>1 DEF OwnRequests, DeckInv, WorkInv
  <2>4. journal_lock # NoClient => journal_lock \in Clients \ {c}
    BY <1>2, LockHolder DEF Busy
  <2>5. conn' \in [Clients -> ConnStates]
    BY <1>2 DEF DeckInv, WorkInv, ConnStates, HoldingStates
  <2> QED
    BY <1>4, <1>9, <2>1, <2>2, <2>3, <2>4, <2>5 DEF WorkInv, DeckInv
<1>11. JournalInv'
  <2>1. SUFFICES ASSUME NEW k \in DOMAIN journal PROVE PartOK(k)'
    BY <1>4 DEF JournalInv
  <2>2. PartOK(k)
    BY DEF DeckInv, JournalInv
  <2>3. PICK j : j = journal[k].by
    OBVIOUS
  <2>4. j \in DOMAIN served' /\ served'[j] = served[j]
    BY <1>3, <2>2, <2>3 DEF PartOK, Extends
  <2>5. journal_lock # NoClient => No(journal_lock)' = No(journal_lock)
    BY <1>2, <1>4, <1>9, LockHolder DEF Busy, No
  <2> QED
    BY <1>4, <2>2, <2>3, <2>4, <2>5 DEF PartOK
<1>12. DeckTypeOK'
  BY <1>2, <1>3, <1>4 DEF DeckTypeOK, Job
<1>13. ClaimsFiled'
  BY <1>4, <1>2, ClaimsStay DEF DeckTypeOK
<1> QED
  BY <1>7, <1>8, <1>10, <1>11, <1>12, <1>13 DEF DeckInv

\* What a connection does outside its handler.
LEMMA ConnectionStep == ASSUME DeckInv, NEW c \in Clients, Connection(c) PROVE DeckInv'
<1>1. /\ conn[c] # "serving" /\ conn' \in [Clients -> ConnStates]
      /\ \A d \in Clients \ {c} : conn'[d] = conn[d]
      /\ UNCHANGED <<store_vars, file_vars, command_history, work, served>>
  BY DEF Connection, Accept, Refuse, HangUp, Launch, LaunchFails, Dismiss, Release, Moves,
         DeckInv, WorkInv, ConnStates, HoldingStates
<1>2. /\ UNCHANGED <<cases, rows, identity_claims, processing_jobs, command_history>>
      /\ UNCHANGED <<journal, journal_lock, work, served>>
  BY <1>1 DEF store_vars, file_vars
<1>3. WorkInv'
  BY <1>1, <1>2 DEF DeckInv, WorkInv, HandlerOK, OwnRequests, Busy, No, RequestOf, Console
<1>4. ServedInv'
  BY <1>2 DEF DeckInv, ServedInv, Backed, AuthorsKnown, Changed, ChangeBacked, DoneBacked,
              FailureExplained, ReportBacked, Kept, Lines, Exists, Target, Console
<1>5. HistoryInv' /\ JournalInv'
  BY <1>2 DEF DeckInv, HistoryInv, EntryOK, JournalInv, PartOK, HistoryCase, Console, No
<1>6. DeckTypeOK' /\ ClaimsFiled'
  BY <1>2 DEF DeckInv, DeckTypeOK, ClaimsFiled, Exists
<1> QED
  BY <1>3, <1>4, <1>5, <1>6 DEF DeckInv

-----------------------------------------------------------------------------
(* The invariant and what it gives                                          *)

LEMMA DeckInitially == DeckInit => DeckInv
<1> SUFFICES ASSUME DeckInit PROVE DeckInv
  OBVIOUS
<1>1. /\ served = <<>> /\ rows = {} /\ command_history = <<>> /\ journal = <<>>
      /\ processing_jobs = <<>> /\ journal_lock = NoClient /\ cases = 1
      /\ work = [c \in Clients |-> Idle] /\ conn = [c \in Clients |-> "away"]
      /\ identity_claims = [n \in 1 .. StoredClaims |->
                              [case |-> 1, state |-> "unverified", by |-> 0]]
      /\ StoredClaims \in Nat /\ NoCase \notin Nat
  BY DeckAssumption DEF DeckInit, ServerInit, FirstCase
<1>2. identity_claims \in Seq(Claim)
  BY <1>1, SeqDef DEF Claim
<1>3. DeckTypeOK
  BY <1>1, <1>2 DEF DeckTypeOK, Idle, Job
<1>4. ClaimsFiled
  BY <1>1 DEF ClaimsFiled, Exists, FirstCase
<1>5. WorkInv
  BY <1>1 DEF WorkInv, HandlerOK, OwnRequests, Busy, Idle, ConnStates
<1>6. ServedInv /\ HistoryInv /\ JournalInv
  BY <1>1 DEF ServedInv, AuthorsKnown, HistoryInv, JournalInv
<1> QED
  BY <1>3, <1>4, <1>5, <1>6 DEF DeckInv

LEMMA DeckStep == DeckInv /\ [DeckNext]_deck_vars => DeckInv'
<1> SUFFICES ASSUME DeckInv, [DeckNext]_deck_vars PROVE DeckInv'
  OBVIOUS
<1>1. ASSUME NEW c \in Clients, Connection(c) \/ Submit(c) \/ WorkFails(c) PROVE DeckInv'
  BY <1>1, ConnectionStep, SubmitStep, WorkFailsStep
<1>2. ASSUME NEW c \in Clients, Work(c) PROVE DeckInv'
  <2>1. CASE RefuseRequest(c) \/ Read(c) \/ CreateCase(c) \/ AddRow(c) \/ AddClaim(c)
    BY <2>1, RefuseStep, ReadStep, CreateCaseStep, AddRowStep, AddClaimStep
  <2>2. CASE Judge(c) \/ Weigh(c) \/ Record(c) \/ RecordRejected(c) \/ RecordRefused(c)
    BY <2>2, JudgeStep, WeighStep, RecordStep, RecordRejectedStep, RecordRefusedStep
  <2>3. CASE BeginReport(c) \/ EndReport(c)
    BY <2>3, BeginReportStep, EndReportStep
  <2> QED
    BY <1>2, <2>1, <2>2, <2>3 DEF Work
<1>3. CASE Crash
  BY <1>3, CrashStep
<1>4. CASE UNCHANGED deck_vars
  <2>1. /\ UNCHANGED <<cases, rows, identity_claims, processing_jobs, command_history>>
        /\ UNCHANGED <<journal, journal_lock, work, served, conn>>
    BY <1>4 DEF deck_vars, store_vars, file_vars, server_vars
  <2>2. DeckTypeOK' /\ ClaimsFiled'
    BY <2>1 DEF DeckInv, DeckTypeOK, ClaimsFiled, Exists
  <2>3. WorkInv'
    BY <2>1 DEF DeckInv, WorkInv, HandlerOK, OwnRequests, Busy, No, RequestOf, Console
  <2>4. ServedInv'
    BY <2>1 DEF DeckInv, ServedInv, Backed, AuthorsKnown, Changed, ChangeBacked, DoneBacked,
                FailureExplained, ReportBacked, Kept, Lines, Exists, Target, Console
  <2>5. HistoryInv' /\ JournalInv'
    BY <2>1 DEF DeckInv, HistoryInv, EntryOK, JournalInv, PartOK, HistoryCase, Console, No
  <2> QED
    BY <2>2, <2>3, <2>4, <2>5 DEF DeckInv
<1> QED
  BY <1>1, <1>2, <1>3, <1>4 DEF DeckNext

LEMMA DeckInvariant == DeckSpec => []DeckInv
  BY DeckInitially, DeckStep, PTL DEF DeckSpec

\* Whatever the clients send and wherever a handler or the process fails: a
\* request answered as done is in the store and in the history; one answered
\* with 400 is in no history, and in the store not at all or, when its text
\* was odd, wholly.
THEOREM AnswersAreTruthful == DeckSpec => []AnswersTruthful
  BY DeckInvariant, InvAnswersTruthful, PTL

\* A change in no history met a fault, was typed with odd text, or was made on
\* a case other than the active one while the active one was not in the store.
THEOREM UnfiledAreExplained == DeckSpec => []UnfiledExplained
  BY DeckInvariant, InvUnfiledExplained, PTL

\* A plain command is filed under the case it changed.
THEOREM FiledAsChanged == DeckSpec => []FiledWhereChanged
  BY DeckInvariant, InvFiledWhereChanged, PTL

\* For any number of reporting handlers, a report that was answered has a line
\* of its own, whole, and behind a whole line or the torn one of a fault.
THEOREM ReportsStayReadable == DeckSpec => []ReportsReadable
  BY DeckInvariant, InvReportsReadable, PTL
=============================================================================
