------------------------------- MODULE CaseStore -------------------------------
(***************************************************************************)
(* repository.py: how observations enter the case store, one at a time,    *)
(* by import or as demo data, on several request threads, and what the     *)
(* three start-up transactions of Repository make of a store that an older *)
(* version, or a process that died, left behind.  The command-line tool    *)
(* SIF_EvidenceVault.py opens a Repository as well: it runs the same       *)
(* start-up in a process of its own, beside the server.                    *)
(*                                                                         *)
(* create_observation looks up its case and its actor before its first     *)
(* INSERT, outside any transaction; everything from that INSERT on is one  *)
(* transaction under SQLite's write lock, hence one step here.  Sources,   *)
(* tags, relationships, profile snapshots and timeline entries are rows of *)
(* that same transaction and are left out.  So too a start-up transaction: *)
(* a SELECT it begins with is a step before the one that writes.           *)
(***************************************************************************)
EXTENDS Integers, Sequences, FiniteSets

CONSTANTS
  Server,           \* the process that serves
  Clis,             \* processes of the command-line tool
  Threads,          \* request threads of the server
  Handles,          \* actors are UNIQUE(handle, platform)
  Items,            \* observation payloads
  HandleOf,         \* HandleOf[i]: the actor an item is about
  Mentions,         \* Mentions[i]: the other actors an item names
  Unsafe,           \* items refused before the database is read
  Malformed,        \* items whose bad field may come out in the transaction
  Payloads,         \* import payloads: sequences of items
  Samples,          \* the demo data, a sequence of items
  Legacies,         \* stores an older version may have left: the handles of
                    \* their observations, in order
  MaxCases,         \* bound: cases
  MaxObservations,  \* bound: observations
  MaxCommands       \* bound: commands that create observations

ASSUME StoreAssumption ==
  /\ Server \notin Clis
  /\ IsFiniteSet(Threads)
  /\ HandleOf \in [Items -> Handles]
  /\ Mentions \in [Items -> SUBSET Handles]
  /\ Unsafe \subseteq Items /\ Malformed \subseteq Items
  /\ Payloads \subseteq Seq(Items) /\ Samples \in Seq(Items)
  /\ Legacies \subseteq Seq(Handles)
  /\ MaxCases \in Nat \ {0} /\ MaxCommands \in Nat
  /\ MaxObservations \in Nat
  /\ \A legacy \in Legacies : Len(legacy) <= MaxObservations

VARIABLES
  cases,           \* number of rows of cases; ids are 1 .. cases
  actors,          \* risk_score of the rows of actors, by handle
  observations,    \* rows of observations
  links,           \* case_observations
  captured,        \* captured_content rows of evidence, per case and observation
  fingerprints,    \* observation ids of observation_fingerprints
  import_batches,  \* rows of import_batches
  phase,           \* of each process: what its start-up does next
  unprinted,       \* of each process: the observations it found without
                   \* fingerprint
  owing,           \* a start-up died between its places in the inbox and their
                   \* captured content, which none has written since
  exec,            \* the command each thread is executing
  commands,        \* number of commands begun
  broken           \* commands that a fault or a race for an actor ended

tables == <<cases, actors, observations, links, captured, fingerprints,
            import_batches>>
boot == <<phase, unprinted, owing>>
vars == <<tables, boot, exec, commands, broken>>

Processes == Clis \cup {Server}

Phases == {"off", "inbox", "create", "link", "evidence", "fingerprints",
           "insert", "serving"}

Serving == phase[Server] = "serving"

CaseIds == 1 .. MaxCases
ObservationIds == 1 .. MaxObservations

Kinds == {"single", "seed", "import"}

Observation == [actor : Handles, kind : Kinds \cup {"legacy"}, command : Nat]

Batch == [command : Nat, case_id : CaseIds, items : Nat, accepted : Nat,
          rejected : Nat]

(***************************************************************************)
(* A command: the case it names (0: none), the items it still has to       *)
(* create, what it has counted.  Its next write is "insert" when the       *)
(* lookup found no row for the observation's actor, else "append".         *)
(***************************************************************************)
Command == [step : {"idle", "lookup", "insert", "append", "batch"},
            kind : Kinds, command : Nat, case_id : CaseIds \cup {0},
            todo : Seq(Items), items : Nat, accepted : Nat, rejected : Nat]

Idle == [step |-> "idle", kind |-> "single", command |-> 0, case_id |-> 0,
         todo |-> << >>, items |-> 0, accepted |-> 0, rejected |-> 0]

\* A store of the first version has observations, actors and nothing else.
LegacyRows(legacy) ==
  /\ actors = [h \in {legacy[i] : i \in DOMAIN legacy} |->
                 {i \in DOMAIN legacy : legacy[i] = h}]
  /\ observations = [i \in 1 .. Len(legacy) |->
                       [actor |-> legacy[i], kind |-> "legacy", command |-> 0]]

Init ==
  /\ cases = 0
  /\ \E legacy \in Legacies : LegacyRows(legacy)
  /\ links = {}
  /\ captured = [p \in CaseIds \X ObservationIds |-> 0]
  /\ fingerprints = {}
  /\ import_batches = << >>
  /\ phase = [p \in Processes |-> IF p = Server THEN "inbox" ELSE "off"]
  /\ unprinted = [p \in Processes |-> {}]
  /\ owing = FALSE
  /\ exec = [t \in Threads |-> Idle]
  /\ commands = 0
  /\ broken = {}

-----------------------------------------------------------------------------
(* Repository.__init__: three transactions before a process goes to work *)

Enter(p, next) == phase' = [phase EXCEPT ![p] = next]

StartUp(p, at, next) ==
  /\ phase[p] = at
  /\ Enter(p, next)
  /\ UNCHANGED <<actors, observations, import_batches, exec, commands, broken>>

\* The tool does not touch these tables once it has started up.
Started(p) == IF p = Server THEN "serving" ELSE "off"

\* main of SIF_EvidenceVault.py.
CliStart(p) ==
  /\ p \in Clis
  /\ StartUp(p, "off", "inbox")
  /\ UNCHANGED <<tables, unprinted, owing>>

\* _ensure_default_case looks for the lowest case before its transaction.
FindCase(p) ==
  /\ StartUp(p, "inbox", IF cases = 0 THEN "create" ELSE "link")
  /\ UNCHANGED <<tables, unprinted, owing>>

\* It gives every observation to that case, or to one it creates because it
\* found none, though another process may have created one since.
EnsureDefaultCase(p) ==
  \E inbox \in CaseIds :
    /\ \/ StartUp(p, "link", "evidence") /\ inbox = 1 /\ cases' = cases
       \/ StartUp(p, "create", "evidence") /\ inbox = cases + 1 /\ cases' = inbox
    /\ links' = links \cup ({inbox} \X DOMAIN observations)
    /\ UNCHANGED <<captured, fingerprints, unprinted, owing>>

\* Mutant of BackfillEvidence: every link gets a row, whether it has one or not.
BackfillEveryLink(p) ==
  /\ StartUp(p, "evidence", "fingerprints")
  /\ captured' = [q \in DOMAIN captured |->
                    IF q \in links THEN captured[q] + 1 ELSE captured[q]]
  /\ owing' = FALSE
  /\ UNCHANGED <<cases, links, fingerprints, unprinted>>

\* _backfill_legacy_evidence, for links that have no captured content,
\* whichever process made them.
BackfillEvidence(p) ==
  /\ StartUp(p, "evidence", "fingerprints")
  /\ captured' = [q \in DOMAIN captured |->
                    IF q \in links /\ captured[q] = 0 THEN 1 ELSE captured[q]]
  /\ owing' = FALSE
  /\ UNCHANGED <<cases, links, fingerprints, unprinted>>

\* _backfill_legacy_fingerprints reads what has no fingerprint ...
FindFingerprints(p) ==
  LET missing == DOMAIN observations \ fingerprints
  IN  /\ StartUp(p, "fingerprints", IF missing = {} THEN Started(p) ELSE "insert")
      /\ unprinted' = [unprinted EXCEPT ![p] = missing]
      /\ UNCHANGED <<cases, links, captured, fingerprints, owing>>

\* ... and inserts one for each.  If another process has inserted one of them
\* since, its primary key is taken and this process can only stop.
BackfillFingerprints(p) ==
  /\ StartUp(p, "insert", Started(p))
  /\ unprinted[p] \cap fingerprints = {}
  /\ fingerprints' = fingerprints \cup unprinted[p]
  /\ unprinted' = [unprinted EXCEPT ![p] = {}]
  /\ UNCHANGED <<cases, links, captured, owing>>

\* A process stops, at rest or in the middle of anything.
Stop(p) ==
  /\ unprinted' = [unprinted EXCEPT ![p] = {}]
  /\ owing' = (owing \/ phase[p] = "evidence")
  /\ UNCHANGED <<tables, commands>>

CliStop(p) ==
  /\ p \in Clis /\ phase[p] # "off"
  /\ Enter(p, "off")
  /\ Stop(p)
  /\ UNCHANGED <<exec, broken>>

\* The server stops, with the commands it executes, and starts again.
Restart ==
  /\ Enter(Server, "inbox")
  /\ Stop(Server)
  /\ exec' = [t \in Threads |-> Idle]
  /\ broken' = broken \cup {exec[t].command : t \in {u \in Threads : exec[u] # Idle}}

-----------------------------------------------------------------------------
(* Commands *)

Continue(t, next) == exec' = [exec EXCEPT ![t] = next]

CreateCase ==
  /\ Serving
  /\ cases < MaxCases
  /\ cases' = cases + 1
  /\ UNCHANGED <<actors, observations, links, captured, fingerprints,
                 import_batches, boot, exec, commands, broken>>

Begin(t, kind, case, items) ==
  /\ Serving
  /\ exec[t] = Idle
  /\ commands < MaxCommands
  /\ commands' = commands + 1
  /\ Continue(t, [step |-> IF items = << >> THEN "batch" ELSE "lookup",
                   kind |-> kind, command |-> commands + 1, case_id |-> case,
                   todo |-> items, items |-> Len(items), accepted |-> 0,
                   rejected |-> 0])
  /\ UNCHANGED <<tables, boot, broken>>

BeginCreate(t) ==
  \E case \in CaseIds \cup {0}, i \in Items : Begin(t, "single", case, <<i>>)

\* The preview of the payload refuses items where Reject does.
BeginImport(t) ==
  \E case \in CaseIds, items \in Payloads : Begin(t, "import", case, items)

\* Mutant of BeginSeed: the demo data is not conditional on an empty store.
BeginSeedAlways(t) == Samples # << >> /\ Begin(t, "seed", 0, Samples)

\* seed_demo_data: list_observations is read before anything is created.
BeginSeed(t) ==
  /\ observations = << >>
  /\ Samples # << >>
  /\ Begin(t, "seed", 0, Samples)

\* The command without its first item: the next one, the batch row or the end.
Rest(c) ==
  [c EXCEPT !.todo = Tail(@),
            !.step = IF Tail(c.todo) # << >> THEN "lookup"
                     ELSE IF c.kind = "import" THEN "batch" ELSE "idle"]

Proceed(t, c) == Continue(t, IF c.step = "idle" THEN Idle ELSE c)

Item(t) == Head(exec[t].todo)

Known(t) == HandleOf[Item(t)] \in DOMAIN actors

\* _resolve_case_id: case 0 stands for the lowest case.
CaseExists(t) == exec[t].case_id <= cases

(***************************************************************************)
(* _get_or_create_actor: the SELECT of the observation's own actor.  It is *)
(* the last read before the transaction of this item.                      *)
(***************************************************************************)
Lookup(t) ==
  /\ exec[t].step = "lookup"
  /\ CaseExists(t) /\ Item(t) \notin Unsafe
  /\ Continue(t, [exec[t] EXCEPT !.step = IF Known(t) THEN "append" ELSE "insert"])
  /\ UNCHANGED <<tables, boot, commands, broken>>

\* Since the lookup another command has created the actor.
Conflict(t) == exec[t].step = "insert" /\ Known(t)

Writing(t) == exec[t].step \in {"insert", "append"} /\ ~Conflict(t)

\* The case is unknown or a field is bad, which may come out only in the
\* transaction.
Refused(t) ==
  \/ /\ exec[t].step = "lookup"
     /\ ~CaseExists(t) \/ Item(t) \in Unsafe \cup Malformed
  \/ Writing(t) /\ Item(t) \in Malformed

\* Mutant of Reject: an item that is refused is not counted.
RejectSilently(t) ==
  /\ Refused(t)
  /\ Proceed(t, Rest(exec[t]))
  /\ UNCHANGED <<tables, boot, commands, broken>>

\* Mutant of Reject: an item that is refused ends the command.
RejectAll(t) ==
  /\ Refused(t)
  /\ Continue(t, Idle)
  /\ UNCHANGED <<tables, boot, commands, broken>>

\* create_observation raises ValueError and a transaction it has begun rolls
\* back; an import counts the item as rejected and goes on.
Reject(t) ==
  /\ Refused(t)
  /\ Proceed(t, [Rest(exec[t]) EXCEPT !.rejected = @ + 1])
  /\ UNCHANGED <<tables, boot, commands, broken>>

\* Mutant of Score: the average is refreshed before the observation is there.
ScoreBefore(handle, n) ==
  {o \in DOMAIN observations : observations[o].actor = handle}

\* _refresh_actor_score, with observation n already inserted for the actor.
Score(handle, n) ==
  {o \in DOMAIN observations : observations[o].actor = handle} \cup {n}

(***************************************************************************)
(* The transaction of create_observation: the actor when it is new, the    *)
(* observation with its fingerprint, its place in the case and its         *)
(* captured content, the actors it mentions, the actor's score.            *)
(***************************************************************************)
Create(t) ==
  LET n == Len(observations) + 1
      item == Item(t)
      handle == HandleOf[item]
      case == IF exec[t].case_id = 0 THEN 1 ELSE exec[t].case_id
  IN  /\ n <= MaxObservations
      /\ Writing(t) /\ item \notin Malformed
      /\ observations' = Append(observations,
           [actor |-> handle, kind |-> exec[t].kind,
            command |-> exec[t].command])
      /\ actors' = [h \in DOMAIN actors \cup {handle} \cup Mentions[item] |->
           IF h = handle THEN Score(h, n)
           ELSE IF h \in DOMAIN actors THEN actors[h] ELSE {}]
      /\ fingerprints' = fingerprints \cup {n}
      /\ links' = links \cup {<<case, n>>}
      /\ captured' = [captured EXCEPT ![<<case, n>>] = @ + 1]
      /\ Proceed(t, [Rest(exec[t]) EXCEPT !.accepted = @ + 1])
      /\ UNCHANGED <<cases, import_batches, boot, commands, broken>>

\* The import ends: its case must exist by then.
RecordBatch(t) ==
  /\ exec[t].step = "batch"
  /\ CaseExists(t)
  /\ import_batches' = Append(import_batches,
       [command |-> exec[t].command, case_id |-> exec[t].case_id,
        items |-> exec[t].items, accepted |-> exec[t].accepted,
        rejected |-> exec[t].rejected])
  /\ Continue(t, Idle)
  /\ UNCHANGED <<cases, actors, observations, links, captured, fingerprints,
                 boot, commands, broken>>

\* UNIQUE(handle, platform) raises IntegrityError, which an import does not
\* catch; nor does it survive an unknown case when it comes to its batch row.
GiveUp(t) ==
  /\ \/ Conflict(t) /\ broken' = broken \cup {exec[t].command}
     \/ exec[t].step = "batch" /\ ~CaseExists(t) /\ UNCHANGED broken
  /\ Continue(t, Idle)
  /\ UNCHANGED <<tables, boot, commands>>

\* The database stays busy past its time-out, or a text of the batch row cannot
\* be encoded: the transaction rolls back and the command ends.
DatabaseError(t) ==
  /\ exec[t] # Idle
  /\ Continue(t, Idle)
  /\ broken' = broken \cup {exec[t].command}
  /\ UNCHANGED <<tables, boot, commands>>

-----------------------------------------------------------------------------

StartUpStep(p) ==
  \/ CliStart(p) \/ FindCase(p) \/ EnsureDefaultCase(p) \/ BackfillEvidence(p)
  \/ FindFingerprints(p) \/ BackfillFingerprints(p) \/ CliStop(p)

Serve(t) ==
  \/ BeginCreate(t) \/ BeginImport(t) \/ BeginSeed(t)
  \/ Lookup(t) \/ Reject(t) \/ Create(t) \/ RecordBatch(t) \/ GiveUp(t)
  \/ DatabaseError(t)

Next ==
  \/ \E p \in Processes : StartUpStep(p)
  \/ CreateCase
  \/ \E t \in Threads : Serve(t)
  \/ Restart

Spec == Init /\ [][Next]_vars

-----------------------------------------------------------------------------
(* Properties *)

\* Every variable keeps its type; commands run only while the server serves.
StoreTypeOK ==
  /\ cases \in 0 .. MaxCases
  /\ DOMAIN actors \subseteq Handles
  /\ \A h \in DOMAIN actors : actors[h] \subseteq DOMAIN observations
  /\ observations \in Seq(Observation) /\ Len(observations) <= MaxObservations
  /\ links \subseteq CaseIds \X DOMAIN observations
  /\ captured \in [CaseIds \X ObservationIds -> Nat]
  /\ fingerprints \subseteq DOMAIN observations
  /\ import_batches \in Seq(Batch)
  /\ phase \in [Processes -> Phases] /\ phase[Server] # "off"
  /\ \A p \in Clis : phase[p] # "serving"
  /\ unprinted \in [Processes -> SUBSET DOMAIN observations]
  /\ owing \in BOOLEAN
  /\ exec \in [Threads -> Command]
  /\ ~Serving => exec = [t \in Threads |-> Idle]
  /\ \A p \in Processes : phase[p] \notin {"off", "inbox", "create"} => cases > 0
  /\ commands \in Nat /\ broken \subseteq Nat

(***************************************************************************)
(* "Makes observations created by the first MVP auditable in case views"   *)
(* (_backfill_legacy_evidence): whenever the server serves, every          *)
(* observation has a fingerprint and, in some case, its captured content.  *)
(* No place of an observation in a case ever has two, whatever start-ups   *)
(* run beside each other; one that has none was given to the inbox by a    *)
(* start-up that has its backfill still before it, or died before it.      *)
(***************************************************************************)
Backed == \A o \in DOMAIN observations : \E c \in 1 .. cases : captured[<<c, o>>] = 1

Backfilling == owing \/ \E p \in Processes : phase[p] = "evidence"

Auditable ==
  /\ Serving => Backed /\ fingerprints = DOMAIN observations
  /\ \A q \in DOMAIN captured :
       \/ captured[q] = IF q \in links THEN 1 ELSE 0
       \/ captured[q] = 0 /\ Backfilling

(***************************************************************************)
(* An actor's risk score is the average over exactly the observations of   *)
(* that actor in the store, whichever threads created them.                *)
(***************************************************************************)
ScoresCurrent ==
  /\ \A o \in DOMAIN observations : observations[o].actor \in DOMAIN actors
  /\ \A h \in DOMAIN actors :
       actors[h] = {o \in DOMAIN observations : observations[o].actor = h}

(***************************************************************************)
(* The row of an import tells the truth about what is in the store: it     *)
(* counts the observations this very import created, all of them in its    *)
(* case, and every other item of the payload as rejected.                  *)
(***************************************************************************)
CreatedBy(c) == {o \in DOMAIN observations : observations[o].command = c}

BatchesAccount ==
  \A i \in DOMAIN import_batches :
    LET b == import_batches[i]
    IN  /\ b.accepted = Cardinality(CreatedBy(b.command))
        /\ \A o \in CreatedBy(b.command) : <<b.case_id, o>> \in links
        /\ b.accepted + b.rejected = b.items

(***************************************************************************)
(* An import that created anything is still under way, has its row, or was *)
(* cut off by the database, a stop of the process or another command that  *)
(* created the same actor: refused items do not end it.                    *)
(***************************************************************************)
ImportsRecorded ==
  \A o \in DOMAIN observations :
    observations[o].kind = "import" =>
      LET c == observations[o].command
      IN  \/ c \in broken
          \/ \E t \in Threads : exec[t].command = c
          \/ \E i \in DOMAIN import_batches : import_batches[i].command = c

(***************************************************************************)
(* The demo data is offered only while the store is empty, which is read   *)
(* before anything is created: racing requests can create it more than     *)
(* once, but never more often than there are threads.                      *)
(***************************************************************************)
SeedCommands ==
  {observations[o].command :
     o \in {p \in DOMAIN observations : observations[p].kind = "seed"}}

SeedsBounded == Cardinality(SeedCommands) <= Cardinality(Threads)

(***************************************************************************)
(* "Local inbox for observations that have not yet been assigned" (the     *)
(* description of the default case): an observation that another case      *)
(* received is not in the default case as well.                            *)
(***************************************************************************)
InboxOnlyUnassigned ==
  \A o \in DOMAIN observations :
    \A c \in CaseIds \ {1} : <<c, o>> \in links => <<1, o>> \notin links
=============================================================================
