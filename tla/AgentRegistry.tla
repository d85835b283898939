----------------------------- MODULE AgentRegistry -----------------------------
(***************************************************************************)
(* Conclave/agent_coordination.py and the registry side of                 *)
(* Conclave/job_queue.py: the operator edits config/agent_registry.json    *)
(* while request threads load it, route a topic with it and stamp the jobs *)
(* they queue with its hash.                                               *)
(*                                                                         *)
(* One PersistentJobQueue serves every thread, so the loaded registry      *)
(* (coordinator._registry) and the hash (_configuration_version) are       *)
(* shared attributes, written and read without a lock, and the file is     *)
(* read once to be parsed and once more to be hashed.  The server keeps a  *)
(* second AgentCoordinator, loaded once, for agent reports.                *)
(***************************************************************************)
EXTENDS Integers, Sequences, FiniteSets

CONSTANTS
  Threads,       \* request threads of the server
  Agents,        \* agent ids
  Contents,      \* contents of the file that load() accepts
  Broken,        \* contents that load() rejects
  Unversioned,   \* the empty hash, and a request that names no version
  StatusOnly,    \* a request for the queue's status, which queues nothing
  Subscribed,    \* Subscribed[c]: agents of c that subscribe to the topic
  Enabled,       \* Enabled[c]: enabled agents of c
  MaxEdits,      \* bound: edits of the file
  MaxReports     \* bound: agent reports

ASSUME RegistryAssumption ==
  /\ Contents \cap Broken = {}
  /\ Unversioned \notin Contents \cup Broken
  /\ StatusOnly \notin Contents \cup Broken \cup {Unversioned}
  /\ Subscribed \in [Contents -> SUBSET Agents]
  /\ Enabled \in [Contents -> SUBSET Agents]
  /\ MaxEdits \in Nat /\ MaxReports \in Nat

VARIABLES
  file,                    \* the content of agent_registry.json
  past,                    \* contents the file has had
  registry,                \* the queue's coordinator._registry
  configuration_version,   \* the queue's _configuration_version
  desk_registry,           \* _registry of the server's own coordinator
  request,                 \* the queue request each thread is executing
  jobs,                    \* agent_jobs: agent, version, version asked for
  journal,                 \* the agents of agent_reports.jsonl, in order
  edits,
  calm                     \* no edit so far has fallen into a queue request

vars == <<file, past, registry, configuration_version, desk_registry, request,
          jobs, journal, edits, calm>>

\* SHA-256 tells contents apart: a version is the content it is the hash of.
Files == Contents \cup Broken
Versions == Files \cup {Unversioned}

\* A request: the version it asks for, the content it parsed, its routes.
Request == [step : {"idle", "load", "assign", "route", "hash", "check", "stamp"},
            asked : Versions \cup {StatusOnly}, payload : Versions,
            agents : SUBSET Agents]

Job == [agent : Agents, configuration_version : Files, asked : Versions]

Idle == [step |-> "idle", asked |-> Unversioned, payload |-> Unversioned,
         agents |-> {}]

\* routes[topic]: enabled subscribers.
Active(c) == Subscribed[c] \cap Enabled[c]

\* The constructor of the job queue and the server's run() load the file.
Init ==
  /\ file \in Contents
  /\ past = {file}
  /\ registry = file
  /\ configuration_version = file
  /\ desk_registry = file
  /\ request = [t \in Threads |-> Idle]
  /\ jobs = {}
  /\ journal = << >>
  /\ edits = 0
  /\ calm = TRUE

At(t, step) == request[t].step = step

Continue(t, next) == request' = [request EXCEPT ![t] = next]

InMemory ==
  UNCHANGED <<file, past, desk_registry, jobs, journal, edits, calm>>

-----------------------------------------------------------------------------
(* enqueue up to its database transaction, and snapshot *)

Begin(t) ==
  /\ At(t, "idle")
  /\ \E asked \in Versions \cup {StatusOnly} :
        Continue(t, [Idle EXCEPT !.step = "load", !.asked = asked])
  /\ UNCHANGED <<registry, configuration_version>> /\ InMemory

\* Mutant of Load: a file that does not parse leaves the old registry in use.
LoadTolerant(t) ==
  /\ At(t, "load")
  /\ Continue(t, [request[t] EXCEPT !.step = "assign",
                    !.payload = IF file \in Contents THEN file ELSE registry])
  /\ UNCHANGED <<registry, configuration_version>> /\ InMemory

\* load: the file is parsed and validated; a broken one ends the request.
Load(t) ==
  /\ At(t, "load")
  /\ \/ /\ file \in Contents
        /\ Continue(t, [request[t] EXCEPT !.step = "assign", !.payload = file])
     \/ file \notin Contents /\ Continue(t, Idle)
  /\ UNCHANGED <<registry, configuration_version>> /\ InMemory

Assign(t) ==
  /\ At(t, "assign")
  /\ registry' = request[t].payload
  /\ Continue(t, [request[t] EXCEPT !.step = "route", !.payload = Unversioned])
  /\ UNCHANGED configuration_version /\ InMemory

\* Mutant of Route: disabled subscribers are routed to as well.
RouteToDisabled(t) ==
  /\ At(t, "route")
  /\ Continue(t, [request[t] EXCEPT !.step = "hash",
                                    !.agents = Subscribed[registry]])
  /\ UNCHANGED <<registry, configuration_version>> /\ InMemory

\* snapshot: the routes come from the shared registry, not from the payload.
Route(t) ==
  /\ At(t, "route")
  /\ Continue(t, [request[t] EXCEPT !.step = "hash", !.agents = Active(registry)])
  /\ UNCHANGED <<registry, configuration_version>> /\ InMemory

\* _load_registry reads the file a second time and hashes whatever is there.
Hash(t) ==
  /\ At(t, "hash")
  /\ configuration_version' = file
  /\ \/ /\ request[t].agents # {} /\ request[t].asked # StatusOnly
        /\ Continue(t, [request[t] EXCEPT !.step = "check"])
     \/ /\ request[t].agents = {} \/ request[t].asked = StatusOnly
        /\ Continue(t, Idle)
  /\ UNCHANGED registry /\ InMemory

\* Mutant of Check: a request for another version is served all the same.
CheckNothing(t) ==
  /\ At(t, "check")
  /\ Continue(t, [request[t] EXCEPT !.step = "stamp"])
  /\ UNCHANGED <<registry, configuration_version>> /\ InMemory

\* The version asked for is compared with the shared attribute ...
Check(t) ==
  /\ At(t, "check")
  /\ \/ /\ request[t].asked \in {Unversioned, configuration_version}
        /\ Continue(t, [request[t] EXCEPT !.step = "stamp"])
     \/ /\ request[t].asked \notin {Unversioned, configuration_version}
        /\ Continue(t, Idle)
  /\ UNCHANGED <<registry, configuration_version>> /\ InMemory

\* ... which is then read again to stamp the jobs of the transaction.
Stamp(t) ==
  /\ At(t, "stamp")
  /\ jobs' = jobs \cup [agent : request[t].agents,
                        configuration_version : {configuration_version},
                        asked : {request[t].asked}]
  /\ Continue(t, Idle)
  /\ UNCHANGED <<file, past, registry, configuration_version, desk_registry,
                 journal, edits, calm>>

-----------------------------------------------------------------------------
(* The rest of the server, and the operator *)

\* POST /api/agent-reports: validated by the coordinator loaded at start-up.
Report(agent) ==
  /\ agent \in Enabled[desk_registry]
  /\ Len(journal) < MaxReports
  /\ journal' = Append(journal, agent)
  /\ UNCHANGED <<file, past, registry, configuration_version, desk_registry,
                 request, jobs, edits, calm>>

Edit(c) ==
  /\ edits < MaxEdits
  /\ c # file
  /\ file' = c
  /\ past' = past \cup {c}
  /\ edits' = edits + 1
  /\ calm' = (calm /\ \A t \in Threads : At(t, "idle"))
  /\ UNCHANGED <<registry, configuration_version, desk_registry, request, jobs,
                 journal>>

\* The process stops and starts again; a broken file keeps it from starting.
Restart ==
  /\ file \in Contents
  /\ registry' = file
  /\ configuration_version' = file
  /\ desk_registry' = file
  /\ request' = [t \in Threads |-> Idle]
  /\ UNCHANGED <<file, past, jobs, journal, edits, calm>>

Serve(t) ==
  \/ Begin(t) \/ Load(t) \/ Assign(t) \/ Route(t) \/ Hash(t) \/ Check(t)
  \/ Stamp(t)

Next ==
  \/ \E t \in Threads : Serve(t)
  \/ \E agent \in Agents : Report(agent)
  \/ \E c \in Files : Edit(c)
  \/ Restart

Spec == Init /\ [][Next]_vars

-----------------------------------------------------------------------------
(* Properties *)

\* Every variable keeps its type; registries in memory are valid ones.
RegistryTypeOK ==
  /\ file \in past /\ past \subseteq Files
  /\ registry \in Contents /\ desk_registry \in Contents
  /\ configuration_version \in Files
  /\ request \in [Threads -> Request]
  /\ \A t \in Threads : At(t, "assign") => request[t].payload \in Contents
  /\ \A t \in Threads : At(t, "stamp") => request[t].asked # StatusOnly
  /\ jobs \subseteq Job
  /\ journal \in Seq(Agents)
  /\ edits \in Nat /\ calm \in BOOLEAN

(***************************************************************************)
(* "A job can be queued only for an active agent subscribed to the         *)
(* requested topic" (docs/JOB_QUEUE.md): every job's agent was such an     *)
(* agent in some valid registry the operator installed, however edits and  *)
(* other threads' reloads fall between the steps of a request.  The agent  *)
(* of a report was enabled in such a registry too, which need not be the   *)
(* one the job queue uses by now: the server loads its own copy once.      *)
(***************************************************************************)
AgentsWereRouted ==
  /\ \A job \in jobs : \E c \in past \cap Contents : job.agent \in Active(c)
  /\ \A i \in DOMAIN journal : \E c \in past \cap Contents : journal[i] \in Enabled[c]

(***************************************************************************)
(* A job stores "the exact registry configuration hash" (docs/JOB_QUEUE.md)*)
(* of the registry that routed it: the version names a valid registry in   *)
(* which the job's agent is an active subscriber.                          *)
(***************************************************************************)
VersionRoutesAgent ==
  \A job \in jobs :
     /\ job.configuration_version \in Contents
     /\ job.agent \in Active(job.configuration_version)

(***************************************************************************)
(* "configuration_version must match the active agent registry" (enqueue): *)
(* a request that names a version gets jobs of that version or none.       *)
(***************************************************************************)
RequestedVersionHonoured ==
  \A job \in jobs : job.asked \in {Unversioned, job.configuration_version}

(***************************************************************************)
(* As long as every edit of the file falls between requests, both promises *)
(* are kept, by any number of threads that share the loaded registry.      *)
(***************************************************************************)
CalmVersionsExact == calm => VersionRoutesAgent

CalmRequestsHonoured == calm => RequestedVersionHonoured
=============================================================================
