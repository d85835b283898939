-------------------------- MODULE AgentRegistryProofs --------------------------
(***************************************************************************)
(* Theorems about AgentRegistry, for any number of threads, contents of    *)
(* the registry file and edits.  Under edits at any time a request may mix *)
(* two contents, so what remains is that each job's agent was routed by    *)
(* some content (AgentsRouted); when the file is edited only between       *)
(* requests every thread in a request has seen the file as it is           *)
(* (Fresh), which makes versions exact (CalmVersions, CalmRequests).         *)
(***************************************************************************)
EXTENDS AgentRegistry, TLAPS

\* The content a request has read, or the server has loaded, is one the file has had, and its routes
\* are those of one such content.
Sourced ==
  /\ registry \in past /\ desk_registry \in past
  /\ \A t \in Threads : At(t, "assign") => request[t].payload \in past
  /\ \A t \in Threads : request[t].step \in {"hash", "check", "stamp"} =>
        \E c \in past \cap Contents : request[t].agents \subseteq Active(c)

RoutedInv == RegistryTypeOK /\ Sourced /\ AgentsWereRouted

\* What a request holds is what the file says now.
FreshAt(t) ==
  /\ At(t, "assign") => request[t].payload = file
  /\ At(t, "route") => registry = file
  /\ request[t].step \in {"hash", "check", "stamp"} =>
        /\ file \in Contents
        /\ request[t].agents = Active(file)
  /\ request[t].step \in {"check", "stamp"} => configuration_version = file
  /\ At(t, "stamp") => request[t].asked \in {Unversioned, file}

Fresh == \A t \in Threads : FreshAt(t)

CalmInv ==
  /\ RegistryTypeOK
  /\ calm => Fresh /\ VersionRoutesAgent /\ RequestedVersionHonoured

-----------------------------------------------------------------------------

\* load either parses the file as it is or ends the request.
LEMMA LoadOutcome ==
  ASSUME RegistryTypeOK, NEW t \in Threads, Load(t)
  PROVE  \E next \in Request :
            /\ request' = [request EXCEPT ![t] = next]
            /\ \/ /\ next.step = "assign" /\ next.payload = file
                  /\ file \in Contents
               \/ next.step = "idle"
<1>1. CASE file \in Contents
  <2> DEFINE next == [request[t] EXCEPT !.step = "assign", !.payload = file]
  <2>1. next \in Request /\ next.step = "assign" /\ next.payload = file
    BY <1>1 DEF RegistryTypeOK, Request, Versions, Files
  <2>2. request' = [request EXCEPT ![t] = next]
    BY <1>1 DEF Load, Continue
  <2> HIDE DEF next
  <2>3. QED
    BY <1>1, <2>1, <2>2
<1>2. CASE file \notin Contents
  <2>1. Idle \in Request /\ Idle.step = "idle"
    BY DEF Idle, Request, Versions
  <2>2. request' = [request EXCEPT ![t] = Idle]
    BY <1>2 DEF Load, Continue
  <2>3. QED
    BY <2>1, <2>2
<1>3. QED
  BY <1>1, <1>2

\* Every step keeps the types: what Spec's first theorem rests on.
LEMMA TypeStep == RegistryTypeOK /\ [Next]_vars => RegistryTypeOK'
<1> USE RegistryAssumption
<1> SUFFICES ASSUME RegistryTypeOK, [Next]_vars PROVE RegistryTypeOK'
  OBVIOUS
<1> Idle \in Request
  BY DEF Idle, Request, Versions
<1>1. ASSUME NEW t \in Threads, Begin(t) PROVE RegistryTypeOK'
  <2>1. PICK asked \in Versions \cup {StatusOnly} :
          Continue(t, [Idle EXCEPT !.step = "load", !.asked = asked])
    BY <1>1 DEF Begin
  <2> DEFINE next == [Idle EXCEPT !.step = "load", !.asked = asked]
  <2>2. next \in Request /\ next.step = "load"
    BY DEF Request, Idle
  <2>3. request' = [request EXCEPT ![t] = next]
    BY <2>1 DEF Continue
  <2> HIDE DEF next
  <2>4. QED
    BY <1>1, <2>2, <2>3 DEF Begin, RegistryTypeOK, InMemory, At
<1>2. ASSUME NEW t \in Threads, Load(t) PROVE RegistryTypeOK'
  <2>1. PICK next \in Request :
            /\ request' = [request EXCEPT ![t] = next]
            /\ \/ /\ next.step = "assign" /\ next.payload = file
                  /\ file \in Contents
               \/ next.step = "idle"
    BY <1>2, LoadOutcome
  <2>2. QED
    BY <1>2, <2>1 DEF Load, RegistryTypeOK, InMemory, At
<1>3. ASSUME NEW t \in Threads, Assign(t) PROVE RegistryTypeOK'
  BY <1>3 DEF Assign, RegistryTypeOK, Continue, InMemory, At, Request,
              Versions, Files
<1>4. ASSUME NEW t \in Threads, Route(t) PROVE RegistryTypeOK'
  <2>1. Active(registry) \subseteq Agents
    BY DEF RegistryTypeOK, Active
  <2>2. QED
    BY <1>4, <2>1 DEF Route, RegistryTypeOK, Continue, InMemory, At, Request
<1>5. ASSUME NEW t \in Threads, Hash(t) PROVE RegistryTypeOK'
  BY <1>5 DEF Hash, RegistryTypeOK, Continue, InMemory, At, Request, Idle,
              Versions, Files
<1>6. ASSUME NEW t \in Threads, Check(t) PROVE RegistryTypeOK'
  BY <1>6 DEF Check, RegistryTypeOK, Continue, InMemory, At, Request, Idle,
              Versions, Files
<1>7. ASSUME NEW t \in Threads, Stamp(t) PROVE RegistryTypeOK'
  <2>1. request[t].asked \in Versions /\ request[t].agents \subseteq Agents
    BY <1>7 DEF Stamp, RegistryTypeOK, At, Request
  <2>2. jobs' \subseteq Job
    BY <1>7, <2>1 DEF Stamp, RegistryTypeOK, Job
  <2>3. QED
    BY <1>7, <2>2 DEF Stamp, RegistryTypeOK, Continue, At, Request, Idle
<1>8. ASSUME NEW agent \in Agents, Report(agent) PROVE RegistryTypeOK'
  BY <1>8 DEF Report, RegistryTypeOK, At
<1>9. ASSUME NEW c \in Files, Edit(c) PROVE RegistryTypeOK'
  BY <1>9 DEF Edit, RegistryTypeOK, At
<1>10. CASE Restart
  BY <1>10 DEF Restart, RegistryTypeOK, At, Idle, Files
<1>11. CASE UNCHANGED vars
  BY <1>11 DEF vars, RegistryTypeOK, At
<1>12. QED
  BY <1>1, <1>2, <1>3, <1>4, <1>5, <1>6, <1>7, <1>8, <1>9, <1>10, <1>11
  DEF Next, Serve

\* The process starts with one valid registry everywhere.
LEMMA TypeInit == Init => RegistryTypeOK
  BY RegistryAssumption
  DEF Init, RegistryTypeOK, Files, Request, Idle, Versions, At, Job

\* Every reachable state is well typed: in particular no content that fails
\* to load ever becomes the registry in use.
THEOREM RegistryTypeCorrect == Spec => []RegistryTypeOK
  BY TypeInit, TypeStep, PTL DEF Spec

-----------------------------------------------------------------------------

\* Every step keeps requests and jobs traceable to contents of the file.
LEMMA RoutedStep == RoutedInv /\ [Next]_vars => RoutedInv'
<1> SUFFICES ASSUME RoutedInv, [Next]_vars PROVE RoutedInv'
  OBVIOUS
<1>0. RegistryTypeOK /\ RegistryTypeOK' /\ Sourced /\ AgentsWereRouted
  BY TypeStep DEF RoutedInv
<1>1. ASSUME NEW t \in Threads, Begin(t) PROVE Sourced' /\ AgentsWereRouted'
  BY <1>0, <1>1 DEF Begin, Sourced, AgentsWereRouted, RegistryTypeOK, Continue,
                    InMemory, At, Request, Idle
<1>2. ASSUME NEW t \in Threads, Load(t) PROVE Sourced' /\ AgentsWereRouted'
  <2>1. PICK next \in Request :
            /\ request' = [request EXCEPT ![t] = next]
            /\ \/ /\ next.step = "assign" /\ next.payload = file
                  /\ file \in Contents
               \/ next.step = "idle"
    BY <1>0, <1>2, LoadOutcome
  <2>2. QED
    BY <1>0, <1>2, <2>1 DEF Load, Sourced, AgentsWereRouted, RegistryTypeOK, InMemory, At
<1>3. ASSUME NEW t \in Threads, Assign(t) PROVE Sourced' /\ AgentsWereRouted'
  BY <1>0, <1>3 DEF Assign, Sourced, AgentsWereRouted, RegistryTypeOK, Continue,
                    InMemory, At, Request
<1>4. ASSUME NEW t \in Threads, Route(t) PROVE Sourced' /\ AgentsWereRouted'
  <2>1. registry \in past \cap Contents
    BY <1>0 DEF Sourced, RegistryTypeOK
  <2>2. QED
    BY <1>0, <1>4, <2>1 DEF Route, Sourced, AgentsWereRouted, RegistryTypeOK,
                            Continue, InMemory, At, Request
<1>5. ASSUME NEW t \in Threads, Hash(t) PROVE Sourced' /\ AgentsWereRouted'
  BY <1>0, <1>5 DEF Hash, Sourced, AgentsWereRouted, RegistryTypeOK, Continue,
                    InMemory, At, Request, Idle
<1>6. ASSUME NEW t \in Threads, Check(t) PROVE Sourced' /\ AgentsWereRouted'
  <2>1. AgentsWereRouted'
    BY <1>0, <1>6 DEF Check, AgentsWereRouted, InMemory
  <2>2. Sourced'
    BY <1>0, <1>6 DEF Check, Sourced, RegistryTypeOK, Continue, InMemory, At, Request, Idle
  <2>3. QED
    BY <2>1, <2>2
<1>7. ASSUME NEW t \in Threads, Stamp(t) PROVE Sourced' /\ AgentsWereRouted'
  <2>1. PICK c \in past \cap Contents : request[t].agents \subseteq Active(c)
    BY <1>0, <1>7 DEF Stamp, Sourced, At
  <2>2. \A job \in jobs' \ jobs : job.agent \in Active(c)
    BY <1>7, <2>1 DEF Stamp
  <2>3. AgentsWereRouted'
    BY <1>0, <1>7, <2>2 DEF Stamp, AgentsWereRouted, Active
  <2>4. QED
    BY <1>0, <1>7, <2>3 DEF Stamp, Sourced, RegistryTypeOK, Continue, At, Idle
<1>8. ASSUME NEW agent \in Agents, Report(agent)
      PROVE Sourced' /\ AgentsWereRouted'
  <2>1. desk_registry \in past \cap Contents /\ agent \in Enabled[desk_registry]
    BY <1>0, <1>8 DEF Report, Sourced, RegistryTypeOK
  <2>2. journal' = Append(journal, agent) /\ journal \in Seq(Agents)
    BY <1>0, <1>8 DEF Report, RegistryTypeOK
  <2>3. \A i \in DOMAIN journal' : journal'[i] = agent \/ (i \in DOMAIN journal /\ journal'[i] = journal[i])
    BY <2>2
  <2>4. UNCHANGED <<past, jobs>>
    BY <1>8 DEF Report
  <2>5. AgentsWereRouted'
    BY <1>0, <2>1, <2>3, <2>4 DEF AgentsWereRouted
  <2>6. Sourced'
    BY <1>0, <1>8 DEF Report, Sourced, At
  <2>7. QED
    BY <2>5, <2>6
<1>9. ASSUME NEW c \in Files, Edit(c) PROVE Sourced' /\ AgentsWereRouted'
  BY <1>0, <1>9 DEF Edit, Sourced, AgentsWereRouted, At
<1>10. ASSUME Restart PROVE Sourced' /\ AgentsWereRouted'
  BY <1>0, <1>10 DEF Restart, Sourced, AgentsWereRouted, RegistryTypeOK, At, Idle
<1>11. ASSUME UNCHANGED vars PROVE Sourced' /\ AgentsWereRouted'
  BY <1>0, <1>11 DEF vars, Sourced, AgentsWereRouted, At
<1>12. QED
  BY <1>0, <1>1, <1>2, <1>3, <1>4, <1>5, <1>6, <1>7, <1>8, <1>9, <1>10, <1>11
  DEF Next, Serve, RoutedInv

\* However edits and reloads by other threads interleave with a request, an
\* agent gets a job only if some installed registry has it as an active
\* subscriber of the topic.
THEOREM AgentsRouted == Spec => []AgentsWereRouted
<1>1. Init => RoutedInv
  BY TypeInit DEF Init, RoutedInv, Sourced, AgentsWereRouted, At, Idle
<1>2. RoutedInv => AgentsWereRouted
  BY DEF RoutedInv
<1>3. QED
  BY <1>1, <1>2, RoutedStep, PTL DEF Spec

-----------------------------------------------------------------------------

\* Without edits during a request, every step keeps what requests hold equal
\* to the file, and stamps jobs accordingly.
LEMMA CalmStep == CalmInv /\ [Next]_vars => CalmInv'
<1> DEFINE Exact == VersionRoutesAgent /\ RequestedVersionHonoured
<1>a. CalmInv /\ [Next]_vars => RegistryTypeOK'
  BY TypeStep DEF CalmInv
<1>b. CalmInv /\ [Next]_vars /\ calm' => calm
  BY DEF Next, Serve, Begin, Load, Assign, Route, Hash, Check, Stamp, Report,
         Edit, Restart, InMemory, vars
<1> SUFFICES ASSUME CalmInv, [Next]_vars, calm' PROVE Fresh' /\ Exact'
  BY <1>a DEF CalmInv
<1>0. RegistryTypeOK /\ RegistryTypeOK' /\ Fresh /\ Exact
  BY <1>a, <1>b DEF CalmInv
<1>1. ASSUME NEW t \in Threads, Begin(t) PROVE Fresh'
  BY <1>0, <1>1 DEF Begin, Fresh, FreshAt, RegistryTypeOK, Continue, InMemory,
                    At, Request, Idle
<1>2. ASSUME NEW t \in Threads, Load(t) PROVE Fresh'
  <2>1. PICK next \in Request :
            /\ request' = [request EXCEPT ![t] = next]
            /\ \/ /\ next.step = "assign" /\ next.payload = file
                  /\ file \in Contents
               \/ next.step = "idle"
    BY <1>0, <1>2, LoadOutcome
  <2>2. QED
    BY <1>0, <1>2, <2>1 DEF Load, Fresh, FreshAt, RegistryTypeOK, InMemory, At
<1>3. ASSUME NEW t \in Threads, Assign(t) PROVE Fresh'
  BY <1>0, <1>3 DEF Assign, Fresh, FreshAt, RegistryTypeOK, Continue, InMemory,
                    At, Request
<1>4. ASSUME NEW t \in Threads, Route(t) PROVE Fresh'
  BY <1>0, <1>4 DEF Route, Fresh, FreshAt, RegistryTypeOK, Continue, InMemory,
                    At, Request
<1>5. ASSUME NEW t \in Threads, Hash(t) PROVE Fresh'
  BY <1>0, <1>5 DEF Hash, Fresh, FreshAt, RegistryTypeOK, Continue, InMemory,
                    At, Request, Idle
<1>6. ASSUME NEW t \in Threads, Check(t) PROVE Fresh'
  BY <1>0, <1>6 DEF Check, Fresh, FreshAt, RegistryTypeOK, Continue, InMemory,
                    At, Request, Idle
<1>7. ASSUME NEW t \in Threads, Stamp(t) PROVE Fresh' /\ Exact'
  <2>1. /\ file \in Contents /\ configuration_version = file
        /\ request[t].agents = Active(file)
        /\ request[t].asked \in {Unversioned, file}
    BY <1>0, <1>7 DEF Stamp, Fresh, FreshAt, At
  <2>2. \A job \in jobs' \ jobs : /\ job.configuration_version = file
                                  /\ job.agent \in Active(file)
                                  /\ job.asked \in {Unversioned, file}
    BY <1>7, <2>1 DEF Stamp
  <2>3. Exact'
    BY <1>0, <2>1, <2>2 DEF VersionRoutesAgent, RequestedVersionHonoured, Active
  <2>4. Fresh'
    BY <1>0, <1>7 DEF Stamp, Fresh, FreshAt, RegistryTypeOK, Continue, At, Idle
  <2>5. QED
    BY <2>3, <2>4
<1>8. ASSUME NEW agent \in Agents, Report(agent) PROVE Fresh'
  BY <1>0, <1>8 DEF Report, Fresh, FreshAt, At
<1>9. ASSUME NEW c \in Files, Edit(c) PROVE Fresh'
  BY <1>0, <1>9 DEF Edit, Fresh, FreshAt, At
<1>10. ASSUME Restart PROVE Fresh'
  BY <1>0, <1>10 DEF Restart, Fresh, FreshAt, RegistryTypeOK, At, Idle
<1>11. ASSUME UNCHANGED vars PROVE Fresh' /\ Exact'
  BY <1>0, <1>11 DEF vars, Fresh, FreshAt, At, VersionRoutesAgent,
                     RequestedVersionHonoured
<1>12. ASSUME jobs' = jobs PROVE Exact'
  BY <1>0, <1>12 DEF VersionRoutesAgent, RequestedVersionHonoured, Active
<1>13. Fresh' /\ Exact'
  <2>1. CASE \E t \in Threads : Serve(t) /\ ~Stamp(t)
    BY <2>1, <1>1, <1>2, <1>3, <1>4, <1>5, <1>6, <1>12
    DEF Serve, Begin, Load, Assign, Route, Hash, Check, InMemory
  <2>2. CASE \/ \E agent \in Agents : Report(agent)
             \/ \E c \in Files : Edit(c)
             \/ Restart
    BY <2>2, <1>8, <1>9, <1>10, <1>12 DEF Report, Edit, Restart
  <2>3. QED
    BY <2>1, <2>2, <1>7, <1>11 DEF Next
<1>14. QED
  BY <1>13

\* The program starts with nothing queued and no request under way.
LEMMA CalmStart == Init => CalmInv
  BY TypeInit DEF Init, CalmInv, Fresh, FreshAt, VersionRoutesAgent,
                  RequestedVersionHonoured, At, Idle

\* As long as the file is edited only while no request is served, every job
\* carries the hash of a valid registry that routes the topic to its agent.
THEOREM CalmVersions == Spec => []CalmVersionsExact
<1>1. CalmInv => CalmVersionsExact
  BY DEF CalmInv, CalmVersionsExact
<1>2. QED
  BY <1>1, CalmStart, CalmStep, PTL DEF Spec

\* As long as the file is edited only while no request is served, a request
\* that names a version gets jobs of that version or none.
THEOREM CalmRequests == Spec => []CalmRequestsHonoured
<1>1. CalmInv => CalmRequestsHonoured
  BY DEF CalmInv, CalmRequestsHonoured
<1>2. QED
  BY <1>1, CalmStart, CalmStep, PTL DEF Spec
=============================================================================
