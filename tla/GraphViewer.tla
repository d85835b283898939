----------------------------- MODULE GraphViewer -----------------------------
(***************************************************************************)
(* The case graph as the console reads it while observations come in:      *)
(* Repository.get_case_graph, which reads the nodes and the edges with two *)
(* SELECTs outside any transaction, GraphViewer.enrich and shortest_path   *)
(* (GhostCluster/graph_viewer.py), and the commands /graph path and        *)
(* /graph communities that use them.                                       *)
(***************************************************************************)
EXTENDS ProfileHistory, FiniteSets

CONSTANTS
  Readers,    \* request threads that execute a /graph command
  HandleOf,   \* HandleOf[a]: handle of actor a, in lower case
  Questions   \* the commands they may execute

ASSUME QuestionAssumption ==
  /\ IsFiniteSet(Actors)
  /\ DOMAIN HandleOf = Actors
  /\ \A q \in Questions :
       /\ q.command \in {"path", "communities"} /\ q.case \in Cases
       /\ q.command = "path" => q.max_hops \in 1 .. 8

VARIABLE reader   \* what each reader has in hand

viewer_vars == <<history_vars, reader>>

\* `nodes` maps the ids of actors to the actors, `edges` is a set of pairs;
\* `seen` is the number of observations at each of the two reads.
Waiting == [step |-> "idle"]

ViewerInit == HistoryInit /\ reader = [r \in Readers |-> Waiting]

EdgesOf(case) ==
  {<<e.from, e.to>> : e \in {x \in relationships : observations[x.evidence].case = case}}

\* Actors with an observation or a relationship in the case.
InCase(case, a) ==
  \/ \E n \in DOMAIN observations : observations[n] = [actor |-> a, case |-> case]
  \/ \E e \in EdgesOf(case) : a \in {e[1], e[2]}

\* The first SELECT of get_case_graph.
ReadNodes(r) ==
  /\ reader[r].step \in {"idle", "answered"}
  /\ \E q \in Questions :
       reader' = [reader EXCEPT ![r] =
         [step |-> "edges", question |-> q, seen |-> <<Len(observations)>>,
          nodes |-> [i \in {j \in 1 .. Len(actors) : InCase(q.case, actors[j])} |-> actors[i]]]]
  /\ UNCHANGED history_vars

\* The second one.
ReadEdges(r) ==
  /\ reader[r].step = "edges"
  /\ reader' = [reader EXCEPT ![r] =
       [step |-> "read", question |-> @.question, nodes |-> @.nodes,
        seen |-> Append(@.seen, Len(observations)), edges |-> EdgesOf(@.question.case)]]
  /\ UNCHANGED history_vars

NodeSet(d) == {d.nodes[i] : i \in DOMAIN d.nodes}

Answer(r, answer) ==
  reader' = [reader EXCEPT ![r] =
    [step |-> "answered", question |-> @.question, seen |-> @.seen, nodes |-> @.nodes,
     edges |-> @.edges, answer |-> answer]]

\* Mutant of Neighbours: an edge is followed in its own direction only.
NeighboursForward(d, group) == {a \in Actors : \E e \in d.edges : e[1] \in group /\ a = e[2]}

\* enrich: the nodes an edge, in either direction, leads to.
Neighbours(d, group) ==
  {a \in Actors : \E e \in d.edges : \/ e[1] \in group /\ a = e[2]
                                     \/ e[2] \in group /\ a = e[1]}

\* The component of a node: its search ends when no neighbour is new.
Component(d, a) ==
  LET grown[k \in 0 .. Cardinality(Actors)] ==
        IF k = 0 THEN {a} ELSE grown[k - 1] \cup Neighbours(d, grown[k - 1])
  IN  grown[Cardinality(Actors)]

Groups(d) == {Component(d, a) : a \in NodeSet(d)}

\* /graph communities names every member of a group by its node: a member
\* that is no node ends the command with StopIteration, a 500.
Communities(r) ==
  /\ reader[r].step = "read" /\ reader[r].question.command = "communities"
  /\ LET groups == Groups(reader[r])
     IN  Answer(r, [error |-> ~(UNION groups \subseteq NodeSet(reader[r])), groups |-> groups])
  /\ UNCHANGED history_vars

\* nodes_by_handle: of the nodes with one handle the last, by id.
NodeOf(d, handle) ==
  {d.nodes[i] : i \in {i \in DOMAIN d.nodes :
                         /\ HandleOf[d.nodes[i]] = handle
                         /\ \A j \in DOMAIN d.nodes : HandleOf[d.nodes[j]] = handle => j <= i}}

\* shortest_path: one of the handles is unknown.
NoSuchNode(r) ==
  /\ reader[r].step = "read" /\ reader[r].question.command = "path"
  /\ NodeOf(reader[r], reader[r].question.source) = {}
       \/ NodeOf(reader[r], reader[r].question.target) = {}
  /\ Answer(r, << >>)
  /\ UNCHANGED history_vars

Search(r, target, queue, paths) ==
  reader' = [reader EXCEPT ![r] =
    [step |-> "search", question |-> @.question, seen |-> @.seen, nodes |-> @.nodes,
     edges |-> @.edges, target |-> target, queue |-> queue, paths |-> paths]]

BeginSearch(r) ==
  /\ reader[r].step = "read" /\ reader[r].question.command = "path"
  /\ \E s \in NodeOf(reader[r], reader[r].question.source),
        t \in NodeOf(reader[r], reader[r].question.target) :
       Search(r, t, <<s>>, [a \in {s} |-> << >>])
  /\ UNCHANGED history_vars

Searching(r) == reader[r].step = "search"
Current(r) == Head(reader[r].queue)
PathTo(r, a) == reader[r].paths[a]

Found(r) ==
  /\ Searching(r) /\ reader[r].queue # << >>
  /\ Current(r) = reader[r].target
  /\ Answer(r, PathTo(r, Current(r)))
  /\ UNCHANGED history_vars

Exhausted(r) ==
  /\ Searching(r) /\ reader[r].queue = << >>
  /\ Answer(r, << >>)
  /\ UNCHANGED history_vars

\* The orders in which the edges may lead to a set of nodes; which one it is
\* follows from weights and ids, and changes no length.
Orders(new) ==
  {q \in [1 .. Cardinality(new) -> new] : \A i, j \in DOMAIN q : q[i] = q[j] => i = j}

New(r) ==
  {e[2] : e \in {x \in reader[r].edges : x[1] = Current(r)}} \ DOMAIN reader[r].paths

\* Mutant of AtBound: the bound is tested after the node was expanded.
AtBoundLate(r) == Len(PathTo(r, Current(r))) > reader[r].question.max_hops

AtBound(r) == Len(PathTo(r, Current(r))) >= reader[r].question.max_hops

\* One turn of the while loop that goes on: nodes at the bound lead nowhere.
Expand(r) ==
  LET new == IF AtBound(r) THEN {} ELSE New(r)
      paths == reader[r].paths
  IN  /\ Searching(r) /\ reader[r].queue # << >>
      /\ Current(r) # reader[r].target
      /\ \E order \in Orders(new) :
           Search(r, reader[r].target, Tail(reader[r].queue) \o order,
                  [a \in DOMAIN paths \cup new |->
                     IF a \in new THEN Append(paths[Current(r)], <<Current(r), a>>)
                     ELSE paths[a]])
      /\ UNCHANGED history_vars

Add == \E p \in Payloads : Observe(p) /\ UNCHANGED reader

Look(r) ==
  \/ ReadNodes(r) \/ ReadEdges(r) \/ Communities(r) \/ NoSuchNode(r)
  \/ BeginSearch(r) \/ Found(r) \/ Expand(r) \/ Exhausted(r)

ViewerNext == Add \/ \E r \in Readers : Look(r)

ViewerSpec == ViewerInit /\ [][ViewerNext]_viewer_vars

-----------------------------------------------------------------------------
Answered(r, command) ==
  reader[r].step = "answered" /\ reader[r].question.command = command

\* The nodes within k steps of a node, by definition.
Within(d, a, k) ==
  LET ball[n \in 0 .. k] ==
        IF n = 0 THEN {a} ELSE ball[n - 1] \cup {e[2] : e \in {x \in d.edges : x[1] \in ball[n - 1]}}
  IN  ball[k]

IsWalk(d, path, s, t) ==
  /\ path[1][1] = s /\ path[Len(path)][2] = t
  /\ \A i \in DOMAIN path : path[i] \in d.edges
  /\ \A i \in 1 .. Len(path) - 1 : path[i][2] = path[i + 1][1]

\* The path that is shown is made of documented edges and leads from the one
\* account to the other in at most max_hops steps.
PathsDocumented ==
  \A r \in Readers :
    Answered(r, "path") /\ reader[r].answer # << >> =>
      LET d == reader[r]
      IN  \E s \in NodeOf(d, d.question.source), t \in NodeOf(d, d.question.target) :
            IsWalk(d, d.answer, s, t) /\ Len(d.answer) <= d.question.max_hops

\* Moreover there is no shorter one; none is shown only if there is none
\* within the bound, or nothing to walk: one account twice, or an account
\* that is not in the case.
PathsShortest ==
  /\ PathsDocumented
  /\ \A r \in Readers :
       Answered(r, "path") =>
         LET d == reader[r]
         IN  \A s \in NodeOf(d, d.question.source), t \in NodeOf(d, d.question.target) :
               IF d.answer = << >> THEN s = t \/ t \notin Within(d, s, d.question.max_hops)
               ELSE t \notin Within(d, s, Len(d.answer) - 1)

\* The groups /graph communities shows are a partition of the nodes that no
\* edge between two nodes crosses.  It fails only if an observation of the
\* case brought in a new account between the two reads.
Arrived(d) ==
  {e \in relationships : /\ e.evidence \in d.seen[1] + 1 .. d.seen[2]
                         /\ observations[e.evidence].case = d.question.case
                         /\ ~({e.from, e.to} \subseteq NodeSet(d))}

CommunitiesExact ==
  \A r \in Readers :
    Answered(r, "communities") =>
      LET d == reader[r]
          groups == d.answer.groups
      IN  IF d.answer.error
          THEN Arrived(d) # {}
          ELSE /\ UNION groups = NodeSet(d)
               /\ \A g, h \in groups : g = h \/ g \cap h = {}
               /\ \A e \in d.edges, g \in groups : {e[1], e[2]} \subseteq NodeSet(d) =>
                    (e[1] \in g <=> e[2] \in g)
=============================================================================
