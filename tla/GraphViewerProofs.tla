------------------------- MODULE GraphViewerProofs -------------------------
(***************************************************************************)
(* Proofs about ProfileHistory and GraphViewer: what a review entry says   *)
(* of a profile, and that every path the console shows is documented, for  *)
(* any actors, payloads, readers and bounds.                               *)
(***************************************************************************)
EXTENDS GraphViewer, SequenceTheorems, FiniteSetTheorems, TLAPS

Snapshot ==
  {[actor |-> Author(p), case |-> p.case, profile |-> p.profile, captured_at |-> p.captured_at]
     : p \in Payloads}

SameProfile(j, k) ==
  snapshots[j].actor = snapshots[k].actor /\ snapshots[j].case = snapshots[k].case

\* The snapshot that snapshot k was compared with when it was stored.
Compared(k) ==
  {i \in 1 .. k - 1 : /\ SameProfile(i, k)
                      /\ \A j \in 1 .. k - 1 : SameProfile(j, k) => j = i \/ Before(j, i)}

Entry(i, k, f) ==
  [field |-> f, previous |-> snapshots[i].profile[f], current |-> snapshots[k].profile[f],
   observation |-> k]

EntriesOf(k) ==
  {e \in changes : e.observation = k}

ChangesInv ==
  /\ snapshots \in Seq(Snapshot)
  /\ Len(observations) = Len(snapshots)
  /\ observations \in Seq([actor : Actors, case : Cases])
  /\ \A e \in changes : e.observation \in DOMAIN snapshots
  /\ \A k \in DOMAIN snapshots :
       \A e : e \in EntriesOf(k) <=>
               \E i \in Compared(k), f \in Fields :
                 Differs(snapshots[i].profile, snapshots[k].profile, f) /\ e = Entry(i, k, f)

LEMMA SnapshotTyped ==
  ASSUME ChangesInv
  PROVE  /\ Len(snapshots) \in Nat /\ DOMAIN snapshots = 1 .. Len(snapshots)
         /\ \A k \in DOMAIN snapshots :
              snapshots[k] \in Snapshot /\ snapshots[k].captured_at \in Nat
<1>1. /\ Len(snapshots) \in Nat /\ DOMAIN snapshots = 1 .. Len(snapshots)
      /\ \A k \in DOMAIN snapshots : snapshots[k] \in Snapshot
  BY LenProperties, ElementOfSeq DEF ChangesInv
<1>2. \A s \in Snapshot : s.captured_at \in Nat
  BY PayloadAssumption DEF Snapshot
<1> QED
  BY <1>1, <1>2

-----------------------------------------------------------------------------
(* The invariant gives the properties                                       *)

LEMMA InvEntriesJustified == ChangesInv => EntriesJustified
<1> SUFFICES ASSUME ChangesInv, NEW e \in changes
             PROVE  /\ e.observation \in DOMAIN snapshots
                    /\ \E k \in 1 .. e.observation - 1 :
                         LET old == snapshots[k]
                             new == snapshots[e.observation]
                         IN  /\ old.actor = new.actor /\ old.case = new.case
                             /\ old.profile[e.field] = e.previous
                             /\ new.profile[e.field] = e.current
                             /\ Differs(old.profile, new.profile, e.field)
                             /\ \A j \in Of(new.actor, new.case) :
                                  j < e.observation => j = k \/ Before(j, k)
  BY DEF EntriesJustified
<1>1. PICK n \in DOMAIN snapshots : n = e.observation
  BY DEF ChangesInv
<1>2. PICK i \in Compared(n), f \in Fields :
        Differs(snapshots[i].profile, snapshots[n].profile, f) /\ e = Entry(i, n, f)
  BY <1>1 DEF ChangesInv, EntriesOf
<1>3. /\ e.field = f /\ e.previous = snapshots[i].profile[f] /\ e.current = snapshots[n].profile[f]
  BY <1>2 DEF Entry
<1>4. i \in 1 .. n - 1 /\ SameProfile(i, n)
  BY <1>2 DEF Compared
<1>5. ASSUME NEW j \in Of(snapshots[n].actor, snapshots[n].case), j < n PROVE j = i \/ Before(j, i)
  <2>1. j \in 1 .. n - 1 /\ SameProfile(j, n)
    BY <1>1, <1>5, SnapshotTyped DEF Of, SameProfile
  <2> QED
    BY <1>2, <2>1 DEF Compared
<1> QED
  BY <1>1, <1>2, <1>3, <1>4, <1>5 DEF SameProfile

LEMMA InvOrderlyExact == ChangesInv => OrderlyExact
<1> SUFFICES ASSUME ChangesInv, NEW j \in DOMAIN snapshots, NEW k \in DOMAIN snapshots,
                    Orderly(snapshots[k].actor, snapshots[k].case),
                    j \in Of(snapshots[k].actor, snapshots[k].case), Consecutive(j, k),
                    NEW f \in Fields
             PROVE  Differs(snapshots[j].profile, snapshots[k].profile, f) <=> Entry(j, k, f) \in changes
  BY DEF OrderlyExact, Entry
<1>1. j \in Nat /\ k \in Nat /\ j < k /\ j \in 1 .. k - 1
  BY SnapshotTyped DEF Consecutive
<1>2. ASSUME NEW i \in 1 .. k - 1, SameProfile(i, k) PROVE i = j \/ Before(i, j)
  <2>1. i \in Of(snapshots[k].actor, snapshots[k].case) /\ i \in Nat
    BY <1>2, SnapshotTyped DEF Of, SameProfile
  <2>2. i <= j
    BY <1>1, <2>1 DEF Consecutive
  <2>3. i < j => snapshots[i].captured_at <= snapshots[j].captured_at
    BY <2>1 DEF Orderly
  <2>4. snapshots[i].captured_at \in Nat /\ snapshots[j].captured_at \in Nat
    BY <2>1, SnapshotTyped DEF Of
  <2> QED
    BY <1>1, <2>1, <2>2, <2>3, <2>4 DEF Before
<1>3. j \in Compared(k)
  BY <1>1, <1>2 DEF Compared, Of, SameProfile
<1>4. ASSUME NEW i \in Compared(k) PROVE i = j
  <2>1. i = j \/ (Before(i, j) /\ Before(j, i))
    BY <1>3 DEF Compared
  <2>2. i \in Nat /\ snapshots[i].captured_at \in Nat /\ snapshots[j].captured_at \in Nat
    BY <1>1, SnapshotTyped DEF Compared
  <2> QED
    BY <1>1, <2>1, <2>2 DEF Before
<1>5. Entry(j, k, f).observation = k
  BY DEF Entry
<1>6. Differs(snapshots[j].profile, snapshots[k].profile, f) => Entry(j, k, f) \in EntriesOf(k)
  BY <1>3 DEF ChangesInv
<1>7. ASSUME Entry(j, k, f) \in changes PROVE Differs(snapshots[j].profile, snapshots[k].profile, f)
  <2>1. Entry(j, k, f) \in EntriesOf(k)
    BY <1>5, <1>7 DEF EntriesOf
  <2>2. PICK i \in Compared(k), g \in Fields :
          Differs(snapshots[i].profile, snapshots[k].profile, g) /\ Entry(j, k, f) = Entry(i, k, g)
    BY <2>1 DEF ChangesInv
  <2>3. g = f
    BY <2>2 DEF Entry
  <2> QED
    BY <1>4, <2>2, <2>3
<1> QED
  BY <1>6, <1>7 DEF EntriesOf

-----------------------------------------------------------------------------
(* It is inductive                                                          *)

LEMMA ChangesInitially == HistoryInit => ChangesInv
  BY DEF HistoryInit, ChangesInv

LEMMA ObserveStep ==
  ASSUME ChangesInv, NEW p \in Payloads, Observe(p)
  PROVE  ChangesInv'
<1>0. PICK n \in Nat : n = Len(observations) + 1
  BY LenProperties DEF ChangesInv
<1> DEFINE s == [actor |-> Author(p), case |-> p.case, profile |-> p.profile,
                 captured_at |-> p.captured_at]
           o == [actor |-> Author(p), case |-> p.case]
           Added == UNION
             {{[field |-> f, previous |-> snapshots[k].profile[f], current |-> p.profile[f],
                observation |-> n] : f \in {g \in Fields : Differs(snapshots[k].profile, p.profile, g)}}
               : k \in Latest(Author(p), p.case)}
<1>1. /\ snapshots' = Append(snapshots, s) /\ observations' = Append(observations, o)
      /\ changes' = changes \cup Added
  BY <1>0 DEF Observe
<1>2. s \in Snapshot /\ o \in [actor : Actors, case : Cases]
  <2>1. Author(p) \in Actors
    BY PayloadAssumption, ElementOfSeq, EmptySeq DEF Author
  <2> QED
    BY <2>1, PayloadAssumption DEF Snapshot
<1>3. /\ s.actor = Author(p) /\ s.case = p.case /\ s.profile = p.profile
  OBVIOUS
<1> HIDE DEF s, o
<1>4. /\ snapshots' \in Seq(Snapshot) /\ n = Len(snapshots) + 1 /\ n \in Nat
      /\ observations' \in Seq([actor : Actors, case : Cases])
      /\ Len(snapshots') = n /\ Len(observations') = n
      /\ DOMAIN snapshots = 1 .. n - 1 /\ DOMAIN snapshots' = 1 .. n
      /\ snapshots'[n] = s
      /\ \A i \in 1 .. n - 1 : snapshots'[i] = snapshots[i]
  BY <1>0, <1>1, <1>2, AppendProperties, LenProperties DEF ChangesInv
<1>5. ASSUME NEW k \in 1 .. n - 1
      PROVE  /\ Compared(k)' = Compared(k) /\ EntriesOf(k)' = EntriesOf(k)
             /\ \A i \in Compared(k), f \in Fields :
                  /\ Entry(i, k, f)' = Entry(i, k, f)
                  /\ snapshots'[i] = snapshots[i]
  <2>1. \A i \in 1 .. k - 1 : snapshots'[i] = snapshots[i] /\ snapshots'[k] = snapshots[k]
    BY <1>4, <1>5
  <2>2. Compared(k)' = Compared(k)
    BY <2>1 DEF Compared, SameProfile, Before
  <2>3. EntriesOf(k)' = EntriesOf(k)
    BY <1>1, <1>4, <1>5 DEF EntriesOf
  <2>4. Compared(k) \subseteq 1 .. k - 1
    BY DEF Compared
  <2>5. ASSUME NEW i \in Compared(k), NEW f \in Fields
        PROVE  Entry(i, k, f)' = Entry(i, k, f) /\ snapshots'[i] = snapshots[i]
    <3>1. snapshots'[i] = snapshots[i] /\ snapshots'[k] = snapshots[k]
      BY <2>1, <2>4
    <3> QED
      BY <3>1 DEF Entry
  <2> QED
    BY <2>2, <2>3, <2>5
<1>6. ASSUME NEW k \in 1 .. n - 1
      PROVE  \A e : e \in EntriesOf(k)' <=>
               \E i \in Compared(k)', f \in Fields :
                 Differs(snapshots'[i].profile, snapshots'[k].profile, f) /\ e = Entry(i, k, f)'
  <2>1. \A e : e \in EntriesOf(k) <=>
               \E i \in Compared(k), f \in Fields :
                 Differs(snapshots[i].profile, snapshots[k].profile, f) /\ e = Entry(i, k, f)
    BY <1>4 DEF ChangesInv
  <2>2. snapshots'[k] = snapshots[k]
    BY <1>4
  <2>3. /\ Compared(k)' = Compared(k) /\ EntriesOf(k)' = EntriesOf(k)
        /\ \A i \in Compared(k) : snapshots'[i] = snapshots[i]
        /\ \A i \in Compared(k), f \in Fields : Entry(i, k, f)' = Entry(i, k, f)
    <3>1. Compared(k) \subseteq 1 .. n - 1
      BY <1>4 DEF Compared
    <3>2. \A i \in Compared(k) : snapshots'[i] = snapshots[i]
      BY <1>4, <3>1
    <3> QED
      BY <1>5, <3>2, Zenon
  <2> QED
    BY <2>1, <2>2, <2>3
<1>7. Compared(n)' = Latest(Author(p), p.case)
  <2>1. Of(Author(p), p.case) = {i \in 1 .. n - 1 : SameProfile(i, n)'}
    BY <1>3, <1>4 DEF Of, SameProfile
  <2>2. \A i, j \in 1 .. n - 1 : Before(i, j)' <=> Before(i, j)
    BY <1>4 DEF Before
  <2> QED
    BY <2>1, <2>2 DEF Compared, Latest
<1>8. \A e : e \in EntriesOf(n)' <=>
              \E i \in Compared(n)', f \in Fields :
                Differs(snapshots'[i].profile, snapshots'[n].profile, f) /\ e = Entry(i, n, f)'
  <2>1. \A i \in Latest(Author(p), p.case) : snapshots'[i] = snapshots[i]
    BY <1>4 DEF Latest, Of
  <2>2. \A e \in changes : e.observation # n
    BY <1>4 DEF ChangesInv
  <2>3. \A e \in Added : e.observation = n
    OBVIOUS
  <2>4. EntriesOf(n)' = Added
    BY <1>1, <2>2, <2>3 DEF EntriesOf
  <2>5. \A i \in Latest(Author(p), p.case), f \in Fields :
          /\ snapshots'[i].profile = snapshots[i].profile /\ snapshots'[n].profile = p.profile
          /\ Entry(i, n, f)' = [field |-> f, previous |-> snapshots[i].profile[f],
                                current |-> p.profile[f], observation |-> n]
    BY <1>3, <1>4, <2>1 DEF Entry
  <2> QED
    BY <1>7, <2>4, <2>5
<1>9. \A e \in changes' : e.observation \in DOMAIN snapshots'
  <2>1. \A e \in Added : e.observation = n
    OBVIOUS
  <2> QED
    BY <1>1, <1>4, <2>1 DEF ChangesInv
<1> QED
  BY <1>4, <1>6, <1>8, <1>9 DEF ChangesInv

LEMMA LooksOnly == ASSUME NEW r \in Readers, Look(r) PROVE UNCHANGED history_vars
  BY DEF Look, ReadNodes, ReadEdges, Communities, NoSuchNode, BeginSearch, Found, Expand, Exhausted

LEMMA ChangesStep == ChangesInv /\ [ViewerNext]_viewer_vars => ChangesInv'
<1> SUFFICES ASSUME ChangesInv, [ViewerNext]_viewer_vars PROVE ChangesInv'
  OBVIOUS
<1>1. ASSUME NEW p \in Payloads, Observe(p) PROVE ChangesInv'
  BY <1>1, ObserveStep
<1>2. ASSUME UNCHANGED history_vars PROVE ChangesInv'
  <2>1. /\ observations' = observations /\ snapshots' = snapshots /\ changes' = changes
    BY <1>2 DEF history_vars
  <2>2. \A k : Compared(k)' = Compared(k) /\ EntriesOf(k)' = EntriesOf(k)
    BY <2>1 DEF EntriesOf, Compared, SameProfile, Before
  <2>3. \A i, k, f : Entry(i, k, f)' = Entry(i, k, f)
    BY <2>1 DEF Entry
  <2> QED
    BY <2>1, <2>2, <2>3 DEF ChangesInv
<1> QED
  BY <1>1, <1>2, LooksOnly DEF ViewerNext, Add, viewer_vars

LEMMA ChangesInvariant == ViewerSpec => []ChangesInv
  BY ChangesInitially, ChangesStep, PTL DEF ViewerSpec, ViewerInit

\* A review entry says of a profile what two snapshots on record say: its own
\* and the one captured as the latest before it (Repository.create_observation
\* with _record_profile_snapshot).
THEOREM EntriesAreJustified == ViewerSpec => []EntriesJustified
  BY ChangesInvariant, InvEntriesJustified, PTL

\* While observations arrive in the order they were captured, no change of a
\* profile goes without its entry and no entry without its change.
THEOREM OrderlyIsExact == ViewerSpec => []OrderlyExact
  BY ChangesInvariant, InvOrderlyExact, PTL

-----------------------------------------------------------------------------
(* Every path a search holds is a walk from its source                      *)

Trail(d, path, s, a) ==
  /\ path \in Seq(d.edges) /\ Len(path) <= d.question.max_hops
  /\ IF path = << >> THEN a = s ELSE IsWalk(d, path, s, a)

Asked(d) == d.question \in Questions
Read(d) == Asked(d) /\ d.edges \subseteq Actors \X Actors

Traced(d) ==
  /\ Read(d) /\ d.question.command = "path"
  /\ d.target \in NodeOf(d, d.question.target)
  /\ d.queue \in Seq(DOMAIN d.paths)
  /\ \E s \in NodeOf(d, d.question.source) : \A a \in DOMAIN d.paths : Trail(d, d.paths[a], s, a)

Documented(d) ==
  d.question.command = "path" /\ d.answer # << >> =>
    \E s \in NodeOf(d, d.question.source), t \in NodeOf(d, d.question.target) :
      IsWalk(d, d.answer, s, t) /\ Len(d.answer) <= d.question.max_hops

InHand(d) ==
  /\ d.step = "edges" => Asked(d)
  /\ d.step = "read" => Read(d)
  /\ d.step = "search" => Traced(d)
  /\ d.step = "answered" => Documented(d)

SearchInv ==
  /\ \A e \in relationships : e.from \in Actors /\ e.to \in Actors
  /\ DOMAIN reader = Readers
  /\ \A r \in Readers : InHand(reader[r])

LEMMA SearchGivesDocumented == SearchInv => PathsDocumented
  BY DEF SearchInv, InHand, Documented, PathsDocumented, Answered

LEMMA AppendTrail ==
  ASSUME NEW d, NEW path, NEW s, NEW a, NEW b, Trail(d, path, s, a), <<a, b>> \in d.edges,
         d.question.max_hops \in Nat, Len(path) < d.question.max_hops
  PROVE  Trail(d, Append(path, <<a, b>>), s, b)
<1> DEFINE n == Len(path)
           longer == Append(path, <<a, b>>)
<1>1. path \in Seq(d.edges) /\ n \in Nat
  BY LenProperties DEF Trail
<1>2. /\ longer \in Seq(d.edges) /\ Len(longer) = n + 1 /\ longer # << >>
      /\ DOMAIN longer = 1 .. n + 1
      /\ longer[n + 1] = <<a, b>>
      /\ \A i \in 1 .. n : longer[i] = path[i]
  BY <1>1, AppendProperties, LenProperties
<1> HIDE DEF longer
<1>3. CASE path = << >>
  BY <1>1, <1>2, <1>3 DEF Trail, IsWalk
<1>4. CASE path # << >>
  <2>1. /\ n >= 1 /\ DOMAIN path = 1 .. n
        /\ path[1][1] = s /\ path[n][2] = a
        /\ \A i \in 1 .. n : path[i] \in d.edges
        /\ \A i \in 1 .. n - 1 : path[i][2] = path[i + 1][1]
    BY <1>1, <1>4, LenProperties, EmptySeq DEF Trail, IsWalk
  <2>2. longer[1][1] = s /\ longer[n + 1][2] = b
    BY <1>1, <1>2, <2>1
  <2>3. \A i \in 1 .. n + 1 : longer[i] \in d.edges
    BY <1>1, <1>2, <2>1
  <2>4. \A i \in 1 .. n : longer[i][2] = longer[i + 1][1]
    BY <1>1, <1>2, <2>1
  <2> QED
    BY <1>1, <1>2, <2>2, <2>3, <2>4 DEF Trail, IsWalk
<1> QED
  BY <1>3, <1>4

LEMMA SeqWidens ==
  ASSUME NEW S, NEW T, S \subseteq T, NEW seq \in Seq(S)
  PROVE  seq \in Seq(T)
<1>1. Len(seq) \in Nat /\ seq \in [1 .. Len(seq) -> S]
  BY LenProperties
<1>2. seq \in [1 .. Len(seq) -> T]
  BY <1>1
<1> QED
  BY <1>1, <1>2, IsASeq

\* A trail depends on the edges and the question only.
LEMMA SameTrail ==
  ASSUME NEW d, NEW c, d.edges = c.edges, d.question = c.question,
         NEW path, NEW s, NEW a, Trail(c, path, s, a)
  PROVE  Trail(d, path, s, a)
  BY DEF Trail, IsWalk

\* The analysis d is of the nodes that c read.
OfSameNodes(d, c) == d.nodes = c.nodes

LEMMA SameNodes ==
  ASSUME NEW d, NEW c, OfSameNodes(d, c), NEW handle
  PROVE  NodeOf(d, handle) = NodeOf(c, handle)
  BY DEF NodeOf, OfSameNodes

LEMMA EdgesArePairs == ASSUME SearchInv, NEW case PROVE EdgesOf(case) \subseteq Actors \X Actors
  BY DEF EdgesOf, SearchInv

\* A step that gives one reader something sound keeps everything sound.
LEMMA HandOver ==
  ASSUME SearchInv, NEW r \in Readers, NEW d, InHand(d), reader' = [reader EXCEPT ![r] = d],
         UNCHANGED history_vars
  PROVE  SearchInv'
<1>1. DOMAIN reader' = Readers /\ \A x \in Readers : reader'[x] = IF x = r THEN d ELSE reader[x]
  BY DEF SearchInv
<1> QED
  BY <1>1 DEF SearchInv, history_vars

LEMMA LookStep ==
  ASSUME SearchInv, NEW r \in Readers, Look(r)
  PROVE  SearchInv'
<1> DEFINE old == reader[r]
           q == old.question
<1>0. InHand(old) /\ UNCHANGED history_vars
  BY LooksOnly DEF SearchInv
<1>1. CASE ReadNodes(r)
  <2>1. PICK c \in Questions :
          reader' = [reader EXCEPT ![r] =
            [step |-> "edges", question |-> c, seen |-> <<Len(observations)>>,
             nodes |-> [i \in {j \in 1 .. Len(actors) : InCase(c.case, actors[j])} |-> actors[i]]]]
    BY <1>1 DEF ReadNodes
  <2> DEFINE d == [step |-> "edges", question |-> c, seen |-> <<Len(observations)>>,
                   nodes |-> [i \in {j \in 1 .. Len(actors) : InCase(c.case, actors[j])} |-> actors[i]]]
  <2>2. InHand(d)
    BY DEF InHand, Asked
  <2> QED
    BY <2>1, <2>2, <1>0, HandOver
<1>2. CASE ReadEdges(r)
  <2> DEFINE d == [step |-> "read", question |-> q, nodes |-> old.nodes,
                   seen |-> Append(old.seen, Len(observations)), edges |-> EdgesOf(q.case)]
  <2>1. reader' = [reader EXCEPT ![r] = d] /\ old.step = "edges"
    BY <1>2 DEF ReadEdges, SearchInv
  <2>2. InHand(d)
    BY <1>0, <2>1, EdgesArePairs DEF InHand, Asked, Read
  <2> QED
    BY <2>1, <2>2, <1>0, HandOver
<1>3. CASE Communities(r) \/ NoSuchNode(r) \/ Exhausted(r)
  <2>1. PICK answer :
          /\ reader' = [reader EXCEPT ![r] =
               [step |-> "answered", question |-> q, seen |-> old.seen, nodes |-> old.nodes,
                edges |-> old.edges, answer |-> answer]]
          /\ q.command = "path" => answer = << >>
    BY <1>3 DEF Communities, NoSuchNode, Exhausted, Answer, SearchInv
  <2> DEFINE d == [step |-> "answered", question |-> q, seen |-> old.seen, nodes |-> old.nodes,
                   edges |-> old.edges, answer |-> answer]
  <2>2. InHand(d)
    BY <2>1 DEF InHand, Documented
  <2> QED
    BY <2>1, <2>2, <1>0, HandOver
<1>4. CASE BeginSearch(r)
  <2>1. PICK s \in NodeOf(old, q.source), t \in NodeOf(old, q.target) :
          Search(r, t, <<s>>, [a \in {s} |-> << >>])
    BY <1>4 DEF BeginSearch
  <2> DEFINE paths == [a \in {s} |-> << >>]
             d == [step |-> "search", question |-> q, seen |-> old.seen, nodes |-> old.nodes,
                   edges |-> old.edges, target |-> t, queue |-> <<s>>, paths |-> paths]
  <2>2. reader' = [reader EXCEPT ![r] = d]
    BY <2>1 DEF Search, SearchInv
  <2>3. Read(old) /\ q.command = "path" /\ q.max_hops \in 1 .. 8
    BY <1>0, <1>4, QuestionAssumption DEF BeginSearch, InHand, Read, Asked
  <2>4. Trail(d, paths[s], s, s)
    BY <2>3, EmptySeq DEF Trail
  <2>5. d.queue \in Seq(DOMAIN d.paths)
    OBVIOUS
  <2>6. t \in NodeOf(d, q.target) /\ s \in NodeOf(d, q.source)
    BY DEF NodeOf
  <2>7. Traced(d)
    BY <2>3, <2>4, <2>5, <2>6 DEF Traced, Read, Asked
  <2>8. InHand(d)
    BY <2>7 DEF InHand
  <2> QED
    BY <2>2, <2>8, <1>0, HandOver
<1> DEFINE cur == Current(r)
<1>5. CASE Found(r)
  <2> DEFINE d == [step |-> "answered", question |-> q, seen |-> old.seen, nodes |-> old.nodes,
                   edges |-> old.edges, answer |-> old.paths[cur]]
  <2>1. reader' = [reader EXCEPT ![r] = d] /\ old.queue # << >> /\ cur = old.target /\ Traced(old)
    BY <1>0, <1>5 DEF Found, Answer, PathTo, SearchInv, Searching, InHand
  <2>2. cur \in DOMAIN old.paths
    BY <2>1, HeadTailProperties DEF Traced, Current
  <2>3. PICK s \in NodeOf(old, q.source) : Trail(old, old.paths[cur], s, cur)
    BY <2>1, <2>2 DEF Traced
  <2>4. cur \in NodeOf(d, q.target) /\ s \in NodeOf(d, q.source)
    <3>1. OfSameNodes(d, old)
      BY DEF OfSameNodes
    <3>2. cur \in NodeOf(old, q.target) /\ s \in NodeOf(old, q.source)
      BY <2>1 DEF Traced
    <3> HIDE DEF d, old, q, cur
    <3>3. NodeOf(d, q.target) = NodeOf(old, q.target)
          /\ NodeOf(d, q.source) = NodeOf(old, q.source)
      BY <3>1, SameNodes, Zenon
    <3> QED
      BY <3>2, <3>3, Zenon
  <2>5. ASSUME d.answer # << >> PROVE IsWalk(d, d.answer, s, cur) /\ Len(d.answer) <= q.max_hops
    BY <2>3, <2>5 DEF Trail, IsWalk
  <2>6. Documented(d)
    BY <2>4, <2>5 DEF Documented
  <2> QED
    BY <2>1, <2>6, <1>0, HandOver DEF InHand
<1>6. CASE Expand(r)
  <2> DEFINE new == IF AtBound(r) THEN {} ELSE New(r)
             paths == [a \in DOMAIN old.paths \cup new |->
                         IF a \in new THEN Append(old.paths[cur], <<cur, a>>) ELSE old.paths[a]]
  <2>1. PICK order \in Orders(new) :
          Search(r, old.target, Tail(old.queue) \o order, paths)
    BY <1>6 DEF Expand
  <2>2. old.queue # << >> /\ Traced(old)
    BY <1>0, <1>6 DEF Expand, Searching, InHand
  <2> DEFINE d == [step |-> "search", question |-> q, seen |-> old.seen, nodes |-> old.nodes,
                   edges |-> old.edges, target |-> old.target,
                   queue |-> Tail(old.queue) \o order, paths |-> paths]
  <2>3. reader' = [reader EXCEPT ![r] = d]
    BY <2>1 DEF Search, SearchInv
  <2>4. cur \in DOMAIN old.paths /\ Tail(old.queue) \in Seq(DOMAIN old.paths)
    BY <2>2, HeadTailProperties DEF Traced, Current
  <2>5. PICK s \in NodeOf(old, q.source) : \A a \in DOMAIN old.paths : Trail(old, old.paths[a], s, a)
    BY <2>2 DEF Traced
  <2>6. q.max_hops \in Nat /\ Len(old.paths[cur]) \in Nat
    <3>1. q.max_hops \in 1 .. 8
      BY <2>2, QuestionAssumption DEF Traced, Read, Asked
    <3>2. old.paths[cur] \in Seq(old.edges)
      BY <2>4, <2>5 DEF Trail
    <3> QED
      BY <3>1, <3>2, LenProperties
  <2>7. ASSUME NEW a \in new PROVE <<cur, a>> \in old.edges /\ Len(old.paths[cur]) < q.max_hops
    <3>1. PICK e \in old.edges : e[1] = cur /\ a = e[2]
      BY <2>7 DEF New
    <3>2. e = <<e[1], e[2]>>
      BY <2>2, <3>1 DEF Traced, Read
    <3>3. ~AtBound(r)
      BY <2>7
    <3> QED
      BY <2>6, <3>1, <3>2, <3>3 DEF AtBound, PathTo
  <2>8. ASSUME NEW a \in DOMAIN old.paths \cup new PROVE Trail(old, paths[a], s, a)
    <3>1. CASE a \in new
      <4>1. Trail(old, Append(old.paths[cur], <<cur, a>>), s, a)
        BY <2>4, <2>5, <2>6, <2>7, <3>1, AppendTrail
      <4> QED
        BY <3>1, <4>1
    <3>2. CASE a \notin new
      BY <2>5, <2>8, <3>2
    <3> QED
      BY <3>1, <3>2
  <2>9. order \in Seq(new)
    <3>1. new \subseteq Actors
      BY <2>2 DEF New, Traced, Read
    <3>2. Cardinality(new) \in Nat
      BY <3>1, QuestionAssumption, FS_Subset, FS_CardinalityType
    <3>3. order \in [1 .. Cardinality(new) -> new]
      BY <2>1 DEF Orders
    <3> HIDE DEF new
    <3> QED
      BY <3>2, <3>3
  <2>10. d.queue \in Seq(DOMAIN paths)
    <3> DEFINE known == DOMAIN old.paths
               all == DOMAIN paths
               rest == Tail(old.queue)
    <3>0. rest \in Seq(known)
      BY <2>4
    <3>1. known \subseteq all /\ new \subseteq all
      OBVIOUS
    <3> HIDE DEF all, known, new, paths, rest
    <3>2. rest \in Seq(all)
      BY <3>0, <3>1, SeqWidens
    <3>3. order \in Seq(all)
      BY <2>9, <3>1, SeqWidens
    <3>4. rest \o order \in Seq(all)
      BY <3>2, <3>3, ConcatProperties
    <3> QED
      BY <3>4 DEF all, rest
  <2>11. \A a \in DOMAIN d.paths : Trail(d, d.paths[a], s, a)
    <3>1. d.edges = old.edges /\ d.question = q /\ d.paths = paths
      OBVIOUS
    <3>2. DOMAIN paths = DOMAIN old.paths \cup new
      OBVIOUS
    <3> SUFFICES ASSUME NEW a \in DOMAIN old.paths \cup new PROVE Trail(d, paths[a], s, a)
      BY <3>1, <3>2
    <3>3. Trail(old, paths[a], s, a)
      BY <2>8
    <3> HIDE DEF d, paths, new, old
    <3> QED
      BY <3>1, <3>3, SameTrail
  <2>12. d.target \in NodeOf(d, q.target) /\ s \in NodeOf(d, q.source)
    <3>1. OfSameNodes(d, old) /\ d.target = old.target
      BY DEF OfSameNodes
    <3>2. old.target \in NodeOf(old, q.target) /\ s \in NodeOf(old, q.source)
      BY <2>2 DEF Traced
    <3> HIDE DEF d, old, q
    <3>3. NodeOf(d, q.target) = NodeOf(old, q.target)
          /\ NodeOf(d, q.source) = NodeOf(old, q.source)
      BY <3>1, SameNodes
    <3> QED
      BY <3>1, <3>2, <3>3, Zenon
  <2>13. Traced(d)
    BY <2>2, <2>10, <2>11, <2>12 DEF Traced, Read, Asked
  <2> QED
    BY <2>3, <2>13, <1>0, HandOver DEF InHand
<1> QED
  BY <1>1, <1>2, <1>3, <1>4, <1>5, <1>6 DEF Look

LEMMA SearchStep == SearchInv /\ [ViewerNext]_viewer_vars => SearchInv'
<1> SUFFICES ASSUME SearchInv, [ViewerNext]_viewer_vars PROVE SearchInv'
  OBVIOUS
<1>1. CASE UNCHANGED <<history_vars, reader>>
  BY <1>1 DEF SearchInv, history_vars
<1>2. ASSUME NEW p \in Payloads, Observe(p), UNCHANGED reader PROVE SearchInv'
  <2>1. Author(p) \in Actors /\ Named(p) \subseteq Actors
    BY PayloadAssumption, ElementOfSeq, EmptySeq, LenProperties DEF Author, Named
  <2>2. ASSUME NEW n, NEW e \in Linked(p, n) PROVE e.from \in Actors /\ e.to \in Actors
    <3>1. p.switch => p.names[Len(p.names)] \in Actors
      BY PayloadAssumption, LenProperties
    <3> QED
      BY <2>1, <2>2, <3>1 DEF Linked
  <2> QED
    BY <1>2, <2>2 DEF Observe, SearchInv
<1> QED
  BY <1>1, <1>2, LookStep DEF ViewerNext, Add, viewer_vars

LEMMA SearchInitially == ViewerInit => SearchInv
  BY DEF ViewerInit, HistoryInit, SearchInv, InHand, Waiting

\* Every path /graph path shows is made of documented edges, joins the two
\* accounts and keeps to max_hops, whatever observations come in meanwhile
\* (GraphViewer.shortest_path over what get_case_graph read).
THEOREM PathsAreDocumented == ViewerSpec => []PathsDocumented
<1>1. ViewerSpec => []SearchInv
  BY SearchInitially, SearchStep, PTL DEF ViewerSpec
<1> QED
  BY <1>1, SearchGivesDocumented, PTL


-----------------------------------------------------------------------------
(* Recursion and induction over the numbers, without an operator parameter  *)

\* A set of numbers with 0 and the successor of each is all of them: if one
\* were missing, "one less" would map the missing ones up to it, of which
\* there are finitely many, into themselves but not onto the last.
LEMMA CountingUp ==
  ASSUME NEW S \in SUBSET Nat, 0 \in S, \A n \in S : n + 1 \in S
  PROVE  S = Nat
<1> SUFFICES ASSUME NEW last \in Nat, last \notin S PROVE FALSE
  OBVIOUS
<1> DEFINE U == {n \in 0 .. last : n \notin S}
           before == [n \in U |-> n - 1]
           V == {n - 1 : n \in U}
<1>1. IsFiniteSet(U)
  <2>1. IsFiniteSet(0 .. last) /\ U \in SUBSET (0 .. last)
    BY FS_Interval
  <2>2. QED
    BY <2>1, FS_Subset
<1>2. V \in SUBSET U
  <2> SUFFICES ASSUME NEW n \in U PROVE n - 1 \in U
    OBVIOUS
  <2>1. n \in Nat /\ n # 0 /\ n <= last
    OBVIOUS
  <2>2. n - 1 \in 0 .. last /\ (n - 1) + 1 = n
    BY <2>1
  <2>3. QED
    BY <2>2
<1>3. before \in Surjection(U, V) /\ before \in Injection(U, V)
  <2>1. before \in [U -> V]
    OBVIOUS
  <2>2. \A v \in V : \E n \in U : before[n] = v
    OBVIOUS
  <2>3. \A m, n \in U : before[m] = before[n] => m = n
    OBVIOUS
  <2>4. QED
    BY <2>1, <2>2, <2>3 DEF Surjection, Injection, IsInjective
<1>4. Cardinality(V) = Cardinality(U)
  BY <1>1, <1>3, FS_Surjection
<1>5. U = V
  BY <1>1, <1>2, <1>4, FS_Subset
<1>6. last \in U
  OBVIOUS
<1>7. last \notin V
  OBVIOUS
<1>8. QED
  BY <1>5, <1>6, <1>7

\* f holds the nodes within 0 .. k steps of a, as Within defines them.
IsBall(f, d, a, k) ==
  f = [n \in 0 .. k |->
         IF n = 0 THEN {a}
         ELSE f[n - 1] \cup {e[2] : e \in {x \in d.edges : x[1] \in f[n - 1]}}]

\* The recursion of Within has a solution.
LEMMA BallExists ==
  ASSUME NEW d, NEW a, NEW k \in Nat
  PROVE  \E f : IsBall(f, d, a, k)
<1> DEFINE S == {n \in Nat : \E f : IsBall(f, d, a, n)}
           Step(X) == X \cup {e[2] : e \in {x \in d.edges : x[1] \in X}}
<1>1. 0 \in S
  <2> DEFINE f == [n \in 0 .. 0 |-> {a}]
  <2>1. IsBall(f, d, a, 0)
    BY DEF IsBall
  <2>2. QED
    BY <2>1
<1>2. ASSUME NEW n \in S PROVE n + 1 \in S
  <2>1. PICK f : IsBall(f, d, a, n)
    BY <1>2
  <2> DEFINE g == [m \in 0 .. n + 1 |-> IF m = n + 1 THEN Step(f[n]) ELSE f[m]]
  <2>2. /\ n \in Nat
        /\ \A m \in 0 .. n : f[m] = IF m = 0 THEN {a} ELSE Step(f[m - 1])
    BY <2>1 DEF IsBall
  <2>3. \A m \in 0 .. n + 1 : g[m] = IF m = 0 THEN {a} ELSE Step(g[m - 1])
    <3> HIDE DEF Step
    <3> SUFFICES ASSUME NEW m \in 0 .. n + 1
                 PROVE  g[m] = IF m = 0 THEN {a} ELSE Step(g[m - 1])
      OBVIOUS
    <3>1. CASE m = n + 1
      <4>1. m - 1 = n /\ n \in 0 .. n + 1 /\ n # n + 1
        BY <2>2, <3>1
      <4>2. g[m] = Step(f[n]) /\ g[m - 1] = f[n]
        BY <3>1, <4>1
      <4>3. m # 0
        BY <2>2, <3>1
      <4>4. QED
        BY <4>2, <4>3
    <3>2. CASE m # n + 1
      <4>1. m \in 0 .. n
        BY <2>2, <3>2
      <4>2. g[m] = f[m] /\ (m # 0 => g[m - 1] = f[m - 1])
        BY <2>2, <4>1
      <4>3. QED
        BY <2>2, <4>1, <4>2
    <3>3. QED
      BY <3>1, <3>2
  <2>4. IsBall(g, d, a, n + 1)
    <3> DEFINE h == [m \in 0 .. n + 1 |-> IF m = 0 THEN {a} ELSE Step(g[m - 1])]
    <3>1. g = h
      <4> HIDE DEF Step
      <4>1. QED
        BY <2>3
    <3> HIDE DEF g
    <3>2. QED
      BY <3>1 DEF IsBall
  <2>5. QED
    BY <2>2, <2>4
<1>3. S = Nat
  <2> HIDE DEF S
  <2>1. S \in SUBSET Nat
    BY DEF S
  <2>2. QED
    BY <1>1, <1>2, <2>1, CountingUp
<1>4. QED
  BY <1>3

\* Within is what its recursion says.
LEMMA WithinIsBall ==
  ASSUME NEW d, NEW a, NEW k \in Nat
  PROVE  \E f : IsBall(f, d, a, k) /\ Within(d, a, k) = f[k]
<1> DEFINE ball == CHOOSE f : IsBall(f, d, a, k)
<1>1. IsBall(ball, d, a, k)
  BY BallExists
<1>2. Within(d, a, k) = ball[k]
  BY DEF Within, IsBall
<1>3. QED
  BY <1>1, <1>2

-----------------------------------------------------------------------------
(* Breadth first: no shorter path than the one shown                        *)

\* If the nodes found at less than a distance have led to all their successors,
\* all nodes within that distance are found, and found that near.
LEMMA SweptBall ==
  ASSUME NEW c, NEW edges, NEW paths, NEW s, NEW limit \in Nat, NEW k \in Nat, k <= limit,
         c.edges = edges, s \in DOMAIN paths, Len(paths[s]) = 0,
         \A a \in DOMAIN paths : Len(paths[a]) \in Nat,
         \A a \in DOMAIN paths : Len(paths[a]) < limit =>
           \A e \in edges : e[1] = a =>
             e[2] \in DOMAIN paths /\ Len(paths[e[2]]) <= Len(paths[a]) + 1
  PROVE  \A t \in Within(c, s, k) : t \in DOMAIN paths /\ Len(paths[t]) <= k
<1>1. PICK f : IsBall(f, c, s, k) /\ Within(c, s, k) = f[k]
  BY WithinIsBall
<1>2. \A n \in 0 .. k :
        f[n] = IF n = 0 THEN {s}
               ELSE f[n - 1] \cup {e[2] : e \in {x \in edges : x[1] \in f[n - 1]}}
  BY <1>1 DEF IsBall
<1> DEFINE S == {n \in Nat : n <= k =>
                   \A t \in f[n] : t \in DOMAIN paths /\ Len(paths[t]) <= n}
<1>3. 0 \in S
  <2>1. 0 \in 0 .. k
    OBVIOUS
  <2>2. f[0] = {s}
    BY <1>2, <2>1
  <2>3. \A t \in f[0] : t \in DOMAIN paths /\ Len(paths[t]) <= 0
    BY <2>2
  <2> QED
    BY <2>3
<1>4. ASSUME NEW n \in S PROVE n + 1 \in S
  <2> SUFFICES ASSUME n + 1 <= k, NEW t \in f[n + 1]
               PROVE  t \in DOMAIN paths /\ Len(paths[t]) <= n + 1
    OBVIOUS
  <2>1. n \in Nat /\ n <= k /\ n < limit /\ n + 1 \in 0 .. k /\ (n + 1) - 1 = n /\ n + 1 # 0
    OBVIOUS
  <2>2. \A u \in f[n] : u \in DOMAIN paths /\ Len(paths[u]) <= n
    BY <1>4, <2>1
  <2>3. t \in f[n] \/ \E e \in edges : e[1] \in f[n] /\ t = e[2]
    <3>1. f[n + 1] = IF n + 1 = 0 THEN {s}
                     ELSE f[(n + 1) - 1]
                            \cup {e[2] : e \in {x \in edges : x[1] \in f[(n + 1) - 1]}}
      BY <1>2, <2>1
    <3>2. f[n + 1] = f[n] \cup {e[2] : e \in {x \in edges : x[1] \in f[n]}}
      BY <2>1, <3>1
    <3> QED
      BY <3>2
  <2>4. CASE t \in f[n]
    BY <2>1, <2>2, <2>4
  <2>5. CASE t \notin f[n]
    <3>1. PICK e \in edges : e[1] \in f[n] /\ t = e[2]
      BY <2>3, <2>5
    <3>2. e[1] \in DOMAIN paths /\ Len(paths[e[1]]) <= n /\ Len(paths[e[1]]) \in Nat
      BY <2>2, <3>1
    <3>3. Len(paths[e[1]]) < limit
      BY <2>1, <3>2
    <3>4. t \in DOMAIN paths /\ Len(paths[t]) <= Len(paths[e[1]]) + 1
      BY <3>1, <3>2, <3>3
    <3>5. Len(paths[t]) \in Nat
      BY <3>4
    <3> QED
      BY <2>1, <3>2, <3>4, <3>5
  <2> QED
    BY <2>4, <2>5
<1>5. S = Nat
  <2> HIDE DEF S
  <2>1. S \in SUBSET Nat
    BY DEF S
  <2> QED
    BY <1>3, <1>4, <2>1, CountingUp
<1> QED
  BY <1>1, <1>5

Awaiting(d) == {d.queue[i] : i \in DOMAIN d.queue}
Hops(d, a) == Len(d.paths[a])

\* The queue is in order of distance, at most two of them; what has left it
\* is no farther, has led to all its successors and is not the target.
Layered(d, s) ==
  /\ s \in DOMAIN d.paths /\ d.paths[s] = << >>
  /\ \A a \in DOMAIN d.paths \ Awaiting(d) :
       Hops(d, a) < d.question.max_hops =>
         \A e \in d.edges : e[1] = a =>
           e[2] \in DOMAIN d.paths /\ Hops(d, e[2]) <= Hops(d, a) + 1
  /\ \A i, j \in DOMAIN d.queue : i <= j =>
       /\ Hops(d, d.queue[i]) <= Hops(d, d.queue[j])
       /\ Hops(d, d.queue[j]) <= Hops(d, d.queue[i]) + 1
  /\ \A a \in DOMAIN d.paths \ Awaiting(d), i \in DOMAIN d.queue :
       Hops(d, a) <= Hops(d, d.queue[i])
  /\ d.target \in DOMAIN d.paths => d.target \in Awaiting(d)

Shortest(d) ==
  \A s \in NodeOf(d, d.question.source), t \in NodeOf(d, d.question.target) :
    IF d.answer = << >> THEN s = t \/ t \notin Within(d, s, d.question.max_hops)
    ELSE t \notin Within(d, s, Len(d.answer) - 1)

Sought(d) ==
  /\ d.step # "idle" => DOMAIN d.nodes \subseteq Int
  /\ d.step = "search" => \E s \in NodeOf(d, d.question.source) : Layered(d, s)
  /\ d.step = "answered" /\ d.question.command = "path" => Shortest(d)

LayerInv == \A r \in Readers : Sought(reader[r])

\* A handle stands for one node.
LEMMA OneNode ==
  ASSUME NEW d, DOMAIN d.nodes \subseteq Int, NEW h, NEW a \in NodeOf(d, h), NEW b \in NodeOf(d, h)
  PROVE  a = b
<1>1. PICK i \in DOMAIN d.nodes :
        /\ a = d.nodes[i] /\ HandleOf[d.nodes[i]] = h
        /\ \A j \in DOMAIN d.nodes : HandleOf[d.nodes[j]] = h => j <= i
  BY DEF NodeOf
<1>2. PICK j \in DOMAIN d.nodes :
        /\ b = d.nodes[j] /\ HandleOf[d.nodes[j]] = h
        /\ \A k \in DOMAIN d.nodes : HandleOf[d.nodes[k]] = h => k <= j
  BY DEF NodeOf
<1>3. i <= j /\ j <= i /\ i \in Int /\ j \in Int
  BY <1>1, <1>2
<1> QED
  BY <1>1, <1>2, <1>3

\* A reader that gets something sound keeps everybody's search in order.
LEMMA LayerHandOver ==
  ASSUME SearchInv, LayerInv, NEW r \in Readers, NEW d, Sought(d),
         reader' = [reader EXCEPT ![r] = d]
  PROVE  LayerInv'
<1> SUFFICES ASSUME NEW x \in Readers PROVE Sought(reader'[x])
  BY DEF LayerInv
<1>1. reader'[x] = d \/ reader'[x] = reader[x]
  BY DEF SearchInv
<1> QED
  BY <1>1 DEF LayerInv

\* What a search holds is typed.
LEMMA SearchTyped ==
  ASSUME NEW d, Traced(d)
  PROVE  /\ d.question.max_hops \in Nat
         /\ d.queue \in Seq(DOMAIN d.paths) /\ Len(d.queue) \in Nat
         /\ DOMAIN d.queue = 1 .. Len(d.queue)
         /\ \A i \in DOMAIN d.queue : d.queue[i] \in DOMAIN d.paths
         /\ \A a \in DOMAIN d.paths :
              Hops(d, a) \in Nat /\ Hops(d, a) <= d.question.max_hops
<1>1. d.question.max_hops \in 1 .. 8
  BY QuestionAssumption DEF Traced, Read, Asked
<1>2. d.queue \in Seq(DOMAIN d.paths)
  BY DEF Traced
<1>3. \A a \in DOMAIN d.paths :
        d.paths[a] \in Seq(d.edges) /\ Len(d.paths[a]) <= d.question.max_hops
  BY DEF Traced, Trail
<1>4. \A a \in DOMAIN d.paths : Len(d.paths[a]) \in Nat
  BY <1>3, LenProperties
<1>5. Len(d.queue) \in Nat /\ DOMAIN d.queue = 1 .. Len(d.queue)
      /\ \A i \in DOMAIN d.queue : d.queue[i] \in DOMAIN d.paths
  <2> DEFINE q == d.queue
             known == DOMAIN d.paths
  <2>1. q \in Seq(known)
    BY <1>2
  <2> HIDE DEF q, known
  <2>2. Len(q) \in Nat /\ DOMAIN q = 1 .. Len(q)
    BY <2>1, LenProperties
  <2>3. ASSUME NEW i \in 1 .. Len(q) PROVE q[i] \in known
    BY <2>1, ElementOfSeq
  <2> QED
    BY <2>2, <2>3 DEF q, known
<1> QED
  BY <1>1, <1>2, <1>3, <1>4, <1>5 DEF Hops

\* The nodes a visit to node a queues, and the paths the search then holds.
Fresh(d, a) ==
  IF Hops(d, a) >= d.question.max_hops THEN {}
  ELSE {e[2] : e \in {x \in d.edges : x[1] = a}} \ DOMAIN d.paths

Longer(d, a, found) ==
  [b \in DOMAIN d.paths \cup found |->
     IF b \in found THEN Append(d.paths[a], <<a, b>>) ELSE d.paths[b]]

\* Search c follows search d by visiting node a and queueing what it found, in
\* this order.
Visited(d, c, a, found, order) ==
  /\ Traced(d) /\ d.queue # << >> /\ a = Head(d.queue) /\ a # d.target
  /\ found = Fresh(d, a)
  /\ order \in Seq(found) /\ \A b \in found : \E i \in DOMAIN order : order[i] = b
  /\ c.queue = Tail(d.queue) \o order /\ c.paths = Longer(d, a, found)
  /\ c.edges = d.edges /\ c.question = d.question /\ c.target = d.target

\* One turn of the loop: the head leaves the queue, its new successors join it
\* one step farther away.
LEMMA ExpandLayers ==
  ASSUME NEW d, NEW c, NEW s, NEW cur, NEW new, NEW order,
         Layered(d, s), Visited(d, c, cur, new, order)
  PROVE  Layered(c, s)
<1>0. /\ new \cap DOMAIN d.paths = {}
      /\ DOMAIN c.paths = DOMAIN d.paths \cup new
      /\ \A a \in DOMAIN d.paths : c.paths[a] = d.paths[a]
      /\ \A a \in new : c.paths[a] = Append(d.paths[cur], <<cur, a>>)
  <2>1. new = Fresh(d, cur) /\ c.paths = Longer(d, cur, new)
    BY DEF Visited
  <2>2. new \cap DOMAIN d.paths = {}
    BY <2>1 DEF Fresh
  <2> QED
    BY <2>1, <2>2 DEF Longer
<1> SUFFICES ASSUME Traced(d), d.queue # << >>, cur = Head(d.queue), cur # d.target,
                    new = IF Hops(d, cur) >= d.question.max_hops THEN {}
                          ELSE {e[2] : e \in {x \in d.edges : x[1] = cur}} \ DOMAIN d.paths,
                    order \in Seq(new), \A a \in new : \E i \in DOMAIN order : order[i] = a,
                    c.queue = Tail(d.queue) \o order, c.edges = d.edges,
                    c.question = d.question, c.target = d.target,
                    c.paths = [a \in DOMAIN d.paths \cup new |->
                                 IF a \in new THEN Append(d.paths[cur], <<cur, a>>)
                                 ELSE d.paths[a]]
             PROVE  Layered(c, s)
  BY DEF Visited, Fresh, Longer
<1> DEFINE q == d.queue
           len == Len(d.queue)
           m == Len(order)
           near == Hops(d, cur)
           known == DOMAIN d.paths
<1>1. /\ q \in Seq(known) /\ len \in Nat /\ DOMAIN q = 1 .. len
      /\ \A i \in DOMAIN q : q[i] \in known
      /\ \A a \in known : Hops(d, a) \in Nat
      /\ d.question.max_hops \in Nat
  BY SearchTyped
<1>2. /\ len >= 1 /\ 1 \in DOMAIN q /\ cur = q[1] /\ cur \in known /\ near \in Nat
  <2>1. len # 0
    BY <1>1, EmptySeq
  <2>2. cur = q[1]
    BY <1>1, HeadTailProperties
  <2> QED
    BY <1>1, <2>1, <2>2
<1>3. /\ m \in Nat /\ DOMAIN order = 1 .. m
      /\ \A i \in DOMAIN order : order[i] \in new
  BY LenProperties, ElementOfSeq
<1>4. new \cap known = {}
  BY <1>0, Zenon
<1>5. /\ DOMAIN c.paths = known \cup new
      /\ \A a \in known : Hops(c, a) = Hops(d, a)
      /\ \A a \in new : Hops(c, a) = near + 1
  <2>1. d.paths[cur] \in Seq(d.edges)
    BY <1>2 DEF Traced, Trail
  <2>2. \A a \in new : <<cur, a>> \in d.edges
    <3> SUFFICES ASSUME NEW a \in new PROVE <<cur, a>> \in d.edges
      OBVIOUS
    <3>1. PICK e \in d.edges : e[1] = cur /\ a = e[2]
      OBVIOUS
    <3>2. e = <<e[1], e[2]>>
      BY <3>1 DEF Traced, Read
    <3> QED
      BY <3>1, <3>2
  <2>3. ASSUME NEW a \in new
        PROVE  Len(Append(d.paths[cur], <<cur, a>>)) = near + 1
    <3> DEFINE path == d.paths[cur]
               all == d.edges
               x == <<cur, a>>
    <3>1. path \in Seq(all) /\ x \in all
      BY <2>1, <2>2
    <3>2. near = Len(path)
      BY DEF Hops
    <3> HIDE DEF path, all, x, near
    <3>3. Len(Append(path, x)) = Len(path) + 1
      BY <3>1, AppendProperties
    <3> QED
      BY <3>2, <3>3 DEF path, x
  <2>4. ASSUME NEW a \in known PROVE Hops(c, a) = Hops(d, a)
    BY <1>0, Zenon DEF Hops
  <2>5. ASSUME NEW a \in new PROVE Hops(c, a) = near + 1
    <3>1. Hops(c, a) = Len(Append(d.paths[cur], <<cur, a>>))
      BY <1>0, Zenon DEF Hops
    <3> HIDE DEF near
    <3> QED
      BY <2>3, <3>1, Zenon
  <2> QED
    BY <1>0, <2>4, <2>5, Zenon
<1>6. /\ DOMAIN c.queue = 1 .. (len - 1) + m
      /\ \A i \in 1 .. len - 1 : c.queue[i] = q[i + 1]
      /\ \A i \in len .. (len - 1) + m : c.queue[i] = order[i - (len - 1)]
  <2> DEFINE rest == Tail(q)
             all == known \cup new
  <2>0. c.queue = rest \o order /\ len = Len(q) /\ m = Len(order)
    OBVIOUS
  <2> HIDE DEF q, len, m, known
  <2>1. /\ rest \in Seq(known) /\ Len(rest) = len - 1
        /\ \A i \in 1 .. len - 1 : rest[i] = q[i + 1]
    <3>1. q # << >>
      BY <1>1, <1>2, EmptySeq
    <3>2. rest \in Seq(known) /\ Len(rest) = len - 1
      BY <1>1, <2>0, <3>1, HeadTailProperties
    <3> QED
      BY <1>1, <2>0, <3>1, <3>2, HeadTailProperties
  <2>2. rest \in Seq(all) /\ order \in Seq(all)
    <3>1. known \subseteq all /\ new \subseteq all
      OBVIOUS
    <3> HIDE DEF rest, all
    <3> QED
      BY <2>1, <3>1, SeqWidens
  <2> HIDE DEF rest, all
  <2>3. /\ Len(rest \o order) = (len - 1) + m /\ rest \o order \in Seq(all)
        /\ \A i \in 1 .. (len - 1) + m :
              (rest \o order)[i] = IF i <= len - 1 THEN rest[i] ELSE order[i - (len - 1)]
    <3>1. /\ Len(rest \o order) = Len(rest) + Len(order) /\ rest \o order \in Seq(all)
          /\ \A i \in 1 .. Len(rest) + Len(order) :
                (rest \o order)[i] = IF i <= Len(rest) THEN rest[i]
                                     ELSE order[i - Len(rest)]
      BY <2>2, ConcatProperties
    <3>2. Len(rest) = len - 1 /\ Len(order) = m
      BY <2>0, <2>1
    <3> QED
      BY <3>1, <3>2
  <2>4. DOMAIN (rest \o order) = 1 .. (len - 1) + m
    BY <2>3, LenProperties
  <2>5. /\ \A i \in 1 .. len - 1 : i \in 1 .. (len - 1) + m /\ i <= len - 1
        /\ \A i \in len .. (len - 1) + m : i \in 1 .. (len - 1) + m /\ ~(i <= len - 1)
    BY <1>1, <1>2, <1>3
  <2>6. ASSUME NEW i \in 1 .. len - 1 PROVE c.queue[i] = q[i + 1]
    <3>1. i \in 1 .. (len - 1) + m /\ i <= len - 1 /\ rest[i] = q[i + 1]
      BY <2>1, <2>5
    <3>2. (rest \o order)[i] = rest[i]
      BY <2>3, <3>1, Zenon
    <3> QED
      BY <2>0, <3>1, <3>2
  <2>7. ASSUME NEW i \in len .. (len - 1) + m PROVE c.queue[i] = order[i - (len - 1)]
    <3>1. i \in 1 .. (len - 1) + m /\ ~(i <= len - 1)
      BY <2>5
    <3>2. (rest \o order)[i] = order[i - (len - 1)]
      BY <2>3, <3>1, Zenon
    <3> QED
      BY <2>0, <3>2
  <2> QED
    BY <2>0, <2>4, <2>6, <2>7
<1> HIDE DEF q, len, m, near, known
<1>7. \A i \in DOMAIN c.queue :
        \/ i \in 1 .. len - 1 /\ i + 1 \in DOMAIN q /\ c.queue[i] = q[i + 1]
        \/ i \in len .. (len - 1) + m /\ c.queue[i] \in new
  <2> SUFFICES ASSUME NEW i \in 1 .. (len - 1) + m
               PROVE  \/ i \in 1 .. len - 1 /\ i + 1 \in DOMAIN q /\ c.queue[i] = q[i + 1]
                      \/ i \in len .. (len - 1) + m /\ c.queue[i] \in new
    BY <1>6
  <2>1. CASE i \in 1 .. len - 1
    <3>1. i + 1 \in 1 .. len
      BY <1>1, <2>1
    <3>2. c.queue[i] = q[i + 1]
      BY <1>6, <2>1
    <3> QED
      BY <1>1, <2>1, <3>1, <3>2
  <2>2. CASE i \notin 1 .. len - 1
    <3>1. i \in len .. (len - 1) + m /\ i - (len - 1) \in 1 .. m
      BY <1>1, <1>2, <1>3, <2>2
    <3> QED
      BY <1>3, <1>6, <3>1
  <2> QED
    BY <2>1, <2>2
<1>8. /\ \A a \in Awaiting(d) : a # cur => a \in Awaiting(c)
      /\ \A a \in new : a \in Awaiting(c)
  <2>1. ASSUME NEW a \in Awaiting(d), a # cur PROVE a \in Awaiting(c)
    <3>1. PICK i \in DOMAIN q : a = q[i]
      BY DEF Awaiting, q
    <3>2. i # 1
      BY <1>2, <2>1, <3>1
    <3>3. i - 1 \in 1 .. len - 1 /\ (i - 1) + 1 = i
      BY <1>1, <3>1, <3>2
    <3> DEFINE j == i - 1
    <3>4. j \in 1 .. len - 1 /\ j + 1 = i /\ j \in 1 .. (len - 1) + m
      BY <1>1, <1>3, <3>3
    <3> HIDE DEF j
    <3>5. j \in DOMAIN c.queue
      BY <1>6, <3>4
    <3>6. c.queue[j] = a
      <4>1. c.queue[j] = q[j + 1]
        BY <1>6, <3>4
      <4> QED
        BY <3>1, <3>4, <4>1
    <3> QED
      BY <3>5, <3>6 DEF Awaiting
  <2>2. ASSUME NEW a \in new PROVE a \in Awaiting(c)
    <3>1. PICK i \in DOMAIN order : order[i] = a
      OBVIOUS
    <3> DEFINE j == i + (len - 1)
    <3>2. j \in len .. (len - 1) + m /\ j - (len - 1) = i /\ j \in 1 .. (len - 1) + m
      BY <1>1, <1>2, <1>3, <3>1
    <3> HIDE DEF j
    <3>3. j \in DOMAIN c.queue /\ c.queue[j] = a
      BY <1>6, <3>1, <3>2
    <3> QED
      BY <3>3 DEF Awaiting
  <2> QED
    BY <2>1, <2>2
<1>9. \A a \in DOMAIN c.paths \ Awaiting(c) :
        a \in known /\ (a = cur \/ a \notin Awaiting(d))
  BY <1>5, <1>8
<1>10. \A i \in DOMAIN q : near <= Hops(d, q[i]) /\ Hops(d, q[i]) <= near + 1
  <2>1. \A i \in DOMAIN q : 1 <= i
    BY <1>1
  <2> QED
    BY <1>2, <2>1 DEF Layered, near, q
<1>11. \A a \in known : a \notin Awaiting(d) => Hops(d, a) <= near
  BY <1>2 DEF Layered, near, q, known
<1>12. \A a \in known : Hops(d, a) \in Nat /\ (a \in Awaiting(d) => Hops(d, a) <= near + 1)
  BY <1>1, <1>10 DEF Awaiting, q
<1>13. s \in DOMAIN c.paths /\ c.paths[s] = << >>
  BY <1>4 DEF Layered, known
<1>14. ASSUME NEW a \in DOMAIN c.paths \ Awaiting(c), Hops(c, a) < c.question.max_hops,
              NEW e \in c.edges, e[1] = a
       PROVE  e[2] \in DOMAIN c.paths /\ Hops(c, e[2]) <= Hops(c, a) + 1
  <2>1. a \in known /\ Hops(c, a) = Hops(d, a) /\ e \in d.edges /\ Hops(d, a) \in Nat
        /\ Hops(d, a) < d.question.max_hops
    BY <1>1, <1>5, <1>9, <1>14
  <2>2. CASE a = cur
    <3>1. ~(near >= d.question.max_hops)
      BY <1>1, <1>2, <2>1, <2>2 DEF near
    <3>2. e[2] \in known \/ e[2] \in new
      BY <1>14, <2>1, <2>2, <3>1 DEF near, known
    <3>3. CASE e[2] \in new
      <4>1. e[2] \in DOMAIN c.paths /\ Hops(c, e[2]) = near + 1
        BY <1>5, <3>3
      <4>2. Hops(c, a) = near
        BY <2>1, <2>2 DEF near
      <4> QED
        BY <1>2, <4>1, <4>2
    <3>4. CASE e[2] \in known
      <4>1. Hops(d, e[2]) <= near + 1
        BY <1>2, <1>11, <1>12, <3>4
      <4> QED
        BY <1>5, <2>1, <2>2, <3>4, <4>1 DEF near
    <3> QED
      BY <3>2, <3>3, <3>4
  <2>3. CASE a # cur
    <3>1. a \in known \ Awaiting(d)
      BY <1>9, <2>3
    <3>2. e[2] \in known /\ Hops(d, e[2]) <= Hops(d, a) + 1
      BY <1>14, <2>1, <3>1 DEF Layered, known
    <3> QED
      BY <1>5, <2>1, <3>2
  <2> QED
    BY <2>2, <2>3
<1>15. ASSUME NEW i \in DOMAIN c.queue, NEW j \in DOMAIN c.queue, i <= j
       PROVE  /\ Hops(c, c.queue[i]) <= Hops(c, c.queue[j])
              /\ Hops(c, c.queue[j]) <= Hops(c, c.queue[i]) + 1
  <2>1. CASE j \in 1 .. len - 1 /\ j + 1 \in DOMAIN q /\ c.queue[j] = q[j + 1]
    <3>1. i \in 1 .. len - 1 /\ i \in Int /\ j \in Int
      BY <1>1, <1>3, <1>6, <1>15, <2>1
    <3>2. i + 1 \in DOMAIN q /\ c.queue[i] = q[i + 1] /\ i + 1 <= j + 1
      <4>1. i + 1 \in 1 .. len /\ i + 1 <= j + 1
        BY <1>1, <1>15, <3>1
      <4>2. c.queue[i] = q[i + 1]
        BY <1>6, <3>1
      <4> QED
        BY <1>1, <4>1, <4>2
    <3>3. /\ Hops(d, q[i + 1]) <= Hops(d, q[j + 1])
          /\ Hops(d, q[j + 1]) <= Hops(d, q[i + 1]) + 1
      BY <2>1, <3>2 DEF Layered, q
    <3> QED
      BY <1>1, <1>5, <2>1, <3>2, <3>3
  <2>2. CASE c.queue[j] \in new
    <3> DEFINE x == Hops(c, c.queue[i])
               y == Hops(c, c.queue[j])
    <3>1. y = near + 1
      BY <1>5, <2>2
    <3>2. CASE c.queue[i] \in new
      <4>1. x = near + 1
        BY <1>5, <3>2
      <4> HIDE DEF x, y
      <4>2. x <= y /\ y <= x + 1
        BY <1>2, <3>1, <4>1
      <4> QED
        BY <4>2 DEF x, y
    <3>3. CASE i + 1 \in DOMAIN q /\ c.queue[i] = q[i + 1]
      <4>1. Hops(c, c.queue[i]) = Hops(d, q[i + 1]) /\ Hops(d, q[i + 1]) \in Nat
        BY <1>1, <1>5, <3>3
      <4>2. near <= Hops(d, q[i + 1]) /\ Hops(d, q[i + 1]) <= near + 1
        BY <1>10, <3>3
      <4> DEFINE z == Hops(d, q[i + 1])
      <4>3. x = z /\ z \in Nat /\ near <= z /\ z <= near + 1
        BY <4>1, <4>2
      <4> HIDE DEF x, y, z
      <4>4. x <= y /\ y <= x + 1
        BY <1>2, <3>1, <4>3
      <4> QED
        BY <4>4 DEF x, y
    <3> QED
      BY <1>7, <3>2, <3>3
  <2> QED
    BY <1>7, <2>1, <2>2
<1>16. ASSUME NEW a \in DOMAIN c.paths \ Awaiting(c), NEW i \in DOMAIN c.queue
       PROVE  Hops(c, a) <= Hops(c, c.queue[i])
  <2>1. Hops(c, a) = Hops(d, a) /\ Hops(d, a) \in Nat /\ Hops(d, a) <= near
    BY <1>1, <1>2, <1>5, <1>9, <1>11 DEF near
  <2>2. Hops(c, c.queue[i]) \in Nat /\ near <= Hops(c, c.queue[i])
    <3>1. CASE c.queue[i] \in new
      <4> DEFINE x == Hops(c, c.queue[i])
      <4>1. x = near + 1
        BY <1>5, <3>1
      <4> HIDE DEF x
      <4>2. x \in Nat /\ near <= x
        BY <1>2, <4>1
      <4> QED
        BY <4>2 DEF x
    <3>2. CASE i + 1 \in DOMAIN q /\ c.queue[i] = q[i + 1]
      BY <1>1, <1>5, <1>10, <3>2
    <3> QED
      BY <1>7, <3>1, <3>2
  <2> QED
    BY <1>2, <2>1, <2>2
<1>17. c.target \in DOMAIN c.paths => c.target \in Awaiting(c)
  BY <1>5, <1>8 DEF Layered, known
<1> QED
  BY <1>13, <1>14, <1>15, <1>16, <1>17 DEF Layered

\* What a search finds is not farther away than it need be.
LEMMA FoundShortest ==
  ASSUME NEW d, NEW c, Traced(d), Sought(d), d.step = "search", d.queue # << >>,
         Head(d.queue) = d.target,
         c.question = d.question, c.nodes = d.nodes, c.edges = d.edges,
         c.answer = d.paths[d.target]
  PROVE  Shortest(c)
<1> DEFINE cur == d.target
           near == Hops(d, cur)
           q == d.queue
<1>1. /\ q \in Seq(DOMAIN d.paths) /\ Len(q) \in Nat /\ DOMAIN q = 1 .. Len(q)
      /\ \A i \in DOMAIN q : q[i] \in DOMAIN d.paths
      /\ \A a \in DOMAIN d.paths : Hops(d, a) \in Nat /\ Hops(d, a) <= d.question.max_hops
      /\ d.question.max_hops \in Nat
  BY SearchTyped
<1>2. 1 \in DOMAIN q /\ cur = q[1] /\ cur \in DOMAIN d.paths
  BY <1>1, EmptySeq, HeadTailProperties
<1>3. PICK s \in NodeOf(d, d.question.source) : Layered(d, s)
  BY DEF Sought
<1>4. DOMAIN d.nodes \subseteq Int /\ cur \in NodeOf(d, d.question.target)
  BY DEF Sought, Traced
<1>5. \A h : NodeOf(c, h) = NodeOf(d, h)
  BY DEF NodeOf
<1>6. near \in Nat /\ near <= d.question.max_hops
  BY <1>1, <1>2
<1>7. ASSUME NEW a \in DOMAIN d.paths, Hops(d, a) < near, NEW e \in d.edges, e[1] = a
      PROVE  e[2] \in DOMAIN d.paths /\ Hops(d, e[2]) <= Hops(d, a) + 1
  <2>1. a \notin Awaiting(d)
    <3> SUFFICES ASSUME NEW i \in DOMAIN q, a = q[i] PROVE FALSE
      BY DEF Awaiting
    <3>1. 1 <= i
      BY <1>1
    <3>2. near <= Hops(d, a)
      BY <1>2, <1>3, <3>1 DEF Layered
    <3> QED
      BY <1>1, <1>6, <1>7, <3>2
  <2>2. Hops(d, a) < d.question.max_hops
    BY <1>1, <1>6, <1>7
  <2> QED
    BY <1>3, <1>7, <2>1, <2>2 DEF Layered
<1>8. \A k \in Nat : k <= near =>
        \A t \in Within(c, s, k) : t \in DOMAIN d.paths /\ Hops(d, t) <= k
  <2> SUFFICES ASSUME NEW k \in Nat, k <= near
               PROVE  \A t \in Within(c, s, k) : t \in DOMAIN d.paths /\ Len(d.paths[t]) <= k
    BY DEF Hops
  <2>1. \A a \in DOMAIN d.paths : Len(d.paths[a]) \in Nat
    BY <1>1 DEF Hops
  <2>2. s \in DOMAIN d.paths /\ Len(d.paths[s]) = 0
    BY <1>3, EmptySeq DEF Layered
  <2>3. \A a \in DOMAIN d.paths : Len(d.paths[a]) < near =>
          \A e \in d.edges : e[1] = a =>
            e[2] \in DOMAIN d.paths /\ Len(d.paths[e[2]]) <= Len(d.paths[a]) + 1
    BY <1>7 DEF Hops
  <2> HIDE DEF near
  <2> QED
    BY <1>6, <2>1, <2>2, <2>3, SweptBall
<1> SUFFICES ASSUME NEW u \in NodeOf(c, c.question.source), NEW t \in NodeOf(c, c.question.target)
             PROVE  IF c.answer = << >> THEN u = t \/ t \notin Within(c, u, c.question.max_hops)
                    ELSE t \notin Within(c, u, Len(c.answer) - 1)
  BY DEF Shortest
<1>9. u = s /\ t = cur
  BY <1>3, <1>4, <1>5, OneNode
<1>10. CASE c.answer = << >>
  <2>1. PICK v \in NodeOf(d, d.question.source) : Trail(d, d.paths[cur], v, cur)
    BY <1>2 DEF Traced
  <2>2. v = s
    BY <1>3, <1>4, <2>1, OneNode
  <2> QED
    BY <1>9, <1>10, <2>1, <2>2 DEF Trail
<1>11. CASE c.answer # << >>
  <2>1. near # 0
    <3>1. c.answer \in Seq(d.edges)
      BY <1>2 DEF Traced, Trail
    <3> QED
      BY <1>11, <3>1, EmptySeq DEF Hops
  <2>2. near - 1 \in Nat /\ near - 1 <= near /\ ~(near <= near - 1)
    BY <1>6, <2>1
  <2>3. t \notin Within(c, s, near - 1)
    BY <1>8, <1>9, <2>2
  <2> QED
    BY <1>9, <1>11, <2>3 DEF Hops
<1> QED
  BY <1>10, <1>11

\* A search that ends without having found the target had nowhere to go.
LEMMA ExhaustedShortest ==
  ASSUME NEW d, NEW c, Traced(d), Sought(d), d.step = "search", d.queue = << >>,
         c.question = d.question, c.nodes = d.nodes, c.edges = d.edges,
         c.answer = << >>
  PROVE  Shortest(c)
<1> DEFINE bound == d.question.max_hops
<1>1. /\ \A a \in DOMAIN d.paths : Hops(d, a) \in Nat
      /\ bound \in Nat
  BY SearchTyped
<1>2. PICK s \in NodeOf(d, d.question.source) : Layered(d, s)
  BY DEF Sought
<1>3. Awaiting(d) = {}
  BY DEF Awaiting
<1>4. d.target \notin DOMAIN d.paths
  BY <1>2, <1>3 DEF Layered
<1>5. \A t \in Within(c, s, bound) : t \in DOMAIN d.paths
  <2>1. \A a \in DOMAIN d.paths : Len(d.paths[a]) \in Nat
    BY <1>1 DEF Hops
  <2>2. s \in DOMAIN d.paths /\ Len(d.paths[s]) = 0
    BY <1>2, EmptySeq DEF Layered
  <2>3. \A a \in DOMAIN d.paths : Len(d.paths[a]) < bound =>
          \A e \in d.edges : e[1] = a =>
            e[2] \in DOMAIN d.paths /\ Len(d.paths[e[2]]) <= Len(d.paths[a]) + 1
    BY <1>2, <1>3 DEF Layered, Hops
  <2> HIDE DEF bound
  <2>4. bound <= bound
    BY <1>1
  <2> QED
    BY <1>1, <2>1, <2>2, <2>3, <2>4, SweptBall
<1>6. DOMAIN d.nodes \subseteq Int /\ d.target \in NodeOf(d, d.question.target)
  BY DEF Sought, Traced
<1>7. \A h : NodeOf(c, h) = NodeOf(d, h)
  BY DEF NodeOf
<1> SUFFICES ASSUME NEW u \in NodeOf(c, c.question.source), NEW t \in NodeOf(c, c.question.target)
             PROVE  t \notin Within(c, u, bound)
  BY DEF Shortest
<1>8. u = s /\ t = d.target
  BY <1>2, <1>6, <1>7, OneNode
<1> QED
  BY <1>4, <1>5, <1>8

\* Every step of a reader keeps its search in order and its answer shortest.
LEMMA LayerLook ==
  ASSUME SearchInv, LayerInv, NEW r \in Readers, Look(r)
  PROVE  LayerInv'
<1> DEFINE old == reader[r]
           q == old.question
<1>0. InHand(old) /\ Sought(old)
  BY DEF SearchInv, LayerInv
<1>1. CASE ReadNodes(r)
  <2>1. PICK c \in Questions :
          reader' = [reader EXCEPT ![r] =
            [step |-> "edges", question |-> c, seen |-> <<Len(observations)>>,
             nodes |-> [i \in {j \in 1 .. Len(actors) : InCase(c.case, actors[j])} |-> actors[i]]]]
    BY <1>1 DEF ReadNodes
  <2> DEFINE d == [step |-> "edges", question |-> c, seen |-> <<Len(observations)>>,
                   nodes |-> [i \in {j \in 1 .. Len(actors) : InCase(c.case, actors[j])} |-> actors[i]]]
  <2>2. DOMAIN d.nodes \subseteq Int
    OBVIOUS
  <2>3. Sought(d)
    BY <2>2 DEF Sought
  <2> QED
    BY <2>1, <2>3, LayerHandOver
<1>2. CASE ReadEdges(r)
  <2> DEFINE d == [step |-> "read", question |-> q, nodes |-> old.nodes,
                   seen |-> Append(old.seen, Len(observations)), edges |-> EdgesOf(q.case)]
  <2>1. reader' = [reader EXCEPT ![r] = d] /\ old.step = "edges"
    BY <1>2 DEF ReadEdges, SearchInv
  <2>2. Sought(d)
    BY <1>0, <2>1 DEF Sought
  <2> QED
    BY <2>1, <2>2, LayerHandOver
<1>3. CASE Communities(r)
  <2>1. PICK answer :
          /\ reader' = [reader EXCEPT ![r] =
               [step |-> "answered", question |-> q, seen |-> old.seen, nodes |-> old.nodes,
                edges |-> old.edges, answer |-> answer]]
          /\ q.command = "communities" /\ old.step = "read"
    BY <1>3 DEF Communities, Answer, SearchInv
  <2> DEFINE d == [step |-> "answered", question |-> q, seen |-> old.seen, nodes |-> old.nodes,
                   edges |-> old.edges, answer |-> answer]
  <2>2. Sought(d)
    BY <1>0, <2>1 DEF Sought
  <2> QED
    BY <2>1, <2>2, LayerHandOver
<1>4. CASE NoSuchNode(r)
  <2> DEFINE d == [step |-> "answered", question |-> q, seen |-> old.seen, nodes |-> old.nodes,
                   edges |-> old.edges, answer |-> << >>]
  <2>1. /\ reader' = [reader EXCEPT ![r] = d] /\ old.step = "read"
        /\ NodeOf(old, q.source) = {} \/ NodeOf(old, q.target) = {}
    BY <1>4 DEF NoSuchNode, Answer, SearchInv
  <2>2. Shortest(d)
    BY <2>1 DEF Shortest, NodeOf
  <2>3. Sought(d)
    BY <1>0, <2>1, <2>2 DEF Sought
  <2> QED
    BY <2>1, <2>3, LayerHandOver
<1>5. CASE BeginSearch(r)
  <2>1. PICK s \in NodeOf(old, q.source), t \in NodeOf(old, q.target) :
          Search(r, t, <<s>>, [a \in {s} |-> << >>])
    BY <1>5 DEF BeginSearch
  <2> DEFINE d == [step |-> "search", question |-> q, seen |-> old.seen, nodes |-> old.nodes,
                   edges |-> old.edges, target |-> t, queue |-> <<s>>,
                   paths |-> [a \in {s} |-> << >>]]
  <2>2. reader' = [reader EXCEPT ![r] = d] /\ old.step = "read"
    BY <1>5, <2>1 DEF Search, SearchInv, BeginSearch
  <2>3. /\ DOMAIN d.paths = {s} /\ Awaiting(d) = {s} /\ d.paths[s] = << >>
        /\ DOMAIN d.queue = {1} /\ d.queue[1] = s
    BY DEF Awaiting
  <2>4. Hops(d, s) = 0
    BY <2>3, EmptySeq DEF Hops
  <2> HIDE DEF d
  <2>5. Layered(d, s)
    BY <2>3, <2>4 DEF Layered
  <2>6. /\ d.step = "search" /\ s \in NodeOf(d, d.question.source)
        /\ d.nodes = old.nodes
    BY DEF d, NodeOf
  <2>7. Sought(d)
    BY <1>0, <2>2, <2>5, <2>6 DEF Sought
  <2> QED
    BY <2>2, <2>7, LayerHandOver
<1>6. CASE Found(r) \/ Exhausted(r)
  <2>1. Traced(old) /\ old.step = "search" /\ q.command = "path"
    BY <1>0, <1>6 DEF Found, Exhausted, Searching, InHand, Traced
  <2>2. PICK answer :
          /\ reader' = [reader EXCEPT ![r] =
               [step |-> "answered", question |-> q, seen |-> old.seen, nodes |-> old.nodes,
                edges |-> old.edges, answer |-> answer]]
          /\ \/ /\ old.queue # << >> /\ Head(old.queue) = old.target
                /\ answer = old.paths[old.target]
             \/ old.queue = << >> /\ answer = << >>
    BY <1>6 DEF Found, Exhausted, Answer, PathTo, Current, SearchInv
  <2> DEFINE d == [step |-> "answered", question |-> q, seen |-> old.seen, nodes |-> old.nodes,
                   edges |-> old.edges, answer |-> answer]
  <2>3. /\ d.step = "answered" /\ d.question = q /\ d.nodes = old.nodes
        /\ d.edges = old.edges /\ d.answer = answer
    OBVIOUS
  <2>4. reader' = [reader EXCEPT ![r] = d]
    BY <2>2
  <2> HIDE DEF d
  <2>5. Shortest(d)
    BY <1>0, <2>1, <2>2, <2>3, FoundShortest, ExhaustedShortest
  <2>6. Sought(d)
    BY <1>0, <2>1, <2>3, <2>5 DEF Sought
  <2> QED
    BY <2>4, <2>6, LayerHandOver
<1>7. CASE Expand(r)
  <2> DEFINE cur == Current(r)
             new == IF AtBound(r) THEN {} ELSE New(r)
             paths == [a \in DOMAIN old.paths \cup new |->
                         IF a \in new THEN Append(old.paths[cur], <<cur, a>>) ELSE old.paths[a]]
  <2>1. PICK order \in Orders(new) :
          Search(r, old.target, Tail(old.queue) \o order, paths)
    BY <1>7 DEF Expand
  <2>2. /\ old.queue # << >> /\ Traced(old) /\ old.step = "search"
        /\ cur # old.target /\ cur = Head(old.queue)
    BY <1>0, <1>7 DEF Expand, Searching, InHand, Current
  <2> DEFINE d == [step |-> "search", question |-> q, seen |-> old.seen, nodes |-> old.nodes,
                   edges |-> old.edges, target |-> old.target,
                   queue |-> Tail(old.queue) \o order, paths |-> paths]
  <2>3. reader' = [reader EXCEPT ![r] = d]
    BY <2>1 DEF Search, SearchInv
  <2>4. new = IF Hops(old, cur) >= q.max_hops THEN {}
              ELSE {e[2] : e \in {x \in old.edges : x[1] = cur}} \ DOMAIN old.paths
    BY DEF AtBound, New, PathTo, Hops
  <2>5. order \in Seq(new) /\ \A a \in new : \E i \in DOMAIN order : order[i] = a
    <3> DEFINE n == Cardinality(new)
    <3>1. new \subseteq Actors
      BY <2>2 DEF New, Traced, Read
    <3>2. IsFiniteSet(new) /\ n \in Nat
      BY <3>1, QuestionAssumption, FS_Subset, FS_CardinalityType
    <3>3. order \in [1 .. n -> new] /\ \A i, j \in DOMAIN order : order[i] = order[j] => i = j
      BY <2>1 DEF Orders
    <3> HIDE DEF new
    <3>4. order \in Injection(1 .. n, new)
      BY <3>3 DEF Injection, IsInjective
    <3> DEFINE held == {order[i] : i \in 1 .. n}
    <3>5. order \in Surjection(1 .. n, held) /\ order \in Injection(1 .. n, held)
      BY <3>3 DEF Surjection, Injection, IsInjective
    <3>6. IsFiniteSet(1 .. n) /\ Cardinality(1 .. n) = n
      BY <3>2, FS_Interval
    <3>7. Cardinality(held) = n
      BY <3>5, <3>6, FS_Surjection
    <3>8. held \in SUBSET new
      BY <3>3
    <3>9. held = new
      BY <3>2, <3>7, <3>8, FS_Subset
    <3>10. order \in Seq(new)
      <4> HIDE DEF n
      <4> QED
        BY <3>2, <3>3
    <3> QED
      BY <3>3, <3>9, <3>10
  <2>6. PICK s \in NodeOf(old, q.source) : Layered(old, s)
    BY <1>0, <2>2 DEF Sought
  <2>7. /\ d.step = "search" /\ d.question = q /\ d.nodes = old.nodes
        /\ d.edges = old.edges /\ d.target = old.target
        /\ d.queue = Tail(old.queue) \o order /\ d.paths = paths
    OBVIOUS
  <2> HIDE DEF d, new, cur
  <2>8. Layered(d, s)
    <3>1. /\ new = Fresh(old, cur)
          /\ d.queue = Tail(old.queue) \o order /\ d.edges = old.edges
          /\ d.question = old.question /\ d.target = old.target
      BY <2>4, <2>7 DEF Fresh
    <3>2. d.paths = Longer(old, cur, new)
      BY <2>7 DEF Longer
    <3> HIDE DEF old, q, paths
    <3>3. Visited(old, d, cur, new, order)
      BY <2>2, <2>5, <3>1, <3>2 DEF Visited
    <3> QED
      BY <2>6, <3>3, ExpandLayers
  <2>9. s \in NodeOf(d, d.question.source)
    <3> HIDE DEF old, q
    <3>1. OfSameNodes(d, old)
      BY <2>7 DEF OfSameNodes
    <3>2. NodeOf(d, q.source) = NodeOf(old, q.source)
      BY <3>1, SameNodes, Zenon
    <3>3. d.question = q
      BY <2>7
    <3> QED
      BY <3>2, <3>3
  <2>10. Sought(d)
    BY <1>0, <2>2, <2>7, <2>8, <2>9 DEF Sought
  <2> QED
    BY <2>3, <2>10, LayerHandOver
<1> QED
  BY <1>1, <1>2, <1>3, <1>4, <1>5, <1>6, <1>7 DEF Look

LEMMA LayerStep == SearchInv /\ LayerInv /\ [ViewerNext]_viewer_vars => LayerInv'
<1> SUFFICES ASSUME SearchInv, LayerInv, [ViewerNext]_viewer_vars PROVE LayerInv'
  OBVIOUS
<1>1. CASE UNCHANGED reader
  BY <1>1 DEF LayerInv
<1> QED
  BY <1>1, LayerLook DEF ViewerNext, Add, viewer_vars

\* The path /graph path shows is a shortest one, and none is shown only if
\* there is none within max_hops or nothing to walk, for any graph, bound of
\* hops and number of readers (GraphViewer.shortest_path: a queue, a map of
\* the nodes found, and a bound tested when a node leaves the queue).
THEOREM PathsAlwaysShortest == ViewerSpec => []PathsShortest
<1>1. ViewerInit => LayerInv
  BY DEF ViewerInit, LayerInv, Sought, Waiting
<1>2. ViewerSpec => [](SearchInv /\ LayerInv)
  BY <1>1, SearchInitially, SearchStep, LayerStep, PTL DEF ViewerSpec
<1>3. SearchInv /\ LayerInv => PathsShortest
  <2> SUFFICES ASSUME SearchInv, LayerInv PROVE PathsShortest
    OBVIOUS
  <2>1. \A r \in Readers : Answered(r, "path") => Shortest(reader[r])
    BY DEF LayerInv, Sought, Answered
  <2>2. PathsDocumented
    BY SearchGivesDocumented
  <2> QED
    BY <2>1, <2>2 DEF PathsShortest, Shortest
<1> QED
  BY <1>2, <1>3, PTL

-----------------------------------------------------------------------------
(* Every name a payload gives has its row in actors                         *)

\* f goes from base to its value at k in steps.
Solves(f, S, base, step, k) ==
  /\ f \in [0 .. k -> S] /\ f[0] = base
  /\ \A n \in 1 .. k : f[n] = step[<<f[n - 1], n>>]

\* A recursion over the numbers has a solution.
LEMMA RecursionExists ==
  ASSUME NEW S, NEW base, NEW step, NEW k, base \in S, step \in [S \X Nat -> S], k \in Nat
  PROVE  \E f : Solves(f, S, base, step, k)
<1> USE DEF Solves
<1> DEFINE T == {m \in Nat : \E f : Solves(f, S, base, step, m)}
<1>1. 0 \in T
  <2> DEFINE f == [n \in 0 .. 0 |-> base]
  <2>1. Solves(f, S, base, step, 0)
    OBVIOUS
  <2> QED
    BY <2>1
<1>2. ASSUME NEW m \in T PROVE m + 1 \in T
  <2>1. PICK f : Solves(f, S, base, step, m)
    BY <1>2
  <2> DEFINE next == step[<<f[m], m + 1>>]
             g == [n \in 0 .. m + 1 |-> IF n = m + 1 THEN next ELSE f[n]]
  <2>2. /\ m \in Nat /\ f \in [0 .. m -> S] /\ f[0] = base
        /\ \A n \in 1 .. m : f[n] = step[<<f[n - 1], n>>]
    BY <2>1
  <2>3. next \in S
    BY <2>2
  <2> HIDE DEF next
  <2>4. g \in [0 .. m + 1 -> S] /\ g[0] = base /\ g[m + 1] = next /\ g[m] = f[m]
    BY <2>2, <2>3
  <2>5. ASSUME NEW n \in 1 .. m PROVE g[n] = step[<<g[n - 1], n>>]
    <3>1. g[n] = f[n] /\ g[n - 1] = f[n - 1]
      BY <2>2
    <3> QED
      BY <2>2, <3>1
  <2>6. g[m + 1] = step[<<g[(m + 1) - 1], m + 1>>]
    <3>1. (m + 1) - 1 = m
      BY <2>2
    <3>2. g[m + 1] = step[<<g[m], m + 1>>]
      BY <2>4 DEF next
    <3> QED
      BY <3>1, <3>2
  <2>7. \A n \in 1 .. m + 1 : n \in 1 .. m \/ n = m + 1
    BY <2>2
  <2> HIDE DEF g
  <2>8. Solves(g, S, base, step, m + 1)
    BY <2>4, <2>5, <2>6, <2>7
  <2> QED
    BY <2>2, <2>8
<1>3. T = Nat
  <2> HIDE DEF T
  <2>1. T \in SUBSET Nat
    BY DEF T
  <2> QED
    BY <1>1, <1>2, <2>1, CountingUp
<1> QED
  BY <1>3

\* One get-or-create: the rows after actor a was asked for.
Entered(rows, a) ==
  IF \E i \in DOMAIN rows : rows[i] = a THEN rows ELSE Append(rows, a)

Rows(rows) == {rows[i] : i \in DOMAIN rows}

LEMMA EnteredKeeps ==
  ASSUME NEW rows \in Seq(Actors), NEW a \in Actors
  PROVE  Entered(rows, a) \in Seq(Actors) /\ Rows(Entered(rows, a)) = Rows(rows) \cup {a}
<1>1. CASE \E i \in DOMAIN rows : rows[i] = a
  BY <1>1 DEF Entered, Rows
<1>2. CASE ~\E i \in DOMAIN rows : rows[i] = a
  <2> DEFINE more == Append(rows, a)
             n == Len(rows)
  <2>1. /\ n \in Nat /\ more \in Seq(Actors) /\ DOMAIN rows = 1 .. n /\ DOMAIN more = 1 .. n + 1
        /\ more[n + 1] = a /\ \A i \in 1 .. n : more[i] = rows[i]
    BY AppendProperties, LenProperties
  <2>2. Entered(rows, a) = more
    BY <1>2 DEF Entered
  <2>3. \A i \in 1 .. n + 1 : i \in 1 .. n \/ i = n + 1
    BY <2>1
  <2>4. \A i \in 1 .. n : i \in 1 .. n + 1
    BY <2>1
  <2>5. n + 1 \in 1 .. n + 1
    BY <2>1
  <2> HIDE DEF more, n
  <2> QED
    BY <2>1, <2>2, <2>3, <2>4, <2>5 DEF Rows
<1> QED
  BY <1>1, <1>2

IsRegister(f, names) ==
  f = [n \in 0 .. Len(names) |->
         IF n = 0 THEN actors
         ELSE IF \E i \in DOMAIN f[n - 1] : f[n - 1][i] = names[n] THEN f[n - 1]
         ELSE Append(f[n - 1], names[n])]

LEMMA RegisteredRows ==
  ASSUME actors \in Seq(Actors), NEW names \in Seq(Actors)
  PROVE  /\ Registered(names) \in Seq(Actors)
         /\ Rows(Registered(names)) = Rows(actors) \cup Rows(names)
<1> DEFINE k == Len(names)
           step == [x \in Seq(Actors) \X Nat |->
                      IF x[2] \in 1 .. k THEN Entered(x[1], names[x[2]]) ELSE x[1]]
<1>1. k \in Nat /\ DOMAIN names = 1 .. k /\ \A n \in 1 .. k : names[n] \in Actors
  BY LenProperties, ElementOfSeq
<1> HIDE DEF k
<1>2. step \in [Seq(Actors) \X Nat -> Seq(Actors)]
  BY <1>1, EnteredKeeps
<1>3. \A rows \in Seq(Actors), n \in 1 .. k : step[<<rows, n>>] = Entered(rows, names[n])
  BY <1>1
<1> HIDE DEF step
<1>4. PICK f \in [0 .. k -> Seq(Actors)] :
        f[0] = actors /\ \A n \in 1 .. k : f[n] = step[<<f[n - 1], n>>]
  <2> DEFINE Q == Seq(Actors)
  <2>1. actors \in Q /\ step \in [Q \X Nat -> Q] /\ k \in Nat
    BY <1>1, <1>2
  <2> HIDE DEF Q
  <2>2. \E f : Solves(f, Q, actors, step, k)
    BY <2>1, RecursionExists
  <2> QED
    BY <2>2 DEF Q, Solves
<1>5. ASSUME NEW n \in 1 .. k
      PROVE  /\ f[n - 1] \in Seq(Actors) /\ n # 0
             /\ f[n] = Entered(f[n - 1], names[n])
             /\ f[n] \in Seq(Actors)
             /\ Rows(f[n]) = Rows(f[n - 1]) \cup {names[n]}
  <2>1. n - 1 \in 0 .. k /\ n # 0
    BY <1>1
  <2>2. f[n - 1] \in Seq(Actors)
    BY <2>1
  <2>3. f[n] = Entered(f[n - 1], names[n])
    <3>1. f[n] = step[<<f[n - 1], n>>]
      BY <1>4, Zenon
    <3>2. step[<<f[n - 1], n>>] = Entered(f[n - 1], names[n])
      BY <1>3, <2>2, Zenon
    <3> QED
      BY <3>1, <3>2, Zenon
  <2>4. names[n] \in Actors
    BY <1>1
  <2>5. /\ Entered(f[n - 1], names[n]) \in Seq(Actors)
        /\ Rows(Entered(f[n - 1], names[n])) = Rows(f[n - 1]) \cup {names[n]}
    BY <2>2, <2>4, EnteredKeeps
  <2> QED
    BY <2>1, <2>2, <2>3, <2>5
<1>6. IsRegister(f, names)
  <2> DEFINE g == [n \in 0 .. k |-> IF n = 0 THEN actors ELSE Entered(f[n - 1], names[n])]
  <2>1. \A n \in 0 .. k : n = 0 \/ n \in 1 .. k
    BY <1>1
  <2>2. \A n \in 0 .. k : f[n] = g[n]
    BY <1>4, <1>5, <2>1
  <2>3. f = g
    BY <2>2
  <2> QED
    BY <2>3 DEF IsRegister, k, Entered
<1> DEFINE rows == CHOOSE r : IsRegister(r, names)
<1>7. IsRegister(rows, names)
  BY <1>6
<1>8. Registered(names) = rows[k]
  BY DEF Registered, IsRegister, k
<1> HIDE DEF rows
<1>9. \A n \in 0 .. k : rows[n] = IF n = 0 THEN actors ELSE Entered(rows[n - 1], names[n])
  BY <1>7 DEF IsRegister, k, Entered
<1> DEFINE S == {n \in Nat : n <= k => /\ rows[n] \in Seq(Actors)
                                       /\ Rows(rows[n]) = Rows(actors) \cup {names[i] : i \in 1 .. n}}
<1>10. 0 \in S
  <2>1. rows[0] = actors
    BY <1>1, <1>9
  <2>2. {names[i] : i \in 1 .. 0} = {}
    OBVIOUS
  <2> QED
    BY <2>1, <2>2
<1>11. ASSUME NEW n \in S PROVE n + 1 \in S
  <2> SUFFICES ASSUME n + 1 <= k
               PROVE  /\ rows[n + 1] \in Seq(Actors)
                      /\ Rows(rows[n + 1]) = Rows(actors) \cup {names[i] : i \in 1 .. n + 1}
    OBVIOUS
  <2>1. n \in Nat /\ n <= k /\ n + 1 \in 1 .. k /\ n + 1 \in 0 .. k /\ (n + 1) - 1 = n /\ n + 1 # 0
    BY <1>1
  <2>2. rows[n] \in Seq(Actors) /\ Rows(rows[n]) = Rows(actors) \cup {names[i] : i \in 1 .. n}
    BY <2>1
  <2>3. rows[n + 1] = Entered(rows[n], names[n + 1])
    BY <1>9, <2>1
  <2>4. /\ rows[n + 1] \in Seq(Actors)
        /\ Rows(rows[n + 1]) = Rows(rows[n]) \cup {names[n + 1]}
    <3>1. names[n + 1] \in Actors /\ rows[n] \in Seq(Actors)
      BY <1>1, <2>1, <2>2
    <3>2. /\ Entered(rows[n], names[n + 1]) \in Seq(Actors)
          /\ Rows(Entered(rows[n], names[n + 1])) = Rows(rows[n]) \cup {names[n + 1]}
      BY <3>1, EnteredKeeps
    <3> QED
      BY <2>3, <3>2
  <2>5. 1 .. n + 1 = (1 .. n) \cup {n + 1}
    BY <2>1
  <2>6. {names[i] : i \in 1 .. n + 1} = {names[i] : i \in 1 .. n} \cup {names[n + 1]}
    BY <2>5
  <2> QED
    BY <2>2, <2>4, <2>6
<1>12. S = Nat
  <2> HIDE DEF S
  <2>1. S \in SUBSET Nat
    BY DEF S
  <2> QED
    BY <1>10, <1>11, <2>1, CountingUp
<1>13. rows[k] \in Seq(Actors) /\ Rows(rows[k]) = Rows(actors) \cup {names[i] : i \in 1 .. k}
  <2>1. k \in S
    BY <1>1, <1>12
  <2> QED
    BY <1>1, <2>1
<1> QED
  BY <1>1, <1>8, <1>13 DEF Rows

-----------------------------------------------------------------------------
(* The groups are the components of the graph                               *)

\* The edges as enrich follows them, in both directions.
Both(d) == d.edges \cup {<<e[2], e[1]>> : e \in d.edges}

\* No edge leaves X or enters it.
Closed(d, X) == \A e \in d.edges : e[1] \in X <=> e[2] \in X

Led(d, X) == {e[2] : e \in {x \in Both(d) : x[1] \in X}}

LEMMA NeighboursAreLed ==
  ASSUME NEW d, d.edges \subseteq Actors \X Actors, NEW X
  PROVE  Neighbours(d, X) = Led(d, X)
<1>1. ASSUME NEW b \in Neighbours(d, X) PROVE b \in Led(d, X)
  <2>1. PICK e \in d.edges : (e[1] \in X /\ b = e[2]) \/ (e[2] \in X /\ b = e[1])
    BY DEF Neighbours
  <2>2. CASE e[1] \in X /\ b = e[2]
    BY <2>2 DEF Led, Both
  <2>3. CASE e[2] \in X /\ b = e[1]
    <3> DEFINE back == <<e[2], e[1]>>
    <3>1. back \in Both(d) /\ back[1] \in X /\ back[2] = b
      BY <2>3 DEF Both
    <3> HIDE DEF back
    <3> QED
      BY <3>1 DEF Led
  <2> QED
    BY <2>1, <2>2, <2>3
<1>2. ASSUME NEW b \in Led(d, X) PROVE b \in Neighbours(d, X)
  <2>1. PICK x \in Both(d) : x[1] \in X /\ b = x[2]
    BY DEF Led
  <2>2. PICK e \in d.edges : x = e \/ x = <<e[2], e[1]>>
    BY DEF Both
  <2>3. e[1] \in Actors /\ e[2] \in Actors
    OBVIOUS
  <2>4. (e[1] \in X /\ b = e[2]) \/ (e[2] \in X /\ b = e[1])
    BY <2>1, <2>2
  <2> QED
    BY <2>3, <2>4 DEF Neighbours
<1> QED
  BY <1>1, <1>2

IsGrown(f, d, a) ==
  f = [k \in 0 .. Cardinality(Actors) |->
         IF k = 0 THEN {a} ELSE f[k - 1] \cup Neighbours(d, f[k - 1])]

\* f holds the nodes within 0 .. n steps of a, an edge taken either way.
Spreads(f, d, a, n) == IsBall(f, [edges |-> Both(d)], a, n)

LEMMA ComponentIsBall ==
  ASSUME NEW d, d.edges \subseteq Actors \X Actors, NEW a
  PROVE  \E f : Spreads(f, d, a, Cardinality(Actors))
                /\ Component(d, a) = f[Cardinality(Actors)]
<1> DEFINE N == Cardinality(Actors)
           b == [edges |-> Both(d)]
<1>1. N \in Nat
  BY QuestionAssumption, FS_CardinalityType
<1>2. ASSUME NEW f PROVE IsGrown(f, d, a) <=> IsBall(f, b, a, N)
  <2>1. \A X : Neighbours(d, X) = {e[2] : e \in {x \in b.edges : x[1] \in X}}
    BY NeighboursAreLed DEF Led
  <2> HIDE DEF b
  <2> QED
    BY <2>1 DEF IsGrown, IsBall
<1> DEFINE grown == CHOOSE f : IsGrown(f, d, a)
<1>3. \E f : IsBall(f, b, a, N)
  <2> HIDE DEF b, N
  <2> QED
    BY <1>1, BallExists
<1>4. \E f : IsGrown(f, d, a)
  BY <1>2, <1>3
<1>5. IsGrown(grown, d, a)
  BY <1>4
<1>6. Component(d, a) = grown[N]
  BY DEF Component, IsGrown
<1> QED
  BY <1>2, <1>5, <1>6 DEF Spreads

\* Round by round, never out of X.
Grows(f, d, a, N, X) ==
  /\ \A n \in 0 .. N : f[n] \subseteq X /\ a \in f[n]
  /\ f[0] = {a}
  /\ \A n \in 0 .. N : n + 1 <= N => f[n + 1] = f[n] \cup Led(d, f[n])

\* A component grows within every closed set its node is in.
LEMMA BallWithin ==
  ASSUME NEW d, NEW a, NEW N \in Nat, NEW f, Spreads(f, d, a, N),
         NEW X, a \in X, Closed(d, X)
  PROVE  Grows(f, d, a, N, X)
<1>1. \A n \in 0 .. N : f[n] = IF n = 0 THEN {a} ELSE f[n - 1] \cup Led(d, f[n - 1])
  BY DEF Spreads, IsBall, Led
<1>2. f[0] = {a}
  <2>1. 0 \in 0 .. N
    OBVIOUS
  <2> QED
    BY <1>1, <2>1
<1>3. ASSUME NEW n \in 0 .. N, n + 1 <= N PROVE f[n + 1] = f[n] \cup Led(d, f[n])
  <2>1. n + 1 \in 0 .. N /\ n + 1 # 0 /\ (n + 1) - 1 = n
    BY <1>3
  <2>2. f[n + 1] = f[(n + 1) - 1] \cup Led(d, f[(n + 1) - 1])
    BY <1>1, <2>1
  <2> QED
    BY <2>1, <2>2
<1>4. ASSUME NEW Y, Y \subseteq X PROVE Led(d, Y) \subseteq X
  BY <1>4 DEF Led, Both, Closed
<1> DEFINE S == {n \in Nat : n <= N => f[n] \subseteq X /\ a \in f[n]}
<1>5. 0 \in S
  BY <1>2
<1>6. ASSUME NEW n \in S PROVE n + 1 \in S
  <2> SUFFICES ASSUME n + 1 <= N PROVE f[n + 1] \subseteq X /\ a \in f[n + 1]
    OBVIOUS
  <2>1. n \in 0 .. N /\ f[n] \subseteq X /\ a \in f[n]
    OBVIOUS
  <2>2. f[n + 1] = f[n] \cup Led(d, f[n])
    BY <1>3, <2>1
  <2> QED
    BY <1>4, <2>1, <2>2
<1>7. S = Nat
  <2> HIDE DEF S
  <2>1. S \in SUBSET Nat
    BY DEF S
  <2> QED
    BY <1>5, <1>6, <2>1, CountingUp
<1>8. ASSUME NEW n \in 0 .. N PROVE f[n] \subseteq X /\ a \in f[n]
  <2>1. n \in S
    BY <1>7
  <2> QED
    BY <2>1
<1> QED
  BY <1>2, <1>3, <1>8 DEF Grows

\* The component of a node is the least closed set the node is in: as many
\* rounds as there are actors leave nothing new to reach.
LEMMA ComponentLeast ==
  ASSUME NEW d, d.edges \subseteq Actors \X Actors, NEW a \in Actors
  PROVE  /\ a \in Component(d, a) /\ Component(d, a) \subseteq Actors
         /\ Closed(d, Component(d, a))
         /\ \A X : a \in X /\ Closed(d, X) => Component(d, a) \subseteq X
<1> DEFINE N == Cardinality(Actors)
<1>1. N \in Nat /\ IsFiniteSet(Actors)
  BY QuestionAssumption, FS_CardinalityType
<1>2. PICK f : Spreads(f, d, a, N) /\ Component(d, a) = f[N]
  BY ComponentIsBall
<1> HIDE DEF N
<1>3. Closed(d, Actors)
  BY DEF Closed
<1>4. /\ \A n \in 0 .. N : f[n] \subseteq Actors /\ a \in f[n]
      /\ f[0] = {a}
      /\ \A n \in 0 .. N : n + 1 <= N => f[n + 1] = f[n] \cup Led(d, f[n])
  <2>1. Grows(f, d, a, N, Actors)
    BY <1>1, <1>2, <1>3, BallWithin
  <2> QED
    BY <2>1 DEF Grows
<1>5. \A n \in 0 .. N : IsFiniteSet(f[n]) /\ Cardinality(f[n]) \in Nat /\ Cardinality(f[n]) <= N
  BY <1>1, <1>4, FS_Subset, FS_CardinalityType DEF N
<1> DEFINE S == {n \in Nat : n <= N => \/ Cardinality(f[n]) >= n + 1
                                       \/ Led(d, f[n]) \subseteq f[n]}
<1>6. 0 \in S
  <2>1. Cardinality(f[0]) = 1
    BY <1>4, FS_Singleton
  <2> QED
    BY <2>1
<1>7. ASSUME NEW n \in S PROVE n + 1 \in S
  <2> SUFFICES ASSUME n + 1 <= N
               PROVE  \/ Cardinality(f[n + 1]) >= n + 2
                      \/ Led(d, f[n + 1]) \subseteq f[n + 1]
    OBVIOUS
  <2>1. n \in Nat /\ n \in 0 .. N /\ n + 1 \in 0 .. N
    BY <1>1
  <2>2. f[n + 1] = f[n] \cup Led(d, f[n])
    BY <1>4, <2>1
  <2>3. CASE Led(d, f[n]) \subseteq f[n]
    <3>1. f[n + 1] = f[n]
      BY <2>2, <2>3
    <3> QED
      BY <2>3, <3>1
  <2>4. CASE ~(Led(d, f[n]) \subseteq f[n])
    <3> DEFINE old == f[n]
               new == f[n + 1]
    <3>1. old \in SUBSET new /\ old # new
      BY <2>2, <2>4
    <3>2. /\ IsFiniteSet(new) /\ Cardinality(old) \in Nat /\ Cardinality(new) \in Nat
      BY <1>5, <2>1
    <3>3. Cardinality(old) >= n + 1
      BY <2>1, <2>4
    <3> HIDE DEF old, new
    <3>4. Cardinality(old) <= Cardinality(new) /\ Cardinality(old) # Cardinality(new)
      BY <3>1, <3>2, FS_Subset
    <3>5. Cardinality(new) >= n + 2
      BY <2>1, <3>2, <3>3, <3>4
    <3> QED
      BY <3>5 DEF new
  <2> QED
    BY <2>3, <2>4
<1>8. S = Nat
  <2> HIDE DEF S
  <2>1. S \in SUBSET Nat
    BY DEF S
  <2> QED
    BY <1>6, <1>7, <2>1, CountingUp
<1>9. Led(d, f[N]) \subseteq f[N]
  <2>1. N \in S
    BY <1>1, <1>8
  <2>2. Cardinality(f[N]) \in Nat /\ Cardinality(f[N]) <= N
    BY <1>1, <1>5
  <2> QED
    BY <1>1, <2>1, <2>2
<1>10. Closed(d, f[N])
  <2> SUFFICES ASSUME NEW e \in d.edges PROVE e[1] \in f[N] <=> e[2] \in f[N]
    BY DEF Closed
  <2> DEFINE back == <<e[2], e[1]>>
  <2>1. e \in Both(d) /\ back \in Both(d) /\ back[1] = e[2] /\ back[2] = e[1]
    BY DEF Both
  <2> HIDE DEF back
  <2>2. e[1] \in f[N] => e[2] \in Led(d, f[N])
    BY <2>1 DEF Led
  <2>3. e[2] \in f[N] => e[1] \in Led(d, f[N])
    BY <2>1 DEF Led
  <2> QED
    BY <1>9, <2>2, <2>3
<1>11. ASSUME NEW X, a \in X, Closed(d, X) PROVE f[N] \subseteq X
  <2>1. N \in 0 .. N
    BY <1>1
  <2>2. Grows(f, d, a, N, X)
    BY <1>1, <1>2, <1>11, BallWithin
  <2> QED
    BY <2>1, <2>2 DEF Grows
<1>12. a \in f[N] /\ f[N] \subseteq Actors
  BY <1>1, <1>4
<1> QED
  BY <1>2, <1>10, <1>11, <1>12

\* Two components are one or have nothing in common.
LEMMA ComponentsApart ==
  ASSUME NEW d, d.edges \subseteq Actors \X Actors, NEW a \in Actors, NEW b \in Actors,
         NEW c, c \in Component(d, a), c \in Component(d, b)
  PROVE  Component(d, a) = Component(d, b)
<1>1. ASSUME NEW x \in Actors, NEW y \in Component(d, x)
      PROVE  y \in Actors /\ Component(d, y) = Component(d, x)
  <2>1. /\ y \in Actors /\ x \in Component(d, x) /\ Closed(d, Component(d, x))
        /\ \A X : x \in X /\ Closed(d, X) => Component(d, x) \subseteq X
    BY ComponentLeast
  <2>2. /\ y \in Component(d, y) /\ Closed(d, Component(d, y))
        /\ \A X : y \in X /\ Closed(d, X) => Component(d, y) \subseteq X
    BY <2>1, ComponentLeast
  <2>3. Component(d, y) \subseteq Component(d, x)
    BY <2>1, <2>2
  <2>4. x \in Component(d, y)
    <3> DEFINE rest == Actors \ Component(d, y)
    <3>1. Closed(d, rest)
      BY <2>2 DEF Closed
    <3> SUFFICES ASSUME x \in rest PROVE FALSE
      OBVIOUS
    <3>2. Component(d, x) \subseteq rest
      BY <2>1, <3>1
    <3> QED
      BY <2>2, <3>2
  <2> QED
    BY <2>1, <2>2, <2>3, <2>4
<1> QED
  BY <1>1

LEMMA GroupsOfNodes ==
  ASSUME NEW d, d.edges \subseteq Actors \X Actors, NodeSet(d) \subseteq Actors
  PROVE  /\ NodeSet(d) \subseteq UNION Groups(d)
         /\ \A g, h \in Groups(d) : g = h \/ g \cap h = {}
         /\ \A g \in Groups(d) : Closed(d, g)
         /\ Closed(d, NodeSet(d)) => UNION Groups(d) \subseteq NodeSet(d)
<1>1. NodeSet(d) \subseteq UNION Groups(d)
  BY ComponentLeast DEF Groups
<1>2. ASSUME NEW g \in Groups(d), NEW h \in Groups(d) PROVE g = h \/ g \cap h = {}
  <2>1. PICK a \in NodeSet(d), b \in NodeSet(d) : g = Component(d, a) /\ h = Component(d, b)
    BY DEF Groups
  <2> QED
    BY <2>1, ComponentsApart
<1>3. \A g \in Groups(d) : Closed(d, g)
  BY ComponentLeast DEF Groups
<1>4. ASSUME Closed(d, NodeSet(d)) PROVE UNION Groups(d) \subseteq NodeSet(d)
  BY <1>4, ComponentLeast DEF Groups
<1> QED
  BY <1>1, <1>2, <1>3, <1>4

-----------------------------------------------------------------------------
(* Nodes and edges are read apart                                           *)

\* Every actor a relationship names has its row, and its evidence too.
Rostered ==
  /\ actors \in Seq(Actors)
  /\ \A e \in relationships :
       e.evidence \in 1 .. Len(observations) /\ {e.from, e.to} \subseteq Rows(actors)

Crossed(d) == {e \in d.edges : ~({e[1], e[2]} \subseteq NodeSet(d))}

Exact(d) ==
  LET groups == d.answer.groups
  IN  IF d.answer.error
      THEN Arrived(d) # {}
      ELSE /\ UNION groups = NodeSet(d)
           /\ \A g, h \in groups : g = h \/ g \cap h = {}
           /\ \A e \in d.edges, g \in groups : {e[1], e[2]} \subseteq NodeSet(d) =>
                (e[1] \in g <=> e[2] \in g)

SeenTwice(d) ==
  d.seen[1] \in Nat /\ d.seen[2] \in Nat /\ d.seen[2] <= Len(observations)

\* What a reader holds of the case: after the first SELECT the ends of every
\* relationship it found, after the second the ends of every edge unless an
\* account arrived between the two, at last groups that are exact.
Gathered(d) ==
  /\ d.step \in {"edges", "read"} => NodeSet(d) \subseteq Actors
  /\ d.step = "edges" =>
       /\ d.seen = <<d.seen[1]>> /\ d.seen[1] \in 0 .. Len(observations)
       /\ \A e \in relationships :
            e.evidence <= d.seen[1] /\ observations[e.evidence].case = d.question.case =>
              {e.from, e.to} \subseteq NodeSet(d)
  /\ d.step = "read" => SeenTwice(d) /\ (Crossed(d) # {} => Arrived(d) # {})
  /\ d.step = "answered" /\ d.question.command = "communities" => SeenTwice(d) /\ Exact(d)

GroupInv == Rostered /\ \A r \in Readers : Gathered(reader[r])

LEMMA RosterObserves ==
  ASSUME ChangesInv, Rostered, NEW p \in Payloads, Observe(p)
  PROVE  Rostered'
<1> DEFINE names == p.names
           n == Len(observations) + 1
<1>1. names \in Seq(Actors) /\ names # << >> /\ (p.switch => Len(names) > 1)
  BY PayloadAssumption
<1>2. /\ Len(names) \in Nat /\ DOMAIN names = 1 .. Len(names) /\ 1 \in DOMAIN names
      /\ Len(names) \in DOMAIN names
  <2>1. Len(names) \in Nat /\ Len(names) # 0 /\ DOMAIN names = 1 .. Len(names)
    BY <1>1, LenProperties, EmptySeq
  <2> QED
    BY <2>1
<1>3. Author(p) \in Rows(names) /\ Named(p) = Rows(names) /\ names[Len(names)] \in Rows(names)
  BY <1>2 DEF Author, Named, Rows
<1>4. \A e \in Linked(p, n) : e.evidence = n /\ e.from \in Rows(names) /\ e.to \in Rows(names)
  BY <1>3 DEF Linked
<1>5. actors' \in Seq(Actors) /\ Rows(actors)' = Rows(actors) \cup Rows(names)
  <2>1. actors' = Registered(names)
    BY DEF Observe
  <2>2. /\ Registered(names) \in Seq(Actors)
        /\ Rows(Registered(names)) = Rows(actors) \cup Rows(names)
    BY <1>1, RegisteredRows DEF Rostered
  <2>3. Rows(actors)' = Rows(Registered(names))
    BY <2>1 DEF Rows
  <2> QED
    BY <2>1, <2>2, <2>3
<1>6. n \in Nat /\ n >= 1 /\ Len(observations') = n /\ Len(observations) = n - 1
  BY AppendProperties, LenProperties DEF ChangesInv, Observe
<1>7. relationships' = relationships \cup Linked(p, n)
  BY DEF Observe
<1> HIDE DEF n
<1>8. ASSUME NEW e \in relationships'
      PROVE  e.evidence \in 1 .. n /\ {e.from, e.to} \subseteq Rows(actors)'
  <2>1. CASE e \in relationships
    BY <1>5, <1>6, <2>1 DEF Rostered
  <2>2. CASE e \in Linked(p, n)
    BY <1>4, <1>5, <1>6, <2>2
  <2> QED
    BY <1>7, <2>1, <2>2
<1> QED
  BY <1>5, <1>6, <1>8 DEF Rostered

LEMMA GatheredObserves ==
  ASSUME ChangesInv, Rostered, NEW p \in Payloads, Observe(p), NEW d, Gathered(d)
  PROVE  Gathered(d)'
<1> DEFINE n == Len(observations)
<1>1. /\ n \in Nat /\ Len(observations') = n + 1
      /\ \A i \in 1 .. n : observations'[i] = observations[i]
  BY AppendProperties, LenProperties DEF ChangesInv, Observe
<1>2. /\ relationships' = relationships \cup Linked(p, n + 1)
      /\ \A e \in relationships : e.evidence \in 1 .. n
  BY DEF Observe, Rostered
<1>3. \A e \in Linked(p, n + 1) : e.evidence = n + 1
  BY DEF Linked
<1> HIDE DEF n
<1>4. NodeSet(d)' = NodeSet(d)
  BY DEF NodeSet
<1>5. \A e \in relationships : observations'[e.evidence] = observations[e.evidence]
  BY <1>1, <1>2
<1>6. Arrived(d) # {} => Arrived(d)' # {}
  BY <1>2, <1>4, <1>5 DEF Arrived
<1>7. SeenTwice(d) => SeenTwice(d)'
  BY <1>1 DEF SeenTwice, n
<1>8. Exact(d) => Exact(d)'
  BY <1>4, <1>6 DEF Exact
<1>9. ASSUME d.step = "edges"
      PROVE  /\ d.seen = <<d.seen[1]>> /\ d.seen[1] \in 0 .. n + 1
             /\ \A e \in relationships' :
                  e.evidence <= d.seen[1] /\ observations'[e.evidence].case = d.question.case =>
                    {e.from, e.to} \subseteq NodeSet(d)
  <2>1. /\ d.seen = <<d.seen[1]>> /\ d.seen[1] \in 0 .. n
        /\ \A e \in relationships :
             e.evidence <= d.seen[1] /\ observations[e.evidence].case = d.question.case =>
               {e.from, e.to} \subseteq NodeSet(d)
    BY <1>9 DEF Gathered, n
  <2>2. ASSUME NEW e \in relationships', e.evidence <= d.seen[1],
               observations'[e.evidence].case = d.question.case
        PROVE  {e.from, e.to} \subseteq NodeSet(d)
    <3>1. e \in relationships
      BY <1>1, <1>2, <1>3, <2>1, <2>2
    <3> QED
      BY <1>5, <2>1, <2>2, <3>1
  <2>3. d.seen[1] \in 0 .. n + 1
    BY <1>1, <2>1
  <2> QED
    BY <2>1, <2>2, <2>3
<1>10. Crossed(d)' = Crossed(d)
  BY <1>4 DEF Crossed
<1> QED
  BY <1>1, <1>4, <1>6, <1>7, <1>8, <1>9, <1>10 DEF Gathered

LEMMA GatheredKept ==
  ASSUME UNCHANGED history_vars, NEW d, Gathered(d)
  PROVE  Gathered(d)'
<1>1. observations' = observations /\ relationships' = relationships
  BY DEF history_vars
<1>2. NodeSet(d)' = NodeSet(d)
  BY DEF NodeSet
<1>3. Arrived(d)' = Arrived(d) /\ Crossed(d)' = Crossed(d) /\ SeenTwice(d)' = SeenTwice(d)
  BY <1>1, <1>2 DEF Arrived, Crossed, SeenTwice
<1>4. Exact(d)' = Exact(d)
  BY <1>2, <1>3 DEF Exact
<1> QED
  BY <1>1, <1>2, <1>3, <1>4 DEF Gathered

LEMMA RosterKept == Rostered /\ UNCHANGED history_vars => Rostered'
  BY DEF Rostered, history_vars, Rows

LEMMA TwoReads ==
  ASSUME NEW n \in Nat, NEW m \in Nat
  PROVE  Append(<<n>>, m)[1] = n /\ Append(<<n>>, m)[2] = m
<1>1. <<n>> \in Seq(Nat) /\ Len(<<n>>) = 1 /\ <<n>>[1] = n
  OBVIOUS
<1> QED
  BY <1>1, AppendProperties

\* A reader that gets something sound leaves the others what they hold.
LEMMA GroupHandOver ==
  ASSUME SearchInv, GroupInv, NEW r \in Readers, NEW d, Gathered(d), UNCHANGED history_vars,
         reader' = [reader EXCEPT ![r] = d]
  PROVE  GroupInv'
<1>1. Rostered'
  BY RosterKept DEF GroupInv
<1>2. ASSUME NEW x \in Readers PROVE Gathered(reader[x])'
  <2>1. PICK c : c = reader'[x]
    OBVIOUS
  <2>2. Gathered(c)
    BY <2>1 DEF GroupInv, SearchInv
  <2>3. Gathered(c)'
    BY <2>2, GatheredKept
  <2> QED
    BY <2>1, <2>3
<1> QED
  BY <1>1, <1>2 DEF GroupInv

LEMMA GroupLook ==
  ASSUME ChangesInv, SearchInv, GroupInv, NEW r \in Readers, Look(r)
  PROVE  GroupInv'
<1> DEFINE old == reader[r]
           q == old.question
<1>0. InHand(old) /\ Gathered(old) /\ Rostered /\ UNCHANGED history_vars
  BY LooksOnly DEF SearchInv, GroupInv
<1>1. CASE ReadNodes(r)
  <2>1. PICK c \in Questions :
          reader' = [reader EXCEPT ![r] =
            [step |-> "edges", question |-> c, seen |-> <<Len(observations)>>,
             nodes |-> [i \in {j \in 1 .. Len(actors) : InCase(c.case, actors[j])} |-> actors[i]]]]
    BY <1>1 DEF ReadNodes
  <2> DEFINE nodes == [i \in {j \in 1 .. Len(actors) : InCase(c.case, actors[j])} |-> actors[i]]
             d == [step |-> "edges", question |-> c, seen |-> <<Len(observations)>>,
                   nodes |-> nodes]
  <2>2. /\ Len(actors) \in Nat /\ DOMAIN actors = 1 .. Len(actors)
        /\ \A i \in 1 .. Len(actors) : actors[i] \in Actors
        /\ Len(observations) \in Nat
    BY <1>0, LenProperties, ElementOfSeq DEF Rostered, ChangesInv
  <2>3. NodeSet(d) = {a \in Rows(actors) : InCase(c.case, a)}
    BY <2>2 DEF NodeSet, Rows
  <2>4. NodeSet(d) \subseteq Actors
    BY <2>2, <2>3 DEF Rows
  <2>5. ASSUME NEW e \in relationships, observations[e.evidence].case = c.case
        PROVE  {e.from, e.to} \subseteq NodeSet(d)
    <3> DEFINE pair == <<e.from, e.to>>
    <3>1. pair \in EdgesOf(c.case) /\ pair[1] = e.from /\ pair[2] = e.to
      BY <2>5 DEF EdgesOf
    <3> HIDE DEF pair, d
    <3>2. InCase(c.case, e.from) /\ InCase(c.case, e.to)
      BY <3>1 DEF InCase
    <3>3. {e.from, e.to} \subseteq Rows(actors)
      BY <1>0 DEF Rostered
    <3> QED
      BY <2>3, <3>2, <3>3
  <2>6. /\ d.step = "edges" /\ d.seen = <<Len(observations)>> /\ d.seen[1] = Len(observations)
        /\ d.question = c
    OBVIOUS
  <2>7. reader' = [reader EXCEPT ![r] = d]
    BY <2>1
  <2> HIDE DEF d, nodes
  <2>8. Gathered(d)
    BY <2>2, <2>4, <2>5, <2>6 DEF Gathered
  <2> QED
    BY <1>0, <2>7, <2>8, GroupHandOver
<1>2. CASE ReadEdges(r)
  <2> DEFINE d == [step |-> "read", question |-> q, nodes |-> old.nodes,
                   seen |-> Append(old.seen, Len(observations)), edges |-> EdgesOf(q.case)]
  <2>1. reader' = [reader EXCEPT ![r] = d] /\ old.step = "edges"
    BY <1>2 DEF ReadEdges, SearchInv
  <2> DEFINE n == old.seen[1]
             m == Len(observations)
  <2>2. /\ old.seen = <<n>> /\ n \in 0 .. m /\ m \in Nat
        /\ NodeSet(old) \subseteq Actors
        /\ \A e \in relationships :
             e.evidence <= n /\ observations[e.evidence].case = q.case =>
               {e.from, e.to} \subseteq NodeSet(old)
    BY <1>0, <2>1, LenProperties DEF Gathered, ChangesInv
  <2>3. /\ d.step = "read" /\ d.question = q /\ d.edges = EdgesOf(q.case)
        /\ d.seen = Append(old.seen, m) /\ NodeSet(d) = NodeSet(old)
    BY DEF NodeSet
  <2> HIDE DEF d, n, m
  <2>4. d.seen = Append(<<n>>, m)
    BY <2>2, <2>3, Zenon
  <2>5. d.seen[1] = n /\ d.seen[2] = m
    BY <2>2, <2>4, TwoReads
  <2>6. ASSUME Crossed(d) # {} PROVE Arrived(d) # {}
    <3>1. PICK e \in d.edges : ~({e[1], e[2]} \subseteq NodeSet(old))
      BY <2>3, <2>6 DEF Crossed
    <3>2. PICK x \in relationships :
            observations[x.evidence].case = q.case /\ e = <<x.from, x.to>>
      BY <2>3 DEF EdgesOf
    <3>3. ~({x.from, x.to} \subseteq NodeSet(old))
      BY <3>1, <3>2
    <3>4. x.evidence \in 1 .. m /\ ~(x.evidence <= n)
      BY <1>0, <2>2, <3>2, <3>3 DEF Rostered, m
    <3>5. x.evidence \in n + 1 .. m
      BY <2>2, <3>4
    <3> QED
      BY <2>3, <2>5, <3>2, <3>3, <3>5 DEF Arrived
  <2>7. Gathered(d)
    BY <2>2, <2>3, <2>5, <2>6 DEF Gathered, SeenTwice, m
  <2> QED
    BY <1>0, <2>1, <2>7, GroupHandOver
<1>3. CASE Communities(r)
  <2> DEFINE groups == Groups(old)
             answer == [error |-> ~(UNION groups \subseteq NodeSet(old)), groups |-> groups]
             d == [step |-> "answered", question |-> q, seen |-> old.seen, nodes |-> old.nodes,
                   edges |-> old.edges, answer |-> answer]
  <2>1. /\ reader' = [reader EXCEPT ![r] = d]
        /\ old.step = "read"
    BY <1>3 DEF Communities, Answer, SearchInv
  <2>2. /\ NodeSet(old) \subseteq Actors /\ SeenTwice(old)
        /\ Crossed(old) # {} => Arrived(old) # {}
        /\ old.edges \subseteq Actors \X Actors
    BY <1>0, <2>1 DEF Gathered, InHand, Read
  <2>3. /\ NodeSet(old) \subseteq UNION groups
        /\ \A g, h \in groups : g = h \/ g \cap h = {}
        /\ \A g \in groups : Closed(old, g)
        /\ Closed(old, NodeSet(old)) => UNION groups \subseteq NodeSet(old)
    BY <2>2, GroupsOfNodes
  <2>4. /\ d.step = "answered" /\ d.question = q /\ d.seen = old.seen
        /\ d.edges = old.edges /\ NodeSet(d) = NodeSet(old)
        /\ d.answer.groups = groups
        /\ d.answer.error <=> ~(UNION groups \subseteq NodeSet(old))
    BY DEF NodeSet
  <2> HIDE DEF d, groups
  <2>5. Arrived(d) = Arrived(old)
    BY <2>4 DEF Arrived
  <2>6. ASSUME ~(UNION groups \subseteq NodeSet(old)) PROVE Arrived(old) # {}
    <3>1. Crossed(old) # {}
      BY <2>3, <2>6 DEF Closed, Crossed
    <3> QED
      BY <2>2, <3>1
  <2>7. ASSUME UNION groups \subseteq NodeSet(old)
        PROVE  /\ UNION groups = NodeSet(d)
               /\ \A e \in d.edges, g \in groups : e[1] \in g <=> e[2] \in g
    BY <2>3, <2>4, <2>7 DEF Closed
  <2>8. Exact(d)
    BY <2>3, <2>4, <2>5, <2>6, <2>7 DEF Exact
  <2>9. SeenTwice(d)
    BY <2>2, <2>4 DEF SeenTwice
  <2>10. Gathered(d)
    BY <2>4, <2>8, <2>9 DEF Gathered
  <2> QED
    BY <1>0, <2>1, <2>10, GroupHandOver
<1>4. CASE BeginSearch(r) \/ Expand(r)
  <2>1. PICK t, queue, paths :
          reader' = [reader EXCEPT ![r] =
            [step |-> "search", question |-> q, seen |-> old.seen, nodes |-> old.nodes,
             edges |-> old.edges, target |-> t, queue |-> queue, paths |-> paths]]
    BY <1>4 DEF BeginSearch, Expand, Search, SearchInv
  <2> DEFINE d == [step |-> "search", question |-> q, seen |-> old.seen, nodes |-> old.nodes,
                   edges |-> old.edges, target |-> t, queue |-> queue, paths |-> paths]
  <2>2. Gathered(d)
    BY DEF Gathered
  <2>3. reader' = [reader EXCEPT ![r] = d]
    BY <2>1
  <2> HIDE DEF d
  <2> QED
    BY <1>0, <2>2, <2>3, GroupHandOver
<1>5. CASE NoSuchNode(r) \/ Found(r) \/ Exhausted(r)
  <2>1. PICK answer :
          /\ reader' = [reader EXCEPT ![r] =
               [step |-> "answered", question |-> q, seen |-> old.seen, nodes |-> old.nodes,
                edges |-> old.edges, answer |-> answer]]
    BY <1>5 DEF NoSuchNode, Found, Exhausted, Answer, SearchInv
  <2>2. q.command = "path"
    BY <1>0, <1>5 DEF NoSuchNode, Found, Exhausted, Searching, InHand, Traced
  <2> DEFINE d == [step |-> "answered", question |-> q, seen |-> old.seen, nodes |-> old.nodes,
                   edges |-> old.edges, answer |-> answer]
  <2>3. Gathered(d)
    BY <2>2 DEF Gathered
  <2>4. reader' = [reader EXCEPT ![r] = d]
    BY <2>1
  <2> HIDE DEF d
  <2> QED
    BY <1>0, <2>3, <2>4, GroupHandOver
<1> QED
  BY <1>1, <1>2, <1>3, <1>4, <1>5 DEF Look

LEMMA GroupStep ==
  ChangesInv /\ SearchInv /\ GroupInv /\ [ViewerNext]_viewer_vars => GroupInv'
<1> SUFFICES ASSUME ChangesInv, SearchInv, GroupInv, [ViewerNext]_viewer_vars PROVE GroupInv'
  OBVIOUS
<1>1. ASSUME NEW p \in Payloads, Observe(p), UNCHANGED reader PROVE GroupInv'
  <2>1. Rostered'
    BY <1>1, RosterObserves DEF GroupInv
  <2>2. ASSUME NEW r \in Readers PROVE Gathered(reader[r])'
    <3>1. PICK d : d = reader[r]
      OBVIOUS
    <3>2. Gathered(d)'
      BY <1>1, <3>1, GatheredObserves DEF GroupInv
    <3>3. d = reader'[r]
      BY <1>1, <3>1
    <3> QED
      BY <3>2, <3>3
  <2> QED
    BY <2>1, <2>2 DEF GroupInv
<1>2. ASSUME UNCHANGED viewer_vars PROVE GroupInv'
  <2>1. UNCHANGED history_vars /\ UNCHANGED reader
    BY <1>2 DEF viewer_vars
  <2>2. ASSUME NEW r \in Readers PROVE Gathered(reader[r])'
    <3>1. PICK d : d = reader[r]
      OBVIOUS
    <3>2. Gathered(d)'
      BY <2>1, <3>1, GatheredKept DEF GroupInv
    <3>3. d = reader'[r]
      BY <2>1, <3>1
    <3> QED
      BY <3>2, <3>3
  <2> QED
    BY <2>1, <2>2, RosterKept DEF GroupInv
<1> QED
  BY <1>1, <1>2, GroupLook DEF ViewerNext, Add

\* The groups /graph communities shows are a partition of the nodes that no
\* edge between two nodes crosses, for any graph and number of readers, and
\* it fails only if an account arrived between the two SELECTs of
\* get_case_graph (GraphViewer.enrich, the command's lookup by node).
THEOREM CommunitiesAreExact == ViewerSpec => []CommunitiesExact
<1>1. ViewerInit => GroupInv
  BY DEF ViewerInit, HistoryInit, GroupInv, Rostered, Gathered, Waiting
<1>2. ViewerSpec => [](SearchInv /\ GroupInv)
  BY <1>1, ChangesInvariant, SearchInitially, SearchStep, GroupStep, PTL DEF ViewerSpec
<1>3. GroupInv => CommunitiesExact
  BY DEF GroupInv, Gathered, Exact, CommunitiesExact, Answered
<1> QED
  BY <1>2, <1>3, PTL
=============================================================================
