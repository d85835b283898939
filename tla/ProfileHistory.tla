--------------------------- MODULE ProfileHistory ---------------------------
(***************************************************************************)
(* What an observation leaves in a case beside itself: the actors it       *)
(* names, the relationships it is evidence of, a snapshot of its author's  *)
(* profile, and a review entry for every profile field that changed        *)
(* (src/src/repository.py, MirrorFace/profile_resolver.py).  All of it is  *)
(* one transaction under SQLite's write lock, hence one step.              *)
(***************************************************************************)
EXTENDS Naturals, Sequences

CONSTANTS
  Actors,          \* one for each handle and platform
  Cases,
  Fields,          \* profile fields an actor may change
  Blank,           \* a field that was left empty
  Payloads,        \* observations the desk may receive
  MaxObservations  \* bound: observations

\* The actors a payload names, the author first and none twice.
Named(p) == {p.names[i] : i \in DOMAIN p.names}
Author(p) == p.names[1]

(***************************************************************************)
(* A payload: `switch` says that it gives the author's previous handle,    *)
(* which is then the last of its names.  captured_at is what the analyst   *)
(* supplied: any order is possible, it is compared as it is.               *)
(***************************************************************************)
ASSUME PayloadAssumption ==
  \A p \in Payloads :
    /\ p.names \in Seq(Actors) /\ p.names # << >>
    /\ \A i, j \in DOMAIN p.names : p.names[i] = p.names[j] => i = j
    /\ p.case \in Cases /\ p.captured_at \in Nat
    /\ p.switch \in BOOLEAN /\ (p.switch => Len(p.names) > 1)
    /\ DOMAIN p.profile = Fields
ASSUME BoundAssumption == MaxObservations \in Nat

VARIABLES
  observations,   \* rows of observations: [actor, case]
  actors,         \* rows of actors, by id
  relationships,  \* [from, to, evidence]
  snapshots,      \* rows of profile_snapshots; each has an observation of its own
  changes         \* the "review_needed" entries of profile changes

history_vars == <<observations, actors, relationships, snapshots, changes>>

HistoryInit ==
  /\ observations = << >>
  /\ actors = << >>
  /\ relationships = {}
  /\ snapshots = << >>
  /\ changes = {}

\* _get_or_create_actor for every name in turn.
Registered(names) ==
  LET rows[n \in 0 .. Len(names)] ==
        IF n = 0 THEN actors
        ELSE IF \E i \in DOMAIN rows[n - 1] : rows[n - 1][i] = names[n] THEN rows[n - 1]
        ELSE Append(rows[n - 1], names[n])
  IN  rows[Len(names)]

\* The author is linked to those it names, and a previous account to the author.
\* (A relationship of an account with itself, which a payload may list, is on
\* no shortest path and joins no groups; it is left out.)
Linked(p, n) ==
  LET switched == IF p.switch THEN {p.names[Len(p.names)]} ELSE {}
  IN  {[from |-> Author(p), to |-> a, evidence |-> n] : a \in Named(p) \ ({Author(p)} \cup switched)}
      \cup {[from |-> a, to |-> Author(p), evidence |-> n] : a \in switched}

Of(actor, case) ==
  {k \in DOMAIN snapshots : snapshots[k].actor = actor /\ snapshots[k].case = case}

Before(j, k) ==
  \/ snapshots[j].captured_at < snapshots[k].captured_at
  \/ snapshots[j].captured_at = snapshots[k].captured_at /\ j < k

\* Mutant of Latest: of the snapshots captured last the first one stored.
LatestStoredFirst(actor, case) ==
  {k \in Of(actor, case) : \A j \in Of(actor, case) :
     \/ snapshots[j].captured_at < snapshots[k].captured_at
     \/ snapshots[j].captured_at = snapshots[k].captured_at /\ k <= j}

\* Mutant of Latest: the profile is looked up in every case.
LatestAnywhere(actor, case) ==
  LET all == {k \in DOMAIN snapshots : snapshots[k].actor = actor}
  IN  {k \in all : \A j \in all : j = k \/ Before(j, k)}

\* ORDER BY captured_at DESC, id DESC LIMIT 1: the one snapshot, if any.
Latest(actor, case) ==
  {k \in Of(actor, case) : \A j \in Of(actor, case) : j = k \/ Before(j, k)}

\* ProfileResolver.compare: a field counts only if it was and is filled in.
Differs(old, new, f) == old[f] # Blank /\ new[f] # Blank /\ old[f] # new[f]

\* create_observation, from the lookup of the actor on.
Observe(p) ==
  LET n == Len(observations) + 1
  IN  /\ n <= MaxObservations
      /\ observations' = Append(observations, [actor |-> Author(p), case |-> p.case])
      /\ actors' = Registered(p.names)
      /\ relationships' = relationships \cup Linked(p, n)
      /\ snapshots' = Append(snapshots,
           [actor |-> Author(p), case |-> p.case, profile |-> p.profile,
            captured_at |-> p.captured_at])
      /\ changes' = changes \cup UNION
           {{[field |-> f, previous |-> snapshots[k].profile[f], current |-> p.profile[f],
              observation |-> n] : f \in {g \in Fields : Differs(snapshots[k].profile, p.profile, g)}}
             : k \in Latest(Author(p), p.case)}

-----------------------------------------------------------------------------
\* A review entry says of a profile what two snapshots on record say: the one
\* of its own observation, and one of the same actor in the same case that
\* was stored before it and captured as the latest of those.  Between the two
\* the field did change.
EntriesJustified ==
  \A e \in changes :
    /\ e.observation \in DOMAIN snapshots
    /\ \E k \in 1 .. e.observation - 1 :
         LET old == snapshots[k]
             new == snapshots[e.observation]
         IN  /\ old.actor = new.actor /\ old.case = new.case
             /\ old.profile[e.field] = e.previous /\ new.profile[e.field] = e.current
             /\ Differs(old.profile, new.profile, e.field)
             /\ \A j \in Of(new.actor, new.case) : j < e.observation => j = k \/ Before(j, k)

\* While the observations of an actor reach a case in the order they were
\* captured, the review entries are exactly the changes from each snapshot to
\* the next, also when several were captured at the same time; a field that
\* was left blank in between hides its change.
Orderly(actor, case) ==
  \A j, k \in Of(actor, case) : j < k => snapshots[j].captured_at <= snapshots[k].captured_at
Consecutive(j, k) ==
  j < k /\ \A i \in Of(snapshots[k].actor, snapshots[k].case) : i <= j \/ i >= k

OrderlyExact ==
  \A j, k \in DOMAIN snapshots :
    LET actor == snapshots[k].actor
        case == snapshots[k].case
    IN  Orderly(actor, case) /\ j \in Of(actor, case) /\ Consecutive(j, k) =>
          \A f \in Fields :
            Differs(snapshots[j].profile, snapshots[k].profile, f) <=>
              [field |-> f, previous |-> snapshots[j].profile[f],
               current |-> snapshots[k].profile[f], observation |-> k] \in changes
=============================================================================
