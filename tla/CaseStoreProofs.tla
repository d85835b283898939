---------------------------- MODULE CaseStoreProofs ----------------------------
(***************************************************************************)
(* Theorems about CaseStore, for any threads, items, legacy store and      *)
(* bounds: types, the audit trail of every observation, and risk scores.   *)
(* The audit argument is that the start-up transactions, of the server and *)
(* of the tool beside it, each establish one part of the trail, which      *)
(* create_observation keeps because it writes all parts in one transaction *)
(* and which no other start-up takes away (AuditInv).                      *)
(***************************************************************************)
EXTENDS CaseStore, TLAPS, SequenceTheorems, FiniteSetTheorems

\* A command that still writes has something to write, and somewhere.
CommandOK(t) ==
  /\ exec[t].kind = "import" => exec[t].case_id \in CaseIds
  /\ exec[t].step = "batch" => exec[t].kind = "import"
  /\ exec[t].step \in {"lookup", "insert", "append"} => exec[t].todo # << >>
  /\ exec[t].step \in {"insert", "append"} => exec[t].case_id <= cases

TypeInv == StoreTypeOK /\ \A t \in Threads : CommandOK(t)

Linked == \A o \in DOMAIN observations : \E c \in 1 .. cases : <<c, o>> \in links

\* Captured content is where an observation is in a case, and only there,
\* but for places that a start-up has yet to back.
CapturedOK ==
  \A q \in DOMAIN captured :
    \/ captured[q] = IF q \in links THEN 1 ELSE 0
    \/ captured[q] = 0 /\ Backfilling

\* What the start-up of process p has established so far, for good.
Established(p) ==
  /\ phase[p] \in {"evidence", "fingerprints", "insert", "serving"} => Linked
  /\ phase[p] \in {"fingerprints", "insert", "serving"} => Backed
  /\ phase[p] = "insert" =>
       DOMAIN observations \subseteq fingerprints \cup unprinted[p]
  /\ phase[p] = "serving" => fingerprints = DOMAIN observations

AuditInv ==
  /\ links \subseteq (1 .. cases) \X DOMAIN observations
  /\ CapturedOK
  /\ \A p \in Processes : Established(p)

-----------------------------------------------------------------------------
(* Commands *)

\* A thread without a command is one.
LEMMA IdleTyped == Idle \in Command /\ Idle.step = "idle" /\ Idle.kind = "single"
  BY EmptySeq DEF Idle, Command, Kinds

\* Dropping the first item of a command leaves a command that has an item, a
\* batch row to write or nothing to do.
LEMMA RestTyped ==
  ASSUME NEW c \in Command, c.todo # << >>
  PROVE  /\ Rest(c) \in Command
         /\ Rest(c).step \in {"lookup", "batch", "idle"}
         /\ Rest(c).step = "lookup" => Rest(c).todo # << >>
         /\ Rest(c).step = "batch" => c.kind = "import"
         /\ Rest(c).kind = c.kind /\ Rest(c).case_id = c.case_id
<1>1. c.todo \in Seq(Items) /\ Tail(c.todo) \in Seq(Items)
  BY DEF Command
<1> DEFINE step == IF Tail(c.todo) # << >> THEN "lookup"
                   ELSE IF c.kind = "import" THEN "batch" ELSE "idle"
<1>2. Rest(c) = [c EXCEPT !.todo = Tail(c.todo), !.step = step]
  BY DEF Rest, Command
<1>3. step \in {"lookup", "batch", "idle"}
  OBVIOUS
<1> HIDE DEF step
<1>4. /\ Rest(c) \in Command /\ Rest(c).step = step
      /\ Rest(c).todo = Tail(c.todo)
      /\ Rest(c).kind = c.kind /\ Rest(c).case_id = c.case_id
  BY <1>1, <1>2, <1>3 DEF Command
<1>5. QED
  BY <1>4 DEF step

\* What the next command of a thread must satisfy for TypeInv.
Sound(c) ==
  /\ c \in Command
  /\ c.kind = "import" => c.case_id \in CaseIds
  /\ c.step = "batch" => c.kind = "import"
  /\ c.step \in {"lookup", "insert", "append"} => c.todo # << >>
  /\ c.step \in {"insert", "append"} => c.case_id <= cases

\* The command after an item was created or refused.
LEMMA NextItemSound ==
  ASSUME TypeInv, NEW t \in Threads, exec[t].todo # << >>,
         NEW c, NEW n \in Nat, NEW m \in Nat,
         c = [Rest(exec[t]) EXCEPT !.accepted = n, !.rejected = m]
  PROVE  Sound(IF c.step = "idle" THEN Idle ELSE c)
<1>1. exec[t] \in Command /\ CommandOK(t)
  BY DEF TypeInv, StoreTypeOK
<1> DEFINE r == Rest(exec[t])
<1>2. /\ r \in Command
      /\ r.step \in {"lookup", "batch", "idle"}
      /\ r.step = "lookup" => r.todo # << >>
      /\ r.step = "batch" => exec[t].kind = "import"
      /\ r.kind = exec[t].kind /\ r.case_id = exec[t].case_id
  BY <1>1, RestTyped
<1>3. c = [r EXCEPT !.accepted = n, !.rejected = m]
  OBVIOUS
<1> HIDE DEF r
<1>4. /\ c \in Command /\ c.step = r.step /\ c.todo = r.todo
      /\ c.kind = r.kind /\ c.case_id = r.case_id
  BY <1>2, <1>3 DEF Command
<1>5. Sound(c)
  BY <1>1, <1>2, <1>4 DEF Sound, CommandOK
<1>6. Sound(Idle)
  BY IdleTyped DEF Sound
<1>7. QED
  BY <1>5, <1>6

\* Changing one thread's command to a sound one keeps all commands sound.
LEMMA CommandsKept ==
  ASSUME TypeInv, NEW t \in Threads, NEW c, Sound(c), cases' = cases,
         exec' = [exec EXCEPT ![t] = c]
  PROVE  exec' \in [Threads -> Command] /\ \A u \in Threads : CommandOK(u)'
  BY DEF TypeInv, StoreTypeOK, Sound, CommandOK

\* A command is under way only while the server serves.
LEMMA CommandServed ==
  ASSUME TypeInv, NEW t \in Threads, exec[t].step # "idle"
  PROVE  Serving
  BY IdleTyped DEF TypeInv, StoreTypeOK

-----------------------------------------------------------------------------
(* Types *)

\* The tables are typed, and what the processes do.
TablesOK ==
  /\ cases \in 0 .. MaxCases
  /\ DOMAIN actors \subseteq Handles
  /\ \A h \in DOMAIN actors : actors[h] \subseteq DOMAIN observations
  /\ observations \in Seq(Observation) /\ Len(observations) <= MaxObservations
  /\ links \subseteq CaseIds \X DOMAIN observations
  /\ captured \in [CaseIds \X ObservationIds -> Nat]
  /\ fingerprints \subseteq DOMAIN observations
  /\ import_batches \in Seq(Batch)
  /\ commands \in Nat /\ broken \subseteq Nat

PhasesOK ==
  /\ phase \in [Processes -> Phases] /\ phase[Server] # "off"
  /\ \A p \in Clis : phase[p] # "serving"
  /\ \A p \in Processes : phase[p] \notin {"off", "inbox", "create"} => cases > 0

BootOK ==
  /\ PhasesOK
  /\ unprinted \in [Processes -> SUBSET DOMAIN observations]
  /\ owing \in BOOLEAN

\* The types of the store, by parts.
LEMMA TypeParts ==
  StoreTypeOK <=> /\ TablesOK /\ BootOK
                  /\ exec \in [Threads -> Command]
                  /\ ~Serving => exec = [t \in Threads |-> Idle]
  BY DEF StoreTypeOK, TablesOK, BootOK, PhasesOK

\* What a thread is about to write is an item, under an existing case.
LEMMA ItemFacts ==
  ASSUME TypeInv, NEW t \in Threads,
         exec[t].step \in {"lookup", "insert", "append"}
  PROVE  /\ exec[t] \in Command /\ exec[t].todo # << >>
         /\ Item(t) \in Items /\ Serving
<1>1. exec[t] \in Command /\ CommandOK(t)
  BY DEF TypeInv, StoreTypeOK
<1>2. exec[t].todo \in Seq(Items) /\ exec[t].todo # << >>
  BY <1>1 DEF Command, CommandOK
<1>3. QED
  BY <1>1, <1>2, CommandServed DEF Item

\* The row create_observation adds to a case: where it goes.
LEMMA CreateEffect ==
  ASSUME TypeInv, NEW t \in Threads, Create(t)
  PROVE  \E n \in ObservationIds, case \in CaseIds, item \in Items :
           /\ n = Len(observations) + 1 /\ case <= cases /\ Serving
           /\ DOMAIN observations' = DOMAIN observations \cup {n}
           /\ n \notin DOMAIN observations
           /\ observations' \in Seq(Observation)
           /\ Len(observations') = n
           /\ observations'[n].actor = HandleOf[item]
           /\ \A o \in DOMAIN observations : observations'[o] = observations[o]
           /\ actors' = [h \in DOMAIN actors \cup {HandleOf[item]}
                                 \cup Mentions[item] |->
                           IF h = HandleOf[item] THEN Score(h, n)
                           ELSE IF h \in DOMAIN actors THEN actors[h] ELSE {}]
           /\ fingerprints' = fingerprints \cup {n}
           /\ links' = links \cup {<<case, n>>}
           /\ captured' = [captured EXCEPT ![<<case, n>>] = @ + 1]
           /\ UNCHANGED <<cases, import_batches, boot, commands, broken>>
<1> DEFINE n == Len(observations) + 1
           item == Item(t)
           case == IF exec[t].case_id = 0 THEN 1 ELSE exec[t].case_id
           row == [actor |-> HandleOf[item], kind |-> exec[t].kind,
                   command |-> exec[t].command]
<1>1. exec[t].step \in {"insert", "append"}
  BY DEF Create, Writing
<1>2. /\ exec[t] \in Command /\ item \in Items /\ Serving
      /\ exec[t].case_id <= cases
  BY <1>1, ItemFacts DEF TypeInv, CommandOK
<1>3. row \in Observation
  BY <1>2, StoreAssumption DEF Observation, Command
<1>4. observations \in Seq(Observation) /\ Len(observations) \in Nat
  BY DEF TypeInv, StoreTypeOK
<1>5. observations' = Append(observations, row) /\ n <= MaxObservations
  BY DEF Create
<1>6. /\ n \in ObservationIds
      /\ DOMAIN observations' = DOMAIN observations \cup {n}
      /\ n \notin DOMAIN observations
      /\ observations' \in Seq(Observation) /\ Len(observations') = n
      /\ observations'[n] = row
      /\ \A o \in DOMAIN observations : observations'[o] = observations[o]
  <2>1. MaxObservations \in Nat
    BY StoreAssumption
  <2> HIDE DEF row
  <2>2. QED
    BY <1>3, <1>4, <1>5, <2>1 DEF ObservationIds
<1>7. case \in CaseIds /\ case <= cases
  <2>1. cases \in 1 .. MaxCases
    <3>1. Server \in Processes
      BY DEF Processes
    <3>2. phase[Server] \notin {"off", "inbox", "create"}
      BY <1>2 DEF Serving
    <3>3. QED
      BY <3>1, <3>2, StoreAssumption DEF TypeInv, StoreTypeOK
  <2>2. exec[t].case_id \in 0 .. MaxCases
    BY <1>2, StoreAssumption DEF Command, CaseIds
  <2>3. QED
    BY <1>2, <2>1, <2>2, StoreAssumption DEF CaseIds
<1>8. /\ actors' = [h \in DOMAIN actors \cup {HandleOf[item]} \cup Mentions[item] |->
                      IF h = HandleOf[item] THEN Score(h, n)
                      ELSE IF h \in DOMAIN actors THEN actors[h] ELSE {}]
      /\ fingerprints' = fingerprints \cup {n}
      /\ links' = links \cup {<<case, n>>}
      /\ captured' = [captured EXCEPT ![<<case, n>>] = @ + 1]
      /\ UNCHANGED <<cases, import_batches, boot, commands, broken>>
  BY DEF Create
<1>9. observations'[n].actor = HandleOf[item]
  BY <1>6
<1> HIDE DEF n, item, case, row
<1>10. n = Len(observations) + 1
  BY DEF n
<1>11. QED
  BY <1>2, <1>6, <1>7, <1>8, <1>9, <1>10

\* Every step of a command leaves it sound.
LEMMA ServeSound ==
  ASSUME TypeInv, NEW t \in Threads, Serve(t)
  PROVE  exec' \in [Threads -> Command] /\ \A u \in Threads : CommandOK(u)'
<1> USE DEF Continue
<1>0. Sound(Idle)
  BY IdleTyped DEF Sound
<1>1. ASSUME NEW kind \in Kinds, NEW case \in CaseIds \cup {0},
             NEW items \in Seq(Items), Begin(t, kind, case, items),
             kind = "import" => case \in CaseIds,
             items = << >> => kind = "import"
      PROVE  exec' \in [Threads -> Command] /\ \A u \in Threads : CommandOK(u)'
  <2> DEFINE c == [step |-> IF items = << >> THEN "batch" ELSE "lookup",
                   kind |-> kind, command |-> commands + 1, case_id |-> case,
                   todo |-> items, items |-> Len(items), accepted |-> 0,
                   rejected |-> 0]
  <2>1. commands + 1 \in Nat /\ Len(items) \in Nat
    BY DEF TypeInv, StoreTypeOK
  <2>2. Sound(c)
    BY <1>1, <2>1 DEF Sound, Command
  <2>3. exec' = [exec EXCEPT ![t] = c] /\ cases' = cases
    BY <1>1 DEF Begin, tables
  <2> HIDE DEF c
  <2>4. QED
    BY <2>2, <2>3, CommandsKept
<1>2. CASE BeginCreate(t)
  <2>1. PICK case \in CaseIds \cup {0}, i \in Items :
          Begin(t, "single", case, <<i>>)
    BY <1>2 DEF BeginCreate
  <2>2. <<i>> \in Seq(Items) /\ <<i>> # << >>
    OBVIOUS
  <2>3. QED
    BY <1>1, <2>1, <2>2 DEF Kinds
<1>3. CASE BeginImport(t)
  BY <1>1, <1>3, StoreAssumption DEF BeginImport, Kinds
<1>4. CASE BeginSeed(t)
  BY <1>1, <1>4, StoreAssumption DEF BeginSeed, Kinds
<1>5. CASE Lookup(t)
  <2> DEFINE s == IF Known(t) THEN "append" ELSE "insert"
             c == [exec[t] EXCEPT !.step = s]
  <2>1. exec[t] \in Command /\ CommandOK(t) /\ exec[t].todo # << >>
    BY <1>5, ItemFacts DEF Lookup, TypeInv
  <2>2. s \in {"append", "insert"}
    OBVIOUS
  <2>3. exec' = [exec EXCEPT ![t] = c] /\ cases' = cases
    BY <1>5 DEF Lookup, tables
  <2>4. exec[t].case_id <= cases
    BY <1>5 DEF Lookup, CaseExists
  <2> HIDE DEF s
  <2>5. Sound(c)
    BY <2>1, <2>2, <2>4 DEF Sound, Command, CommandOK
  <2>6. QED
    BY <2>3, <2>5, CommandsKept
<1>6. CASE Reject(t) \/ Create(t)
  <2>1. exec[t].step \in {"lookup", "insert", "append"}
    BY <1>6 DEF Reject, Refused, Create, Writing
  <2>2. exec[t] \in Command /\ exec[t].todo # << >> /\ cases' = cases
    BY <1>6, <2>1, ItemFacts DEF Reject, Create, tables
  <2>3. Rest(exec[t]) \in Command
    BY <2>2, RestTyped
  <2>4. PICK n \in Nat, m \in Nat :
          exec' = [exec EXCEPT ![t] =
            IF [Rest(exec[t]) EXCEPT !.accepted = n, !.rejected = m].step = "idle"
              THEN Idle
              ELSE [Rest(exec[t]) EXCEPT !.accepted = n, !.rejected = m]]
    <3> DEFINE r == Rest(exec[t])
    <3>1. r.accepted \in Nat /\ r.rejected \in Nat
      BY <2>3 DEF Command
    <3>3. CASE Reject(t)
      <4> DEFINE m == r.rejected + 1
      <4>1. exec' = [exec EXCEPT ![t] =
              IF [r EXCEPT !.rejected = m].step = "idle" THEN Idle
              ELSE [r EXCEPT !.rejected = m]]
        BY <3>3 DEF Reject, Proceed
      <4>2. m \in Nat
        BY <3>1
      <4> HIDE DEF m, r
      <4>3. [r EXCEPT !.rejected = m] =
            [r EXCEPT !.accepted = r.accepted, !.rejected = m]
        BY <2>3 DEF Command, r
      <4>4. QED
        BY <3>1, <4>1, <4>2, <4>3, Zenon DEF r
    <3>4. CASE Create(t)
      <4> DEFINE n == r.accepted + 1
      <4>1. exec' = [exec EXCEPT ![t] =
              IF [r EXCEPT !.accepted = n].step = "idle" THEN Idle
              ELSE [r EXCEPT !.accepted = n]]
        BY <3>4 DEF Create, Proceed
      <4>2. n \in Nat
        BY <3>1
      <4> HIDE DEF n, r
      <4>3. [r EXCEPT !.accepted = n] =
            [r EXCEPT !.accepted = n, !.rejected = r.rejected]
        BY <2>3 DEF Command, r
      <4>4. QED
        BY <3>1, <4>1, <4>2, <4>3, Zenon DEF r
    <3>5. QED
      BY <1>6, <3>3, <3>4
  <2> DEFINE c == [Rest(exec[t]) EXCEPT !.accepted = n, !.rejected = m]
             d == IF c.step = "idle" THEN Idle ELSE c
  <2>5. Sound(d)
    BY <2>2, NextItemSound
  <2>6. exec' = [exec EXCEPT ![t] = d]
    BY <2>4
  <2> HIDE DEF c, d
  <2>7. QED
    BY <2>2, <2>5, <2>6, CommandsKept
<1>7. CASE RecordBatch(t) \/ GiveUp(t) \/ DatabaseError(t)
  <2>1. exec' = [exec EXCEPT ![t] = Idle] /\ cases' = cases
    BY <1>7 DEF RecordBatch, GiveUp, DatabaseError, tables
  <2>2. QED
    BY <1>0, <2>1, CommandsKept
<1>8. QED
  BY <1>2, <1>3, <1>4, <1>5, <1>6, <1>7 DEF Serve

\* A command only moves while the server serves, and leaves it serving.
LEMMA ServeServing ==
  ASSUME TypeInv, NEW t \in Threads, Serve(t)
  PROVE  Serving /\ Serving' /\ UNCHANGED boot
<1>1. CASE BeginCreate(t) \/ BeginImport(t) \/ BeginSeed(t)
  BY <1>1 DEF BeginCreate, BeginImport, BeginSeed, Begin, boot, Serving
<1>2. CASE Lookup(t) \/ Reject(t) \/ Create(t) \/ RecordBatch(t) \/ GiveUp(t)
  <2>1. exec[t].step # "idle"
    BY <1>2 DEF Lookup, Reject, Refused, Create, Writing, RecordBatch, GiveUp,
                Conflict
  <2>2. QED
    BY <1>2, <2>1, CommandServed
    DEF Lookup, Reject, Create, RecordBatch, GiveUp, boot, Serving
<1>3. CASE DatabaseError(t)
  BY <1>3 DEF DatabaseError, TypeInv, StoreTypeOK, boot, Serving
<1>4. QED
  BY <1>1, <1>2, <1>3 DEF Serve

\* Every step of a command leaves the tables well typed.
LEMMA ServeTables ==
  ASSUME TypeInv, NEW t \in Threads, Serve(t)
  PROVE  TablesOK'
<1>0. TablesOK
  BY DEF TablesOK, TypeInv, StoreTypeOK
<1>1. CASE BeginCreate(t) \/ BeginImport(t) \/ BeginSeed(t)
  <2>1. commands' = commands + 1 /\ UNCHANGED <<tables, boot, broken>>
    BY <1>1 DEF BeginCreate, BeginImport, BeginSeed, Begin
  <2>2. commands' \in Nat
    BY <1>0, <2>1 DEF TablesOK
  <2>3. QED
    BY <1>0, <2>1, <2>2 DEF TablesOK, tables
<1>2. CASE Lookup(t) \/ Reject(t)
  BY <1>0, <1>2 DEF Lookup, Reject, TablesOK, tables
<1>3. CASE Create(t)
  <2>1. PICK n \in ObservationIds, case \in CaseIds, item \in Items :
           /\ n = Len(observations) + 1 /\ case <= cases /\ Serving
           /\ DOMAIN observations' = DOMAIN observations \cup {n}
           /\ n \notin DOMAIN observations
           /\ observations' \in Seq(Observation)
           /\ Len(observations') = n
           /\ observations'[n].actor = HandleOf[item]
           /\ \A o \in DOMAIN observations : observations'[o] = observations[o]
           /\ actors' = [h \in DOMAIN actors \cup {HandleOf[item]}
                                 \cup Mentions[item] |->
                           IF h = HandleOf[item] THEN Score(h, n)
                           ELSE IF h \in DOMAIN actors THEN actors[h] ELSE {}]
           /\ fingerprints' = fingerprints \cup {n}
           /\ links' = links \cup {<<case, n>>}
           /\ captured' = [captured EXCEPT ![<<case, n>>] = @ + 1]
           /\ UNCHANGED <<cases, import_batches, boot, commands, broken>>
    BY <1>3, CreateEffect
  <2>2. DOMAIN actors' \subseteq Handles
    BY <1>0, <2>1, StoreAssumption DEF TablesOK
  <2>3. \A h \in DOMAIN actors' : actors'[h] \subseteq DOMAIN observations'
    BY <1>0, <2>1 DEF TablesOK, Score
  <2>4. /\ links' \subseteq CaseIds \X DOMAIN observations'
        /\ fingerprints' \subseteq DOMAIN observations'
    BY <1>0, <2>1 DEF TablesOK
  <2>5. captured' \in [CaseIds \X ObservationIds -> Nat]
    BY <1>0, <2>1 DEF TablesOK
  <2>6. Len(observations') <= MaxObservations
    BY <2>1, StoreAssumption DEF ObservationIds
  <2>7. QED
    BY <1>0, <2>1, <2>2, <2>3, <2>4, <2>5, <2>6 DEF TablesOK
<1>4. CASE RecordBatch(t)
  <2> DEFINE row == [command |-> exec[t].command, case_id |-> exec[t].case_id,
                     items |-> exec[t].items, accepted |-> exec[t].accepted,
                     rejected |-> exec[t].rejected]
  <2>1. exec[t] \in Command /\ exec[t].case_id \in CaseIds
    BY <1>4 DEF RecordBatch, TypeInv, StoreTypeOK, CommandOK
  <2>2. row \in Batch
    BY <2>1 DEF Batch, Command
  <2>3. import_batches' = Append(import_batches, row)
    BY <1>4 DEF RecordBatch
  <2> HIDE DEF row
  <2>4. import_batches' \in Seq(Batch)
    BY <1>0, <2>2, <2>3 DEF TablesOK
  <2>5. QED
    BY <1>0, <1>4, <2>4 DEF RecordBatch, TablesOK
<1>5. CASE DatabaseError(t) \/ GiveUp(t)
  <2>1. exec[t].command \in Nat
    BY DEF TypeInv, StoreTypeOK, Command
  <2>2. /\ UNCHANGED <<tables, boot, commands>>
        /\ broken' = broken \cup {exec[t].command} \/ UNCHANGED broken
    BY <1>5 DEF DatabaseError, GiveUp
  <2>3. QED
    BY <1>0, <2>1, <2>2 DEF TablesOK, tables
<1>6. QED
  BY <1>1, <1>2, <1>3, <1>4, <1>5 DEF Serve

\* The observations in the store only grow, so what a process found in it
\* stays typed.
LEMMA ServeBoot ==
  ASSUME TypeInv, NEW t \in Threads, Serve(t)
  PROVE  BootOK'
<1>1. UNCHANGED boot /\ BootOK
  BY ServeServing, TypeParts DEF TypeInv
<1>2. cases' = cases
  BY DEF Serve, BeginCreate, BeginImport, BeginSeed, Begin, Lookup, Reject,
         Create, RecordBatch, GiveUp, DatabaseError, tables
<1>3. DOMAIN observations \subseteq DOMAIN observations'
  <2>1. CASE Create(t)
    BY <2>1, CreateEffect
  <2>2. CASE ~Create(t)
    BY <2>2 DEF Serve, BeginCreate, BeginImport, BeginSeed, Begin, Lookup,
                Reject, RecordBatch, GiveUp, DatabaseError, tables
  <2>3. QED
    BY <2>1, <2>2
<1>4. QED
  BY <1>1, <1>2, <1>3 DEF BootOK, PhasesOK, boot

\* A process that goes on to a phase which is one of its own.
LEMMA EnterTyped ==
  ASSUME TypeInv, NEW p \in Processes, NEW next \in Phases, Enter(p, next),
         p = Server => next # "off", p \in Clis => next # "serving",
         cases' \in Nat, cases <= cases',
         next \notin {"off", "inbox", "create"} => cases' > 0
  PROVE  PhasesOK'
<1>1. PhasesOK /\ cases \in Nat
  BY StoreAssumption, TypeParts DEF TypeInv, BootOK, TablesOK
<1>2. \A q \in Processes : phase'[q] = IF q = p THEN next ELSE phase[q]
  BY <1>1 DEF Enter, PhasesOK
<1>3. phase' \in [Processes -> Phases]
  BY <1>1 DEF Enter, PhasesOK
<1>4. \A q \in Processes : phase'[q] \notin {"off", "inbox", "create"} => cases' > 0
  BY <1>1, <1>2 DEF PhasesOK
<1>5. Clis \subseteq Processes /\ Server \in Processes
  BY DEF Processes
<1>6. QED
  BY <1>1, <1>2, <1>3, <1>4, <1>5 DEF PhasesOK

\* A start-up that goes on takes nothing away from what the others have done.
LEMMA OthersStay ==
  ASSUME TypeInv, NEW p \in Processes, NEW next, Enter(p, next)
  PROVE  /\ phase'[p] = next
         /\ \A q \in Processes : q # p => phase'[q] = phase[q]
  BY DEF TypeInv, StoreTypeOK, Enter

\* A process that starts up leaves a server that serves to do so.
LEMMA ServingKept ==
  ASSUME TypeInv, NEW p \in Processes, NEW next, Enter(p, next),
         phase[p] # "serving" \/ p # Server
  PROVE  Serving => Serving'
<1>1. /\ phase'[p] = next /\ Server \in Processes
      /\ \A q \in Processes : q # p => phase'[q] = phase[q]
  BY OthersStay DEF Processes
<1>2. CASE p = Server
  BY <1>2 DEF Serving
<1>3. CASE p # Server
  BY <1>1, <1>3 DEF Serving
<1>4. QED
  BY <1>2, <1>3

\* What every step of a start-up leaves as it is.
LEMMA StartUpFrame ==
  ASSUME TypeInv, NEW p \in Processes, StartUpStep(p)
  PROVE  /\ UNCHANGED <<actors, observations, import_batches, exec, commands,
                        broken>>
         /\ cases' \in 0 .. MaxCases /\ cases <= cases'
         /\ links \subseteq links'
         /\ Serving => Serving'
<1>1. PhasesOK /\ cases \in 0 .. MaxCases /\ MaxCases \in Nat
  BY StoreAssumption, TypeParts DEF TypeInv, BootOK, TablesOK
<1>2. CASE CliStart(p) \/ FindCase(p) \/ BackfillEvidence(p)
           \/ FindFingerprints(p) \/ BackfillFingerprints(p)
  <2>1. PICK at \in Phases \ {"serving"}, next \in Phases :
          StartUp(p, at, next)
    BY <1>2 DEF CliStart, FindCase, BackfillEvidence, FindFingerprints,
                BackfillFingerprints, Started, Phases
  <2>2. UNCHANGED <<cases, links>>
    BY <1>2 DEF CliStart, FindCase, BackfillEvidence, FindFingerprints,
                BackfillFingerprints, tables
  <2>3. Serving => Serving'
    BY <2>1, ServingKept DEF StartUp
  <2>4. QED
    BY <1>1, <2>1, <2>2, <2>3 DEF StartUp
<1>3. CASE EnsureDefaultCase(p)
  <2>1. PICK inbox \in CaseIds :
          /\ \/ StartUp(p, "link", "evidence") /\ cases' = cases
             \/ /\ StartUp(p, "create", "evidence")
                /\ inbox = cases + 1 /\ cases' = inbox
          /\ links' = links \cup ({inbox} \X DOMAIN observations)
    BY <1>3 DEF EnsureDefaultCase
  <2>2. Serving => Serving'
    BY <2>1, ServingKept DEF StartUp
  <2>3. QED
    BY <1>1, <2>1, <2>2 DEF StartUp, CaseIds
<1>4. CASE CliStop(p)
  <2>1. p # Server
    BY <1>4, StoreAssumption DEF CliStop
  <2>2. Serving => Serving'
    BY <1>4, <2>1, ServingKept DEF CliStop
  <2>3. QED
    BY <1>1, <1>4, <2>2 DEF CliStop, Stop, tables
<1>5. QED
  BY <1>2, <1>3, <1>4 DEF StartUpStep

\* Every step of a start-up keeps the tables and what the processes do typed.
LEMMA StartUpTyped ==
  ASSUME TypeInv, NEW p \in Processes, StartUpStep(p)
  PROVE  TablesOK' /\ BootOK'
<1>0. /\ TablesOK /\ BootOK /\ PhasesOK /\ cases \in Nat /\ cases' \in Nat
      /\ cases <= cases' /\ cases' \in 0 .. MaxCases
      /\ UNCHANGED <<actors, observations, import_batches, exec, commands, broken>>
  BY StoreAssumption, StartUpFrame, TypeParts DEF TypeInv, BootOK, TablesOK
<1>1. Started(p) \in Phases /\ (p = Server => Started(p) = "serving")
      /\ (p \in Clis => Started(p) = "off")
  BY StoreAssumption DEF Started, Phases
<1>2. \A q \in Processes : phase[q] \notin {"off", "inbox", "create"} => cases > 0
  BY <1>0 DEF PhasesOK
<1>3. CASE CliStart(p)
  <2>1. Enter(p, "inbox") /\ UNCHANGED <<tables, unprinted, owing>>
    BY <1>3 DEF CliStart, StartUp
  <2>2. PhasesOK'
    BY <1>0, <2>1, EnterTyped DEF Phases
  <2>3. QED
    BY <1>0, <2>1, <2>2 DEF TablesOK, BootOK, tables
<1>4. CASE FindCase(p)
  <2>1. PICK next \in {"create", "link"} :
          Enter(p, next) /\ (next = "link" => cases # 0)
    BY <1>4 DEF FindCase, StartUp
  <2>2. UNCHANGED <<tables, unprinted, owing>>
    BY <1>4 DEF FindCase
  <2>3. PhasesOK'
    BY <1>0, <2>1, <2>2, EnterTyped DEF Phases, tables
  <2>4. QED
    BY <1>0, <2>2, <2>3 DEF TablesOK, BootOK, tables
<1>5. CASE EnsureDefaultCase(p)
  <2>1. PICK inbox \in CaseIds :
          /\ \/ phase[p] = "link" /\ cases' = cases
             \/ inbox = cases + 1 /\ cases' = inbox
          /\ Enter(p, "evidence")
          /\ links' = links \cup ({inbox} \X DOMAIN observations)
          /\ UNCHANGED <<captured, fingerprints, unprinted, owing>>
    BY <1>5 DEF EnsureDefaultCase, StartUp
  <2>2. cases' > 0
    BY <1>0, <1>2, <2>1
  <2>3. PhasesOK'
    BY <1>0, <2>1, <2>2, EnterTyped DEF Phases
  <2>4. links' \subseteq CaseIds \X DOMAIN observations'
    BY <1>0, <2>1 DEF TablesOK
  <2>5. QED
    BY <1>0, <2>1, <2>3, <2>4 DEF TablesOK, BootOK
<1>6. CASE BackfillEvidence(p)
  <2>1. /\ phase[p] = "evidence" /\ Enter(p, "fingerprints") /\ owing' = FALSE
        /\ UNCHANGED <<cases, links, fingerprints, unprinted>>
    BY <1>6 DEF BackfillEvidence, StartUp
  <2>2. captured' \in [CaseIds \X ObservationIds -> Nat]
    BY <1>0, <1>6 DEF BackfillEvidence, TablesOK
  <2>3. PhasesOK'
    BY <1>0, <1>2, <2>1, EnterTyped DEF Phases
  <2>4. QED
    BY <1>0, <2>1, <2>2, <2>3 DEF TablesOK, BootOK
<1>7. CASE FindFingerprints(p)
  <2>1. PICK next \in {"insert", Started(p)} :
          phase[p] = "fingerprints" /\ Enter(p, next)
    BY <1>7 DEF FindFingerprints, StartUp
  <2>2. /\ unprinted' = [unprinted EXCEPT ![p] = DOMAIN observations \ fingerprints]
        /\ UNCHANGED <<cases, links, captured, fingerprints, owing>>
    BY <1>7 DEF FindFingerprints
  <2>3. next \in Phases /\ (p = Server => next # "off")
        /\ (p \in Clis => next # "serving")
    BY <1>1, <2>1 DEF Phases
  <2>4. cases' > 0
    BY <1>2, <2>1, <2>2
  <2>5. PhasesOK'
    BY <1>0, <2>1, <2>3, <2>4, EnterTyped
  <2>6. unprinted' \in [Processes -> SUBSET DOMAIN observations']
    BY <1>0, <2>2 DEF BootOK
  <2>7. QED
    BY <1>0, <2>2, <2>5, <2>6 DEF TablesOK, BootOK
<1>8. CASE BackfillFingerprints(p)
  <2>1. /\ phase[p] = "insert" /\ Enter(p, Started(p))
        /\ fingerprints' = fingerprints \cup unprinted[p]
        /\ unprinted' = [unprinted EXCEPT ![p] = {}]
        /\ UNCHANGED <<cases, links, captured, owing>>
    BY <1>8 DEF BackfillFingerprints, StartUp
  <2>2. cases' > 0
    BY <1>2, <2>1
  <2>3. PhasesOK'
    BY <1>0, <1>1, <2>1, <2>2, EnterTyped
  <2>4. unprinted' \in [Processes -> SUBSET DOMAIN observations']
        /\ fingerprints' \subseteq DOMAIN observations'
    BY <1>0, <2>1 DEF BootOK, TablesOK
  <2>5. QED
    BY <1>0, <2>1, <2>3, <2>4 DEF TablesOK, BootOK
<1>9. CASE CliStop(p)
  <2>1. /\ p \in Clis /\ Enter(p, "off") /\ UNCHANGED tables
        /\ unprinted' = [unprinted EXCEPT ![p] = {}]
        /\ owing' \in BOOLEAN
    BY <1>0, <1>9 DEF CliStop, Stop, BootOK
  <2>2. p # Server
    BY <2>1, StoreAssumption
  <2>3. PhasesOK'
    BY <1>0, <2>1, <2>2, EnterTyped DEF Phases
  <2>4. unprinted' \in [Processes -> SUBSET DOMAIN observations']
    BY <1>0, <2>1 DEF BootOK
  <2>5. QED
    BY <1>0, <2>1, <2>3, <2>4 DEF TablesOK, BootOK, tables
<1>10. QED
  BY <1>3, <1>4, <1>5, <1>6, <1>7, <1>8, <1>9 DEF StartUpStep

\* More cases do no harm to a command.
LEMMA MoreCases ==
  ASSUME TypeInv, UNCHANGED exec, cases' \in Nat, cases <= cases'
  PROVE  \A t \in Threads : CommandOK(t)'
<1>1. exec \in [Threads -> Command] /\ cases \in Nat
      /\ \A t \in Threads : CommandOK(t)
  BY StoreAssumption DEF TypeInv, StoreTypeOK
<1>2. \A t \in Threads : exec[t].case_id \in Nat
  BY <1>1, StoreAssumption DEF Command, CaseIds
<1>3. QED
  BY <1>1, <1>2 DEF CommandOK

\* Every step keeps the types.
LEMMA TypeStep == TypeInv /\ [Next]_vars => TypeInv'
<1> SUFFICES ASSUME TypeInv, [Next]_vars PROVE TypeInv'
  OBVIOUS
<1>0. /\ TablesOK /\ BootOK /\ exec \in [Threads -> Command]
      /\ ~Serving => exec = [t \in Threads |-> Idle]
      /\ \A t \in Threads : CommandOK(t)
  BY TypeParts DEF TypeInv
<1> SUFFICES /\ TablesOK' /\ BootOK' /\ exec' \in [Threads -> Command]
             /\ ~Serving' => exec' = [t \in Threads |-> Idle]
             /\ \A t \in Threads : CommandOK(t)'
  BY DEF TypeInv, StoreTypeOK, TablesOK, BootOK, PhasesOK
<1>1. CASE \E t \in Threads : Serve(t)
  BY <1>1, ServeServing, ServeSound, ServeTables, ServeBoot
<1>2. CASE \E p \in Processes : StartUpStep(p)
  <2>1. PICK p \in Processes : StartUpStep(p)
    BY <1>2
  <2>2. /\ TablesOK' /\ BootOK' /\ exec' = exec /\ (Serving => Serving')
        /\ cases' \in Nat /\ cases <= cases'
    BY <2>1, StartUpFrame, StartUpTyped, StoreAssumption
  <2>3. QED
    BY <1>0, <2>2, MoreCases
<1>3. CASE CreateCase
  <2>1. /\ cases' \in 1 .. MaxCases /\ cases' = cases + 1
        /\ UNCHANGED <<actors, observations, links, captured, fingerprints,
                       import_batches, boot, exec, commands, broken>>
    BY <1>0, <1>3, StoreAssumption DEF CreateCase, TablesOK
  <2>2. \A t \in Threads : CommandOK(t)'
    BY <1>0, <2>1, MoreCases, StoreAssumption DEF TablesOK
  <2>3. TablesOK' /\ BootOK'
    BY <1>0, <2>1, StoreAssumption DEF TablesOK, BootOK, PhasesOK, boot
  <2>4. QED
    BY <1>0, <2>1, <2>2, <2>3 DEF boot, Serving
<1>4. CASE Restart
  <2>1. /\ exec' = [t \in Threads |-> Idle] /\ broken' \subseteq Nat
        /\ Enter(Server, "inbox") /\ UNCHANGED <<tables, commands>>
        /\ unprinted' = [unprinted EXCEPT ![Server] = {}]
        /\ owing' \in BOOLEAN
    BY <1>0, <1>4 DEF Restart, Stop, TablesOK, BootOK, Command
  <2>2. \A t \in Threads : CommandOK(t)'
    BY <2>1, IdleTyped DEF CommandOK
  <2>3. exec' \in [Threads -> Command]
    BY <2>1, IdleTyped
  <2>4. TablesOK'
    BY <1>0, <2>1 DEF TablesOK, tables
  <2>5. PhasesOK'
    <3>1. Server \in Processes /\ Server \notin Clis /\ "inbox" \in Phases
          /\ cases' \in Nat /\ cases <= cases'
      BY <1>0, <2>1, StoreAssumption DEF Processes, Phases, TablesOK, tables
    <3>2. QED
      BY <2>1, <3>1, EnterTyped
  <2>6. BootOK'
    BY <1>0, <2>1, <2>5 DEF BootOK, tables
  <2>7. QED
    BY <2>1, <2>2, <2>3, <2>4, <2>6
<1>5. CASE UNCHANGED vars
  BY <1>0, <1>5
  DEF vars, tables, boot, TablesOK, BootOK, PhasesOK, CommandOK, Serving
<1>6. QED
  BY <1>1, <1>2, <1>3, <1>4, <1>5 DEF Next

\* The program starts on an older store, or on none.
LEMMA TypeInit == Init => TypeInv
<1> SUFFICES ASSUME Init PROVE TypeInv
  OBVIOUS
<1>0. PICK legacy \in Legacies : LegacyRows(legacy)
  BY DEF Init
<1>1. legacy \in Seq(Handles) /\ Len(legacy) \in 0 .. MaxObservations
      /\ DOMAIN legacy = 1 .. Len(legacy)
  BY StoreAssumption
<1>2. \A i \in 1 .. Len(legacy) :
        [actor |-> legacy[i], kind |-> "legacy", command |-> 0] \in Observation
  BY <1>1 DEF Observation
<1>3. observations \in Seq(Observation) /\ Len(observations) = Len(legacy)
      /\ DOMAIN observations = DOMAIN legacy
  BY <1>0, <1>1, <1>2 DEF LegacyRows
<1>4. DOMAIN actors \subseteq Handles
      /\ \A h \in DOMAIN actors : actors[h] \subseteq DOMAIN observations
  BY <1>0, <1>1, <1>3 DEF LegacyRows
<1>5. /\ exec \in [Threads -> Command] /\ exec = [t \in Threads |-> Idle]
      /\ \A t \in Threads : CommandOK(t)
  BY IdleTyped DEF Init, CommandOK
<1>6. import_batches \in Seq(Batch)
  BY EmptySeq DEF Init
<1>7. BootOK
  BY StoreAssumption DEF Init, BootOK, PhasesOK, Processes, Phases
<1>8. TablesOK
  BY <1>1, <1>3, <1>4, <1>6, StoreAssumption DEF Init, TablesOK
<1>9. QED
  BY <1>5, <1>7, <1>8, TypeParts DEF TypeInv

\* Every reachable state of the store is well typed.
THEOREM StoreTypeCorrect == Spec => []StoreTypeOK
<1>1. TypeInv => StoreTypeOK
  BY DEF TypeInv
<1>2. QED
  BY <1>1, TypeInit, TypeStep, PTL DEF Spec

-----------------------------------------------------------------------------
(* The audit trail *)

FullInv == TypeInv /\ AuditInv

\* What a step that writes no row may make of the phase of a process.
Advances(p) ==
  \/ phase'[p] = phase[p] /\ unprinted'[p] = unprinted[p]
  \/ phase'[p] \in {"off", "inbox", "create", "link"}
  \/ /\ phase[p] = "fingerprints" /\ phase'[p] = "insert"
     /\ DOMAIN observations \subseteq fingerprints \cup unprinted'[p]
  \/ /\ phase[p] \in {"fingerprints", "insert"} /\ phase'[p] = "serving"
     /\ fingerprints' = DOMAIN observations

\* Steps that write no row of links, evidence and observations, and prepare
\* or add fingerprints at most.
LEMMA AuditKept ==
  ASSUME TypeInv, AuditInv, UNCHANGED <<observations, links, captured>>,
         fingerprints \subseteq fingerprints',
         fingerprints' \subseteq DOMAIN observations,
         cases' \in Nat, cases <= cases', Backfilling => Backfilling',
         \A p \in Processes : Advances(p)
  PROVE  AuditInv'
<1>1. cases \in Nat
  BY StoreAssumption DEF TypeInv, StoreTypeOK
<1>2. 1 .. cases \subseteq 1 .. cases'
  BY <1>1
<1>3. (Linked => Linked') /\ (Backed => Backed')
  BY <1>2 DEF Linked, Backed
<1>4. links' \subseteq (1 .. cases') \X DOMAIN observations'
  BY <1>2 DEF AuditInv
<1>5. CapturedOK'
  BY DEF AuditInv, CapturedOK
<1>6. ASSUME NEW p \in Processes PROVE Established(p)'
  <2>1. Advances(p) /\ Established(p)
    BY <1>6 DEF AuditInv
  <2> USE <1>3
  <2>2. CASE phase'[p] = phase[p] /\ unprinted'[p] = unprinted[p]
    BY <2>1, <2>2 DEF Established
  <2>3. CASE phase'[p] \in {"off", "inbox", "create", "link"}
    BY <2>3 DEF Established
  <2>4. CASE /\ phase[p] = "fingerprints" /\ phase'[p] = "insert"
             /\ DOMAIN observations \subseteq fingerprints \cup unprinted'[p]
    BY <2>1, <2>4 DEF Established
  <2>5. CASE /\ phase[p] \in {"fingerprints", "insert"} /\ phase'[p] = "serving"
             /\ fingerprints' = DOMAIN observations
    BY <2>1, <2>5 DEF Established
  <2>6. QED
    BY <2>1, <2>2, <2>3, <2>4, <2>5 DEF Advances
<1>7. QED
  BY <1>4, <1>5, <1>6 DEF AuditInv

\* Every link is one that `captured` has an entry for.
LEMMA LinksCaptured ==
  ASSUME TypeInv
  PROVE  links \subseteq DOMAIN captured
<1>1. /\ links \subseteq CaseIds \X DOMAIN observations
      /\ DOMAIN captured = CaseIds \X ObservationIds
      /\ observations \in Seq(Observation)
      /\ Len(observations) <= MaxObservations
  BY DEF TypeInv, StoreTypeOK
<1>2. DOMAIN observations \subseteq ObservationIds
  BY <1>1, StoreAssumption DEF ObservationIds
<1>3. QED
  BY <1>1, <1>2

\* A new observation arrives with its case, evidence and fingerprint.
LEMMA AuditCreate ==
  ASSUME TypeInv, AuditInv, NEW t \in Threads, Create(t)
  PROVE  AuditInv'
<1>1. PICK n \in ObservationIds, case \in CaseIds, item \in Items :
         /\ n = Len(observations) + 1 /\ case <= cases /\ Serving
         /\ DOMAIN observations' = DOMAIN observations \cup {n}
         /\ n \notin DOMAIN observations
         /\ observations' \in Seq(Observation)
         /\ Len(observations') = n
         /\ observations'[n].actor = HandleOf[item]
         /\ \A o \in DOMAIN observations : observations'[o] = observations[o]
         /\ actors' = [h \in DOMAIN actors \cup {HandleOf[item]}
                               \cup Mentions[item] |->
                         IF h = HandleOf[item] THEN Score(h, n)
                         ELSE IF h \in DOMAIN actors THEN actors[h] ELSE {}]
         /\ fingerprints' = fingerprints \cup {n}
         /\ links' = links \cup {<<case, n>>}
         /\ captured' = [captured EXCEPT ![<<case, n>>] = @ + 1]
         /\ UNCHANGED <<cases, import_batches, boot, commands, broken>>
  BY CreateEffect
<1>2. /\ cases \in Nat /\ case \in 1 .. cases
      /\ captured \in [CaseIds \X ObservationIds -> Nat]
  BY <1>1, StoreAssumption DEF TypeInv, StoreTypeOK, CaseIds
<1>3. <<case, n>> \notin links
  BY <1>1 DEF AuditInv
<1>4. captured[<<case, n>>] = 0
  BY <1>2, <1>3, <1>1 DEF AuditInv, CapturedOK
<1>5. /\ captured'[<<case, n>>] = 1
      /\ \A q \in DOMAIN captured : q # <<case, n>> => captured'[q] = captured[q]
      /\ DOMAIN captured' = DOMAIN captured
  BY <1>1, <1>2, <1>4
<1>6. links' \subseteq (1 .. cases') \X DOMAIN observations'
  BY <1>1, <1>2 DEF AuditInv
<1>7. Backfilling' = Backfilling
  BY <1>1 DEF Backfilling, boot
<1>8. CapturedOK'
  <2> SUFFICES ASSUME NEW q \in DOMAIN captured
               PROVE  \/ captured'[q] = IF q \in links' THEN 1 ELSE 0
                      \/ captured'[q] = 0 /\ Backfilling'
    BY <1>5 DEF CapturedOK
  <2>1. CASE q = <<case, n>>
    BY <1>1, <1>5, <2>1
  <2>2. CASE q # <<case, n>>
    <3>1. captured'[q] = captured[q] /\ (q \in links' <=> q \in links)
      BY <1>1, <1>5, <2>2
    <3>2. QED
      BY <1>7, <3>1 DEF AuditInv, CapturedOK
  <2>3. QED
    BY <2>1, <2>2
<1>9. Linked => Linked'
  BY <1>1, <1>2 DEF Linked
<1>10. Backed => Backed'
  <2> SUFFICES ASSUME Backed, NEW o \in DOMAIN observations'
               PROVE  \E c \in 1 .. cases' : captured'[<<c, o>>] = 1
    BY DEF Backed
  <2>1. CASE o = n
    BY <1>1, <1>2, <1>5, <2>1
  <2>2. CASE o # n
    <3>1. o \in DOMAIN observations
      BY <1>1, <2>2
    <3>2. PICK c \in 1 .. cases : captured[<<c, o>>] = 1
      BY <3>1 DEF Backed
    <3>3. <<c, o>> \in DOMAIN captured
      <4>1. c \in CaseIds /\ o \in ObservationIds
        BY <3>1, StoreAssumption
        DEF TypeInv, StoreTypeOK, CaseIds, ObservationIds
      <4>2. QED
        BY <1>2, <4>1
    <3>4. captured'[<<c, o>>] = 1
      BY <1>5, <2>2, <3>2, <3>3
    <3>5. QED
      BY <1>1, <3>4
  <2>3. QED
    BY <2>1, <2>2
<1>11. ASSUME NEW p \in Processes PROVE Established(p)'
  <2>1. Established(p)
    BY <1>11 DEF AuditInv
  <2>2. QED
    BY <1>1, <1>9, <1>10, <2>1 DEF Established, boot
<1>12. QED
  BY <1>6, <1>8, <1>11 DEF AuditInv

\* The inbox receives places that have yet to be backed.
LEMMA AuditInbox ==
  ASSUME TypeInv, AuditInv, NEW p \in Processes, EnsureDefaultCase(p)
  PROVE  AuditInv'
<1>1. PICK inbox \in CaseIds :
        /\ \/ phase[p] = "link" /\ inbox = 1 /\ cases' = cases
           \/ inbox = cases + 1 /\ cases' = inbox
        /\ Enter(p, "evidence")
        /\ links' = links \cup ({inbox} \X DOMAIN observations)
        /\ UNCHANGED <<observations, captured, fingerprints, unprinted, owing>>
  BY DEF EnsureDefaultCase, StartUp
<1>2. /\ phase'[p] = "evidence"
      /\ \A q \in Processes : q # p => phase'[q] = phase[q]
  BY <1>1, OthersStay
<1>3. cases \in Nat /\ (phase[p] = "link" => cases > 0)
  BY StoreAssumption DEF TypeInv, StoreTypeOK
<1>4. inbox \in 1 .. cases' /\ 1 .. cases \subseteq 1 .. cases'
  BY <1>1, <1>3 DEF CaseIds
<1>5. Linked' /\ (Backed => Backed')
  BY <1>1, <1>4 DEF Linked, Backed
<1>6. links' \subseteq (1 .. cases') \X DOMAIN observations'
  BY <1>1, <1>4 DEF AuditInv
<1>7. Backfilling'
  BY <1>2 DEF Backfilling
<1>8. CapturedOK'
  <2> SUFFICES ASSUME NEW q \in DOMAIN captured
               PROVE  \/ captured[q] = IF q \in links' THEN 1 ELSE 0
                      \/ captured[q] = 0 /\ Backfilling'
    BY <1>1 DEF CapturedOK
  <2>1. CASE captured[q] = 0
    BY <1>7, <2>1
  <2>2. CASE captured[q] # 0
    <3>1. captured[q] = 1 /\ q \in links
      BY <2>2 DEF AuditInv, CapturedOK
    <3>2. QED
      BY <1>1, <3>1
  <2>3. QED
    BY <2>1, <2>2
<1>9. ASSUME NEW q \in Processes PROVE Established(q)'
  BY <1>1, <1>2, <1>5 DEF AuditInv, Established
<1>10. QED
  BY <1>6, <1>8, <1>9 DEF AuditInv

\* The backfill of a start-up backs every place there is.
LEMMA AuditBackfill ==
  ASSUME TypeInv, AuditInv, NEW p \in Processes, BackfillEvidence(p)
  PROVE  AuditInv'
<1>1. /\ captured' = [q \in DOMAIN captured |->
             IF q \in links /\ captured[q] = 0 THEN 1 ELSE captured[q]]
      /\ phase[p] = "evidence" /\ Enter(p, "fingerprints")
      /\ UNCHANGED <<observations, cases, links, fingerprints, unprinted>>
  BY DEF BackfillEvidence, StartUp
<1>2. /\ phase'[p] = "fingerprints"
      /\ \A q \in Processes : q # p => phase'[q] = phase[q]
  BY <1>1, OthersStay
<1>3. \A q \in DOMAIN captured : captured'[q] = IF q \in links THEN 1 ELSE 0
  BY <1>1 DEF AuditInv, CapturedOK
<1>4. CapturedOK'
  BY <1>1, <1>3 DEF CapturedOK
<1>5. Linked /\ Linked'
  BY <1>1 DEF AuditInv, Established, Linked
<1>6. Backed'
  <2>1. links \subseteq DOMAIN captured
    BY LinksCaptured
  <2>2. QED
    BY <1>1, <1>3, <1>5, <2>1 DEF Backed, Linked
<1>7. ASSUME NEW q \in Processes PROVE Established(q)'
  BY <1>1, <1>2, <1>5, <1>6 DEF AuditInv, Established
<1>8. QED
  BY <1>1, <1>4, <1>7 DEF AuditInv

\* The other steps of a start-up write no place and no captured content.
LEMMA AuditStartUp ==
  ASSUME TypeInv, AuditInv, NEW p \in Processes, StartUpStep(p)
  PROVE  AuditInv'
<1>0. /\ observations' = observations /\ cases' \in Nat /\ cases <= cases'
      /\ fingerprints \subseteq DOMAIN observations
      /\ unprinted \in [Processes -> SUBSET DOMAIN observations]
  BY StartUpFrame, StoreAssumption DEF TypeInv, StoreTypeOK
<1>1. CASE EnsureDefaultCase(p)
  BY <1>1, AuditInbox
<1>2. CASE BackfillEvidence(p)
  BY <1>2, AuditBackfill
<1>3. CASE CliStart(p) \/ FindCase(p) \/ CliStop(p)
  <2>1. PICK next \in {"off", "inbox", "create", "link"} : Enter(p, next)
    BY <1>3 DEF CliStart, FindCase, CliStop, StartUp
  <2>2. /\ phase'[p] = next
        /\ \A q \in Processes : q # p => phase'[q] = phase[q]
    BY <2>1, OthersStay
  <2>3. /\ UNCHANGED tables
        /\ \A q \in Processes : q # p => unprinted'[q] = unprinted[q]
        /\ owing => owing'
        /\ phase[p] = "evidence" => owing'
    <3>1. CASE CliStart(p) \/ FindCase(p)
      BY <3>1 DEF CliStart, FindCase, StartUp
    <3>2. CASE CliStop(p)
      <4>1. /\ unprinted' = [unprinted EXCEPT ![p] = {}] /\ UNCHANGED tables
            /\ owing' = (owing \/ phase[p] = "evidence")
        BY <3>2 DEF CliStop, Stop
      <4>2. \A q \in Processes : q # p => unprinted'[q] = unprinted[q]
        BY <1>0, <4>1
      <4>3. QED
        BY <4>1, <4>2, Zenon
    <3>3. QED
      BY <1>3, <3>1, <3>2
  <2>4. \A q \in Processes : Advances(q)
    BY <2>2, <2>3 DEF Advances
  <2>5. Backfilling => Backfilling'
    BY <2>2, <2>3 DEF Backfilling
  <2>6. QED
    BY <1>0, <2>3, <2>4, <2>5, AuditKept DEF tables
<1>4. CASE FindFingerprints(p)
  <2> DEFINE missing == DOMAIN observations \ fingerprints
             next == IF missing = {} THEN Started(p) ELSE "insert"
  <2>1. /\ phase[p] = "fingerprints" /\ Enter(p, next)
        /\ unprinted' = [unprinted EXCEPT ![p] = missing]
        /\ UNCHANGED <<cases, links, captured, fingerprints, owing>>
    BY <1>4 DEF FindFingerprints, StartUp
  <2>2. /\ phase'[p] = next
        /\ \A q \in Processes : q # p => phase'[q] = phase[q]
    <3> HIDE DEF next
    <3>1. QED
      BY <2>1, OthersStay
  <2>3. /\ unprinted'[p] = missing
        /\ \A q \in Processes : q # p => unprinted'[q] = unprinted[q]
    BY <1>0, <2>1
  <2>4. Advances(p)
    BY <1>0, <2>1, <2>2, <2>3 DEF Advances, Started
  <2>5. \A q \in Processes : Advances(q)
    BY <2>2, <2>3, <2>4 DEF Advances
  <2>6. Backfilling => Backfilling'
    BY <2>1, <2>2 DEF Backfilling
  <2>7. QED
    BY <1>0, <2>1, <2>5, <2>6, AuditKept
<1>5. CASE BackfillFingerprints(p)
  <2>1. /\ phase[p] = "insert" /\ Enter(p, Started(p))
        /\ fingerprints' = fingerprints \cup unprinted[p]
        /\ unprinted' = [unprinted EXCEPT ![p] = {}]
        /\ UNCHANGED <<cases, links, captured, owing>>
    BY <1>5 DEF BackfillFingerprints, StartUp
  <2>2. /\ phase'[p] = Started(p)
        /\ \A q \in Processes : q # p => phase'[q] = phase[q]
    BY <2>1, OthersStay
  <2>3. fingerprints' = DOMAIN observations
    BY <1>0, <2>1 DEF AuditInv, Established
  <2>4. \A q \in Processes : Advances(q)
    BY <1>0, <2>1, <2>2, <2>3 DEF Advances, Started
  <2>5. Backfilling => Backfilling'
    BY <2>1, <2>2 DEF Backfilling
  <2>6. QED
    BY <1>0, <2>1, <2>3, <2>4, <2>5, AuditKept
<1>6. QED
  BY <1>1, <1>2, <1>3, <1>4, <1>5 DEF StartUpStep

\* Commands other than Create, the operator's cases and a restart of the server
\* leave the audit trail as it is.
LEMMA AuditOther ==
  ASSUME TypeInv, AuditInv, [Next]_vars,
         \A p \in Processes : ~StartUpStep(p), \A t \in Threads : ~Create(t)
  PROVE  AuditInv'
<1>0. /\ cases \in Nat /\ fingerprints \subseteq DOMAIN observations
      /\ unprinted \in [Processes -> SUBSET DOMAIN observations]
      /\ Server \in Processes
  BY StoreAssumption DEF TypeInv, StoreTypeOK, Processes
<1>1. ASSUME UNCHANGED <<observations, links, captured, fingerprints, boot>>,
             cases' \in Nat, cases <= cases'
      PROVE  AuditInv'
  <2>1. \A p \in Processes : Advances(p)
    BY <1>1 DEF Advances, boot
  <2>2. Backfilling => Backfilling'
    BY <1>1 DEF Backfilling, boot
  <2>3. QED
    BY <1>0, <1>1, <2>1, <2>2, AuditKept
<1>2. ASSUME NEW t \in Threads, Serve(t)
      PROVE  UNCHANGED <<observations, links, captured, fingerprints, cases,
                         boot>>
  BY <1>2 DEF Serve, BeginCreate, BeginImport, BeginSeed, Begin, Lookup, Reject,
              RecordBatch, GiveUp, DatabaseError, tables
<1>3. CASE \E t \in Threads : Serve(t)
  BY <1>0, <1>1, <1>2, <1>3
<1>4. CASE CreateCase
  BY <1>0, <1>1, <1>4 DEF CreateCase
<1>5. CASE Restart
  <2>1. /\ Enter(Server, "inbox") /\ UNCHANGED tables
        /\ unprinted' = [unprinted EXCEPT ![Server] = {}]
        /\ owing => owing'
        /\ phase[Server] = "evidence" => owing'
    BY <1>5 DEF Restart, Stop
  <2>2. /\ phase'[Server] = "inbox"
        /\ \A q \in Processes : q # Server =>
             phase'[q] = phase[q] /\ unprinted'[q] = unprinted[q]
    BY <1>0, <2>1, OthersStay
  <2>3. \A q \in Processes : Advances(q)
    BY <2>2 DEF Advances
  <2>4. Backfilling => Backfilling'
    BY <2>1, <2>2 DEF Backfilling
  <2>5. QED
    BY <1>0, <2>1, <2>3, <2>4, AuditKept DEF tables
<1>6. CASE UNCHANGED vars
  BY <1>0, <1>1, <1>6 DEF vars, tables
<1>7. QED
  BY <1>3, <1>4, <1>5, <1>6 DEF Next

\* The audit trail of a store no process has opened yet.
LEMMA FullInit == Init => FullInv
<1> SUFFICES ASSUME Init PROVE AuditInv
  BY TypeInit DEF FullInv
<1>1. \A p \in Processes : phase[p] \in {"off", "inbox"}
  BY DEF Init
<1>2. CapturedOK
  BY DEF Init, CapturedOK
<1>3. QED
  BY <1>1, <1>2 DEF Init, AuditInv, Established

\* Every step keeps the audit trail.
LEMMA FullStep == FullInv /\ [Next]_vars => FullInv'
<1> SUFFICES ASSUME FullInv, [Next]_vars PROVE AuditInv'
  BY TypeStep DEF FullInv
<1>1. CASE \E p \in Processes : StartUpStep(p)
  BY <1>1, AuditStartUp DEF FullInv
<1>2. CASE \E t \in Threads : Create(t)
  BY <1>2, AuditCreate DEF FullInv
<1>3. CASE /\ \A p \in Processes : ~StartUpStep(p)
           /\ \A t \in Threads : ~Create(t)
  BY <1>3, AuditOther DEF FullInv
<1>4. QED
  BY <1>1, <1>2, <1>3

\* Whenever the server serves, every observation has a fingerprint and, in some
\* case, its captured content; no place in a case ever has two, and one that has
\* none belongs to a start-up that has not backed it yet or died before: for any
\* older store, any threads, and start-ups of the tool and stops at any moment.
THEOREM StoreAuditable == Spec => []Auditable
<1>1. Init => FullInv
  BY FullInit
<1>2. FullInv /\ [Next]_vars => FullInv'
  BY FullStep
<1>3. FullInv => Auditable
  <2> SUFFICES ASSUME AuditInv PROVE Auditable
    BY DEF FullInv
  <2>1. Server \in Processes
    BY DEF Processes
  <2>2. QED
    BY <2>1 DEF Auditable, AuditInv, CapturedOK, Established, Serving
<1>4. QED
  BY <1>1, <1>2, <1>3, PTL DEF Spec

-----------------------------------------------------------------------------
(* Risk scores *)

\* Every step keeps scores current.
LEMMA ScoreStep ==
  ASSUME TypeInv, ScoresCurrent, [Next]_vars
  PROVE  ScoresCurrent'
<1>1. CASE \E t \in Threads : Create(t)
  <2>1. PICK t \in Threads : Create(t)
    BY <1>1
  <2>2. PICK n \in ObservationIds, case \in CaseIds, item \in Items :
           /\ n = Len(observations) + 1 /\ case <= cases /\ Serving
           /\ DOMAIN observations' = DOMAIN observations \cup {n}
           /\ n \notin DOMAIN observations
           /\ observations' \in Seq(Observation)
           /\ Len(observations') = n
           /\ observations'[n].actor = HandleOf[item]
           /\ \A o \in DOMAIN observations : observations'[o] = observations[o]
           /\ actors' = [h \in DOMAIN actors \cup {HandleOf[item]}
                                 \cup Mentions[item] |->
                           IF h = HandleOf[item] THEN Score(h, n)
                           ELSE IF h \in DOMAIN actors THEN actors[h] ELSE {}]
           /\ fingerprints' = fingerprints \cup {n}
           /\ links' = links \cup {<<case, n>>}
           /\ captured' = [captured EXCEPT ![<<case, n>>] = @ + 1]
           /\ UNCHANGED <<cases, import_batches, boot, commands, broken>>
    BY <2>1, CreateEffect
  <2> DEFINE By(h) == {o \in DOMAIN observations : observations[o].actor = h}
             NewBy(h) == {o \in DOMAIN observations' : observations'[o].actor = h}
  <2>3. \A h : h # HandleOf[item] => NewBy(h) = By(h)
    BY <2>2
  <2>4. NewBy(HandleOf[item]) = By(HandleOf[item]) \cup {n}
    BY <2>2
  <2>5. \A h \in DOMAIN actors : actors[h] = By(h)
    BY DEF ScoresCurrent
  <2>6. \A h : h \notin DOMAIN actors => By(h) = {}
    BY DEF ScoresCurrent
  <2>7. \A h \in DOMAIN actors' : actors'[h] = NewBy(h)
    <3> SUFFICES ASSUME NEW h \in DOMAIN actors' PROVE actors'[h] = NewBy(h)
      OBVIOUS
    <3>1. CASE h = HandleOf[item]
      BY <2>2, <2>4, <3>1 DEF Score
    <3>2. CASE h # HandleOf[item]
      BY <2>2, <2>3, <2>5, <2>6, <3>2
    <3>3. QED
      BY <3>1, <3>2
  <2>8. \A o \in DOMAIN observations' : observations'[o].actor \in DOMAIN actors'
    BY <2>2 DEF ScoresCurrent
  <2>9. QED
    BY <2>7, <2>8 DEF ScoresCurrent
<1>2. CASE ~\E t \in Threads : Create(t)
  <2>1. UNCHANGED <<actors, observations>>
    <3>1. CASE \E p \in Processes : StartUpStep(p)
      BY <3>1, StartUpFrame
    <3>2. CASE ~\E p \in Processes : StartUpStep(p)
      BY <1>2, <3>2 DEF Next, CreateCase, Serve, BeginCreate, BeginImport,
                        BeginSeed, Begin, Lookup, Reject, RecordBatch, GiveUp,
                        DatabaseError, Restart, Stop, vars, tables
    <3>3. QED
      BY <3>1, <3>2
  <2>2. QED
    BY <2>1 DEF ScoresCurrent
<1>3. QED
  BY <1>1, <1>2

\* An actor's score is always the average over exactly that actor's
\* observations, whichever threads created them and whatever was rolled back.
THEOREM ScoresAlwaysCurrent == Spec => []ScoresCurrent
<1>1. Init => ScoresCurrent
  <2> SUFFICES ASSUME Init PROVE ScoresCurrent
    OBVIOUS
  <2>1. PICK legacy \in Legacies : LegacyRows(legacy)
    BY DEF Init
  <2>2. legacy \in Seq(Handles) /\ DOMAIN legacy = 1 .. Len(legacy)
    BY StoreAssumption
  <2>3. QED
    BY <2>1, <2>2 DEF LegacyRows, ScoresCurrent
<1>2. TypeInv /\ ScoresCurrent /\ [Next]_vars => (TypeInv /\ ScoresCurrent)'
  BY TypeStep, ScoreStep
<1>3. QED
  BY <1>1, <1>2, TypeInit, PTL DEF Spec

-----------------------------------------------------------------------------
(* Imports and demo data: whose command an observation belongs to *)

Running == {t \in Threads : exec[t].step # "idle"}

\* No two running commands have one number, which no batch row has yet, and
\* what bears the number of a running command is of its kind.
CommandsNumbered ==
  /\ \A t \in Running : exec[t].command \in 1 .. commands
  /\ \A t, u \in Running : exec[t].command = exec[u].command => t = u
  /\ \A i \in DOMAIN import_batches :
       /\ import_batches[i].command \in 1 .. commands
       /\ \A t \in Running : exec[t].command # import_batches[i].command
  /\ \A o \in DOMAIN observations :
       /\ observations[o].command \in 0 .. commands
       /\ observations[o].kind # "legacy" => observations[o].command # 0
       /\ \A t \in Running :
            observations[o].command = exec[t].command =>
              observations[o].kind = exec[t].kind

\* A running import has counted what it created, all of it in its case, and
\* what it refused; the rest is still to do.
Tallied(t) ==
  t \in Running /\ exec[t].kind = "import" =>
    /\ exec[t].accepted = Cardinality(CreatedBy(exec[t].command))
    /\ exec[t].accepted + exec[t].rejected + Len(exec[t].todo) = exec[t].items
    /\ \A o \in CreatedBy(exec[t].command) : <<exec[t].case_id, o>> \in links
    /\ exec[t].step = "batch" => exec[t].todo = << >>

TallyInv == CommandsNumbered /\ \A t \in Threads : Tallied(t)

\* What a step makes of the command of its thread t, whose c is the next one.

Starts(t, c) ==
  /\ exec[t] = Idle /\ c.step # "idle"
  /\ c.command = commands + 1 /\ commands' = commands + 1
  /\ c.accepted = 0 /\ c.rejected = 0 /\ c.items = Len(c.todo)
  /\ c.step = "batch" => c.todo = << >>
  /\ c.kind = "seed" => observations = << >>
  /\ UNCHANGED <<tables, broken>>

\* The command goes on, or has no item left and no batch row to write.
Keeps(t, c) ==
  \/ /\ c.step # "idle" /\ c.kind = exec[t].kind
     /\ c.command = exec[t].command
     /\ c.case_id = exec[t].case_id /\ c.items = exec[t].items
     /\ c.step = "batch" => c.todo = << >>
  \/ c = Idle /\ exec[t].kind # "import"

Passes(t, c) ==
  /\ t \in Running /\ Keeps(t, c)
  /\ c.step # "idle" =>
       /\ c.accepted = exec[t].accepted
       /\ c.rejected + Len(c.todo) = exec[t].rejected + Len(exec[t].todo)
  /\ UNCHANGED <<tables, commands, broken>>

Adds(t, c) ==
  /\ t \in Running /\ Keeps(t, c)
  /\ c.step # "idle" =>
       /\ c.accepted = exec[t].accepted + 1
       /\ c.rejected = exec[t].rejected
       /\ Len(c.todo) + 1 = Len(exec[t].todo)
  /\ \E n \in ObservationIds, case \in CaseIds :
       /\ exec[t].kind = "import" => case = exec[t].case_id
       /\ links' = links \cup {<<case, n>>}
       /\ n \notin DOMAIN observations
       /\ DOMAIN observations' = DOMAIN observations \cup {n}
       /\ \A o \in DOMAIN observations : observations'[o] = observations[o]
       /\ observations'[n].kind = exec[t].kind
       /\ observations'[n].command = exec[t].command
  /\ UNCHANGED <<cases, import_batches, commands, broken>>

Closes(t, c) == c = Idle /\ RecordBatch(t)

Drops(t, c) ==
  /\ c = Idle
  /\ \/ broken' = broken \cup {exec[t].command}
     \/ exec[t].step = "batch" /\ ~CaseExists(t) /\ UNCHANGED broken
  /\ UNCHANGED <<tables, commands>>

Moves(t, c) ==
  /\ exec' = [exec EXCEPT ![t] = c] /\ c \in Command
  /\ Starts(t, c) \/ Passes(t, c) \/ Adds(t, c) \/ Closes(t, c) \/ Drops(t, c)

\* What follows the first item, with the counts of the command as given.
After(t, n, m) ==
  LET c == [Rest(exec[t]) EXCEPT !.accepted = n, !.rejected = m]
  IN  IF c.step = "idle" THEN Idle ELSE c

\* The command d goes on from the one of thread t, an item later.
GoesOn(t, d, n, m) ==
  /\ d \in Command /\ Keeps(t, d)
  /\ d.step # "idle" => /\ d.accepted = n /\ d.rejected = m
                        /\ Len(d.todo) + 1 = Len(exec[t].todo)

LEMMA RestKeeps ==
  ASSUME TypeInv, NEW t \in Threads, t \in Running, exec[t].todo # << >>,
         NEW n \in Nat, NEW m \in Nat
  PROVE  GoesOn(t, After(t, n, m), n, m)
<1> DEFINE d == After(t, n, m)
           c == [Rest(exec[t]) EXCEPT !.accepted = n, !.rejected = m]
<1>0. d = IF c.step = "idle" THEN Idle ELSE c
  BY DEF After
<1> HIDE DEF d
<1>1. exec[t] \in Command /\ exec[t].todo \in Seq(Items)
  BY DEF TypeInv, StoreTypeOK, Command
<1> DEFINE s == IF Tail(exec[t].todo) # << >> THEN "lookup"
                ELSE IF exec[t].kind = "import" THEN "batch" ELSE "idle"
           rest == Tail(exec[t].todo)
<1>2. Rest(exec[t]) = [exec[t] EXCEPT !.todo = rest, !.step = s]
  BY <1>1 DEF Rest, Command
<1>3. rest \in Seq(Items) /\ Len(rest) + 1 = Len(exec[t].todo)
  BY <1>1
<1>4. /\ s \in {"lookup", "batch", "idle"}
      /\ s = "batch" => rest = << >>
      /\ s = "idle" => exec[t].kind # "import"
  OBVIOUS
<1> HIDE DEF s, rest
<1>5. /\ c \in Command /\ c.step = s /\ c.todo = rest
      /\ c.kind = exec[t].kind /\ c.case_id = exec[t].case_id
      /\ c.command = exec[t].command /\ c.items = exec[t].items
      /\ c.accepted = n /\ c.rejected = m
  BY <1>1, <1>2, <1>3, <1>4 DEF Command
<1> HIDE DEF c
<1>6. ASSUME s = "idle"
      PROVE  GoesOn(t, d, n, m)
  BY <1>0, <1>4, <1>5, <1>6, IdleTyped DEF Keeps, GoesOn
<1>7. ASSUME s # "idle"
      PROVE  GoesOn(t, d, n, m)
  BY <1>0, <1>3, <1>4, <1>5, <1>7 DEF Keeps, GoesOn
<1>8. GoesOn(t, d, n, m)
  BY <1>6, <1>7
<1>9. QED
  BY <1>8 DEF d

\* The row create_observation adds: whose it is, and in which case.
LEMMA CreateRow ==
  ASSUME TypeInv, NEW t \in Threads, Create(t)
  PROVE  \E n \in ObservationIds, case \in CaseIds :
           /\ exec[t].kind = "import" => case = exec[t].case_id
           /\ links' = links \cup {<<case, n>>}
           /\ n \notin DOMAIN observations
           /\ DOMAIN observations' = DOMAIN observations \cup {n}
           /\ \A o \in DOMAIN observations : observations'[o] = observations[o]
           /\ observations'[n].kind = exec[t].kind
           /\ observations'[n].command = exec[t].command
<1> DEFINE n == Len(observations) + 1
           case == IF exec[t].case_id = 0 THEN 1 ELSE exec[t].case_id
           row == [actor |-> HandleOf[Item(t)], kind |-> exec[t].kind,
                   command |-> exec[t].command]
<1>1. exec[t].step \in {"insert", "append"}
  BY DEF Create, Writing
<1>2. /\ exec[t] \in Command /\ Item(t) \in Items /\ Serving
      /\ CommandOK(t)
  BY <1>1, ItemFacts DEF TypeInv
<1>3. row \in Observation
  BY <1>2, StoreAssumption DEF Observation, Command
<1>4. observations \in Seq(Observation) /\ Len(observations) \in Nat
  BY DEF TypeInv, StoreTypeOK
<1>5. observations' = Append(observations, row) /\ n <= MaxObservations
      /\ links' = links \cup {<<case, n>>}
  BY DEF Create
<1>6. case \in CaseIds /\ (exec[t].kind = "import" => case = exec[t].case_id)
  <2>1. exec[t].case_id \in CaseIds \cup {0} /\ 1 \in CaseIds /\ 0 \notin CaseIds
    BY <1>2, StoreAssumption DEF Command, CaseIds
  <2>2. QED
    BY <1>2, <2>1 DEF CommandOK
<1>7. row.kind = exec[t].kind /\ row.command = exec[t].command
  OBVIOUS
<1> HIDE DEF row, case
<1>8. /\ n \in ObservationIds
      /\ DOMAIN observations' = DOMAIN observations \cup {n}
      /\ n \notin DOMAIN observations
      /\ observations'[n] = row
      /\ \A o \in DOMAIN observations : observations'[o] = observations[o]
  BY <1>3, <1>4, <1>5, StoreAssumption DEF ObservationIds
<1> HIDE DEF n
<1>9. QED
  BY <1>5, <1>6, <1>7, <1>8

\* Every step of a thread is one of these.
LEMMA ServeMoves ==
  ASSUME TypeInv, NEW t \in Threads, Serve(t)
  PROVE  \E c : Moves(t, c)
<1>0. /\ exec[t] \in Command /\ commands \in Nat /\ Idle \in Command
      /\ Idle.step = "idle"
  BY IdleTyped DEF TypeInv, StoreTypeOK
<1>1. ASSUME NEW kind \in Kinds, NEW case \in CaseIds \cup {0},
             NEW items \in Seq(Items), Begin(t, kind, case, items),
             kind = "seed" => observations = << >>
      PROVE  \E c : Moves(t, c)
  <2> DEFINE c == [step |-> IF items = << >> THEN "batch" ELSE "lookup",
                   kind |-> kind, command |-> commands + 1, case_id |-> case,
                   todo |-> items, items |-> Len(items), accepted |-> 0,
                   rejected |-> 0]
  <2>1. c \in Command
    BY <1>0 DEF Command
  <2>2. exec' = [exec EXCEPT ![t] = c]
    BY <1>1 DEF Begin, Continue
  <2>3. Starts(t, c)
    BY <1>1 DEF Begin, Starts
  <2> HIDE DEF c
  <2>4. Moves(t, c)
    BY <2>1, <2>2, <2>3 DEF Moves
  <2>5. QED
    BY <2>4
<1>2. CASE BeginCreate(t)
  <2>1. PICK case \in CaseIds \cup {0}, i \in Items :
          Begin(t, "single", case, <<i>>)
    BY <1>2 DEF BeginCreate
  <2>2. <<i>> \in Seq(Items)
    OBVIOUS
  <2>3. QED
    BY <1>1, <2>1, <2>2 DEF Kinds
<1>3. CASE BeginImport(t)
  BY <1>1, <1>3, StoreAssumption DEF BeginImport, Kinds
<1>4. CASE BeginSeed(t)
  BY <1>1, <1>4, StoreAssumption DEF BeginSeed, Kinds
<1>5. CASE Lookup(t)
  <2> DEFINE s == IF Known(t) THEN "append" ELSE "insert"
             c == [exec[t] EXCEPT !.step = s]
  <2>1. exec' = [exec EXCEPT ![t] = c] /\ s \in {"append", "insert"}
        /\ exec[t].step = "lookup" /\ UNCHANGED <<tables, commands, broken>>
    BY <1>5 DEF Lookup, Continue
  <2>2. exec[t].todo \in Seq(Items)
    BY <1>0 DEF Command
  <2> HIDE DEF s
  <2>3. /\ c \in Command /\ c.step = s /\ c.kind = exec[t].kind
        /\ c.command = exec[t].command /\ c.case_id = exec[t].case_id
        /\ c.items = exec[t].items /\ c.accepted = exec[t].accepted
        /\ c.rejected = exec[t].rejected /\ c.todo = exec[t].todo
    BY <1>0, <2>1 DEF Command
  <2> HIDE DEF c
  <2>4. Passes(t, c)
    BY <2>1, <2>3 DEF Passes, Keeps, Running
  <2>5. QED
    BY <2>1, <2>3, <2>4 DEF Moves
<1>6. CASE Reject(t) \/ Create(t)
  <2>1. exec[t].step \in {"lookup", "insert", "append"}
    BY <1>6 DEF Reject, Refused, Create, Writing
  <2>2. exec[t].todo # << >> /\ exec[t].todo \in Seq(Items) /\ t \in Running
    BY <1>0, <2>1, ItemFacts DEF Running, Command
  <2> DEFINE r == Rest(exec[t])
  <2>3. /\ r \in Command /\ r.accepted = exec[t].accepted
        /\ r.rejected = exec[t].rejected
        /\ r.accepted \in Nat /\ r.rejected \in Nat
    <3>1. r \in Command
      <4>1. exec[t] \in Command /\ exec[t].todo # << >>
        BY <1>0, <2>2
      <4>2. QED
        BY <4>1, RestTyped, Zenon
    <3>2. exec[t].accepted \in Nat /\ exec[t].rejected \in Nat
      BY <1>0 DEF Command
    <3>3. r.accepted = exec[t].accepted /\ r.rejected = exec[t].rejected
      BY <1>0 DEF Command, Rest
    <3>4. QED
      BY <3>1, <3>2, <3>3
  <2>4. CASE Reject(t)
    <3> DEFINE m == r.rejected + 1
               c == [r EXCEPT !.rejected = m]
               d == IF c.step = "idle" THEN Idle ELSE c
    <3>1. exec' = [exec EXCEPT ![t] = d] /\ UNCHANGED <<tables, commands, broken>>
      BY <2>4 DEF Reject, Proceed, Continue
    <3>2. m \in Nat /\ m = exec[t].rejected + 1
      BY <2>3
    <3>3. c = [Rest(exec[t]) EXCEPT !.accepted = exec[t].accepted, !.rejected = m]
      <4> HIDE DEF m, r
      <4>1. [r EXCEPT !.rejected = m] =
              [r EXCEPT !.accepted = r.accepted, !.rejected = m]
        BY <2>3 DEF Command
      <4>2. QED
        BY <2>3, <4>1 DEF r
    <3> HIDE DEF c, m
    <3>4. /\ d \in Command /\ Keeps(t, d)
          /\ d.step # "idle" => /\ d.accepted = exec[t].accepted
                                /\ d.rejected = m
                                /\ Len(d.todo) + 1 = Len(exec[t].todo)
      <4>1. exec[t].accepted \in Nat /\ exec[t].rejected \in Nat
        BY <2>3
      <4>2. d = After(t, exec[t].accepted, m)
        BY <3>3 DEF After
      <4> HIDE DEF d, r
      <4>3. GoesOn(t, After(t, exec[t].accepted, m), exec[t].accepted, m)
        BY <2>2, <3>2, <4>1, RestKeeps, Zenon
      <4>4. GoesOn(t, d, exec[t].accepted, m)
        BY <4>2, <4>3, Zenon
      <4>5. QED
        BY <4>4, Zenon DEF GoesOn
    <3> HIDE DEF d
    <3>5. Passes(t, d)
      <4>1. d.todo \in Seq(Items) /\ exec[t].rejected \in Nat
        BY <1>0, <3>4 DEF Command
      <4>2. Len(d.todo) \in Nat /\ Len(exec[t].todo) \in Nat
        BY <2>2, <4>1
      <4>3. ASSUME d.step # "idle"
            PROVE  d.rejected + Len(d.todo) = exec[t].rejected + Len(exec[t].todo)
        <5> DEFINE x == Len(d.todo)
                   y == Len(exec[t].todo)
                   a == d.rejected
                   b == exec[t].rejected
        <5>1. /\ x \in Nat /\ y \in Nat /\ b \in Nat
              /\ a = b + 1 /\ x + 1 = y
          BY <3>2, <3>4, <4>1, <4>2, <4>3
        <5> HIDE DEF x, y, a, b
        <5>2. a + x = b + y
          BY <5>1
        <5>3. QED
          BY <5>2 DEF x, y, a, b
      <4>4. QED
        BY <2>2, <3>1, <3>4, <4>3, Zenon DEF Passes
    <3>6. QED
      BY <3>1, <3>4, <3>5 DEF Moves
  <2>5. CASE Create(t)
    <3> DEFINE m == r.accepted + 1
               c == [r EXCEPT !.accepted = m]
               d == IF c.step = "idle" THEN Idle ELSE c
    <3>1. exec' = [exec EXCEPT ![t] = d]
          /\ UNCHANGED <<cases, import_batches, commands, broken>>
      BY <2>5 DEF Create, Proceed, Continue
    <3>2. m \in Nat /\ m = exec[t].accepted + 1
      BY <2>3
    <3>3. c = [Rest(exec[t]) EXCEPT !.accepted = m, !.rejected = exec[t].rejected]
      <4> HIDE DEF m, r
      <4>1. [r EXCEPT !.accepted = m] =
              [r EXCEPT !.accepted = m, !.rejected = r.rejected]
        BY <2>3 DEF Command
      <4>2. QED
        BY <2>3, <4>1 DEF r
    <3> HIDE DEF c, m
    <3>4. /\ d \in Command /\ Keeps(t, d)
          /\ d.step # "idle" => /\ d.accepted = m
                                /\ d.rejected = exec[t].rejected
                                /\ Len(d.todo) + 1 = Len(exec[t].todo)
      <4>1. exec[t].accepted \in Nat /\ exec[t].rejected \in Nat
        BY <2>3
      <4>2. d = After(t, m, exec[t].rejected)
        BY <3>3 DEF After
      <4> HIDE DEF d, r
      <4>3. GoesOn(t, After(t, m, exec[t].rejected), m, exec[t].rejected)
        BY <2>2, <3>2, <4>1, RestKeeps, Zenon
      <4>4. GoesOn(t, d, m, exec[t].rejected)
        BY <4>2, <4>3, Zenon
      <4>5. QED
        BY <4>4, Zenon DEF GoesOn
    <3> HIDE DEF d
    <3>5. Adds(t, d)
      <4>1. \E n \in ObservationIds, case \in CaseIds :
               /\ exec[t].kind = "import" => case = exec[t].case_id
               /\ links' = links \cup {<<case, n>>}
               /\ n \notin DOMAIN observations
               /\ DOMAIN observations' = DOMAIN observations \cup {n}
               /\ \A o \in DOMAIN observations : observations'[o] = observations[o]
               /\ observations'[n].kind = exec[t].kind
               /\ observations'[n].command = exec[t].command
        BY <2>5, CreateRow
      <4>2. QED
        BY <2>2, <3>1, <3>2, <3>4, <4>1 DEF Adds
    <3>6. QED
      BY <3>1, <3>4, <3>5 DEF Moves
  <2>6. QED
    BY <1>6, <2>4, <2>5
<1>7. CASE RecordBatch(t)
  <2>1. Moves(t, Idle)
    BY <1>0, <1>7 DEF Moves, Closes, RecordBatch, Continue
  <2>2. QED
    BY <2>1
<1>8. CASE GiveUp(t) \/ DatabaseError(t)
  <2>1. Moves(t, Idle)
    BY <1>0, <1>8 DEF Moves, Drops, GiveUp, DatabaseError, Continue
  <2>2. QED
    BY <2>1
<1>9. QED
  BY <1>2, <1>3, <1>4, <1>5, <1>6, <1>7, <1>8 DEF Serve

\* Steps of no thread: the commands go on as they are or all of them end.
LEMMA OtherSteps ==
  ASSUME TypeInv, [Next]_vars, \A t \in Threads : ~Serve(t)
  PROVE  /\ UNCHANGED <<observations, import_batches, commands>>
         /\ links \subseteq links'
         /\ \/ UNCHANGED <<exec, broken>>
            \/ /\ exec' = [t \in Threads |-> Idle]
               /\ broken' = broken \cup
                    {exec[t].command : t \in {u \in Threads : exec[u] # Idle}}
<1>1. CASE \E p \in Processes : StartUpStep(p)
  BY <1>1, StartUpFrame
<1>2. CASE CreateCase
  BY <1>2 DEF CreateCase
<1>3. CASE Restart
  BY <1>3 DEF Restart, Stop, tables
<1>4. CASE UNCHANGED vars
  BY <1>4 DEF vars, tables
<1>5. QED
  BY <1>1, <1>2, <1>3, <1>4 DEF Next

\* What runs after a step of thread t has run before it, unless t started it.
LEMMA MovedRunning ==
  ASSUME TypeInv, NEW t \in Threads, NEW c, Moves(t, c),
         NEW u \in Threads, exec'[u].step # "idle"
  PROVE  /\ u # t => exec'[u] = exec[u] /\ u \in Running
         /\ u = t => exec'[u] = c
         /\ u = t /\ ~Starts(t, c) =>
              /\ u \in Running /\ Keeps(t, c)
              /\ c.command = exec[t].command /\ c.kind = exec[t].kind
              /\ c.case_id = exec[t].case_id /\ c.items = exec[t].items
<1>1. exec \in [Threads -> Command] /\ Idle.step = "idle"
  BY IdleTyped DEF TypeInv, StoreTypeOK
<1>2. exec'[u] = IF u = t THEN c ELSE exec[u]
  BY <1>1 DEF Moves
<1>3. CASE u # t
  BY <1>2, <1>3 DEF Running
<1>4. CASE u = t
  BY <1>1, <1>2, <1>4 DEF Moves, Passes, Adds, Keeps, Closes, Drops, Running
<1>5. QED
  BY <1>3, <1>4

\* A step of a thread keeps the commands numbered.
LEMMA NumbersStep ==
  ASSUME TypeInv, CommandsNumbered, NEW t \in Threads, NEW c, Moves(t, c)
  PROVE  CommandsNumbered'
<1>0. commands \in Nat /\ exec \in [Threads -> Command]
      /\ import_batches \in Seq(Batch)
  BY DEF TypeInv, StoreTypeOK
<1>1. CASE Starts(t, c)
  <2>1. /\ commands' = commands + 1 /\ c.command = commands + 1
        /\ UNCHANGED <<observations, import_batches>>
    BY <1>1 DEF Starts, tables
  <2>2. \A k \in 1 .. commands : k \in 1 .. commands' /\ k # commands + 1
    BY <1>0, <2>1
  <2>3. \A k \in 0 .. commands : k \in 0 .. commands' /\ k # commands + 1
    BY <1>0, <2>1
  <2>4. c.command \in 1 .. commands'
    BY <1>0, <2>1
  <2>5. \A u \in Running' :
          \/ u = t /\ exec'[u].command = commands + 1
          \/ u # t /\ u \in Running /\ exec'[u] = exec[u]
    BY <2>1, MovedRunning DEF Running
  <2>6. \A u \in Running' : exec'[u].command \in 1 .. commands'
    BY <2>1, <2>2, <2>4, <2>5 DEF CommandsNumbered
  <2>7. \A u, v \in Running' : exec'[u].command = exec'[v].command => u = v
    BY <2>2, <2>5 DEF CommandsNumbered
  <2>8. \A i \in DOMAIN import_batches' :
          /\ import_batches'[i].command \in 1 .. commands'
          /\ \A u \in Running' : exec'[u].command # import_batches'[i].command
    BY <2>1, <2>2, <2>5 DEF CommandsNumbered
  <2>9. \A o \in DOMAIN observations' :
          /\ observations'[o].command \in 0 .. commands'
          /\ observations'[o].kind # "legacy" => observations'[o].command # 0
          /\ \A u \in Running' :
               observations'[o].command = exec'[u].command =>
                 observations'[o].kind = exec'[u].kind
    BY <2>1, <2>3, <2>5 DEF CommandsNumbered
  <2>10. QED
    BY <2>6, <2>7, <2>8, <2>9 DEF CommandsNumbered
<1>2. CASE ~Starts(t, c)
  <2>1. \A u \in Running' :
          /\ u \in Running /\ exec'[u].command = exec[u].command
          /\ exec'[u].kind = exec[u].kind
    BY <1>2, MovedRunning DEF Running
  <2>2. commands' = commands
    BY <1>2 DEF Moves, Passes, Adds, Closes, Drops, RecordBatch
  <2>3. /\ \A u \in Running' : exec'[u].command \in 1 .. commands'
        /\ \A u, v \in Running' : exec'[u].command = exec'[v].command => u = v
    BY <2>1, <2>2 DEF CommandsNumbered
  <2>4. \A i \in DOMAIN import_batches' :
          /\ import_batches'[i].command \in 1 .. commands'
          /\ \A u \in Running' : exec'[u].command # import_batches'[i].command
    <3>1. CASE RecordBatch(t) /\ Closes(t, c)
      <4> DEFINE row == [command |-> exec[t].command, case_id |-> exec[t].case_id,
                         items |-> exec[t].items, accepted |-> exec[t].accepted,
                         rejected |-> exec[t].rejected]
      <4>1. import_batches' = Append(import_batches, row) /\ row \in Batch
            /\ t \in Running
        <5>1. exec[t] \in Command /\ exec[t].case_id \in CaseIds
              /\ exec[t].step = "batch"
          BY <3>1 DEF RecordBatch, TypeInv, StoreTypeOK, CommandOK
        <5>2. QED
          BY <3>1, <5>1 DEF RecordBatch, Batch, Command, Running
      <4>2. t \notin Running'
        BY <1>0, <3>1, IdleTyped DEF Closes, Moves, Running
      <4>3. row.command = exec[t].command
        OBVIOUS
      <4> HIDE DEF row
      <4>4. \A i \in DOMAIN import_batches' :
              \/ i \in DOMAIN import_batches
                 /\ import_batches'[i] = import_batches[i]
              \/ import_batches'[i].command = exec[t].command
        BY <1>0, <4>1, <4>3
      <4>5. \A u \in Running' : u # t
        BY <4>2
      <4>6. QED
        BY <2>1, <2>2, <4>1, <4>4, <4>5 DEF CommandsNumbered
    <3>2. CASE ~Closes(t, c)
      <4>1. import_batches' = import_batches
        BY <1>2, <3>2 DEF Moves, Passes, Adds, Drops, tables
      <4>2. QED
        BY <2>1, <2>2, <4>1 DEF CommandsNumbered
    <3>3. QED
      BY <3>1, <3>2 DEF Closes
  <2>5. \A o \in DOMAIN observations' :
          /\ observations'[o].command \in 0 .. commands'
          /\ observations'[o].kind # "legacy" => observations'[o].command # 0
          /\ \A u \in Running' :
               observations'[o].command = exec'[u].command =>
                 observations'[o].kind = exec'[u].kind
    <3>1. CASE Adds(t, c)
      <4>1. PICK n \in ObservationIds :
              /\ DOMAIN observations' = DOMAIN observations \cup {n}
              /\ \A o \in DOMAIN observations : observations'[o] = observations[o]
              /\ observations'[n].kind = exec[t].kind
              /\ observations'[n].command = exec[t].command
        BY <3>1 DEF Adds
      <4>2. t \in Running
        BY <3>1 DEF Adds
      <4>3. exec[t].command \in 1 .. commands
        BY <4>2 DEF CommandsNumbered
      <4>4. exec[t].command \in 0 .. commands /\ exec[t].command # 0
        BY <1>0, <4>3
      <4>5. \A u \in Running : exec[u].command = exec[t].command => u = t
        BY <4>2 DEF CommandsNumbered
      <4>6. QED
        BY <2>1, <2>2, <4>1, <4>4, <4>5 DEF CommandsNumbered
    <3>2. CASE ~Adds(t, c)
      <4>1. observations' = observations
        BY <1>2, <3>2 DEF Moves, Passes, Closes, RecordBatch, Drops, tables
      <4>2. QED
        BY <2>1, <2>2, <4>1 DEF CommandsNumbered
    <3>3. QED
      BY <3>1, <3>2
  <2>6. QED
    BY <2>3, <2>4, <2>5 DEF CommandsNumbered
<1>3. QED
  BY <1>1, <1>2

\* What a command has created is finite.
LEMMA CreatedFinite ==
  ASSUME TypeInv, NEW k
  PROVE  IsFiniteSet(CreatedBy(k))
<1>1. Len(observations) \in Nat /\ DOMAIN observations = 1 .. Len(observations)
  BY DEF TypeInv, StoreTypeOK
<1>2. IsFiniteSet(1 .. Len(observations))
  BY <1>1, FS_Interval
<1>3. CreatedBy(k) \in SUBSET (1 .. Len(observations))
  BY <1>1 DEF CreatedBy
<1>4. QED
  BY <1>2, <1>3, FS_Subset

\* What a step of thread t does to what each command has created.
LEMMA CreatedMoves ==
  ASSUME TypeInv, NEW t \in Threads, NEW c, Moves(t, c), NEW k,
         ~Adds(t, c) \/ k # exec[t].command
  PROVE  {o \in DOMAIN observations' : observations'[o].command = k} =
           CreatedBy(k)
<1>1. CASE Adds(t, c)
  <2>1. PICK n \in ObservationIds :
          /\ DOMAIN observations' = DOMAIN observations \cup {n}
          /\ \A o \in DOMAIN observations : observations'[o] = observations[o]
          /\ observations'[n].command = exec[t].command
    BY <1>1 DEF Adds
  <2>2. k # exec[t].command
    BY <1>1
  <2>3. QED
    BY <2>1, <2>2 DEF CreatedBy
<1>2. CASE ~Adds(t, c)
  BY <1>2 DEF Moves, Starts, Passes, Closes, RecordBatch, Drops, tables, CreatedBy
<1>3. QED
  BY <1>1, <1>2

\* Places in cases are only added.
LEMMA LinksGrow ==
  ASSUME NEW t \in Threads, NEW c, Moves(t, c)
  PROVE  links \subseteq links'
<1>1. CASE Adds(t, c)
  BY <1>1 DEF Adds
<1>2. CASE ~Adds(t, c)
  BY <1>2 DEF Moves, Starts, Passes, Closes, RecordBatch, Drops, tables
<1>3. QED
  BY <1>1, <1>2

\* The sum of the counts and what is left to do, as an item is done.
LEMMA SumKept ==
  ASSUME NEW a \in Nat, NEW b \in Nat, NEW x \in Nat, NEW sum \in Nat,
         NEW d \in Nat, NEW e \in Nat, NEW y \in Nat, a + b + x = sum,
         \/ d = a /\ e + y = b + x
         \/ d = a + 1 /\ e = b /\ y + 1 = x
  PROVE  d + e + y = sum
  OBVIOUS

\* A step of a thread keeps the count of every running import.
LEMMA TallyStep ==
  ASSUME TypeInv, TallyInv, NEW t \in Threads, NEW c, Moves(t, c)
  PROVE  TallyInv'
<1> DEFINE NewBy(k) == {o \in DOMAIN observations' :
                          observations'[o].command = k}
<1>1. CommandsNumbered /\ CommandsNumbered' /\ \A u \in Threads : Tallied(u)
  BY NumbersStep DEF TallyInv
<1>2. /\ commands \in Nat /\ c \in Command /\ exec \in [Threads -> Command]
      /\ links \subseteq links'
  BY LinksGrow DEF TypeInv, StoreTypeOK, Moves
<1> SUFFICES ASSUME NEW u \in Threads, exec'[u].step # "idle",
                    exec'[u].kind = "import"
             PROVE  /\ exec'[u].accepted = Cardinality(NewBy(exec'[u].command))
                    /\ exec'[u].accepted + exec'[u].rejected
                         + Len(exec'[u].todo) = exec'[u].items
                    /\ \A o \in NewBy(exec'[u].command) :
                         <<exec'[u].case_id, o>> \in links'
                    /\ exec'[u].step = "batch" => exec'[u].todo = << >>
  BY <1>1 DEF TallyInv, Tallied, Running, CreatedBy
<1>3. CASE u # t
  <2>1. exec'[u] = exec[u] /\ u \in Running
    BY <1>3, MovedRunning
  <2>2. ~Adds(t, c) \/ exec[u].command # exec[t].command
    BY <1>1, <1>3, <2>1 DEF CommandsNumbered, Adds
  <2>3. NewBy(exec[u].command) = CreatedBy(exec[u].command)
    BY <2>2, CreatedMoves
  <2>4. Tallied(u)
    BY <1>1
  <2> HIDE DEF NewBy
  <2>5. QED
    BY <1>2, <2>1, <2>3, <2>4 DEF Tallied
<1>4. CASE u = t /\ Starts(t, c)
  <2>1. /\ exec'[u] = c /\ c.command = commands + 1 /\ c.accepted = 0
        /\ c.rejected = 0 /\ c.items = Len(c.todo)
        /\ c.step = "batch" => c.todo = << >>
    BY <1>4, MovedRunning DEF Starts
  <2>2. ~Adds(t, c)
    BY <1>4, IdleTyped DEF Starts, Adds, Running
  <2>3. NewBy(commands + 1) = CreatedBy(commands + 1)
    BY <2>2, CreatedMoves
  <2>4. CreatedBy(commands + 1) = {}
    <3>1. \A o \in DOMAIN observations : observations[o].command \in 0 .. commands
      BY <1>1 DEF CommandsNumbered
    <3>2. commands + 1 \notin 0 .. commands
      BY <1>2
    <3>3. QED
      BY <3>1, <3>2 DEF CreatedBy
  <2>5. Len(c.todo) \in Nat
    <3>1. c.todo \in Seq(Items)
      BY <1>2 DEF Command
    <3>2. QED
      BY <3>1
  <2> HIDE DEF NewBy
  <2>6. NewBy(exec'[u].command) = {} /\ Cardinality({}) = 0
    BY <2>1, <2>3, <2>4, FS_EmptySet
  <2>7. c.accepted + c.rejected + Len(c.todo) = c.items
    <3>1. 0 + 0 + Len(c.todo) = Len(c.todo)
      BY <2>5
    <3>2. QED
      BY <2>1, <3>1, Zenon
  <2>8. QED
    BY <2>1, <2>6, <2>7
<1>5. CASE u = t /\ ~Starts(t, c)
  <2>1. /\ exec'[u] = c /\ t \in Running /\ Keeps(t, c)
        /\ c.command = exec[t].command /\ c.kind = exec[t].kind
        /\ c.case_id = exec[t].case_id /\ c.items = exec[t].items
    BY <1>5, MovedRunning
  <2>2. /\ exec[t].accepted = Cardinality(CreatedBy(exec[t].command))
        /\ exec[t].accepted + exec[t].rejected + Len(exec[t].todo)
             = exec[t].items
        /\ \A o \in CreatedBy(exec[t].command) : <<exec[t].case_id, o>> \in links
    BY <1>1, <2>1 DEF Tallied
  <2>3. c.step = "batch" => c.todo = << >>
    BY <2>1, IdleTyped DEF Keeps
  <2>4. c.step # "idle"
    BY <2>1
  <2>5. /\ exec[t].todo \in Seq(Items) /\ c.todo \in Seq(Items)
        /\ exec[t].accepted \in Nat /\ exec[t].rejected \in Nat
        /\ c.accepted \in Nat /\ c.rejected \in Nat
        /\ exec[t].items \in Nat
    BY <1>2 DEF Command
  <2>6. Len(exec[t].todo) \in Nat /\ Len(c.todo) \in Nat
    BY <2>5
  <2> DEFINE a == exec[t].accepted
             b == exec[t].rejected
             x == Len(exec[t].todo)
             d == c.accepted
             e == c.rejected
             y == Len(c.todo)
  <2>10. ASSUME \/ d = a /\ e + y = b + x
                \/ d = a + 1 /\ e = b /\ y + 1 = x
         PROVE  d + e + y = c.items
    <3>1. a \in Nat /\ b \in Nat /\ x \in Nat
          /\ d \in Nat /\ e \in Nat /\ y \in Nat
      BY <2>5, <2>6
    <3>2. a + b + x = c.items /\ c.items \in Nat
      BY <1>2, <2>1, <2>2, Zenon DEF Command
    <3> HIDE DEF a, b, x, d, e, y
    <3>3. QED
      BY <2>10, <3>1, <3>2, SumKept
  <2>7. CASE Passes(t, c)
    <3>1. /\ c.accepted = exec[t].accepted
          /\ c.rejected + Len(c.todo) = exec[t].rejected + Len(exec[t].todo)
      BY <2>4, <2>7 DEF Passes
    <3>2. c.accepted + c.rejected + Len(c.todo) = c.items
      BY <2>10, <3>1
    <3>3. ~Adds(t, c)
      <4>1. observations' = observations
        BY <2>7 DEF Passes, tables
      <4>2. QED
        BY <4>1 DEF Adds
    <3>4. NewBy(exec[t].command) = CreatedBy(exec[t].command)
      BY <3>3, CreatedMoves
    <3> HIDE DEF NewBy
    <3>5. QED
      BY <1>2, <1>5, <2>1, <2>2, <2>3, <3>1, <3>2, <3>4
  <2>8. CASE Adds(t, c)
    <3>1. PICK n \in ObservationIds, case \in CaseIds :
            /\ exec[t].kind = "import" => case = exec[t].case_id
            /\ links' = links \cup {<<case, n>>}
            /\ n \notin DOMAIN observations
            /\ DOMAIN observations' = DOMAIN observations \cup {n}
            /\ \A o \in DOMAIN observations : observations'[o] = observations[o]
            /\ observations'[n].command = exec[t].command
      BY <2>8 DEF Adds
    <3>2. NewBy(exec[t].command) = CreatedBy(exec[t].command) \cup {n}
          /\ n \notin CreatedBy(exec[t].command)
      BY <3>1 DEF CreatedBy
    <3>3. case = c.case_id
      BY <1>5, <2>1, <3>1
    <3>4. /\ c.accepted = exec[t].accepted + 1
          /\ c.rejected = exec[t].rejected
          /\ Len(c.todo) + 1 = Len(exec[t].todo)
      BY <2>4, <2>8 DEF Adds
    <3>5. c.accepted + c.rejected + Len(c.todo) = c.items
      BY <2>10, <3>4
    <3> HIDE DEF NewBy
    <3>6. Cardinality(NewBy(exec[t].command)) = exec[t].accepted + 1
      <4>1. IsFiniteSet(CreatedBy(exec[t].command))
        BY CreatedFinite
      <4>2. Cardinality(CreatedBy(exec[t].command) \cup {n}) =
              Cardinality(CreatedBy(exec[t].command)) + 1
        BY <3>2, <4>1, FS_AddElement
      <4>3. QED
        BY <2>2, <3>2, <4>2
    <3>7. \A o \in NewBy(exec[t].command) : <<c.case_id, o>> \in links'
      BY <2>1, <2>2, <3>1, <3>2, <3>3
    <3>8. QED
      BY <1>5, <2>1, <2>3, <3>4, <3>5, <3>6, <3>7
  <2>9. QED
    <3>1. c # Idle
      BY <2>4, IdleTyped
    <3>2. QED
      BY <1>5, <2>7, <2>8, <3>1 DEF Moves, Closes, Drops
<1>6. QED
  BY <1>3, <1>4, <1>5

\* Steps of no thread keep the counts of the imports that go on.
LEMMA TallyOther ==
  ASSUME TypeInv, TallyInv, [Next]_vars, \A t \in Threads : ~Serve(t)
  PROVE  TallyInv'
<1>1. /\ UNCHANGED <<observations, import_batches, commands>>
      /\ links \subseteq links'
      /\ UNCHANGED <<exec, broken>> \/ exec' = [t \in Threads |-> Idle]
  BY OtherSteps
<1>2. CASE exec' = exec
  <2>1. /\ Running' = Running
        /\ \A k : CreatedBy(k)' = CreatedBy(k)
    BY <1>1, <1>2 DEF Running, CreatedBy
  <2>2. CommandsNumbered'
    BY <1>1, <1>2, <2>1 DEF TallyInv, CommandsNumbered
  <2>3. ASSUME NEW t \in Threads
        PROVE  Tallied(t)'
    <3> DEFINE k == exec[t].command
    <3>1. Tallied(t) /\ exec'[t] = exec[t]
      BY <1>2 DEF TallyInv
    <3>2. CreatedBy(exec[t].command)' = CreatedBy(k)
      BY <1>1, <1>2 DEF CreatedBy
    <3> HIDE DEF k
    <3>3. QED
      BY <1>1, <2>1, <3>1, <3>2 DEF Tallied, k
  <2>4. QED
    BY <2>2, <2>3 DEF TallyInv
<1>3. CASE exec' = [t \in Threads |-> Idle]
  <2>1. \A t \in Threads : exec'[t].step = "idle"
    BY <1>3, IdleTyped
  <2>2. Running' = {}
    BY <2>1 DEF Running
  <2>3. \A t \in Threads : Tallied(t)'
    BY <2>2 DEF Tallied
  <2>4. CommandsNumbered'
    BY <1>1, <2>2 DEF TallyInv, CommandsNumbered
  <2>5. QED
    BY <2>3, <2>4 DEF TallyInv
<1>4. QED
  BY <1>1, <1>2, <1>3

\* No step changes what a batch row accounts for, and a new row is true.
LEMMA BatchesStep ==
  ASSUME TypeInv, TallyInv, BatchesAccount, [Next]_vars
  PROVE  BatchesAccount'
<1> DEFINE NewBy(k) == {o \in DOMAIN observations' :
                          observations'[o].command = k}
           True(b) == /\ b.accepted = Cardinality(CreatedBy(b.command))
                      /\ \A o \in CreatedBy(b.command) : <<b.case_id, o>> \in links
                      /\ b.accepted + b.rejected = b.items
<1>0. \A i \in DOMAIN import_batches : True(import_batches[i])
  BY DEF BatchesAccount
<1>1. CASE \A t \in Threads : ~Serve(t)
  <2>1. UNCHANGED <<observations, import_batches>> /\ links \subseteq links'
    BY <1>1, OtherSteps
  <2>2. QED
    BY <2>1 DEF BatchesAccount, CreatedBy
<1>2. CASE \E t \in Threads : Serve(t)
  <2>0. PICK t \in Threads : Serve(t)
    BY <1>2
  <2>1. PICK c : Moves(t, c)
    BY <2>0, ServeMoves
  <2>2. links \subseteq links'
    BY <2>1, LinksGrow
  <2>3. \A i \in DOMAIN import_batches :
          NewBy(import_batches[i].command) = CreatedBy(import_batches[i].command)
    <3> SUFFICES ASSUME NEW i \in DOMAIN import_batches
                 PROVE  NewBy(import_batches[i].command) =
                          CreatedBy(import_batches[i].command)
      OBVIOUS
    <3>1. ~Adds(t, c) \/ import_batches[i].command # exec[t].command
      BY DEF Adds, TallyInv, CommandsNumbered
    <3>2. QED
      BY <2>1, <3>1, CreatedMoves
  <2>4. SUFFICES ASSUME NEW i \in DOMAIN import_batches'
                 PROVE  /\ import_batches'[i].accepted =
                             Cardinality(NewBy(import_batches'[i].command))
                        /\ \A o \in NewBy(import_batches'[i].command) :
                             <<import_batches'[i].case_id, o>> \in links'
                        /\ import_batches'[i].accepted
                             + import_batches'[i].rejected
                             = import_batches'[i].items
    BY DEF BatchesAccount, CreatedBy
  <2> HIDE DEF NewBy
  <2>5. CASE i \in DOMAIN import_batches /\ import_batches'[i] = import_batches[i]
    BY <1>0, <2>2, <2>3, <2>5
  <2>6. CASE ~(i \in DOMAIN import_batches /\ import_batches'[i] = import_batches[i])
    <3>1. Closes(t, c)
      <4>1. import_batches' # import_batches
        BY <2>6
      <4>2. QED
        BY <2>1, <4>1 DEF Moves, Starts, Passes, Adds, Drops, tables
    <3> DEFINE row == [command |-> exec[t].command, case_id |-> exec[t].case_id,
                       items |-> exec[t].items, accepted |-> exec[t].accepted,
                       rejected |-> exec[t].rejected]
    <3>2. /\ import_batches' = Append(import_batches, row)
          /\ exec[t].step = "batch" /\ observations' = observations
          /\ exec[t] \in Command /\ exec[t].kind = "import"
          /\ exec[t].case_id \in CaseIds
      BY <3>1 DEF Closes, RecordBatch, TypeInv, StoreTypeOK, CommandOK
    <3>3. row \in Batch /\ import_batches \in Seq(Batch)
      BY <3>2 DEF Batch, Command, TypeInv, StoreTypeOK
    <3>4. /\ row.accepted = exec[t].accepted /\ row.rejected = exec[t].rejected
          /\ row.items = exec[t].items /\ row.command = exec[t].command
          /\ row.case_id = exec[t].case_id
      OBVIOUS
    <3> HIDE DEF row
    <3>5. import_batches'[i] = row
      BY <2>6, <3>2, <3>3
    <3>6. Tallied(t) /\ t \in Running
      BY <3>2 DEF TallyInv, Running
    <3>7. /\ row.accepted = Cardinality(CreatedBy(row.command))
          /\ row.accepted + row.rejected + Len(exec[t].todo) = row.items
          /\ \A o \in CreatedBy(row.command) : <<row.case_id, o>> \in links
          /\ exec[t].todo = << >>
      BY <3>2, <3>4, <3>6 DEF Tallied
    <3>8. row.accepted + row.rejected = row.items
      <4>1. Len(exec[t].todo) = 0
        BY <3>7
      <4>2. row.accepted \in Nat /\ row.rejected \in Nat
        BY <3>3 DEF Batch
      <4> DEFINE sum == row.accepted + row.rejected
      <4>3. sum + 0 = sum
        BY <4>2
      <4>4. QED
        BY <3>7, <4>1, <4>3
    <3>9. NewBy(row.command) = CreatedBy(row.command)
      BY <3>2 DEF NewBy, CreatedBy
    <3>10. QED
      BY <2>2, <3>5, <3>7, <3>8, <3>9
  <2>7. QED
    BY <2>5, <2>6
<1>3. QED
  BY <1>1, <1>2

\* The counts hold of a store no process has opened yet.
LEMMA TallyInit == Init => TallyInv /\ BatchesAccount
<1> SUFFICES ASSUME Init PROVE TallyInv /\ BatchesAccount
  OBVIOUS
<1>1. PICK legacy \in Legacies : LegacyRows(legacy)
  BY DEF Init
<1>2. \A o \in DOMAIN observations :
        observations[o].command = 0 /\ observations[o].kind = "legacy"
  BY <1>1 DEF LegacyRows
<1>3. Running = {}
  BY IdleTyped DEF Init, Running
<1>4. import_batches = << >> /\ DOMAIN import_batches = {} /\ commands = 0
  BY DEF Init
<1>5. CommandsNumbered
  BY <1>2, <1>3, <1>4 DEF CommandsNumbered
<1>6. QED
  BY <1>3, <1>4, <1>5 DEF TallyInv, Tallied, BatchesAccount

\* Every step keeps the counts.
LEMMA TallyKept == TypeInv /\ TallyInv /\ [Next]_vars => TallyInv'
<1> SUFFICES ASSUME TypeInv, TallyInv, [Next]_vars PROVE TallyInv'
  OBVIOUS
<1>1. CASE \A t \in Threads : ~Serve(t)
  BY <1>1, TallyOther
<1>2. CASE \E t \in Threads : Serve(t)
  <2>0. PICK t \in Threads : Serve(t)
    BY <1>2
  <2>1. PICK c : Moves(t, c)
    BY <2>0, ServeMoves
  <2>2. QED
    BY <2>1, TallyStep
<1>3. QED
  BY <1>1, <1>2

\* Every batch row counts what its import created, all of it in its case, and
\* every other item as rejected, whatever threads, faults and restarts did.
THEOREM BatchesTrue == Spec => []BatchesAccount
<1> DEFINE Inv == TypeInv /\ TallyInv /\ BatchesAccount
<1>1. Init => Inv
  BY TypeInit, TallyInit
<1>2. Inv /\ [Next]_vars => Inv'
  BY TypeStep, TallyKept, BatchesStep
<1>3. QED
  BY <1>1, <1>2, PTL DEF Spec

-----------------------------------------------------------------------------
(* Imports leave a row, demo data is bounded *)

\* ImportsRecorded, with the command that is still under way a running one.
Recorded ==
  \A o \in DOMAIN observations :
    observations[o].kind = "import" =>
      \/ observations[o].command \in broken
      \/ \E t \in Running : exec[t].command = observations[o].command
      \/ \E i \in DOMAIN import_batches :
           import_batches[i].command = observations[o].command

\* An import that comes to its batch row under an unknown case has created
\* nothing, since what it creates is placed in that case.
LEMMA UnknownCaseEmpty ==
  ASSUME FullInv, TallyInv, NEW t \in Threads, exec[t].step = "batch",
         ~CaseExists(t)
  PROVE  \A o \in DOMAIN observations :
           observations[o].command # exec[t].command
<1>1. t \in Running /\ exec[t].kind = "import" /\ exec[t].case_id \in CaseIds
  BY DEF Running, FullInv, TypeInv, CommandOK
<1>2. \A o \in CreatedBy(exec[t].command) : <<exec[t].case_id, o>> \in links
  BY <1>1 DEF TallyInv, Tallied
<1>3. links \subseteq (1 .. cases) \X DOMAIN observations
  BY DEF FullInv, AuditInv
<1>4. exec[t].case_id \notin 1 .. cases
  <2>1. cases \in Nat /\ exec[t].case_id \in Nat
    BY <1>1, StoreAssumption DEF CaseIds, FullInv, TypeInv, StoreTypeOK
  <2>2. QED
    BY <2>1 DEF CaseExists
<1>5. CreatedBy(exec[t].command) = {}
  BY <1>2, <1>3, <1>4
<1>6. QED
  BY <1>5 DEF CreatedBy

\* A step of a thread leaves every observation of an import explained.
LEMMA RecordedMoves ==
  ASSUME FullInv, TallyInv, Recorded, NEW t \in Threads, NEW c, Moves(t, c)
  PROVE  Recorded'
<1>0. /\ TypeInv /\ CommandsNumbered /\ exec \in [Threads -> Command]
      /\ import_batches \in Seq(Batch)
  BY DEF FullInv, TypeInv, StoreTypeOK, TallyInv
<1>1. exec' = [exec EXCEPT ![t] = c] /\ exec'[t] = c
      /\ \A u \in Threads : u # t => exec'[u] = exec[u]
  BY <1>0 DEF Moves
<1>2. /\ broken \subseteq broken'
      /\ \A i \in DOMAIN import_batches :
           i \in DOMAIN import_batches' /\ import_batches'[i] = import_batches[i]
  <2>1. CASE Closes(t, c)
    <3> DEFINE row == [command |-> exec[t].command, case_id |-> exec[t].case_id,
                       items |-> exec[t].items, accepted |-> exec[t].accepted,
                       rejected |-> exec[t].rejected]
    <3>1. import_batches' = Append(import_batches, row) /\ broken' = broken
      BY <2>1 DEF Closes, RecordBatch
    <3> HIDE DEF row
    <3>2. QED
      BY <1>0, <3>1
  <2>2. CASE ~Closes(t, c)
    BY <2>2 DEF Moves, Starts, Passes, Adds, Drops, tables
  <2>3. QED
    BY <2>1, <2>2
<1> DEFINE Told(k) == \/ k \in broken'
                      \/ \E u \in Running' : exec'[u].command = k
                      \/ \E i \in DOMAIN import_batches' :
                           import_batches'[i].command = k
<1>3. ASSUME t \in Running, exec[t].kind = "import",
             \E o \in DOMAIN observations :
               observations[o].command = exec[t].command
      PROVE  Told(exec[t].command)
  <2>1. ~Starts(t, c)
    BY <1>3, IdleTyped DEF Starts, Running
  <2>2. CASE Passes(t, c) \/ Adds(t, c)
    <3>1. Keeps(t, c)
      BY <2>2 DEF Passes, Adds
    <3>2. c.step # "idle" /\ c.command = exec[t].command
      BY <1>3, <3>1 DEF Keeps
    <3>3. t \in Running'
      BY <1>1, <3>2 DEF Running
    <3>4. QED
      BY <1>1, <3>2, <3>3
  <2>3. CASE Closes(t, c)
    <3> DEFINE row == [command |-> exec[t].command, case_id |-> exec[t].case_id,
                       items |-> exec[t].items, accepted |-> exec[t].accepted,
                       rejected |-> exec[t].rejected]
    <3>1. import_batches' = Append(import_batches, row)
          /\ row.command = exec[t].command
      BY <2>3 DEF Closes, RecordBatch
    <3> HIDE DEF row
    <3>2. import_batches'[Len(import_batches) + 1] = row
          /\ Len(import_batches) + 1 \in DOMAIN import_batches'
      BY <1>0, <3>1
    <3>3. QED
      BY <3>1, <3>2
  <2>4. CASE Drops(t, c)
    BY <1>3, <2>4, UnknownCaseEmpty DEF Drops
  <2>5. QED
    BY <2>1, <2>2, <2>3, <2>4 DEF Moves
<1>4. ASSUME NEW o \in DOMAIN observations, observations[o].kind = "import"
      PROVE  Told(observations[o].command)
  <2>1. CASE \E u \in Running : exec[u].command = observations[o].command
    <3>1. PICK u \in Running : exec[u].command = observations[o].command
      BY <2>1
    <3>2. exec[u].kind = "import"
      BY <1>0, <1>4, <3>1 DEF CommandsNumbered
    <3>3. CASE u = t
      BY <1>3, <3>1, <3>2, <3>3
    <3>4. CASE u # t
      <4>1. exec'[u] = exec[u] /\ u \in Running'
        BY <1>1, <3>4 DEF Running
      <4>2. QED
        BY <3>1, <4>1
    <3>5. QED
      BY <3>3, <3>4
  <2>2. CASE ~\E u \in Running : exec[u].command = observations[o].command
    BY <1>2, <1>4, <2>2 DEF Recorded
  <2>3. QED
    BY <2>1, <2>2
<1>5. CASE Adds(t, c)
  <2>1. PICK n \in ObservationIds :
          /\ DOMAIN observations' = DOMAIN observations \cup {n}
          /\ \A o \in DOMAIN observations : observations'[o] = observations[o]
          /\ observations'[n].kind = exec[t].kind
          /\ observations'[n].command = exec[t].command
    BY <1>5 DEF Adds
  <2>2. exec[t].kind = "import" => Told(exec[t].command)
    <3>1. ASSUME exec[t].kind = "import"
          PROVE  c.step # "idle" /\ c.command = exec[t].command
      BY <1>5, <3>1 DEF Adds, Keeps
    <3>2. ASSUME exec[t].kind = "import" PROVE t \in Running'
      BY <1>1, <3>1, <3>2 DEF Running
    <3>3. QED
      BY <1>1, <3>1, <3>2
  <2>3. \A o \in DOMAIN observations' :
          observations'[o].kind = "import" => Told(observations'[o].command)
    <3> HIDE DEF Told
    <3>1. QED
      BY <1>4, <2>1, <2>2
  <2>4. QED
    BY <2>3 DEF Recorded
<1>6. CASE ~Adds(t, c)
  <2>1. observations' = observations
    BY <1>6 DEF Moves, Starts, Passes, Closes, RecordBatch, Drops, tables
  <2>2. QED
    BY <1>4, <2>1 DEF Recorded
<1>7. QED
  BY <1>5, <1>6

\* Every step leaves every observation of an import explained.
LEMMA RecordedStep ==
  ASSUME FullInv, TallyInv, Recorded, [Next]_vars
  PROVE  Recorded'
<1>1. CASE \E t \in Threads : Serve(t)
  <2>0. PICK t \in Threads : Serve(t)
    BY <1>1
  <2>1. PICK c : Moves(t, c)
    BY <2>0, ServeMoves DEF FullInv
  <2>2. QED
    BY <2>1, RecordedMoves
<1>2. CASE \A t \in Threads : ~Serve(t)
  <2>1. /\ UNCHANGED <<observations, import_batches>>
        /\ \/ UNCHANGED <<exec, broken>>
           \/ broken' = broken \cup
                {exec[t].command : t \in {u \in Threads : exec[u] # Idle}}
    BY <1>2, OtherSteps DEF FullInv
  <2>2. CASE UNCHANGED <<exec, broken>>
    BY <2>1, <2>2 DEF Recorded, Running
  <2>3. CASE broken' = broken \cup
               {exec[t].command : t \in {u \in Threads : exec[u] # Idle}}
    <3>1. \A t \in Running : exec[t].command \in broken'
      BY <2>3, IdleTyped DEF Running
    <3>2. QED
      BY <2>1, <2>3, <3>1 DEF Recorded
  <2>4. QED
    BY <2>1, <2>2, <2>3
<1>3. QED
  BY <1>1, <1>2

\* An import that created anything is under way, has its row, or was cut off
\* by a fault, a stop or a race for an actor, whatever it refused.
THEOREM ImportsAlwaysRecorded == Spec => []ImportsRecorded
<1> DEFINE Inv == FullInv /\ TallyInv /\ Recorded
<1>1. Init => Inv
  <2> SUFFICES ASSUME Init PROVE Recorded
    BY FullInit, TallyInit
  <2>1. PICK legacy \in Legacies : LegacyRows(legacy)
    BY DEF Init
  <2>2. \A o \in DOMAIN observations : observations[o].kind = "legacy"
    BY <2>1 DEF LegacyRows
  <2>3. QED
    BY <2>2 DEF Recorded
<1>2. Inv /\ [Next]_vars => Inv'
  BY FullStep, TallyKept, RecordedStep DEF FullInv
<1>3. Inv => ImportsRecorded
  BY DEF Recorded, ImportsRecorded, Running
<1>4. QED
  BY <1>1, <1>2, <1>3, PTL DEF Spec

\* The commands that create demo data, and those that have.
Seeders == {t \in Running : exec[t].kind = "seed"}
Seeding == {exec[t].command : t \in Seeders}
Seeds == SeedCommands \cup Seeding

SeedInv ==
  IsFiniteSet(Seeds) /\ Cardinality(Seeds) <= Cardinality(Threads)

\* Some threads have no more commands than there are threads.
LEMMA FewCommands ==
  ASSUME NEW S \in SUBSET Threads, NEW e
  PROVE  /\ IsFiniteSet({e[t].command : t \in S})
         /\ Cardinality({e[t].command : t \in S}) <= Cardinality(Threads)
<1> DEFINE number == [t \in S |-> e[t].command]
           numbers == {e[t].command : t \in S}
<1>1. IsFiniteSet(Threads)
  BY StoreAssumption
<1>2. IsFiniteSet(S) /\ Cardinality(S) <= Cardinality(Threads)
  BY <1>1, FS_Subset
<1>3. number \in Surjection(S, numbers)
  BY DEF Surjection
<1>4. IsFiniteSet(numbers) /\ Cardinality(numbers) <= Cardinality(S)
  BY <1>2, <1>3, FS_Surjection
<1> HIDE DEF numbers
<1>5. /\ Cardinality(numbers) \in Nat /\ Cardinality(S) \in Nat
      /\ Cardinality(Threads) \in Nat
  BY <1>1, <1>2, <1>4, FS_CardinalityType
<1>6. IsFiniteSet(numbers) /\ Cardinality(numbers) <= Cardinality(Threads)
  BY <1>2, <1>4, <1>5
<1>7. QED
  BY <1>6 DEF numbers

\* A set of demo data commands that only shrinks stays as small.
LEMMA SeedsShrink ==
  ASSUME SeedInv, NEW S \in SUBSET Seeds
  PROVE  IsFiniteSet(S) /\ Cardinality(S) <= Cardinality(Threads)
<1>1. IsFiniteSet(S) /\ Cardinality(S) <= Cardinality(Seeds)
  BY FS_Subset DEF SeedInv
<1>2. /\ Cardinality(S) \in Nat /\ Cardinality(Seeds) \in Nat
      /\ Cardinality(Threads) \in Nat
  BY <1>1, FS_CardinalityType, StoreAssumption DEF SeedInv
<1>3. QED
  BY <1>1, <1>2 DEF SeedInv

\* A step either starts demo data in an empty store or adds no command to
\* those that create it.
LEMMA SeedsStep ==
  ASSUME TypeInv, TallyInv, [Next]_vars
  PROVE  SeedCommands' = {} \/ Seeds' \subseteq Seeds
<1> DEFINE Demo == {o \in DOMAIN observations : observations[o].kind = "seed"}
           NewDemo == {o \in DOMAIN observations' : observations'[o].kind = "seed"}
<1>0. /\ SeedCommands = {observations[o].command : o \in Demo}
      /\ SeedCommands' = {observations'[o].command : o \in NewDemo}
  BY DEF SeedCommands
<1>1. CASE \A t \in Threads : ~Serve(t)
  <2>1. /\ observations' = observations
        /\ exec' = exec \/ exec' = [t \in Threads |-> Idle]
    BY <1>1, OtherSteps
  <2>2. Seeding' \subseteq Seeding
    <3>1. CASE exec' = exec
      BY <3>1 DEF Seeding, Seeders, Running
    <3>2. CASE exec' = [t \in Threads |-> Idle]
      BY <3>2, IdleTyped DEF Seeding, Seeders, Running
    <3>3. QED
      BY <2>1, <3>1, <3>2
  <2>3. SeedCommands' = SeedCommands
    BY <1>0, <2>1
  <2>4. QED
    BY <2>2, <2>3 DEF Seeds
<1>2. CASE \E t \in Threads : Serve(t)
  <2>0. PICK t \in Threads : Serve(t)
    BY <1>2
  <2>1. PICK c : Moves(t, c)
    BY <2>0, ServeMoves
  <2>2. CASE Starts(t, c) /\ c.kind = "seed"
    <3>1. observations' = << >>
      BY <2>2 DEF Starts, tables
    <3>2. NewDemo = {}
      BY <3>1
    <3>3. QED
      BY <1>0, <3>2
  <2>3. CASE ~(Starts(t, c) /\ c.kind = "seed")
    <3>1. \A u \in Seeders' : u \in Seeders /\ exec'[u].command = exec[u].command
      <4> SUFFICES ASSUME NEW u \in Threads, exec'[u].step # "idle",
                          exec'[u].kind = "seed"
                   PROVE  /\ u \in Running /\ exec[u].kind = "seed"
                          /\ exec'[u].command = exec[u].command
        BY DEF Seeders, Running
      <4>1. QED
        BY <2>1, <2>3, MovedRunning
    <3>2. Seeding' \subseteq Seeding
      BY <3>1 DEF Seeding
    <3>3. \A o \in NewDemo :
            \/ o \in Demo /\ observations'[o].command = observations[o].command
            \/ observations'[o].command \in Seeding
      <4>1. CASE Adds(t, c)
        <5>1. PICK n \in ObservationIds :
                /\ DOMAIN observations' = DOMAIN observations \cup {n}
                /\ \A o \in DOMAIN observations :
                     observations'[o] = observations[o]
                /\ observations'[n].kind = exec[t].kind
                /\ observations'[n].command = exec[t].command
          BY <4>1 DEF Adds
        <5>2. t \in Running
          BY <4>1 DEF Adds
        <5>3. QED
          BY <5>1, <5>2 DEF Seeding, Seeders
      <4>2. CASE ~Adds(t, c)
        <5>1. observations' = observations
          BY <2>1, <4>2
          DEF Moves, Starts, Passes, Closes, RecordBatch, Drops, tables
        <5>2. QED
          BY <5>1
      <4>3. QED
        BY <4>1, <4>2
    <3>4. SeedCommands' \subseteq SeedCommands \cup Seeding
      <4> HIDE DEF Demo, NewDemo
      <4>1. QED
        BY <1>0, <3>3
    <3>5. QED
      BY <3>2, <3>4 DEF Seeds
  <2>4. QED
    BY <2>2, <2>3
<1>3. QED
  BY <1>1, <1>2

\* However many requests race for the demo data, it is created at most once
\* per thread of the server.
THEOREM SeedsAlwaysBounded == Spec => []SeedsBounded
<1> DEFINE Inv == TypeInv /\ TallyInv /\ SeedInv
<1>1. Init => Inv
  <2> SUFFICES ASSUME Init PROVE SeedInv
    BY TypeInit, TallyInit
  <2>1. PICK legacy \in Legacies : LegacyRows(legacy)
    BY DEF Init
  <2>2. \A o \in DOMAIN observations : observations[o].kind # "seed"
    BY <2>1 DEF LegacyRows
  <2>3. SeedCommands = {}
    BY <2>2 DEF SeedCommands
  <2>4. Seeders \in SUBSET Threads
    BY DEF Seeders, Running
  <2>5. IsFiniteSet(Seeding) /\ Cardinality(Seeding) <= Cardinality(Threads)
    BY <2>4, FewCommands DEF Seeding
  <2>6. QED
    BY <2>3, <2>5 DEF SeedInv, Seeds
<1>2. Inv /\ [Next]_vars => Inv'
  <2> SUFFICES ASSUME Inv, [Next]_vars PROVE SeedInv'
    BY TypeStep, TallyKept
  <2>1. CASE SeedCommands' = {}
    <3>0. Seeders' \in SUBSET Threads
      BY DEF Seeders, Running
    <3>1. /\ IsFiniteSet(Seeding')
          /\ Cardinality(Seeding') <= Cardinality(Threads)
      BY <3>0, FewCommands DEF Seeding
    <3>2. Seeds' = Seeding'
      BY <2>1 DEF Seeds
    <3>3. QED
      BY <3>1, <3>2 DEF SeedInv
  <2>2. CASE Seeds' \subseteq Seeds
    <3>1. IsFiniteSet(Seeds') /\ Cardinality(Seeds') <= Cardinality(Threads)
      BY <2>2, SeedsShrink
    <3>2. QED
      BY <3>1 DEF SeedInv
  <2>3. QED
    BY <2>1, <2>2, SeedsStep
<1>3. Inv => SeedsBounded
  <2> SUFFICES ASSUME SeedInv PROVE SeedsBounded
    OBVIOUS
  <2>1. SeedCommands \in SUBSET Seeds
    BY DEF Seeds
  <2>2. QED
    BY <2>1, SeedsShrink DEF SeedsBounded
<1>4. QED
  BY <1>1, <1>2, <1>3, PTL DEF Spec
=============================================================================
