--------------------------- MODULE DepthVaultProofs ---------------------------
(***************************************************************************)
(* Theorems about DepthVault: with derivatives packed beside images the    *)
(* vaults are still those of EvidenceVault, whose theorems carry over, and *)
(* what a package holds of the depth runs, for any number of processes,    *)
(* clients, images, runs and faults.                                       *)
(***************************************************************************)
EXTENDS DepthVault, EvidenceVaultProofs, SequenceTheorems

-----------------------------------------------------------------------------
(* Implementation                                                           *)

LEMMA DepthStepIsVaultStep ==
  ASSUME [DepthNext]_all_vars
  PROVE  [Next]_vars
<1>1. ASSUME NEW c \in Clients, RunDepth(c) PROVE UNCHANGED vars
  BY <1>1 DEF RunDepth, BeginDepth, DeriveNothing, OpenDerivative, SaveDerivative,
              RecordRun, DepthError
<1>2. ASSUME NEW c \in Clients, Elsewhere(c) PROVE Next
  BY <1>2 DEF Elsewhere, Create, Next
<1>3. ASSUME NEW c \in Clients, PackRuns(c) PROVE Next \/ UNCHANGED vars
  BY <1>3 DEF PackRuns, ReportRuns, ListRuns, ReadDerivative, EncryptAll, PackDerivatives,
              LeaveVault, Create, Next
<1>4. ASSUME NEW p \in Processes, CrashAll(p) PROVE Next
  BY <1>4 DEF CrashAll, Next
<1>5. CASE UNCHANGED all_vars
  BY <1>5 DEF all_vars
<1> QED
  BY <1>1, <1>2, <1>3, <1>4, <1>5 DEF DepthNext

\* Whatever is derived meanwhile, images, keys, packages and exports behave as
\* in EvidenceVault.
THEOREM DepthImplementsVault == DepthSpec => Spec
<1>1. DepthInit => Init
  BY DEF DepthInit
<1> QED
  BY <1>1, DepthStepIsVaultStep, PTL DEF DepthSpec, Spec

\* So exports stay verifiable while derivatives are packed.
THEOREM DepthExportsVerifiable == DepthSpec => []ExportsVerifiable
  BY DepthImplementsVault, ExportsStayVerifiable, PTL

-----------------------------------------------------------------------------
(* The inductive invariant                                                  *)

DepthCalls == [step : {"idle", "derive", "save", "row"}, image : Images \cup {NoImage}]
Listings == [report : SUBSET Nat, todo : SUBSET Nat,
             files : SUBSET [run : Nat, content : Contents]]

DepthTypeOK ==
  /\ derivatives \in [Images -> Contents]
  /\ depth_runs \in Seq(Images)
  /\ depth \in [Clients -> DepthCalls]
  /\ \A c \in Clients : depth[c].step # "idle" => depth[c].image \in Images
  /\ begun \in [Images -> Nat]

\* The derivative of image i is being written, or is written and not recorded.
Touches(c, i) == depth[c].step \in {"save", "row"} /\ depth[c].image = i
Recorded(i) == \E n \in DOMAIN depth_runs : depth_runs[n] = i

\* The first derivative of an image has one writer, and a row only afterwards.
SaveOK(i) ==
  /\ begun[i] = 0 => ~Recorded(i) /\ \A c \in Clients : ~Touches(c, i)
  /\ begun[i] = 1 =>
       /\ \A c, d \in Clients : Touches(c, i) /\ Touches(d, i) => c = d
       /\ \A c \in Clients : Touches(c, i) => ~Recorded(i)
       /\ \A c \in Clients : AtDepth(c, "row") /\ depth[c].image = i =>
                               derivatives[i] = "whole"
       /\ Recorded(i) => derivatives[i] = "whole"
  /\ Recorded(i) \/ (\E c \in Clients : Touches(c, i)) => derivatives[i] # "missing"

SaveInv == DepthTypeOK /\ \A i \in Images : SaveOK(i)

\* The steps of a vault command that has read its files.
Packing == {"look", "install", "write_key", "load", "open_package"}

Known(file) == file.run \in DOMAIN depth_runs /\ Sound(file)

\* What the report lists is packed, or still to be packed.
ListingOK(c) ==
  /\ listing[c].report \subseteq DOMAIN depth_runs
  /\ listing[c].todo \subseteq DOMAIN depth_runs
  /\ \A file \in listing[c].files : Known(file)
  /\ At(c, "read") => listing[c].report \subseteq listing[c].todo \cup Runs(listing[c].files)
  /\ work[c].step \in Packing => listing[c].report \subseteq Runs(listing[c].files)

PackedOK(n) ==
  /\ packed[n].report \subseteq Runs(packed[n].files)
  /\ \A file \in packed[n].files : Known(file)

ListInv ==
  /\ listing \in [Clients -> Listings]
  /\ packed \in Seq([report : SUBSET Nat, files : SUBSET [run : Nat, content : Contents]])
  /\ \A c \in Clients : ListingOK(c)
  /\ \A n \in DOMAIN packed : PackedOK(n)

DepthInv == SaveInv /\ ListInv

-----------------------------------------------------------------------------
(* Derivatives and their rows                                               *)

LEMMA RestTyped ==
  ASSUME DepthTypeOK, NEW c \in Clients, Rest(c)
  PROVE  /\ depth' \in [Clients -> DepthCalls]
         /\ depth'[c].step = "idle"
         /\ \A d \in Clients : d # c => depth'[d] = depth[d]
         /\ \A d \in Clients : depth'[d].step # "idle" => depth'[d].image \in Images
BY DEF DepthTypeOK, Rest, Resting, DepthCalls

LEMMA TurnTyped ==
  ASSUME DepthTypeOK, NEW c \in Clients, NEW step \in {"save", "row"},
         depth[c].step # "idle", Turn(c, step)
  PROVE  /\ depth' \in [Clients -> DepthCalls]
         /\ depth'[c].step = step /\ depth'[c].image = depth[c].image
         /\ \A d \in Clients : d # c => depth'[d] = depth[d]
         /\ \A d \in Clients : depth'[d].step # "idle" => depth'[d].image \in Images
<1>1. depth[c] \in DepthCalls
  BY DEF DepthTypeOK
<1>2. depth'[c] = [depth[c] EXCEPT !.step = step]
      /\ \A d \in Clients : d # c => depth'[d] = depth[d]
  BY DEF Turn, DepthTypeOK
<1>3. depth'[c] \in DepthCalls /\ depth'[c].step = step /\ depth'[c].image = depth[c].image
  BY <1>1, <1>2 DEF DepthCalls
<1> QED
  BY <1>2, <1>3 DEF Turn, DepthTypeOK

\* A call that rests without a change of files and rows keeps the invariant.
LEMMA RestKeeps ==
  ASSUME SaveInv, NEW c \in Clients, Rest(c), UNCHANGED <<derivatives, depth_runs, begun>>
  PROVE  SaveInv'
<1>1. DepthTypeOK'
  BY RestTyped DEF SaveInv, DepthTypeOK
<1>2. /\ depth'[c].step = "idle"
      /\ \A d \in Clients : d # c => depth'[d] = depth[d]
  BY RestTyped DEF SaveInv
<1>3. ASSUME NEW i \in Images PROVE SaveOK(i)'
  BY <1>2 DEF SaveInv, SaveOK, Touches, Recorded, AtDepth
<1> QED
  BY <1>1, <1>3 DEF SaveInv

LEMMA BeginKeeps ==
  ASSUME SaveInv, NEW c \in Clients, NEW i \in Images, BeginDepth(c, i)
  PROVE  SaveInv'
<1>1. /\ depth' \in [Clients -> DepthCalls]
      /\ depth'[c] = [step |-> "derive", image |-> i]
      /\ \A d \in Clients : d # c => depth'[d] = depth[d]
      /\ UNCHANGED <<derivatives, depth_runs, begun>>
  BY DEF SaveInv, DepthTypeOK, BeginDepth, DepthCalls
<1>2. depth'[c].step = "derive" /\ depth'[c].image = i
  BY <1>1
<1>3. DepthTypeOK'
  BY <1>1, <1>2 DEF SaveInv, DepthTypeOK
<1>4. ASSUME NEW j \in Images PROVE SaveOK(j)'
  BY <1>1, <1>2 DEF SaveInv, SaveOK, Touches, Recorded, AtDepth
<1> QED
  BY <1>3, <1>4 DEF SaveInv

LEMMA OpenKeeps ==
  ASSUME SaveInv, NEW c \in Clients, OpenDerivative(c)
  PROVE  SaveInv'
<1>0. depth[c].image \in Images /\ depth[c].step = "derive"
  BY DEF SaveInv, DepthTypeOK, OpenDerivative, AtDepth
<1> PICK i \in Images : i = depth[c].image
  BY <1>0
<1>1. i = depth[c].image /\ depth[c].step = "derive"
  BY <1>0
<1>2. /\ depth' \in [Clients -> DepthCalls]
      /\ depth'[c].step = "save" /\ depth'[c].image = i
      /\ \A d \in Clients : d # c => depth'[d] = depth[d]
      /\ \A d \in Clients : depth'[d].step # "idle" => depth'[d].image \in Images
  BY <1>1, TurnTyped DEF SaveInv, OpenDerivative
<1>3. /\ derivatives' \in [Images -> Contents] /\ derivatives'[i] = "partial"
      /\ begun' \in [Images -> Nat] /\ begun'[i] = begun[i] + 1 /\ begun[i] \in Nat
      /\ \A j \in Images : j # i => derivatives'[j] = derivatives[j] /\ begun'[j] = begun[j]
      /\ depth_runs' = depth_runs
  BY <1>1 DEF SaveInv, DepthTypeOK, OpenDerivative, Contents
<1>4. DepthTypeOK'
  BY <1>2, <1>3 DEF SaveInv, DepthTypeOK
<1>5. SaveOK(i)'
  <2>1. Recorded(i)' <=> Recorded(i)
    BY <1>3 DEF Recorded
  <2>2. \A d \in Clients : d # c => (Touches(d, i)' <=> Touches(d, i))
    BY <1>2 DEF Touches
  <2>3. ~AtDepth(c, "row")'
    BY <1>2 DEF AtDepth
  <2>4. SaveOK(i)
    BY <1>1 DEF SaveInv
  <2>5. \A d \in Clients : AtDepth(d, "row") /\ depth[d].image = i => Touches(d, i)
    BY DEF AtDepth, Touches
  <2>6. \A d \in Clients : d # c => (AtDepth(d, "row")' <=> AtDepth(d, "row"))
                                    /\ depth'[d] = depth[d]
    BY <1>2 DEF AtDepth
  <2> QED
    BY <1>3, <2>1, <2>2, <2>3, <2>4, <2>5, <2>6 DEF SaveOK
<1>6. ASSUME NEW j \in Images, j # i PROVE SaveOK(j)'
  BY <1>1, <1>2, <1>3, <1>6 DEF SaveInv, SaveOK, Touches, Recorded, AtDepth
<1> QED
  BY <1>4, <1>5, <1>6 DEF SaveInv

LEMMA SaveKeeps ==
  ASSUME SaveInv, NEW c \in Clients, SaveDerivative(c)
  PROVE  SaveInv'
<1>0. depth[c].image \in Images /\ depth[c].step = "save"
  BY DEF SaveInv, DepthTypeOK, SaveDerivative, AtDepth
<1> PICK i \in Images : i = depth[c].image
  BY <1>0
<1>1. i = depth[c].image /\ depth[c].step = "save"
  BY <1>0
<1>2. /\ depth' \in [Clients -> DepthCalls]
      /\ depth'[c].step = "row" /\ depth'[c].image = i
      /\ \A d \in Clients : d # c => depth'[d] = depth[d]
      /\ \A d \in Clients : depth'[d].step # "idle" => depth'[d].image \in Images
  BY <1>1, TurnTyped DEF SaveInv, SaveDerivative
<1>3. /\ derivatives' \in [Images -> Contents] /\ derivatives'[i] = "whole"
      /\ \A j \in Images : j # i => derivatives'[j] = derivatives[j]
      /\ depth_runs' = depth_runs /\ begun' = begun
  BY <1>1 DEF SaveInv, DepthTypeOK, SaveDerivative, Contents
<1>4. DepthTypeOK'
  BY <1>2, <1>3 DEF SaveInv, DepthTypeOK
<1>5. ASSUME NEW j \in Images PROVE SaveOK(j)'
  BY <1>1, <1>2, <1>3 DEF SaveInv, SaveOK, Touches, Recorded, AtDepth
<1> QED
  BY <1>4, <1>5 DEF SaveInv

LEMMA Appended ==
  ASSUME NEW S, NEW q \in Seq(S), NEW x \in S
  PROVE  /\ Append(q, x) \in Seq(S) /\ DOMAIN Append(q, x) = 1 .. Len(q) + 1
         /\ DOMAIN q = 1 .. Len(q) /\ Len(q) \in Nat
         /\ \A n \in DOMAIN q : n \in DOMAIN Append(q, x) /\ Append(q, x)[n] = q[n]
         /\ Append(q, x)[Len(q) + 1] = x
  OBVIOUS

LEMMA RecordKeeps ==
  ASSUME SaveInv, NEW c \in Clients, RecordRun(c)
  PROVE  SaveInv'
<1>0. depth[c].image \in Images
  BY DEF SaveInv, DepthTypeOK, RecordRun, AtDepth
<1> PICK i \in Images : i = depth[c].image
  BY <1>0
<1>1. i = depth[c].image /\ depth[c].step = "row" /\ depth_runs \in Seq(Images)
  BY DEF SaveInv, DepthTypeOK, RecordRun, AtDepth
<1>2. /\ depth' \in [Clients -> DepthCalls]
      /\ depth'[c].step = "idle"
      /\ \A d \in Clients : d # c => depth'[d] = depth[d]
      /\ \A d \in Clients : depth'[d].step # "idle" => depth'[d].image \in Images
  BY RestTyped DEF SaveInv, RecordRun
<1>3. depth_runs' = Append(depth_runs, i) /\ UNCHANGED <<derivatives, begun>>
  BY <1>1 DEF RecordRun
<1>4. depth_runs' \in Seq(Images)
      /\ \A j \in Images : Recorded(j)' <=> Recorded(j) \/ j = i
  BY <1>1, <1>3, Appended DEF Recorded
<1>5. DepthTypeOK'
  BY <1>2, <1>3, <1>4 DEF SaveInv, DepthTypeOK
<1>6. ASSUME NEW j \in Images PROVE SaveOK(j)'
  <2>1. SaveOK(j) /\ begun[j] \in Nat
    BY DEF SaveInv, DepthTypeOK
  <2>2. \A d \in Clients : /\ Touches(d, j)' => d # c /\ Touches(d, j)
                           /\ (AtDepth(d, "row") /\ depth[d].image = j)' =>
                                AtDepth(d, "row") /\ depth[d].image = j
    BY <1>2 DEF Touches, AtDepth
  <2>3. j = i => Touches(c, j) /\ AtDepth(c, "row") /\ depth[c].image = j
    BY <1>1 DEF Touches, AtDepth
  <2> QED
    BY <1>3, <1>4, <2>1, <2>2, <2>3 DEF SaveOK
<1> QED
  BY <1>5, <1>6 DEF SaveInv

\* A crash ends the calls of a process and leaves files and rows.
LEMMA CrashKeeps ==
  ASSUME SaveInv, NEW p \in Processes, CrashAll(p)
  PROVE  SaveInv'
<1>1. /\ depth' = [c \in Clients |-> IF ProcessOf[c] = p THEN Resting ELSE depth[c]]
      /\ UNCHANGED <<derivatives, depth_runs, begun>>
  BY DEF CrashAll
<1>2. Resting \in DepthCalls /\ Resting.step = "idle"
  BY DEF Resting, DepthCalls
<1>3. \A c \in Clients : depth'[c] = depth[c] \/ depth'[c].step = "idle"
  BY <1>1, <1>2
<1>4. DepthTypeOK'
  BY <1>1, <1>2 DEF SaveInv, DepthTypeOK
<1>5. ASSUME NEW i \in Images PROVE SaveOK(i)'
  <2>1. \A c \in Clients : /\ Touches(c, i)' => Touches(c, i)
                           /\ (AtDepth(c, "row") /\ depth[c].image = i)' =>
                                AtDepth(c, "row") /\ depth[c].image = i
    BY <1>3 DEF Touches, AtDepth
  <2>2. SaveOK(i) /\ (Recorded(i)' <=> Recorded(i))
    BY <1>1 DEF SaveInv, Recorded
  <2> QED
    BY <1>1, <2>1, <2>2 DEF SaveOK
<1> QED
  BY <1>4, <1>5 DEF SaveInv

LEMMA SaveStep ==
  ASSUME SaveInv, [DepthNext]_all_vars
  PROVE  SaveInv'
<1>0. ASSUME UNCHANGED <<derivatives, depth_runs, depth, begun>> PROVE SaveInv'
  BY <1>0 DEF SaveInv, DepthTypeOK, SaveOK, Recorded, Touches, AtDepth
<1>1. ASSUME NEW c \in Clients, RunDepth(c) PROVE SaveInv'
  <2>1. ASSUME DeriveNothing(c) \/ DepthError(c) PROVE SaveInv'
    BY <2>1, RestKeeps DEF DeriveNothing, DepthError
  <2> QED
    BY <1>1, <2>1, BeginKeeps, OpenKeeps, SaveKeeps, RecordKeeps DEF RunDepth
<1>2. ASSUME NEW c \in Clients, Elsewhere(c) \/ PackRuns(c) PROVE SaveInv'
  BY <1>0, <1>2 DEF Elsewhere, PackRuns, ReportRuns, ListRuns, ReadDerivative, EncryptAll,
                    PackDerivatives, LeaveVault, depth_vars
<1>3. CASE UNCHANGED all_vars
  BY <1>0, <1>3 DEF all_vars, depth_vars
<1> QED
  BY <1>1, <1>2, <1>3, CrashKeeps DEF DepthNext

-----------------------------------------------------------------------------
(* Listings and packages                                                    *)

\* Rows of runs stay, and a derivative once begun stays begun.
LEMMA RunsGrow ==
  ASSUME SaveInv, NEW c \in Clients, RunDepth(c)
  PROVE  /\ \A n \in DOMAIN depth_runs :
              n \in DOMAIN depth_runs' /\ depth_runs'[n] = depth_runs[n]
         /\ \A i \in Images : begun'[i] >= begun[i]
<1>1. \A i \in Images : begun[i] \in Nat
  BY DEF SaveInv, DepthTypeOK
<1>2. CASE OpenDerivative(c)
  BY <1>1, <1>2 DEF OpenDerivative, SaveInv, DepthTypeOK
<1>3. CASE RecordRun(c)
  <2>1. depth[c].image \in Images /\ depth_runs \in Seq(Images)
    BY <1>3 DEF RecordRun, AtDepth, SaveInv, DepthTypeOK
  <2>2. depth_runs' = Append(depth_runs, depth[c].image) /\ begun' = begun
    BY <1>3 DEF RecordRun
  <2> QED
    BY <1>1, <2>1, <2>2, Appended
<1>4. CASE depth_runs' = depth_runs /\ begun' = begun
  BY <1>1, <1>4
<1> QED
  BY <1>2, <1>3, <1>4 DEF RunDepth, BeginDepth, DeriveNothing, SaveDerivative, DepthError

\* So a file that was packed soundly remains so.
LEMMA KnownStays ==
  ASSUME SaveInv, NEW c \in Clients, RunDepth(c), NEW file, Known(file)
  PROVE  Known(file)'
<1>1. /\ file.run \in DOMAIN depth_runs' /\ depth_runs'[file.run] = depth_runs[file.run]
      /\ depth_runs[file.run] \in Images
  BY RunsGrow, ElementOfSeq DEF Known, SaveInv, DepthTypeOK
<1>2. begun'[depth_runs[file.run]] >= begun[depth_runs[file.run]]
      /\ begun[depth_runs[file.run]] \in Nat /\ begun'[depth_runs[file.run]] \in Nat
  <2>1. SaveInv'
    BY SaveStep DEF DepthNext
  <2> QED
    BY <1>1, <2>1, RunsGrow DEF SaveInv, DepthTypeOK
<1> QED
  BY <1>1, <1>2 DEF Known, Sound

LEMMA ListRunDepth ==
  ASSUME SaveInv, ListInv, NEW c \in Clients, RunDepth(c)
  PROVE  ListInv'
<1>1. UNCHANGED <<listing, packed, work>>
  BY DEF RunDepth, BeginDepth, DeriveNothing, OpenDerivative, SaveDerivative, RecordRun,
         DepthError, vars
<1>2. ASSUME NEW d \in Clients PROVE ListingOK(d)'
  <2>1. \A file \in listing[d].files : Known(file)'
    BY KnownStays DEF ListInv, ListingOK
  <2> QED
    BY <1>1, <2>1, RunsGrow DEF ListInv, ListingOK, At, Runs
<1>3. ASSUME NEW n \in DOMAIN packed PROVE PackedOK(n)'
  <2>1. \A file \in packed[n].files : Known(file)'
    BY KnownStays DEF ListInv, PackedOK
  <2> QED
    BY <1>1, <2>1 DEF ListInv, PackedOK, Runs
<1> QED
  BY <1>1, <1>2, <1>3 DEF ListInv

\* A command with something packed, or to pack, stays where it may have it.
Moved(d) ==
  \/ work'[d].step = work[d].step
  \/ work'[d].step \notin {"read"} \cup Packing
  \/ work[d].step \in Packing /\ work'[d].step \in Packing

\* A listing that is forgotten, or goes along with its command, stays right.
LEMMA ListingKept ==
  ASSUME UNCHANGED <<depth_runs, begun>>, NEW d \in Clients, ListingOK(d),
         listing'[d] = NoListing \/ (listing'[d] = listing[d] /\ Moved(d))
  PROVE  ListingOK(d)'
<1>1. CASE listing'[d] = NoListing
  BY <1>1 DEF ListingOK, NoListing
<1>2. CASE listing'[d] = listing[d] /\ Moved(d)
  <2>1. \A file : Known(file)' <=> Known(file)
    BY DEF Known, Sound
  <2>2. At(d, "read")' <=> work'[d].step = "read"
    BY DEF At
  <2>3. "read" \notin Packing
    BY DEF Packing
  <2> QED
    BY <1>2, <2>1, <2>2, <2>3 DEF ListingOK, Moved, At, Runs
<1> QED
  BY <1>1, <1>2

LEMMA PackedKept ==
  ASSUME UNCHANGED <<depth_runs, begun, packed>>, NEW n \in DOMAIN packed, PackedOK(n)
  PROVE  PackedOK(n)'
BY DEF PackedOK, Known, Sound, Runs

LEMMA ListKept ==
  ASSUME ListInv, UNCHANGED <<depth_runs, begun, packed>>,
         listing' \in [Clients -> Listings],
         \A d \in Clients :
           listing'[d] = NoListing \/ (listing'[d] = listing[d] /\ Moved(d))
  PROVE  ListInv'
<1>1. \A d \in Clients : ListingOK(d)'
  BY ListingKept DEF ListInv
<1>2. \A n \in DOMAIN packed : PackedOK(n)'
  BY PackedKept DEF ListInv
<1> QED
  BY <1>1, <1>2 DEF ListInv

\* A client whose command goes on leaves the others where they are.
LEMMA MovesOn ==
  ASSUME VaultTypeOK, NEW c \in Clients, NEW next, Continue(c, next),
         \/ next.step = work[c].step
         \/ next.step \notin {"read"} \cup Packing
         \/ work[c].step \in Packing /\ next.step \in Packing
  PROVE  \A d \in Clients : Moved(d)
<1>1. work'[c] = next /\ \A d \in Clients : d # c => work'[d] = work[d]
  BY ContinueMoves
<1> QED
  BY <1>1 DEF Moved

LEMMA ElsewhereMoves ==
  ASSUME VaultTypeOK, NEW c \in Clients, Elsewhere(c)
  PROVE  \A d \in Clients : Moved(d)
<1>0. work[c] \in Command
  BY DEF VaultTypeOK
<1>1. \A s : [work[c] EXCEPT !.step = s].step = s
  BY <1>0 DEF Command
<1>2. CASE Request(c)
  BY <1>2, MovesOn DEF Request, BeginUpload, BeginCreate, BeginVerify, Idle, Packing
<1>3. CASE Upload(c)
  <2>1. CASE AddEvidence(c)
    BY <2>1, MovesOn DEF AddEvidence, Idle, Packing
  <2>2. PICK s \in {"open", "write", "row"} : AddEvidence(c) \/ Goto(c, s)
    BY <1>3 DEF Upload, CheckImage, OpenImage, WriteImage
  <2> QED
    BY <1>1, <2>1, <2>2, MovesOn DEF Goto, Packing
<1>4. CASE Verify(c)
  <2>1. PICK v : Continue(c, [work[c] EXCEPT !.step = "verdict", !.verdict = v])
    BY <1>4 DEF Verify
  <2>2. [work[c] EXCEPT !.step = "verdict", !.verdict = v].step = "verdict"
    BY <1>0 DEF Command
  <2> QED
    BY <2>1, <2>2, MovesOn DEF Packing
<1>5. CASE RecordVerdict(c)
  BY <1>5, MovesOn DEF RecordVerdict, Idle, Packing
<1>6. CASE LookForKey(c) \/ InstallKey(c)
  <2>1. PICK s \in {"install", "write_key", "load"} : Goto(c, s)
    BY <1>6 DEF LookForKey, InstallKey
  <2>2. work[c].step \in Packing
    BY <1>6 DEF LookForKey, InstallKey, At, Packing
  <2> QED
    BY <1>1, <2>1, <2>2, MovesOn DEF Goto, Packing
<1>7. CASE WriteKey(c)
  <2>1. [work[c] EXCEPT !.step = "open_package", !.key = c].step = "open_package"
    BY <1>0 DEF Command
  <2> QED
    BY <1>7, <2>1, MovesOn DEF WriteKey, At, Packing
<1>8. CASE ReadFile(c)
  <2>1. PICK todo, files : Continue(c, [work[c] EXCEPT !.todo = todo, !.files = files])
    BY <1>8 DEF ReadFile
  <2>2. [work[c] EXCEPT !.todo = todo, !.files = files].step = work[c].step
    BY <1>0 DEF Command
  <2> QED
    BY <2>1, <2>2, MovesOn
<1>9. CASE WritePackage(c)
  BY <1>1, <1>9, MovesOn DEF WritePackage, Goto, Packing
<1> QED
  BY <1>2, <1>3, <1>4, <1>5, <1>6, <1>7, <1>8, <1>9 DEF Elsewhere, Check

LEMMA ListReport ==
  ASSUME VaultTypeOK, SaveInv, ListInv, NEW c \in Clients, ReportRuns(c)
  PROVE  ListInv'
<1>1. /\ listing' = [listing EXCEPT ![c].report = DOMAIN depth_runs]
      /\ UNCHANGED <<depth_runs, begun, packed>>
  BY DEF ReportRuns
<1>2. DOMAIN depth_runs \in SUBSET Nat /\ listing[c] \in Listings
  BY DEF SaveInv, DepthTypeOK, ListInv
<1>3. /\ listing' \in [Clients -> Listings]
      /\ listing'[c].report = DOMAIN depth_runs
      /\ listing'[c].todo = listing[c].todo /\ listing'[c].files = listing[c].files
      /\ \A d \in Clients : d # c => listing'[d] = listing[d]
  BY <1>1, <1>2 DEF ListInv, Listings
<1>4. work'[c].step = "rows" /\ \A d \in Clients : d # c => work'[d] = work[d]
  <2> DEFINE next == [work[c] EXCEPT !.step = "rows", !.report = evidence]
  <2>1. next.step = "rows"
    BY DEF VaultTypeOK, Command
  <2>2. Continue(c, next)
    BY DEF ReportRuns, ReadReport
  <2> HIDE DEF next
  <2> QED
    BY <2>1, <2>2, ContinueMoves
<1>5. ListingOK(c)'
  BY <1>1, <1>3, <1>4 DEF ListInv, ListingOK, At, Packing, Known, Sound
<1>6. \A d \in Clients : d # c => ListingOK(d)'
  BY <1>1, <1>3, <1>4, ListingKept DEF ListInv, Moved
<1>7. \A n \in DOMAIN packed : PackedOK(n)'
  BY <1>1, PackedKept DEF ListInv
<1> QED
  BY <1>1, <1>3, <1>5, <1>6, <1>7 DEF ListInv

\* The rows read for the files are at least those of the report.
LEMMA ListRows ==
  ASSUME VaultTypeOK, SaveInv, ListInv, NEW c \in Clients, ListRuns(c)
  PROVE  ListInv'
<1>1. /\ listing' = [listing EXCEPT ![c].todo = DOMAIN depth_runs]
      /\ UNCHANGED <<depth_runs, begun, packed>>
  BY DEF ListRuns
<1>2. DOMAIN depth_runs \in SUBSET Nat /\ listing[c] \in Listings
  BY DEF SaveInv, DepthTypeOK, ListInv
<1>3. /\ listing' \in [Clients -> Listings]
      /\ listing'[c].todo = DOMAIN depth_runs
      /\ listing'[c].report = listing[c].report /\ listing'[c].files = listing[c].files
      /\ \A d \in Clients : d # c => listing'[d] = listing[d]
  BY <1>1, <1>2 DEF ListInv, Listings
<1>4. work'[c].step = "read" /\ \A d \in Clients : d # c => work'[d] = work[d]
  <2> DEFINE next == [work[c] EXCEPT !.step = "read", !.todo = evidence]
  <2>1. next.step = "read"
    BY DEF VaultTypeOK, Command
  <2>2. Continue(c, next)
    BY DEF ListRuns, ReadRows
  <2> HIDE DEF next
  <2> QED
    BY <2>1, <2>2, ContinueMoves
<1>5. ListingOK(c)'
  BY <1>1, <1>3, <1>4 DEF ListInv, ListingOK, At, Packing, Known, Sound
<1>6. \A d \in Clients : d # c => ListingOK(d)'
  BY <1>1, <1>3, <1>4, ListingKept DEF ListInv, Moved
<1>7. \A n \in DOMAIN packed : PackedOK(n)'
  BY <1>1, PackedKept DEF ListInv
<1> QED
  BY <1>1, <1>3, <1>5, <1>6, <1>7 DEF ListInv

\* The file of a recorded run is there, and whole if no other was begun.
LEMMA RecordedSound ==
  ASSUME SaveInv, NEW n \in DOMAIN depth_runs
  PROVE  /\ derivatives[depth_runs[n]] \in Contents \ {"missing"}
         /\ derivatives[depth_runs[n]] = "whole" \/ begun[depth_runs[n]] > 1
<1>1. depth_runs[n] \in Images /\ Recorded(depth_runs[n])
  BY DEF SaveInv, DepthTypeOK, Recorded
<1>2. begun[depth_runs[n]] \in Nat /\ SaveOK(depth_runs[n])
      /\ derivatives[depth_runs[n]] \in Contents
  BY <1>1 DEF SaveInv, DepthTypeOK
<1> QED
  BY <1>1, <1>2 DEF SaveOK

LEMMA ListRead ==
  ASSUME VaultTypeOK, SaveInv, ListInv, NEW c \in Clients, ReadDerivative(c)
  PROVE  ListInv'
<1>1. PICK n \in listing[c].todo :
        listing' = [listing EXCEPT ![c].todo = @ \ {n},
          ![c].files = IF derivatives[depth_runs[n]] = "missing" THEN @
                       ELSE @ \cup {[run |-> n, content |-> derivatives[depth_runs[n]]]}]
  BY DEF ReadDerivative
<1> DEFINE file == [run |-> n, content |-> derivatives[depth_runs[n]]]
<1>2. UNCHANGED <<work, depth_runs, begun, packed>> /\ At(c, "read")
  BY DEF ReadDerivative, vars
<1>3. /\ listing[c] \in Listings /\ ListingOK(c)
      /\ n \in DOMAIN depth_runs /\ DOMAIN depth_runs \subseteq Nat
  BY DEF ListInv, ListingOK, SaveInv, DepthTypeOK
<1>4. file \in [run : Nat, content : Contents] /\ Known(file) /\ file.run = n
      /\ derivatives[depth_runs[n]] # "missing"
  BY <1>3, RecordedSound DEF Known, Sound
<1> HIDE DEF file
<1>5. /\ listing' \in [Clients -> Listings]
      /\ listing'[c].todo = listing[c].todo \ {n}
      /\ listing'[c].report = listing[c].report
      /\ listing'[c].files = listing[c].files \cup {file}
      /\ \A d \in Clients : d # c => listing'[d] = listing[d]
  <2>1. listing' = [listing EXCEPT ![c].todo = @ \ {n}, ![c].files = @ \cup {file}]
    BY <1>1, <1>4 DEF file
  <2> QED
    BY <1>3, <1>4, <2>1 DEF ListInv, Listings
<1>6. ListingOK(c)'
  <2>1. Runs(listing'[c].files) = Runs(listing[c].files) \cup {n}
    BY <1>4, <1>5 DEF Runs
  <2>2. "read" \notin Packing /\ work'[c].step = "read"
    BY <1>2 DEF Packing, At
  <2> QED
    BY <1>2, <1>3, <1>4, <1>5, <2>1, <2>2 DEF ListingOK, At, Known, Sound
<1>7. \A d \in Clients : d # c => ListingOK(d)'
  BY <1>2, <1>5, ListingKept DEF ListInv, Moved
<1>8. \A m \in DOMAIN packed : PackedOK(m)'
  BY <1>2, PackedKept DEF ListInv
<1> QED
  BY <1>2, <1>5, <1>6, <1>7, <1>8 DEF ListInv

LEMMA ListEncrypt ==
  ASSUME VaultTypeOK, ListInv, NEW c \in Clients, EncryptAll(c)
  PROVE  ListInv'
<1>1. /\ listing[c].todo = {} /\ At(c, "read") /\ Goto(c, "look")
      /\ UNCHANGED <<listing, depth_runs, begun, packed>>
  BY DEF EncryptAll, Encrypt, depth_vars
<1>2. work'[c].step = "look" /\ \A d \in Clients : d # c => work'[d] = work[d]
  BY <1>1, GotoMoves
<1>3. ListingOK(c)'
  BY <1>1, <1>2 DEF ListInv, ListingOK, At, Packing, Known, Sound, Runs
<1>4. \A d \in Clients : d # c => ListingOK(d)'
  BY <1>1, <1>2, ListingKept DEF ListInv, Moved
<1>5. \A n \in DOMAIN packed : PackedOK(n)'
  BY <1>1, PackedKept DEF ListInv
<1> QED
  BY <1>1, <1>3, <1>4, <1>5 DEF ListInv

LEMMA ListPack ==
  ASSUME VaultTypeOK, ListInv, NEW c \in Clients, PackDerivatives(c)
  PROVE  ListInv'
<1> DEFINE new == [report |-> listing[c].report, files |-> listing[c].files]
           Packages == [report : SUBSET Nat, files : SUBSET [run : Nat, content : Contents]]
<1>1. /\ packed' = Append(packed, new)
      /\ listing' = [listing EXCEPT ![c] = NoListing]
      /\ At(c, "open_package") /\ UNCHANGED <<depth_runs, begun>>
  BY DEF PackDerivatives, Forgotten, OpenPackage
<1>2. /\ new \in Packages /\ packed \in Seq(Packages)
      /\ new.report \subseteq Runs(new.files) /\ \A file \in new.files : Known(file)
  BY <1>1 DEF ListInv, ListingOK, Listings, At, Packing
<1>3. \A d \in Clients : listing'[d] = NoListing \/ (listing'[d] = listing[d] /\ Moved(d))
  <2>1. \A d \in Clients : d # c => listing'[d] = listing[d] /\ work'[d] = work[d]
    BY <1>1 DEF ListInv, PackDerivatives, OpenPackage, Continue, VaultTypeOK
  <2>2. listing'[c] = NoListing
    BY <1>1 DEF ListInv
  <2> QED
    BY <2>1, <2>2 DEF Moved
<1> HIDE DEF new, Packages
<1>4. /\ packed' \in Seq(Packages)
      /\ \A n \in DOMAIN packed' : packed'[n] = new \/ (n \in DOMAIN packed /\ packed'[n] = packed[n])
  <2>1. \A n \in DOMAIN packed' : n \in DOMAIN packed \/ n = Len(packed) + 1
    BY <1>1, <1>2, Appended
  <2> QED
    BY <1>1, <1>2, <2>1, Appended
<1>5. \A n \in DOMAIN packed' : PackedOK(n)'
  BY <1>1, <1>2, <1>4 DEF ListInv, PackedOK, Known, Sound, Runs
<1>6. listing' \in [Clients -> Listings]
  BY <1>1 DEF ListInv, Listings, NoListing
<1>7. \A d \in Clients : ListingOK(d)'
  BY <1>1, <1>3, ListingKept DEF ListInv
<1> QED
  BY <1>4, <1>5, <1>6, <1>7 DEF ListInv, Packages

LEMMA ListLeave ==
  ASSUME VaultTypeOK, ListInv, NEW c \in Clients, LeaveVault(c)
  PROVE  ListInv'
<1>1. UNCHANGED <<depth_runs, begun, packed>>
  BY DEF LeaveVault
<1>2. CASE work'[c] = Idle
  <2>1. listing' = [listing EXCEPT ![c] = NoListing]
    BY <1>2 DEF LeaveVault, Forgotten
  <2>2. \A d \in Clients : d # c => work'[d] = work[d]
    BY ContinueMoves DEF LeaveVault, LoadKey, RefuseInput, RecordExport, Error, Finish
  <2>3. listing' \in [Clients -> Listings]
    BY <2>1 DEF ListInv, Listings, NoListing
  <2> QED
    BY <1>1, <2>1, <2>2, <2>3, ListKept DEF ListInv, Moved
<1>3. CASE work'[c] # Idle
  <2>1. At(c, "load") /\ listing' = listing
        /\ Continue(c, [work[c] EXCEPT !.step = "open_package", !.key = key_file])
    BY <1>3, ContinueMoves
    DEF LeaveVault, LoadKey, RefuseInput, RecordExport, Error, Finish
  <2>2. [work[c] EXCEPT !.step = "open_package", !.key = key_file].step = "open_package"
    BY DEF VaultTypeOK, Command
  <2>3. \A d \in Clients : Moved(d)
    BY <2>1, <2>2, MovesOn DEF At, Packing
  <2> QED
    BY <1>1, <2>1, <2>3, ListKept DEF ListInv
<1> QED
  BY <1>2, <1>3

LEMMA ListCrash ==
  ASSUME ListInv, NEW p \in Processes, CrashAll(p)
  PROVE  ListInv'
<1>1. /\ UNCHANGED <<depth_runs, begun, packed>>
      /\ listing' = [c \in Clients |-> IF ProcessOf[c] = p THEN NoListing ELSE listing[c]]
      /\ work' = [c \in Clients |-> IF ProcessOf[c] = p THEN Idle ELSE work[c]]
  BY DEF CrashAll, Crash
<1>2. listing' \in [Clients -> Listings]
  BY <1>1 DEF ListInv, Listings, NoListing
<1> QED
  BY <1>1, <1>2, ListKept DEF Moved

LEMMA ListStep ==
  ASSUME VaultTypeOK, DepthInv, [DepthNext]_all_vars
  PROVE  ListInv'
<1>0. VaultTypeOK /\ SaveInv /\ ListInv
  BY DEF DepthInv
<1>1. ASSUME NEW c \in Clients, Elsewhere(c) PROVE ListInv'
  <2>1. UNCHANGED <<depth_runs, begun, packed, listing>>
    BY <1>1 DEF Elsewhere, depth_vars
  <2> QED
    BY <1>0, <1>1, <2>1, ElsewhereMoves, ListKept DEF ListInv
<1>2. ASSUME NEW c \in Clients, PackRuns(c) PROVE ListInv'
  BY <1>0, <1>2, ListReport, ListRows, ListRead, ListEncrypt, ListPack, ListLeave
  DEF PackRuns
<1>3. CASE UNCHANGED all_vars
  BY <1>0, <1>3, ListKept DEF all_vars, vars, depth_vars, ListInv, Moved
<1> QED
  BY <1>0, <1>1, <1>2, <1>3, ListRunDepth, ListCrash DEF DepthNext

LEMMA DepthInitially == DepthInit => DepthInv
<1> SUFFICES ASSUME DepthInit PROVE DepthInv
  OBVIOUS
<1>1. SaveInv
  BY DEF DepthInit, SaveInv, DepthTypeOK, SaveOK, Recorded, Touches, AtDepth, Resting,
         DepthCalls, Contents
<1>2. ListInv
  BY DEF DepthInit, Init, Idle, ListInv, ListingOK, NoListing, Listings, At, Packing
<1> QED
  BY <1>1, <1>2 DEF DepthInv

\* A package holds a sound derivative of every run its report lists
\* (run_depth saves the file before the row, create_evidence_vault reads rows
\* before files), whichever threads and processes run meanwhile.
THEOREM DerivativesAlwaysPacked == DepthSpec => []DerivativesPacked
<1>1. DepthSpec => []VaultTypeOK
  BY DepthImplementsVault, VaultTypeCorrect, PTL
<1>2. VaultTypeOK /\ DepthInv /\ [DepthNext]_all_vars => DepthInv'
  BY SaveStep, ListStep DEF DepthInv
<1>3. DepthInv => DerivativesPacked
  BY DEF DepthInv, ListInv, PackedOK, DerivativesPacked, Known
<1> QED
  BY <1>1, <1>2, <1>3, DepthInitially, PTL DEF DepthSpec
=============================================================================
