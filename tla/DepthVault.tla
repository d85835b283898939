------------------------------ MODULE DepthVault ------------------------------
(***************************************************************************)
(* Depth derivatives beside the vaults that pack them: run_depth           *)
(* (src/src/repository.py, GlyphWatch/depth_engine.py) saves the           *)
(* derivative of an image at a path fixed for that image and then inserts  *)
(* its depth_runs row; create_evidence_vault reads the rows of completed   *)
(* runs with those of the images and packs the derivatives after the       *)
(* images.  Each step is a step of EvidenceVault or leaves its variables   *)
(* alone.                                                                  *)
(***************************************************************************)
EXTENDS EvidenceVault

CONSTANTS
  Server,    \* the process that serves requests; the others are command-line runs
  MaxRuns    \* bound: derivatives of each image

ASSUME DepthAssumption == Server \in Processes /\ MaxRuns \in Nat

VARIABLES
  derivatives,   \* the files under derivatives/, by image
  depth_runs,    \* rows of depth_runs in state completed: the image of each
  depth,         \* the run_depth call of each client
  begun,         \* derivatives begun for each image
  listing,       \* derivatives in a client's vault command: [report, todo, files]
  packed,        \* the derivatives in each package: [report, files]
  depth_faults   \* faults in run_depth

depth_vars == <<derivatives, depth_runs, depth, begun, listing, packed, depth_faults>>
all_vars == <<vars, depth_vars>>

Contents == {"missing", "partial", "whole"}
Resting == [step |-> "idle", image |-> NoImage]
NoListing == [report |-> {}, todo |-> {}, files |-> {}]

DepthInit ==
  /\ Init
  /\ derivatives = [i \in Images |-> "missing"]
  /\ depth_runs = << >>
  /\ depth = [c \in Clients |-> Resting]
  /\ begun = [i \in Images |-> 0]
  /\ listing = [c \in Clients |-> NoListing]
  /\ packed = << >>
  /\ depth_faults = 0

-----------------------------------------------------------------------------
(* run_depth *)

Turn(c, step) == depth' = [depth EXCEPT ![c].step = step]
Rest(c) == depth' = [depth EXCEPT ![c] = Resting]
AtDepth(c, step) == depth[c].step = step

\* _depth_lock is held from here until the derivative is saved.
Inferring(c) == depth[c].step \in {"derive", "save"}

\* The image has a row and a file, and the lock is free.
BeginDepth(c, i) ==
  /\ ProcessOf[c] = Server /\ work[c] = Idle /\ depth[c] = Resting
  /\ i \in evidence /\ image_files[i] # "missing"
  /\ begun[i] < MaxRuns
  /\ \A d \in Clients : ~Inferring(d)
  /\ depth' = [depth EXCEPT ![c] = [step |-> "derive", image |-> i]]
  /\ UNCHANGED <<vars, derivatives, depth_runs, begun, listing, packed, depth_faults>>

\* The model is not installed, or does not take the image: no derivative, and
\* no row in state completed.
DeriveNothing(c) ==
  /\ AtDepth(c, "derive")
  /\ Rest(c)
  /\ UNCHANGED <<vars, derivatives, depth_runs, begun, listing, packed, depth_faults>>

\* Image.save truncates the file of an earlier run of the same image ...
OpenDerivative(c) ==
  /\ AtDepth(c, "derive")
  /\ derivatives' = [derivatives EXCEPT ![depth[c].image] = "partial"]
  /\ begun' = [begun EXCEPT ![depth[c].image] = @ + 1]
  /\ Turn(c, "save")
  /\ UNCHANGED <<vars, depth_runs, listing, packed, depth_faults>>

\* Mutant of SaveDerivative: the run is recorded while its file is written.
RecordEarly(c) ==
  /\ AtDepth(c, "save")
  /\ depth_runs' = Append(depth_runs, depth[c].image)
  /\ Rest(c)
  /\ UNCHANGED <<vars, derivatives, begun, listing, packed, depth_faults>>

\* ... and writes it; the file is hashed and the lock released.
SaveDerivative(c) ==
  /\ AtDepth(c, "save")
  /\ derivatives' = [derivatives EXCEPT ![depth[c].image] = "whole"]
  /\ Turn(c, "row")
  /\ UNCHANGED <<vars, depth_runs, begun, listing, packed, depth_faults>>

RecordRun(c) ==
  /\ AtDepth(c, "row")
  /\ depth_runs' = Append(depth_runs, depth[c].image)
  /\ Rest(c)
  /\ UNCHANGED <<vars, derivatives, begun, listing, packed, depth_faults>>

\* MaxFaults bounds the faults of all commands.
MoreFaults == faults + depth_faults < MaxFaults

\* An error in the engine, the file system or the database.
DepthError(c) ==
  /\ depth[c] # Resting
  /\ MoreFaults /\ depth_faults' = depth_faults + 1
  /\ Rest(c)
  /\ UNCHANGED <<vars, derivatives, depth_runs, begun, listing, packed>>

-----------------------------------------------------------------------------
(* create_evidence_vault: what is read and packed of the runs *)

\* The command line creates and verifies vaults and does nothing else.
MayBegin(c) == ProcessOf[c] = Server \/ work'[c].step \notin UploadSteps

\* The steps of EvidenceVault that have nothing to do with derivatives.
Elsewhere(c) ==
  /\ depth[c] = Resting
  /\ \/ Request(c) /\ MayBegin(c)
     \/ Upload(c) \/ Check(c) \/ LookForKey(c) \/ InstallKey(c) \/ WriteKey(c)
     \/ ReadFile(c) \/ WritePackage(c)
  /\ UNCHANGED depth_vars

Forgotten(c) == listing' = [listing EXCEPT ![c] = NoListing]

\* The report lists the runs that are recorded ...
ReportRuns(c) ==
  /\ ReadReport(c)
  /\ listing' = [listing EXCEPT ![c].report = DOMAIN depth_runs]
  /\ UNCHANGED <<derivatives, depth_runs, depth, begun, packed, depth_faults>>

\* ... and their rows are read again, with those of the images.
ListRuns(c) ==
  /\ ReadRows(c)
  /\ listing' = [listing EXCEPT ![c].todo = DOMAIN depth_runs]
  /\ UNCHANGED <<derivatives, depth_runs, depth, begun, packed, depth_faults>>

\* The file of a run is packed as it is, under a name of its own for each run.
ReadDerivative(c) ==
  /\ At(c, "read") /\ work[c].todo = {}
  /\ \E n \in listing[c].todo :
       LET content == derivatives[depth_runs[n]]
       IN  listing' = [listing EXCEPT ![c].todo = @ \ {n},
             ![c].files = IF content = "missing" THEN @
                          ELSE @ \cup {[run |-> n, content |-> content]}]
  /\ UNCHANGED <<vars, derivatives, depth_runs, depth, begun, packed, depth_faults>>

EncryptAll(c) ==
  /\ listing[c].todo = {}
  /\ Encrypt(c)
  /\ UNCHANGED depth_vars

PackDerivatives(c) ==
  /\ OpenPackage(c)
  /\ packed' = Append(packed, [report |-> listing[c].report, files |-> listing[c].files])
  /\ Forgotten(c)
  /\ UNCHANGED <<derivatives, depth_runs, depth, begun, depth_faults>>

\* The command may end here.
LeaveVault(c) ==
  /\ LoadKey(c) \/ RefuseInput(c) \/ RecordExport(c) \/ (MoreFaults /\ Error(c))
  /\ IF work'[c] = Idle THEN Forgotten(c) ELSE UNCHANGED listing
  /\ UNCHANGED <<derivatives, depth_runs, depth, begun, packed, depth_faults>>

\* The process dies with the inference it was making; the files stay.
CrashAll(p) ==
  /\ MoreFaults /\ Crash(p)
  /\ depth' = [c \in Clients |-> IF ProcessOf[c] = p THEN Resting ELSE depth[c]]
  /\ listing' = [c \in Clients |-> IF ProcessOf[c] = p THEN NoListing ELSE listing[c]]
  /\ UNCHANGED <<derivatives, depth_runs, begun, packed, depth_faults>>

RunDepth(c) ==
  \/ \E i \in Images : BeginDepth(c, i)
  \/ DeriveNothing(c) \/ OpenDerivative(c) \/ SaveDerivative(c) \/ RecordRun(c)
  \/ DepthError(c)

PackRuns(c) ==
  \/ ReportRuns(c) \/ ListRuns(c) \/ ReadDerivative(c) \/ EncryptAll(c)
  \/ PackDerivatives(c) \/ LeaveVault(c)

DepthNext ==
  \/ \E c \in Clients : RunDepth(c) \/ Elsewhere(c) \/ PackRuns(c)
  \/ \E p \in Processes : CrashAll(p)

DepthSpec == DepthInit /\ [][DepthNext]_all_vars

-----------------------------------------------------------------------------
(***************************************************************************)
(* Derivatives are "included in encrypted evidence vaults together with    *)
(* [their] run record" (docs/MODEL_INTEGRATIONS.md): a package holds the   *)
(* file of every run its report lists, although runs and packages are made *)
(* by different threads or processes.  The file is whole, whatever was cut *)
(* off by a fault, unless the image was derived once more: the second      *)
(* derivative is written over the one the first run's row names.           *)
(***************************************************************************)
Runs(files) == {file.run : file \in files}

Sound(file) == file.content = "whole" \/ begun[depth_runs[file.run]] > 1

DerivativesPacked ==
  \A n \in DOMAIN packed :
    /\ packed[n].report \subseteq Runs(packed[n].files)
    /\ \A file \in packed[n].files : Sound(file)
=============================================================================
