----------------------------- MODULE EvidenceVault -----------------------------
(***************************************************************************)
(* EvidenceVault/evidence_vault.py with the commands of repository.py that *)
(* use it: add_local_image writes an image file and then its row,          *)
(* create_evidence_vault packs a case's report and image files, signs the  *)
(* package with the installation's key, writes it and then its row, and    *)
(* verify_evidence_vault checks a row's package against the key.           *)
(*                                                                         *)
(* Files and rows are separate: nothing makes a file and the row that      *)
(* names it appear together, and a fault between the two leaves one        *)
(* without the other.  Several processes (the server, SIF_EvidenceVault.py *)
(* on the command line) share the data directory; the vault lock is a      *)
(* threading.Lock, one per process.                                        *)
(***************************************************************************)
EXTENDS Integers, Sequences, FiniteSets

CONSTANTS
  Clients,      \* request threads and command-line runs
  Processes,
  ProcessOf,    \* ProcessOf[c]: the process client c runs in
  Nobody,       \* the vault lock is free
  Images,       \* image contents; the file name is the hash of the content
  NoImage,
  NoKey,        \* there is no key file
  EmptyKey,     \* the key file is created and has nothing in it yet
  MaxPackages,  \* bound: no vault is begun once there are this many packages
  MaxFaults     \* bound: errors and crashes

ASSUME VaultAssumption ==
  /\ ProcessOf \in [Clients -> Processes]
  /\ Nobody \notin Clients
  /\ NoImage \notin Images
  /\ {NoKey, EmptyKey} \cap Clients = {} /\ NoKey # EmptyKey
  /\ MaxPackages \in Nat /\ MaxFaults \in Nat

VARIABLES
  image_files,    \* the files under evidence/, by content
  evidence,       \* images with a row in evidence
  key_file,       \* sithassembly_ed25519_private.pem
  packages,       \* files under vaults/, in the order they were created
  vault_exports,  \* rows of vault_exports
  vault_lock,     \* _vault_lock of each process
  work,           \* the command each client is executing
  faults

vars == <<image_files, evidence, key_file, packages, vault_exports, vault_lock,
          work, faults>>

\* A key is named by the client that generated it.
Keys == Clients

Package == [written : BOOLEAN, key : Keys \cup {NoKey},
            report : SUBSET Images, files : SUBSET Images]

Export == [package : Nat, state : {"created", "verified", "invalid"}]

UploadSteps == {"check", "open", "write", "row"}

CreateSteps == {"report", "rows", "read", "look", "install", "write_key",
                "load", "open_package", "write_package", "record"}

VerifySteps == {"verify", "verdict"}

(***************************************************************************)
(* A command: the image it uploads; the images of the report and of the    *)
(* rows it has read, those still to be packed and those packed; its key;   *)
(* the package it writes or the row it verifies; the verdict.              *)
(***************************************************************************)
Command == [step : {"idle"} \cup UploadSteps \cup CreateSteps \cup VerifySteps,
            image : Images \cup {NoImage}, report : SUBSET Images,
            todo : SUBSET Images, files : SUBSET Images,
            key : Keys \cup {NoKey}, at : Nat,
            verdict : {"created", "verified", "invalid"}]

Idle == [step |-> "idle", image |-> NoImage, report |-> {}, todo |-> {},
         files |-> {}, key |-> NoKey, at |-> 0, verdict |-> "created"]

Init ==
  /\ image_files = [i \in Images |-> "missing"]
  /\ evidence = {}
  /\ key_file = NoKey
  /\ packages = << >>
  /\ vault_exports = << >>
  /\ vault_lock = [p \in Processes |-> Nobody]
  /\ work = [c \in Clients |-> Idle]
  /\ faults = 0

At(c, step) == work[c].step = step

Continue(c, next) == work' = [work EXCEPT ![c] = next]

Goto(c, step) == Continue(c, [work[c] EXCEPT !.step = step])

\* The command ends; create_evidence_vault releases the lock in a finally.
Release(c) ==
  vault_lock' = [p \in Processes |->
                   IF vault_lock[p] = c THEN Nobody ELSE vault_lock[p]]

Finish(c) == Continue(c, Idle) /\ Release(c)

images == <<image_files, evidence>>

vaults == <<packages, vault_exports>>

-----------------------------------------------------------------------------
(* add_local_image *)

\* Images stands for the contents that _image_suffix and _image_dimensions
\* accept; the others are refused before anything is read or written.
BeginUpload(c, i) ==
  /\ work[c] = Idle
  /\ Continue(c, [Idle EXCEPT !.step = "check", !.image = i])
  /\ UNCHANGED <<images, key_file, vaults, vault_lock, faults>>

CheckImage(c) ==
  /\ At(c, "check")
  /\ Goto(c, IF image_files[work[c].image] = "missing" THEN "open" ELSE "row")
  /\ UNCHANGED <<images, key_file, vaults, vault_lock, faults>>

\* write_bytes truncates the file, whoever has created it since the check ...
OpenImage(c) ==
  /\ At(c, "open")
  /\ image_files' = [image_files EXCEPT ![work[c].image] = "partial"]
  /\ Goto(c, "write")
  /\ UNCHANGED <<evidence, key_file, vaults, vault_lock, faults>>

\* Mutant of WriteImage: the row is inserted before the content is written.
WriteImageLater(c) ==
  /\ At(c, "write")
  /\ evidence' = evidence \cup {work[c].image}
  /\ Continue(c, Idle)
  /\ UNCHANGED <<image_files, key_file, vaults, vault_lock, faults>>

\* ... and then writes it.
WriteImage(c) ==
  /\ At(c, "write")
  /\ image_files' = [image_files EXCEPT ![work[c].image] = "whole"]
  /\ Goto(c, "row")
  /\ UNCHANGED <<evidence, key_file, vaults, vault_lock, faults>>

AddEvidence(c) ==
  /\ At(c, "row")
  /\ evidence' = evidence \cup {work[c].image}
  /\ Continue(c, Idle)
  /\ UNCHANGED <<image_files, key_file, vaults, vault_lock, faults>>

-----------------------------------------------------------------------------
(* create_evidence_vault *)

\* The lock is taken without waiting; a request that finds it taken is refused.
BeginCreate(c) ==
  /\ work[c] = Idle
  /\ Len(packages) < MaxPackages
  /\ vault_lock[ProcessOf[c]] = Nobody
  /\ vault_lock' = [vault_lock EXCEPT ![ProcessOf[c]] = c]
  /\ Continue(c, [Idle EXCEPT !.step = "report"])
  /\ UNCHANGED <<images, key_file, vaults, faults>>

\* export_case reads the evidence rows for the report ...
ReadReport(c) ==
  /\ At(c, "report")
  /\ Continue(c, [work[c] EXCEPT !.step = "rows", !.report = evidence])
  /\ UNCHANGED <<images, key_file, vaults, vault_lock, faults>>

\* ... and the rows are read once more to find the files.
ReadRows(c) ==
  /\ At(c, "rows")
  /\ Continue(c, [work[c] EXCEPT !.step = "read", !.todo = evidence])
  /\ UNCHANGED <<images, key_file, vaults, vault_lock, faults>>

\* Mutant of ReadFile: a file that is being written is passed over.
ReadWholeFile(c) ==
  /\ At(c, "read")
  /\ \E i \in work[c].todo :
       Continue(c, [work[c] EXCEPT !.todo = @ \ {i},
                      !.files = IF image_files[i] = "whole" THEN @ \cup {i}
                                ELSE @])
  /\ UNCHANGED <<images, key_file, vaults, vault_lock, faults>>

\* A file that exists is packed as it is; one that does not is passed over.
ReadFile(c) ==
  /\ At(c, "read")
  /\ \E i \in work[c].todo :
       Continue(c, [work[c] EXCEPT !.todo = @ \ {i},
                      !.files = IF image_files[i] = "missing" THEN @
                                ELSE @ \cup {i}])
  /\ UNCHANGED <<images, key_file, vaults, vault_lock, faults>>

\* The input is over a limit, or a file changes while it is read.
RefuseInput(c) ==
  /\ At(c, "read")
  /\ Finish(c)
  /\ UNCHANGED <<images, key_file, vaults, faults>>

Encrypt(c) ==
  /\ At(c, "read") /\ work[c].todo = {}
  /\ Goto(c, "look")
  /\ UNCHANGED <<images, key_file, vaults, vault_lock, faults>>

\* _load_or_create_signing_key: load the key if its file exists.
LookForKey(c) ==
  /\ At(c, "look")
  /\ Goto(c, IF key_file = NoKey THEN "install" ELSE "load")
  /\ UNCHANGED <<images, key_file, vaults, vault_lock, faults>>

\* Mutant of InstallKey: the key file is opened for writing, not O_EXCL.
InstallKeyOver(c) ==
  /\ At(c, "install")
  /\ key_file' = EmptyKey
  /\ Goto(c, "write_key")
  /\ UNCHANGED <<images, vaults, vault_lock, faults>>

\* Mutant of InstallKey: who loses the race signs with the key it generated.
InstallOrKeepKey(c) ==
  /\ At(c, "install")
  /\ \/ key_file = NoKey /\ key_file' = EmptyKey /\ Goto(c, "write_key")
     \/ /\ key_file # NoKey /\ UNCHANGED key_file
        /\ Continue(c, [work[c] EXCEPT !.step = "open_package", !.key = c])
  /\ UNCHANGED <<images, vaults, vault_lock, faults>>

\* O_CREAT | O_EXCL: the first to get here creates the file, the others load it.
InstallKey(c) ==
  /\ At(c, "install")
  /\ \/ key_file = NoKey /\ key_file' = EmptyKey /\ Goto(c, "write_key")
     \/ key_file # NoKey /\ UNCHANGED key_file /\ Goto(c, "load")
  /\ UNCHANGED <<images, vaults, vault_lock, faults>>

WriteKey(c) ==
  /\ At(c, "write_key")
  /\ key_file' = c
  /\ Continue(c, [work[c] EXCEPT !.step = "open_package", !.key = c])
  /\ UNCHANGED <<images, vaults, vault_lock, faults>>

\* Mutant of LoadKey: an empty key file is not noticed.
LoadKeyUnchecked(c) ==
  /\ At(c, "load")
  /\ Continue(c, [work[c] EXCEPT !.step = "open_package", !.key = key_file])
  /\ UNCHANGED <<images, key_file, vaults, vault_lock, faults>>

LoadKey(c) ==
  /\ At(c, "load")
  /\ \/ /\ key_file # EmptyKey
        /\ Continue(c, [work[c] EXCEPT !.step = "open_package", !.key = key_file])
        /\ UNCHANGED vault_lock
     \/ key_file = EmptyKey /\ Finish(c)      \* "... signing key is invalid"
  /\ UNCHANGED <<images, key_file, vaults, faults>>

OpenPackage(c) ==
  /\ At(c, "open_package")
  /\ packages' = Append(packages,
       [written |-> FALSE, key |-> work[c].key, report |-> work[c].report,
        files |-> work[c].files])
  /\ Continue(c, [work[c] EXCEPT !.step = "write_package",
                                 !.at = Len(packages) + 1])
  /\ UNCHANGED <<images, key_file, vault_exports, vault_lock, faults>>

WritePackage(c) ==
  /\ At(c, "write_package")
  /\ packages' = [packages EXCEPT ![work[c].at].written = TRUE]
  /\ Goto(c, "record")
  /\ UNCHANGED <<images, key_file, vault_exports, vault_lock, faults>>

RecordExport(c) ==
  /\ At(c, "record")
  /\ vault_exports' = Append(vault_exports,
                             [package |-> work[c].at, state |-> "created"])
  /\ Finish(c)
  /\ UNCHANGED <<images, key_file, packages, faults>>

-----------------------------------------------------------------------------
(* verify_evidence_vault *)

BeginVerify(c, row) ==
  /\ work[c] = Idle
  /\ Continue(c, [Idle EXCEPT !.step = "verify", !.at = row])
  /\ UNCHANGED <<images, key_file, vaults, vault_lock, faults>>

\* The package parses, its hash is that of its row, and its signature is by
\* the key of this installation.
Valid(p) == p.written /\ p.key = key_file

Verify(c) ==
  /\ At(c, "verify")
  /\ Continue(c, [work[c] EXCEPT !.step = "verdict",
       !.verdict = IF Valid(packages[vault_exports[work[c].at].package])
                   THEN "verified" ELSE "invalid"])
  /\ UNCHANGED <<images, key_file, vaults, vault_lock, faults>>

RecordVerdict(c) ==
  /\ At(c, "verdict")
  /\ vault_exports' = [vault_exports EXCEPT ![work[c].at].state = work[c].verdict]
  /\ Continue(c, Idle)
  /\ UNCHANGED <<images, key_file, packages, vault_lock, faults>>

-----------------------------------------------------------------------------
(* Faults *)

Fault == faults < MaxFaults /\ faults' = faults + 1

\* Mutant of Error: an error leaves the vault lock taken.
ErrorKeepsLock(c) ==
  /\ Fault
  /\ work[c] # Idle
  /\ Continue(c, Idle)
  /\ UNCHANGED <<images, key_file, vaults, vault_lock>>

\* An operating system or database error ends a command: files stay as they
\* are, the transaction of a row rolls back.
Error(c) ==
  /\ Fault
  /\ work[c] # Idle
  /\ Finish(c)
  /\ UNCHANGED <<images, key_file, vaults>>

Crash(p) ==
  /\ Fault
  /\ \E c \in Clients : ProcessOf[c] = p /\ work[c] # Idle
  /\ work' = [c \in Clients |-> IF ProcessOf[c] = p THEN Idle ELSE work[c]]
  /\ vault_lock' = [vault_lock EXCEPT ![p] = Nobody]
  /\ UNCHANGED <<images, key_file, vaults>>

-----------------------------------------------------------------------------

Upload(c) ==
  CheckImage(c) \/ OpenImage(c) \/ WriteImage(c) \/ AddEvidence(c)

Create(c) ==
  \/ ReadReport(c) \/ ReadRows(c) \/ ReadFile(c) \/ RefuseInput(c)
  \/ Encrypt(c)
  \/ LookForKey(c) \/ InstallKey(c) \/ WriteKey(c) \/ LoadKey(c)
  \/ OpenPackage(c) \/ WritePackage(c) \/ RecordExport(c)

Check(c) == Verify(c) \/ RecordVerdict(c)

Request(c) ==
  \/ \E i \in Images : BeginUpload(c, i)
  \/ BeginCreate(c)
  \/ \E row \in DOMAIN vault_exports : BeginVerify(c, row)

Next ==
  \/ \E c \in Clients : Request(c) \/ Upload(c) \/ Create(c) \/ Check(c) \/ Error(c)
  \/ \E p \in Processes : Crash(p)

Spec == Init /\ [][Next]_vars

-----------------------------------------------------------------------------
(* Properties *)

\* Every variable keeps its type; an upload names its image.
VaultTypeOK ==
  /\ image_files \in [Images -> {"missing", "partial", "whole"}]
  /\ evidence \subseteq Images
  /\ key_file \in Keys \cup {NoKey, EmptyKey}
  /\ packages \in Seq(Package)
  /\ vault_exports \in Seq(Export)
  /\ vault_lock \in [Processes -> Clients \cup {Nobody}]
  /\ work \in [Clients -> Command]
  /\ \A c \in Clients : work[c].step \in UploadSteps => work[c].image \in Images
  /\ faults \in Nat

(***************************************************************************)
(* Every export on record can be verified: its package is on disk, whole,  *)
(* and signed with the key this installation has now, although several     *)
(* processes may race to create that key and any of them may die between   *)
(* creating, writing and recording a file.  So no verification ever marks  *)
(* an export invalid.                                                      *)
(***************************************************************************)
ExportsVerifiable ==
  \A row \in DOMAIN vault_exports :
    LET export == vault_exports[row]
    IN  /\ export.package \in DOMAIN packages
        /\ Valid(packages[export.package])
        /\ export.state # "invalid"

(***************************************************************************)
(* "Vault verification trusts this installation key; replacing or losing   *)
(* it changes or removes that trust anchor" (SECURITY.md): the program     *)
(* itself never replaces a key it has written, nor empties it.             *)
(***************************************************************************)
KeyNeverReplaced == [][(key_file \in Keys) => (key_file' = key_file)]_vars

(***************************************************************************)
(* A package is complete: it holds the file of every image its report      *)
(* lists, whatever was uploaded between the reading of the report, of the  *)
(* rows and of the files.                                                  *)
(***************************************************************************)
PackagesCoverReport ==
  \A n \in DOMAIN packages : packages[n].report \subseteq packages[n].files

(***************************************************************************)
(* "... evidence-vault creation [is] serialized per server process"        *)
(* (docs/RUNTIME.md): a process's lock is held exactly by its one client   *)
(* that is creating a vault, and it is free again after any error.         *)
(***************************************************************************)
SerializedPerProcess ==
  \A c \in Clients :
    vault_lock[ProcessOf[c]] = c <=> work[c].step \in CreateSteps

(***************************************************************************)
(* A file that has been created and not yet written has its writer at      *)
(* work: only a fault leaves an empty key, which blocks every later vault, *)
(* or a torn image, which later uploads take for the image.                *)
(***************************************************************************)
Writing(i) == \E c \in Clients : At(c, "write") /\ work[c].image = i

HalfWrittenNeedsFault ==
  faults = 0 =>
    /\ key_file = EmptyKey => \E c \in Clients : At(c, "write_key")
    /\ \A i \in Images : image_files[i] = "partial" => Writing(i)
    /\ \A i \in evidence : image_files[i] # "missing"
=============================================================================
