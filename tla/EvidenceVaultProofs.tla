-------------------------- MODULE EvidenceVaultProofs --------------------------
(***************************************************************************)
(* Theorems about EvidenceVault, for any number of processes, clients,     *)
(* images, vaults and faults.  Exports stay verifiable because the key     *)
(* file is written once: exactly one client ever creates it, and whoever   *)
(* signs a package holds the key that is in the file (KeyInv).             *)
(***************************************************************************)
EXTENDS EvidenceVault, TLAPS

\* The steps at which a command holds the key it signs with.
Signing == {"open_package", "write_package", "record"}

\* One client creates the key file, and every key in use is the one in it.
KeyInv ==
  /\ \A c, d \in Clients : At(c, "write_key") /\ At(d, "write_key") => c = d
  /\ \A c \in Clients :
       /\ At(c, "write_key") => key_file = EmptyKey
       /\ At(c, "load") => key_file # NoKey
       /\ work[c].step \in Signing =>
            key_file \in Keys /\ work[c].key = key_file
  /\ \A n \in DOMAIN packages : key_file \in Keys /\ packages[n].key = key_file

\* Rows are recorded, and verified, for packages that are written.
RowInv ==
  /\ \A c \in Clients :
       /\ work[c].step \in {"write_package", "record"} =>
            work[c].at \in DOMAIN packages
       /\ At(c, "record") => packages[work[c].at].written
       /\ work[c].step \in VerifySteps => work[c].at \in DOMAIN vault_exports
       /\ At(c, "verdict") => work[c].verdict = "verified"
  /\ \A row \in DOMAIN vault_exports :
       /\ vault_exports[row].package \in DOMAIN packages
       /\ packages[vault_exports[row].package].written
       /\ vault_exports[row].state # "invalid"

VaultInv == VaultTypeOK /\ KeyInv /\ RowInv

\* The images of the report are among those packed or still to be packed.
CoverInv ==
  /\ \A i \in evidence : image_files[i] # "missing"
  /\ \A c \in Clients :
       /\ work[c].step \in {"write", "row"} =>
            work[c].image \in Images /\ image_files[work[c].image] # "missing"
       /\ At(c, "rows") => work[c].report \subseteq evidence
       /\ At(c, "read") => /\ work[c].todo \subseteq evidence
                           /\ work[c].report \subseteq work[c].todo \cup work[c].files
       /\ work[c].step \in {"look", "install", "write_key", "load",
                            "open_package"} =>
            work[c].report \subseteq work[c].files
  /\ PackagesCoverReport

-----------------------------------------------------------------------------
(* Types *)

\* The part of the types that is about the commands.
WorkOK ==
  /\ work \in [Clients -> Command]
  /\ \A c \in Clients : work[c].step \in UploadSteps => work[c].image \in Images

\* A command that is over is a command.
LEMMA IdleTyped == Idle \in Command
  BY DEF Idle, Command

\* Giving one client a command leaves every client with a command.
LEMMA ContinueTyped ==
  ASSUME VaultTypeOK, NEW c \in Clients, NEW next \in Command,
         next.step \in UploadSteps => next.image \in Images,
         Continue(c, next)
  PROVE  WorkOK'
<1>1. work' = [work EXCEPT ![c] = next]
  BY DEF Continue
<1>2. QED
  BY <1>1 DEF VaultTypeOK, WorkOK

\* So does taking a client's command to its next step.
LEMMA GotoTyped ==
  ASSUME VaultTypeOK, NEW c \in Clients,
         NEW step \in UploadSteps \cup CreateSteps \cup VerifySteps,
         step \in UploadSteps => work[c].step \in UploadSteps,
         Goto(c, step)
  PROVE  WorkOK'
<1> DEFINE next == [work[c] EXCEPT !.step = step]
<1>1. work[c] \in Command
  BY DEF VaultTypeOK
<1>2. next \in Command /\ next.step = step /\ next.image = work[c].image
  BY <1>1 DEF Command
<1>3. Continue(c, next)
  BY DEF Goto
<1> HIDE DEF next
<1>4. QED
  BY <1>2, <1>3, ContinueTyped DEF VaultTypeOK

\* A command that ends leaves commands and the vault locks typed.
LEMMA FinishTyped ==
  ASSUME VaultTypeOK, NEW c \in Clients, Finish(c)
  PROVE  WorkOK' /\ vault_lock' \in [Processes -> Clients \cup {Nobody}]
<1>1. Idle.step \notin UploadSteps
  BY DEF Idle, UploadSteps
<1>2. WorkOK'
  BY <1>1, IdleTyped, ContinueTyped DEF Finish
<1>3. QED
  BY <1>2 DEF Finish, Release, VaultTypeOK

\* Uploads keep the types.
LEMMA UploadTypes ==
  ASSUME VaultTypeOK, NEW c \in Clients,
         Upload(c) \/ \E i \in Images : BeginUpload(c, i)
  PROVE  VaultTypeOK'
<1>0. VaultTypeOK
  OBVIOUS
<1>1. ASSUME NEW i \in Images, BeginUpload(c, i) PROVE VaultTypeOK'
  <2> DEFINE next == [Idle EXCEPT !.step = "check", !.image = i]
  <2>1. next \in Command /\ next.image \in Images
    BY IdleTyped DEF Command, UploadSteps, Idle
  <2>2. Continue(c, next)
    BY <1>1 DEF BeginUpload
  <2> HIDE DEF next
  <2>3. QED
    BY <1>0, <1>1, <2>1, <2>2, ContinueTyped
    DEF BeginUpload, images, vaults, VaultTypeOK, WorkOK
<1>2. CASE CheckImage(c)
  BY <1>0, <1>2, GotoTyped
  DEF CheckImage, At, UploadSteps, images, vaults, VaultTypeOK, WorkOK
<1>3. CASE OpenImage(c)
  BY <1>0, <1>3, GotoTyped
  DEF OpenImage, At, UploadSteps, vaults, VaultTypeOK, WorkOK
<1>4. CASE WriteImage(c)
  BY <1>0, <1>4, GotoTyped
  DEF WriteImage, At, UploadSteps, vaults, VaultTypeOK, WorkOK
<1>5. CASE AddEvidence(c)
  <2>1. work[c].image \in Images /\ Idle.step \notin UploadSteps
    BY <1>5 DEF AddEvidence, At, UploadSteps, VaultTypeOK, Idle
  <2>2. WorkOK'
    BY <1>5, <2>1, IdleTyped, ContinueTyped DEF AddEvidence
  <2>3. QED
    BY <1>5, <2>1, <2>2 DEF AddEvidence, vaults, VaultTypeOK, WorkOK
<1>6. QED
  BY <1>1, <1>2, <1>3, <1>4, <1>5 DEF Upload

\* The files a vault takes in keep the types.
LEMMA ReadTypes ==
  ASSUME VaultTypeOK, NEW c \in Clients,
         \/ BeginCreate(c) \/ ReadReport(c) \/ ReadRows(c) \/ ReadFile(c)
         \/ RefuseInput(c) \/ Encrypt(c)
  PROVE  VaultTypeOK'
<1>0. VaultTypeOK /\ work[c] \in Command
  BY DEF VaultTypeOK
<1>1. CASE BeginCreate(c)
  <2> DEFINE next == [Idle EXCEPT !.step = "report"]
  <2>1. next \in Command /\ next.step \notin UploadSteps
    BY IdleTyped DEF Command, UploadSteps, CreateSteps, Idle
  <2>2. Continue(c, next)
    BY <1>1 DEF BeginCreate
  <2>3. ProcessOf[c] \in Processes
    BY VaultAssumption
  <2> HIDE DEF next
  <2>4. QED
    BY <1>0, <1>1, <2>1, <2>2, <2>3, ContinueTyped
    DEF BeginCreate, images, vaults, VaultTypeOK, WorkOK
<1>2. CASE ReadReport(c)
  <2> DEFINE next == [work[c] EXCEPT !.step = "rows", !.report = evidence]
  <2>1. next \in Command /\ next.step \notin UploadSteps
    BY <1>0 DEF Command, UploadSteps, CreateSteps, VaultTypeOK
  <2>2. Continue(c, next)
    BY <1>2 DEF ReadReport
  <2> HIDE DEF next
  <2>3. QED
    BY <1>0, <1>2, <2>1, <2>2, ContinueTyped
    DEF ReadReport, images, vaults, VaultTypeOK, WorkOK
<1>3. CASE ReadRows(c)
  <2> DEFINE next == [work[c] EXCEPT !.step = "read", !.todo = evidence]
  <2>1. next \in Command /\ next.step \notin UploadSteps
    BY <1>0 DEF Command, UploadSteps, CreateSteps, VaultTypeOK
  <2>2. Continue(c, next)
    BY <1>3 DEF ReadRows
  <2> HIDE DEF next
  <2>3. QED
    BY <1>0, <1>3, <2>1, <2>2, ContinueTyped
    DEF ReadRows, images, vaults, VaultTypeOK, WorkOK
<1>4. CASE ReadFile(c)
  <2>1. PICK i \in work[c].todo :
          Continue(c, [work[c] EXCEPT !.todo = @ \ {i},
                         !.files = IF image_files[i] = "missing" THEN @
                                   ELSE @ \cup {i}])
    BY <1>4 DEF ReadFile
  <2> DEFINE next == [work[c] EXCEPT !.todo = @ \ {i},
                         !.files = IF image_files[i] = "missing" THEN @
                                   ELSE @ \cup {i}]
  <2>2. next \in Command /\ next.step \notin UploadSteps
    BY <1>0, <1>4 DEF ReadFile, At, Command, UploadSteps
  <2> HIDE DEF next
  <2>3. QED
    BY <1>0, <1>4, <2>1, <2>2, ContinueTyped
    DEF ReadFile, images, vaults, VaultTypeOK, WorkOK, next
<1>5. CASE RefuseInput(c)
  BY <1>0, <1>5, FinishTyped
  DEF RefuseInput, images, vaults, VaultTypeOK, WorkOK
<1>6. CASE Encrypt(c)
  BY <1>0, <1>6, GotoTyped
  DEF Encrypt, CreateSteps, UploadSteps, images, vaults, VaultTypeOK, WorkOK
<1>7. QED
  BY <1>1, <1>2, <1>3, <1>4, <1>5, <1>6

\* Signing a package and recording it keep the types.
LEMMA SignTypes ==
  ASSUME VaultTypeOK, RowInv, NEW c \in Clients,
         \/ LookForKey(c) \/ InstallKey(c) \/ WriteKey(c) \/ LoadKey(c)
         \/ OpenPackage(c) \/ WritePackage(c) \/ RecordExport(c)
  PROVE  VaultTypeOK'
<1>0. VaultTypeOK /\ work[c] \in Command
  BY DEF VaultTypeOK
<1>1. CASE LookForKey(c)
  BY <1>0, <1>1, GotoTyped
  DEF LookForKey, CreateSteps, UploadSteps, images, vaults, VaultTypeOK, WorkOK
<1>2. CASE InstallKey(c)
  BY <1>0, <1>2, GotoTyped
  DEF InstallKey, CreateSteps, UploadSteps, images, vaults, VaultTypeOK, WorkOK
<1>3. CASE WriteKey(c)
  <2> DEFINE next == [work[c] EXCEPT !.step = "open_package", !.key = c]
  <2>1. next \in Command /\ next.step \notin UploadSteps
    BY <1>0 DEF Command, UploadSteps, CreateSteps, Keys
  <2>2. Continue(c, next)
    BY <1>3 DEF WriteKey
  <2> HIDE DEF next
  <2>3. QED
    BY <1>0, <1>3, <2>1, <2>2, ContinueTyped
    DEF WriteKey, images, vaults, Keys, VaultTypeOK, WorkOK
<1>4. CASE LoadKey(c)
  <2>1. CASE key_file = EmptyKey /\ Finish(c)
    BY <1>0, <1>4, <2>1, FinishTyped
    DEF LoadKey, images, vaults, VaultTypeOK, WorkOK
  <2>2. CASE key_file # EmptyKey /\ UNCHANGED vault_lock
    <3> DEFINE next == [work[c] EXCEPT !.step = "open_package", !.key = key_file]
    <3>1. next \in Command /\ next.step \notin UploadSteps
      BY <1>0, <2>2 DEF Command, UploadSteps, CreateSteps, VaultTypeOK
    <3>2. CASE Continue(c, next)
      <4> HIDE DEF next
      <4>1. QED
        BY <1>0, <1>4, <2>2, <3>1, <3>2, ContinueTyped
        DEF LoadKey, images, vaults, VaultTypeOK, WorkOK
    <3>3. QED
      BY <1>4, <2>2, <3>2 DEF LoadKey
  <2>3. QED
    BY <1>4, <2>1, <2>2 DEF LoadKey
<1>5. CASE OpenPackage(c)
  <2> DEFINE new == [written |-> FALSE, key |-> work[c].key,
                     report |-> work[c].report, files |-> work[c].files]
             next == [work[c] EXCEPT !.step = "write_package",
                                     !.at = Len(packages) + 1]
  <2>0. Len(packages) + 1 \in Nat
    BY <1>0 DEF VaultTypeOK
  <2>1. new \in Package
    BY <1>0 DEF Command, Package
  <2>2. next \in Command /\ next.step \notin UploadSteps
    BY <1>0, <2>0 DEF Command, UploadSteps, CreateSteps
  <2>3. Continue(c, next) /\ packages' = Append(packages, new)
    BY <1>5 DEF OpenPackage
  <2> HIDE DEF next, new
  <2>4. packages' \in Seq(Package)
    BY <2>1, <2>3 DEF VaultTypeOK
  <2>5. QED
    BY <1>0, <1>5, <2>2, <2>3, <2>4, ContinueTyped
    DEF OpenPackage, images, VaultTypeOK, WorkOK
<1>6. CASE WritePackage(c)
  <2>1. work[c].at \in DOMAIN packages
    BY <1>6 DEF WritePackage, At, RowInv
  <2>2. packages[work[c].at] \in Package
    BY <1>0, <2>1 DEF VaultTypeOK
  <2>3. [packages[work[c].at] EXCEPT !.written = TRUE] \in Package
    BY <2>2 DEF Package
  <2>4. packages' \in Seq(Package)
    BY <1>0, <1>6, <2>1, <2>3 DEF WritePackage, VaultTypeOK
  <2>5. QED
    BY <1>0, <1>6, <2>4, GotoTyped
    DEF WritePackage, CreateSteps, UploadSteps, images, VaultTypeOK, WorkOK
<1>7. CASE RecordExport(c)
  <2>1. [package |-> work[c].at, state |-> "created"] \in Export
    BY <1>0 DEF Command, Export
  <2>2. vault_exports' \in Seq(Export)
    BY <1>0, <1>7, <2>1 DEF RecordExport, VaultTypeOK
  <2>3. QED
    BY <1>0, <1>7, <2>2, FinishTyped DEF RecordExport, images, VaultTypeOK, WorkOK
<1>8. QED
  BY <1>1, <1>2, <1>3, <1>4, <1>5, <1>6, <1>7

\* Verifying a vault, an error and a crash keep the types.
LEMMA OtherTypes ==
  ASSUME VaultTypeOK, RowInv, NEW c \in Clients, NEW p \in Processes,
         \/ \E row \in DOMAIN vault_exports : BeginVerify(c, row)
         \/ Verify(c) \/ RecordVerdict(c) \/ Error(c) \/ Crash(p)
  PROVE  VaultTypeOK'
<1>0. /\ VaultTypeOK
      /\ work[c] \in Command
      /\ Idle.step \notin UploadSteps
  BY DEF VaultTypeOK, Idle, UploadSteps
<1>1. ASSUME NEW row \in DOMAIN vault_exports, BeginVerify(c, row)
      PROVE  VaultTypeOK'
  <2> DEFINE next == [Idle EXCEPT !.step = "verify", !.at = row]
  <2>0. row \in Nat
    BY <1>0 DEF VaultTypeOK
  <2>1. next \in Command /\ next.step \notin UploadSteps
    BY <2>0, IdleTyped DEF Command, UploadSteps, VerifySteps, Idle
  <2>2. Continue(c, next)
    BY <1>1 DEF BeginVerify
  <2> HIDE DEF next
  <2>3. QED
    BY <1>0, <1>1, <2>1, <2>2, ContinueTyped
    DEF BeginVerify, images, vaults, VaultTypeOK, WorkOK
<1>2. CASE Verify(c)
  <2> DEFINE verdict == IF Valid(packages[vault_exports[work[c].at].package])
                        THEN "verified" ELSE "invalid"
             next == [work[c] EXCEPT !.step = "verdict", !.verdict = verdict]
  <2>0. verdict \in {"verified", "invalid"}
    OBVIOUS
  <2> HIDE DEF verdict
  <2>1. next \in Command /\ next.step \notin UploadSteps
    BY <1>0, <2>0 DEF Command, UploadSteps, VerifySteps
  <2>2. Continue(c, next)
    BY <1>2 DEF Verify, verdict
  <2> HIDE DEF next
  <2>3. QED
    BY <1>0, <1>2, <2>1, <2>2, ContinueTyped
    DEF Verify, images, vaults, VaultTypeOK, WorkOK
<1>3. CASE RecordVerdict(c)
  <2>1. work[c].at \in DOMAIN vault_exports
    BY <1>3 DEF RecordVerdict, At, RowInv, VerifySteps
  <2>2. vault_exports[work[c].at] \in Export
    BY <1>0, <2>1 DEF VaultTypeOK
  <2>3. [vault_exports[work[c].at] EXCEPT !.state = work[c].verdict] \in Export
    BY <1>0, <2>2 DEF Export, Command
  <2>4. vault_exports' \in Seq(Export)
    BY <1>0, <1>3, <2>1, <2>3 DEF RecordVerdict, VaultTypeOK
  <2>5. WorkOK'
    BY <1>0, <1>3, IdleTyped, ContinueTyped DEF RecordVerdict
  <2>6. QED
    BY <1>0, <1>3, <2>4, <2>5 DEF RecordVerdict, images, VaultTypeOK, WorkOK
<1>4. CASE Error(c)
  BY <1>0, <1>4, FinishTyped
  DEF Error, Fault, images, vaults, VaultTypeOK, WorkOK, VaultAssumption
<1>5. CASE Crash(p)
  <2>1. WorkOK'
    BY <1>0, <1>5, IdleTyped DEF Crash, VaultTypeOK, WorkOK
  <2>2. QED
    BY <1>0, <1>5, <2>1 DEF Crash, Fault, images, vaults, VaultTypeOK, WorkOK
<1>6. QED
  BY <1>1, <1>2, <1>3, <1>4, <1>5

-----------------------------------------------------------------------------
(* The key *)

\* What an action does to the commands: one client moves on, or (a crash)
\* those of one process are over.
LEMMA ContinueMoves ==
  ASSUME VaultTypeOK, NEW c \in Clients, NEW next, Continue(c, next)
  PROVE  work'[c] = next /\ \A d \in Clients : d # c => work'[d] = work[d]
  BY DEF Continue, VaultTypeOK

\* The same for an action that only takes a command to its next step.
LEMMA GotoMoves ==
  ASSUME VaultTypeOK, NEW c \in Clients, NEW step, Goto(c, step)
  PROVE  /\ work'[c] = [work[c] EXCEPT !.step = step]
         /\ work'[c].step = step
         /\ \A d \in Clients : d # c => work'[d] = work[d]
<1>1. work[c] \in Command
  BY DEF VaultTypeOK
<1>2. /\ work'[c] = [work[c] EXCEPT !.step = step]
      /\ \A d \in Clients : d # c => work'[d] = work[d]
  BY ContinueMoves DEF Goto
<1>3. QED
  BY <1>1, <1>2 DEF Command

\* The steps at which KeyInv says something of a command.
KeySteps == {"write_key", "load"} \cup Signing

\* An action that leaves the key and the packages alone, and takes nobody to
\* a step that KeyInv is about, keeps KeyInv.
LEMMA KeyKept ==
  ASSUME KeyInv, UNCHANGED <<key_file, packages>>,
         \A d \in Clients : work'[d] = work[d] \/ work'[d].step \notin KeySteps
  PROVE  KeyInv'
  BY DEF KeyInv, KeySteps, Signing, At

\* The actions that have nothing to do with the key.
Keyless(c) ==
  \/ Request(c) \/ Upload(c) \/ Check(c) \/ Error(c)
  \/ ReadReport(c) \/ ReadRows(c) \/ ReadFile(c) \/ RefuseInput(c)
  \/ Encrypt(c) \/ RecordExport(c)

\* They take nobody to a step that KeyInv is about.
LEMMA KeylessMoves ==
  ASSUME VaultTypeOK, NEW c \in Clients, Keyless(c)
  PROVE  /\ UNCHANGED <<key_file, packages>>
         /\ \A d \in Clients : work'[d] = work[d] \/ work'[d].step \notin KeySteps
<1>0. VaultTypeOK /\ work[c] \in Command
  BY DEF VaultTypeOK
<1> DEFINE Moves == \A d \in Clients :
                      work'[d] = work[d] \/ work'[d].step \notin KeySteps
<1>1. ASSUME NEW next, Continue(c, next), next.step \notin KeySteps
      PROVE  Moves
  BY <1>0, <1>1, ContinueMoves
<1>2. ASSUME NEW step, Goto(c, step), step \notin KeySteps
      PROVE  Moves
  BY <1>0, <1>2, GotoMoves
<1>3. Idle.step \notin KeySteps
  BY DEF Idle, KeySteps, Signing
<1> HIDE DEF Moves
<1>4. CASE Request(c)
  <2>1. ASSUME NEW i \in Images, BeginUpload(c, i) PROVE Moves
    BY <1>1, <2>1 DEF BeginUpload, Idle, KeySteps, Signing
  <2>2. ASSUME BeginCreate(c) PROVE Moves
    BY <1>1, <2>2 DEF BeginCreate, Idle, KeySteps, Signing
  <2>3. ASSUME NEW row \in DOMAIN vault_exports, BeginVerify(c, row) PROVE Moves
    BY <1>1, <2>3 DEF BeginVerify, Idle, KeySteps, Signing
  <2>4. Moves
    BY <1>4, <2>1, <2>2, <2>3 DEF Request
  <2>5. QED
    BY <1>4, <2>4
    DEF Request, BeginUpload, BeginCreate, BeginVerify, vaults, Moves
<1>5. CASE Upload(c)
  BY <1>1, <1>2, <1>3, <1>5
  DEF Upload, CheckImage, OpenImage, WriteImage, AddEvidence, vaults, KeySteps,
      Signing, Moves
<1>6. CASE Verify(c)
  <2>1. Moves
    BY <1>0, <1>1, <1>6 DEF Verify, Command, KeySteps, Signing
  <2>2. QED
    BY <1>6, <2>1 DEF Verify, vaults, Moves
<1>7. CASE RecordVerdict(c)
  BY <1>1, <1>3, <1>7 DEF RecordVerdict, Moves
<1>8. CASE Error(c)
  BY <1>1, <1>3, <1>8 DEF Error, Finish, vaults, Moves
<1>9. CASE ReadReport(c)
  <2>1. Moves
    BY <1>0, <1>1, <1>9 DEF ReadReport, Command, KeySteps, Signing
  <2>2. QED
    BY <1>9, <2>1 DEF ReadReport, vaults, Moves
<1>10. CASE ReadRows(c)
  <2>1. Moves
    BY <1>0, <1>1, <1>10 DEF ReadRows, Command, KeySteps, Signing
  <2>2. QED
    BY <1>10, <2>1 DEF ReadRows, vaults, Moves
<1>11. CASE ReadFile(c)
  <2>1. PICK i \in work[c].todo :
          Continue(c, [work[c] EXCEPT !.todo = @ \ {i},
                         !.files = IF image_files[i] = "missing" THEN @
                                   ELSE @ \cup {i}])
    BY <1>11 DEF ReadFile
  <2> DEFINE next == [work[c] EXCEPT !.todo = @ \ {i},
                         !.files = IF image_files[i] = "missing" THEN @
                                   ELSE @ \cup {i}]
  <2>2. next.step \notin KeySteps
    BY <1>0, <1>11 DEF ReadFile, At, Command, KeySteps, Signing
  <2>3. Continue(c, next)
    BY <2>1
  <2> HIDE DEF next
  <2>4. QED
    BY <1>1, <1>11, <2>2, <2>3 DEF ReadFile, vaults, Moves
<1>12. CASE RefuseInput(c)
  BY <1>1, <1>3, <1>12 DEF RefuseInput, Finish, vaults, Moves
<1>13. CASE Encrypt(c)
  BY <1>2, <1>13 DEF Encrypt, vaults, KeySteps, Signing, Moves
<1>14. CASE RecordExport(c)
  BY <1>1, <1>3, <1>14 DEF RecordExport, Finish, Moves
<1>15. QED
  BY <1>4, <1>5, <1>6, <1>7, <1>8, <1>9, <1>10, <1>11, <1>12, <1>13, <1>14
  DEF Keyless, Check

\* A client's action keeps KeyInv and never changes a key that is written.
LEMMA KeyStep ==
  ASSUME VaultTypeOK, KeyInv, RowInv, NEW c \in Clients, Keyless(c) \/ Create(c)
  PROVE  KeyInv' /\ (key_file \in Keys => key_file' = key_file)
<1>0. /\ VaultTypeOK /\ KeyInv
      /\ work[c] \in Command
      /\ NoKey \notin Keys /\ EmptyKey \notin Keys /\ NoKey # EmptyKey
  BY VaultAssumption DEF VaultTypeOK, Keys
<1>1. CASE Keyless(c)
  BY <1>0, <1>1, KeylessMoves, KeyKept
<1>2. CASE LookForKey(c)
  <2>1. CASE key_file = NoKey
    <3>1. Goto(c, "install") /\ UNCHANGED <<key_file, packages>>
      BY <1>2, <2>1 DEF LookForKey, vaults
    <3>2. QED
      BY <1>0, <3>1, GotoMoves, KeyKept DEF KeySteps, Signing
  <2>2. CASE key_file # NoKey
    <3>1. Goto(c, "load") /\ UNCHANGED <<key_file, packages>>
      BY <1>2, <2>2 DEF LookForKey, vaults
    <3>2. work'[c].step = "load" /\ \A d \in Clients : d # c => work'[d] = work[d]
      BY <1>0, <3>1, GotoMoves
    <3>3. QED
      BY <1>0, <2>2, <3>1, <3>2 DEF KeyInv, At, Signing
  <2>3. QED
    BY <2>1, <2>2
<1>3. CASE InstallKey(c)
  <2>1. CASE key_file = NoKey
    <3>1. /\ Goto(c, "write_key") /\ key_file' = EmptyKey
          /\ UNCHANGED packages
      BY <1>3, <2>1 DEF InstallKey, vaults
    <3>2. \A d \in Clients : work[d].step \notin KeySteps
      BY <1>0, <2>1 DEF KeyInv, KeySteps, Signing, At
    <3>3. DOMAIN packages = {}
      BY <1>0, <2>1 DEF KeyInv
    <3>4. /\ work'[c].step = "write_key"
          /\ \A d \in Clients : d # c => work'[d] = work[d]
      BY <1>0, <3>1, GotoMoves
    <3>5. QED
      BY <1>0, <2>1, <3>1, <3>2, <3>3, <3>4 DEF KeyInv, KeySteps, Signing, At
  <2>2. CASE key_file # NoKey
    <3>1. Goto(c, "load") /\ UNCHANGED <<key_file, packages>>
      BY <1>3, <2>2 DEF InstallKey, vaults
    <3>2. work'[c].step = "load" /\ \A d \in Clients : d # c => work'[d] = work[d]
      BY <1>0, <3>1, GotoMoves
    <3>3. QED
      BY <1>0, <2>2, <3>1, <3>2 DEF KeyInv, At, Signing
  <2>3. QED
    BY <2>1, <2>2
<1>4. CASE WriteKey(c)
  <2> DEFINE next == [work[c] EXCEPT !.step = "open_package", !.key = c]
  <2>1. Continue(c, next) /\ key_file' = c /\ UNCHANGED packages
    BY <1>4 DEF WriteKey, vaults
  <2>2. next.step = "open_package" /\ next.key = c
    BY <1>0 DEF Command
  <2> HIDE DEF next
  <2>3. key_file = EmptyKey
    BY <1>0, <1>4 DEF WriteKey, KeyInv
  <2>4. \A d \in Clients : work[d].step \notin Signing
    BY <1>0, <2>3 DEF KeyInv
  <2>5. \A d \in Clients : At(d, "write_key") => d = c
    BY <1>0, <1>4 DEF WriteKey, KeyInv
  <2>6. DOMAIN packages = {}
    BY <1>0, <2>3 DEF KeyInv
  <2>7. c \in Keys /\ c # NoKey
    BY <1>0 DEF Keys
  <2>8. work'[c] = next /\ \A d \in Clients : d # c => work'[d] = work[d]
    BY <1>0, <2>1, ContinueMoves
  <2>9. QED
    BY <1>0, <2>1, <2>2, <2>3, <2>4, <2>5, <2>6, <2>7, <2>8
    DEF KeyInv, Signing, At
<1>5. CASE LoadKey(c)
  <2>1. CASE key_file = EmptyKey
    <3>1. Continue(c, Idle) /\ UNCHANGED <<key_file, packages>>
      BY <1>5, <2>1 DEF LoadKey, Finish, vaults
    <3>2. QED
      BY <1>0, <3>1, ContinueMoves, KeyKept DEF Idle, KeySteps, Signing
  <2>2. CASE key_file # EmptyKey
    <3> DEFINE next == [work[c] EXCEPT !.step = "open_package", !.key = key_file]
    <3>1. Continue(c, next) /\ UNCHANGED <<key_file, packages>>
      BY <1>5, <2>2 DEF LoadKey, vaults
    <3>2. next.step = "open_package" /\ next.key = key_file
      BY <1>0 DEF Command
    <3> HIDE DEF next
    <3>3. key_file \in Keys
      BY <1>0, <1>5, <2>2 DEF LoadKey, KeyInv, VaultTypeOK
    <3>4. work'[c] = next /\ \A d \in Clients : d # c => work'[d] = work[d]
      BY <1>0, <3>1, ContinueMoves
    <3>5. QED
      BY <1>0, <3>1, <3>2, <3>3, <3>4 DEF KeyInv, Signing, At
  <2>3. QED
    BY <2>1, <2>2
<1>6. CASE OpenPackage(c)
  <2> DEFINE new == [written |-> FALSE, key |-> work[c].key,
                     report |-> work[c].report, files |-> work[c].files]
             next == [work[c] EXCEPT !.step = "write_package",
                                     !.at = Len(packages) + 1]
  <2>1. /\ Continue(c, next) /\ packages' = Append(packages, new)
        /\ UNCHANGED key_file
    BY <1>6 DEF OpenPackage
  <2>2. next.step = "write_package" /\ next.key = work[c].key
    BY <1>0 DEF Command
  <2>3. new.key = work[c].key
    OBVIOUS
  <2> HIDE DEF next, new
  <2>4. key_file \in Keys /\ work[c].key = key_file
    BY <1>0, <1>6 DEF OpenPackage, KeyInv, Signing, At
  <2>5. work'[c] = next /\ \A d \in Clients : d # c => work'[d] = work[d]
    BY <1>0, <2>1, ContinueMoves
  <2>6. \A n \in DOMAIN packages' : packages'[n].key = key_file
    BY <1>0, <2>1, <2>3, <2>4 DEF KeyInv, VaultTypeOK
  <2>7. QED
    BY <1>0, <2>1, <2>2, <2>4, <2>5, <2>6 DEF KeyInv, Signing, At
<1>7. CASE WritePackage(c)
  <2>1. /\ Goto(c, "record") /\ UNCHANGED key_file
        /\ packages' = [packages EXCEPT ![work[c].at].written = TRUE]
    BY <1>7 DEF WritePackage
  <2>2. key_file \in Keys /\ work[c].key = key_file
    BY <1>0, <1>7 DEF WritePackage, KeyInv, Signing, At
  <2>3. /\ work'[c].step = "record" /\ work'[c].key = work[c].key
        /\ \A d \in Clients : d # c => work'[d] = work[d]
    <3>1. /\ work'[c] = [work[c] EXCEPT !.step = "record"]
          /\ work'[c].step = "record"
          /\ \A d \in Clients : d # c => work'[d] = work[d]
      <4>1. VaultTypeOK /\ Goto(c, "record")
        BY <1>0, <2>1
      <4>2. QED
        BY <4>1, GotoMoves, Zenon
    <3>2. work'[c].key = work[c].key
      BY <1>0, <3>1 DEF Command
    <3>3. QED
      BY <3>1, <3>2
  <2>4. \A n \in DOMAIN packages' : packages'[n].key = key_file
    <3>1. packages \in Seq(Package)
      BY <1>0 DEF VaultTypeOK
    <3>2. \A n \in DOMAIN packages : packages[n] \in Package
      BY <3>1
    <3>3. \A n \in DOMAIN packages' :
            n \in DOMAIN packages /\ packages'[n].key = packages[n].key
      BY <2>1, <3>1, <3>2 DEF Package
    <3>4. QED
      BY <1>0, <3>3 DEF KeyInv
  <2>5. QED
    BY <1>0, <2>1, <2>2, <2>3, <2>4 DEF KeyInv, Signing, At
<1>8. QED
  BY <1>1, <1>2, <1>3, <1>4, <1>5, <1>6, <1>7 DEF Create, Keyless

-----------------------------------------------------------------------------
(* The rows *)

\* The steps at which RowInv says something of a command.
RowSteps == {"write_package", "record"} \cup VerifySteps

\* A client's action keeps RowInv: a package is written before its row is
\* recorded, and a package with the installation's key verifies.
LEMMA RowStep ==
  ASSUME VaultTypeOK, KeyInv, RowInv, NEW c \in Clients, Keyless(c) \/ Create(c)
  PROVE  RowInv'
<1>0. /\ VaultTypeOK /\ KeyInv /\ RowInv
      /\ work[c] \in Command
      /\ Idle.step \notin RowSteps
  BY DEF VaultTypeOK, Idle, RowSteps, VerifySteps
<1>1. ASSUME NEW next, Continue(c, next), next.step \notin RowSteps,
             UNCHANGED vaults
      PROVE  RowInv'
  <2>1. work'[c] = next /\ \A d \in Clients : d # c => work'[d] = work[d]
    BY <1>0, <1>1, ContinueMoves
  <2>2. QED
    BY <1>0, <1>1, <2>1 DEF RowInv, RowSteps, VerifySteps, At, vaults
<1>2. ASSUME NEW step, Goto(c, step), step \notin RowSteps, UNCHANGED vaults
      PROVE  RowInv'
  <2>1. [work[c] EXCEPT !.step = step].step = step
    BY <1>0 DEF Command
  <2>2. QED
    BY <1>1, <1>2, <2>1 DEF Goto
<1>3. CASE \E i \in Images : BeginUpload(c, i)
  BY <1>1, <1>3 DEF BeginUpload, Idle, RowSteps, VerifySteps
<1>4. CASE BeginCreate(c)
  BY <1>1, <1>4 DEF BeginCreate, Idle, RowSteps, VerifySteps
<1>5. ASSUME NEW row \in DOMAIN vault_exports, BeginVerify(c, row)
      PROVE  RowInv'
  <2> DEFINE next == [Idle EXCEPT !.step = "verify", !.at = row]
  <2>1. Continue(c, next) /\ UNCHANGED vaults
    BY <1>5 DEF BeginVerify
  <2>2. next.step = "verify" /\ next.at = row
    BY DEF Idle
  <2> HIDE DEF next
  <2>3. work'[c] = next /\ \A d \in Clients : d # c => work'[d] = work[d]
    BY <1>0, <2>1, ContinueMoves
  <2>4. QED
    BY <1>0, <2>1, <2>2, <2>3 DEF RowInv, VerifySteps, At, vaults
<1>6. CASE Upload(c)
  BY <1>0, <1>1, <1>2, <1>6
  DEF Upload, CheckImage, OpenImage, WriteImage, AddEvidence, RowSteps, VerifySteps
<1>7. CASE Verify(c)
  <2> DEFINE next == [work[c] EXCEPT !.step = "verdict", !.verdict = "verified"]
  <2>1. work[c].at \in DOMAIN vault_exports
    BY <1>0, <1>7 DEF Verify, RowInv, VerifySteps, At
  <2>2. Valid(packages[vault_exports[work[c].at].package])
    BY <1>0, <2>1 DEF RowInv, KeyInv, Valid
  <2>3. Continue(c, next) /\ UNCHANGED vaults
    BY <1>7, <2>2 DEF Verify
  <2>4. /\ next.step = "verdict" /\ next.at = work[c].at
        /\ next.verdict = "verified"
    BY <1>0 DEF Command
  <2> HIDE DEF next
  <2>5. work'[c] = next /\ \A d \in Clients : d # c => work'[d] = work[d]
    BY <1>0, <2>3, ContinueMoves
  <2>6. QED
    BY <1>0, <2>1, <2>3, <2>4, <2>5 DEF RowInv, VerifySteps, At, vaults
<1>8. CASE RecordVerdict(c)
  <2>1. /\ work[c].at \in DOMAIN vault_exports
        /\ work[c].verdict = "verified"
    BY <1>0, <1>8 DEF RecordVerdict, RowInv, VerifySteps, At
  <2>2. /\ work'[c] = Idle
        /\ \A d \in Clients : d # c => work'[d] = work[d]
        /\ packages' = packages
        /\ vault_exports' = [vault_exports EXCEPT ![work[c].at].state = "verified"]
    BY <1>0, <1>8, <2>1, ContinueMoves DEF RecordVerdict
  <2>3. /\ vault_exports \in Seq(Export)
        /\ \A row \in DOMAIN vault_exports : vault_exports[row] \in Export
    BY <1>0 DEF VaultTypeOK
  <2>4. /\ DOMAIN vault_exports' = DOMAIN vault_exports
        /\ \A row \in DOMAIN vault_exports :
             /\ vault_exports'[row].package = vault_exports[row].package
             /\ \/ vault_exports'[row].state = vault_exports[row].state
                \/ vault_exports'[row].state = "verified"
    BY <2>1, <2>2, <2>3 DEF Export
  <2>5. QED
    BY <1>0, <2>2, <2>4 DEF RowInv, RowSteps, VerifySteps, At
<1>9. CASE Error(c)
  BY <1>0, <1>1, <1>9 DEF Error, Finish
<1>10. CASE ReadReport(c)
  <2>1. [work[c] EXCEPT !.step = "rows", !.report = evidence].step \notin RowSteps
    BY <1>0 DEF Command, RowSteps, VerifySteps
  <2>2. QED
    BY <1>1, <1>10, <2>1 DEF ReadReport
<1>11. CASE ReadRows(c)
  <2>1. [work[c] EXCEPT !.step = "read", !.todo = evidence].step \notin RowSteps
    BY <1>0 DEF Command, RowSteps, VerifySteps
  <2>2. QED
    BY <1>1, <1>11, <2>1 DEF ReadRows
<1>12. CASE ReadFile(c)
  <2>1. PICK i \in work[c].todo :
          Continue(c, [work[c] EXCEPT !.todo = @ \ {i},
                         !.files = IF image_files[i] = "missing" THEN @
                                   ELSE @ \cup {i}])
    BY <1>12 DEF ReadFile
  <2> DEFINE next == [work[c] EXCEPT !.todo = @ \ {i},
                         !.files = IF image_files[i] = "missing" THEN @
                                   ELSE @ \cup {i}]
  <2>2. next.step \notin RowSteps
    BY <1>0, <1>12 DEF ReadFile, At, Command, RowSteps, VerifySteps
  <2>3. Continue(c, next)
    BY <2>1
  <2> HIDE DEF next
  <2>4. QED
    BY <1>1, <1>12, <2>2, <2>3 DEF ReadFile
<1>13. CASE RefuseInput(c)
  BY <1>0, <1>1, <1>13 DEF RefuseInput, Finish
<1>14. CASE Encrypt(c) \/ LookForKey(c) \/ InstallKey(c)
  BY <1>2, <1>14 DEF Encrypt, LookForKey, InstallKey, RowSteps, VerifySteps
<1>15. CASE WriteKey(c)
  <2>1. [work[c] EXCEPT !.step = "open_package", !.key = c].step \notin RowSteps
    BY <1>0 DEF Command, RowSteps, VerifySteps
  <2>2. QED
    BY <1>1, <1>15, <2>1 DEF WriteKey
<1>16. CASE LoadKey(c)
  <2>1. [work[c] EXCEPT !.step = "open_package", !.key = key_file].step
          \notin RowSteps
    BY <1>0 DEF Command, RowSteps, VerifySteps
  <2>2. QED
    BY <1>0, <1>1, <1>16, <2>1 DEF LoadKey, Finish
<1>17. CASE OpenPackage(c)
  <2> DEFINE new == [written |-> FALSE, key |-> work[c].key,
                     report |-> work[c].report, files |-> work[c].files]
             next == [work[c] EXCEPT !.step = "write_package",
                                     !.at = Len(packages) + 1]
  <2>1. /\ Continue(c, next) /\ packages' = Append(packages, new)
        /\ UNCHANGED vault_exports
    BY <1>17 DEF OpenPackage
  <2>2. next.step = "write_package" /\ next.at = Len(packages) + 1
    BY <1>0 DEF Command
  <2> HIDE DEF next, new
  <2>3. work'[c] = next /\ \A d \in Clients : d # c => work'[d] = work[d]
    BY <1>0, <2>1, ContinueMoves
  <2>4. /\ next.at \in DOMAIN packages'
        /\ \A n \in DOMAIN packages :
             n \in DOMAIN packages' /\ packages'[n] = packages[n]
    BY <1>0, <2>1, <2>2 DEF VaultTypeOK
  <2>5. QED
    BY <1>0, <2>1, <2>2, <2>3, <2>4 DEF RowInv, VerifySteps, At
<1>18. CASE WritePackage(c)
  <2>1. /\ Goto(c, "record") /\ UNCHANGED vault_exports
        /\ packages' = [packages EXCEPT ![work[c].at].written = TRUE]
    BY <1>18 DEF WritePackage
  <2>2. work[c].at \in DOMAIN packages
    BY <1>0, <1>18 DEF WritePackage, RowInv, At
  <2>3. /\ work'[c].step = "record" /\ work'[c].at = work[c].at
        /\ \A d \in Clients : d # c => work'[d] = work[d]
    <3>1. /\ work'[c] = [work[c] EXCEPT !.step = "record"]
          /\ \A d \in Clients : d # c => work'[d] = work[d]
      BY <1>0, <2>1, GotoMoves
    <3>2. QED
      BY <1>0, <3>1 DEF Command
  <2>4. /\ packages \in Seq(Package)
        /\ \A n \in DOMAIN packages : packages[n] \in Package
    BY <1>0 DEF VaultTypeOK
  <2>5. /\ DOMAIN packages' = DOMAIN packages
        /\ packages'[work[c].at].written
        /\ \A n \in DOMAIN packages :
             packages[n].written => packages'[n].written
    BY <2>1, <2>2, <2>4 DEF Package
  <2>6. QED
    BY <1>0, <2>1, <2>2, <2>3, <2>5 DEF RowInv, VerifySteps, At
<1>19. CASE RecordExport(c)
  <2> DEFINE new == [package |-> work[c].at, state |-> "created"]
  <2>1. /\ Continue(c, Idle) /\ vault_exports' = Append(vault_exports, new)
        /\ UNCHANGED packages
    BY <1>19 DEF RecordExport, Finish
  <2>2. new.package \in DOMAIN packages /\ packages[new.package].written
    BY <1>0, <1>19 DEF RecordExport, RowInv, At
  <2>3. new \in Export /\ new.state # "invalid"
    BY <1>0 DEF Command, Export
  <2> HIDE DEF new
  <2>4. work'[c] = Idle /\ \A d \in Clients : d # c => work'[d] = work[d]
    BY <1>0, <2>1, ContinueMoves
  <2>5. /\ \A row \in DOMAIN vault_exports : row \in DOMAIN vault_exports'
        /\ \A row \in DOMAIN vault_exports' :
             \/ vault_exports'[row] = new
             \/ /\ row \in DOMAIN vault_exports
                /\ vault_exports'[row] = vault_exports[row]
    <3>1. vault_exports \in Seq(Export)
      BY <1>0 DEF VaultTypeOK
    <3>2. /\ DOMAIN vault_exports = 1 .. Len(vault_exports)
          /\ DOMAIN vault_exports' = 1 .. Len(vault_exports) + 1
          /\ Len(vault_exports) \in Nat
      BY <2>1, <2>3, <3>1
    <3>3. \A row \in 1 .. Len(vault_exports) + 1 :
            vault_exports'[row] = IF row = Len(vault_exports) + 1 THEN new
                                  ELSE vault_exports[row]
      BY <2>1, <2>3, <3>1
    <3>4. QED
      BY <3>2, <3>3
  <2>6. QED
    BY <1>0, <2>1, <2>2, <2>3, <2>4, <2>5 DEF RowInv, RowSteps, VerifySteps, At
<1>20. QED
  BY <1>3, <1>4, <1>5, <1>6, <1>7, <1>8, <1>9, <1>10, <1>11, <1>12, <1>13, <1>14,
     <1>15, <1>16, <1>17, <1>18, <1>19
  DEF Keyless, Request, Check, Create

\* A crash disturbs neither the key nor the rows: the commands it ends hold
\* nothing that is on disk.
LEMMA CrashStep ==
  ASSUME VaultTypeOK, KeyInv, RowInv, NEW p \in Processes, Crash(p)
  PROVE  KeyInv' /\ RowInv' /\ UNCHANGED key_file
<1>1. /\ \A d \in Clients : work'[d] = work[d] \/ work'[d] = Idle
      /\ UNCHANGED <<key_file, packages, vault_exports>>
  BY DEF Crash, vaults
<1>2. Idle.step \notin KeySteps /\ Idle.step \notin RowSteps
  BY DEF Idle, KeySteps, Signing, RowSteps, VerifySteps
<1>3. KeyInv'
  BY <1>1, <1>2, KeyKept
<1>4. RowInv'
  BY <1>1, <1>2 DEF RowInv, RowSteps, VerifySteps, At
<1>5. QED
  BY <1>1, <1>3, <1>4

\* Every step keeps the invariant and a key that is written.
LEMMA VaultStep ==
  ASSUME VaultInv, [Next]_vars
  PROVE  VaultInv' /\ (key_file \in Keys => key_file' = key_file)
<1>1. ASSUME NEW c \in Clients,
             Request(c) \/ Upload(c) \/ Create(c) \/ Check(c) \/ Error(c)
      PROVE  VaultInv' /\ (key_file \in Keys => key_file' = key_file)
  <2>1. VaultTypeOK'
    <3>1. ProcessOf[c] \in Processes
      BY VaultAssumption
    <3>2. CASE Request(c)
      BY <3>1, <3>2, UploadTypes, ReadTypes, OtherTypes DEF VaultInv, Request
    <3>3. CASE Upload(c)
      BY <3>3, UploadTypes DEF VaultInv
    <3>4. CASE Create(c)
      BY <3>4, ReadTypes, SignTypes DEF VaultInv, Create
    <3>5. CASE Check(c) \/ Error(c)
      BY <3>1, <3>5, OtherTypes DEF VaultInv, Check
    <3>6. QED
      BY <1>1, <3>2, <3>3, <3>4, <3>5
  <2>2. KeyInv' /\ RowInv' /\ (key_file \in Keys => key_file' = key_file)
    BY <1>1, KeyStep, RowStep DEF VaultInv, Keyless
  <2>3. QED
    BY <2>1, <2>2 DEF VaultInv
<1>2. ASSUME NEW p \in Processes, Crash(p)
      PROVE  VaultInv' /\ (key_file \in Keys => key_file' = key_file)
  <2>1. PICK c \in Clients : TRUE
    BY <1>2 DEF Crash
  <2>2. VaultTypeOK'
    BY <1>2, <2>1, OtherTypes DEF VaultInv
  <2>3. QED
    BY <1>2, <2>2, CrashStep DEF VaultInv
<1>3. CASE UNCHANGED vars
  BY <1>3
  DEF vars, VaultInv, VaultTypeOK, KeyInv, RowInv, At, VerifySteps, Signing
<1>4. QED
  BY <1>1, <1>2, <1>3 DEF Next

\* The first state satisfies the invariant.
LEMMA VaultInit ==
  ASSUME Init PROVE VaultInv
<1>1. Idle.step = "idle" /\ Idle \in Command
  BY IdleTyped DEF Idle
<1>2. VaultTypeOK
  BY <1>1 DEF Init, VaultTypeOK, UploadSteps
<1>3. KeyInv /\ RowInv
  BY <1>1 DEF Init, KeyInv, RowInv, At, Signing, VerifySteps
<1>4. QED
  BY <1>2, <1>3 DEF VaultInv

\* Every variable keeps its type: a row or a package is what its record says.
THEOREM VaultTypeCorrect == Spec => []VaultTypeOK
<1>1. Init => VaultInv
  BY VaultInit
<1>2. VaultInv /\ [Next]_vars => VaultInv'
  BY VaultStep
<1>3. VaultInv => VaultTypeOK
  BY DEF VaultInv
<1>4. QED
  BY <1>1, <1>2, <1>3, PTL DEF Spec

\* Every export on record can be verified with the installation's key, and
\* none is ever marked invalid, however processes race and die
\* (create_evidence_vault, verify_evidence_vault).
THEOREM ExportsStayVerifiable == Spec => []ExportsVerifiable
<1>1. Init => VaultInv
  BY VaultInit
<1>2. VaultInv /\ [Next]_vars => VaultInv'
  BY VaultStep
<1>3. VaultInv => ExportsVerifiable
  BY DEF VaultInv, RowInv, KeyInv, ExportsVerifiable, Valid
<1>4. QED
  BY <1>1, <1>2, <1>3, PTL DEF Spec

\* No step of any process replaces or empties a signing key that is written
\* (_load_or_create_signing_key).
THEOREM KeyIsKept == Spec => KeyNeverReplaced
<1>1. Init => VaultInv
  BY VaultInit
<1>2. VaultInv /\ [Next]_vars => VaultInv'
  BY VaultStep
<1>3. VaultInv /\ [Next]_vars => [(key_file \in Keys) => (key_file' = key_file)]_vars
  BY VaultStep
<1>4. QED
  BY <1>1, <1>2, <1>3, PTL DEF Spec, KeyNeverReplaced

-----------------------------------------------------------------------------
(* The contents of a package *)

\* The steps at which CoverInv says something of a command.
CoverSteps == {"write", "row", "rows", "read", "look", "install", "write_key",
               "load", "open_package"}

\* An action that takes nobody to a step that CoverInv is about, and takes no
\* file, row or package away, keeps CoverInv.
LEMMA CoverKept ==
  ASSUME CoverInv, UNCHANGED <<image_files, evidence, packages>>,
         \A d \in Clients : work'[d] = work[d] \/ work'[d].step \notin CoverSteps
  PROVE  CoverInv'
  BY DEF CoverInv, CoverSteps, PackagesCoverReport, At

\* An upload keeps CoverInv: a row is inserted for a file that is there.
LEMMA CoverUpload ==
  ASSUME VaultTypeOK, CoverInv, NEW c \in Clients, Upload(c)
  PROVE  CoverInv'
<1>0. VaultTypeOK /\ CoverInv /\ work[c] \in Command
  BY DEF VaultTypeOK
<1>1. CASE CheckImage(c)
  <2>1. work[c].image \in Images
    BY <1>0, <1>1 DEF CheckImage, VaultTypeOK, UploadSteps, At
  <2>2. CASE image_files[work[c].image] = "missing"
    <3>1. Goto(c, "open") /\ UNCHANGED <<image_files, evidence, packages>>
      BY <1>1, <2>2 DEF CheckImage, images, vaults
    <3>2. QED
      BY <1>0, <3>1, GotoMoves, CoverKept DEF CoverSteps
  <2>3. CASE image_files[work[c].image] # "missing"
    <3>1. Goto(c, "row") /\ UNCHANGED <<image_files, evidence, packages>>
      BY <1>1, <2>3 DEF CheckImage, images, vaults
    <3>2. /\ work'[c] = [work[c] EXCEPT !.step = "row"]
          /\ \A d \in Clients : d # c => work'[d] = work[d]
      BY <1>0, <3>1, GotoMoves
    <3>3. work'[c].step = "row" /\ work'[c].image = work[c].image
      BY <1>0, <3>2 DEF Command
    <3>4. QED
      BY <1>0, <2>1, <2>3, <3>1, <3>2, <3>3
      DEF CoverInv, PackagesCoverReport, At
  <2>4. QED
    BY <2>2, <2>3
<1>2. ASSUME NEW step \in {"write", "row"}, NEW content \in {"partial", "whole"},
             work[c].step \in {"open", "write"}, Goto(c, step),
             image_files' = [image_files EXCEPT ![work[c].image] = content],
             UNCHANGED <<evidence, packages>>
      PROVE  CoverInv'
  <2>1. work[c].image \in Images
    BY <1>0, <1>2 DEF VaultTypeOK, UploadSteps
  <2>2. /\ work'[c] = [work[c] EXCEPT !.step = step]
        /\ \A d \in Clients : d # c => work'[d] = work[d]
    BY <1>0, <1>2, GotoMoves
  <2>3. work'[c].step = step /\ work'[c].image = work[c].image
    BY <1>0, <2>2 DEF Command
  <2>4. /\ image_files'[work[c].image] # "missing"
        /\ \A i \in Images :
             image_files[i] # "missing" => image_files'[i] # "missing"
    BY <1>0, <1>2, <2>1 DEF VaultTypeOK
  <2>5. evidence \subseteq Images
    BY <1>0 DEF VaultTypeOK
  <2>6. QED
    BY <1>0, <1>2, <2>1, <2>2, <2>3, <2>4, <2>5
    DEF CoverInv, PackagesCoverReport, At
<1>3. CASE OpenImage(c)
  BY <1>2, <1>3 DEF OpenImage, At, vaults
<1>4. CASE WriteImage(c)
  BY <1>2, <1>4 DEF WriteImage, At, vaults
<1>5. CASE AddEvidence(c)
  <2>1. work[c].image \in Images /\ image_files[work[c].image] # "missing"
    BY <1>0, <1>5 DEF AddEvidence, CoverInv, At
  <2>2. /\ Continue(c, Idle) /\ evidence' = evidence \cup {work[c].image}
        /\ UNCHANGED <<image_files, packages>>
    BY <1>5 DEF AddEvidence, vaults
  <2>3. work'[c] = Idle /\ \A d \in Clients : d # c => work'[d] = work[d]
    BY <1>0, <2>2, ContinueMoves
  <2>4. Idle.step = "idle"
    BY DEF Idle
  <2>5. QED
    BY <1>0, <2>1, <2>2, <2>3, <2>4 DEF CoverInv, PackagesCoverReport, At
<1>6. QED
  BY <1>1, <1>3, <1>4, <1>5 DEF Upload

\* So does creating a vault: what the report lists has a row, what has a row
\* has a file, and a file that is there is packed.
LEMMA CoverCreate ==
  ASSUME VaultTypeOK, CoverInv, RowInv, NEW c \in Clients, Create(c)
  PROVE  CoverInv'
<1>0. VaultTypeOK /\ CoverInv /\ work[c] \in Command /\ Idle.step = "idle"
  BY DEF VaultTypeOK, Idle
<1>1. ASSUME NEW next, Continue(c, next), next.step \notin CoverSteps,
             UNCHANGED <<image_files, evidence, packages>>
      PROVE  CoverInv'
  BY <1>0, <1>1, ContinueMoves, CoverKept
<1>2. ASSUME NEW step \in {"look", "install", "write_key", "load"}, Goto(c, step),
             \/ At(c, "read") /\ work[c].todo = {}
             \/ work[c].step \in {"look", "install"},
             UNCHANGED <<image_files, evidence, packages>>
      PROVE  CoverInv'
  <2>1. work[c].report \subseteq work[c].files
    BY <1>0, <1>2 DEF CoverInv, At
  <2>2. /\ work'[c] = [work[c] EXCEPT !.step = step]
        /\ \A d \in Clients : d # c => work'[d] = work[d]
    BY <1>0, <1>2, GotoMoves
  <2>3. /\ work'[c].step = step /\ work'[c].report = work[c].report
        /\ work'[c].files = work[c].files
    BY <1>0, <2>2 DEF Command
  <2>4. QED
    BY <1>0, <1>2, <2>1, <2>2, <2>3 DEF CoverInv, PackagesCoverReport, At
<1>3. ASSUME NEW key,
             Continue(c, [work[c] EXCEPT !.step = "open_package", !.key = key]),
             work[c].step \in {"write_key", "load"},
             UNCHANGED <<image_files, evidence, packages>>
      PROVE  CoverInv'
  <2> DEFINE next == [work[c] EXCEPT !.step = "open_package", !.key = key]
  <2>1. work[c].report \subseteq work[c].files
    BY <1>0, <1>3 DEF CoverInv
  <2>2. /\ next.step = "open_package" /\ next.report = work[c].report
        /\ next.files = work[c].files
    BY <1>0 DEF Command
  <2>3. Continue(c, next)
    BY <1>3
  <2> HIDE DEF next
  <2>4. work'[c] = next /\ \A d \in Clients : d # c => work'[d] = work[d]
    BY <1>0, <2>3, ContinueMoves
  <2>5. QED
    BY <1>0, <1>3, <2>1, <2>2, <2>4 DEF CoverInv, PackagesCoverReport, At
<1>4. CASE ReadReport(c)
  <2> DEFINE next == [work[c] EXCEPT !.step = "rows", !.report = evidence]
  <2>1. next.step = "rows" /\ next.report = evidence
    BY <1>0 DEF Command
  <2>2. Continue(c, next) /\ UNCHANGED <<image_files, evidence, packages>>
    BY <1>4 DEF ReadReport, images, vaults
  <2> HIDE DEF next
  <2>3. work'[c] = next /\ \A d \in Clients : d # c => work'[d] = work[d]
    BY <1>0, <2>2, ContinueMoves
  <2>4. QED
    BY <1>0, <2>1, <2>2, <2>3 DEF CoverInv, PackagesCoverReport, At
<1>5. CASE ReadRows(c)
  <2> DEFINE next == [work[c] EXCEPT !.step = "read", !.todo = evidence]
  <2>1. /\ next.step = "read" /\ next.todo = evidence
        /\ next.report = work[c].report
    BY <1>0 DEF Command
  <2>2. Continue(c, next) /\ UNCHANGED <<image_files, evidence, packages>>
    BY <1>5 DEF ReadRows, images, vaults
  <2> HIDE DEF next
  <2>3. work'[c] = next /\ \A d \in Clients : d # c => work'[d] = work[d]
    BY <1>0, <2>2, ContinueMoves
  <2>4. work[c].report \subseteq evidence
    BY <1>0, <1>5 DEF ReadRows, CoverInv, At
  <2>5. QED
    BY <1>0, <2>1, <2>2, <2>3, <2>4 DEF CoverInv, PackagesCoverReport, At
<1>6. CASE ReadFile(c)
  <2>1. PICK i \in work[c].todo :
          Continue(c, [work[c] EXCEPT !.todo = @ \ {i},
                         !.files = IF image_files[i] = "missing" THEN @
                                   ELSE @ \cup {i}])
    BY <1>6 DEF ReadFile
  <2> DEFINE next == [work[c] EXCEPT !.todo = @ \ {i},
                         !.files = IF image_files[i] = "missing" THEN @
                                   ELSE @ \cup {i}]
  <2>2. /\ work[c].step = "read" /\ work[c].todo \subseteq evidence
        /\ work[c].report \subseteq work[c].todo \cup work[c].files
    BY <1>0, <1>6 DEF ReadFile, At, CoverInv
  <2>3. image_files[i] # "missing"
    BY <1>0, <2>2 DEF CoverInv
  <2>4. /\ next.step = "read" /\ next.todo = work[c].todo \ {i}
        /\ next.report = work[c].report
        /\ next.files = work[c].files \cup {i}
    BY <1>0, <2>2, <2>3 DEF Command
  <2>5. Continue(c, next) /\ UNCHANGED <<image_files, evidence, packages>>
    BY <1>6, <2>1 DEF ReadFile, images, vaults
  <2> HIDE DEF next
  <2>6. work'[c] = next /\ \A d \in Clients : d # c => work'[d] = work[d]
    BY <1>0, <2>5, ContinueMoves
  <2>7. QED
    BY <1>0, <2>2, <2>4, <2>5, <2>6 DEF CoverInv, PackagesCoverReport, At
<1>7. CASE RefuseInput(c) \/ RecordExport(c)
  BY <1>0, <1>1, <1>7
  DEF RefuseInput, RecordExport, Finish, images, vaults, CoverSteps
<1>8. CASE Encrypt(c)
  BY <1>2, <1>8 DEF Encrypt, images, vaults
<1>9. CASE LookForKey(c)
  BY <1>2, <1>9 DEF LookForKey, At, images, vaults
<1>10. CASE InstallKey(c)
  BY <1>2, <1>10 DEF InstallKey, At, images, vaults
<1>11. CASE WriteKey(c)
  BY <1>3, <1>11 DEF WriteKey, At, images, vaults
<1>12. CASE LoadKey(c)
  BY <1>0, <1>1, <1>3, <1>12
  DEF LoadKey, Finish, At, images, vaults, CoverSteps
<1>13. CASE OpenPackage(c)
  <2> DEFINE new == [written |-> FALSE, key |-> work[c].key,
                     report |-> work[c].report, files |-> work[c].files]
             next == [work[c] EXCEPT !.step = "write_package",
                                     !.at = Len(packages) + 1]
  <2>1. new.report \subseteq new.files
    BY <1>0, <1>13 DEF OpenPackage, CoverInv, At
  <2>2. next.step \notin CoverSteps
    BY <1>0 DEF Command, CoverSteps
  <2>3. /\ Continue(c, next) /\ packages' = Append(packages, new)
        /\ UNCHANGED <<image_files, evidence>>
    BY <1>13 DEF OpenPackage, images
  <2> HIDE DEF new, next
  <2>4. work'[c] = next /\ \A d \in Clients : d # c => work'[d] = work[d]
    BY <1>0, <2>3, ContinueMoves
  <2>5. PackagesCoverReport'
    BY <1>0, <2>1, <2>3 DEF CoverInv, PackagesCoverReport, VaultTypeOK
  <2>6. QED
    BY <1>0, <2>2, <2>3, <2>4, <2>5 DEF CoverInv, CoverSteps, At
<1>14. CASE WritePackage(c)
  <2>1. /\ Goto(c, "record") /\ UNCHANGED <<image_files, evidence>>
        /\ packages' = [packages EXCEPT ![work[c].at].written = TRUE]
    BY <1>14 DEF WritePackage, images
  <2>2. /\ packages \in Seq(Package)
        /\ \A n \in DOMAIN packages : packages[n] \in Package
    BY <1>0 DEF VaultTypeOK
  <2>3. \A n \in DOMAIN packages' :
          /\ n \in DOMAIN packages
          /\ packages'[n].report = packages[n].report
          /\ packages'[n].files = packages[n].files
    BY <2>1, <2>2 DEF Package
  <2>4. PackagesCoverReport'
    BY <1>0, <2>3 DEF CoverInv, PackagesCoverReport
  <2>5. /\ work'[c].step = "record"
        /\ \A d \in Clients : d # c => work'[d] = work[d]
    BY <1>0, <2>1, GotoMoves
  <2>6. QED
    BY <1>0, <2>1, <2>4, <2>5 DEF CoverInv, CoverSteps, At
<1>15. QED
  BY <1>4, <1>5, <1>6, <1>7, <1>8, <1>9, <1>10, <1>11, <1>12, <1>13, <1>14
  DEF Create

\* Every step keeps CoverInv.
LEMMA CoverStep ==
  ASSUME VaultInv, CoverInv, [Next]_vars
  PROVE  CoverInv'
<1>0. VaultTypeOK /\ CoverInv /\ RowInv /\ Idle.step = "idle"
  BY DEF VaultInv, Idle
<1>1. ASSUME NEW c \in Clients, NEW next, Continue(c, next),
             next.step \notin CoverSteps,
             UNCHANGED <<image_files, evidence, packages>>
      PROVE  CoverInv'
  BY <1>0, <1>1, ContinueMoves, CoverKept
<1>2. ASSUME NEW c \in Clients, Request(c) PROVE CoverInv'
  BY <1>1, <1>2
  DEF Request, BeginUpload, BeginCreate, BeginVerify, Idle, CoverSteps, images,
      vaults
<1>3. ASSUME NEW c \in Clients, Verify(c) PROVE CoverInv'
  <2> DEFINE next == [work[c] EXCEPT !.step = "verdict",
       !.verdict = IF Valid(packages[vault_exports[work[c].at].package])
                   THEN "verified" ELSE "invalid"]
  <2>1. work[c] \in Command
    BY <1>0, <1>3 DEF VaultTypeOK
  <2>2. next.step \notin CoverSteps
    BY <2>1 DEF Command, CoverSteps
  <2>3. Continue(c, next) /\ UNCHANGED <<image_files, evidence, packages>>
    BY <1>3 DEF Verify, images, vaults
  <2> HIDE DEF next
  <2>4. QED
    BY <1>1, <1>3, <2>2, <2>3
<1>4. ASSUME NEW c \in Clients, RecordVerdict(c) \/ Error(c) PROVE CoverInv'
  BY <1>0, <1>1, <1>4
  DEF RecordVerdict, Error, Finish, images, vaults, CoverSteps
<1>5. ASSUME NEW p \in Processes, Crash(p) PROVE CoverInv'
  <2>1. /\ \A d \in Clients : work'[d] = work[d] \/ work'[d] = Idle
        /\ UNCHANGED <<image_files, evidence, packages>>
    BY <1>5 DEF Crash, images, vaults
  <2>2. QED
    BY <1>0, <2>1, CoverKept DEF CoverSteps
<1>6. CASE UNCHANGED vars
  BY <1>0, <1>6, CoverKept DEF vars
<1>7. QED
  BY <1>0, <1>2, <1>3, <1>4, <1>5, <1>6, CoverUpload, CoverCreate
  DEF Next, Check

\* A package holds the file of every image its report lists
\* (create_evidence_vault reads report, rows and files one after the other).
THEOREM PackagesComplete == Spec => []PackagesCoverReport
<1>1. Init => VaultInv
  BY VaultInit
<1>2. Init => CoverInv
  BY DEF Init, CoverInv, PackagesCoverReport, At, Idle
<1>3. VaultInv /\ [Next]_vars => VaultInv'
  BY VaultStep
<1>4. VaultInv /\ CoverInv /\ [Next]_vars => CoverInv'
  BY CoverStep
<1>5. CoverInv => PackagesCoverReport
  BY DEF CoverInv
<1>6. QED
  BY <1>1, <1>2, <1>3, <1>4, <1>5, PTL DEF Spec

-----------------------------------------------------------------------------
(* The vault lock                                                           *)

\* A client that goes on without the lock being touched stays on its side.
LEMMA LockKept ==
  ASSUME VaultTypeOK, SerializedPerProcess, NEW c \in Clients, NEW next,
         Continue(c, next), UNCHANGED vault_lock,
         next.step \in CreateSteps <=> work[c].step \in CreateSteps
  PROVE  SerializedPerProcess'
<1>1. work'[c] = next /\ \A d \in Clients : d # c => work'[d] = work[d]
  BY ContinueMoves
<1> QED
  BY <1>1 DEF SerializedPerProcess

LEMMA LockFinish ==
  ASSUME VaultTypeOK, SerializedPerProcess, NEW c \in Clients, Finish(c)
  PROVE  SerializedPerProcess'
<1>1. work'[c] = Idle /\ \A d \in Clients : d # c => work'[d] = work[d]
  BY ContinueMoves DEF Finish
<1>2. Idle.step \notin CreateSteps
  BY DEF Idle, CreateSteps
<1>3. \A d \in Clients : ProcessOf[d] \in Processes /\ d # Nobody
  BY VaultAssumption
<1>4. \A d \in Clients : vault_lock'[ProcessOf[d]] =
        IF vault_lock[ProcessOf[d]] = c THEN Nobody ELSE vault_lock[ProcessOf[d]]
  BY <1>3 DEF Finish, Release
<1> QED
  BY <1>1, <1>2, <1>3, <1>4 DEF SerializedPerProcess

LEMMA LockCreate ==
  ASSUME VaultTypeOK, SerializedPerProcess, NEW c \in Clients, Create(c)
  PROVE  SerializedPerProcess'
<1>0. work[c] \in Command
  BY DEF VaultTypeOK
<1>1. CASE RefuseInput(c) \/ RecordExport(c) \/ (LoadKey(c) /\ Finish(c))
  BY <1>1, LockFinish DEF RefuseInput, RecordExport
<1>2. CASE ReadReport(c)
  <2>1. [work[c] EXCEPT !.step = "rows", !.report = evidence].step = "rows"
    BY <1>0 DEF Command
  <2> QED
    BY <1>2, <2>1, LockKept DEF ReadReport, At, CreateSteps
<1>3. CASE ReadRows(c)
  <2>1. [work[c] EXCEPT !.step = "read", !.todo = evidence].step = "read"
    BY <1>0 DEF Command
  <2> QED
    BY <1>3, <2>1, LockKept DEF ReadRows, At, CreateSteps
<1>4. CASE ReadFile(c)
  <2>1. PICK todo, files : Continue(c, [work[c] EXCEPT !.todo = todo, !.files = files])
    BY <1>4 DEF ReadFile
  <2>2. [work[c] EXCEPT !.todo = todo, !.files = files].step = work[c].step
    BY <1>0 DEF Command
  <2> QED
    BY <1>4, <2>1, <2>2, LockKept DEF ReadFile
<1>5. CASE Encrypt(c) \/ LookForKey(c) \/ InstallKey(c) \/ WritePackage(c)
  <2>1. PICK s \in CreateSteps : Goto(c, s)
    BY <1>5 DEF Encrypt, LookForKey, InstallKey, WritePackage, CreateSteps
  <2>2. work[c].step \in CreateSteps /\ UNCHANGED vault_lock
    BY <1>5 DEF Encrypt, LookForKey, InstallKey, WritePackage, At, CreateSteps
  <2>3. [work[c] EXCEPT !.step = s].step = s
    BY <1>0 DEF Command
  <2> QED
    BY <2>1, <2>2, <2>3, LockKept DEF Goto
<1>6. ASSUME NEW key,
             Continue(c, [work[c] EXCEPT !.step = "open_package", !.key = key]),
             work[c].step \in {"write_key", "load"}, UNCHANGED vault_lock
      PROVE  SerializedPerProcess'
  <2>1. [work[c] EXCEPT !.step = "open_package", !.key = key].step = "open_package"
    BY <1>0 DEF Command
  <2> QED
    BY <1>6, <2>1, LockKept DEF CreateSteps
<1>7. CASE OpenPackage(c)
  <2>1. [work[c] EXCEPT !.step = "write_package", !.at = Len(packages) + 1].step
          = "write_package"
    BY <1>0 DEF Command
  <2> QED
    BY <1>7, <2>1, LockKept DEF OpenPackage, At, CreateSteps
<1> QED
  BY <1>1, <1>2, <1>3, <1>4, <1>5, <1>6, <1>7 DEF Create, WriteKey, LoadKey, At

LEMMA LockStep ==
  ASSUME VaultTypeOK, SerializedPerProcess, [Next]_vars
  PROVE  SerializedPerProcess'
<1>0. \A c \in Clients : work[c] \in Command /\ ProcessOf[c] \in Processes /\ c # Nobody
  BY VaultAssumption DEF VaultTypeOK
<1>1. \A c \in Clients : \A s : [work[c] EXCEPT !.step = s].step = s
  BY <1>0 DEF Command
<1>2. ASSUME NEW c \in Clients, BeginCreate(c) PROVE SerializedPerProcess'
  <2>1. work'[c].step = "report" /\ \A d \in Clients : d # c => work'[d] = work[d]
    BY <1>2, ContinueMoves DEF BeginCreate, Idle
  <2>2. /\ vault_lock[ProcessOf[c]] = Nobody
        /\ \A d \in Clients : vault_lock'[ProcessOf[d]] =
             IF ProcessOf[d] = ProcessOf[c] THEN c ELSE vault_lock[ProcessOf[d]]
    BY <1>0, <1>2 DEF BeginCreate, VaultTypeOK
  <2> QED
    BY <1>0, <2>1, <2>2 DEF SerializedPerProcess, CreateSteps
<1>3. ASSUME NEW c \in Clients, Request(c), ~BeginCreate(c) PROVE SerializedPerProcess'
  <2>1. ASSUME NEW next, work[c] = Idle, UNCHANGED vault_lock, Continue(c, next),
               next.step \in {"check", "verify"}
        PROVE  SerializedPerProcess'
    BY <2>1, LockKept DEF Idle, CreateSteps
  <2>2. ASSUME NEW i \in Images, BeginUpload(c, i) PROVE SerializedPerProcess'
    BY <2>1, <2>2 DEF BeginUpload, Idle
  <2>3. ASSUME NEW row \in DOMAIN vault_exports, BeginVerify(c, row)
        PROVE  SerializedPerProcess'
    BY <2>1, <2>3 DEF BeginVerify, Idle
  <2> QED
    BY <1>3, <2>2, <2>3 DEF Request
<1>4. ASSUME NEW c \in Clients, Upload(c) PROVE SerializedPerProcess'
  <2>1. PICK s \in {"open", "write", "row"} : AddEvidence(c) \/ Goto(c, s)
    BY <1>4 DEF Upload, CheckImage, OpenImage, WriteImage
  <2>2. work[c].step \notin CreateSteps /\ UNCHANGED vault_lock
    BY <1>4 DEF Upload, CheckImage, OpenImage, WriteImage, AddEvidence, At, CreateSteps
  <2> QED
    BY <1>1, <2>1, <2>2, LockKept DEF AddEvidence, Goto, Idle, CreateSteps
<1>5. ASSUME NEW c \in Clients, Verify(c) PROVE SerializedPerProcess'
  <2>1. PICK v : Continue(c, [work[c] EXCEPT !.step = "verdict", !.verdict = v])
    BY <1>5 DEF Verify
  <2>2. [work[c] EXCEPT !.step = "verdict", !.verdict = v].step = "verdict"
    BY <1>0 DEF Command
  <2> QED
    BY <1>5, <2>1, <2>2, LockKept DEF Verify, At, CreateSteps
<1>6. ASSUME NEW c \in Clients, RecordVerdict(c) PROVE SerializedPerProcess'
  BY <1>6, LockKept DEF RecordVerdict, At, Idle, CreateSteps
<1>7. ASSUME NEW c \in Clients, Error(c) PROVE SerializedPerProcess'
  BY <1>7, LockFinish DEF Error
<1>8. ASSUME NEW p \in Processes, Crash(p) PROVE SerializedPerProcess'
  <2>1. \A d \in Clients :
          /\ work'[d] = IF ProcessOf[d] = p THEN Idle ELSE work[d]
          /\ vault_lock'[ProcessOf[d]] =
               IF ProcessOf[d] = p THEN Nobody ELSE vault_lock[ProcessOf[d]]
    BY <1>0, <1>8 DEF Crash, VaultTypeOK
  <2> QED
    BY <1>0, <2>1 DEF SerializedPerProcess, Idle, CreateSteps
<1>9. CASE UNCHANGED vars
  BY <1>9 DEF vars, SerializedPerProcess
<1> QED
  BY <1>2, <1>3, <1>4, <1>5, <1>6, <1>7, <1>8, <1>9, LockCreate DEF Next, Check

\* The vault lock of a process is held exactly by its client that creates a
\* vault, and given back on every way out (create_evidence_vault's finally).
THEOREM CreationSerialized == Spec => []SerializedPerProcess
<1>1. Init => SerializedPerProcess
  BY VaultAssumption DEF Init, SerializedPerProcess, Idle, CreateSteps
<1> QED
  BY <1>1, LockStep, VaultTypeCorrect, PTL DEF Spec

-----------------------------------------------------------------------------
(* Files that are half written                                              *)

\* A client that was not writing, and touches neither images nor key, leaves
\* every half-written file to its writer.
LEMMA HalfKept ==
  ASSUME VaultTypeOK, HalfWrittenNeedsFault, CoverInv', NEW c \in Clients, NEW next,
         Continue(c, next), work[c].step \notin {"write", "write_key"},
         UNCHANGED <<image_files, key_file, faults>>
  PROVE  HalfWrittenNeedsFault'
<1>1. \A d \in Clients : d # c => work'[d] = work[d]
  BY ContinueMoves
<1> QED
  BY <1>1 DEF HalfWrittenNeedsFault, Writing, At, CoverInv

LEMMA HalfStep ==
  ASSUME VaultInv, HalfWrittenNeedsFault, CoverInv', [Next]_vars
  PROVE  HalfWrittenNeedsFault'
<1>0. /\ VaultTypeOK /\ HalfWrittenNeedsFault /\ CoverInv'
      /\ \A c \in Clients : work[c] \in Command /\ c # EmptyKey
  BY VaultAssumption DEF VaultInv, VaultTypeOK
<1>1. ASSUME NEW c \in Clients, Request(c) PROVE HalfWrittenNeedsFault'
  <2>1. work[c] = Idle /\ UNCHANGED <<image_files, key_file, faults>>
    BY <1>1 DEF Request, BeginUpload, BeginCreate, BeginVerify, images
  <2>2. work[c].step \notin {"write", "write_key"}
    BY <2>1 DEF Idle
  <2>3. ASSUME NEW next, Continue(c, next) PROVE HalfWrittenNeedsFault'
    BY <1>0, <2>1, <2>2, <2>3, HalfKept
  <2> QED
    BY <1>1, <2>3 DEF Request, BeginUpload, BeginCreate, BeginVerify
<1>2. ASSUME NEW c \in Clients, CheckImage(c) \/ AddEvidence(c)
      PROVE  HalfWrittenNeedsFault'
  BY <1>0, <1>2, HalfKept DEF CheckImage, AddEvidence, Goto, At, images
<1>3. ASSUME NEW c \in Clients, OpenImage(c) PROVE HalfWrittenNeedsFault'
  <2>1. /\ work'[c] = [work[c] EXCEPT !.step = "write"]
        /\ \A d \in Clients : d # c => work'[d] = work[d]
    BY <1>0, <1>3, GotoMoves DEF OpenImage
  <2>2. work'[c].step = "write" /\ work'[c].image = work[c].image
    BY <1>0, <2>1 DEF Command
  <2>3. \A i \in Images : i # work[c].image => image_files'[i] = image_files[i]
    BY <1>0, <1>3 DEF OpenImage, VaultTypeOK
  <2>4. UNCHANGED <<key_file, faults>> /\ work[c].step = "open"
    BY <1>3 DEF OpenImage, At
  <2>5. \A i \in evidence' : i \in Images /\ image_files'[i] # "missing"
    BY <1>0, <1>3 DEF CoverInv, OpenImage, VaultTypeOK
  <2>6. faults = 0 => \A i \in Images : image_files'[i] = "partial" => Writing(i)'
    <3> SUFFICES ASSUME faults = 0, NEW i \in Images, image_files'[i] = "partial"
                 PROVE  Writing(i)'
      OBVIOUS
    <3>1. CASE i = work[c].image
      BY <2>2, <3>1 DEF Writing, At
    <3>2. CASE i # work[c].image
      <4>1. PICK d \in Clients : At(d, "write") /\ work[d].image = i
        BY <1>0, <2>3, <3>2 DEF HalfWrittenNeedsFault, Writing
      <4> QED
        BY <2>1, <2>4, <4>1 DEF Writing, At
    <3> QED
      BY <3>1, <3>2
  <2>7. faults = 0 /\ key_file = EmptyKey => \E d \in Clients : At(d, "write_key")'
    BY <1>0, <2>1, <2>4 DEF HalfWrittenNeedsFault, At
  <2> QED
    BY <2>4, <2>5, <2>6, <2>7 DEF HalfWrittenNeedsFault
<1>4. ASSUME NEW c \in Clients, WriteImage(c) PROVE HalfWrittenNeedsFault'
  <2>1. \A d \in Clients : d # c => work'[d] = work[d]
    BY <1>0, <1>4, GotoMoves DEF WriteImage
  <2>2. /\ \A i \in Images : i # work[c].image => image_files'[i] = image_files[i]
        /\ work[c].image \in Images => image_files'[work[c].image] = "whole"
    BY <1>0, <1>4 DEF WriteImage, VaultTypeOK
  <2>3. UNCHANGED <<key_file, faults>> /\ work[c].step = "write"
    BY <1>4 DEF WriteImage, At
  <2>4. \A i \in evidence' : image_files'[i] # "missing"
    BY <1>0 DEF CoverInv
  <2> QED
    BY <1>0, <2>1, <2>2, <2>3, <2>4 DEF HalfWrittenNeedsFault, Writing, At
<1>5. ASSUME NEW c \in Clients, InstallKey(c) PROVE HalfWrittenNeedsFault'
  <2>1. CASE Goto(c, "load") /\ UNCHANGED key_file
    BY <1>0, <1>5, <2>1, HalfKept DEF InstallKey, Goto, At, images
  <2>2. CASE Goto(c, "write_key")
    <3>1. work'[c].step = "write_key" /\ \A d \in Clients : d # c => work'[d] = work[d]
      BY <1>0, <2>2, GotoMoves
    <3>2. UNCHANGED <<image_files, evidence, faults>> /\ work[c].step = "install"
      BY <1>5 DEF InstallKey, At, images
    <3> QED
      BY <1>0, <3>1, <3>2 DEF HalfWrittenNeedsFault, Writing, At, CoverInv
  <2> QED
    BY <1>5, <2>1, <2>2 DEF InstallKey
<1>6. ASSUME NEW c \in Clients, WriteKey(c) PROVE HalfWrittenNeedsFault'
  <2>1. \A d \in Clients : d # c => work'[d] = work[d]
    BY <1>0, <1>6, ContinueMoves DEF WriteKey
  <2>2. /\ UNCHANGED <<image_files, evidence, faults>>
        /\ work[c].step = "write_key" /\ key_file' # EmptyKey
    BY <1>0, <1>6 DEF WriteKey, At, images
  <2> QED
    BY <1>0, <2>1, <2>2 DEF HalfWrittenNeedsFault, Writing, At, CoverInv
<1>7. ASSUME NEW c \in Clients,
             \/ ReadReport(c) \/ ReadRows(c) \/ ReadFile(c) \/ RefuseInput(c) \/ Encrypt(c)
             \/ LookForKey(c) \/ LoadKey(c) \/ OpenPackage(c) \/ WritePackage(c)
             \/ RecordExport(c) \/ Check(c)
      PROVE  HalfWrittenNeedsFault'
  <2>1. /\ work[c].step \notin {"write", "write_key"}
        /\ UNCHANGED <<image_files, key_file, faults>>
    BY <1>7 DEF ReadReport, ReadRows, ReadFile, RefuseInput, Encrypt, LookForKey, LoadKey,
                OpenPackage, WritePackage, RecordExport, Check, Verify, RecordVerdict, At,
                images
  <2>2. ASSUME NEW next, Continue(c, next) PROVE HalfWrittenNeedsFault'
    BY <1>0, <2>1, <2>2, HalfKept
  <2>3. CASE ReadReport(c) \/ ReadRows(c) \/ ReadFile(c) \/ OpenPackage(c)
    BY <2>2, <2>3 DEF ReadReport, ReadRows, ReadFile, OpenPackage
  <2>4. CASE RefuseInput(c) \/ LoadKey(c) \/ RecordExport(c) \/ Check(c)
    BY <2>2, <2>4 DEF RefuseInput, LoadKey, RecordExport, Check, Verify, RecordVerdict,
                      Finish
  <2>5. CASE Encrypt(c) \/ LookForKey(c) \/ WritePackage(c)
    BY <2>2, <2>5 DEF Encrypt, LookForKey, WritePackage, Goto
  <2> QED
    BY <1>7, <2>3, <2>4, <2>5
<1>8. ASSUME Fault PROVE HalfWrittenNeedsFault'
  BY <1>0, <1>8 DEF Fault, HalfWrittenNeedsFault, VaultTypeOK
<1>9. CASE UNCHANGED vars
  BY <1>0, <1>9 DEF vars, HalfWrittenNeedsFault, Writing, At
<1> QED
  BY <1>1, <1>2, <1>3, <1>4, <1>5, <1>6, <1>7, <1>8, <1>9
  DEF Next, Upload, Create, Error, Crash

\* Without a fault, a file that is created and not written has its writer at
\* work (add_local_image, _load_or_create_signing_key).
THEOREM HalfWrittenHasWriter == Spec => []HalfWrittenNeedsFault
<1>1. Init => VaultInv /\ CoverInv
  BY VaultInit DEF Init, CoverInv, PackagesCoverReport, At, Idle
<1>2. Init => HalfWrittenNeedsFault
  BY VaultAssumption DEF Init, HalfWrittenNeedsFault
<1>3. VaultInv /\ [Next]_vars => VaultInv'
  BY VaultStep
<1>4. VaultInv /\ CoverInv /\ [Next]_vars => CoverInv'
  BY CoverStep
<1>5. VaultInv /\ CoverInv' /\ HalfWrittenNeedsFault /\ [Next]_vars => HalfWrittenNeedsFault'
  BY HalfStep
<1> QED
  BY <1>1, <1>2, <1>3, <1>4, <1>5, PTL DEF Spec
=============================================================================
