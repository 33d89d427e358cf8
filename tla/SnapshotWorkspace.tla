--------------------------- MODULE SnapshotWorkspace ---------------------------
(***************************************************************************)
(* The workspace of one external snapshot (external_data/manifest.py): a   *)
(* directory of files, each a set of lines, and the manifest that          *)
(* registers them with their checksums.  A file and the manifest are       *)
(* replaced atomically, one after the other: Store writes a file and       *)
(* leaves the manifest dirty, WriteManifest registers what was stored.     *)
(* A crash loses the memory of the process and keeps the disk.  A checksum *)
(* is modelled by the content it stands for.                               *)
(***************************************************************************)
EXTENDS Naturals, Sequences, FiniteSets, Functions

CONSTANTS
  Provider,     \* the asset managers whose crawls are checked
  MaxCrashes    \* bound: how often the process is killed

VARIABLES
  provider,     \* whose snapshot this is
  made,         \* the directory exists
  disk,         \* the files: name -> set of lines, {} when there is no file
  manifest,     \* manifest.json: status and registered files; "absent" before
  memory,       \* the manifest as the running process holds it
  dirty,        \* the process has stored something it has not registered
  known,        \* the source records the process holds
  at,           \* where the process stands; "idle" when none runs
  crashes       \* how often a process was killed

workspaceVars == <<provider, made, disk, manifest, memory, dirty, known, at, crashes>>

File == {"raw", "records", "holdings", "links", "pass1", "pass2", "results", "catalog"}
Status == {"absent", "BUILDING", "PARTIAL", "READY"}

NoManifest == [status |-> "absent", entries |-> << >>]

Registered(m) == DOMAIN m.entries

\* What the manifest m registers for file f: no lines when it registers none.
Entry(m, f) == IF f \in Registered(m) THEN m.entries[f] ELSE {}

With(m, f, lines) ==
  [m EXCEPT !.entries = [g \in Registered(m) \cup {f} |-> IF g = f THEN lines ELSE m.entries[g]]]

WorkspaceInit ==
  /\ provider \in Provider
  /\ made = FALSE
  /\ disk = [f \in File |-> {}]
  /\ manifest = NoManifest
  /\ memory = NoManifest
  /\ dirty = FALSE
  /\ known = {}
  /\ at = "idle"
  /\ crashes = 0

\* A new snapshot: its directory must not exist (exist_ok=False).
Create(next) ==
  /\ at = "idle"
  /\ ~made
  /\ made' = TRUE
  /\ memory' = [NoManifest EXCEPT !.status = "BUILDING"]
  /\ dirty' = TRUE
  /\ known' = {}
  /\ at' = next
  /\ UNCHANGED <<provider, disk, manifest, crashes>>

\* Fault: resuming whatever the status.
ResumeAlways(next) ==
  /\ at = "idle"
  /\ manifest.status # "absent"
  /\ memory' = [manifest EXCEPT !.status = "BUILDING"]
  /\ dirty' = TRUE
  /\ known' = IF "records" \in Registered(manifest) THEN disk["records"] ELSE {}
  /\ at' = next
  /\ UNCHANGED <<provider, made, disk, manifest, crashes>>

\* An unfinished snapshot is taken up again.  The source records come from
\* the file, if the manifest registers one; checksums are not compared.
Resume(next) ==
  /\ at = "idle"
  /\ manifest.status \in {"BUILDING", "PARTIAL"}
  /\ memory' = [manifest EXCEPT !.status = "BUILDING"]
  /\ dirty' = TRUE
  /\ known' = IF "records" \in Registered(manifest) THEN disk["records"] ELSE {}
  /\ at' = next
  /\ UNCHANGED <<provider, made, disk, manifest, crashes>>

\* A file is replaced, and its entry with it, in memory.
Store(f, lines, next) ==
  /\ disk' = [disk EXCEPT ![f] = lines]
  /\ memory' = With(memory, f, lines)
  /\ dirty' = TRUE
  /\ at' = next
  /\ UNCHANGED <<provider, made, manifest, crashes>>

\* The raw bytes of a response are kept once; their file may have survived a
\* crash that their entry did not.
PreserveRaw(response, next) ==
  /\ disk' = [disk EXCEPT !["raw"] = @ \cup {response}]
  /\ memory' = With(memory, "raw", Entry(memory, "raw") \cup {response})
  /\ dirty' = TRUE
  /\ at' = next
  /\ UNCHANGED <<provider, made, manifest, known, crashes>>

\* A record whose identifier is known is left as it is; the file is written anew.
SourceRecords(record) ==
  IF \E old \in known : old.response = record.response THEN known ELSE known \cup {record}

WriteManifest ==
  /\ dirty
  /\ manifest' = memory
  /\ dirty' = FALSE
  /\ UNCHANGED <<provider, made, disk, memory, known, at, crashes>>

\* The process ends in an exception: what it registered stays BUILDING.
Abort ==
  /\ at' = "idle"
  /\ memory' = NoManifest
  /\ known' = {}
  /\ UNCHANGED <<provider, made, disk, manifest, dirty, crashes>>

Finalize(status, next) ==
  /\ memory' = [memory EXCEPT !.status = status]
  /\ dirty' = TRUE
  /\ at' = next
  /\ UNCHANGED <<provider, made, disk, manifest, known, crashes>>

\* The process is killed.
Crash ==
  /\ at # "idle" \/ dirty
  /\ crashes < MaxCrashes
  /\ crashes' = crashes + 1
  /\ at' = "idle"
  /\ dirty' = FALSE
  /\ memory' = NoManifest
  /\ known' = {}
  /\ UNCHANGED <<provider, made, disk, manifest>>

=============================================================================
