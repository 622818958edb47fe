------------------------------- MODULE Backup -------------------------------
(***************************************************************************)
(* worker/backup-workflow.ts and the cron of worker/index.ts that starts   *)
(* it: weekly and monthly exports of the database, kept in R2.  A workflow *)
(* is a sequence of durable steps, each retried by the platform and then   *)
(* failed; a weekly and a monthly one run side by side, and each trims     *)
(* both kinds.  Two of one kind are a week apart and never overlap.        *)
(***************************************************************************)
EXTENDS Naturals, Sequences, FiniteSets

CONSTANTS
    Kinds,         \* the runs in the order of their start: their kinds
    Keep,          \* snapshots of each kind that are kept (twelve)
    Attempts       \* attempts at storing one

Kind == {"weekly", "monthly"}
Backups == DOMAIN Kinds

ASSUME BackupConstants ==
    /\ Kinds \in Seq(Kind)
    /\ Keep \in Nat \ {0} /\ Attempts \in Nat \ {0}

VARIABLES
    record,        \* backup_runs: the status of each run
    object,        \* the runs whose .sql object is stored
    manifest,      \* the runs whose manifest is stored
    workflow       \* the instances

backupVars == <<record, object, manifest, workflow>>

BackupInit ==
    /\ record = [b \in Backups |-> "none"]
    /\ object = {}
    /\ manifest = {}
    /\ workflow = [b \in Backups |-> [pc |-> "new", tries |-> Attempts, stale |-> {}]]

Advance(b, pc) == workflow' = [workflow EXCEPT ![b].pc = pc]

----------------------------------------------------------------------------
(* run *)

\* scheduled creates the instance; its first step is an INSERT OR IGNORE.
StartBackup(b) ==
    /\ workflow[b].pc = "new"
    /\ \A c \in Backups : c < b => workflow[c].pc # "new"
    /\ \A c \in Backups : c < b /\ Kinds[c] = Kinds[b] => workflow[c].pc = "done"
    /\ record' = [record EXCEPT ![b] = IF @ = "none" THEN "running" ELSE @]
    /\ Advance(b, "export")
    /\ UNCHANGED <<object, manifest>>

\* The export and its polls: complete, or an error, a timeout, no bookmark.
Export(b) ==
    /\ workflow[b].pc = "export"
    /\ \E pc \in {"upload", "failed"} : Advance(b, pc)
    /\ UNCHANGED <<record, object, manifest>>

\* One attempt too many.
MutantAttemptFails(b) ==
    workflow' = [workflow EXCEPT ![b].tries = @ - 1,
                                 ![b].pc = IF workflow[b].tries > 0 THEN "upload" ELSE "failed"]

\* An attempt at storing fails; the step starts over or gives up.
AttemptFails(b) ==
    workflow' = [workflow EXCEPT ![b].tries = @ - 1,
                                 ![b].pc = IF workflow[b].tries > 1 THEN "upload" ELSE "failed"]

\* streamBackupToR2: the object appears when the upload is completed, over the
\* one of an earlier attempt, or the upload is aborted.
Upload(b) ==
    /\ workflow[b].pc = "upload"
    /\ \/ /\ object' = object \union {b}
          /\ Advance(b, "manifest")
       \/ /\ AttemptFails(b)
          /\ UNCHANGED object
    /\ UNCHANGED <<record, manifest>>

StoreManifest(b) ==
    /\ workflow[b].pc = "manifest"
    /\ \/ /\ manifest' = manifest \union {b}
          /\ Advance(b, "record")
       \/ /\ AttemptFails(b)
          /\ UNCHANGED manifest
    /\ UNCHANGED <<record, object>>

RecordCompletion(b) ==
    /\ workflow[b].pc = "record"
    /\ \/ /\ record' = [record EXCEPT ![b] = "complete"]
          /\ Advance(b, "list weekly")
       \/ /\ Advance(b, "failed")
          /\ UNCHANGED record
    /\ UNCHANGED <<object, manifest>>

\* The catch block; its own step may fail, and the run stays "running".
RecordFailure(b) ==
    /\ workflow[b].pc = "failed"
    /\ record' \in {record, [record EXCEPT ![b] = "failed"]}
    /\ Advance(b, "done")
    /\ UNCHANGED <<object, manifest>>

----------------------------------------------------------------------------
(* enforceBackupRetention: list and delete, weekly then monthly. *)

\* The runs of a kind upload in the order of their start.
Stored(kind) == {b \in object : Kinds[b] = kind}
Newer(b) == {c \in Stored(Kinds[b]) : c > b}

\* Oldest first.
MutantStaleOf(kind) ==
    {b \in Stored(kind) : Cardinality({c \in Stored(kind) : c < b}) >= Keep}

\* Newest first, all after the first Keep.
StaleOf(kind) == {b \in Stored(kind) : Cardinality(Newer(b)) >= Keep}

ListStale(b, pc, kind, next) ==
    /\ workflow[b].pc = pc
    /\ workflow' = [workflow EXCEPT ![b].stale = StaleOf(kind), ![b].pc = next]
    /\ UNCHANGED <<record, object, manifest>>

DeleteStale(b, pc, next) ==
    LET stale == workflow[b].stale
    IN  /\ workflow[b].pc = pc
        /\ object' = object \ stale
        /\ manifest' = manifest \ stale
        /\ workflow' = [workflow EXCEPT ![b].stale = {}, ![b].pc = next]
        /\ UNCHANGED record

Trim(b) ==
    \/ ListStale(b, "list weekly", "weekly", "delete weekly")
    \/ DeleteStale(b, "delete weekly", "list monthly")
    \/ ListStale(b, "list monthly", "monthly", "delete monthly")
    \/ DeleteStale(b, "delete monthly", "done")

\* The step is tried again from its beginning, or fails the whole run; a
\* deletion of many keys may have deleted some of them.
TrimFails(b) ==
    /\ workflow[b].pc \in {"list weekly", "delete weekly", "list monthly", "delete monthly"}
    /\ \E gone, lost \in SUBSET workflow[b].stale :
           object' = object \ gone /\ manifest' = manifest \ lost
    /\ \E pc \in {"list weekly", "failed"} :
           workflow' = [workflow EXCEPT ![b].stale = {}, ![b].pc = pc]
    /\ UNCHANGED record

BackupStep ==
    \E b \in Backups : \/ StartBackup(b) \/ Export(b) \/ Upload(b) \/ StoreManifest(b)
                       \/ RecordCompletion(b) \/ RecordFailure(b) \/ Trim(b) \/ TrimFails(b)

----------------------------------------------------------------------------
BackupTypeOK ==
    /\ record \in [Backups -> {"none", "running", "complete", "failed"}]
    /\ object \subseteq Backups /\ manifest \subseteq Backups
    /\ workflow \in [Backups -> [pc : {"new", "export", "upload", "manifest", "record", "failed",
                                     "list weekly", "delete weekly", "list monthly",
                                     "delete monthly", "done"},
                                tries : 0 .. Attempts, stale : SUBSET Backups]]

\* Runs of both kinds trim each other's snapshots from lists they took earlier,
\* and start over when a deletion fails halfway.  Still, a run on record as
\* complete has its snapshot and manifest, and none has a manifest without its
\* snapshot, but where as many later runs have uploaded as are kept.
BackupsAreKept ==
    \A b \in Backups :
        \/ Cardinality(Newer(b)) >= Keep
        \/ /\ record[b] = "complete" => b \in object \intersect manifest
           /\ b \in manifest => b \in object
=============================================================================
