------------------------------- MODULE Restore -------------------------------
(***************************************************************************)
(* Backup, restore and the maintenance gate: internal/storage/backup.go,   *)
(* restore.go and db.go, with the HTTP middleware and the restore handler  *)
(* in front of them and the start of the process behind them.              *)
(*                                                                         *)
(* A database is the set of transactions committed to it: the writes of    *)
(* ordinary requests, the writes of the sync scheduler ("ticks"), and the  *)
(* audit event of a restore, named by its attempt.  SQLite is external: a  *)
(* commit is durable, the online backup is consistent, and the write-ahead *)
(* log is part of the database file, so that a checkpoint only may fail.   *)
(* A crash is the end of the process: what was renamed stays renamed.      *)
(*                                                                         *)
(* Left out: authentication and the idempotency keys of the restore        *)
(* request, the format and the checksums of an archive (a bad one is a     *)
(* step of the preparation that fails), and the size limits.               *)
(***************************************************************************)
EXTENDS Naturals, FiniteSets

CONSTANTS
    Requests,     \* ordinary API requests, each served once
    Attempts,     \* POST /api/v1/restore requests, each served once
    Ticks,        \* transactions the sync scheduler may commit
    MaxFaults,    \* bound on the file or database calls that fail
    MaxCrashes,   \* bound on the ends of the process
    None

ASSUME BoundsAreNumbers == MaxFaults \in Nat /\ MaxCrashes \in Nat
ASSUME ActorsDiffer ==
    /\ Requests \cap Attempts = {}
    /\ Ticks \cap (Requests \cup Attempts) = {}
    /\ None \notin Requests \cup Attempts \cup Ticks
ASSUME NoneIsNoDatabase == \A X \in SUBSET (Requests \cup Attempts \cup Ticks) : X # None

VARIABLES
    up,            \* the process runs
    handle,        \* db.writer and db.reader are open (FALSE: they are nil)
    maintenance,   \* gate.maintenance
    active,        \* the requests gate.active counts
    token,         \* the attempt that took gate.restore, or None
    req,           \* [Requests -> stage of the request]
    att,           \* [Attempts -> state of the restore attempt]
    bg,            \* the sync scheduler's use of the database
    disk,          \* the files
    acked,         \* writes reported to their caller as done
    faults,        \* failures so far
    crashes        \* ends of the process so far

gate == <<maintenance, active, token>>
env == <<faults, crashes>>
vars == <<up, handle, maintenance, active, token, req, att, bg, disk, acked, faults, crashes>>

Transactions == Requests \cup Attempts \cup Ticks
Contents == SUBSET Transactions
Owners == Requests \cup Attempts

Inside == {"in", "written", "snapshot", "archived", "broken"}
RequestStages == Inside \cup {"idle", "answered", "refused", "failed", "lost"}

(***************************************************************************)
(* The stages of RestoreStaged, grouped by what the attempt holds.         *)
(***************************************************************************)
Locked == {"prepare", "extract", "validate", "backup", "archive", "begin"}
Draining == {"drain"}
Replacing == {"checkpoint", "close", "recover", "link", "rename", "reopen", "commit",
              "clean", "undo", "restoreOld", "reopenOld", "leave"}
Ended == {"refused", "lost", "done"}
AttemptStages == {"idle", "stage", "lock", "release"} \cup Locked \cup Draining
                 \cup Replacing \cup Ended

Attempt ==
    [pc : AttemptStages,
     outcome : {"none", "restored", "failed"},
     gone : BOOLEAN,                    \* the client closed the connection
     archive : Contents \cup {None},    \* the database in the uploaded archive
     before : Contents \cup {None},     \* history: the database when the lock was taken
     kept : Contents \cup {None}]       \* history: the database when it was closed

Disk ==
    [db : Contents,                              \* video-record.db
     old : Contents \cup {None},                 \* video-record.db.restore-old
     replacements : SUBSET Attempts,             \* video-record.db.restore-<uuid>
     uploads : SUBSET Attempts,                  \* backups/.restore-upload-*.partial
     snapshots : [Owners -> Contents \cup {None}],   \* backups/.snapshot-*.db
     archives : SUBSET Contents]                 \* backups/*.vrbackup

NoAttempt == [pc |-> "idle", outcome |-> "none", gone |-> FALSE,
              archive |-> None, before |-> None, kept |-> None]

\* An attempt that is over keeps its outcome only.
Finished(stage, outcome) == [NoAttempt EXCEPT !.pc = stage, !.outcome = outcome]

Init ==
    /\ up = TRUE
    /\ handle = TRUE
    /\ maintenance = FALSE
    /\ active = {}
    /\ token = None
    /\ req = [r \in Requests |-> "idle"]
    /\ att = [a \in Attempts |-> NoAttempt]
    /\ bg = "idle"
    /\ disk = [db |-> {}, old |-> None, replacements |-> {}, uploads |-> {},
               snapshots |-> [o \in Owners |-> None], archives |-> {{}}]
    /\ acked = {}
    /\ faults = 0
    /\ crashes = 0

-----------------------------------------------------------------------------
(* Ordinary requests, through MaintenanceMode. *)

\* A call the code tests the error of fails.
Fault == faults < MaxFaults /\ faults' = faults + 1

\* BeginRequest: counted, or answered 503 while the gate is shut.
BeginRequest(r) ==
    /\ up
    /\ req[r] = "idle"
    /\ IF maintenance
         THEN /\ req' = [req EXCEPT ![r] = "refused"]
              /\ UNCHANGED active
         ELSE /\ req' = [req EXCEPT ![r] = "in"]
              /\ active' = active \cup {r}
    /\ UNCHANGED <<up, handle, maintenance, token, att, bg, disk, acked, env>>

\* The handler commits its transaction.
WriteRequest(r) ==
    /\ up
    /\ req[r] = "in"
    /\ handle
    /\ disk' = [disk EXCEPT !.db = @ \cup {r}]
    /\ req' = [req EXCEPT ![r] = "written"]
    /\ UNCHANGED <<up, handle, gate, att, bg, acked, env>>

\* POST /api/v1/backups: Create's online backup of the database...
SnapshotRequest(r) ==
    /\ up
    /\ req[r] = "in"
    /\ handle
    /\ disk' = [disk EXCEPT !.snapshots[r] = disk.db]
    /\ req' = [req EXCEPT ![r] = "snapshot"]
    /\ UNCHANGED <<up, handle, gate, att, bg, acked, env>>

\* ...and the archive written beside it, renamed when it is complete.
ArchiveRequest(r) ==
    /\ up
    /\ req[r] = "snapshot"
    /\ disk' = [disk EXCEPT !.archives = @ \cup {disk.snapshots[r]}, !.snapshots[r] = None]
    /\ req' = [req EXCEPT ![r] = "archived"]
    /\ UNCHANGED <<up, handle, gate, att, bg, acked, env>>

\* The handles are nil because an earlier recovery could not reopen them:
\* Recoverer turns the panic into a 500.
BreakRequest(r) ==
    /\ up
    /\ req[r] = "in"
    /\ ~handle
    /\ req' = [req EXCEPT ![r] = "broken"]
    /\ UNCHANGED <<up, handle, gate, att, bg, disk, acked, env>>

EndRequest(r) ==
    /\ up
    /\ req[r] \in {"written", "archived", "broken"}
    /\ active' = active \ {r}
    /\ req' = [req EXCEPT ![r] = IF @ = "broken" THEN "failed" ELSE "answered"]
    /\ acked' = IF req[r] = "written" THEN acked \cup {r} ELSE acked
    /\ UNCHANGED <<up, handle, maintenance, token, att, bg, disk, env>>

-----------------------------------------------------------------------------
(* The sync scheduler, which the gate does not count. *)

BackgroundTakes ==
    /\ up
    /\ bg = "idle"
    /\ handle
    /\ bg' = "holding"
    /\ UNCHANGED <<up, handle, gate, req, att, disk, acked, env>>

BackgroundWrites ==
    /\ up
    /\ bg = "holding"
    /\ \/ \E t \in Ticks \ acked :
            /\ disk' = [disk EXCEPT !.db = @ \cup {t}]
            /\ acked' = acked \cup {t}
       \/ UNCHANGED <<disk, acked>>
    /\ bg' = "idle"
    /\ UNCHANGED <<up, handle, gate, req, att, env>>

\* The handle it took was closed: the run fails, or the scheduler's own
\* query does and its loop ends.
BackgroundFails ==
    /\ up
    /\ bg = "stale"
    /\ bg' \in {"idle", "stopped"}
    /\ UNCHANGED <<up, handle, gate, req, att, disk, acked, env>>

-----------------------------------------------------------------------------
(* The process. *)

\* Memory is gone: handles, gate, handlers.  The files stay.
Down ==
    /\ crashes < MaxCrashes
    /\ crashes' = crashes + 1
    /\ up' = FALSE
    /\ handle' = FALSE
    /\ maintenance' = FALSE
    /\ active' = {}
    /\ token' = None
    /\ bg' = "stopped"
    /\ req' = [r \in Requests |->
                 IF req[r] \in Inside THEN "lost" ELSE req[r]]
    /\ att' = [a \in Attempts |->
                 IF att[a].pc \in {"idle"} \cup Ended THEN att[a] ELSE Finished("lost", "none")]
    /\ UNCHANGED <<disk, acked, faults>>

Crash == up /\ Down

\* db.Writer() is nil while the handles are closed: the scheduler's goroutine
\* has no recover, so its panic ends the process.
BackgroundPanics == up /\ bg = "idle" /\ ~handle /\ Down

(* Mutant: uploads of the former process stay. *)
CleansSnapshots(files) == [files EXCEPT !.snapshots = [o \in Owners |-> None]]

\* CleanupIncomplete: the partial files of the backups directory.
CleanupIncomplete(files) ==
    [files EXCEPT !.uploads = {}, !.snapshots = [o \in Owners |-> None]]

\* main: Open, Migrate, CleanupIncomplete, the scheduler, the server.
Start ==
    /\ ~up
    /\ up' = TRUE
    /\ handle' = TRUE
    /\ bg' = "idle"
    /\ disk' = CleanupIncomplete(disk)
    /\ UNCHANGED <<gate, req, att, acked, env>>

-----------------------------------------------------------------------------
(* A restore: the handler, StageRestore and RestoreStaged. *)

At(a, stage) == up /\ att[a].pc = stage
GoTo(a, stage) == att' = [att EXCEPT ![a].pc = stage]
FailTo(a, stage) == att' = [att EXCEPT ![a].pc = stage, ![a].outcome = "failed"]

\* The middleware only asks whether maintenance is on: a restore is not
\* counted, or it would wait for itself.
Arrive(a) ==
    /\ At(a, "idle")
    /\ GoTo(a, IF maintenance THEN "refused" ELSE "stage")
    /\ UNCHANGED <<up, handle, gate, req, bg, disk, acked, env>>

\* The request context is cancelled.  replaceDatabase has a context of its
\* own, and nothing after it looks at the request's.
Disconnect(a) ==
    /\ up
    /\ att[a].pc \in {"stage", "lock"} \cup Locked \cup Draining
    /\ ~att[a].gone
    /\ att' = [att EXCEPT ![a].gone = TRUE]
    /\ UNCHANGED <<up, handle, gate, req, bg, disk, acked, env>>

\* An error of a call, or the request's context cancelled under it.
Errs(a) == Fault \/ (att[a].gone /\ UNCHANGED faults)

\* The upload, of any backup made so far, goes to a partial file.
StageRestore(a) ==
    /\ At(a, "stage")
    /\ \/ /\ \E archive \in disk.archives :
               att' = [att EXCEPT ![a].pc = "lock", ![a].archive = archive]
          /\ disk' = [disk EXCEPT !.uploads = @ \cup {a}]
          /\ UNCHANGED faults
       \/ /\ Errs(a)
          /\ att' = [att EXCEPT ![a] = Finished("done", "failed")]
          /\ UNCHANGED disk
    /\ UNCHANGED <<up, handle, gate, req, bg, acked, crashes>>

\* gate.beginRestore: one restore at a time, the others wait.
BeginRestore(a) ==
    /\ At(a, "lock")
    /\ token = None
    /\ token' = a
    /\ att' = [att EXCEPT ![a].pc = "prepare", ![a].before = disk.db]
    /\ UNCHANGED <<up, handle, maintenance, active, req, bg, disk, acked, env>>

BeginRestoreCancelled(a) ==
    /\ At(a, "lock")
    /\ att[a].gone
    /\ att' = [att EXCEPT ![a] = Finished("done", "failed")]
    /\ disk' = [disk EXCEPT !.uploads = @ \ {a}]
    /\ UNCHANGED <<up, handle, gate, req, bg, acked, env>>

\* The manifest, the schema of the current database, and the space.  The
\* handles are nil here if a recovery failed before.
CheckRestoreSpace(a) ==
    /\ At(a, "prepare")
    /\ \/ handle /\ GoTo(a, "extract") /\ UNCHANGED faults
       \/ FailTo(a, "release") /\ (Errs(a) \/ (~handle /\ UNCHANGED faults))
    /\ UNCHANGED <<up, handle, gate, req, bg, disk, acked, crashes>>

\* The replacement file exists from here on, complete or not.
ExtractBackupDatabase(a) ==
    /\ At(a, "extract")
    /\ \/ GoTo(a, "validate") /\ UNCHANGED faults
       \/ FailTo(a, "release") /\ Errs(a)
    /\ disk' = [disk EXCEPT !.replacements = @ \cup {a}]
    /\ UNCHANGED <<up, handle, gate, req, bg, acked, crashes>>

\* Opened, migrated and checked: schema, migrations, integrity.
ValidateReplacement(a) ==
    /\ At(a, "validate")
    /\ \/ GoTo(a, "backup") /\ UNCHANGED faults
       \/ FailTo(a, "release") /\ Errs(a)
    /\ UNCHANGED <<up, handle, gate, req, bg, disk, acked, crashes>>

\* Create, before the requests are drained.
Snapshot(a) ==
    /\ At(a, "backup")
    /\ \/ /\ GoTo(a, "archive")
          /\ disk' = [disk EXCEPT !.snapshots[a] = disk.db]
          /\ UNCHANGED faults
       \/ /\ Errs(a)
          /\ FailTo(a, "release")
          /\ UNCHANGED disk
    /\ UNCHANGED <<up, handle, gate, req, bg, acked, crashes>>

(* Mutant: a backup that fails does not stop the restore. *)
TriesArchive(a) ==
    /\ At(a, "archive")
    /\ GoTo(a, "begin")
    /\ \/ /\ disk' = [disk EXCEPT !.archives = @ \cup {disk.snapshots[a]}, !.snapshots[a] = None]
          /\ UNCHANGED faults
       \/ /\ Fault
          /\ disk' = [disk EXCEPT !.snapshots[a] = None]
    /\ UNCHANGED <<up, handle, gate, req, bg, acked, crashes>>

WriteArchive(a) ==
    /\ At(a, "archive")
    /\ \/ /\ GoTo(a, "begin")
          /\ disk' = [disk EXCEPT !.archives = @ \cup {disk.snapshots[a]}, !.snapshots[a] = None]
          /\ UNCHANGED faults
       \/ /\ Errs(a)
          /\ FailTo(a, "release")
          /\ disk' = [disk EXCEPT !.snapshots[a] = None]
    /\ UNCHANGED <<up, handle, gate, req, bg, acked, crashes>>

\* criticalCtx: from here on a client that goes away changes nothing.
Detach(a) == att' = [att EXCEPT ![a].pc = "checkpoint", ![a].gone = FALSE]

(* Mutant: the requests inside are not waited for. *)
ShutsOnly(a) ==
    /\ At(a, "begin")
    /\ ~maintenance
    /\ maintenance' = TRUE
    /\ Detach(a)
    /\ UNCHANGED <<up, handle, active, token, req, bg, disk, acked, env>>

\* gate.begin: shut the gate, then wait for the requests already inside.
\* ErrMaintenance cannot happen here: only the holder of the token begins.
BeginMaintenance(a) ==
    /\ At(a, "begin")
    /\ ~maintenance
    /\ maintenance' = TRUE
    /\ IF active = {} THEN Detach(a) ELSE GoTo(a, "drain")
    /\ UNCHANGED <<up, handle, active, token, req, bg, disk, acked, env>>

Drained(a) ==
    /\ At(a, "drain")
    /\ active = {}
    /\ Detach(a)
    /\ UNCHANGED <<up, handle, gate, req, bg, disk, acked, env>>

(* Mutant: a cancelled wait leaves the gate shut. *)
CancelsShut(a) ==
    /\ At(a, "drain")
    /\ att[a].gone
    /\ FailTo(a, "release")
    /\ UNCHANGED <<up, handle, gate, req, bg, disk, acked, env>>

DrainCancelled(a) ==
    /\ At(a, "drain")
    /\ att[a].gone
    /\ maintenance' = FALSE
    /\ FailTo(a, "release")
    /\ UNCHANGED <<up, handle, active, token, req, bg, disk, acked, env>>

-----------------------------------------------------------------------------
(* replaceDatabase, under a context of its own: a client that goes away no *)
(* longer stops it.                                                        *)

Checkpoint(a) ==
    /\ At(a, "checkpoint")
    /\ \/ GoTo(a, "close") /\ UNCHANGED faults
       \/ Fault /\ FailTo(a, "leave")
    /\ UNCHANGED <<up, handle, gate, req, bg, disk, acked, crashes>>

\* closeConnectionsLocked: the handles are nil, closed cleanly or not.
Closes ==
    /\ handle' = FALSE
    /\ bg' = IF bg = "holding" THEN "stale" ELSE bg

Close(a) ==
    /\ At(a, "close")
    /\ Closes
    /\ \/ /\ att' = [att EXCEPT ![a].pc = "link", ![a].kept = disk.db]
          /\ UNCHANGED faults
       \/ /\ Fault
          /\ att' = [att EXCEPT ![a].pc = "recover", ![a].kept = disk.db]
    /\ UNCHANGED <<up, gate, req, disk, acked, crashes>>

(* Mutant: the old database is not linked before it is replaced. *)
ClearsOld(a) ==
    /\ At(a, "link")
    /\ GoTo(a, "rename")
    /\ disk' = [disk EXCEPT !.old = None]
    /\ UNCHANGED <<up, handle, gate, req, bg, acked, env>>

\* Any .restore-old of an earlier attempt gives way to a link to the current
\* database.
Link(a) ==
    /\ At(a, "link")
    /\ \/ /\ GoTo(a, "rename")
          /\ disk' = [disk EXCEPT !.old = disk.db]
          /\ UNCHANGED faults
       \/ /\ Fault
          /\ GoTo(a, "recover")
          /\ disk' = [disk EXCEPT !.old = None]
    /\ UNCHANGED <<up, handle, gate, req, bg, acked, crashes>>

\* os.Rename puts the replacement in place; when the directory cannot be
\* synchronised afterwards the old database is put back.
Rename(a) ==
    /\ At(a, "rename")
    /\ \/ /\ \/ GoTo(a, "reopen") /\ UNCHANGED faults
             \/ Fault /\ GoTo(a, "undo")
          /\ disk' = [disk EXCEPT !.db = att[a].archive, !.replacements = @ \ {a}]
       \/ /\ Fault
          /\ GoTo(a, "recover")
          /\ disk' = [disk EXCEPT !.old = None]
    /\ UNCHANGED <<up, handle, gate, req, bg, acked, crashes>>

\* reopenForRecovery: nothing was replaced, the old database is opened again.
Recover(a) ==
    /\ At(a, "recover")
    /\ \/ handle' = TRUE /\ UNCHANGED faults
       \/ Fault /\ UNCHANGED handle
    /\ FailTo(a, "leave")
    /\ UNCHANGED <<up, gate, req, bg, disk, acked, crashes>>

Reopen(a) ==
    /\ At(a, "reopen")
    /\ \/ handle' = TRUE /\ GoTo(a, "commit") /\ UNCHANGED faults
       \/ Fault /\ GoTo(a, "undo") /\ UNCHANGED handle
    /\ UNCHANGED <<up, gate, req, bg, disk, acked, crashes>>

(* Mutant: the error of the audit event is ignored. *)
TriesAudit(a) ==
    /\ At(a, "commit")
    /\ GoTo(a, "clean")
    /\ \/ disk' = [disk EXCEPT !.db = @ \cup {a}] /\ UNCHANGED faults
       \/ Fault /\ UNCHANGED disk
    /\ UNCHANGED <<up, handle, gate, req, bg, acked, crashes>>

\* commit: writeRestoreAudit in the restored database.
WriteRestoreAudit(a) ==
    /\ At(a, "commit")
    /\ \/ /\ GoTo(a, "clean")
          /\ disk' = [disk EXCEPT !.db = @ \cup {a}]
          /\ UNCHANGED faults
       \/ Fault /\ GoTo(a, "undo") /\ UNCHANGED disk
    /\ UNCHANGED <<up, handle, gate, req, bg, acked, crashes>>

RemoveOld(a) ==
    /\ At(a, "clean")
    /\ disk' = [disk EXCEPT !.old = None]
    /\ att' = [att EXCEPT ![a].pc = "leave", ![a].outcome = "restored"]
    /\ UNCHANGED <<up, handle, gate, req, bg, acked, env>>

\* rollbackDatabase: close, rename the old database back, reopen; an error
\* of one does not keep it from the next.
RollbackClose(a) ==
    /\ At(a, "undo")
    /\ Closes
    /\ GoTo(a, "restoreOld")
    /\ UNCHANGED <<up, gate, req, disk, acked, env>>

RollbackRename(a) ==
    /\ At(a, "restoreOld")
    /\ \/ disk' = [disk EXCEPT !.db = disk.old, !.old = None] /\ UNCHANGED faults
       \/ Fault /\ UNCHANGED disk
    /\ GoTo(a, "reopenOld")
    /\ UNCHANGED <<up, handle, gate, req, bg, acked, crashes>>

RollbackReopen(a) ==
    /\ At(a, "reopenOld")
    /\ \/ handle' = TRUE /\ UNCHANGED faults
       \/ Fault /\ UNCHANGED handle
    /\ FailTo(a, "leave")
    /\ UNCHANGED <<up, gate, req, bg, disk, acked, crashes>>

\* The deferred calls, last first: the gate opens, then the replacement is
\* removed, the lock returned and the upload removed.
EndMaintenance(a) ==
    /\ At(a, "leave")
    /\ maintenance' = FALSE
    /\ GoTo(a, "release")
    /\ UNCHANGED <<up, handle, active, token, req, bg, disk, acked, env>>

(* Mutant: the lock comes back from a successful restore only. *)
EndsWhenRestored(a) ==
    /\ At(a, "release")
    /\ token' = IF att[a].outcome = "restored" THEN None ELSE token
    /\ disk' = [disk EXCEPT !.replacements = @ \ {a}, !.uploads = @ \ {a}]
    /\ att' = [att EXCEPT ![a] = Finished("done", att[a].outcome)]
    /\ UNCHANGED <<up, handle, maintenance, active, req, bg, acked, env>>

EndRestore(a) ==
    /\ At(a, "release")
    /\ token' = None
    /\ disk' = [disk EXCEPT !.replacements = @ \ {a}, !.uploads = @ \ {a}]
    /\ att' = [att EXCEPT ![a] = Finished("done", att[a].outcome)]
    /\ UNCHANGED <<up, handle, maintenance, active, req, bg, acked, env>>

RequestStep(r) ==
    \/ WriteRequest(r) \/ SnapshotRequest(r) \/ ArchiveRequest(r)
    \/ BreakRequest(r) \/ EndRequest(r)

AttemptStep(a) ==
    \/ StageRestore(a) \/ BeginRestore(a) \/ BeginRestoreCancelled(a)
    \/ CheckRestoreSpace(a) \/ ExtractBackupDatabase(a) \/ ValidateReplacement(a)
    \/ Snapshot(a) \/ WriteArchive(a)
    \/ BeginMaintenance(a) \/ Drained(a) \/ DrainCancelled(a)
    \/ Checkpoint(a) \/ Close(a) \/ Link(a) \/ Rename(a) \/ Recover(a)
    \/ Reopen(a) \/ WriteRestoreAudit(a) \/ RemoveOld(a)
    \/ RollbackClose(a) \/ RollbackRename(a) \/ RollbackReopen(a)
    \/ EndMaintenance(a) \/ EndRestore(a)

Next ==
    \/ \E r \in Requests : BeginRequest(r) \/ RequestStep(r)
    \/ \E a \in Attempts : Arrive(a) \/ Disconnect(a) \/ AttemptStep(a)
    \/ BackgroundTakes \/ BackgroundWrites \/ BackgroundFails \/ BackgroundPanics
    \/ Crash \/ Start

\* Every handler that runs goes on: its calls have deadlines and return.
Fairness ==
    /\ \A r \in Requests : WF_vars(RequestStep(r))
    /\ \A a \in Attempts : WF_vars(AttemptStep(a))

Spec == Init /\ [][Next]_vars /\ Fairness

-----------------------------------------------------------------------------
(* Types; gate.active counts the requests inside, no more and no fewer, and *)
(* a process that is down has neither handles nor a gate.                   *)
TypeOK ==
    /\ up \in BOOLEAN /\ handle \in BOOLEAN /\ maintenance \in BOOLEAN
    /\ active = {r \in Requests : req[r] \in Inside}
    /\ token \in Attempts \cup {None}
    /\ req \in [Requests -> RequestStages]
    /\ att \in [Attempts -> Attempt]
    /\ bg \in {"idle", "holding", "stale", "stopped"}
    /\ disk \in Disk
    /\ acked \subseteq Requests \cup Ticks
    /\ faults \in 0..MaxFaults
    /\ crashes \in 0..MaxCrashes
    /\ ~up => ~handle /\ ~maintenance /\ active = {} /\ token = None

\* From the moment the handles may be closed until they are open again, no
\* counted request is inside and none can come in (MaintenanceMode and
\* gate.begin): a request never meets a database that is being replaced.
ExclusiveAccess ==
    \A a \in Attempts : up /\ att[a].pc \in Replacing =>
        active = {} /\ maintenance /\ token = a

\* The gate is never left shut: while it is, an attempt that holds the lock
\* is on its way to open it, whichever of its steps failed or was cancelled.
NeverLeftShut ==
    maintenance => \E a \in Attempts : token = a /\ att[a].pc \in Draining \cup Replacing

\* The database that is being replaced is on disk, whole, as video-record.db
\* or as .restore-old, at every step at which the process may end, until
\* the restored one carries its audit event.
PreviousStaysOnDisk ==
    \A a \in Attempts :
        (up /\ att[a].pc \in Replacing /\ att[a].kept # None /\ att[a].outcome = "none")
            => \/ att[a].kept \subseteq disk.db
               \/ disk.old = att[a].kept
               \/ a \in disk.db

\* What an attempt reports is what it did: "restored" when the database is
\* the uploaded one, its audit event and what the scheduler added; "failed"
\* when the former database is in place, or, if even the rename back
\* failed, still beside it.
OutcomeMatchesDatabase ==
    [][\A a \in Attempts : att[a].outcome = "none" =>
        /\ att'[a].outcome = "restored" =>
             /\ att[a].archive \cup {a} \subseteq disk'.db
             /\ disk'.db \ (att[a].archive \cup {a}) \subseteq Ticks
        /\ (att'[a].outcome = "failed" /\ att[a].kept # None) =>
             \/ att[a].kept \subseteq disk'.db /\ a \notin disk'.db
             \/ disk'.old = att[a].kept]_vars

\* A database is only replaced when a finished backup holds everything it
\* held when the restore took its lock.
BackupHoldsWhatItReplaces ==
    \A a \in Attempts : att[a].kept # None =>
        \E archive \in disk.archives : att[a].before \subseteq archive

\* A running process has no upload or snapshot but those of requests it is
\* serving, and no replacement without the attempt that holds the lock,
\* except the replacements of attempts a crash ended.
LeftoversAreCleaned ==
    up =>
        /\ \A a \in disk.uploads : att[a].pc \notin {"idle"} \cup Ended
        /\ \A o \in Owners : disk.snapshots[o] # None =>
             IF o \in Requests THEN req[o] = "snapshot" ELSE att[o].pc = "archive"
        /\ \A a \in disk.replacements : token = a \/ att[a].pc = "lost"

\* Every restore request is answered unless the process ends: the lock and
\* the gate come back to the next one.
AttemptsEnd ==
    \A a \in Attempts : att[a].pc # "idle" ~> att[a].pc \in Ended

-----------------------------------------------------------------------------
(* What the confirmation dialog promises. *)

=============================================================================
