--------------------------- MODULE RestoreProofs ---------------------------
(***************************************************************************)
(* What TLAPS proves of Restore for any numbers of requests, attempts and  *)
(* ticks, and any bounds on failures and crashes.                          *)
(***************************************************************************)
EXTENDS Restore, TLAPS

-----------------------------------------------------------------------------
(* The inductive invariant: types, who holds the lock and the gate, and     *)
(* what is on disk at each stage of the attempt that holds them.            *)

Held == Locked \cup Draining \cup Replacing \cup {"release"}

\* The lock and the gate belong to the attempt whose stage says so.
GateOf(a) ==
    /\ token = a <=> att[a].pc \in Held
    /\ att[a].pc \in Draining \cup Replacing => maintenance
    /\ att[a].pc \in Replacing => active = {}

Gate ==
    /\ \A a \in Attempts : GateOf(a)
    /\ maintenance => \E a \in Attempts : att[a].pc \in Draining \cup Replacing

\* A finished backup holds what the database held when the lock was taken.
BackedUp(a) == \E archive \in disk.archives : att[a].before \subseteq archive

\* Before the backup is written it is on its way there.
BackupOf(a) ==
    /\ att[a].pc \in {"prepare", "extract", "validate", "backup"} => att[a].before \subseteq disk.db
    /\ att[a].pc = "archive" =>
         disk.snapshots[a] \in Contents /\ att[a].before \subseteq disk.snapshots[a]
    /\ att[a].pc \in {"begin"} \cup Draining \cup Replacing => BackedUp(a)
    /\ att[a].kept # None => BackedUp(a)

\* Where the database that is being replaced is.
PreviousOf(a) ==
    /\ att[a].kept # None => att[a].pc \in (Replacing \cup {"release"}) \ {"checkpoint", "close"}
    /\ att[a].pc \in Replacing \ {"checkpoint", "close", "leave"} => att[a].kept \in Contents
    /\ att[a].pc \in {"link", "rename"} => att[a].kept = disk.db /\ ~handle /\ bg # "holding"
    /\ att[a].pc = "recover" => att[a].kept \subseteq disk.db
    /\ att[a].pc \in {"rename", "reopen", "commit", "undo", "restoreOld"} => disk.old = att[a].kept
    /\ att[a].pc = "clean" => a \in disk.db
    /\ att[a].pc = "reopenOld" => att[a].kept \subseteq disk.db \/ disk.old = att[a].kept
    /\ att[a].pc = "leave" => att[a].outcome # "none"

Uploaded(a) ==
    att[a].pc \in {"lock"} \cup Locked \cup Draining \cup Replacing => att[a].archive \in Contents

FilesOf(a) == BackupOf(a) /\ PreviousOf(a) /\ Uploaded(a)

Files ==
    /\ \A a \in Attempts : FilesOf(a)
    /\ \A r \in Requests : req[r] = "snapshot" => disk.snapshots[r] \in Contents

IInv == TypeOK /\ Gate /\ Files

-----------------------------------------------------------------------------
(* Lemmas about stages and types. *)

LEMMA AllStages ==
    AttemptStages = {"idle", "stage", "lock", "release", "prepare", "extract", "validate",
                     "backup", "archive", "begin", "drain", "checkpoint", "close", "recover",
                     "link", "rename", "reopen", "commit", "clean", "undo", "restoreOld",
                     "reopenOld", "leave", "refused", "lost", "done"}
BY DEF AttemptStages, Locked, Draining, Replacing, Ended

LEMMA Parts == IInv => /\ att \in [Attempts -> Attempt]
                       /\ disk \in Disk
                       /\ \A a \in Attempts : att[a] \in Attempt
BY DEF IInv, TypeOK

LEMMA OwnersAre == \A a \in Attempts : a \in Owners
BY DEF Owners

LEMMA NoneIsNoAttempt == None \notin Attempts
BY ActorsDiffer

(* Two stages of one attempt: where it was and where it goes. *)
LEMMA Moves ==
    ASSUME IInv, NEW a \in Attempts, NEW stage \in AttemptStages,
           GoTo(a, stage) \/ FailTo(a, stage)
    PROVE  /\ att' \in [Attempts -> Attempt]
           /\ \A b \in Attempts \ {a} : att'[b] = att[b]
           /\ att'[a].pc = stage
           /\ att'[a].archive = att[a].archive
           /\ att'[a].before = att[a].before
           /\ att'[a].kept = att[a].kept
BY Parts DEF GoTo, FailTo, Attempt

LEMMA Resolves ==
    ASSUME IInv, NEW a \in Attempts, NEW stage \in AttemptStages,
           NEW outcome \in {"none", "restored", "failed"},
           att' = [att EXCEPT ![a].pc = stage, ![a].outcome = outcome]
    PROVE  /\ att' \in [Attempts -> Attempt]
           /\ \A b \in Attempts \ {a} : att'[b] = att[b]
           /\ att'[a].pc = stage /\ att'[a].outcome = outcome
           /\ att'[a].archive = att[a].archive
           /\ att'[a].before = att[a].before
           /\ att'[a].kept = att[a].kept
BY Parts DEF Attempt

LEMMA TakesArchive ==
    ASSUME IInv, NEW a \in Attempts, NEW stage \in AttemptStages, NEW archive \in Contents,
           att' = [att EXCEPT ![a].pc = stage, ![a].archive = archive]
    PROVE  /\ att' \in [Attempts -> Attempt]
           /\ \A b \in Attempts \ {a} : att'[b] = att[b]
           /\ att'[a].pc = stage /\ att'[a].archive = archive
           /\ att'[a].before = att[a].before
           /\ att'[a].kept = att[a].kept
BY Parts DEF Attempt

LEMMA TakesBefore ==
    ASSUME IInv, NEW a \in Attempts, NEW stage \in AttemptStages, NEW contents \in Contents,
           att' = [att EXCEPT ![a].pc = stage, ![a].before = contents]
    PROVE  /\ att' \in [Attempts -> Attempt]
           /\ \A b \in Attempts \ {a} : att'[b] = att[b]
           /\ att'[a].pc = stage /\ att'[a].before = contents
           /\ att'[a].archive = att[a].archive
           /\ att'[a].kept = att[a].kept
BY Parts DEF Attempt

LEMMA Detaches ==
    ASSUME IInv, NEW a \in Attempts, NEW stage \in AttemptStages, NEW flag \in BOOLEAN,
           att' = [att EXCEPT ![a].pc = stage, ![a].gone = flag]
    PROVE  /\ att' \in [Attempts -> Attempt]
           /\ \A b \in Attempts \ {a} : att'[b] = att[b]
           /\ att'[a].pc = stage /\ att'[a].gone = flag
           /\ att'[a].archive = att[a].archive
           /\ att'[a].before = att[a].before
           /\ att'[a].kept = att[a].kept
BY Parts DEF Attempt

LEMMA FinishedType ==
    ASSUME NEW stage \in AttemptStages, NEW outcome \in {"none", "restored", "failed"}
    PROVE  /\ Finished(stage, outcome) \in Attempt
           /\ Finished(stage, outcome).pc = stage
           /\ Finished(stage, outcome).kept = None
BY AllStages DEF Finished, NoAttempt, Attempt

LEMMA FaultType ==
    ASSUME TypeOK, Fault \/ UNCHANGED faults
    PROVE  faults' \in 0..MaxFaults
BY BoundsAreNumbers DEF TypeOK, Fault

LEMMA ErrsType == ASSUME NEW a, Errs(a) PROVE Fault \/ UNCHANGED faults
BY DEF Errs

(* What an attempt's step leaves alone. *)
LEMMA AttemptFrame ==
    ASSUME TypeOK, up, att' \in [Attempts -> Attempt], disk' \in Disk,
           handle' \in BOOLEAN, maintenance' \in BOOLEAN, token' \in Attempts \cup {None},
           bg' \in {"idle", "holding", "stale", "stopped"},
           Fault \/ UNCHANGED faults,
           UNCHANGED <<up, active, req, acked, crashes>>
    PROVE  TypeOK'
BY FaultType DEF TypeOK

(* A step of the holder between stages on one side of the gate. *)
LEMMA InnerGate ==
    ASSUME IInv, NEW a \in Attempts,
           \A b \in Attempts \ {a} : att'[b] = att[b],
           att[a].pc \in Held, att'[a].pc \in Held,
           att[a].pc \in Draining \cup Replacing <=> att'[a].pc \in Draining \cup Replacing,
           att'[a].pc \in Replacing => att[a].pc \in Replacing,
           UNCHANGED <<token, maintenance, active>>
    PROVE  Gate'
BY DEF IInv, Gate, GateOf

(* Nobody but the holder is affected by the files the holder changes. *)
LEMMA OthersFiles ==
    ASSUME IInv, NEW a \in Attempts, att[a].pc \in Held,
           \A b \in Attempts \ {a} : att'[b] = att[b]
    PROVE  \A b \in Attempts \ {a} : FilesOf(b)'
<1> SUFFICES ASSUME NEW b \in Attempts \ {a} PROVE FilesOf(b)'
  OBVIOUS
<1>1. att'[b] = att[b] /\ att[b].pc \notin Held
  BY NoneIsNoAttempt DEF IInv, Gate, GateOf
<1>2. att[b].kept = None
  BY <1>1 DEF IInv, Files, FilesOf, PreviousOf, Held
<1> QED  BY <1>1, <1>2 DEF IInv, Files, FilesOf, Uploaded, PreviousOf, BackupOf, Held, Locked, Draining, Replacing

LEMMA CheckRestoreSpaceKeeps == ASSUME IInv, NEW a \in Attempts, CheckRestoreSpace(a) PROVE IInv'
<1>1. /\ att' \in [Attempts -> Attempt]
      /\ \A b \in Attempts \ {a} : att'[b] = att[b]
      /\ att[a].pc = "prepare" /\ att'[a].pc \in {"extract", "release"}
  BY Moves, AllStages DEF CheckRestoreSpace, At
<1>2. disk' \in Disk
  BY Parts DEF CheckRestoreSpace
<1>3. TypeOK'
  BY <1>1, <1>2, AttemptFrame, ErrsType DEF CheckRestoreSpace, At, gate, env, IInv, TypeOK
<1>4. Gate'
  BY <1>1, InnerGate DEF CheckRestoreSpace, gate, Held, Locked, Draining, Replacing
<1>5. FilesOf(a)'
  BY <1>1, Parts
     DEF CheckRestoreSpace, GoTo, FailTo, Attempt, Disk, BackedUp, Draining, IInv, Files,
         FilesOf, BackupOf, PreviousOf, Uploaded, Replacing, Locked
<1>6. Files'
  BY <1>1, <1>5, OthersFiles, Parts, ActorsDiffer
     DEF CheckRestoreSpace, Held, Locked, Draining, Replacing, IInv, Files, Disk, Owners
<1> QED  BY <1>3, <1>4, <1>6 DEF IInv

LEMMA ExtractBackupDatabaseKeeps == ASSUME IInv, NEW a \in Attempts, ExtractBackupDatabase(a) PROVE IInv'
<1>1. /\ att' \in [Attempts -> Attempt]
      /\ \A b \in Attempts \ {a} : att'[b] = att[b]
      /\ att[a].pc = "extract" /\ att'[a].pc \in {"validate", "release"}
  BY Moves, AllStages DEF ExtractBackupDatabase, At
<1>2. disk' \in Disk
  BY <1>1, Parts
     DEF ExtractBackupDatabase, Disk, Contents, Transactions, Owners, IInv, Files, FilesOf,
         BackupOf, PreviousOf, Uploaded, Replacing, Locked
<1>3. TypeOK'
  BY <1>1, <1>2, AttemptFrame, ErrsType DEF ExtractBackupDatabase, At, gate, env, IInv, TypeOK
<1>4. Gate'
  BY <1>1, InnerGate DEF ExtractBackupDatabase, gate, Held, Locked, Draining, Replacing
<1>5. FilesOf(a)'
  <2>0. /\ att'[a].before = att[a].before /\ att'[a].kept = att[a].kept
        /\ att'[a].archive = att[a].archive
        /\ disk'.db = disk.db /\ disk'.old = disk.old /\ disk'.snapshots = disk.snapshots
        /\ disk'.archives = disk.archives
    BY Parts DEF ExtractBackupDatabase, GoTo, FailTo, Attempt, Disk
  <2>1. BackupOf(a)'
    BY <1>1, <2>0, Parts DEF Draining, IInv, Files, FilesOf, BackupOf, BackedUp, Replacing
  <2>2. PreviousOf(a)'
    BY <1>1, <2>0, Parts DEF IInv, Files, FilesOf, PreviousOf, Replacing
  <2>3. Uploaded(a)'
    BY <1>1, <2>0, Parts DEF Draining, IInv, Files, FilesOf, Uploaded, Replacing, Locked
  <2> QED  BY <2>1, <2>2, <2>3 DEF FilesOf
<1>6. Files'
  BY <1>1, <1>5, OthersFiles, Parts, ActorsDiffer
     DEF ExtractBackupDatabase, Held, Locked, Draining, Replacing, IInv, Files, Disk, Owners
<1> QED  BY <1>3, <1>4, <1>6 DEF IInv

LEMMA ValidateReplacementKeeps == ASSUME IInv, NEW a \in Attempts, ValidateReplacement(a) PROVE IInv'
<1>1. /\ att' \in [Attempts -> Attempt]
      /\ \A b \in Attempts \ {a} : att'[b] = att[b]
      /\ att[a].pc = "validate" /\ att'[a].pc \in {"backup", "release"}
  BY Moves, AllStages DEF ValidateReplacement, At
<1>2. disk' \in Disk
  BY Parts DEF ValidateReplacement
<1>3. TypeOK'
  BY <1>1, <1>2, AttemptFrame, ErrsType DEF ValidateReplacement, At, gate, env, IInv, TypeOK
<1>4. Gate'
  BY <1>1, InnerGate DEF ValidateReplacement, gate, Held, Locked, Draining, Replacing
<1>5. FilesOf(a)'
  BY <1>1, Parts
     DEF ValidateReplacement, GoTo, FailTo, Attempt, Disk, BackedUp, Draining, IInv, Files,
         FilesOf, BackupOf, PreviousOf, Uploaded, Replacing, Locked
<1>6. Files'
  BY <1>1, <1>5, OthersFiles, Parts, ActorsDiffer
     DEF ValidateReplacement, Held, Locked, Draining, Replacing, IInv, Files, Disk, Owners
<1> QED  BY <1>3, <1>4, <1>6 DEF IInv

LEMMA SnapshotKeeps == ASSUME IInv, NEW a \in Attempts, Snapshot(a) PROVE IInv'
<1>1. /\ att' \in [Attempts -> Attempt]
      /\ \A b \in Attempts \ {a} : att'[b] = att[b]
      /\ att[a].pc = "backup" /\ att'[a].pc \in {"archive", "release"}
  BY Moves, AllStages DEF Snapshot, At
<1>2. \/ att'[a].pc = "archive" /\ disk' = [disk EXCEPT !.snapshots[a] = disk.db]
      \/ att'[a].pc = "release" /\ disk' = disk
  BY Moves, AllStages DEF Snapshot, At
<1>3. /\ att'[a].archive = att[a].archive /\ att'[a].before = att[a].before
      /\ att'[a].kept = att[a].kept /\ handle' = handle /\ bg' = bg
  BY Moves, AllStages DEF Snapshot, At
<1>4. disk' \in Disk
  BY <1>1, Parts
     DEF Snapshot, Disk, Contents, Transactions, Owners, IInv, Files, FilesOf, BackupOf,
         PreviousOf, Uploaded, Replacing, Locked
<1>5. TypeOK'
  BY <1>1, <1>4, AttemptFrame, ErrsType DEF Snapshot, At, gate, env, IInv, TypeOK
<1>6. Gate'
  BY <1>1, InnerGate DEF Snapshot, gate, Held, Locked, Draining, Replacing
<1>7. FilesOf(a)'
  <2>1. BackupOf(a)'
    BY <1>1, <1>2, <1>3, Parts, OwnersAre
       DEF BackupOf, Disk, BackedUp, Draining, Replacing, Locked, IInv, Files, FilesOf
  <2>2. PreviousOf(a)'
    BY <1>1, <1>2, <1>3, Parts, OwnersAre
       DEF PreviousOf, Disk, BackedUp, Draining, Replacing, Locked, IInv, Files, FilesOf
  <2>3. Uploaded(a)'
    BY <1>1, <1>2, <1>3, Parts, OwnersAre
       DEF Uploaded, Disk, BackedUp, Draining, Replacing, Locked, IInv, Files, FilesOf
  <2> QED  BY <2>1, <2>2, <2>3 DEF FilesOf
<1>8. Files'
  BY <1>1, <1>7, OthersFiles, Parts, ActorsDiffer
     DEF Snapshot, Held, Locked, Draining, Replacing, IInv, Files, Disk, Owners
<1> QED  BY <1>5, <1>6, <1>8 DEF IInv

LEMMA WriteArchiveKeeps == ASSUME IInv, NEW a \in Attempts, WriteArchive(a) PROVE IInv'
<1>1. /\ att' \in [Attempts -> Attempt]
      /\ \A b \in Attempts \ {a} : att'[b] = att[b]
      /\ att[a].pc = "archive" /\ att'[a].pc \in {"begin", "release"}
  BY Moves, AllStages DEF WriteArchive, At
<1>2. \/ att'[a].pc = "begin" /\ disk' = [disk EXCEPT !.archives = @ \cup {disk.snapshots[a]}, !.snapshots[a] = None]
      \/ att'[a].pc = "release" /\ disk' = [disk EXCEPT !.snapshots[a] = None]
  BY Moves, AllStages DEF WriteArchive, At
<1>3. /\ att'[a].archive = att[a].archive /\ att'[a].before = att[a].before
      /\ att'[a].kept = att[a].kept /\ handle' = handle /\ bg' = bg
  BY Moves, AllStages DEF WriteArchive, At
<1>4. disk.snapshots[a] \in Contents
  BY <1>1, Parts DEF Disk, Attempt, IInv, Files, FilesOf, BackupOf
<1>5. disk' \in Disk
  <2>1. disk.archives \cup {disk.snapshots[a]} \in SUBSET Contents
    BY <1>4, Parts DEF Disk
  <2>2. [disk.snapshots EXCEPT ![a] = None] \in [Owners -> Contents \cup {None}]
    BY Parts, OwnersAre DEF Disk
  <2> QED  BY <1>2, <2>1, <2>2, Parts DEF Disk
<1>6. TypeOK'
  BY <1>1, <1>5, AttemptFrame, ErrsType DEF WriteArchive, At, gate, env, IInv, TypeOK
<1>7. Gate'
  BY <1>1, InnerGate DEF WriteArchive, gate, Held, Locked, Draining, Replacing
<1>8. FilesOf(a)'
  <2>1. BackupOf(a)'
    BY <1>1, <1>2, <1>3, <1>4, Parts, OwnersAre
       DEF BackupOf, Disk, BackedUp, Draining, Replacing, Locked, IInv, Files, FilesOf
  <2>2. PreviousOf(a)'
    BY <1>1, <1>2, <1>3, <1>4, Parts, OwnersAre
       DEF PreviousOf, Disk, BackedUp, Draining, Replacing, Locked, IInv, Files, FilesOf
  <2>3. Uploaded(a)'
    BY <1>1, <1>2, <1>3, <1>4, Parts, OwnersAre
       DEF Uploaded, Disk, BackedUp, Draining, Replacing, Locked, IInv, Files, FilesOf
  <2> QED  BY <2>1, <2>2, <2>3 DEF FilesOf
<1>9. Files'
  <2>1. att[a].pc \in Held
    BY <1>1 DEF Held, Locked, Draining, Replacing
  <2>2. disk'.snapshots = [disk.snapshots EXCEPT ![a] = None] /\ req' = req
    BY <1>2, Parts DEF WriteArchive, Disk
  <2>3. \A r \in Requests : disk'.snapshots[r] = disk.snapshots[r]
    BY <2>2, Parts, ActorsDiffer DEF Disk, Owners
  <2>4. \A b \in Attempts \ {a} : FilesOf(b)'
    BY <1>1, <2>1, OthersFiles
  <2> QED  BY <1>8, <2>2, <2>3, <2>4 DEF IInv, Files
<1> QED  BY <1>6, <1>7, <1>9 DEF IInv

LEMMA CheckpointKeeps == ASSUME IInv, NEW a \in Attempts, Checkpoint(a) PROVE IInv'
<1>1. /\ att' \in [Attempts -> Attempt]
      /\ \A b \in Attempts \ {a} : att'[b] = att[b]
      /\ att[a].pc = "checkpoint" /\ att'[a].pc \in {"close", "leave"}
  BY Moves, AllStages DEF Checkpoint, At
<1>2. disk' \in Disk
  BY Parts DEF Checkpoint
<1>3. TypeOK'
  BY <1>1, <1>2, AttemptFrame DEF Checkpoint, At, gate, env, IInv, TypeOK
<1>4. Gate'
  BY <1>1, InnerGate DEF Checkpoint, gate, Held, Locked, Draining, Replacing
<1>5. FilesOf(a)'
  <2>1. /\ att'[a].archive = att[a].archive /\ att'[a].before = att[a].before
        /\ att'[a].kept = att[a].kept /\ disk' = disk
        /\ att'[a].pc = "leave" => att'[a].outcome # "none"
    BY <1>1, Parts DEF Checkpoint, GoTo, FailTo, Attempt
  <2>2. BackedUp(a)'
    BY <1>1, <2>1 DEF IInv, Files, FilesOf, BackupOf, BackedUp, Replacing
  <2>3. BackupOf(a)'
    BY <1>1, <2>2 DEF BackupOf
  <2>4. PreviousOf(a)'
    BY <1>1, <2>1 DEF IInv, Files, FilesOf, PreviousOf, Replacing
  <2>5. Uploaded(a)'
    BY <1>1, <2>1 DEF IInv, Files, FilesOf, Uploaded, Replacing
  <2> QED  BY <2>3, <2>4, <2>5 DEF FilesOf
<1>6. Files'
  BY <1>1, <1>5, OthersFiles, Parts, ActorsDiffer
     DEF Checkpoint, Held, Locked, Draining, Replacing, IInv, Files, Disk, Owners
<1> QED  BY <1>3, <1>4, <1>6 DEF IInv

LEMMA CloseKeeps == ASSUME IInv, NEW a \in Attempts, Close(a) PROVE IInv'
<1>1. /\ att' \in [Attempts -> Attempt]
      /\ \A b \in Attempts \ {a} : att'[b] = att[b]
      /\ att[a].pc = "close" /\ att'[a].pc \in {"link", "recover"}
  BY Parts, AllStages DEF Close, At, Attempt, Disk
<1>2. disk' \in Disk
  BY Parts DEF Close
<1>3. TypeOK'
  BY <1>1, <1>2, AttemptFrame DEF Close, At, gate, env, IInv, TypeOK, Closes
<1>4. Gate'
  BY <1>1, InnerGate DEF Close, gate, Held, Locked, Draining, Replacing
<1>5. FilesOf(a)'
  BY <1>1, Parts
     DEF Close, GoTo, FailTo, Attempt, Disk, BackedUp, Draining, Closes, IInv, Files, FilesOf,
         BackupOf, PreviousOf, Uploaded, Replacing, Locked
<1>6. Files'
  BY <1>1, <1>5, OthersFiles, Parts, ActorsDiffer
     DEF Close, Held, Locked, Draining, Replacing, IInv, Files, Disk, Owners
<1> QED  BY <1>3, <1>4, <1>6 DEF IInv

LEMMA LinkKeeps == ASSUME IInv, NEW a \in Attempts, Link(a) PROVE IInv'
<1>1. /\ att' \in [Attempts -> Attempt]
      /\ \A b \in Attempts \ {a} : att'[b] = att[b]
      /\ att[a].pc = "link" /\ att'[a].pc \in {"rename", "recover"}
  BY Moves, AllStages DEF Link, At
<1>2. \/ att'[a].pc = "rename" /\ disk' = [disk EXCEPT !.old = disk.db]
      \/ att'[a].pc = "recover" /\ disk' = [disk EXCEPT !.old = None]
  BY Moves, AllStages DEF Link, At
<1>3. /\ att'[a].archive = att[a].archive /\ att'[a].before = att[a].before
      /\ att'[a].kept = att[a].kept /\ handle' = handle /\ bg' = bg
  BY Moves, AllStages DEF Link, At
<1>4. disk' \in Disk
  BY <1>1, Parts
     DEF Link, Disk, Contents, Transactions, Owners, IInv, Files, FilesOf, BackupOf,
         PreviousOf, Uploaded, Replacing, Locked
<1>5. TypeOK'
  BY <1>1, <1>4, AttemptFrame DEF Link, At, gate, env, IInv, TypeOK
<1>6. Gate'
  BY <1>1, InnerGate DEF Link, gate, Held, Locked, Draining, Replacing
<1>7. FilesOf(a)'
  <2>1. BackupOf(a)'
    BY <1>1, <1>2, <1>3, Parts, OwnersAre
       DEF BackupOf, Disk, BackedUp, Draining, Replacing, Locked, IInv, Files, FilesOf
  <2>2. PreviousOf(a)'
    BY <1>1, <1>2, <1>3, Parts, OwnersAre
       DEF PreviousOf, Disk, BackedUp, Draining, Replacing, Locked, IInv, Files, FilesOf
  <2>3. Uploaded(a)'
    BY <1>1, <1>2, <1>3, Parts, OwnersAre
       DEF Uploaded, Disk, BackedUp, Draining, Replacing, Locked, IInv, Files, FilesOf
  <2> QED  BY <2>1, <2>2, <2>3 DEF FilesOf
<1>8. Files'
  BY <1>1, <1>7, OthersFiles, Parts, ActorsDiffer
     DEF Link, Held, Locked, Draining, Replacing, IInv, Files, Disk, Owners
<1> QED  BY <1>5, <1>6, <1>8 DEF IInv

LEMMA RenameKeeps == ASSUME IInv, NEW a \in Attempts, Rename(a) PROVE IInv'
<1>1. /\ att' \in [Attempts -> Attempt]
      /\ \A b \in Attempts \ {a} : att'[b] = att[b]
      /\ att[a].pc = "rename" /\ att'[a].pc \in {"reopen", "undo", "recover"}
  BY Moves, AllStages DEF Rename, At
<1>2. \/ att'[a].pc = "reopen" /\ disk' = [disk EXCEPT !.db = att[a].archive, !.replacements = @ \ {a}]
      \/ att'[a].pc = "undo" /\ disk' = [disk EXCEPT !.db = att[a].archive, !.replacements = @ \ {a}]
      \/ att'[a].pc = "recover" /\ disk' = [disk EXCEPT !.old = None]
  BY Moves, AllStages DEF Rename, At
<1>3. /\ att'[a].archive = att[a].archive /\ att'[a].before = att[a].before
      /\ att'[a].kept = att[a].kept /\ handle' = handle /\ bg' = bg
  BY Moves, AllStages DEF Rename, At
<1>4. att[a].archive \in Contents
  BY <1>1, Parts DEF Disk, Attempt, IInv, Files, FilesOf, Uploaded, Replacing, Locked
<1>5. disk' \in Disk
  BY <1>2, <1>4, Parts, OwnersAre DEF Disk
<1>6. TypeOK'
  BY <1>1, <1>5, AttemptFrame DEF Rename, At, gate, env, IInv, TypeOK
<1>7. Gate'
  BY <1>1, InnerGate DEF Rename, gate, Held, Locked, Draining, Replacing
<1>8. FilesOf(a)'
  <2>1. BackupOf(a)'
    BY <1>1, <1>2, <1>3, <1>4, Parts, OwnersAre
       DEF BackupOf, Disk, BackedUp, Draining, Replacing, Locked, IInv, Files, FilesOf
  <2>2. PreviousOf(a)'
    BY <1>1, <1>2, <1>3, <1>4, Parts, OwnersAre
       DEF PreviousOf, Disk, BackedUp, Draining, Replacing, Locked, IInv, Files, FilesOf
  <2>3. Uploaded(a)'
    BY <1>1, <1>2, <1>3, <1>4, Parts, OwnersAre
       DEF Uploaded, Disk, BackedUp, Draining, Replacing, Locked, IInv, Files, FilesOf
  <2> QED  BY <2>1, <2>2, <2>3 DEF FilesOf
<1>9. Files'
  BY <1>1, <1>8, OthersFiles, Parts, ActorsDiffer
     DEF Rename, Held, Locked, Draining, Replacing, IInv, Files, Disk, Owners
<1> QED  BY <1>6, <1>7, <1>9 DEF IInv

LEMMA RecoverKeeps == ASSUME IInv, NEW a \in Attempts, Recover(a) PROVE IInv'
<1>1. /\ att' \in [Attempts -> Attempt]
      /\ \A b \in Attempts \ {a} : att'[b] = att[b]
      /\ att[a].pc = "recover" /\ att'[a].pc = "leave"
  BY Moves, AllStages DEF Recover, At
<1>2. disk' \in Disk
  BY Parts DEF Recover
<1>3. TypeOK'
  BY <1>1, <1>2, AttemptFrame DEF Recover, At, gate, env, IInv, TypeOK
<1>4. Gate'
  BY <1>1, InnerGate DEF Recover, gate, Held, Locked, Draining, Replacing
<1>5. FilesOf(a)'
  BY <1>1, Parts
     DEF Recover, GoTo, FailTo, Attempt, Disk, BackedUp, Draining, IInv, Files, FilesOf,
         BackupOf, PreviousOf, Uploaded, Replacing, Locked
<1>6. Files'
  BY <1>1, <1>5, OthersFiles, Parts, ActorsDiffer
     DEF Recover, Held, Locked, Draining, Replacing, IInv, Files, Disk, Owners
<1> QED  BY <1>3, <1>4, <1>6 DEF IInv

LEMMA ReopenKeeps == ASSUME IInv, NEW a \in Attempts, Reopen(a) PROVE IInv'
<1>1. /\ att' \in [Attempts -> Attempt]
      /\ \A b \in Attempts \ {a} : att'[b] = att[b]
      /\ att[a].pc = "reopen" /\ att'[a].pc \in {"commit", "undo"}
  BY Moves, AllStages DEF Reopen, At
<1>2. disk' \in Disk
  BY Parts DEF Reopen
<1>3. TypeOK'
  BY <1>1, <1>2, AttemptFrame DEF Reopen, At, gate, env, IInv, TypeOK
<1>4. Gate'
  BY <1>1, InnerGate DEF Reopen, gate, Held, Locked, Draining, Replacing
<1>5. FilesOf(a)'
  BY <1>1, Parts
     DEF Reopen, GoTo, FailTo, Attempt, Disk, BackedUp, Draining, IInv, Files, FilesOf,
         BackupOf, PreviousOf, Uploaded, Replacing, Locked
<1>6. Files'
  BY <1>1, <1>5, OthersFiles, Parts, ActorsDiffer
     DEF Reopen, Held, Locked, Draining, Replacing, IInv, Files, Disk, Owners
<1> QED  BY <1>3, <1>4, <1>6 DEF IInv

LEMMA WriteRestoreAuditKeeps == ASSUME IInv, NEW a \in Attempts, WriteRestoreAudit(a) PROVE IInv'
<1>1. /\ att' \in [Attempts -> Attempt]
      /\ \A b \in Attempts \ {a} : att'[b] = att[b]
      /\ att[a].pc = "commit" /\ att'[a].pc \in {"clean", "undo"}
  BY Moves, AllStages DEF WriteRestoreAudit, At
<1>2. \/ att'[a].pc = "clean" /\ disk' = [disk EXCEPT !.db = @ \cup {a}]
      \/ att'[a].pc = "undo" /\ disk' = disk
  BY Moves, AllStages DEF WriteRestoreAudit, At
<1>3. /\ att'[a].archive = att[a].archive /\ att'[a].before = att[a].before
      /\ att'[a].kept = att[a].kept /\ handle' = handle /\ bg' = bg
  BY Moves, AllStages DEF WriteRestoreAudit, At
<1>4. disk' \in Disk
  BY <1>1, Parts
     DEF WriteRestoreAudit, Disk, Contents, Transactions, Owners, IInv, Files, FilesOf,
         BackupOf, PreviousOf, Uploaded, Replacing, Locked
<1>5. TypeOK'
  BY <1>1, <1>4, AttemptFrame DEF WriteRestoreAudit, At, gate, env, IInv, TypeOK
<1>6. Gate'
  BY <1>1, InnerGate DEF WriteRestoreAudit, gate, Held, Locked, Draining, Replacing
<1>7. FilesOf(a)'
  <2>1. BackupOf(a)'
    BY <1>1, <1>2, <1>3, Parts, OwnersAre
       DEF BackupOf, Disk, BackedUp, Draining, Replacing, Locked, IInv, Files, FilesOf
  <2>2. PreviousOf(a)'
    BY <1>1, <1>2, <1>3, Parts, OwnersAre
       DEF PreviousOf, Disk, BackedUp, Draining, Replacing, Locked, IInv, Files, FilesOf
  <2>3. Uploaded(a)'
    BY <1>1, <1>2, <1>3, Parts, OwnersAre
       DEF Uploaded, Disk, BackedUp, Draining, Replacing, Locked, IInv, Files, FilesOf
  <2> QED  BY <2>1, <2>2, <2>3 DEF FilesOf
<1>8. Files'
  <2>1. att[a].pc \in Held
    BY <1>1 DEF Held, Locked, Draining, Replacing
  <2>2. disk'.snapshots = disk.snapshots /\ req' = req
    BY <1>2, Parts DEF WriteRestoreAudit, Disk
  <2>3. \A b \in Attempts \ {a} : att'[b] = att[b]
    BY <1>1
  <2>4. \A b \in Attempts \ {a} : FilesOf(b)'
    BY <2>1, <2>3, OthersFiles, Zenon
  <2> QED  BY <1>7, <2>2, <2>4 DEF IInv, Files
<1> QED  BY <1>5, <1>6, <1>8 DEF IInv

LEMMA RemoveOldKeeps == ASSUME IInv, NEW a \in Attempts, RemoveOld(a) PROVE IInv'
<1>1. /\ att' \in [Attempts -> Attempt]
      /\ \A b \in Attempts \ {a} : att'[b] = att[b]
      /\ att[a].pc = "clean" /\ att'[a].pc = "leave"
  BY Resolves, AllStages DEF RemoveOld, At
<1>2. disk' \in Disk
  BY <1>1, Parts
     DEF RemoveOld, Disk, Contents, Transactions, Owners, IInv, Files, FilesOf, BackupOf,
         PreviousOf, Uploaded, Replacing, Locked
<1>3. TypeOK'
  BY <1>1, <1>2, AttemptFrame DEF RemoveOld, At, gate, env, IInv, TypeOK
<1>4. Gate'
  BY <1>1, InnerGate DEF RemoveOld, gate, Held, Locked, Draining, Replacing
<1>5. FilesOf(a)'
  BY <1>1, Parts, <1>2
     DEF RemoveOld, GoTo, FailTo, Attempt, Disk, BackedUp, Draining, IInv, Files, FilesOf,
         BackupOf, PreviousOf, Uploaded, Replacing, Locked
<1>6. Files'
  BY <1>1, <1>5, OthersFiles, Parts, ActorsDiffer
     DEF RemoveOld, Held, Locked, Draining, Replacing, IInv, Files, Disk, Owners
<1> QED  BY <1>3, <1>4, <1>6 DEF IInv

LEMMA RollbackCloseKeeps == ASSUME IInv, NEW a \in Attempts, RollbackClose(a) PROVE IInv'
<1>1. /\ att' \in [Attempts -> Attempt]
      /\ \A b \in Attempts \ {a} : att'[b] = att[b]
      /\ att[a].pc = "undo" /\ att'[a].pc = "restoreOld"
  BY Moves, AllStages DEF RollbackClose, At
<1>2. disk' \in Disk
  BY Parts DEF RollbackClose
<1>3. TypeOK'
  BY <1>1, <1>2, AttemptFrame DEF RollbackClose, At, gate, env, IInv, TypeOK, Closes
<1>4. Gate'
  BY <1>1, InnerGate DEF RollbackClose, gate, Held, Locked, Draining, Replacing
<1>5. FilesOf(a)'
  BY <1>1, Parts
     DEF RollbackClose, GoTo, FailTo, Attempt, Disk, BackedUp, Draining, Closes, IInv, Files,
         FilesOf, BackupOf, PreviousOf, Uploaded, Replacing, Locked
<1>6. Files'
  BY <1>1, <1>5, OthersFiles, Parts, ActorsDiffer
     DEF RollbackClose, Held, Locked, Draining, Replacing, IInv, Files, Disk, Owners
<1> QED  BY <1>3, <1>4, <1>6 DEF IInv

LEMMA RollbackRenameKeeps == ASSUME IInv, NEW a \in Attempts, RollbackRename(a) PROVE IInv'
<1>1. /\ att' \in [Attempts -> Attempt]
      /\ \A b \in Attempts \ {a} : att'[b] = att[b]
      /\ att[a].pc = "restoreOld" /\ att'[a].pc = "reopenOld"
  BY Moves, AllStages DEF RollbackRename, At
<1>2. \/ att'[a].pc = "reopenOld" /\ disk' = [disk EXCEPT !.db = disk.old, !.old = None]
      \/ att'[a].pc = "reopenOld" /\ disk' = disk
  BY Moves, AllStages DEF RollbackRename, At
<1>3. /\ att'[a].archive = att[a].archive /\ att'[a].before = att[a].before
      /\ att'[a].kept = att[a].kept /\ handle' = handle /\ bg' = bg
  BY Moves, AllStages DEF RollbackRename, At
<1>4. disk.old \in Contents
  BY <1>1, Parts DEF Disk, Attempt, IInv, Files, FilesOf, PreviousOf, Replacing
<1>5. disk' \in Disk
  BY <1>2, <1>4, Parts, OwnersAre DEF Disk, Contents, Transactions
<1>6. TypeOK'
  BY <1>1, <1>5, AttemptFrame DEF RollbackRename, At, gate, env, IInv, TypeOK
<1>7. Gate'
  BY <1>1, InnerGate DEF RollbackRename, gate, Held, Locked, Draining, Replacing
<1>8. FilesOf(a)'
  <2>1. BackupOf(a)'
    BY <1>1, <1>2, <1>3, <1>4, Parts, OwnersAre
       DEF BackupOf, Disk, BackedUp, Draining, Replacing, Locked, IInv, Files, FilesOf
  <2>2. PreviousOf(a)'
    BY <1>1, <1>2, <1>3, <1>4, Parts, OwnersAre
       DEF PreviousOf, Disk, BackedUp, Draining, Replacing, Locked, IInv, Files, FilesOf
  <2>3. Uploaded(a)'
    BY <1>1, <1>2, <1>3, <1>4, Parts, OwnersAre
       DEF Uploaded, Disk, BackedUp, Draining, Replacing, Locked, IInv, Files, FilesOf
  <2> QED  BY <2>1, <2>2, <2>3 DEF FilesOf
<1>9. Files'
  BY <1>1, <1>8, OthersFiles, Parts, ActorsDiffer
     DEF RollbackRename, Held, Locked, Draining, Replacing, IInv, Files, Disk, Owners
<1> QED  BY <1>6, <1>7, <1>9 DEF IInv

LEMMA RollbackReopenKeeps == ASSUME IInv, NEW a \in Attempts, RollbackReopen(a) PROVE IInv'
<1>1. /\ att' \in [Attempts -> Attempt]
      /\ \A b \in Attempts \ {a} : att'[b] = att[b]
      /\ att[a].pc = "reopenOld" /\ att'[a].pc = "leave"
  BY Moves, AllStages DEF RollbackReopen, At
<1>2. disk' \in Disk
  BY Parts DEF RollbackReopen
<1>3. TypeOK'
  BY <1>1, <1>2, AttemptFrame DEF RollbackReopen, At, gate, env, IInv, TypeOK
<1>4. Gate'
  BY <1>1, InnerGate DEF RollbackReopen, gate, Held, Locked, Draining, Replacing
<1>5. FilesOf(a)'
  BY <1>1, Parts
     DEF RollbackReopen, GoTo, FailTo, Attempt, Disk, BackedUp, Draining, IInv, Files, FilesOf,
         BackupOf, PreviousOf, Uploaded, Replacing, Locked
<1>6. Files'
  BY <1>1, <1>5, OthersFiles, Parts, ActorsDiffer
     DEF RollbackReopen, Held, Locked, Draining, Replacing, IInv, Files, Disk, Owners
<1> QED  BY <1>3, <1>4, <1>6 DEF IInv

-----------------------------------------------------------------------------
(* The steps of an attempt that take or give back the lock and the gate.    *)

(* An attempt that holds nothing moves to a stage that holds nothing. *)
LEMMA OuterGate ==
    ASSUME IInv, NEW a \in Attempts,
           \A b \in Attempts \ {a} : att'[b] = att[b],
           att[a].pc \notin Held, att'[a].pc \notin Held,
           UNCHANGED <<token, maintenance, active>>
    PROVE  Gate'
BY DEF IInv, Gate, GateOf, Held

(* The files of the others, when nothing but uploads and replacements moves. *)
LEMMA QuietFiles ==
    ASSUME IInv, NEW a \in Attempts,
           \A b \in Attempts \ {a} : att'[b] = att[b],
           UNCHANGED <<handle, bg, req, disk.db, disk.old, disk.snapshots, disk.archives>>,
           FilesOf(a)'
    PROVE  Files'
BY DEF IInv, Files, FilesOf, BackupOf, PreviousOf, Uploaded, BackedUp

LEMMA ArriveKeeps == ASSUME IInv, NEW a \in Attempts, Arrive(a) PROVE IInv'
<1> DEFINE stage == IF maintenance THEN "refused" ELSE "stage"
<1>1. stage \in AttemptStages /\ stage \notin Held /\ "idle" \notin Held
  BY AllStages DEF Held, Locked, Draining, Replacing
<1>2. /\ att' \in [Attempts -> Attempt]
      /\ \A b \in Attempts \ {a} : att'[b] = att[b]
      /\ att'[a].pc = stage /\ att[a].pc = "idle" /\ att'[a].kept = att[a].kept
  BY <1>1, Moves DEF Arrive, At
<1>3. TypeOK'
  BY <1>2, AttemptFrame, Parts DEF Arrive, At, gate, env, IInv, TypeOK
<1>4. Gate'
  BY <1>1, <1>2, OuterGate DEF Arrive, gate
<1>5. FilesOf(a)'
  BY <1>2
     DEF FilesOf, BackupOf, PreviousOf, Uploaded, Arrive, IInv, Files, Locked, Draining,
         Replacing
<1> QED  BY <1>2, <1>3, <1>4, <1>5, QuietFiles DEF IInv, Arrive

LEMMA DisconnectKeeps == ASSUME IInv, NEW a \in Attempts, Disconnect(a) PROVE IInv'
<1>1. /\ att' \in [Attempts -> Attempt]
      /\ \A b \in Attempts : /\ att'[b].pc = att[b].pc /\ att'[b].outcome = att[b].outcome
                             /\ att'[b].archive = att[b].archive
                             /\ att'[b].before = att[b].before /\ att'[b].kept = att[b].kept
  BY Parts DEF Disconnect, Attempt
<1>2. TypeOK'
  BY <1>1, AttemptFrame, Parts DEF Disconnect, gate, env, IInv, TypeOK
<1>3. Gate'
  BY <1>1 DEF Gate, GateOf, IInv, Disconnect, gate
<1>4. Files'
  BY <1>1 DEF Files, FilesOf, BackupOf, PreviousOf, Uploaded, BackedUp, IInv, Disconnect
<1> QED  BY <1>2, <1>3, <1>4 DEF IInv

LEMMA StageRestoreKeeps == ASSUME IInv, NEW a \in Attempts, StageRestore(a) PROVE IInv'
<1>1. CASE att[a].pc = "stage" /\ att' = [att EXCEPT ![a] = Finished("done", "failed")] /\ UNCHANGED disk /\ Errs(a)
  <2>1. /\ att' \in [Attempts -> Attempt]
        /\ \A b \in Attempts \ {a} : att'[b] = att[b]
        /\ att'[a].pc = "done" /\ att'[a].kept = None
    BY <1>1, FinishedType, AllStages, Parts
  <2>2. TypeOK'
    BY <1>1, <2>1, AttemptFrame, ErrsType, Parts DEF StageRestore, At, gate, IInv, TypeOK
  <2>3. Gate'
    BY <1>1, <2>1, OuterGate DEF StageRestore, gate, Held, Locked, Draining, Replacing
  <2>4. FilesOf(a)'
    BY <2>1 DEF FilesOf, BackupOf, PreviousOf, Uploaded, Locked, Draining, Replacing
  <2> QED  BY <1>1, <2>1, <2>2, <2>3, <2>4, QuietFiles DEF IInv, StageRestore
<1>2. CASE /\ \E archive \in disk.archives :
                  att' = [att EXCEPT ![a].pc = "lock", ![a].archive = archive]
           /\ disk' = [disk EXCEPT !.uploads = @ \cup {a}]
           /\ UNCHANGED faults
           /\ att[a].pc = "stage"
  <2>1. /\ att' \in [Attempts -> Attempt]
        /\ \A b \in Attempts \ {a} : att'[b] = att[b]
        /\ att'[a].pc = "lock" /\ att'[a].kept = att[a].kept /\ att'[a].archive \in Contents
    <3>1. PICK archive \in disk.archives :
            att' = [att EXCEPT ![a].pc = "lock", ![a].archive = archive]
      BY <1>2
    <3>2. archive \in Contents
      BY Parts DEF Disk
    <3>3. "lock" \in AttemptStages
      BY AllStages
    <3>4. /\ att' \in [Attempts -> Attempt]
          /\ \A b \in Attempts \ {a} : att'[b] = att[b]
          /\ att'[a].pc = "lock" /\ att'[a].archive = archive
          /\ att'[a].before = att[a].before /\ att'[a].kept = att[a].kept
      BY <3>1, <3>2, <3>3, TakesArchive
    <3> QED  BY <3>2, <3>4
  <2>2. disk' \in Disk
    BY <1>2, Parts DEF Disk
  <2>3. TypeOK'
    BY <1>2, <2>1, <2>2, AttemptFrame DEF StageRestore, At, gate, IInv, TypeOK
  <2>4. Gate'
    BY <1>2, <2>1, OuterGate DEF StageRestore, gate, Held, Locked, Draining, Replacing
  <2>5. FilesOf(a)'
    BY <1>2, <2>1
       DEF FilesOf, BackupOf, PreviousOf, Uploaded, Locked, Draining, Replacing, IInv, Files
  <2>6. UNCHANGED <<disk.db, disk.old, disk.snapshots, disk.archives>>
    BY <1>2, Parts DEF Disk
  <2> QED  BY <1>2, <2>1, <2>3, <2>4, <2>5, <2>6, QuietFiles DEF IInv, StageRestore
<1> QED  BY <1>1, <1>2 DEF StageRestore, At

LEMMA BeginRestoreKeeps == ASSUME IInv, NEW a \in Attempts, BeginRestore(a) PROVE IInv'
<1>1. /\ att' \in [Attempts -> Attempt]
      /\ \A b \in Attempts \ {a} : att'[b] = att[b]
      /\ att[a].pc = "lock" /\ att'[a].pc = "prepare" /\ att'[a].before = disk.db
      /\ att'[a].kept = att[a].kept /\ att'[a].archive = att[a].archive
  <2>1. disk.db \in Contents /\ "prepare" \in AttemptStages
    BY Parts, AllStages DEF Disk
  <2>2. /\ att[a].pc = "lock"
        /\ att' = [att EXCEPT ![a].pc = "prepare", ![a].before = disk.db]
    BY DEF BeginRestore, At
  <2>3. /\ att' \in [Attempts -> Attempt]
        /\ \A b \in Attempts \ {a} : att'[b] = att[b]
        /\ att'[a].pc = "prepare" /\ att'[a].before = disk.db
        /\ att'[a].archive = att[a].archive
        /\ att'[a].kept = att[a].kept
    BY <2>1, <2>2, TakesBefore
  <2> QED  BY <2>2, <2>3
<1>2. TypeOK'
  BY <1>1, AttemptFrame, Parts DEF BeginRestore, At, gate, env, IInv, TypeOK
<1>3. Gate'
  BY <1>1, NoneIsNoAttempt
     DEF BeginRestore, IInv, Gate, GateOf, Held, Locked, Draining, Replacing
<1>4. FilesOf(a)'
  BY <1>1
     DEF BeginRestore, FilesOf, BackupOf, PreviousOf, Uploaded, Locked, Draining, Replacing,
         IInv, Files
<1> QED  BY <1>1, <1>2, <1>3, <1>4, QuietFiles DEF IInv, BeginRestore

LEMMA BeginRestoreCancelledKeeps ==
    ASSUME IInv, NEW a \in Attempts, BeginRestoreCancelled(a) PROVE IInv'
<1>1. /\ att' \in [Attempts -> Attempt]
      /\ \A b \in Attempts \ {a} : att'[b] = att[b]
      /\ att[a].pc = "lock" /\ att'[a].pc = "done" /\ att'[a].kept = None
  BY AllStages, FinishedType, Parts DEF BeginRestoreCancelled, At
<1>2. disk' \in Disk /\ UNCHANGED <<disk.db, disk.old, disk.snapshots, disk.archives>>
  BY Parts DEF BeginRestoreCancelled, Disk
<1>3. TypeOK'
  BY <1>1, <1>2, AttemptFrame DEF BeginRestoreCancelled, At, gate, env, IInv, TypeOK
<1>4. Gate'
  BY <1>1, OuterGate DEF BeginRestoreCancelled, gate, Held, Locked, Draining, Replacing
<1>5. FilesOf(a)'
  BY <1>1 DEF FilesOf, BackupOf, PreviousOf, Uploaded, Locked, Draining, Replacing
<1> QED  BY <1>1, <1>2, <1>3, <1>4, <1>5, QuietFiles DEF IInv, BeginRestoreCancelled

LEMMA Detached ==
    ASSUME IInv, NEW a \in Attempts, Detach(a)
    PROVE  /\ att' \in [Attempts -> Attempt]
           /\ \A b \in Attempts \ {a} : att'[b] = att[b]
           /\ att'[a].pc = "checkpoint" /\ att'[a].kept = att[a].kept
           /\ att'[a].archive = att[a].archive /\ att'[a].before = att[a].before
<1>1. "checkpoint" \in AttemptStages
  BY AllStages
<1> QED  BY <1>1, Detaches DEF Detach

LEMMA BeginMaintenanceKeeps == ASSUME IInv, NEW a \in Attempts, BeginMaintenance(a) PROVE IInv'
<1>1. /\ att' \in [Attempts -> Attempt]
      /\ \A b \in Attempts \ {a} : att'[b] = att[b]
      /\ att[a].pc = "begin"
      /\ att'[a].pc = IF active = {} THEN "checkpoint" ELSE "drain"
      /\ att'[a].kept = att[a].kept /\ att'[a].archive = att[a].archive
      /\ att'[a].before = att[a].before
  BY Detached, Moves, AllStages, Parts DEF BeginMaintenance, At
<1>2. TypeOK'
  BY <1>1, AttemptFrame, Parts DEF BeginMaintenance, At, gate, env, IInv, TypeOK
<1>3. Gate'
  BY <1>1 DEF BeginMaintenance, IInv, Gate, GateOf, Held, Locked, Draining, Replacing
<1>4. FilesOf(a)'
  BY <1>1
     DEF BeginMaintenance, FilesOf, BackupOf, BackedUp, PreviousOf, Uploaded, Locked, Draining,
         Replacing, IInv, Files
<1> QED  BY <1>1, <1>2, <1>3, <1>4, QuietFiles DEF IInv, BeginMaintenance

LEMMA DrainedKeeps == ASSUME IInv, NEW a \in Attempts, Drained(a) PROVE IInv'
<1>1. /\ att' \in [Attempts -> Attempt]
      /\ \A b \in Attempts \ {a} : att'[b] = att[b]
      /\ att[a].pc = "drain" /\ att'[a].pc = "checkpoint"
      /\ att'[a].kept = att[a].kept /\ att'[a].archive = att[a].archive
      /\ att'[a].before = att[a].before
  BY Detached, Parts DEF Drained, At
<1>2. TypeOK'
  BY <1>1, AttemptFrame, Parts DEF Drained, At, gate, env, IInv, TypeOK
<1>3. Gate'
  BY <1>1 DEF Drained, gate, IInv, Gate, GateOf, Held, Locked, Draining, Replacing
<1>4. FilesOf(a)'
  BY <1>1
     DEF Drained, FilesOf, BackupOf, BackedUp, PreviousOf, Uploaded, Locked, Draining,
         Replacing, IInv, Files
<1> QED  BY <1>1, <1>2, <1>3, <1>4, QuietFiles DEF IInv, Drained

(* One step opens the gate: of the attempt whose wait was cancelled, or of  *)
(* the one that is through.                                                 *)
LEMMA OpensKeeps ==
    ASSUME IInv, up, NEW a \in Attempts,
           att[a].pc \in {"drain", "leave"},
           GoTo(a, "release") \/ FailTo(a, "release"),
           maintenance' = FALSE,
           UNCHANGED <<up, handle, active, token, req, bg, disk, acked, env>>
    PROVE  IInv'
<1>1. /\ att' \in [Attempts -> Attempt]
      /\ \A b \in Attempts \ {a} : att'[b] = att[b]
      /\ att'[a].pc = "release" /\ att'[a].kept = att[a].kept
  BY AllStages, Moves
<1>2. TypeOK'
  BY <1>1, AttemptFrame, Parts DEF env, IInv, TypeOK
<1>3. Gate'
  <2>1. \A b \in Attempts \ {a} : att[b].pc \notin Held
    BY NoneIsNoAttempt DEF IInv, Gate, GateOf, Held, Locked, Draining, Replacing
  <2> QED  BY <1>1, <2>1 DEF IInv, Gate, GateOf, Held, Locked, Draining, Replacing
<1>4. FilesOf(a)'
  BY <1>1, Moves, AllStages
     DEF FilesOf, BackupOf, BackedUp, PreviousOf, Uploaded, Locked, Draining, Replacing, IInv,
         Files
<1> QED  BY <1>1, <1>2, <1>3, <1>4, QuietFiles DEF IInv

LEMMA EndRestoreKeeps == ASSUME IInv, NEW a \in Attempts, EndRestore(a) PROVE IInv'
<1>1. /\ att' \in [Attempts -> Attempt]
      /\ \A b \in Attempts \ {a} : att'[b] = att[b]
      /\ att[a].pc = "release" /\ att'[a].pc = "done" /\ att'[a].kept = None
  <2>1. att[a].outcome \in {"none", "restored", "failed"} /\ "done" \in AttemptStages
    BY AllStages, Parts DEF Attempt
  <2> QED  BY <2>1, FinishedType, Parts DEF EndRestore, At
<1>2. disk' \in Disk /\ UNCHANGED <<disk.db, disk.old, disk.snapshots, disk.archives>>
  BY Parts DEF EndRestore, Disk
<1>3. TypeOK'
  BY <1>1, <1>2, AttemptFrame DEF EndRestore, At, env, IInv, TypeOK
<1>4. Gate'
  <2>1. token = a /\ ~(att[a].pc \in Draining \cup Replacing)
    BY <1>1 DEF IInv, Gate, GateOf, Held, Locked, Draining, Replacing
  <2>2. \A b \in Attempts : token' # b /\ (b # a => att[b].pc \notin Held)
    BY <2>1, NoneIsNoAttempt DEF EndRestore, IInv, Gate, GateOf
  <2>3. att'[a].pc \notin Held
    BY <1>1 DEF Held, Locked, Draining, Replacing
  <2> QED  BY <1>1, <2>1, <2>2, <2>3 DEF EndRestore, IInv, Gate, GateOf, Held
<1>5. FilesOf(a)'
  BY <1>1 DEF FilesOf, BackupOf, PreviousOf, Uploaded, Locked, Draining, Replacing
<1> QED  BY <1>1, <1>2, <1>3, <1>4, <1>5, QuietFiles DEF IInv, EndRestore

LEMMA AttemptStepKeeps ==
    ASSUME IInv, NEW a \in Attempts, Arrive(a) \/ Disconnect(a) \/ AttemptStep(a)
    PROVE  IInv'
<1>1. CASE DrainCancelled(a)
  BY <1>1, OpensKeeps DEF DrainCancelled, At
<1>2. CASE EndMaintenance(a)
  BY <1>2, OpensKeeps DEF EndMaintenance, At
<1> QED
  BY <1>1, <1>2, ArriveKeeps, DisconnectKeeps, StageRestoreKeeps, BeginRestoreKeeps,
     BeginRestoreCancelledKeeps, CheckRestoreSpaceKeeps, ExtractBackupDatabaseKeeps,
     ValidateReplacementKeeps, SnapshotKeeps, WriteArchiveKeeps, BeginMaintenanceKeeps,
     DrainedKeeps, CheckpointKeeps, CloseKeeps, LinkKeeps, RenameKeeps, RecoverKeeps,
     ReopenKeeps, WriteRestoreAuditKeeps, RemoveOldKeeps, RollbackCloseKeeps,
     RollbackRenameKeeps, RollbackReopenKeeps, EndRestoreKeeps DEF AttemptStep

-----------------------------------------------------------------------------
(* The steps of the requests, the scheduler and the process. *)

(* While a request is inside, no attempt has got further than the drain. *)
LEMMA InsideMeansNotReplacing ==
    ASSUME IInv, NEW r \in Requests, req[r] \in Inside
    PROVE  \A a \in Attempts : att[a].pc \notin Replacing
BY DEF IInv, TypeOK, Gate, GateOf

LEMMA RequestFrame ==
    ASSUME IInv, up, req' \in [Requests -> RequestStages], disk' \in Disk,
           active' = {r \in Requests : req'[r] \in Inside},
           acked' \subseteq Requests \cup Ticks,
           UNCHANGED <<up, handle, maintenance, token, att, bg, env>>
    PROVE  TypeOK'
BY DEF IInv, TypeOK, env

(* A step of one request from outside to inside, within, or back. *)
LEMMA RequestMoves ==
    ASSUME IInv, NEW r \in Requests, NEW stage \in RequestStages,
           req' = [req EXCEPT ![r] = stage]
    PROVE  /\ req' \in [Requests -> RequestStages]
           /\ \A q \in Requests \ {r} : req'[q] = req[q]
           /\ req'[r] = stage
           /\ stage \in Inside => {q \in Requests : req'[q] \in Inside} = active \cup {r}
           /\ stage \notin Inside => {q \in Requests : req'[q] \in Inside} = active \ {r}
BY DEF IInv, TypeOK

LEMMA BeginRequestKeeps == ASSUME IInv, NEW r \in Requests, BeginRequest(r) PROVE IInv'
<1>1. req[r] = "idle" /\ r \notin active /\ "idle" \notin Inside
  BY DEF BeginRequest, IInv, TypeOK, Inside
<1>2. CASE maintenance
  <2>1. req' = [req EXCEPT ![r] = "refused"] /\ "refused" \in RequestStages /\ "refused" \notin Inside
    BY <1>2 DEF BeginRequest, RequestStages, Inside
  <2>2. TypeOK'
    BY <1>1, <1>2, <2>1, RequestMoves, RequestFrame, Parts DEF BeginRequest, IInv, TypeOK
  <2>3. Gate'
    BY <1>2 DEF BeginRequest, IInv, Gate, GateOf
  <2>4. Files'
    BY <2>1, RequestMoves
       DEF BeginRequest, IInv, Files, FilesOf, BackupOf, PreviousOf, Uploaded, BackedUp
  <2> QED  BY <2>2, <2>3, <2>4 DEF IInv
<1>3. CASE ~maintenance
  <2>1. req' = [req EXCEPT ![r] = "in"] /\ "in" \in RequestStages /\ "in" \in Inside
    BY <1>3 DEF BeginRequest, RequestStages, Inside
  <2>2. TypeOK'
    BY <1>3, <2>1, RequestMoves, RequestFrame, Parts DEF BeginRequest, IInv, TypeOK
  <2>3. Gate'
    BY <1>3 DEF BeginRequest, IInv, Gate, GateOf
  <2>4. Files'
    BY <2>1, RequestMoves
       DEF BeginRequest, IInv, Files, FilesOf, BackupOf, PreviousOf, Uploaded, BackedUp
  <2> QED  BY <2>2, <2>3, <2>4 DEF IInv
<1> QED  BY <1>2, <1>3

LEMMA WriteRequestKeeps == ASSUME IInv, NEW r \in Requests, WriteRequest(r) PROVE IInv'
<1>1. req' = [req EXCEPT ![r] = "written"] /\ {"in", "written"} \subseteq Inside
      /\ "written" \in RequestStages /\ req[r] = "in"
  BY DEF WriteRequest, RequestStages, Inside
<1>2. disk.db \cup {r} \in Contents
  BY Parts DEF Disk, Contents, Transactions
<1>3. /\ disk' \in Disk /\ disk'.db = disk.db \cup {r}
      /\ UNCHANGED <<disk.old, disk.snapshots, disk.archives>>
  BY <1>2, Parts DEF WriteRequest, Disk
<1>4. r \in active
  BY <1>1 DEF IInv, TypeOK
<1>5. TypeOK'
  BY <1>1, <1>3, <1>4, RequestMoves, RequestFrame DEF WriteRequest, gate, IInv, TypeOK
<1>6. Gate'
  BY DEF WriteRequest, gate, IInv, Gate, GateOf
<1>7. Files'
  BY <1>1, <1>3, RequestMoves, InsideMeansNotReplacing
     DEF WriteRequest, IInv, Files, FilesOf, BackupOf, PreviousOf, Uploaded, BackedUp, Replacing
<1> QED  BY <1>5, <1>6, <1>7 DEF IInv

LEMMA SnapshotRequestKeeps == ASSUME IInv, NEW r \in Requests, SnapshotRequest(r) PROVE IInv'
<1>1. req' = [req EXCEPT ![r] = "snapshot"] /\ {"in", "snapshot"} \subseteq Inside
      /\ "snapshot" \in RequestStages /\ req[r] = "in"
  BY DEF SnapshotRequest, RequestStages, Inside
<1>2. r \in Owners /\ disk.db \in Contents
  BY Parts DEF Disk, Owners
<1>3. /\ disk' \in Disk /\ disk'.snapshots[r] \in Contents
      /\ \A o \in Owners \ {r} : disk'.snapshots[o] = disk.snapshots[o]
      /\ UNCHANGED <<disk.db, disk.old, disk.archives>>
  BY <1>2, Parts DEF SnapshotRequest, Disk
<1>4. r \in active
  BY <1>1 DEF IInv, TypeOK
<1>5. TypeOK'
  BY <1>1, <1>3, <1>4, RequestMoves, RequestFrame DEF SnapshotRequest, gate, IInv, TypeOK
<1>6. Gate'
  BY DEF SnapshotRequest, gate, IInv, Gate, GateOf
<1>7. Files'
  BY <1>1, <1>3, RequestMoves, ActorsDiffer
     DEF SnapshotRequest, IInv, Files, FilesOf, BackupOf, PreviousOf, Uploaded, BackedUp, Owners
<1> QED  BY <1>5, <1>6, <1>7 DEF IInv

LEMMA ArchiveRequestKeeps == ASSUME IInv, NEW r \in Requests, ArchiveRequest(r) PROVE IInv'
<1>1. req' = [req EXCEPT ![r] = "archived"] /\ {"snapshot", "archived"} \subseteq Inside
      /\ "archived" \in RequestStages /\ req[r] = "snapshot"
  BY DEF ArchiveRequest, RequestStages, Inside
<1>2. r \in Owners /\ disk.snapshots[r] \in Contents
  BY <1>1 DEF IInv, Files, Owners
<1>3. /\ disk.archives \cup {disk.snapshots[r]} \in SUBSET Contents
      /\ [disk.snapshots EXCEPT ![r] = None] \in [Owners -> Contents \cup {None}]
  BY <1>2, Parts DEF Disk
<1>4. /\ disk' \in Disk /\ disk.archives \subseteq disk'.archives
      /\ \A o \in Owners \ {r} : disk'.snapshots[o] = disk.snapshots[o]
      /\ UNCHANGED <<disk.db, disk.old>>
  BY <1>2, <1>3, Parts DEF ArchiveRequest, Disk
<1>5. r \in active
  BY <1>1 DEF IInv, TypeOK
<1>6. TypeOK'
  BY <1>1, <1>4, <1>5, RequestMoves, RequestFrame DEF ArchiveRequest, gate, IInv, TypeOK
<1>7. Gate'
  BY DEF ArchiveRequest, gate, IInv, Gate, GateOf
<1>8. Files'
  <2>1. /\ \A q \in Requests \ {r} : req'[q] = req[q]
        /\ req'[r] = "archived"
        /\ UNCHANGED <<att, handle, bg>>
    BY <1>1, RequestMoves DEF ArchiveRequest
  <2>2. \A a \in Attempts : disk'.snapshots[a] = disk.snapshots[a] /\ (BackedUp(a) => BackedUp(a)')
    BY <1>4, <2>1, ActorsDiffer DEF Owners, BackedUp
  <2>3. \A a \in Attempts : FilesOf(a)'
    BY <1>4, <2>1, <2>2 DEF IInv, Files, FilesOf, BackupOf, PreviousOf, Uploaded
  <2>4. \A q \in Requests : req'[q] = "snapshot" => disk'.snapshots[q] \in Contents
    BY <1>4, <2>1 DEF IInv, Files, Owners
  <2> QED  BY <2>3, <2>4 DEF Files
<1> QED  BY <1>6, <1>7, <1>8 DEF IInv

LEMMA BreakRequestKeeps == ASSUME IInv, NEW r \in Requests, BreakRequest(r) PROVE IInv'
<1>1. req' = [req EXCEPT ![r] = "broken"] /\ {"in", "broken"} \subseteq Inside
      /\ "broken" \in RequestStages /\ req[r] = "in"
  BY DEF BreakRequest, RequestStages, Inside
<1>2. r \in active
  BY <1>1 DEF IInv, TypeOK
<1>3. TypeOK'
  BY <1>1, <1>2, RequestMoves, RequestFrame, Parts DEF BreakRequest, gate, IInv, TypeOK
<1>4. Gate'
  BY DEF BreakRequest, gate, IInv, Gate, GateOf
<1>5. Files'
  BY <1>1, RequestMoves
     DEF BreakRequest, IInv, Files, FilesOf, BackupOf, PreviousOf, Uploaded, BackedUp
<1> QED  BY <1>3, <1>4, <1>5 DEF IInv

LEMMA EndRequestKeeps == ASSUME IInv, NEW r \in Requests, EndRequest(r) PROVE IInv'
<1> DEFINE stage == IF req[r] = "broken" THEN "failed" ELSE "answered"
<1>1. stage \in RequestStages \ Inside /\ stage # "snapshot"
  BY DEF RequestStages, Inside
<1>2. req' = [req EXCEPT ![r] = stage]
  BY DEF EndRequest, IInv, TypeOK
<1>3. acked' \subseteq Requests \cup Ticks
  BY DEF EndRequest, IInv, TypeOK
<1>4. /\ req' \in [Requests -> RequestStages]
      /\ \A q \in Requests \ {r} : req'[q] = req[q]
      /\ req'[r] # "snapshot"
      /\ active' = {q \in Requests : req'[q] \in Inside}
  BY <1>1, <1>2, RequestMoves DEF EndRequest
<1>5. TypeOK'
  BY <1>3, <1>4, RequestFrame, Parts DEF EndRequest
<1>6. Gate'
  BY DEF EndRequest, IInv, Gate, GateOf
<1>7. Files'
  BY <1>4 DEF EndRequest, IInv, Files, FilesOf, BackupOf, PreviousOf, Uploaded, BackedUp
<1> QED  BY <1>5, <1>6, <1>7 DEF IInv

LEMMA BackgroundTakesKeeps == ASSUME IInv, BackgroundTakes PROVE IInv'
<1>1. TypeOK'
  BY DEF BackgroundTakes, gate, env, IInv, TypeOK
<1>2. Gate'
  BY DEF BackgroundTakes, gate, IInv, Gate, GateOf
<1>3. Files'
  BY DEF BackgroundTakes, IInv, Files, FilesOf, BackupOf, PreviousOf, Uploaded, BackedUp
<1> QED  BY <1>1, <1>2, <1>3 DEF IInv

LEMMA BackgroundWritesKeeps == ASSUME IInv, BackgroundWrites PROVE IInv'
<1>1. /\ disk' \in Disk /\ disk.db \subseteq disk'.db
      /\ UNCHANGED <<disk.old, disk.snapshots, disk.archives>>
      /\ acked' \subseteq Requests \cup Ticks
  <2>1. CASE UNCHANGED <<disk, acked>>
    BY <2>1, Parts DEF IInv, TypeOK
  <2>2. CASE \E t \in Ticks \ acked : /\ disk' = [disk EXCEPT !.db = @ \cup {t}]
                                      /\ acked' = acked \cup {t}
    <3>1. PICK t \in Ticks : /\ disk' = [disk EXCEPT !.db = @ \cup {t}]
                             /\ acked' = acked \cup {t}
      BY <2>2
    <3>2. disk.db \cup {t} \in Contents
      BY Parts DEF Disk, Contents, Transactions
    <3>3. acked' \subseteq Requests \cup Ticks
      BY <3>1 DEF IInv, TypeOK
    <3> QED  BY <3>1, <3>2, <3>3, Parts DEF Disk
  <2> QED  BY <2>1, <2>2 DEF BackgroundWrites
<1>2. TypeOK'
  BY <1>1 DEF BackgroundWrites, gate, env, IInv, TypeOK
<1>3. Gate'
  BY DEF BackgroundWrites, gate, IInv, Gate, GateOf
<1>4. Files'
  BY <1>1 DEF BackgroundWrites, IInv, Files, FilesOf, BackupOf, PreviousOf, Uploaded, BackedUp
<1> QED  BY <1>2, <1>3, <1>4 DEF IInv

LEMMA BackgroundFailsKeeps == ASSUME IInv, BackgroundFails PROVE IInv'
<1>1. TypeOK'
  BY DEF BackgroundFails, gate, env, IInv, TypeOK
<1>2. Gate'
  BY DEF BackgroundFails, gate, IInv, Gate, GateOf
<1>3. Files'
  BY DEF BackgroundFails, IInv, Files, FilesOf, BackupOf, PreviousOf, Uploaded, BackedUp
<1> QED  BY <1>1, <1>2, <1>3 DEF IInv

(* The process ends at any step of anybody. *)
LEMMA DownKeeps == ASSUME IInv, Down PROVE IInv'
<1>1. \A a \in Attempts : att'[a] \in Attempt /\ att'[a].pc \in {"idle"} \cup Ended
                          /\ att'[a].kept = None
  <2> SUFFICES ASSUME NEW a \in Attempts
               PROVE  att'[a] \in Attempt /\ att'[a].pc \in {"idle"} \cup Ended
                      /\ att'[a].kept = None
    OBVIOUS
  <2>1. CASE att[a].pc \in {"idle"} \cup Ended
    BY <2>1, Parts DEF Down, IInv, Files, FilesOf, PreviousOf, Replacing, Ended
  <2>2. CASE att[a].pc \notin {"idle"} \cup Ended
    <3>1. att'[a] = Finished("lost", "none")
      BY <2>2 DEF Down
    <3> QED  BY <3>1, FinishedType, AllStages DEF Ended
  <2> QED  BY <2>1, <2>2
<1>2. att' \in [Attempts -> Attempt]
  BY <1>1 DEF Down
<1>3. req' \in [Requests -> RequestStages] /\ \A r \in Requests : req'[r] \notin Inside
  BY DEF Down, IInv, TypeOK, RequestStages, Inside
<1>4. crashes' \in 0..MaxCrashes
  BY BoundsAreNumbers DEF Down, IInv, TypeOK
<1>5. TypeOK'
  BY <1>2, <1>3, <1>4 DEF Down, IInv, TypeOK
<1>6. Gate'
  BY <1>1, NoneIsNoAttempt DEF Down, Gate, GateOf, Held, Ended, Locked, Draining, Replacing
<1>7. Files'
  BY <1>1, <1>3
     DEF Files, FilesOf, BackupOf, PreviousOf, Uploaded, Ended, Inside, Locked, Draining,
         Replacing
<1> QED  BY <1>5, <1>6, <1>7 DEF IInv

LEMMA StartKeeps == ASSUME IInv, Start PROVE IInv'
<1>1. \A a \in Attempts : att[a].pc \notin Held
  BY NoneIsNoAttempt DEF Start, IInv, TypeOK, Gate, GateOf
<1>2. \A r \in Requests : req[r] # "snapshot"
  BY DEF Start, IInv, TypeOK, Inside
<1>3. /\ disk' \in Disk
      /\ UNCHANGED <<disk.db, disk.old, disk.archives>>
  BY Parts DEF Start, CleanupIncomplete, Disk
<1>4. TypeOK'
  BY <1>3 DEF Start, gate, env, IInv, TypeOK
<1>5. Gate'
  BY DEF Start, gate, IInv, Gate, GateOf
<1>6. Files'
  BY <1>1, <1>2, <1>3
     DEF Start, IInv, Files, FilesOf, BackupOf, PreviousOf, Uploaded, BackedUp,
         Held, Locked, Draining, Replacing
<1> QED  BY <1>4, <1>5, <1>6 DEF IInv

-----------------------------------------------------------------------------
(* The invariant is inductive. *)

LEMMA InvInit == Init => IInv
<1> SUFFICES ASSUME Init PROVE IInv
  OBVIOUS
<1>1. NoAttempt \in Attempt
  BY AllStages DEF NoAttempt, Attempt
<1>2. disk \in Disk
  BY DEF Init, Disk, Contents
<1>3. TypeOK
  <2>1. /\ att \in [Attempts -> Attempt]
        /\ req \in [Requests -> RequestStages]
        /\ active = {r \in Requests : req[r] \in Inside}
    BY <1>1 DEF Init, RequestStages, Inside
  <2>2. faults \in 0..MaxFaults /\ crashes \in 0..MaxCrashes
    BY BoundsAreNumbers DEF Init
  <2> QED  BY <1>2, <2>1, <2>2 DEF Init, TypeOK
<1>4. Gate
  BY NoneIsNoAttempt DEF Init, Gate, GateOf, NoAttempt, Held, Locked, Draining, Replacing
<1>5. Files
  BY DEF Init, Files, FilesOf, BackupOf, PreviousOf, Uploaded, NoAttempt, Locked, Draining, Replacing
<1> QED  BY <1>3, <1>4, <1>5 DEF IInv

LEMMA InvNext == IInv /\ [Next]_vars => IInv'
<1> SUFFICES ASSUME IInv, [Next]_vars PROVE IInv'
  OBVIOUS
<1>1. CASE \E r \in Requests : BeginRequest(r) \/ RequestStep(r)
  BY <1>1, BeginRequestKeeps, WriteRequestKeeps, SnapshotRequestKeeps, ArchiveRequestKeeps,
     BreakRequestKeeps, EndRequestKeeps DEF RequestStep
<1>2. CASE \E a \in Attempts : Arrive(a) \/ Disconnect(a) \/ AttemptStep(a)
  BY <1>2, AttemptStepKeeps
<1>3. CASE BackgroundTakes \/ BackgroundWrites \/ BackgroundFails
  BY <1>3, BackgroundTakesKeeps, BackgroundWritesKeeps, BackgroundFailsKeeps
<1>4. CASE BackgroundPanics \/ Crash
  BY <1>4, DownKeeps DEF BackgroundPanics, Crash
<1>5. CASE Start
  BY <1>5, StartKeeps
<1>6. CASE UNCHANGED vars
  BY <1>6 DEF vars, IInv, TypeOK, Gate, GateOf, Files, FilesOf, BackupOf, BackedUp,
              PreviousOf, Uploaded
<1> QED  BY <1>1, <1>2, <1>3, <1>4, <1>5, <1>6 DEF Next

LEMMA Invariance == Spec => []IInv
BY InvInit, InvNext, PTL DEF Spec

(* Types, and the count of gate.active: for any number of requests and      *)
(* attempts, the gate counts exactly the requests that are inside, and a    *)
(* process that is down holds nothing.                                      *)
THEOREM TypeCorrect == Spec => []TypeOK
<1>1. IInv => TypeOK
  BY DEF IInv
<1> QED  BY <1>1, Invariance, PTL

(* Whatever fails, is cancelled or crashes, and however many requests and   *)
(* attempts there are: while an attempt may close, replace or reopen the    *)
(* database, no counted request is inside, the gate is shut and the attempt *)
(* holds the lock (gate.begin and replaceDatabase).                         *)
THEOREM Exclusion == Spec => []ExclusiveAccess
<1>1. IInv => ExclusiveAccess
  BY DEF IInv, Gate, GateOf, ExclusiveAccess, Held
<1> QED  BY <1>1, Invariance, PTL

(* On every path of RestoreStaged - failure, cancellation, rollback - the   *)
(* gate is shut only while the holder of the lock is on its way to open it. *)
THEOREM GateOpensAgain == Spec => []NeverLeftShut
<1>1. IInv => NeverLeftShut
  BY DEF IInv, Gate, GateOf, NeverLeftShut, Held
<1> QED  BY <1>1, Invariance, PTL

(* At every step of replaceDatabase and rollbackDatabase, with any number   *)
(* of failing calls before it, the database being replaced is whole on disk *)
(* until the restored one carries its audit event.                          *)
THEOREM PreviousIsSafe == Spec => []PreviousStaysOnDisk
<1>1. IInv => PreviousStaysOnDisk
  <2> SUFFICES ASSUME IInv, NEW a \in Attempts, att[a].pc \in Replacing,
                      att[a].kept # None, att[a].outcome = "none"
               PROVE  att[a].kept \subseteq disk.db \/ disk.old = att[a].kept \/ a \in disk.db
    BY DEF PreviousStaysOnDisk
  <2>1. PreviousOf(a)
    BY DEF IInv, Files, FilesOf
  <2> QED  BY <2>1 DEF PreviousOf, Replacing
<1> QED  BY <1>1, Invariance, PTL

(* No database is closed for replacement before a finished backup holds     *)
(* all it held when the restore took the lock (Create in RestoreStaged).    *)
THEOREM BackupComesFirst == Spec => []BackupHoldsWhatItReplaces
<1>1. IInv => BackupHoldsWhatItReplaces
  BY DEF IInv, Files, FilesOf, BackupOf, BackedUp, BackupHoldsWhatItReplaces
<1> QED  BY <1>1, Invariance, PTL

-----------------------------------------------------------------------------
(* What an attempt's step does, for the properties of files and outcomes.   *)

\* From here on the audit event of an attempt may be in the database.
Late == {"clean", "leave", "release"} \cup Ended

\* The steps that write no file.
QuietStep(a) ==
    \/ Arrive(a) \/ Disconnect(a) \/ BeginRestore(a) \/ CheckRestoreSpace(a)
    \/ ValidateReplacement(a) \/ BeginMaintenance(a) \/ Drained(a) \/ DrainCancelled(a)
    \/ Checkpoint(a) \/ Close(a) \/ Recover(a) \/ Reopen(a) \/ RollbackClose(a)
    \/ RollbackReopen(a) \/ EndMaintenance(a)

LEMMA QuietEffect ==
    ASSUME IInv, NEW a \in Attempts, QuietStep(a)
    PROVE  /\ up /\ UNCHANGED <<up, req, disk, acked>>
           /\ \A b \in Attempts \ {a} : att'[b] = att[b]
           /\ att'[a].archive = att[a].archive
           /\ token' = token \/ token = None
           /\ att[a].pc = "archive" <=> att'[a].pc = "archive"
           /\ att[a].pc \notin Ended /\ att'[a].pc # "idle"
           /\ att[a].pc \in Late => att'[a].pc \in Late
           /\ att'[a].pc \in Ended => att[a].pc = "idle"
           /\ att'[a].pc = "stage" => att[a].pc \in {"idle", "stage"}
<1>1. att \in [Attempts -> Attempt] /\ att[a] \in Attempt
  BY Parts
<1>2. CASE Arrive(a) \/ Disconnect(a) \/ BeginRestore(a) \/ BeginMaintenance(a) \/ Drained(a)
  BY <1>1, <1>2 DEF Arrive, Disconnect, BeginRestore, BeginMaintenance, Drained, Detach, At, GoTo,
     gate, env, Attempt, Late, Ended, Locked, Draining
<1>3. CASE CheckRestoreSpace(a) \/ ValidateReplacement(a) \/ DrainCancelled(a) \/ Checkpoint(a)
  BY <1>1, <1>3 DEF CheckRestoreSpace, ValidateReplacement, DrainCancelled, Checkpoint, At, GoTo,
     FailTo, gate, env, Attempt, Late, Ended
<1>4. CASE Close(a) \/ Recover(a) \/ Reopen(a)
  BY <1>1, <1>4 DEF Close, Recover, Reopen, At, GoTo, FailTo, gate, env, Attempt, Late, Ended
<1>5. CASE RollbackClose(a) \/ RollbackReopen(a) \/ EndMaintenance(a)
  BY <1>1, <1>5 DEF RollbackClose, RollbackReopen, EndMaintenance, At, GoTo, FailTo, gate, env,
     Attempt, Late, Ended
<1> QED  BY <1>2, <1>3, <1>4, <1>5 DEF QuietStep

\* The steps that do.
FileStep(a) ==
    \/ StageRestore(a) \/ BeginRestoreCancelled(a) \/ ExtractBackupDatabase(a) \/ Snapshot(a)
    \/ WriteArchive(a) \/ Link(a) \/ Rename(a) \/ WriteRestoreAudit(a) \/ RemoveOld(a)
    \/ RollbackRename(a) \/ EndRestore(a)

LEMMA AttemptSteps ==
    ASSUME NEW a \in Attempts, Arrive(a) \/ Disconnect(a) \/ AttemptStep(a)
    PROVE  QuietStep(a) \/ FileStep(a)
BY DEF AttemptStep, QuietStep, FileStep

LEMMA FileEffect ==
    ASSUME IInv, NEW a \in Attempts, FileStep(a)
    PROVE  /\ up /\ UNCHANGED <<up, req, acked>>
           /\ \A b \in Attempts \ {a} : att'[b] = att[b]
           /\ att[a].pc \notin Ended /\ att'[a].pc # "idle"
           /\ att[a].pc \in Late => att'[a].pc \in Late
<1>1. att \in [Attempts -> Attempt] /\ att[a] \in Attempt
  BY Parts
<1>2. CASE StageRestore(a) \/ BeginRestoreCancelled(a) \/ EndRestore(a)
  <2>1. CASE StageRestore(a)
    <3>1. att[a].pc = "stage" /\ att'[a].pc \in {"lock", "done"}
      <4>1. att[a].pc = "stage"
        BY <2>1 DEF StageRestore, At
      <4>2. ASSUME NEW archive, att' = [att EXCEPT ![a].pc = "lock", ![a].archive = archive]
            PROVE  att'[a].pc = "lock"
        BY <1>1, <4>2 DEF Attempt
      <4>3. CASE att' = [att EXCEPT ![a] = Finished("done", "failed")]
        BY <1>1, <4>1, <4>3 DEF Finished, NoAttempt
      <4> QED  BY <2>1, <4>1, <4>2, <4>3 DEF StageRestore
    <3>2. up /\ UNCHANGED <<up, req, acked>> /\ \A b \in Attempts \ {a} : att'[b] = att[b]
      BY <1>1, <2>1 DEF StageRestore, At
    <3> QED  BY <3>1, <3>2 DEF Late, Ended
  <2>2. CASE BeginRestoreCancelled(a)
    BY <1>1, <2>2 DEF BeginRestoreCancelled, Finished, NoAttempt, At, gate, env, Attempt, Late, Ended
  <2>3. CASE EndRestore(a)
    BY <1>1, <2>3 DEF EndRestore, Finished, NoAttempt, At, env, Attempt, Late, Ended
  <2> QED  BY <1>2, <2>1, <2>2, <2>3
<1>3. CASE ExtractBackupDatabase(a) \/ Snapshot(a) \/ WriteArchive(a)
  BY <1>1, <1>3 DEF ExtractBackupDatabase, Snapshot, WriteArchive, At, GoTo, FailTo, gate, env,
     Attempt, Late, Ended
<1>4. CASE Link(a) \/ Rename(a) \/ WriteRestoreAudit(a)
  BY <1>1, <1>4 DEF Link, Rename, WriteRestoreAudit, At, GoTo, FailTo, gate, env, Attempt, Late,
     Ended
<1>5. CASE RemoveOld(a) \/ RollbackRename(a)
  BY <1>1, <1>5 DEF RemoveOld, RollbackRename, At, GoTo, gate, env, Attempt, Late, Ended
<1> QED  BY <1>2, <1>3, <1>4, <1>5 DEF FileStep

-----------------------------------------------------------------------------
(* Leftovers. *)

\* LeftoversAreCleaned, and of the replacements also while the process is down.
Leftovers ==
    /\ \A a \in disk.replacements : token = a \/ att[a].pc = "lost"
    /\ up => /\ \A a \in disk.uploads : att[a].pc \notin {"idle", "stage"} \cup Ended
             /\ \A r \in Requests : disk.snapshots[r] # None => req[r] = "snapshot"
             /\ \A a \in Attempts : disk.snapshots[a] # None => att[a].pc = "archive"

(* A step of one attempt that leaves no leftovers of its own. *)
LEMMA OwnLeftovers ==
    ASSUME IInv, Leftovers, NEW a \in Attempts, up, UNCHANGED <<up, req>>,
           \A b \in Attempts \ {a} : att'[b] = att[b],
           token' = token \/ token \in {a, None},
           disk'.uploads \subseteq disk.uploads \cup {a},
           a \in disk'.uploads => att'[a].pc \notin {"idle", "stage"} \cup Ended,
           disk'.replacements \subseteq disk.replacements \cup {a},
           a \in disk'.replacements => token' = a \/ att'[a].pc = "lost",
           \A o \in Owners \ {a} : disk'.snapshots[o] = disk.snapshots[o],
           disk'.snapshots[a] # None => att'[a].pc = "archive"
    PROVE  Leftovers'
<1>1. disk.uploads \subseteq Attempts /\ disk.replacements \subseteq Attempts
  BY Parts DEF Disk
<1>2. \A b \in disk.replacements \ {a} : token' = b \/ att'[b].pc = "lost"
  BY <1>1, NoneIsNoAttempt DEF Leftovers
<1>3. \A r \in Requests : disk'.snapshots[r] = disk.snapshots[r]
  BY ActorsDiffer DEF Owners
<1>4. \A b \in Attempts \ {a} : disk'.snapshots[b] = disk.snapshots[b]
  BY DEF Owners
<1> QED  BY <1>1, <1>2, <1>3, <1>4 DEF Leftovers

LEMMA AttemptLeftovers ==
    ASSUME IInv, Leftovers, NEW a \in Attempts, QuietStep(a) \/ FileStep(a)
    PROVE  Leftovers'
<1>1. /\ disk \in Disk /\ a \in Owners /\ a # None /\ att[a] \in Attempt
      /\ att \in [Attempts -> Attempt]
  BY Parts, OwnersAre, NoneIsNoAttempt
<1>2. CASE QuietStep(a)
  <2>1. a \in disk.replacements => token' = a \/ att'[a].pc = "lost"
    BY <1>1, <1>2, QuietEffect DEF Leftovers, Ended
  <2>2. a \in disk.uploads => att'[a].pc \notin {"idle", "stage"} \cup Ended
    BY <1>2, QuietEffect DEF Leftovers
  <2>3. disk.snapshots[a] # None => att'[a].pc = "archive"
    BY <1>2, QuietEffect DEF Leftovers
  <2> QED  BY <1>2, <2>1, <2>2, <2>3, QuietEffect, OwnLeftovers
<1>3. CASE FileStep(a)
  <2> DEFINE Clean ==
        /\ token' = token \/ token \in {a, None}
        /\ disk'.uploads \subseteq disk.uploads \cup {a}
        /\ a \in disk'.uploads => att'[a].pc \notin {"idle", "stage"} \cup Ended
        /\ disk'.replacements \subseteq disk.replacements \cup {a}
        /\ a \in disk'.replacements => token' = a \/ att'[a].pc = "lost"
        /\ \A o \in Owners \ {a} : disk'.snapshots[o] = disk.snapshots[o]
        /\ disk'.snapshots[a] # None => att'[a].pc = "archive"
  <2>1. /\ a \in disk.uploads => att[a].pc \notin {"idle", "stage"} \cup Ended
        /\ a \in disk.replacements => token = a \/ att[a].pc = "lost"
        /\ disk.snapshots[a] # None => att[a].pc = "archive"
    BY <1>3, FileEffect DEF Leftovers
  <2>2. att[a].pc \in Held => token = a
    BY DEF IInv, Gate, GateOf
  <2>3. ASSUME StageRestore(a) PROVE Clean
    <3>1. /\ att[a].pc = "stage" /\ token' = token
          /\ \/ att'[a].pc = "lock" /\ disk' = [disk EXCEPT !.uploads = @ \cup {a}]
             \/ att'[a].pc = "done" /\ disk' = disk
      <4>1. att[a].pc = "stage" /\ token' = token
        BY <2>3 DEF StageRestore, At, gate
      <4>2. CASE att' = [att EXCEPT ![a] = Finished("done", "failed")] /\ disk' = disk
        BY <1>1, <4>1, <4>2 DEF Finished, NoAttempt
      <4>3. ASSUME NEW archive, att' = [att EXCEPT ![a].pc = "lock", ![a].archive = archive]
            PROVE  att'[a].pc = "lock"
        BY <1>1, <4>3 DEF Attempt
      <4> QED  BY <2>3, <4>1, <4>2, <4>3 DEF StageRestore
    <3> QED  BY <1>1, <2>1, <2>2, <3>1 DEF Disk, Held, Locked, Replacing, Ended
  <2>4. ASSUME BeginRestoreCancelled(a) PROVE Clean
    <3>1. /\ att[a].pc = "lock" /\ att'[a].pc = "done" /\ token' = token
          /\ disk' = [disk EXCEPT !.uploads = @ \ {a}]
      BY <1>1, <2>4 DEF BeginRestoreCancelled, Finished, NoAttempt, At, gate, Attempt
    <3> QED  BY <1>1, <2>1, <2>2, <3>1 DEF Disk, Held, Locked, Replacing, Ended
  <2>5. ASSUME EndRestore(a) PROVE Clean
    <3>1. /\ att[a].pc = "release" /\ att'[a].pc = "done" /\ token' = None
          /\ disk' = [disk EXCEPT !.replacements = @ \ {a}, !.uploads = @ \ {a}]
      BY <1>1, <2>5 DEF EndRestore, Finished, NoAttempt, At, Attempt
    <3>2. token = a
      BY <2>2, <3>1 DEF Held, Locked
    <3> QED  BY <1>1, <2>1, <3>1, <3>2 DEF Disk, Ended
  <2>6. ASSUME ExtractBackupDatabase(a) PROVE Clean
    <3>1. /\ att[a].pc = "extract" /\ att'[a].pc \in {"validate", "release"} /\ token' = token
          /\ disk' = [disk EXCEPT !.replacements = @ \cup {a}]
      BY <1>1, <2>6 DEF ExtractBackupDatabase, At, GoTo, FailTo, gate, Attempt
    <3>2. token = a
      BY <2>2, <3>1 DEF Held, Locked
    <3> QED  BY <1>1, <2>1, <3>1, <3>2 DEF Disk, Ended
  <2>7. ASSUME Snapshot(a) PROVE Clean
    <3>1. /\ att[a].pc = "backup" /\ token' = token
          /\ \/ att'[a].pc = "archive" /\ disk' = [disk EXCEPT !.snapshots[a] = disk.db]
             \/ att'[a].pc = "release" /\ disk' = disk
      BY <1>1, <2>7 DEF Snapshot, At, GoTo, FailTo, gate, Attempt
    <3>2. token = a
      BY <2>2, <3>1 DEF Held, Locked
    <3> QED  BY <1>1, <2>1, <3>1, <3>2 DEF Disk, Ended
  <2>8. ASSUME WriteArchive(a) PROVE Clean
    <3>1. /\ att[a].pc = "archive" /\ att'[a].pc \in {"begin", "release"} /\ token' = token
      BY <1>1, <2>8 DEF WriteArchive, At, GoTo, FailTo, gate, Attempt
    <3>2. /\ disk'.uploads = disk.uploads /\ disk'.replacements = disk.replacements
          /\ disk'.snapshots = [disk.snapshots EXCEPT ![a] = None]
      BY <1>1, <2>8 DEF WriteArchive, Disk
    <3>3. disk'.snapshots[a] = None /\ \A o \in Owners \ {a} : disk'.snapshots[o] = disk.snapshots[o]
      BY <1>1, <3>2 DEF Disk
    <3>4. token = a
      BY <2>2, <3>1 DEF Held, Locked
    <3> QED  BY <2>1, <3>1, <3>2, <3>3, <3>4 DEF Ended
  <2>9. ASSUME \/ Link(a) \/ Rename(a) \/ WriteRestoreAudit(a) \/ RemoveOld(a) \/ RollbackRename(a)
        PROVE  Clean
    <3>1. /\ att[a].pc \in Replacing /\ att'[a].pc \in Replacing /\ token' = token
      BY <1>1, <2>9 DEF Link, Rename, WriteRestoreAudit, RemoveOld, RollbackRename, At, GoTo, gate,
         Attempt, Replacing
    <3>2. /\ disk'.uploads = disk.uploads /\ disk'.snapshots = disk.snapshots
          /\ disk'.replacements \subseteq disk.replacements
      BY <1>1, <2>9 DEF Link, Rename, WriteRestoreAudit, RemoveOld, RollbackRename, Disk
    <3> QED  BY <1>1, <2>1, <2>2, <3>1, <3>2 DEF Disk, Held, Replacing, Ended
  <2>10. Clean
    BY <1>3, <2>3, <2>4, <2>5, <2>6, <2>7, <2>8, <2>9 DEF FileStep
  <2> QED  BY <1>3, <2>10, FileEffect, OwnLeftovers
<1> QED  BY <1>2, <1>3

LEMMA RequestLeftovers ==
    ASSUME IInv, Leftovers, NEW r \in Requests, BeginRequest(r) \/ RequestStep(r)
    PROVE  Leftovers'
<1>1. /\ disk \in Disk /\ r \in Owners /\ r \notin Attempts /\ req \in [Requests -> RequestStages]
  BY Parts, ActorsDiffer DEF Owners, IInv, TypeOK
<1>2. /\ UNCHANGED <<up, token, att>> /\ up
      /\ disk'.uploads = disk.uploads /\ disk'.replacements = disk.replacements
      /\ \A o \in Owners \ {r} : disk'.snapshots[o] = disk.snapshots[o]
      /\ \A q \in Requests \ {r} : req'[q] = req[q]
      /\ disk'.snapshots[r] # None => req'[r] = "snapshot" \/ disk'.snapshots[r] = disk.snapshots[r]
      /\ req[r] # "snapshot" \/ disk'.snapshots[r] = None
  <2>1. CASE BeginRequest(r)
    BY <1>1, <2>1 DEF BeginRequest, Disk
  <2>2. CASE WriteRequest(r)
    BY <1>1, <2>2 DEF WriteRequest, gate, Disk
  <2>3. CASE SnapshotRequest(r) \/ ArchiveRequest(r)
    <3>1. \E x : disk'.snapshots = [disk.snapshots EXCEPT ![r] = x]
      BY <1>1, <2>3 DEF SnapshotRequest, ArchiveRequest, Disk
    <3>2. disk'.uploads = disk.uploads /\ disk'.replacements = disk.replacements
      BY <1>1, <2>3 DEF SnapshotRequest, ArchiveRequest, Disk
    <3>3. CASE SnapshotRequest(r)
      BY <1>1, <3>1, <3>2, <3>3 DEF SnapshotRequest, gate, Disk
    <3>4. CASE ArchiveRequest(r)
      BY <1>1, <3>1, <3>2, <3>4 DEF ArchiveRequest, gate, Disk
    <3> QED  BY <2>3, <3>3, <3>4
  <2>4. CASE BreakRequest(r)
    BY <1>1, <2>4 DEF BreakRequest, gate
  <2>5. CASE EndRequest(r)
    BY <1>1, <2>5 DEF EndRequest
  <2> QED  BY <2>1, <2>2, <2>3, <2>4, <2>5 DEF RequestStep
<1>3. disk.snapshots[r] # None => req[r] = "snapshot"
  BY <1>2 DEF Leftovers
<1> QED  BY <1>1, <1>2, <1>3 DEF Leftovers, Owners

(* A running process has no upload or snapshot but those of requests it is  *)
(* serving, and no replacement but the holder's and those of attempts a     *)
(* crash ended: what a crash leaves is cleaned by the start (or, of         *)
(* replacements, stays), and no path of a handler leaves more.              *)
THEOREM NothingIsLeftBehind == Spec => []LeftoversAreCleaned
<1>1. Init => Leftovers
  BY DEF Init, Leftovers, Owners
<1>2. IInv /\ Leftovers /\ [Next]_vars => Leftovers'
  <2> SUFFICES ASSUME IInv, Leftovers, [Next]_vars PROVE Leftovers'
    OBVIOUS
  <2>1. CASE BackgroundTakes \/ BackgroundWrites \/ BackgroundFails
    <3>1. /\ UNCHANGED <<up, token, att, req>>
          /\ disk'.uploads = disk.uploads /\ disk'.replacements = disk.replacements
          /\ disk'.snapshots = disk.snapshots
      BY <2>1, Parts DEF BackgroundTakes, BackgroundWrites, BackgroundFails, gate, Disk
    <3> QED  BY <3>1 DEF Leftovers
  <2>2. CASE Down
    <3>1. disk.replacements \subseteq Attempts
      BY Parts DEF Disk
    <3>2. \A a \in disk.replacements : att'[a].pc = "lost"
      BY <2>2, <3>1 DEF Down, Leftovers, Finished, NoAttempt, IInv, Gate, GateOf, Held, Locked,
         Draining, Replacing, Ended
    <3> QED  BY <2>2, <3>2 DEF Down, Leftovers
  <2>3. CASE Start
    <3>1. token = None
      BY <2>3 DEF Start, IInv, TypeOK
    <3>2. /\ disk'.uploads = {} /\ disk'.replacements = disk.replacements
          /\ \A o \in Owners : disk'.snapshots[o] = None
          /\ UNCHANGED <<token, att>>
      BY <2>3, Parts DEF Start, CleanupIncomplete, gate, Disk
    <3> QED  BY <3>1, <3>2 DEF Leftovers, Owners
  <2>4. CASE UNCHANGED vars
    BY <2>4 DEF vars, Leftovers
  <2> QED  BY <2>1, <2>2, <2>3, <2>4, AttemptLeftovers, AttemptSteps, RequestLeftovers
           DEF Next, BackgroundPanics, Crash
<1>3. IInv /\ Leftovers => LeftoversAreCleaned
  BY ActorsDiffer DEF Leftovers, LeftoversAreCleaned, Owners
<1> QED  BY <1>1, <1>2, <1>3, Invariance, PTL DEF Spec

-----------------------------------------------------------------------------
(* Outcomes. *)

\* The databases there are: in place, kept, archived, copied or uploaded.
Copy(X) ==
    /\ X \in Contents
    /\ \/ X = disk.db \/ X = disk.old \/ X \in disk.archives
       \/ \E o \in Owners : X = disk.snapshots[o]
       \/ \E b \in Attempts : X = att[b].archive

\* No database holds the audit event of an attempt that did not get so far.
Unaudited ==
    \A a \in Attempts : att[a].pc \notin Late => \A X : Copy(X) => a \notin X

\* What the restored database holds.
RestoredOf(a) ==
    /\ att[a].pc \in {"reopen", "commit"} =>
         att[a].archive \subseteq disk.db /\ disk.db \ att[a].archive \subseteq Ticks
    /\ att[a].pc = "clean" =>
         /\ att[a].archive \cup {a} \subseteq disk.db
         /\ disk.db \ (att[a].archive \cup {a}) \subseteq Ticks

Outcomes == Unaudited /\ \A a \in Attempts : RestoredOf(a)

\* A step makes databases from what is there, and one transaction more.
Flows ==
    \A X : Copy(X)' =>
        \/ Copy(X)
        \/ \E y \in Requests \cup Ticks : X = disk.db \cup {y}
        \/ \E y \in Attempts : att'[y].pc \in Late /\ X = disk.db \cup {y}

LEMMA FlowsKeepUnaudited ==
    ASSUME IInv, Unaudited, Flows,
           \A a \in Attempts : att[a].pc \in Late => att'[a].pc \in Late
    PROVE  Unaudited'
<1> SUFFICES ASSUME NEW a \in Attempts, att'[a].pc \notin Late, NEW X, Copy(X)'
             PROVE  a \notin X
  BY DEF Unaudited
<1>1. a \notin Requests \cup Ticks
  BY ActorsDiffer
<1>2. Copy(disk.db)
  BY Parts DEF Copy, Disk
<1>3. \A Y : Copy(Y) => a \notin Y
  BY DEF Unaudited
<1> QED  BY <1>1, <1>2, <1>3 DEF Flows

(* Where the files are as they were, so are the copies. *)
LEMMA SameCopies ==
    ASSUME disk' = disk, \A b \in Attempts : att'[b].archive \in {att[b].archive, None}
    PROVE  Flows
BY NoneIsNoDatabase DEF Flows, Copy, Contents, Transactions

LEMMA FileFlows ==
    ASSUME IInv, NEW a \in Attempts, FileStep(a)
    PROVE  Flows
<1>1. /\ disk \in Disk /\ a \in Owners /\ att[a] \in Attempt
      /\ att \in [Attempts -> Attempt]
  BY Parts, OwnersAre
<1>2. \A b \in Attempts \ {a} : att'[b] = att[b]
  BY FileEffect
<1>3. None \notin Contents
  BY NoneIsNoDatabase DEF Contents, Transactions
<1>4. CASE StageRestore(a)
  <2>1. CASE att' = [att EXCEPT ![a] = Finished("done", "failed")] /\ disk' = disk
    BY <1>1, <2>1, SameCopies DEF Finished, NoAttempt
  <2>2. ASSUME NEW archive \in disk.archives,
               att' = [att EXCEPT ![a].pc = "lock", ![a].archive = archive],
               disk' = [disk EXCEPT !.uploads = @ \cup {a}]
        PROVE  Flows
    <3>1. att'[a].archive = archive
      BY <1>1, <2>2 DEF Attempt
    <3>2. /\ disk'.db = disk.db /\ disk'.old = disk.old /\ disk'.archives = disk.archives
          /\ disk'.snapshots = disk.snapshots
      BY <1>1, <2>2 DEF Disk
    <3> QED  BY <1>2, <3>1, <3>2 DEF Flows, Copy
  <2> QED  BY <1>4, <2>1, <2>2 DEF StageRestore
<1>5. CASE BeginRestoreCancelled(a) \/ EndRestore(a)
  <2>1. att'[a].archive = None
    BY <1>1, <1>5 DEF BeginRestoreCancelled, EndRestore, Finished, NoAttempt
  <2>2. /\ disk'.db = disk.db /\ disk'.old = disk.old /\ disk'.archives = disk.archives
        /\ disk'.snapshots = disk.snapshots
    BY <1>1, <1>5 DEF BeginRestoreCancelled, EndRestore, Disk
  <2> QED  BY <1>2, <1>3, <2>1, <2>2 DEF Flows, Copy
<1>6. CASE ExtractBackupDatabase(a) \/ Snapshot(a) \/ WriteArchive(a) \/ Link(a) \/ Rename(a)
           \/ WriteRestoreAudit(a) \/ RemoveOld(a) \/ RollbackRename(a)
  <2>1. att'[a].archive = att[a].archive
    BY <1>1, <1>6 DEF ExtractBackupDatabase, Snapshot, WriteArchive, Link, Rename,
       WriteRestoreAudit, RemoveOld, RollbackRename, GoTo, FailTo, Attempt
  <2>2. \A b \in Attempts : att'[b].archive = att[b].archive
    BY <1>2, <2>1
  <2>3. ASSUME \/ disk'.db = disk.db
               \/ Copy(disk'.db)
               \/ att'[a].pc \in Late /\ disk'.db = disk.db \cup {a},
               disk'.old \in {disk.db, disk.old, None},
               \A X \in disk'.archives : X \in disk.archives \/ X = disk.snapshots[a],
               \A o \in Owners : disk'.snapshots[o] \in {disk.snapshots[o], disk.db, None}
        PROVE  Flows
    BY <1>1, <1>3, <2>2, <2>3 DEF Flows, Copy
  <2>4. CASE ExtractBackupDatabase(a)
    BY <1>1, <2>3, <2>4 DEF ExtractBackupDatabase, Disk
  <2>5. CASE Snapshot(a)
    BY <1>1, <2>3, <2>5 DEF Snapshot, Disk
  <2>6. CASE WriteArchive(a)
    <3>1. /\ disk'.db = disk.db /\ disk'.old = disk.old
          /\ disk'.archives \in {disk.archives \cup {disk.snapshots[a]}, disk.archives}
      BY <1>1, <2>6 DEF WriteArchive, Disk
    <3>2. disk'.snapshots = [disk.snapshots EXCEPT ![a] = None]
      BY <1>1, <2>6 DEF WriteArchive, Disk
    <3>3. \A o \in Owners : disk'.snapshots[o] \in {disk.snapshots[o], None}
      BY <1>1, <3>2 DEF Disk
    <3> QED  BY <2>3, <3>1, <3>3
  <2>7. CASE Link(a)
    BY <1>1, <2>3, <2>7 DEF Link, Disk
  <2>8. CASE Rename(a)
    <3>1. Copy(att[a].archive)
      BY <2>8 DEF Rename, At, IInv, Files, FilesOf, Uploaded, Copy, Replacing
    <3> QED  BY <1>1, <2>3, <2>8, <3>1 DEF Rename, Disk
  <2>9. CASE WriteRestoreAudit(a)
    <3>1. GoTo(a, "clean") => att'[a].pc \in Late
      BY <1>1 DEF GoTo, Attempt, Late
    <3> QED  BY <1>1, <2>3, <2>9, <3>1 DEF WriteRestoreAudit, Disk
  <2>10. CASE RemoveOld(a)
    BY <1>1, <2>3, <2>10 DEF RemoveOld, Disk
  <2>11. CASE RollbackRename(a)
    <3>1. disk.old = att[a].kept /\ att[a].kept \in Contents
      BY <2>11 DEF RollbackRename, At, IInv, Files, FilesOf, PreviousOf, Replacing
    <3>2. Copy(disk.old)
      BY <3>1 DEF Copy
    <3> QED  BY <1>1, <2>3, <2>11, <3>2 DEF RollbackRename, Disk
  <2> QED  BY <1>6, <2>4, <2>5, <2>6, <2>7, <2>8, <2>9, <2>10, <2>11
<1> QED  BY <1>4, <1>5, <1>6 DEF FileStep

(* Requests add what they commit and copy what is there. *)
LEMMA RequestFlows ==
    ASSUME IInv, NEW r \in Requests, BeginRequest(r) \/ RequestStep(r)
    PROVE  Flows /\ att' = att
<1>1. disk \in Disk /\ r \in Owners
  BY Parts DEF Owners
<1>2. att' = att
  BY DEF BeginRequest, RequestStep, WriteRequest, SnapshotRequest, ArchiveRequest, BreakRequest,
     EndRequest
<1>3. None \notin Contents
  BY NoneIsNoDatabase DEF Contents, Transactions
<1>4. ASSUME disk'.db = disk.db \/ disk'.db = disk.db \cup {r},
             disk'.old = disk.old,
             \A X \in disk'.archives : X \in disk.archives \/ X = disk.snapshots[r],
             \A o \in Owners : disk'.snapshots[o] \in {disk.snapshots[o], disk.db, None}
      PROVE  Flows
  BY <1>1, <1>2, <1>3, <1>4 DEF Flows, Copy
<1>5. CASE BeginRequest(r) \/ BreakRequest(r) \/ EndRequest(r)
  BY <1>2, <1>5, SameCopies DEF BeginRequest, BreakRequest, EndRequest
<1>6. CASE WriteRequest(r)
  BY <1>1, <1>4, <1>6 DEF WriteRequest, Disk
<1>7. CASE SnapshotRequest(r)
  BY <1>1, <1>4, <1>7 DEF SnapshotRequest, Disk
<1>8. CASE ArchiveRequest(r)
  BY <1>1, <1>4, <1>8 DEF ArchiveRequest, Disk
<1> QED  BY <1>2, <1>5, <1>6, <1>7, <1>8 DEF RequestStep

LEMMA ProcessFlows ==
    ASSUME IInv, \/ BackgroundTakes \/ BackgroundWrites \/ BackgroundFails \/ Down \/ Start
    PROVE  Flows
<1>1. disk \in Disk
  BY Parts
<1>2. CASE BackgroundTakes \/ BackgroundFails
  BY <1>2, SameCopies DEF BackgroundTakes, BackgroundFails
<1>3. CASE BackgroundWrites
  <2>1. att' = att
    BY <1>3 DEF BackgroundWrites
  <2>2. CASE UNCHANGED disk
    BY <2>1, <2>2, SameCopies
  <2>3. ASSUME NEW t \in Ticks, disk' = [disk EXCEPT !.db = @ \cup {t}]
        PROVE  Flows
    <3>1. /\ disk'.db = disk.db \cup {t} /\ disk'.old = disk.old
          /\ disk'.archives = disk.archives /\ disk'.snapshots = disk.snapshots
      BY <1>1, <2>3 DEF Disk
    <3> QED  BY <2>1, <2>3, <3>1 DEF Flows, Copy
  <2> QED  BY <1>3, <2>2, <2>3 DEF BackgroundWrites
<1>4. CASE Down
  BY <1>4, SameCopies DEF Down, Finished, NoAttempt
<1>5. CASE Start
  <2>1. /\ disk'.db = disk.db /\ disk'.old = disk.old /\ disk'.archives = disk.archives
        /\ \A o \in Owners : disk'.snapshots[o] = None
        /\ att' = att
    BY <1>1, <1>5 DEF Start, CleanupIncomplete, Disk
  <2> QED  BY <2>1, NoneIsNoDatabase DEF Flows, Copy, Contents, Transactions
<1> QED  BY <1>2, <1>3, <1>4, <1>5

(* Only the holder replaces the database. *)
LEMMA OthersDatabase ==
    ASSUME IInv, NEW a \in Attempts, QuietStep(a) \/ FileStep(a), att[a].pc \notin Held
    PROVE  disk'.db = disk.db
<1>1. CASE QuietStep(a)
  BY <1>1, QuietEffect
<1>2. CASE FileStep(a)
  <2>1. disk \in Disk
    BY Parts
  <2>2. CASE StageRestore(a) \/ BeginRestoreCancelled(a)
    BY <2>1, <2>2 DEF StageRestore, BeginRestoreCancelled, Disk
  <2>3. ~ (StageRestore(a) \/ BeginRestoreCancelled(a)) => att[a].pc \in Held
    BY <1>2 DEF FileStep, ExtractBackupDatabase, Snapshot, WriteArchive, Link, Rename,
       WriteRestoreAudit, RemoveOld, RollbackRename, EndRestore, At, Held, Locked, Replacing
  <2> QED  BY <2>2, <2>3
<1> QED  BY <1>1, <1>2

(* Each step of the holder brings it on with the database it needs. *)
LEMMA HolderRestores ==
    ASSUME IInv, NEW a \in Attempts, QuietStep(a) \/ FileStep(a), RestoredOf(a)
    PROVE  RestoredOf(a)'
<1>1. /\ disk \in Disk /\ att[a] \in Attempt /\ att \in [Attempts -> Attempt]
  BY Parts
<1>2. CASE QuietStep(a)
  <2>1. disk'.db = disk.db /\ att'[a].archive = att[a].archive
    BY <1>2, QuietEffect
  <2>2. /\ att'[a].pc = "reopen" => FALSE
        /\ att'[a].pc = "commit" => att[a].pc = "reopen"
        /\ att'[a].pc = "clean" => FALSE
    <3>1. CASE Arrive(a) \/ Disconnect(a) \/ BeginRestore(a) \/ BeginMaintenance(a) \/ Drained(a)
      BY <1>1, <3>1 DEF Arrive, Disconnect, BeginRestore, BeginMaintenance, Drained, Detach, At,
         GoTo, Attempt, Locked, Draining
    <3>2. CASE CheckRestoreSpace(a) \/ ValidateReplacement(a) \/ DrainCancelled(a) \/ Checkpoint(a)
      BY <1>1, <3>2 DEF CheckRestoreSpace, ValidateReplacement, DrainCancelled, Checkpoint, At,
         GoTo, FailTo, Attempt
    <3>3. CASE Close(a) \/ Recover(a) \/ Reopen(a)
      BY <1>1, <3>3 DEF Close, Recover, Reopen, At, GoTo, FailTo, Attempt
    <3>4. CASE RollbackClose(a) \/ RollbackReopen(a) \/ EndMaintenance(a)
      BY <1>1, <3>4 DEF RollbackClose, RollbackReopen, EndMaintenance, At, GoTo, FailTo, Attempt
    <3> QED  BY <1>2, <3>1, <3>2, <3>3, <3>4 DEF QuietStep
  <2> QED  BY <2>1, <2>2 DEF RestoredOf
<1>3. CASE Rename(a)
  <2>1. /\ att'[a].pc \in {"reopen", "undo", "recover"}
        /\ att'[a].archive = att[a].archive
    BY <1>1, <1>3 DEF Rename, GoTo, Attempt
  <2>2. ASSUME att'[a].pc = "reopen"
        PROVE  disk' = [disk EXCEPT !.db = att[a].archive,
                                    !.replacements = disk.replacements \ {a}]
    BY <1>1, <1>3, <2>2 DEF Rename, GoTo, Attempt
  <2>3. att'[a].pc = "reopen" => disk'.db = att[a].archive
    BY <1>1, <2>2 DEF Disk
  <2> QED  BY <2>1, <2>3 DEF RestoredOf
<1>4. CASE WriteRestoreAudit(a)
  <2>1. att[a].pc = "commit" /\ att'[a].pc \in {"clean", "undo"} /\ att'[a].archive = att[a].archive
    BY <1>1, <1>4 DEF WriteRestoreAudit, At, GoTo, Attempt
  <2>2. att'[a].pc = "clean" => disk'.db = disk.db \cup {a}
    BY <1>1, <1>4 DEF WriteRestoreAudit, GoTo, Attempt, Disk
  <2> QED  BY <2>1, <2>2 DEF RestoredOf
<1>5. ASSUME FileStep(a), ~ Rename(a), ~ WriteRestoreAudit(a)
      PROVE  att'[a].pc \notin {"reopen", "commit", "clean"}
  <2>1. CASE StageRestore(a) \/ BeginRestoreCancelled(a) \/ EndRestore(a)
    <3>1. CASE att' = [att EXCEPT ![a] = Finished("done", "failed")]
               \/ att' = [att EXCEPT ![a] = Finished("done", att[a].outcome)]
      BY <1>1, <3>1 DEF Finished, NoAttempt
    <3>2. ASSUME NEW archive, att' = [att EXCEPT ![a].pc = "lock", ![a].archive = archive]
          PROVE  att'[a].pc = "lock"
      BY <1>1, <3>2 DEF Attempt
    <3> QED  BY <2>1, <3>1, <3>2 DEF StageRestore, BeginRestoreCancelled, EndRestore
  <2>2. CASE ExtractBackupDatabase(a) \/ Snapshot(a) \/ WriteArchive(a)
    BY <1>1, <2>2 DEF ExtractBackupDatabase, Snapshot, WriteArchive, GoTo, FailTo, Attempt
  <2>3. CASE Link(a) \/ RemoveOld(a) \/ RollbackRename(a)
    BY <1>1, <2>3 DEF Link, RemoveOld, RollbackRename, GoTo, Attempt
  <2> QED  BY <1>5, <2>1, <2>2, <2>3 DEF FileStep
<1> QED  BY <1>2, <1>3, <1>4, <1>5 DEF RestoredOf

LEMMA AttemptOutcomes ==
    ASSUME IInv, Outcomes, NEW a \in Attempts, QuietStep(a) \/ FileStep(a)
    PROVE  Outcomes'
<1>1. /\ \A b \in Attempts \ {a} : att'[b] = att[b]
      /\ att[a].pc \in Late => att'[a].pc \in Late
  BY QuietEffect, FileEffect
<1>2. Flows
  <2>1. CASE QuietStep(a)
    <3>1. disk' = disk /\ att'[a].archive = att[a].archive
      BY <2>1, QuietEffect
    <3> QED  BY <1>1, <3>1, SameCopies
  <2> QED  BY <2>1, FileFlows
<1>3. Unaudited'
  BY <1>1, <1>2, FlowsKeepUnaudited DEF Outcomes
<1>4. RestoredOf(a)'
  BY HolderRestores DEF Outcomes
<1>5. ASSUME NEW b \in Attempts \ {a} PROVE RestoredOf(b)'
  <2>1. CASE att[b].pc \in {"reopen", "commit", "clean"}
    <3>1. token = b
      BY <2>1 DEF IInv, Gate, GateOf, Held, Replacing
    <3>2. att[a].pc \notin Held
      BY <3>1 DEF IInv, Gate, GateOf
    <3> QED  BY <1>1, <3>2, OthersDatabase DEF Outcomes, RestoredOf
  <2>2. CASE att[b].pc \notin {"reopen", "commit", "clean"}
    BY <1>1, <2>2 DEF RestoredOf
  <2> QED  BY <2>1, <2>2
<1> QED  BY <1>3, <1>4, <1>5 DEF Outcomes

(* No request commits while a database is being restored; the scheduler may. *)
LEMMA RequestOutcomes ==
    ASSUME IInv, Outcomes, NEW r \in Requests, BeginRequest(r) \/ RequestStep(r)
    PROVE  Outcomes'
<1>1. Flows /\ att' = att
  BY RequestFlows
<1>2. Unaudited'
  BY <1>1, FlowsKeepUnaudited DEF Outcomes
<1>3. ASSUME NEW a \in Attempts, att[a].pc \in {"reopen", "commit", "clean"}
      PROVE  disk'.db = disk.db
  <2>1. active = {}
    BY <1>3 DEF IInv, Gate, GateOf, Replacing
  <2>2. req[r] # "in"
    BY <2>1 DEF IInv, TypeOK, Inside
  <2>3. CASE ArchiveRequest(r)
    BY <2>3, Parts DEF ArchiveRequest, Disk
  <2> QED  BY <2>2, <2>3 DEF BeginRequest, RequestStep, WriteRequest, SnapshotRequest, BreakRequest,
              EndRequest
<1> QED  BY <1>1, <1>2, <1>3 DEF Outcomes, RestoredOf

LEMMA ProcessOutcomes ==
    ASSUME IInv, Outcomes,
           \/ BackgroundTakes \/ BackgroundWrites \/ BackgroundFails \/ Down \/ Start
    PROVE  Outcomes'
<1>1. \A a \in Attempts : att'[a] = att[a] \/ att'[a] = Finished("lost", "none")
  BY Parts DEF BackgroundTakes, BackgroundWrites, BackgroundFails, Down, Start
<1>2. \A a \in Attempts : att'[a] = att[a] \/ att'[a].pc = "lost"
  BY <1>1 DEF Finished, NoAttempt
<1>3. Unaudited'
  BY <1>2, ProcessFlows, FlowsKeepUnaudited DEF Outcomes, Late, Ended
<1>4. disk'.db = disk.db \/ \E t \in Ticks : disk'.db = disk.db \cup {t}
  BY Parts DEF BackgroundTakes, BackgroundWrites, BackgroundFails, Down, Start, CleanupIncomplete,
     Disk
<1>5. ASSUME NEW a \in Attempts PROVE RestoredOf(a)'
  BY <1>2, <1>4 DEF Outcomes, RestoredOf
<1> QED  BY <1>3, <1>5 DEF Outcomes

(* What is reported is reported from a database that says so. *)
Reports(a) ==
    att[a].outcome = "none" =>
        /\ att'[a].outcome = "restored" =>
             /\ att[a].archive \cup {a} \subseteq disk'.db
             /\ disk'.db \ (att[a].archive \cup {a}) \subseteq Ticks
        /\ (att'[a].outcome = "failed" /\ att[a].kept # None) =>
             \/ att[a].kept \subseteq disk'.db /\ a \notin disk'.db
             \/ disk'.old = att[a].kept

LEMMA AttemptReports ==
    ASSUME IInv, Outcomes, NEW a \in Attempts, QuietStep(a) \/ FileStep(a)
    PROVE  Reports(a)
<1>1. /\ disk \in Disk /\ att[a] \in Attempt /\ att \in [Attempts -> Attempt]
  BY Parts
<1>2. PreviousOf(a) /\ RestoredOf(a)
  BY DEF IInv, Files, FilesOf, Outcomes
<1>3. ASSUME att[a].pc \notin Late PROVE a \notin disk.db
  BY <1>1, <1>3 DEF Outcomes, Unaudited, Copy, Disk
<1>4. CASE RemoveOld(a)
  <2>1. /\ att[a].pc = "clean" /\ disk'.db = disk.db /\ att'[a].outcome = "restored"
    BY <1>1, <1>4 DEF RemoveOld, At, Attempt, Disk
  <2> QED  BY <1>2, <2>1 DEF Reports, RestoredOf
<1>5. CASE Recover(a) \/ RollbackReopen(a)
  <2>1. /\ att[a].pc \in {"recover", "reopenOld"} /\ disk' = disk /\ att'[a].outcome = "failed"
    BY <1>1, <1>5 DEF Recover, RollbackReopen, At, FailTo, Attempt
  <2>2. a \notin disk.db
    BY <1>3, <2>1 DEF Late, Ended
  <2> QED  BY <1>2, <2>1, <2>2 DEF Reports, PreviousOf
<1>6. ASSUME att'[a].outcome = att[a].outcome PROVE Reports(a)
  BY <1>6 DEF Reports
<1>7. ASSUME att'[a].outcome = "failed", att[a].pc \notin (Replacing \cup {"release"}) \ {"checkpoint", "close"}
      PROVE  Reports(a)
  BY <1>2, <1>7 DEF Reports, PreviousOf
<1>8. CASE StageRestore(a) \/ BeginRestoreCancelled(a) \/ EndRestore(a)
  <2>1. CASE EndRestore(a)
    BY <1>1, <1>6, <2>1 DEF EndRestore, Finished, NoAttempt
  <2>2. CASE att' = [att EXCEPT ![a] = Finished("done", "failed")] /\ att[a].pc \in {"stage", "lock"}
    <3>1. att'[a].outcome = "failed"
      BY <1>1, <2>2 DEF Finished, NoAttempt
    <3> QED  BY <1>7, <2>2, <3>1 DEF Replacing
  <2>3. ASSUME NEW archive, att' = [att EXCEPT ![a].pc = "lock", ![a].archive = archive]
        PROVE  Reports(a)
    BY <1>1, <1>6, <2>3 DEF Attempt
  <2> QED  BY <1>8, <2>1, <2>2, <2>3 DEF StageRestore, BeginRestoreCancelled, At
<1>9. CASE \/ CheckRestoreSpace(a) \/ ExtractBackupDatabase(a) \/ ValidateReplacement(a)
           \/ Snapshot(a) \/ WriteArchive(a) \/ DrainCancelled(a) \/ Checkpoint(a)
  <2>1. att[a].pc \notin (Replacing \cup {"release"}) \ {"checkpoint", "close"}
    BY <1>9 DEF CheckRestoreSpace, ExtractBackupDatabase, ValidateReplacement, Snapshot,
       WriteArchive, DrainCancelled, Checkpoint, At, Replacing
  <2>2. \E stage : GoTo(a, stage) \/ FailTo(a, stage)
    BY <1>9 DEF CheckRestoreSpace, ExtractBackupDatabase, ValidateReplacement, Snapshot,
       WriteArchive, DrainCancelled, Checkpoint
  <2>3. att'[a].outcome \in {att[a].outcome, "failed"}
    BY <1>1, <2>2 DEF GoTo, FailTo, Attempt
  <2> QED  BY <1>6, <1>7, <2>1, <2>3
<1>10. CASE \/ Arrive(a) \/ Disconnect(a) \/ BeginRestore(a) \/ BeginMaintenance(a) \/ Drained(a)
            \/ Close(a) \/ Reopen(a) \/ RollbackClose(a) \/ EndMaintenance(a)
            \/ Link(a) \/ Rename(a) \/ WriteRestoreAudit(a) \/ RollbackRename(a)
  <2>1. CASE \E stage : GoTo(a, stage)
    BY <1>1, <1>6, <2>1 DEF GoTo, Attempt
  <2>2. CASE Disconnect(a) \/ BeginRestore(a) \/ Close(a) \/ Detach(a)
    BY <1>1, <1>6, <2>2 DEF Disconnect, BeginRestore, Close, Detach, Attempt
  <2> QED  BY <1>10, <2>1, <2>2 DEF Arrive, BeginMaintenance, Drained, Reopen, RollbackClose,
              EndMaintenance, Link, Rename, WriteRestoreAudit, RollbackRename
<1> QED  BY <1>4, <1>5, <1>8, <1>9, <1>10 DEF QuietStep, FileStep

(* What an attempt reports is what it did: "restored" only over the         *)
(* uploaded database, with its audit event and at most what the scheduler   *)
(* added; "failed" only over the former one, or with that one still beside  *)
(* it - for any number of failing calls, rollbacks included.                *)
THEOREM OutcomesAreTrue == Spec => OutcomeMatchesDatabase
<1>1. Init => Outcomes
  BY NoneIsNoDatabase DEF Init, Outcomes, Unaudited, RestoredOf, Copy, NoAttempt, Contents,
     Transactions
<1>2. IInv /\ Outcomes /\ [Next]_vars => Outcomes'
  <2> SUFFICES ASSUME IInv, Outcomes, [Next]_vars PROVE Outcomes'
    OBVIOUS
  <2>1. CASE UNCHANGED vars
    BY <2>1 DEF vars, Outcomes, Unaudited, RestoredOf, Copy
  <2> QED  BY <2>1, AttemptSteps, AttemptOutcomes, RequestOutcomes, ProcessOutcomes
           DEF Next, BackgroundPanics, Crash
<1> DEFINE True ==
      \A a \in Attempts : att[a].outcome = "none" =>
        /\ att'[a].outcome = "restored" =>
             /\ att[a].archive \cup {a} \subseteq disk'.db
             /\ disk'.db \ (att[a].archive \cup {a}) \subseteq Ticks
        /\ (att'[a].outcome = "failed" /\ att[a].kept # None) =>
             \/ att[a].kept \subseteq disk'.db /\ a \notin disk'.db
             \/ disk'.old = att[a].kept
<1>3. IInv /\ Outcomes /\ [Next]_vars => [True]_vars
  <2> SUFFICES ASSUME IInv, Outcomes, Next, NEW a \in Attempts
               PROVE  Reports(a)
    BY DEF Reports
  <2>1. ASSUME att'[a].outcome \in {att[a].outcome, "none"} PROVE Reports(a)
    BY <2>1 DEF Reports
  <2>2. CASE \E r \in Requests : BeginRequest(r) \/ RequestStep(r)
    BY <2>1, <2>2, RequestFlows
  <2>3. ASSUME NEW b \in Attempts, Arrive(b) \/ Disconnect(b) \/ AttemptStep(b)
        PROVE  Reports(a)
    <3>1. b # a => att'[a] = att[a]
      BY <2>3, AttemptSteps, QuietEffect, FileEffect
    <3> QED  BY <2>1, <2>3, <3>1, AttemptSteps, AttemptReports
  <2>4. CASE \/ BackgroundTakes \/ BackgroundWrites \/ BackgroundFails \/ Down \/ Start
    <3>1. att'[a] = att[a] \/ att'[a] = Finished("lost", "none")
      BY <2>4, Parts DEF BackgroundTakes, BackgroundWrites, BackgroundFails, Down, Start
    <3> QED  BY <2>1, <3>1 DEF Finished, NoAttempt
  <2> QED  BY <2>2, <2>3, <2>4 DEF Next, BackgroundPanics, Crash
<1> QED  BY <1>1, <1>2, <1>3, Invariance, PTL DEF Spec, OutcomeMatchesDatabase

=============================================================================
