# Verification of video-record

TLA+ models of the server of video-record, a self-hosted diary of films and
series: what a household has seen, in which round of viewing, with plays
imported from Jellyfin, Emby and Plex. The models follow the Go code under
`src/internal`; TLC checks them on small instances, and TLAPS proves the main
safety properties for every value of the constants.

## 1. The system

One Go process serves a JSON API over one SQLite database. The database is
opened twice (`storage/db.go`): a **writer pool with one connection** and a
reader pool. So write transactions never interleave, while anything read
through the reader pool may be stale when the transaction that uses it starts.
Nearly every operation of the program has that shape, read first and write in a
later transaction, and most of what can go wrong lies between the two.

| Component | State | Operations | Correct when |
|---|---|---|---|
| Viewing rounds (`records/`) | `watch_rounds`, `watch_events`, `round_episode_progress`, `user_media_profiles` | edit, clear, rewatch, remove, delete history, episode progress, synced play | one round in progress per scope, no number twice, no edit lost, immutable history, manual data outranks sync, projections agree with what they project |
| Sync scheduler (`sync/service, scheduler, provider_runner`) | `sync_jobs` (due, lease, cursor), `sync_runs`, the goroutine | poll, claim, run, page loop, complete | a lease excludes others, a cursor never skips an event or goes back, failures and crashes do not end syncing |
| Sync candidates (`sync/candidates, matcher`) | `sync_candidates`, `external_media_mappings` | ingest, confirm, rematch, ignore, create custom | a play becomes one watch event, a resolution is final, mappings stand on confirmations |
| Integration accounts (`integrations/accounts`) | `external_accounts`, encrypted credentials | connect, disconnect | jobs exist for each account, deletion takes along all that hangs on it |
| Provider clients (`jellyfin, emby, plex`) | none | history page after a cursor, or from where a run without one starts | pages are in order, a page with events has a next cursor |
| Storage (`storage/db, migrate`) | connections, maintenance gate, schema | open, begin/end request, maintenance, migrate | no request runs during maintenance, nobody waits for ever |
| Backup and restore (`storage/backup, restore`) | files beside the database | snapshot, stage, replace, roll back | a crash leaves a whole database |
| Idempotency (`httpapi/idempotency`) | `idempotency_keys` | reserve, complete, release, lapse, replay | an operation runs once per key, retries are told what the first was told |
| Export and import (`records/export, import`) | the records tables | export, import a document | an undisturbed export and import give the library back; an export does not starve the server of connections |
| Catalogue, tags, collections (`records/repository, catalog`) | profiles with versions, tags, collections, highlights | versioned edits, paged listings | no edit lost, a listing shows an entry once |
| Calendar, statistics | none | read-only queries | they count each play once |
| Media, TMDB | media, episodes, cached responses | create, search, images | one media per external id |
| Authentication, household | users, sessions, login attempts, audit events, sharing | set up, log in, change and reset passwords, create and deactivate members, share | one active administrator, sessions end with what authorised them, the audit trail is true |
| HTTP layer | none | route, decode, encode | calls one operation of a service |
| Web application | none of its own | sends the requests | |

How they interact:

- The scheduler (a goroutine, not a request) claims jobs, calls the runner,
  which calls a provider client and hands each event to the candidates service.
- A confirmed candidate calls `records.ApplySyncedWatch` **inside its own
  transaction**: candidate, mapping, round, event and progress change together.
- Requests on rounds and requests on candidates meet only in the database. The
  contact surface is `status_source` of a round in progress (`CanOverwrite`) and
  the unique index on external event ids.
- Deleting an account cascades to jobs, runs, candidates and mappings, not to
  watch events.
- Every request passes the maintenance gate (`MaintenanceMode`) and is counted
  in it; a restore shuts the gate, waits for the count to reach zero and
  replaces the database file. The scheduler is not counted, and the restore
  request itself only asks whether the gate is shut.
- Calendar, statistics and the library list read what the rounds write: events
  and the projected profile status.
- A handler that writes runs inside the idempotency middleware. The reservation
  of a key, the handler's own transaction and the record of its answer are three
  transactions; a restore replaces the table of the keys with the rest.
- The reader pool has four connections, shared by all requests and the
  scheduler. A statement issued between two rows of another needs a second one.

What is hard here: requests whose reads are stale at their write; sync and
the user writing the same round; three ways to make a round and four to compute
its status and date; leases that run out under a running job; runs that repeat
after a failure; an account that leaves under a running job; a crash between
the two transactions of one request; a database file that is replaced, or put
back, under a process whose scheduler goes on; a retry that meets what its first
attempt left; counts and permissions read before the transaction that uses them;
a listing cut into pages while its entries move. `PROJECT.json` lists each such place with
its line and the properties that watch it.

## 2. The modules

    RoundLedger           what the rounds promise: an abstract ledger
    PlayBook              what rounds and sync promise each other about plays
      ^ both implemented by
    Rounds                the rounds of one user and one media
      <- MCRounds         instances for TLC
      <- RoundsProofs     theorems
    SyncScheduler         jobs, leases, runs, processes, accounts
      <- MCSyncScheduler
      <- SyncSchedulerProofs
    SyncCandidates        candidates, mappings, and the rounds as sync sees them;
                          implements PlayBook
      <- MCSyncCandidates
      <- SyncCandidatesProofs
    Restore               backups, restores, the maintenance gate, the process
      <- MCRestore
      <- RestoreProofs
    Idempotency           keys, retries, lost answers, crashes, a restored database
      <- MCIdempotency
      <- IdempotencyProofs
    Accounts              users, sessions, login attempts, the audit trail
      <- MCAccounts
      <- AccountsProofs
    Library               listings, tags and sharing, collections, export and import
      <- MCLibrary
      <- LibraryProofs
    ReaderPool            read connections, and who holds one while asking for another
      <- MCReaderPool
      <- ReaderPoolProofs

The modules meet where the components do. `SyncCandidates` keeps of `Rounds` what
sync asks of them (`hold`, `plays`), and both implement `PlayBook`, the contract
between them; `Idempotency` takes `Restore` as one step that
replaces the database or leaves it; `Library` takes a request on rounds as one
step that projects a status; `ReaderPool` knows statements only by the
connections they hold.

### Rounds

One user, one media. Users share no row of these tables, except that a user may
be named as a participant of another's event, which is data here. A *scope* is
the movie or one season; `Scope` is `{Movie}` or a set of season numbers.

| Variable | Code |
|---|---|
| `rounds` | rows of `watch_rounds`; `archived` is `archived_at IS NOT NULL`; an id is a uuid, so it is used once (`Unused`, then a row, then `Deleted`) |
| `events` | `watch_events`; `ext` is the external event id, `full` is `completion >= 90` |
| `progress` | `round_episode_progress`, keyed by round and episode, with the key of the event behind the mark |
| `catalog` | the episodes stored for a season |
| `fresh` | the rounds in progress with the newest `updated_at`, a whole-second stamp: a write may share its second with the writes before it |
| `profile` | `user_media_profiles.status` |
| `job` | what a request has read |

`status_source` is kept; rating, note and viewing method are one value
`review`; `started_at` and participants are kept only as an input that forces a
write. A date is an instant in the past, so the code's refusal of future dates
never applies.

| Action | Code |
|---|---|
| `BeginUpdate`, `InsertRound`, `UpdateRound`, `WriteRefused` | `Service.UpdateRound` up to its write; the two writes; the write's failure (stale version, unique index) |
| `BeginClear`, `ClearReads` | `ClearCurrentRoundFields`, which reads twice before it writes |
| `StartRewatch`, `DeleteArchivedRound`, `RemoveFromLibrary` | single transactions |
| `BeginProgress`, `ApplySeasonEpisodeProgress`, `ProgressRefused` | `UpdateEpisodeProgress`: range, season, next, single, undo, set_time, by stored episodes or by references |
| `ApplySyncedWatch` | called in the transaction of a confirmation: into the round in progress, opening one, or rolling a completed one over |

A request that is refused by its first reads changes nothing and is no step.

`RoundLedger` is what a client may count on: in each scope at most one round in
progress, versions that rise by one, archiving that keeps a round as it is, and
no way back from archived or deleted. `LedgerSpec` (an `INSTANCE` with the
rounds mapped to themselves) says every step of `Rounds` is one of its steps or
leaves the ledger alone.

### SyncScheduler

`jobs` are the rows of `sync_jobs` with relative times (ticks of the poll
interval until due, until the lease ends); `sched[o]` is the goroutine of
process `o`, an owner uuid, that walks through claim, `BeginRun`, the provider
run, `FinishRun` and `Complete` for each job of its batch; `account` and
`handler` are the accounts and the requests still connecting one; `history` is
the provider's history, an append-only list whose positions are cursors;
`ingested` the events with a candidate row. `StorageFails` and `Overlap` switch
on failing database operations and two processes on one database. A rolling
restart is what makes processes overlap.

Where a run begins and ends is the provider client's. Plex reads one list, from
its first event when there is no cursor, up to those played when the run opened.
Jellyfin and Emby (`byDay`) read day by day: from the cursor; without one from
the start of today (`historyStart`), which `today` marks in the history and
`Midnight` moves; up to the end of the day on which the run opened. `start` and
`until` are the two ends as the run took them. A day goes on while it is read, so
a page may show events played after the run opened, up to all there are (`Shown`):
that is more than the code shows once midnight has passed, and covers it. A first
page asked for after midnight is refused, for its start is then after its end.
A compensation run starts 24 hours back, which is any position of the history
(not after today's first, by day): the model keeps no times of plays.

A request that connects an account and cannot make its jobs deletes the account
again (`ConnectFails`). It may fail at that too, since the delete runs under the
same request's context and its error is discarded: then the account stays, without
jobs until a start makes them (`ConnectAbandoned`).

A run's error is recorded and forgiven; an error of `ClaimDue`, `BeginRun`,
`FinishRun` or `Complete` is fatal and stops the goroutine (`runDueError`).

### SyncCandidates

One account. `cand` and `mapping` are the tables; `plays` the watch events that
carry an external event id; `hold[t]` who wrote the round in progress of a
target. Those two are the interface to `Rounds`: `EditByHand` and `Remove` are
what its requests do to them, to all the episodes of a round at once. Each
operation is its reads
(`Begin...`, and `Judge` for the matcher's look at the user's round) and one
transaction. Which target the matcher finds by external ids or titles is a free
choice, since the catalogue may change at any moment; a confirmed mapping
decides alone, as in the code.

### PlayBook

The plays on record, each with its target (the movie or an episode), and the
targets whose round in progress outranks sync. `Record` enters a play, once and
where nothing is held; `Edit` is a write by hand, which holds its targets from
then on and takes plays over or drops them there and nowhere else; `Drop`, a
removal, lets targets go and enters nothing. `SyncCandidates` implements it with
`Record` for its confirmations, for all media and with the rounds a free choice
within `Edit` and `Drop`; `Rounds` implements it with `Record` for
`ApplySyncedWatch` and the rest for its requests, for the targets of one media.
Both as `BookSpec`: what each assumes of the other's steps is what the other
keeps. The mapping is `Held` and `Plays` in `Rounds` (the round of an event gives
the season of its target), the identity and `hold[t] = "manual"` in
`SyncCandidates`.

### Restore

The content of a database is the set of transactions committed to it: one per
ordinary request, the scheduler's (`Ticks`), and the audit event of a restore,
named by its attempt. A restore replaces one such set by another.

| Variable | Code |
|---|---|
| `up`, `handle` | the process; `db.writer` and `db.reader`, which are nil between `closeConnectionsLocked` and a successful reopening |
| `maintenance`, `active`, `token` | `gate.maintenance`, the requests `gate.active` counts, who took `gate.restore` |
| `disk` | `video-record.db`, its `.restore-old`, the replacements `.restore-<uuid>`, and in the backups directory the uploads, the snapshots and the finished archives |
| `req` | an ordinary request, or `POST /api/v1/backups`, inside the gate |
| `att` | a restore request: its stage in `RestoreStaged`, what it will answer, whether its client has gone, the database in its upload |
| `bg` | whether the scheduler holds a handle, and whether that one has been closed |

Each stage is one call that can fail: upload, lock, space check, extraction,
validation, snapshot, archive, `gate.begin`, drain, checkpoint, close, link,
rename, reopen, audit event, and the three steps of `rollbackDatabase`. A
failing call (`Fault`, `MaxFaults` of them) leads where the code's error path
leads; a client that goes away cancels the calls up to the drain and none after
it (`criticalCtx`). The deferred calls run last first: `EndMaintenance`, then
`EndRestore`. A rename whose directory synchronisation fails has happened, and
is undone. A crash is the end of the process at any step; `Start` is `main`:
open, migrate, `CleanupIncomplete`.

When the last reopening failed, the handles stay nil in a running process:
requests panic and are answered 500 by `Recoverer`; the scheduler's goroutine
has no recover, so `BackgroundPanics` ends the process.

Abstracted: SQLite (a commit is durable, the online backup consistent, the
write-ahead log part of the file); the format of an archive, which is one step
that may fail; `Create`'s own partial archive, removed on each of its error
paths; a scheduler's transaction that is open when the handles are closed, which
either commits before or fails. Left out: authentication, and the idempotency
key of the request, which is in `Idempotency`. `before` and `kept` are history
variables: the database when the lock was taken, and when it was closed.

### Idempotency

A client sends one request under one key until an answer settles it. `row` is
the table `idempotency_keys`; `req[c]` the request in the middleware; a run of
the handler is one numbered step that commits its effect or not and answers
below 500 or not, in any combination: a handler may fail after its transaction.

| Action | Code |
|---|---|
| `Find`, `Reserve`, `FindAgain` | the lookup, the `INSERT` that the primary key admits once, and the lookup after it failed |
| `Run`, `RunRestore` | the handler behind the middleware; a restore needs the gate to be empty and replaces `row` and `effects` by the archive's |
| `Complete`, `UpsertCompleted`, `Release` | the answer recorded, recorded at any price after a restore, or the key given back from 500 on |
| `Lapse` | the deletion of a row after 24 hours |
| `Crash`, `Fails` | the process, a statement or the client's connection ends |

`effects` keeps what is in the database while its key has not lapsed; `told` is a
history variable, the answer given under a key.

### Accounts

| Action | Code |
|---|---|
| `BeginSetup`, `CreateInitialAdmin` | the handler counts the users, the transaction counts them again |
| `BeginLogin`, `ForgetAttempt`, `VerifyPassword`, `RecordLoginFailure`, `ClearLoginAttempt`, `RotateSession` | `auth.Service.Login`, a statement or transaction at a time |
| `Revoke`, `Expire`, `Lapse` | logout; the 30 days of a session; the window or block of a name |
| `BeginChange`, `FindUserPasswordHash`, `UpdateUserPasswordHash` | a user changes the password |
| `BeginManaging`, `RequirePermission`, `CreateMember`, `ResetPassword`, `DeactivateMember` | what the administrator does, permission first and the transaction later |
| `GivesUp` | an error, a lost client or the end of the process, after any step |

A password is how often it was set; whether a client knows it is either answer.
The key of the failure count is name and client address: the address is one.

### Library

One user, media as movies with a history of round statuses. `profile` is the row
of `user_media_profiles` with version, sharing and `updated_at`; `tags`,
`collections` and `rounds` the tables; `listing` a browser that pages through
the library, `edit[c]` an edit of tags or sharing between its reads and its
write, `transfer` an export statement by statement and the import of its
document, a transaction per record and per collection. `still` and `given` in
`listing` and `alone` in `transfer` are history variables: what stayed where it
was since the listing began, how often it was shown, and whether anything was
written beside the transfer. Tags are numbers in the order of their names. In a
CSV the tags of a record are one cell, joined with `|` and taken apart at `|`, and
a first name that begins with an apostrophe before `=`, `+`, `-`, `@`, a tab or a
return loses it: `PartsOf` and `FirstPartsOf` are what the import makes of a name,
and `ReadBack` of a cell. The rows of a document are kept as the import reads them.
The page that `LibraryPage` returns is any set that is first in the order of the
query. The collections of an export are one step.

### ReaderPool

`open[t]` is the stack of the open statements of a task, each on a connection;
`step[t]` the statement of its program. `Inner` is which statements the code
issues between two rows of another: six for each record of an export, two for
each of its rounds, one for each title the matcher compares. A statement without
rows in between gives its connection back at once.

## 3. Runs

| Run | Instance | Shows |
|---|---|---|
| `RoundsMovie` | 2 requests, 3 rounds of a movie, 2 external events, 2 instants | the safety of rounds, and that they implement the ledger |
| `RoundsSeason` | 1 request, 2 rounds, 2 episodes, 2 external events, 2 instants | marks, events and completion stay in step; the rounds keep the `PlayBook` contract |
| `SyncLeases` | 2 overlapping processes, batches of 1 job that may outlast the lease, storage errors, a departing account, both kinds of history | leases, cursors |
| `SyncProgress` | 3 processes in turn, batches of 2 jobs, crashes, failing providers, days that begin, fairness | every play past the first cursor arrives |
| `SyncDisconnect` | 1 process, an account that leaves | a counterexample, see section 6 |
| `SyncCandidates` | 2 runs or requests, 2 plays of one item, 2 media and 1 to be created | one event per play, final resolutions; the same `PlayBook` contract |
| `Restore` | 1 request, 2 restore attempts, 1 scheduler write, 2 failing calls, 1 crash, fairness | exclusion, no database lost, truthful outcomes, no leftovers, every attempt ends |
| `Idempotency` | 2 clients with one request and key, 1 that reuses the key, 1 restore, 1 fault or crash, fairness | one effect per key, one answer, retries settle |
| `Accounts` | 2 people, 2 requests at a time, limit 2, 2 sessions, 2 passwords | one administrator, a true trail, exact blocking, sessions |
| `Library` | 2 movies, pages of 1, 2 tags of which a CSV turns one into the other, 2 editing browsers, 2 collections of one name, 3 writes, 2 of listing, edits and transfer at a time | listings, edits, transfers |
| `ReaderPool` | 4 connections; 1 export, 1 matcher, 1 request; 1 row each; fairness | nobody waits in a circle, everybody is answered |
| `ReaderPoolExports` | 4 connections, 2 exports | a counterexample, see section 6 |

Why the bounds are enough. The races are between one request's reads and
somebody else's write; single-transaction operations are actions without a
client, so one client with them already gives every two-party race and two
clients give two split requests at once. Three rounds are one archived, one in
progress and one to be created, the most a step touches plus one. Versions are
bounded when they are read (`MaxVersion`), so the writes prepared at the bound
still happen. Two external events are enough for an event that is first and one
that is not. In `SyncLeases` a batch may outlast its lease (`BatchTime` 2,
`Lease` 1), in `SyncProgress` it may not (1, 2): the second states its
properties under the assumption that a batch ends within its lease. A batch is one
job in `SyncLeases`, for a second only lengthens it, and two in `SyncProgress`; the
theorems are about any number. Histories of two plays, in pages of two at most,
have a play before the day of the first run and one on it. In `Restore`
two attempts give a restore of what an earlier one backed up and an attempt that
waits for the lock; two failing calls reach every double failure (a step and one
of its rollback), and a crash meets each of them. One request is enough to be
inside, refused, or waited for. Requests and attempts are served once, so the
instance comes to a stop; `CHECK_DEADLOCK` is off for this reason only.

In `Idempotency` two clients with one key race for the reservation, the third
meets a reservation of another request, and one fault is each of a lost
statement, a failed handler and a crash in turn; runs are unbounded, since a
request whose effect is committed and whose key is given back needs a fault. In
`Accounts` two overlapping logins already read one count and write it twice, and
two sessions are one that another replaces; `FailureLimit` is 2 instead of 5, so
that one failure is below the limit and two reach it. In `Library` pages of one
entry make every entry a page boundary, two tags are one that a CSV gives back as
the other, alone or together with it, the first title holds a separator, so a
listing by title goes on from a cursor that was cut, and three writes are enough to move an
entry, and to change a library between export and import; two collections with
one name meet in a rename or an import only with more writes. In `ReaderPool` a
statement has at most one row: a second row repeats what the first one asks for.
The theorem `FourSuffice` is about any number of rows.

Symmetry is used over requests, round ids, processes, browsers, in `Accounts` the
two people with their names, and in `SyncCandidates` plays and media, all
interchangeable; not over external event ids in `Rounds`,
whose order stands for the order of event uuids, and never where liveness is
checked.

Fairness, in `Restore`: a request or restore attempt whose handler has begun
goes on (`WF` of its own steps), for its calls have deadlines or are cancelled
with their context; nobody need send a request, leave, crash or be restarted.

Fairness, in `SyncProgress`: time passes; a process that is down is
started (`restart: unless-stopped` in docker-compose.yml); a request that
connects an account goes on; the scheduler goroutine takes its next step. It is
weak everywhere. No provider call need succeed: `PlaysArrive` assumes that
failures stop at some time (`ProvidersRecover`).
Connecting, disconnecting, playing and crashing are never forced.

Fairness, in `Idempotency`: a client retries what is not settled and the server
goes on with what it serves (`WF` of `Serve`); a day passes (`WF` of `Lapse`); a
restore that is let in again and again runs (`SF` of `RunRestore`: the gate
refuses new requests while it drains, so others cannot keep it out). Faults are
bounded, so they end. In `ReaderPool`: a task reads and closes its rows (`WF`),
and one that waits for a connection gets one of those that come back again and
again (`SF`: database/sql serves those that wait). Nobody need begin or hang up.

Bounds of the model that are assumptions about the world: the instants of plays
are in the past; provider histories only grow, in the order of their cursors;
fewer than 10,000 pages.

## 4. Properties

One rule for types: `TypeOK` is a theorem of every module, and no run repeats it.

Rounds: `ScopesConsistent` (no scope with two rounds in progress or a number
twice), `NoLostUpdate` (the row a request is about to overwrite is the row it
read), `ArchivedImmutable`, `ManualStays` (sync never enters or demotes what the
user wrote), `CompletionDated`, `CompletedMovieHasEvent`,
`ProgressMatchesEvents`, `ProfileProjection`, `LedgerSpec`, `BookSpec`. A profile over
several seasons at once is the theorem `ProfileIsProjection`; the run has one
scope.

Scheduler: `NothingSkipped` (a stored cursor moves over no event without a
candidate; the first cursor of a history read by days may pass what was played
before the current day, and nothing later), `CursorNeverRewinds`, `LeaseHonoured`,
`SchedulerSurvives`, `PlaysArrive` (every play of an account with jobs gets a
candidate; of a history read by days, every play past the stored cursor).

Candidates: `PlayRecordedOnce`, `MappingConfirmed`, `ManualRoundsUntouched`,
`ConfirmationRecorded`, `ResolutionFinal`, `BookSpec`. Two of them,
`ConfirmationRecorded` and `ResolutionFinal`, state what the code ensures, which is weaker than it first looks: a resolution that read its
candidate while it was open writes it without testing the status again. So an
ignored candidate can become confirmed by a request that began before, and a
confirmed one can be moved to another target by one, but only once the event
of the first confirmation has been deleted or taken over by hand.

Restore: `ExclusiveAccess` (no counted request is inside while the handles may be
closed), `NeverLeftShut` (a shut gate has a holder on its way to open it),
`PreviousStaysOnDisk` (at any step the database being replaced is whole, under
its name or as `.restore-old`, until the restored one has its audit event),
`BackupHoldsWhatItReplaces`, `OutcomeMatchesDatabase` (the answer is true of the
file), `LeftoversAreCleaned`, `AttemptsEnd`. After a crash in the middle of a
replacement, the next start opens whichever database is under the name:
`.restore-old` is left for the operator, and cleared by the next restore.

Idempotency: `AtMostOnce` (an effect happens a second time under its key only
after the handler committed and then answered 500 or above, which gives the key
back), `ToldIsRecorded`, `RecordMatchesEffects` (also in a restored database),
`RetriesSettle` (a reservation left by a crash holds retries up for a day, not
for ever).

Accounts: `OneAdministrator`, `AuditTellsMembers`, `BlockedAtLimit` (counts that
overlapping logins read and write back never pass the limit, and a full count
always blocks), `AdmittedByLastSession` (a request is taken on only for an active
user, by the session opened last). A login that verified its password before the
user was deactivated still opens a session afterwards: it admits nobody, because
each request asks for an active user. One that verified the old password before a
reset opens a session after it, too, and that one is valid: it is the last, so
`AdmittedByLastSession` holds of it, and no property says that a reset ends the
logins under way. A window of failures does not end in the middle of a login
(`Lapse`); in the code it can, which only lowers what is counted.

Library: `ListsOnce` (an entry that stays under one key is listed exactly once
while others move; after a cursor that kept only a part of a title it may come
up again, but is not left out), `NoLostEdit` (as long as its version is the current one, what
a browser was shown is what it replaces, although version and tags come from two
statements), `TransfersFaithful` (an export with nothing written beside it holds
the library, an import with nothing written beside it leaves what the document
holds, but for the records and collections reported as failed). Of a CSV it says
less: of media with one row, the round and the tags as the import reads their cell;
where several rows are of one media, that the last one is what an import leaves.

ReaderPool: `NeverStuck` (the tasks that have all connections do not all wait),
`RequestsEnd`.

Every property has a mutant of the code in the module that breaks it.

## 5. Proofs

Eight modules prove, for all values of the constants that satisfy the named
assumptions (sets may be infinite, except the episodes of a season, the
accounts of `SyncScheduler`, the connections of `ReaderPool` and the media of
`Library`):

| Theorem | Property | Argument |
|---|---|---|
| `RoundsProofs!TypeCorrect` | `TypeOK` | inductive with `PreparedDated`: a prepared write that completes a round has a date |
| `ScopesStayConsistent` | `ScopesConsistent` | inductive over the types: each of the four ways to create a round tests or computes both keys |
| `NoUpdateIsLost` | `NoLostUpdate` | inductive only with `BasesKnown`: a job's base is a stored round whose version has not passed below the one read, in the scope it read |
| `CompletionIsDated` | `CompletionDated` | inductive over the types and `PreparedDated` |
| `ProfileIsProjection` | `ProfileProjection` | each transaction that touches a round in progress ends in the projection; the others leave both sides alone |
| `HistoryIsImmutable` | `ArchivedImmutable` | by action: what a step writes hangs on a round that is current |
| `ManualIsKept` | `ManualStays` | by action, with `PreparedManual`: what an edit is about to write is the user's; sync refuses a manual round |
| `ProgressHasItsEvents` | `ProgressMatchesEvents` | inductive with `MovieAlone`: a movie has neither seasons nor marks |
| `CompletionsAreEvents` | `CompletedMovieHasEvent` | round by round, with `MovieAlone`: whoever completes a movie leaves an event at that time |
| `RefinesLedger` | `LedgerSpec` | every action maps to a ledger step or a stutter |
| `RoundsProofs!KeepsTheBook` | `BookSpec` | with `EventsStored` (an event has its round), `PreparedManual` and `ScopesConsistent`: each request leaves its round the user's, and of external plays there only what was there (`WrittenByHand`); a synced play enters a scope whose round in progress, the only one, it may write (`WrittenBySync`) |
| `SyncSchedulerProofs!TypeCorrect` | `TypeOK` | with `Working`: a busy process has a batch, and a page under ingestion is not at its end |
| `NoPlayIsSkipped` | `NothingSkipped` | with what each process knows: `ClaimsTrue` (while it holds a job's lease, the cursor it read is the job's) and `RunTrue` (its run started at that cursor, or without one where the provider's history begins, and everything from its start to where it is has a candidate); no step of another process harms that (`Harmless`), and the one that stores a cursor is the holder's (`ReleaseTrue`) |
| `CursorsOnlyAdvance`, `LeasesAreHonoured` | `CursorNeverRewinds`, `LeaseHonoured` | one lemma tells what a step may do to a row (`RowSteps`): make it, keep its cursor and leased owner, or release it as its holder |
| `SyncCandidatesProofs!TypeCorrect` | `TypeOK` | with `JobsTargeted`: an exact match and a resolution have a target |
| `PlaysRecordedOnce` | `PlayRecordedOnce` | `Applies` is tested in the transaction that records |
| `MappingsAreConfirmed` | `MappingConfirmed` | inductive: the transaction that writes a mapping confirms a candidate of the item |
| `ManualRoundsStay` | `ManualRoundsUntouched` | by action |
| `ConfirmationsAreRecorded` | `ConfirmationRecorded` | with `Backed`: a synced event of a confirmed candidate is at its target |
| `ResolutionsAreFinal` | `ResolutionFinal` | by action, with the types of jobs |
| `SyncCandidatesProofs!KeepsTheBook` | `BookSpec` | by action: a confirmation enters a play or finds it entered (`AppliedPlays`) |
| `RestoreProofs!TypeCorrect` | `TypeOK` | one invariant `IInv` for all five: the types, `Gate` (the lock is held exactly in the stages between taking and returning it, the gate is shut in those that may replace, and nobody is inside) and `Files` (what is where on disk at each stage) |
| `Exclusion`, `GateOpensAgain` | `ExclusiveAccess`, `NeverLeftShut` | from `Gate`, which needs the count of `active` from the types |
| `PreviousIsSafe` | `PreviousStaysOnDisk` | from `PreviousOf`: while closed the database is what it was; linked before it is replaced; an undo starts from the link |
| `BackupComesFirst` | `BackupHoldsWhatItReplaces` | from `BackupOf`: the snapshot, then the archive, holds what the lock found |
| `NothingIsLeftBehind` | `LeftoversAreCleaned` | invariant `Leftovers`: an upload or a snapshot is there only in the stages between its making and its removal, and a start finds none left by the process before; a replacement is the holder's, or that of an attempt a crash ended |
| `OutcomesAreTrue` | `OutcomeMatchesDatabase` | `RestoredOf` says what the database is from the rename to the audit event, and `Unaudited` that no database anywhere holds the event of an attempt that did not get so far; `Flows` is why: every file is a copy of one that was there, but for a committed transaction |
| `IdempotencyProofs!TypeCorrect` | `TypeOK` | with `HasArchive`: a restore under way has an archive to put in place |
| `EffectsHappenOnce`, `AnswersAreRecorded`, `RecordsAreTrue` | `AtMostOnce`, `ToldIsRecorded`, `RecordMatchesEffects` | one invariant `Safe`: who holds a key has its reservation, alone (`Held`, `OneHolder`); what a holder knows of the effects under its key (`Knows`); the database **and the archive** are `Consistent`, so a restore brings a consistent one back |
| `AccountsProofs!TypeCorrect` | `TypeOK` | users stay, with their roles (`Stay`) |
| `HouseholdIsLed`, `TrailIsTrue` | `OneAdministrator`, `AuditTellsMembers` | five ways to change a user (`UserSteps`), with `Managed`: a permission found stays true, since roles do not change |
| `LimitBlocks` | `BlockedAtLimit` | with `Counts`: a login under way read a count below the limit |
| `LastSessionAdmits` | `AdmittedByLastSession` | with `Numbered` and `LastOpen`: of the sessions of a user only the last is open |
| `ReaderPoolProofs!TypeCorrect` | `TypeOK` | stacks of statements are well nested |
| `FourSuffice` | `NeverStuck` | for four or more connections, at most one export and one matcher (`Enough`), by counting: an export that waits has at most two connections, a matcher at most one, other requests none |
| `LibraryProofs!TypeCorrect` | `TypeOK` | with the types of what is under way: an export has media left while it reads tags or rounds, and no profile is newer than the clock |
| `EditsReplaceWhatWasShown` | `NoLostEdit` | with `Edits`: the version a browser holds is never ahead of the profile's, and while the two are equal nobody has written; every write of tags or sharing goes one version up |
| `PagesListOnce` | `ListsOnce` | with `Paged`: of the media that stay, those behind the cursor were given, and unless a cursor was cut those ahead were not; a page moves media from one side to the other (`LibraryPagePaged`). Nothing is assumed of the titles but that a part of one comes before it |
| `TransfersAreFaithful` | `TransfersFaithful` | with `Exporting` (the records so far are what is there; the last one is under way), `Importing` (the records and collections so far are installed) and `Projections` (the status of a profile is that of its rounds), which is what makes the status come back although a record does not carry it; the rows of a CSV are those of its records, for documents of any length (lemma `JoinedRows`, below), with their tags read back |

The proofs about `Restore` hold for any number of failing calls and crashes; its
16 steps of the holder share three lemmas: what is typed (`AttemptFrame`), what
the gate is (`InnerGate`), and that nobody else's files change (`OthersFiles`).
Most steps of `Idempotency` touch no ordinary key: one lemma (`QuietSafe`) keeps
the invariant for all of them, crashes included.

The rows of a CSV are joined by a recursive function. The library's theorems on
induction take the induction hypothesis as an operator, which the provers here
cannot instantiate, so `LibraryProofs` argues by a least counterexample instead
(`LeastNumber`, from `WFMin`): once that the function exists on every prefix, and
once for what each prefix holds (`Holding`).

Only model-checked: liveness. Liveness under fairness and `ENABLED` are out of
the prover's reach. No module uses a recursive operator.

## 6. What the code does otherwise than its documents and tests say

With a run that finds it:

1. `SyncDisconnect`: disconnecting an account while its job is claimed stops the
   scheduler for all accounts until the server is restarted.
2. `ReaderPoolExports`: two exports at a time can take all four read connections
   and wait for one another; from then on every read of the server waits, until a
   client hangs up.

Seen while modelling; the models have the behaviour, and no property forbids it:

3. A media removed from the library, with history, cannot be added again by an
   edit: the new round asks for number 1, which the archived one has.
4. Clearing a round's fields can change its status, when a synced rewatch comes
   between the request's two reads (`ClearReads`). Versions start at 1 in every
   round, so the version does not tell the rounds apart.
5. A movie round set back from completed keeps all but the first of its plays
   (`rounds_test.go:345-354` expects none).
6. The confirmation dialog (`BackupRestore.tsx:126`) says the current database is
   snapshotted before it is replaced. The snapshot is taken before the requests
   are drained: what is written between the two is in neither the restored
   database nor a backup.
7. A cursor keeps of a title what stands before its first separator `|`: a
   listing by title that ends a page there goes on before that title, and repeats
   entries. With pages of one entry, or where the repeated entries fill a page, it
   comes back to the same cursor and does not end. `ListsOnce` excepts the
   repetition (`listing.cut`); that nothing is left out holds even then.
8. A CSV row carries one round, and importing a record replaces the rounds of
   its media: of a media with several rounds the last row remains. A tag that holds
   `|` comes back from a CSV as the names between, and the first tag of a record
   loses an apostrophe that stands before `=`, `+`, `-`, `@`, a tab or a return
   (`export.go:234-258`, `import.go:198-218`): the tags are trimmed, but nothing
   forbids either (`repository.go:547-578`). A JSON export keeps both.
9. An imported record sets the version back to the document's, so a browser that
   read that version before can pass the test with an old edit. `NoLostEdit`
   follows an edit only while no import wrote its media (`fresh`). A record
   without rounds leaves the status of its profile as it was.
10. An incremental run without a cursor starts with today's plays on Jellyfin and
   Emby (`jellyfin/client.go:208-220`, `emby/client.go:214-226`). What was played on
   earlier days, before the account was connected or while its first runs failed, is
   passed by the first cursor; the compensation run reaches back 24 hours, and what
   is older is never read. `NothingSkipped` and `PlaysArrive` except just these plays.
11. A client that leaves while it connects an account can leave the account without
   jobs (`integration_handlers.go:89-93`): nothing polls it until the next start of
   the server. `PlaysArrive` speaks of accounts with jobs.
12. A login under way while its password is reset still opens a valid session
   (section 4, Accounts).

## 7. Not modelled, and the plan

- Pure algorithms: the calendar's day and month windows, the statistics. Both
  only read, in one statement each.
- Imports in `Rounds` and `SyncCandidates`: an import deletes the rounds of a
  media and inserts those of the document, synced plays included
  (`importRounds`), so what these modules state of history, of rounds written by
  hand and of confirmed candidates is about what happens between imports. The
  import itself is in `Library`.
- Left out of modelled components: the last-seen time of a session, the CSRF
  token and password hashing (`Accounts`); filters other than the status, and
  highlights (`Library`); the validation of documents, in which a refused record
  is reported and skipped; migrations, each of which is one transaction checked
  by its checksum.
- Out of scope: the HTTP of the provider clients and the mapping of what they
  receive, the TMDB client, media creation (single transactions), the web
  application (no authoritative state), configuration, credential encryption, and
  the seed data of tests.
