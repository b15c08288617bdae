------------------------------- MODULE Rounds -------------------------------
(***************************************************************************)
(* Viewing rounds of one user and one media (internal/records): the rows   *)
(* of watch_rounds, the watch events and episode progress hanging off      *)
(* them, the projected profile status, and the requests that change them.  *)
(*                                                                         *)
(* A request that reads through the reader pool and writes in a later      *)
(* transaction is split at that boundary: job[c] holds what its reads      *)
(* returned.  A write transaction is one step: SQLite has one writer       *)
(* connection (storage/db.go), so write transactions do not interleave.    *)
(*                                                                         *)
(* Data kept: status, its source, completed_at, and one `review' standing  *)
(* for rating, note and viewing method.  started_at and the participants   *)
(* appear only as `touch', an input that bumps the version.                *)
(***************************************************************************)
EXTENDS Naturals, FiniteSets

CONSTANTS
    Client,         \* requests in flight at one time
    RoundId,        \* uuids of rounds, each used once
    Scope,          \* {Movie}, or the season numbers of a series
    Episode,        \* episode numbers of a season
    ExtId,          \* external event ids, ordered as the event uuids are
    Time,           \* instants a viewing can be dated, all in the past
    Review,         \* values of the review, NoReview excluded
    InputStatus,    \* statuses a client may send
    SeasonSize,     \* episode total a client reports with episode references
    MaxNumber,      \* bound: round numbers
    MaxVersion      \* bound: version of a round

Movie     == 0      \* season_number IS NULL
NoEpisode == 0      \* episode_id IS NULL
NoExt     == 0      \* external_event_id IS NULL
Never     == 0      \* completed_at IS NULL
NoReview  == 0      \* rating, note and viewing method NULL

Status == {"none", "wishlist", "watching", "completed", "dropped"}
Source == {"manual", "confirmed_import", "confirmed_sync", "external_default"}

ASSUME ScopeAssumption ==
    Scope = {Movie} \/ Scope \subseteq Nat \ {Movie}
ASSUME DataAssumption ==
    /\ Episode \subseteq Nat \ {NoEpisode} /\ IsFiniteSet(Episode)
    /\ ExtId \subseteq Nat \ {NoExt}
    /\ Time \subseteq Nat \ {Never}
    /\ Review \subseteq Nat \ {NoReview}
    /\ InputStatus \subseteq Status
    /\ SeasonSize \in Nat
ASSUME BoundAssumption == MaxNumber \in Nat \ {0} /\ MaxVersion \in Nat
ASSUME RoundIdAssumption == "no round" \notin RoundId

NoRound == "no round"
Number  == 1..MaxNumber
Season  == Scope \ {Movie}

VARIABLES
    rounds,     \* watch_rounds: id -> row, Unused or Deleted
    events,     \* watch_events of this user and media
    progress,   \* round_episode_progress
    catalog,    \* episodes: season -> the episodes stored for it
    fresh,      \* current rounds bearing the newest updated_at (whole seconds)
    profile,    \* user_media_profiles.status, or "absent"
    job         \* client -> what its request has read so far

vars == <<rounds, events, progress, catalog, fresh, profile, job>>

-----------------------------------------------------------------------------
(* Rows *)

Fact == [status : Status, source : Source,
         done : Time \cup {Never}, review : Review \cup {NoReview}]

EmptyFact(source) ==
    [status |-> "none", source |-> source, done |-> Never, review |-> NoReview]

Unused  == [state |-> "unused"]
Deleted == [state |-> "deleted"]

Row == [state : {"current", "archived"}, scope : Scope,
        number : Number, version : Nat \ {0}, facts : Fact]

NewRow(s, n, f) ==
    [state |-> "current", scope |-> s, number |-> n, version |-> 1, facts |-> f]

Event == [round : RoundId, ep : Episode \cup {NoEpisode}, ext : ExtId \cup {NoExt},
          source : Source, at : Time, full : BOOLEAN]

Progress == [round : RoundId, ep : Episode, ext : ExtId \cup {NoExt}, at : Time]

Live == {i \in RoundId : rounds[i].state = "current"}
IsCurrent(i, s) == rounds[i].state = "current" /\ rounds[i].scope = s
IsStored(i, s)  == rounds[i].state \in {"current", "archived"} /\ rounds[i].scope = s
NoCurrent(s)    == \A i \in RoundId : ~ IsCurrent(i, s)

EventsOf(i)   == {e \in events : e.round = i}
ProgressOf(i) == {p \in progress : p.round = i}

(* The unique index watch_rounds_scope_number. *)
NumberFree(s, n) == \A i \in RoundId : IsStored(i, s) => rounds[i].number # n

(* Mutant: the next number counted over the current rounds only. *)
NextOfCurrent(s, n) ==
    /\ \A i \in RoundId : IsCurrent(i, s) => rounds[i].number < n
    /\ n = 1 \/ \E i \in RoundId : IsCurrent(i, s) /\ rounds[i].number = n - 1

(* COALESCE(MAX(round_number), 0) + 1 *)
IsNextNumber(s, n) ==
    /\ \A i \in RoundId : IsStored(i, s) => rounds[i].number < n
    /\ n = 1 \/ \E i \in RoundId : IsStored(i, s) /\ rounds[i].number = n - 1

SourcePriority(source) ==
    CASE source = "manual"           -> 4
      [] source = "confirmed_import" -> 3
      [] source = "confirmed_sync"   -> 2
      [] source = "external_default" -> 1

CanOverwrite(incoming, existing) ==
    SourcePriority(incoming) >= SourcePriority(existing)

(* MAX(watched_at) over a set of instants; NULL when there is none. *)
IsLatest(t, instants) ==
    \/ instants = {} /\ t = Never
    \/ t \in instants /\ \A u \in instants : u <= t

(* projectedSeriesStatus *)
SeriesStatus(watched, total) ==
    IF total > 0 /\ watched = total THEN "completed"
    ELSE IF watched > 0 THEN "watching" ELSE "none"

-----------------------------------------------------------------------------
(* Writing: parts shared by the transactions. *)

(* The profile status projectMediaProfile selects from the current rounds. *)
Projects(rows, newest, status) ==
    LET live     == {i \in RoundId : rows[i].state = "current"}
        watching == {i \in live : rows[i].facts.status = "watching"}
    IN  \/ watching # {} /\ status = "watching"
        \/ live = {} /\ status = "none"
        \/ /\ watching = {}
           /\ \E i \in live \cap newest :
                 /\ status = rows[i].facts.status
                 /\ \A k \in live \cap newest : rows[k].scope <= rows[i].scope

(* updated_at has whole seconds: the write of i may share its second with   *)
(* the newest writes before it.                                             *)
Written(i) ==
    \/ fresh' = {i}
    \/ fresh' = {k \in fresh \cup {i} : rounds'[k].state = "current"}

(* Mutant: the profile row is ensured, its status left as it was. *)
EnsureOnly(i) ==
    /\ Written(i)
    /\ profile' = IF profile = "absent" THEN "none" ELSE profile

ProjectMediaProfile(i) ==
    /\ Written(i)
    /\ profile' \in Status
    /\ Projects(rounds', fresh', profile')

(* The event syncMovieRoundEvent works on: ORDER BY id LIMIT 1. *)
IsFirst(e, own) == e \in own /\ \A o \in own : e.ext <= o.ext

(* Mutant: an existing event takes the new source, not the new time. *)
KeepsEventTime(i, s, f) ==
    LET own == EventsOf(i)
        new == [round |-> i, ep |-> NoEpisode, ext |-> NoExt,
                source |-> f.source, at |-> f.done, full |-> TRUE]
    IN  events' = IF f.status # "completed" THEN events \ own
                  ELSE IF own = {} THEN events \cup {new}
                  ELSE {[e EXCEPT !.source = IF e \in own THEN f.source ELSE @] : e \in events}

SyncMovieRoundEvent(i, s, f) ==
    LET own == EventsOf(i)
        new == [round |-> i, ep |-> NoEpisode, ext |-> NoExt,
                source |-> f.source, at |-> f.done, full |-> TRUE]
    IN  \/ s # Movie /\ events' = events
        \/ /\ s = Movie /\ f.status # "completed"
           /\ \/ own = {} /\ events' = events
              \/ \E e \in own : IsFirst(e, own) /\ events' = events \ {e}
        \/ /\ s = Movie /\ f.status = "completed"
           /\ \/ own = {} /\ events' = events \cup {new}
              \/ \E e \in own :
                    /\ IsFirst(e, own)
                    /\ events' = (events \ {e}) \cup
                                 {[e EXCEPT !.at = f.done, !.source = f.source]}

(* ON DELETE CASCADE from watch_rounds. *)
Cascade(gone) ==
    /\ events' = {e \in events : e.round \notin gone}
    /\ progress' = {p \in progress : p.round \notin gone}

Rewritten(row, version, f) ==
    [state |-> row.state, scope |-> row.scope, number |-> row.number,
     version |-> version, facts |-> f]

(* Mutant: archiving advances the version. *)
ArchivedAsRevision(row) ==
    Rewritten([row EXCEPT !.state = "archived"], row.version + 1, row.facts)

(* Mutant: a synced play or a marked episode leaves the version as it was. *)
SameVersion(row, f) == Rewritten(row, row.version, f)

Archived(row) == [row EXCEPT !.state = "archived"]
Revised(row, f) == Rewritten(row, row.version + 1, f)

-----------------------------------------------------------------------------
(* Service.UpdateRound: reads, then one write transaction. *)

Idle == [step |-> "idle"]

(* `review' is the value after the request: the old one when the request    *)
(* does not set it.  `touch' is a change of started_at or participants.     *)
Input == [status : InputStatus, at : Time \cup {Never},
          review : Review \cup {NoReview}, touch : BOOLEAN]

Overwrite(f, in) ==
    [status |-> in.status, source |-> "manual", review |-> in.review,
     done |-> IF in.status # "completed" THEN Never
              ELSE IF in.at = Never THEN f.done ELSE in.at]

(* completed needs a date, given now or before *)
Acceptable(f, in) == in.status = "completed" => in.at # Never \/ f.done # Never

Prepared(s, i, version, seen, next) ==
    [step |-> "write", scope |-> s, base |-> i, version |-> version,
     seen |-> seen, next |-> next]

ReadForUpdate(c, s, in, expected) ==
    \/ \E i \in RoundId :
          /\ IsCurrent(i, s)
          /\ rounds[i].version = expected
          /\ Acceptable(rounds[i].facts, in)
          /\ in.touch \/ Overwrite(rounds[i].facts, in) # rounds[i].facts
          /\ job' = [job EXCEPT ![c] =
                Prepared(s, i, expected, rounds[i].facts, Overwrite(rounds[i].facts, in))]
    \/ /\ NoCurrent(s)
       /\ expected = 0
       /\ Acceptable(EmptyFact("manual"), in)
       /\ job' = [job EXCEPT ![c] =
             Prepared(s, NoRound, 0, EmptyFact("manual"),
                      Overwrite(EmptyFact("manual"), in))]

(* The first reads of a request, which is refused without effect (no step)  *)
(* when the version differs, the date is missing or nothing changes.        *)
BeginUpdate(c) ==
    /\ job[c] = Idle
    /\ \E s \in Scope, in \in Input, expected \in 0..(MaxVersion - 1) :
          ReadForUpdate(c, s, in, expected)
    /\ UNCHANGED <<rounds, events, progress, catalog, fresh, profile>>

(* ClearCurrentRoundFields reads the status and the date it means to keep... *)
BeginClear(c) ==
    /\ job[c] = Idle
    /\ \E i \in Live, expected \in 0..(MaxVersion - 1) :
          job' = [job EXCEPT ![c] =
                    [step |-> "clear", scope |-> rounds[i].scope,
                     status |-> rounds[i].facts.status, at |-> rounds[i].facts.done,
                     expected |-> expected]]
    /\ UNCHANGED <<rounds, events, progress, catalog, fresh, profile>>

(* ... and passes them to UpdateRound, which reads again; the request ends  *)
(* there when it is refused or its client has gone.                         *)
ClearReads(c) ==
    /\ job[c].step = "clear"
    /\ LET in == [status |-> job[c].status, at |-> job[c].at,
                  review |-> NoReview, touch |-> FALSE]
       IN  \/ ReadForUpdate(c, job[c].scope, in, job[c].expected)
           \/ job' = [job EXCEPT ![c] = Idle]
    /\ UNCHANGED <<rounds, events, progress, catalog, fresh, profile>>

(* A round is created with number 1, whatever history the scope has; the    *)
(* two unique indexes may refuse the row.                                   *)
CanInsert(s, n) == NoCurrent(s) /\ NumberFree(s, n)

InsertRound(c) ==
    /\ job[c].step = "write" /\ job[c].base = NoRound
    /\ \E i \in RoundId :
          /\ rounds[i] = Unused
          /\ CanInsert(job[c].scope, 1)
          /\ rounds' = [rounds EXCEPT ![i] = NewRow(job[c].scope, 1, job[c].next)]
          /\ SyncMovieRoundEvent(i, job[c].scope, job[c].next)
          /\ ProjectMediaProfile(i)
    /\ job' = [job EXCEPT ![c] = Idle]
    /\ UNCHANGED <<progress, catalog>>

(* Mutant: the UPDATE without archived_at IS NULL. *)
GuardedByVersion(j) ==
    /\ rounds[j.base].state \in {"current", "archived"}
    /\ rounds[j.base].version = j.version

(* UPDATE watch_rounds ... WHERE id, version, archived_at IS NULL *)
Guarded(j) ==
    /\ rounds[j.base].state = "current"
    /\ rounds[j.base].version = j.version

(* The event the edit takes over would bear the external id and the source  *)
(* of another one: the unique index watch_events_external_event.            *)
Collides(i, s, f) ==
    /\ s = Movie /\ f.status = "completed"
    /\ \E e \in EventsOf(i), o \in events :
          /\ IsFirst(e, EventsOf(i))
          /\ o # e /\ e.ext # NoExt /\ o.ext = e.ext /\ o.source = f.source

UpdateRound(c) ==
    /\ job[c].step = "write" /\ job[c].base # NoRound
    /\ Guarded(job[c])
    /\ ~ Collides(job[c].base, job[c].scope, job[c].next)
    /\ rounds' = [rounds EXCEPT ![job[c].base] =
                    Rewritten(rounds[job[c].base], job[c].version + 1, job[c].next)]
    /\ SyncMovieRoundEvent(job[c].base, job[c].scope, job[c].next)
    /\ ProjectMediaProfile(job[c].base)
    /\ job' = [job EXCEPT ![c] = Idle]
    /\ UNCHANGED <<progress, catalog>>

(* The transaction rolls back: a unique index, or no row matched. *)
WriteRefused(c) ==
    /\ job[c].step = "write"
    /\ IF job[c].base = NoRound
       THEN ~ CanInsert(job[c].scope, 1)
       ELSE \/ ~ Guarded(job[c])
            \/ Collides(job[c].base, job[c].scope, job[c].next)
    /\ job' = [job EXCEPT ![c] = Idle]
    /\ UNCHANGED <<rounds, events, progress, catalog, fresh, profile>>

-----------------------------------------------------------------------------
(* Requests that are one write transaction. *)

(* ArchiveCurrentRound *)
StartRewatch ==
    /\ \E i, k \in RoundId, expected \in 1..MaxVersion :
          LET row  == rounds[i]
              next == [EmptyFact("manual") EXCEPT !.status = "watching"]
          IN  /\ row.state = "current"
              /\ row.facts.status = "completed"
              /\ row.version = expected
              /\ row.number < MaxNumber
              /\ rounds[k] = Unused
              /\ NumberFree(row.scope, row.number + 1)
              /\ rounds' = [rounds EXCEPT ![i] = Archived(row),
                                ![k] = NewRow(row.scope, row.number + 1, next)]
              /\ ProjectMediaProfile(k)
    /\ UNCHANGED <<events, progress, catalog, job>>

DeleteArchivedRound ==
    /\ \E i \in RoundId :
          /\ rounds[i].state = "archived"
          /\ rounds' = [rounds EXCEPT ![i] = Deleted]
          /\ Cascade({i})
    /\ UNCHANGED <<catalog, fresh, profile, job>>

(* The current rounds of every season go; history stays. *)
RemoveFromLibrary ==
    /\ rounds' = [i \in RoundId |-> IF i \in Live THEN Deleted ELSE rounds[i]]
    /\ Cascade(Live)
    /\ fresh' = {}
    /\ profile' = IF profile = "absent" THEN "absent" ELSE "none"
    /\ UNCHANGED <<catalog, job>>

-----------------------------------------------------------------------------
(* Service.UpdateEpisodeProgress: reads, then ApplySeasonEpisodeProgress. *)

(* The round in progress in a season, as the readers see it. *)
SeasonRound(s) == {i \in RoundId : IsCurrent(i, s)}
VersionOf(s, version) ==
    IF NoCurrent(s) THEN version = 0
                    ELSE \E i \in SeasonRound(s) : rounds[i].version = version
Watched(s) == {p.ep : p \in {q \in progress : q.round \in SeasonRound(s)}}

(* selectProgressTargets, over the episodes stored for the season *)
Selects(s, action, targets) ==
    LET stored == catalog[s] IN
    /\ targets # {} /\ targets \subseteq stored
    /\ CASE action = "range"  -> \A e \in stored : \A a, b \in targets :
                                   a <= e /\ e <= b => e \in targets
         [] action = "season" -> targets = stored
         [] action = "next"   -> \E e \in targets : targets = {e} /\ e \notin Watched(s)
                                   /\ \A o \in stored : o < e => o \in Watched(s)
         [] OTHER             -> \E e \in targets : targets = {e}

(* EpisodeRefs name episodes by number, stored or not, with the season's    *)
(* size; all but range and season name exactly one.                         *)
Refers(action, targets) ==
    /\ targets # {} /\ targets \subseteq Episode
    /\ action \in {"range", "season"} \/ \E e \in targets : targets = {e}

Action == {"single", "range", "season", "next", "undo", "set_time"}

BeginProgress(c) ==
    /\ job[c] = Idle
    /\ \E s \in Season, action \in Action, targets \in SUBSET Episode, at \in Time,
          refs \in BOOLEAN, version \in 0..(MaxVersion - 1) :
          /\ VersionOf(s, version)
          /\ IF refs THEN Refers(action, targets) ELSE Selects(s, action, targets)
          /\ job' = [job EXCEPT ![c] =
                [step |-> "progress", scope |-> s, version |-> version,
                 change |-> IF action \in {"undo", "set_time"} THEN action ELSE "mark",
                 targets |-> targets, at |-> at,
                 total |-> IF refs THEN SeasonSize ELSE 0]]
    /\ UNCHANGED <<rounds, events, progress, catalog, fresh, profile>>

(* What the loop over the targets leaves of round i's rows. *)
Stored(i, targets) == {p \in ProgressOf(i) : p.ep \in targets}
Rows(i, targets, at) ==
    {[round |-> i, ep |-> e, ext |-> NoExt, at |-> at] :
        e \in targets \ {p.ep : p \in ProgressOf(i)}}
EventOf(p, source) ==
    [round |-> p.round, ep |-> p.ep, ext |-> p.ext, source |-> source,
     at |-> p.at, full |-> TRUE]
Backs(e, p) == e.round = p.round /\ e.ep = p.ep /\ e.ext = p.ext

Undo(i, targets) ==
    /\ progress' = progress \ Stored(i, targets)
    /\ events' = {e \in events : \A p \in Stored(i, targets) : ~ Backs(e, p)}

(* Mutant: the mark moves, its event keeps the old time. *)
SetMarkTime(i, targets, at) ==
    /\ progress' = (progress \ Stored(i, targets))
                     \cup {[p EXCEPT !.at = at] : p \in Stored(i, targets)}
                     \cup Rows(i, targets, at)
    /\ events' = events \cup {EventOf(p, "manual") : p \in Rows(i, targets, at)}

SetTime(i, targets, at) ==
    /\ progress' = (progress \ Stored(i, targets))
                     \cup {[p EXCEPT !.at = at] : p \in Stored(i, targets)}
                     \cup Rows(i, targets, at)
    /\ events' = {IF \E p \in Stored(i, targets) : Backs(e, p)
                    THEN [e EXCEPT !.at = at] ELSE e : e \in events}
                   \cup {EventOf(p, "manual") : p \in Rows(i, targets, at)}

Mark(i, targets, at) ==
    /\ progress' = progress \cup Rows(i, targets, at)
    /\ events' = events \cup {EventOf(p, "manual") : p \in Rows(i, targets, at)}

ApplyTo(i, j) ==
    \/ j.change = "undo" /\ Undo(i, j.targets)
    \/ j.change = "set_time" /\ SetTime(i, j.targets, j.at)
    \/ j.change = "mark" /\ Mark(i, j.targets, j.at)

(* Mutant: completed_at follows the plays, whatever the status. *)
LatestAlways(t, status, instants) == IsLatest(t, instants)

(* completed_at: the latest instant of a completed round, else NULL *)
IsDone(t, status, instants) ==
    IF status = "completed" THEN IsLatest(t, instants) ELSE t = Never

(* What the counts after the loop make of round i. *)
Recounted(i, j, f, g) ==
    LET own   == {p \in progress' : p.round = i}
        known == Cardinality(catalog'[j.scope])
        total == IF j.total > known THEN j.total ELSE known
    IN  /\ g.status = SeriesStatus(Cardinality(own), total)
        /\ g.source = "manual"
        /\ g.review = f.review
        /\ IsDone(g.done, g.status, {p.at : p \in own})

ReviseByProgress(i, j) ==
    /\ IsCurrent(i, j.scope)
    /\ rounds[i].version = j.version
    /\ ApplyTo(i, j)
    /\ \/ progress' = progress /\ UNCHANGED <<rounds, fresh, profile>>
       \/ /\ progress' # progress
          /\ \E f \in Fact : /\ Recounted(i, j, rounds[i].facts, f)
                            /\ rounds' = [rounds EXCEPT ![i] = Revised(rounds[i], f)]
          /\ ProjectMediaProfile(i)

OpenByProgress(i, j) ==
    /\ NoCurrent(j.scope) /\ j.version = 0
    /\ j.change # "undo"
    /\ rounds[i] = Unused
    /\ ApplyTo(i, j)
    /\ \E n \in Number, f \in Fact :
          /\ IsNextNumber(j.scope, n)
          /\ Recounted(i, j, EmptyFact("manual"), f)
          /\ rounds' = [rounds EXCEPT ![i] = NewRow(j.scope, n, f)]
    /\ ProjectMediaProfile(i)

(* Nothing to undo; only the episode rows the references name remain. *)
UndoNothing(j) ==
    /\ NoCurrent(j.scope) /\ j.version = 0
    /\ j.change = "undo"
    /\ UNCHANGED <<rounds, events, progress, fresh, profile>>

(* Episodes a reference names are stored first; the others are there. *)
EnsureEpisodeIdentities(s, targets) ==
    catalog' = [catalog EXCEPT ![s] = @ \cup targets]

ApplySeasonEpisodeProgress(c) ==
    /\ job[c].step = "progress"
    /\ EnsureEpisodeIdentities(job[c].scope, job[c].targets)
    /\ \/ \E i \in RoundId : ReviseByProgress(i, job[c]) \/ OpenByProgress(i, job[c])
       \/ UndoNothing(job[c])
    /\ job' = [job EXCEPT ![c] = Idle]

ProgressRefused(c) ==
    /\ job[c].step = "progress"
    /\ ~ VersionOf(job[c].scope, job[c].version)
    /\ job' = [job EXCEPT ![c] = Idle]
    /\ UNCHANGED <<rounds, events, progress, catalog, fresh, profile>>

-----------------------------------------------------------------------------
(* ApplySyncedWatch, inside the transaction that confirms a candidate. *)

(* The play of external event x, recorded under round i.  A play of 90% or  *)
(* more (`full') of an episode marks it, unless it is marked already.       *)
RecordPlay(i, ep, x, at, full) ==
    LET row == [round |-> i, ep |-> ep, ext |-> x, at |-> at]
    IN  /\ events' = events \cup
              {[round |-> i, ep |-> ep, ext |-> x, source |-> "confirmed_sync",
                at |-> at, full |-> full]}
        /\ progress' = IF full /\ ep # NoEpisode /\ \A p \in ProgressOf(i) : p.ep # ep
                       THEN progress \cup {row} ELSE progress

(* syncedRoundProjection *)
Synced(i, s, full, review, f) ==
    LET own     == {p \in progress' : p.round = i}
        plays   == {e \in events' : e.round = i}
        counted == SeriesStatus(Cardinality(own), Cardinality(catalog[s]))
    IN  /\ f.source = "confirmed_sync"
        /\ f.review = review
        /\ IF s = Movie
           THEN /\ f.status = IF full THEN "completed" ELSE "watching"
                /\ IsDone(f.done, f.status, {e.at : e \in plays})
           ELSE /\ f.status = IF ~ full /\ counted = "none" THEN "watching" ELSE counted
                /\ IsDone(f.done, f.status, {p.at : p \in own})

(* Mutant: sync ignores who wrote the round. *)
SyncAlways(row) == TRUE

SyncMayWrite(row) == CanOverwrite("confirmed_sync", row.facts.source)

(* The play joins the round in progress. *)
SyncInto(i, s, ep, x, at, full) ==
    /\ IsCurrent(i, s) /\ SyncMayWrite(rounds[i])
    /\ rounds[i].facts.status # "completed"
    /\ rounds[i].version < MaxVersion
    /\ RecordPlay(i, ep, x, at, full)
    /\ \E f \in Fact : /\ Synced(i, s, full, rounds[i].facts.review, f)
                      /\ rounds' = [rounds EXCEPT ![i] = Revised(rounds[i], f)]
    /\ ProjectMediaProfile(i)

(* The scope has no round in progress. *)
SyncOpens(k, s, ep, x, at, full) ==
    /\ NoCurrent(s) /\ rounds[k] = Unused
    /\ RecordPlay(k, ep, x, at, full)
    /\ \E n \in Number, f \in Fact :
          /\ IsNextNumber(s, n)
          /\ Synced(k, s, full, NoReview, f)
          /\ rounds' = [rounds EXCEPT ![k] = NewRow(s, n, f)]
    /\ ProjectMediaProfile(k)

(* The round in progress was completed: it is archived, the next begins. *)
SyncRollsOver(i, k, s, ep, x, at, full) ==
    /\ IsCurrent(i, s) /\ SyncMayWrite(rounds[i])
    /\ rounds[i].facts.status = "completed"
    /\ rounds[k] = Unused
    /\ RecordPlay(k, ep, x, at, full)
    /\ \E n \in Number, f \in Fact :
          /\ IsNextNumber(s, n)
          /\ Synced(k, s, full, NoReview, f)
          /\ rounds' = [rounds EXCEPT ![i] = Archived(rounds[i]),
                                      ![k] = NewRow(s, n, f)]
    /\ ProjectMediaProfile(k)

ApplySyncedWatch ==
    /\ \E s \in Scope, ep \in Episode \cup {NoEpisode}, x \in ExtId, at \in Time,
          full \in BOOLEAN :
          /\ IF s = Movie THEN ep = NoEpisode ELSE ep \in catalog[s]
          /\ \A e \in events : e.ext = x => e.source # "confirmed_sync"
          /\ \E i, k \in RoundId : \/ SyncInto(i, s, ep, x, at, full)
                                  \/ SyncOpens(k, s, ep, x, at, full)
                                  \/ SyncRollsOver(i, k, s, ep, x, at, full)
    /\ UNCHANGED <<catalog, job>>

-----------------------------------------------------------------------------
Init ==
    /\ rounds = [i \in RoundId |-> Unused]
    /\ events = {} /\ progress = {}
    /\ catalog \in [Season -> SUBSET Episode]
    /\ fresh = {}
    /\ profile = "absent"
    /\ job = [c \in Client |-> Idle]

Request(c) ==
    \/ BeginUpdate(c) \/ InsertRound(c) \/ UpdateRound(c) \/ WriteRefused(c)
    \/ BeginClear(c) \/ ClearReads(c)
    \/ BeginProgress(c) \/ ApplySeasonEpisodeProgress(c) \/ ProgressRefused(c)

Next ==
    \/ \E c \in Client : Request(c)
    \/ StartRewatch \/ DeleteArchivedRound \/ RemoveFromLibrary
    \/ ApplySyncedWatch

Spec == Init /\ [][Next]_vars

-----------------------------------------------------------------------------
(* What must hold *)

WriteJob    == [step : {"write"}, scope : Scope, base : RoundId \cup {NoRound},
                version : Nat, seen : Fact, next : Fact]
ClearJob    == [step : {"clear"}, scope : Scope, status : Status,
                at : Time \cup {Never}, expected : Nat]
ProgressJob == [step : {"progress"}, scope : Season, version : Nat,
                change : {"mark", "undo", "set_time"}, targets : SUBSET Episode,
                at : Time, total : Nat]

(* Every variable has its type. *)
TypeOK ==
    /\ rounds \in [RoundId -> Row \cup {Unused, Deleted}]
    /\ events \subseteq Event
    /\ progress \subseteq Progress
    /\ catalog \in [Season -> SUBSET Episode]
    /\ fresh \subseteq RoundId
    /\ profile \in Status \cup {"absent"}
    /\ job \in [Client -> {Idle} \cup WriteJob \cup ClearJob \cup ProgressJob]

(* Whatever requests, sync and rewatches interleave, a scope has at most    *)
(* one round in progress and no two stored rounds bear the same number:     *)
(* the transactions never rely on the unique indexes alone.                 *)
ScopesConsistent ==
    \A i, k \in RoundId, s \in Scope :
        i # k => /\ ~ (IsCurrent(i, s) /\ IsCurrent(k, s))
                 /\ IsStored(i, s) /\ IsStored(k, s) => rounds[i].number # rounds[k].number

(* A version names one content of a round: while a request's round is at    *)
(* the version the request read, it says what the request read.  So the     *)
(* whole-row UPDATE of UpdateRound never overwrites a change nobody saw.    *)
NoLostUpdate ==
    \A c \in Client :
        job[c].step = "write" /\ job[c].base # NoRound /\ Guarded(job[c])
            => /\ rounds[job[c].base].facts = job[c].seen
               /\ rounds[job[c].base].scope = job[c].scope

(* The profile status the library lists is the one its rounds in progress   *)
(* project, after every transaction that adds, edits or archives one.       *)
ProfileProjection ==
    \/ profile = "absent" /\ Live = {}
    \/ Projects(rounds, fresh, profile)

(* completed_at is set on the completed rounds and on no other, whichever   *)
(* of the four writers (edit, progress, rewatch, sync) wrote the row.       *)
CompletionDated ==
    \A i \in RoundId : rounds[i].state \in {"current", "archived"} =>
        (rounds[i].facts.status = "completed" <=> rounds[i].facts.done # Never)

(* A completed movie round keeps an event at its completion time: the       *)
(* calendar and the statistics, which read events, show the completion.     *)
CompletedMovieHasEvent ==
    \A i \in RoundId :
        IsStored(i, Movie) /\ rounds[i].facts.status = "completed"
            => \E e \in EventsOf(i) : e.at = rounds[i].facts.done

(* Progress and history agree: a marked episode is backed by an event of    *)
(* its round at the same instant, and a manual episode event exists only    *)
(* while its mark does.                                                     *)
ProgressMatchesEvents ==
    /\ \A p \in progress : \E e \in events : Backs(e, p) /\ e.at = p.at
    /\ \A e \in events : e.ep # NoEpisode /\ e.source = "manual"
                            => \E p \in progress : Backs(e, p)

(* Archived rounds are history: no request in flight, sync or rewatch       *)
(* changes the row, the events or the progress of one; it can only be       *)
(* deleted, with all it owns.                                               *)
ArchivedImmutable ==
    [][\A i \in RoundId : rounds[i].state = "archived" =>
          IF rounds'[i] = Deleted
          THEN EventsOf(i)' = {} /\ ProgressOf(i)' = {}
          ELSE /\ rounds'[i] = rounds[i]
               /\ EventsOf(i)' = EventsOf(i)
               /\ ProgressOf(i)' = ProgressOf(i)]_vars

(* The plays of round i that sync recorded and nobody took over. *)
SyncedPlays(i) == {<<e.ep, e.ext>> : e \in {o \in EventsOf(i) : o.source # "manual"}}

(* What the user wrote outranks sync: a round once edited by hand stays     *)
(* manual, and no synced play enters it.                                    *)
ManualStays ==
    [][\A i \in RoundId :
          rounds[i].state = "current" /\ rounds[i].facts.source = "manual" =>
             /\ rounds'[i] = Deleted \/ rounds'[i].facts.source = "manual"
             /\ SyncedPlays(i)' \subseteq SyncedPlays(i)]_vars

(* The store implements the ledger of RoundLedger.tla. *)
Ledger == INSTANCE RoundLedger WITH RoundId <- RoundId, Scope <- Scope, Number <- Number,
                                    Fact <- Fact, rounds <- rounds
LedgerSpec == Ledger!Spec

(* The plays of external events as sync knows them, and the movies and      *)
(* episodes whose round in progress the user wrote.                         *)
ByHand(row) == row.facts.source \in {"manual", "confirmed_import"}
PlayOf(e) ==
    [event |-> e.ext, target |-> <<rounds[e.round].scope, e.ep>>, source |-> e.source]
Plays == {PlayOf(e) : e \in {o \in events : o.ext # NoExt}}
Held == {t \in Scope \X (Episode \cup {NoEpisode}) :
            \E i \in RoundId : IsCurrent(i, t[1]) /\ ByHand(rounds[i])}

(* What the rounds and sync promise each other, PlayBook.tla: every request *)
(* on rounds is an edit by hand or a removal, at all the episodes of the    *)
(* round it writes, and nothing but ApplySyncedWatch records a play.        *)
Book == INSTANCE PlayBook WITH Event <- ExtId, Target <- Scope \X (Episode \cup {NoEpisode}),
                               plays <- Plays, held <- Held
BookSpec == Book!Spec
=============================================================================
