---------------------------- MODULE RoundsProofs ----------------------------
(* Theorems about Rounds, for every value of its constants. *)
EXTENDS Rounds, TLAPS, FiniteSetTheorems

-----------------------------------------------------------------------------
(* Rows *)

(* A stored round is a row; the two other values are not stored. *)
LEMMA StoredIsRow ==
    ASSUME TypeOK, NEW i \in RoundId, rounds[i].state \in {"current", "archived"}
    PROVE  rounds[i] \in Row
BY DEF TypeOK, Unused, Deleted

(* A new row is a row. *)
LEMMA NewRowType ==
    ASSUME NEW s \in Scope, NEW n \in Number, NEW f \in Fact
    PROVE  NewRow(s, n, f) \in Row
BY DEF NewRow, Row

(* Rewriting and archiving keep a row a row. *)
LEMMA RowWrites ==
    ASSUME NEW row \in Row, NEW f \in Fact
    PROVE  /\ \A v \in Nat : Rewritten(row, v + 1, f) \in Row
           /\ Revised(row, f) \in Row
           /\ Archived(row) \in Row
<1>1. \A v \in Nat : Rewritten(row, v + 1, f) \in Row
  BY DEF Rewritten, Row
<1>2. Revised(row, f) \in Row
  BY DEF Revised, Rewritten, Row
<1>3. Archived(row) \in Row
  BY DEF Archived, Row
<1> QED  BY <1>1, <1>2, <1>3

LEMMA EmptyFactType ==
    /\ EmptyFact("manual") \in Fact
    /\ [EmptyFact("manual") EXCEPT !.status = "watching"] \in Fact
BY DEF EmptyFact, Fact, Status, Source

-----------------------------------------------------------------------------
(* Dates: what a completed round carries. *)

(* completed exactly when dated *)
Dated(f) == f.status = "completed" <=> f.done # Never

(* The writes prepared by requests are dated; with it, TypeOK is inductive: *)
(* the event of a completed movie takes its time from the row.              *)
PreparedDated == \A c \in Client : job[c].step = "write" => Dated(job[c].next)

TypeInv == TypeOK /\ PreparedDated

LEMMA OverwriteDated ==
    ASSUME NEW f \in Fact, NEW in, in.status \in Status, in.at \in Time \cup {Never},
           in.review \in Review \cup {NoReview}, Acceptable(f, in)
    PROVE  Overwrite(f, in) \in Fact /\ Dated(Overwrite(f, in))
BY DEF Overwrite, Fact, Acceptable, Dated, Source, Status

(* A request's reads prepare a write of the right type, with its date. *)
LEMMA ReadForUpdateType ==
    ASSUME TypeInv, NEW c \in Client, NEW s \in Scope, NEW in, NEW expected \in Nat,
           in.status \in Status, in.at \in Time \cup {Never},
           in.review \in Review \cup {NoReview}, ReadForUpdate(c, s, in, expected)
    PROVE  \E j \in WriteJob : /\ job' = [job EXCEPT ![c] = j]
                               /\ Dated(j.next)
<1>1. CASE \E i \in RoundId :
             /\ IsCurrent(i, s)
             /\ Acceptable(rounds[i].facts, in)
             /\ job' = [job EXCEPT ![c] =
                   Prepared(s, i, expected, rounds[i].facts, Overwrite(rounds[i].facts, in))]
  <2>1. PICK i \in RoundId :
             /\ IsCurrent(i, s)
             /\ Acceptable(rounds[i].facts, in)
             /\ job' = [job EXCEPT ![c] =
                   Prepared(s, i, expected, rounds[i].facts, Overwrite(rounds[i].facts, in))]
    BY <1>1
  <2>2. rounds[i].facts \in Fact
    BY <2>1, StoredIsRow DEF IsCurrent, Row, TypeInv
  <2>3. Overwrite(rounds[i].facts, in) \in Fact /\ Dated(Overwrite(rounds[i].facts, in))
    BY <2>1, <2>2, OverwriteDated
  <2>4. Prepared(s, i, expected, rounds[i].facts, Overwrite(rounds[i].facts, in)) \in WriteJob
    BY <2>2, <2>3 DEF Prepared, WriteJob
  <2> QED  BY <2>1, <2>3, <2>4 DEF Prepared
<1>2. CASE /\ Acceptable(EmptyFact("manual"), in)
           /\ job' = [job EXCEPT ![c] =
                 Prepared(s, NoRound, 0, EmptyFact("manual"),
                          Overwrite(EmptyFact("manual"), in))]
  <2>1. /\ Overwrite(EmptyFact("manual"), in) \in Fact
        /\ Dated(Overwrite(EmptyFact("manual"), in))
    BY <1>2, EmptyFactType, OverwriteDated
  <2>2. Prepared(s, NoRound, 0, EmptyFact("manual"),
                 Overwrite(EmptyFact("manual"), in)) \in WriteJob
    BY <2>1, EmptyFactType DEF Prepared, WriteJob
  <2> QED  BY <1>2, <2>1, <2>2 DEF Prepared
<1> QED  BY <1>1, <1>2 DEF ReadForUpdate

-----------------------------------------------------------------------------
(* Type correctness, action by action *)

(* The projection leaves a status in the profile. *)
LEMMA ProjectType ==
    ASSUME NEW i \in RoundId, fresh \subseteq RoundId, ProjectMediaProfile(i)
    PROVE  fresh' \subseteq RoundId /\ profile' \in Status \cup {"absent"}
BY DEF ProjectMediaProfile, Written

(* The movie event takes source and time from a dated row. *)
LEMMA MovieEventType ==
    ASSUME events \subseteq Event, NEW i \in RoundId, NEW s \in Scope, NEW f \in Fact,
           Dated(f), SyncMovieRoundEvent(i, s, f)
    PROVE  events' \subseteq Event
<1> DEFINE own == EventsOf(i)
           new == [round |-> i, ep |-> NoEpisode, ext |-> NoExt,
                   source |-> f.source, at |-> f.done, full |-> TRUE]
<1>1. CASE events' \subseteq events
  BY <1>1
<1>2. CASE f.status = "completed" /\ events' = events \cup {new}
  <2>1. f.done \in Time /\ f.source \in Source
    BY <1>2 DEF Dated, Fact
  <2>2. new \in Event
    BY <2>1 DEF Event
  <2> QED  BY <1>2, <2>2
<1>3. ASSUME NEW e \in own, f.status = "completed",
             events' = (events \ {e}) \cup {[e EXCEPT !.at = f.done, !.source = f.source]}
      PROVE  events' \subseteq Event
  <2>1. f.done \in Time /\ f.source \in Source /\ e \in Event
    BY <1>3 DEF Dated, Fact, EventsOf
  <2>2. [e EXCEPT !.at = f.done, !.source = f.source] \in Event
    BY <2>1 DEF Event
  <2> QED  BY <1>3, <2>2
<1> QED  BY <1>1, <1>2, <1>3 DEF SyncMovieRoundEvent

LEMMA BeginUpdateType ==
    ASSUME TypeInv, NEW c \in Client, BeginUpdate(c)
    PROVE  TypeInv'
<1>1. PICK s \in Scope, in \in Input, expected \in 0..(MaxVersion - 1) :
         ReadForUpdate(c, s, in, expected)
  BY DEF BeginUpdate
<1>2. /\ in.status \in Status /\ in.at \in Time \cup {Never}
      /\ in.review \in Review \cup {NoReview}
  BY DataAssumption DEF Input
<1>3. expected \in Nat
  BY BoundAssumption
<1>4. PICK j \in WriteJob : job' = [job EXCEPT ![c] = j] /\ Dated(j.next)
  BY <1>1, <1>2, <1>3, ReadForUpdateType
<1>5. UNCHANGED <<rounds, events, progress, catalog, fresh, profile>>
  BY DEF BeginUpdate
<1> QED  BY <1>4, <1>5 DEF TypeInv, TypeOK, PreparedDated

(* A request that only returns to idle keeps every type. *)
LEMMA IdleType ==
    ASSUME TypeInv, NEW c \in Client, job' = [job EXCEPT ![c] = Idle]
    PROVE  /\ job' \in [Client -> {Idle} \cup WriteJob \cup ClearJob \cup ProgressJob]
           /\ PreparedDated'
BY DEF TypeInv, TypeOK, PreparedDated, Idle

LEMMA BeginClearType ==
    ASSUME TypeInv, NEW c \in Client, BeginClear(c)
    PROVE  TypeInv'
<1>1. PICK i \in Live, expected \in 0..(MaxVersion - 1) :
         job' = [job EXCEPT ![c] =
                   [step |-> "clear", scope |-> rounds[i].scope,
                    status |-> rounds[i].facts.status, at |-> rounds[i].facts.done,
                    expected |-> expected]]
  BY DEF BeginClear
<1> DEFINE j == [step |-> "clear", scope |-> rounds[i].scope,
                 status |-> rounds[i].facts.status, at |-> rounds[i].facts.done,
                 expected |-> expected]
<1>2. i \in RoundId /\ rounds[i] \in Row
  BY StoredIsRow DEF Live, TypeInv
<1>3. rounds[i].scope \in Scope /\ rounds[i].facts \in Fact
  BY <1>2 DEF Row
<1>4. rounds[i].facts.status \in Status /\ rounds[i].facts.done \in Time \cup {Never}
  BY <1>3 DEF Fact
<1>5. expected \in Nat
  BY BoundAssumption
<1>6. j \in ClearJob
  BY <1>3, <1>4, <1>5 DEF ClearJob
<1>7. UNCHANGED <<rounds, events, progress, catalog, fresh, profile>>
  BY DEF BeginClear
<1>8. job' = [job EXCEPT ![c] = j]
  BY <1>1
<1> HIDE DEF j
<1>9. j.step = "clear"
  BY <1>6 DEF ClearJob
<1> QED  BY <1>6, <1>7, <1>8, <1>9 DEF TypeInv, TypeOK, PreparedDated

LEMMA ClearReadsType ==
    ASSUME TypeInv, NEW c \in Client, ClearReads(c)
    PROVE  TypeInv'
<1> DEFINE in == [status |-> job[c].status, at |-> job[c].at,
                  review |-> NoReview, touch |-> FALSE]
<1>1. job[c] \in ClearJob
  BY DEF ClearReads, TypeInv, TypeOK, Idle, WriteJob, ProgressJob
<1>2. UNCHANGED <<rounds, events, progress, catalog, fresh, profile>>
  BY DEF ClearReads
<1>3. CASE ReadForUpdate(c, job[c].scope, in, job[c].expected)
  <2>1. /\ in.status \in Status /\ in.at \in Time \cup {Never}
        /\ in.review \in Review \cup {NoReview}
        /\ job[c].scope \in Scope /\ job[c].expected \in Nat
    BY <1>1 DEF ClearJob
  <2>2. PICK j \in WriteJob : job' = [job EXCEPT ![c] = j] /\ Dated(j.next)
    BY <1>3, <2>1, ReadForUpdateType
  <2> QED  BY <1>2, <2>2 DEF TypeInv, TypeOK, PreparedDated
<1>4. CASE job' = [job EXCEPT ![c] = Idle]
  BY <1>2, <1>4, IdleType DEF TypeInv, TypeOK
<1> QED  BY <1>3, <1>4 DEF ClearReads

LEMMA InsertRoundType ==
    ASSUME TypeInv, NEW c \in Client, InsertRound(c)
    PROVE  TypeInv'
<1>1. PICK i \in RoundId :
         /\ CanInsert(job[c].scope, 1)
         /\ rounds' = [rounds EXCEPT ![i] = NewRow(job[c].scope, 1, job[c].next)]
         /\ SyncMovieRoundEvent(i, job[c].scope, job[c].next)
         /\ ProjectMediaProfile(i)
  BY DEF InsertRound
<1>2. job[c] \in WriteJob /\ Dated(job[c].next)
  BY DEF InsertRound, TypeInv, TypeOK, PreparedDated, Idle, ClearJob, ProgressJob
<1>3. job[c].scope \in Scope /\ job[c].next \in Fact
  BY <1>2 DEF WriteJob
<1>4. events' \subseteq Event
  BY <1>1, <1>2, <1>3, MovieEventType DEF TypeInv, TypeOK
<1>5. NewRow(job[c].scope, 1, job[c].next) \in Row
  BY <1>3, BoundAssumption, NewRowType DEF Number
<1>6. fresh' \subseteq RoundId /\ profile' \in Status \cup {"absent"}
  BY <1>1, ProjectType DEF TypeInv, TypeOK
<1>7. job' = [job EXCEPT ![c] = Idle] /\ UNCHANGED <<progress, catalog>>
  BY DEF InsertRound
<1> QED  BY <1>1, <1>4, <1>5, <1>6, <1>7, IdleType DEF TypeInv, TypeOK

LEMMA UpdateRoundType ==
    ASSUME TypeInv, NEW c \in Client, UpdateRound(c)
    PROVE  TypeInv'
<1>1. /\ Guarded(job[c])
      /\ rounds' = [rounds EXCEPT ![job[c].base] =
                      Rewritten(rounds[job[c].base], job[c].version + 1, job[c].next)]
      /\ SyncMovieRoundEvent(job[c].base, job[c].scope, job[c].next)
      /\ ProjectMediaProfile(job[c].base)
      /\ job' = [job EXCEPT ![c] = Idle]
      /\ UNCHANGED <<progress, catalog>>
  BY DEF UpdateRound
<1>2. job[c] \in WriteJob /\ Dated(job[c].next)
  BY DEF UpdateRound, TypeInv, TypeOK, PreparedDated, Idle, ClearJob, ProgressJob
<1>3. /\ job[c].scope \in Scope /\ job[c].next \in Fact
      /\ job[c].base \in RoundId /\ job[c].version \in Nat
  BY <1>2 DEF WriteJob, UpdateRound
<1>4. events' \subseteq Event
  BY <1>1, <1>2, <1>3, MovieEventType DEF TypeInv, TypeOK
<1>5. rounds[job[c].base] \in Row
  BY <1>1, <1>3, StoredIsRow DEF Guarded, TypeInv
<1>6. Rewritten(rounds[job[c].base], job[c].version + 1, job[c].next) \in Row
  BY <1>3, <1>5 DEF Rewritten, Row
<1>7. fresh' \subseteq RoundId /\ profile' \in Status \cup {"absent"}
  BY <1>1, <1>3, ProjectType DEF TypeInv, TypeOK
<1> QED  BY <1>1, <1>3, <1>4, <1>6, <1>7, IdleType DEF TypeInv, TypeOK

LEMMA WriteRefusedType ==
    ASSUME TypeInv, NEW c \in Client, WriteRefused(c) \/ ProgressRefused(c)
    PROVE  TypeInv'
BY IdleType DEF WriteRefused, ProgressRefused, TypeInv, TypeOK

LEMMA StartRewatchType ==
    ASSUME TypeInv, StartRewatch
    PROVE  TypeInv'
<1> DEFINE next == [EmptyFact("manual") EXCEPT !.status = "watching"]
<1>1. PICK i \in RoundId, k \in RoundId :
         /\ rounds[i].state = "current"
         /\ rounds[i].number < MaxNumber
         /\ rounds' = [rounds EXCEPT ![i] = Archived(rounds[i]),
                           ![k] = NewRow(rounds[i].scope, rounds[i].number + 1, next)]
         /\ ProjectMediaProfile(k)
  BY DEF StartRewatch
<1>2. rounds[i] \in Row
  BY <1>1, StoredIsRow DEF TypeInv
<1>3. rounds[i].scope \in Scope /\ rounds[i].number + 1 \in Number
  BY <1>1, <1>2, BoundAssumption DEF Row, Number
<1>4. NewRow(rounds[i].scope, rounds[i].number + 1, next) \in Row
  BY <1>3, EmptyFactType, NewRowType
<1>5. Archived(rounds[i]) \in Row
  BY <1>2 DEF Archived, Row
<1>6. fresh' \subseteq RoundId /\ profile' \in Status \cup {"absent"}
  BY <1>1, ProjectType DEF TypeInv, TypeOK
<1>7. UNCHANGED <<events, progress, catalog, job>>
  BY DEF StartRewatch
<1>8. rounds' \in [RoundId -> Row \cup {Unused, Deleted}]
  BY <1>1, <1>4, <1>5 DEF TypeInv, TypeOK
<1> QED  BY <1>6, <1>7, <1>8 DEF TypeInv, TypeOK, PreparedDated

LEMMA DeleteArchivedType ==
    ASSUME TypeInv, DeleteArchivedRound
    PROVE  TypeInv'
BY DEF DeleteArchivedRound, Cascade, TypeInv, TypeOK, PreparedDated

LEMMA RemoveFromLibraryType ==
    ASSUME TypeInv, RemoveFromLibrary
    PROVE  TypeInv'
BY DEF RemoveFromLibrary, Cascade, Live, TypeInv, TypeOK, PreparedDated, Status

LEMMA BeginProgressType ==
    ASSUME TypeInv, NEW c \in Client, BeginProgress(c)
    PROVE  TypeInv'
<1>1. PICK s \in Season, action \in Action, targets \in SUBSET Episode, at \in Time,
           refs \in BOOLEAN, version \in 0..(MaxVersion - 1) :
         /\ VersionOf(s, version)
         /\ IF refs THEN Refers(action, targets) ELSE Selects(s, action, targets)
         /\ job' = [job EXCEPT ![c] =
                   [step |-> "progress", scope |-> s, version |-> version,
                    change |-> IF action \in {"undo", "set_time"} THEN action ELSE "mark",
                    targets |-> targets, at |-> at,
                    total |-> IF refs THEN SeasonSize ELSE 0]]
  BY Zenon DEF BeginProgress
<1> DEFINE j == [step |-> "progress", scope |-> s, version |-> version,
                 change |-> IF action \in {"undo", "set_time"} THEN action ELSE "mark",
                 targets |-> targets, at |-> at,
                 total |-> IF refs THEN SeasonSize ELSE 0]
<1>2. version \in Nat /\ SeasonSize \in Nat
  BY BoundAssumption, DataAssumption
<1>3. j \in ProgressJob
  BY <1>2 DEF ProgressJob
<1>4. job' = [job EXCEPT ![c] = j]
  BY <1>1
<1>5. UNCHANGED <<rounds, events, progress, catalog, fresh, profile>>
  BY DEF BeginProgress
<1> HIDE DEF j
<1>6. j.step = "progress"
  BY <1>3 DEF ProgressJob
<1> QED  BY <1>3, <1>4, <1>5, <1>6 DEF TypeInv, TypeOK, PreparedDated

(* Undoing, retiming and marking episodes keep rows and events well typed. *)
LEMMA ApplyToType ==
    ASSUME events \subseteq Event, progress \subseteq Progress,
           NEW i \in RoundId, NEW j \in ProgressJob, ApplyTo(i, j)
    PROVE  events' \subseteq Event /\ progress' \subseteq Progress
<1>1. j.targets \subseteq Episode /\ j.at \in Time
  BY DEF ProgressJob
<1>2. Rows(i, j.targets, j.at) \subseteq Progress
  BY <1>1 DEF Rows, Progress
<1>3. {EventOf(p, "manual") : p \in Rows(i, j.targets, j.at)} \subseteq Event
  <2>1. \A p \in Progress : EventOf(p, "manual") \in Event
    BY DEF EventOf, Event, Progress, Source
  <2> QED  BY <1>2, <2>1
<1>4. CASE Undo(i, j.targets)
  BY <1>4 DEF Undo
<1>5. CASE SetTime(i, j.targets, j.at)
  <2>1. \A p \in Progress : [p EXCEPT !.at = j.at] \in Progress
    BY <1>1 DEF Progress
  <2>2. \A e \in Event : [e EXCEPT !.at = j.at] \in Event
    BY <1>1 DEF Event
  <2>3. progress' \subseteq Progress
    BY <1>2, <1>5, <2>1 DEF SetTime, Stored, ProgressOf
  <2>4. {IF \E p \in Stored(i, j.targets) : Backs(e, p)
           THEN [e EXCEPT !.at = j.at] ELSE e : e \in events} \subseteq Event
    BY <2>2
  <2>5. events' \subseteq Event
    BY <1>3, <1>5, <2>4 DEF SetTime
  <2> QED  BY <2>3, <2>5
<1>6. CASE Mark(i, j.targets, j.at)
  BY <1>2, <1>3, <1>6 DEF Mark
<1> QED  BY <1>4, <1>5, <1>6 DEF ApplyTo

LEMMA ApplyProgressType ==
    ASSUME TypeInv, NEW c \in Client, ApplySeasonEpisodeProgress(c)
    PROVE  TypeInv'
<1> DEFINE j == job[c]
<1>1. j \in ProgressJob
  BY DEF ApplySeasonEpisodeProgress, EnsureEpisodeIdentities, TypeInv, TypeOK, Idle, WriteJob, ClearJob
<1>2. j.scope \in Season /\ j.scope \in Scope /\ j.targets \subseteq Episode
  BY <1>1 DEF ProgressJob, Season
<1>3. catalog' \in [Season -> SUBSET Episode]
  BY <1>2 DEF ApplySeasonEpisodeProgress, EnsureEpisodeIdentities, TypeInv, TypeOK
<1>4. job' = [job EXCEPT ![c] = Idle]
  BY DEF ApplySeasonEpisodeProgress, EnsureEpisodeIdentities
<1>5. ASSUME NEW i \in RoundId, ReviseByProgress(i, j)
      PROVE  TypeOK'
  <2>1. events' \subseteq Event /\ progress' \subseteq Progress
    BY <1>1, <1>5, ApplyToType DEF ReviseByProgress, TypeInv, TypeOK
  <2>2. CASE UNCHANGED <<rounds, fresh, profile>>
    BY <1>3, <1>4, <2>1, <2>2, IdleType DEF TypeInv, TypeOK
  <2>3. CASE /\ \E f \in Fact : rounds' = [rounds EXCEPT ![i] = Revised(rounds[i], f)]
             /\ ProjectMediaProfile(i)
    <3>1. rounds[i] \in Row
      BY <1>5, StoredIsRow DEF ReviseByProgress, IsCurrent, TypeInv
    <3>2. rounds' \in [RoundId -> Row \cup {Unused, Deleted}]
      BY <2>3, <3>1, RowWrites DEF TypeInv, TypeOK
    <3>3. fresh' \subseteq RoundId /\ profile' \in Status \cup {"absent"}
      BY <2>3, ProjectType DEF TypeInv, TypeOK
    <3> QED  BY <1>3, <1>4, <2>1, <3>2, <3>3, IdleType DEF TypeInv, TypeOK
  <2> QED  BY <1>5, <2>2, <2>3 DEF ReviseByProgress
<1>6. ASSUME NEW i \in RoundId, OpenByProgress(i, j)
      PROVE  TypeOK'
  <2>1. events' \subseteq Event /\ progress' \subseteq Progress
    BY <1>1, <1>6, ApplyToType DEF OpenByProgress, TypeInv, TypeOK
  <2>2. PICK n \in Number, f \in Fact : rounds' = [rounds EXCEPT ![i] = NewRow(j.scope, n, f)]
    BY <1>6 DEF OpenByProgress
  <2>3. rounds' \in [RoundId -> Row \cup {Unused, Deleted}]
    BY <1>2, <2>2, NewRowType DEF TypeInv, TypeOK
  <2>4. fresh' \subseteq RoundId /\ profile' \in Status \cup {"absent"}
    BY <1>6, ProjectType DEF OpenByProgress, TypeInv, TypeOK
  <2> QED  BY <1>3, <1>4, <2>1, <2>3, <2>4, IdleType DEF TypeInv, TypeOK
<1>7. ASSUME UndoNothing(j)
      PROVE  TypeOK'
  BY <1>3, <1>4, <1>7, IdleType DEF UndoNothing, TypeInv, TypeOK
<1>8. \/ \E i \in RoundId : ReviseByProgress(i, j) \/ OpenByProgress(i, j)
      \/ UndoNothing(j)
  BY DEF ApplySeasonEpisodeProgress, EnsureEpisodeIdentities
<1>9. TypeOK'
  BY <1>5, <1>6, <1>7, <1>8
<1> QED  BY <1>4, <1>9, IdleType DEF TypeInv

(* A synced play adds a well-typed event and at most one progress row. *)
LEMMA RecordPlayType ==
    ASSUME events \subseteq Event, progress \subseteq Progress,
           NEW i \in RoundId, NEW ep \in Episode \cup {NoEpisode}, NEW x \in ExtId,
           NEW at \in Time, NEW full \in BOOLEAN, RecordPlay(i, ep, x, at, full)
    PROVE  events' \subseteq Event /\ progress' \subseteq Progress
<1>1. [round |-> i, ep |-> ep, ext |-> x, source |-> "confirmed_sync",
       at |-> at, full |-> full] \in Event
  BY DEF Event, Source
<1>2. ep # NoEpisode => [round |-> i, ep |-> ep, ext |-> x, at |-> at] \in Progress
  BY DEF Progress
<1> QED  BY <1>1, <1>2 DEF RecordPlay

LEMMA ApplySyncedWatchType ==
    ASSUME TypeInv, ApplySyncedWatch
    PROVE  TypeInv'
<1>1. PICK s \in Scope, ep \in Episode \cup {NoEpisode}, x \in ExtId, at \in Time,
           full \in BOOLEAN, i \in RoundId, k \in RoundId :
         \/ SyncInto(i, s, ep, x, at, full)
         \/ SyncOpens(k, s, ep, x, at, full)
         \/ SyncRollsOver(i, k, s, ep, x, at, full)
  BY DEF ApplySyncedWatch
<1>2. UNCHANGED <<catalog, job>>
  BY DEF ApplySyncedWatch
<1>3. events' \subseteq Event /\ progress' \subseteq Progress
  BY <1>1, RecordPlayType DEF SyncInto, SyncOpens, SyncRollsOver, TypeInv, TypeOK
<1>4. fresh' \subseteq RoundId /\ profile' \in Status \cup {"absent"}
  BY <1>1, ProjectType DEF SyncInto, SyncOpens, SyncRollsOver, TypeInv, TypeOK
<1>5. CASE SyncInto(i, s, ep, x, at, full)
  <2>1. rounds[i] \in Row
    BY <1>5, StoredIsRow DEF SyncInto, IsCurrent, TypeInv
  <2>2. PICK f \in Fact : rounds' = [rounds EXCEPT ![i] = Revised(rounds[i], f)]
    BY <1>5 DEF SyncInto
  <2>3. rounds' \in [RoundId -> Row \cup {Unused, Deleted}]
    BY <2>1, <2>2, RowWrites DEF TypeInv, TypeOK
  <2> QED  BY <1>2, <1>3, <1>4, <2>3 DEF TypeInv, TypeOK, PreparedDated
<1>6. CASE SyncOpens(k, s, ep, x, at, full)
  <2>1. PICK n \in Number, f \in Fact : rounds' = [rounds EXCEPT ![k] = NewRow(s, n, f)]
    BY <1>6 DEF SyncOpens
  <2>2. rounds' \in [RoundId -> Row \cup {Unused, Deleted}]
    BY <2>1, NewRowType DEF TypeInv, TypeOK
  <2> QED  BY <1>2, <1>3, <1>4, <2>2 DEF TypeInv, TypeOK, PreparedDated
<1>7. CASE SyncRollsOver(i, k, s, ep, x, at, full)
  <2>1. rounds[i] \in Row
    BY <1>7, StoredIsRow DEF SyncRollsOver, IsCurrent, TypeInv
  <2>2. PICK n \in Number, f \in Fact :
           rounds' = [rounds EXCEPT ![i] = Archived(rounds[i]), ![k] = NewRow(s, n, f)]
    BY <1>7 DEF SyncRollsOver
  <2>3. Archived(rounds[i]) \in Row /\ NewRow(s, n, f) \in Row
    BY <2>1, <2>2, NewRowType, RowWrites
  <2>4. rounds' \in [RoundId -> Row \cup {Unused, Deleted}]
    BY <2>2, <2>3 DEF TypeInv, TypeOK
  <2> QED  BY <1>2, <1>3, <1>4, <2>4 DEF TypeInv, TypeOK, PreparedDated
<1> QED  BY <1>1, <1>5, <1>6, <1>7

(* Every reachable state is well typed, and every prepared write is dated. *)
LEMMA TypeInvInductive == Spec => []TypeInv
<1>1. Init => TypeInv
  BY DEF Init, TypeInv, TypeOK, PreparedDated, Idle
<1>2. TypeInv /\ [Next]_vars => TypeInv'
  <2> SUFFICES ASSUME TypeInv, [Next]_vars PROVE TypeInv'
    OBVIOUS
  <2>1. ASSUME NEW c \in Client, Request(c) PROVE TypeInv'
    BY <2>1, BeginUpdateType, InsertRoundType, UpdateRoundType, WriteRefusedType,
       BeginClearType, ClearReadsType, BeginProgressType, ApplyProgressType
       DEF Request
  <2>2. CASE UNCHANGED vars
    BY <2>2 DEF vars, TypeInv, TypeOK, PreparedDated
  <2> QED  BY <2>1, <2>2, StartRewatchType, DeleteArchivedType, RemoveFromLibraryType,
              ApplySyncedWatchType DEF Next
<1> QED  BY <1>1, <1>2, PTL DEF Spec

(* Type correctness, for any clients, rounds, scopes and bounds. *)
THEOREM TypeCorrect == Spec => []TypeOK
<1>1. TypeInv => TypeOK
  BY DEF TypeInv
<1> QED  BY <1>1, TypeInvInductive, PTL

-----------------------------------------------------------------------------
(* Refinement: every step is a ledger step or leaves the rounds alone. *)

LEMMA InsertIsCreate ==
    ASSUME TypeInv, NEW c \in Client, InsertRound(c)
    PROVE  Ledger!Create
<1>1. PICK i \in RoundId :
         /\ rounds[i] = Unused
         /\ CanInsert(job[c].scope, 1)
         /\ rounds' = [rounds EXCEPT ![i] = NewRow(job[c].scope, 1, job[c].next)]
  BY DEF InsertRound
<1>2. job[c] \in WriteJob
  BY DEF InsertRound, TypeInv, TypeOK, Idle, ClearJob, ProgressJob
<1>3. job[c].scope \in Scope /\ job[c].next \in Fact /\ 1 \in Number
  BY <1>2, BoundAssumption DEF WriteJob, Number
<1> QED
  BY <1>1, <1>3 DEF Ledger!Create, CanInsert, NoCurrent, NumberFree, IsCurrent, IsStored,
     Ledger!IsCurrent, Ledger!IsStored, Unused, Ledger!Unused, NewRow, Ledger!NewRow

LEMMA UpdateIsRevise ==
    ASSUME TypeInv, NEW c \in Client, UpdateRound(c)
    PROVE  Ledger!Revise
<1>1. /\ Guarded(job[c])
      /\ rounds' = [rounds EXCEPT ![job[c].base] =
                      Rewritten(rounds[job[c].base], job[c].version + 1, job[c].next)]
  BY DEF UpdateRound
<1>2. job[c] \in WriteJob /\ job[c].base # NoRound
  BY DEF UpdateRound, TypeInv, TypeOK, Idle, ClearJob, ProgressJob
<1>3. job[c].base \in RoundId /\ job[c].next \in Fact
  BY <1>2 DEF WriteJob
<1> QED
  BY <1>1, <1>3 DEF Guarded, Ledger!Revise, Ledger!Revised, Rewritten

LEMMA RewatchIsRollover ==
    ASSUME TypeInv, StartRewatch
    PROVE  Ledger!Rollover
<1> DEFINE next == [EmptyFact("manual") EXCEPT !.status = "watching"]
<1>1. PICK i \in RoundId, k \in RoundId :
         /\ rounds[i].state = "current"
         /\ rounds[i].number < MaxNumber
         /\ rounds[k] = Unused
         /\ NumberFree(rounds[i].scope, rounds[i].number + 1)
         /\ rounds' = [rounds EXCEPT ![i] = Archived(rounds[i]),
                           ![k] = NewRow(rounds[i].scope, rounds[i].number + 1, next)]
  BY DEF StartRewatch
<1>2. rounds[i] \in Row
  BY <1>1, StoredIsRow DEF TypeInv
<1>3. /\ rounds[i].number + 1 \in Number
      /\ rounds[i].number + 1 > rounds[i].number
  BY <1>1, <1>2, BoundAssumption DEF Row, Number
<1>4. next \in Fact
  BY EmptyFactType
<1> HIDE DEF next
<1> QED
  BY <1>1, <1>3, <1>4 DEF Ledger!Rollover, NumberFree, IsStored, Ledger!IsStored, Archived,
     Unused, Ledger!Unused, NewRow, Ledger!NewRow

LEMMA DeleteIsForget ==
    ASSUME DeleteArchivedRound
    PROVE  Ledger!Forget
BY DEF DeleteArchivedRound, Ledger!Forget, Deleted, Ledger!Deleted

LEMMA RemoveIsWithdraw ==
    ASSUME RemoveFromLibrary
    PROVE  Ledger!Withdraw
<1>1. rounds' = [i \in RoundId |-> IF i \in Live THEN Deleted ELSE rounds[i]]
  BY DEF RemoveFromLibrary
<1>2. \A i \in RoundId : i \in Live <=> rounds[i].state = "current"
  BY DEF Live
<1> QED  BY <1>1, <1>2 DEF Ledger!Withdraw, Deleted, Ledger!Deleted

(* The next number is above every stored number of the scope. *)
LEMMA NextNumberFree ==
    ASSUME TypeInv, NEW s \in Scope, NEW n \in Number, IsNextNumber(s, n)
    PROVE  \A i \in RoundId : IsStored(i, s) => n > rounds[i].number /\ rounds[i].number # n
<1> SUFFICES ASSUME NEW i \in RoundId, IsStored(i, s)
             PROVE  n > rounds[i].number /\ rounds[i].number # n
  OBVIOUS
<1>1. rounds[i] \in Row
  BY StoredIsRow DEF IsStored, TypeInv
<1>2. rounds[i].number \in Nat /\ n \in Nat
  BY <1>1, BoundAssumption DEF Row, Number
<1>3. rounds[i].number < n
  BY DEF IsNextNumber
<1> QED  BY <1>2, <1>3

LEMMA ProgressIsLedger ==
    ASSUME TypeInv, NEW c \in Client, ApplySeasonEpisodeProgress(c)
    PROVE  Ledger!Create \/ Ledger!Revise \/ UNCHANGED rounds
<1>1. job[c] \in ProgressJob
  BY DEF ApplySeasonEpisodeProgress, EnsureEpisodeIdentities, TypeInv, TypeOK, Idle, WriteJob, ClearJob
<1>2. job[c].scope \in Scope
  BY <1>1 DEF ProgressJob, Season
<1>3. ASSUME NEW i \in RoundId, ReviseByProgress(i, job[c])
      PROVE  Ledger!Revise \/ UNCHANGED rounds
  <2>1. CASE \E f \in Fact : rounds' = [rounds EXCEPT ![i] = Revised(rounds[i], f)]
    <3>1. rounds[i].state = "current"
      BY <1>3 DEF ReviseByProgress, IsCurrent
    <3> QED  BY <2>1, <3>1 DEF Ledger!Revise, Ledger!Revised, Revised, Rewritten
  <2> QED  BY <1>3, <2>1 DEF ReviseByProgress
<1>4. ASSUME NEW i \in RoundId, OpenByProgress(i, job[c])
      PROVE  Ledger!Create
  <2>1. PICK n \in Number, f \in Fact :
           /\ IsNextNumber(job[c].scope, n)
           /\ rounds' = [rounds EXCEPT ![i] = NewRow(job[c].scope, n, f)]
    BY <1>4 DEF OpenByProgress
  <2>2. \A k \in RoundId : IsStored(k, job[c].scope) => rounds[k].number # n
    BY <1>2, <2>1, NextNumberFree
  <2> QED
    BY <1>2, <1>4, <2>1, <2>2 DEF OpenByProgress, Ledger!Create, NoCurrent, IsCurrent, IsStored,
       Ledger!IsCurrent, Ledger!IsStored, Unused, Ledger!Unused, NewRow, Ledger!NewRow
<1>5. UndoNothing(job[c]) => UNCHANGED rounds
  BY DEF UndoNothing
<1> QED  BY <1>3, <1>4, <1>5 DEF ApplySeasonEpisodeProgress, EnsureEpisodeIdentities

LEMMA SyncIsLedger ==
    ASSUME TypeInv, ApplySyncedWatch
    PROVE  Ledger!Create \/ Ledger!Revise \/ Ledger!Rollover
<1>1. PICK s \in Scope, ep \in Episode \cup {NoEpisode}, x \in ExtId, at \in Time,
           full \in BOOLEAN, i \in RoundId, k \in RoundId :
         \/ SyncInto(i, s, ep, x, at, full)
         \/ SyncOpens(k, s, ep, x, at, full)
         \/ SyncRollsOver(i, k, s, ep, x, at, full)
  BY DEF ApplySyncedWatch
<1>2. CASE SyncInto(i, s, ep, x, at, full)
  BY <1>2 DEF SyncInto, IsCurrent, Ledger!Revise, Ledger!Revised, Revised, Rewritten
<1>3. CASE SyncOpens(k, s, ep, x, at, full)
  <2>1. PICK n \in Number, f \in Fact :
           /\ IsNextNumber(s, n)
           /\ rounds' = [rounds EXCEPT ![k] = NewRow(s, n, f)]
    BY <1>3 DEF SyncOpens
  <2>2. \A m \in RoundId : IsStored(m, s) => rounds[m].number # n
    BY <2>1, NextNumberFree
  <2>3. Ledger!Create
    BY <1>3, <2>1, <2>2 DEF SyncOpens, Ledger!Create, NoCurrent, IsCurrent, IsStored,
       Ledger!IsCurrent, Ledger!IsStored, Unused, Ledger!Unused, NewRow, Ledger!NewRow
  <2> QED  BY <2>3
<1>4. CASE SyncRollsOver(i, k, s, ep, x, at, full)
  <2>1. PICK n \in Number, f \in Fact :
           /\ IsNextNumber(s, n)
           /\ rounds' = [rounds EXCEPT ![i] = Archived(rounds[i]), ![k] = NewRow(s, n, f)]
    BY <1>4 DEF SyncRollsOver
  <2>2. rounds[i].state = "current" /\ rounds[i].scope = s /\ rounds[k] = Unused
    BY <1>4 DEF SyncRollsOver, IsCurrent
  <2>3. /\ n > rounds[i].number
        /\ \A m \in RoundId : IsStored(m, s) => rounds[m].number # n
    BY <2>1, <2>2, NextNumberFree DEF IsStored
  <2>4. Ledger!Rollover
    BY <2>1, <2>2, <2>3 DEF Ledger!Rollover, IsStored, Ledger!IsStored, Archived,
       Unused, Ledger!Unused, NewRow, Ledger!NewRow
  <2> QED  BY <2>4
<1> QED  BY <1>1, <1>2, <1>3, <1>4

LEMMA StepIsLedger ==
    ASSUME TypeInv, [Next]_vars
    PROVE  [Ledger!Next]_rounds
<1>1. ASSUME NEW c \in Client, Request(c) PROVE [Ledger!Next]_rounds
  <2>1. CASE InsertRound(c)
    BY <2>1, InsertIsCreate DEF Ledger!Next
  <2>2. CASE UpdateRound(c)
    BY <2>2, UpdateIsRevise DEF Ledger!Next
  <2>3. CASE ApplySeasonEpisodeProgress(c)
    BY <2>3, ProgressIsLedger DEF Ledger!Next
  <2>4. CASE \/ BeginUpdate(c) \/ WriteRefused(c) \/ BeginClear(c) \/ ClearReads(c)
             \/ BeginProgress(c) \/ ProgressRefused(c)
    BY <2>4 DEF BeginUpdate, WriteRefused, BeginClear, ClearReads, BeginProgress,
       ProgressRefused
  <2> QED  BY <1>1, <2>1, <2>2, <2>3, <2>4 DEF Request
<1>2. CASE UNCHANGED vars
  BY <1>2 DEF vars
<1> QED
  BY <1>1, <1>2, RewatchIsRollover, DeleteIsForget, RemoveIsWithdraw, SyncIsLedger
     DEF Next, Ledger!Next

(* The store implements the ledger: whatever requests, rewatches, removals  *)
(* and synced plays interleave, each write creates, revises, rolls over,    *)
(* forgets or withdraws rounds as RoundLedger allows, and nothing else.     *)
THEOREM RefinesLedger == Spec => LedgerSpec
<1>1. Init => Ledger!Init
  BY DEF Init, Ledger!Init, Unused, Ledger!Unused
<1>2. TypeInv /\ [Next]_vars => [Ledger!Next]_rounds
  BY StepIsLedger
<1> QED  BY <1>1, <1>2, TypeInvInductive, PTL DEF Spec, LedgerSpec, Ledger!Spec

-----------------------------------------------------------------------------
(* What follows from being a ledger. *)

(* After a rollover: one row archived as it was, one new row, the rest kept. *)
LEMMA RolloverRows ==
    ASSUME TypeInv, Ledger!Rollover
    PROVE  \E i, k \in RoundId, n \in Number, f \in Fact :
             /\ rounds[i].state = "current" /\ rounds[i] \in Row
             /\ rounds[k] = Unused
             /\ \A m \in RoundId : IsStored(m, rounds[i].scope) => rounds[m].number # n
             /\ rounds'[i] = [state |-> "archived", scope |-> rounds[i].scope,
                              number |-> rounds[i].number, version |-> rounds[i].version,
                              facts |-> rounds[i].facts]
             /\ rounds'[k] = NewRow(rounds[i].scope, n, f)
             /\ \A m \in RoundId \ {i, k} : rounds'[m] = rounds[m]
<1>a. PICK i \in RoundId, k \in RoundId, n \in Number :
         /\ rounds[i].state = "current"
         /\ rounds[k] = Ledger!Unused
         /\ \A m \in RoundId : Ledger!IsStored(m, rounds[i].scope) => rounds[m].number # n
         /\ \E f \in Fact :
               rounds' = [rounds EXCEPT ![i] = [rounds[i] EXCEPT !.state = "archived"],
                                        ![k] = Ledger!NewRow(rounds[i].scope, n, f)]
  BY DEF Ledger!Rollover
<1>b. PICK f \in Fact :
         rounds' = [rounds EXCEPT ![i] = [rounds[i] EXCEPT !.state = "archived"],
                                  ![k] = Ledger!NewRow(rounds[i].scope, n, f)]
  BY <1>a
<1>1. /\ rounds[i].state = "current"
      /\ rounds[k] = Unused
      /\ \A m \in RoundId : IsStored(m, rounds[i].scope) => rounds[m].number # n
      /\ rounds' = [rounds EXCEPT ![i] = [rounds[i] EXCEPT !.state = "archived"],
                                  ![k] = NewRow(rounds[i].scope, n, f)]
  BY <1>a, <1>b DEF Ledger!IsStored, IsStored, Ledger!Unused, Unused, Ledger!NewRow, NewRow
<1>2. rounds[i] \in Row
  BY <1>1, StoredIsRow DEF TypeInv
<1>3. [rounds[i] EXCEPT !.state = "archived"] =
        [state |-> "archived", scope |-> rounds[i].scope, number |-> rounds[i].number,
         version |-> rounds[i].version, facts |-> rounds[i].facts]
  BY <1>2 DEF Row
<1>4. i # k
  BY <1>1 DEF Unused
<1>5. /\ rounds'[i] = [rounds[i] EXCEPT !.state = "archived"]
      /\ rounds'[k] = NewRow(rounds[i].scope, n, f)
      /\ \A m \in RoundId \ {i, k} : rounds'[m] = rounds[m]
  BY <1>1, <1>4 DEF TypeInv, TypeOK
<1>6. rounds'[i] = [state |-> "archived", scope |-> rounds[i].scope,
                    number |-> rounds[i].number, version |-> rounds[i].version,
                    facts |-> rounds[i].facts]
  BY <1>3, <1>5
<1> WITNESS i \in RoundId, k \in RoundId, n \in Number, f \in Fact
<1> QED  BY <1>1, <1>2, <1>5, <1>6

(* No ledger step gives a scope two current rounds or a number twice. *)
LEMMA LedgerKeepsScopes ==
    ASSUME TypeInv, ScopesConsistent, [Ledger!Next]_rounds
    PROVE  ScopesConsistent'
<1>1. CASE Ledger!Create
  BY <1>1 DEF Ledger!Create, ScopesConsistent, IsCurrent, IsStored, Ledger!IsCurrent,
     Ledger!IsStored, Ledger!NewRow, Ledger!Unused, TypeInv, TypeOK
<1>2. CASE Ledger!Revise
  BY <1>2 DEF Ledger!Revise, Ledger!Revised, ScopesConsistent, IsCurrent, IsStored,
     TypeInv, TypeOK
<1>3. CASE Ledger!Rollover
  <2>1. PICK i \in RoundId, k \in RoundId, n \in Number, f \in Fact :
             /\ rounds[i].state = "current" /\ rounds[i] \in Row
             /\ rounds[k] = Unused
             /\ \A m \in RoundId : IsStored(m, rounds[i].scope) => rounds[m].number # n
             /\ rounds'[i] = [state |-> "archived", scope |-> rounds[i].scope,
                              number |-> rounds[i].number, version |-> rounds[i].version,
                              facts |-> rounds[i].facts]
             /\ rounds'[k] = NewRow(rounds[i].scope, n, f)
             /\ \A m \in RoundId \ {i, k} : rounds'[m] = rounds[m]
    BY <1>3, RolloverRows
  <2>2. /\ rounds'[i].state = "archived" /\ rounds'[i].scope = rounds[i].scope
        /\ rounds'[i].number = rounds[i].number
        /\ rounds'[k].state = "current" /\ rounds'[k].scope = rounds[i].scope
        /\ rounds'[k].number = n
    BY <2>1 DEF NewRow
  <2>3. \A m \in RoundId \ {i, k}, s \in Scope :
           /\ IsCurrent(m, s)' <=> IsCurrent(m, s)
           /\ IsStored(m, s)' <=> IsStored(m, s)
    BY <2>1 DEF IsCurrent, IsStored
  <2>4. \A m \in RoundId : m # i => ~ IsCurrent(m, rounds[i].scope)
    BY <2>1 DEF ScopesConsistent, IsCurrent, Row
  <2> QED  BY <2>1, <2>2, <2>3, <2>4 DEF ScopesConsistent, IsCurrent, IsStored
<1>4. CASE Ledger!Forget
  BY <1>4 DEF Ledger!Forget, ScopesConsistent, IsCurrent, IsStored, Ledger!Deleted,
     TypeInv, TypeOK
<1>5. CASE Ledger!Withdraw
  BY <1>5 DEF Ledger!Withdraw, ScopesConsistent, IsCurrent, IsStored, Ledger!Deleted,
     TypeInv, TypeOK
<1>6. CASE UNCHANGED rounds
  BY <1>6 DEF ScopesConsistent, IsCurrent, IsStored
<1> QED  BY <1>1, <1>2, <1>3, <1>4, <1>5, <1>6 DEF Ledger!Next

(* At every moment a scope has at most one round in progress and its stored *)
(* rounds have different numbers, for any number of requests in flight.     *)
THEOREM ScopesStayConsistent == Spec => []ScopesConsistent
<1>1. Init => ScopesConsistent
  BY DEF Init, ScopesConsistent, IsCurrent, IsStored, Unused
<1>2. TypeInv /\ ScopesConsistent /\ [Next]_vars => ScopesConsistent'
  BY StepIsLedger, LedgerKeepsScopes
<1> QED  BY <1>1, <1>2, TypeInvInductive, PTL DEF Spec

(* What a prepared write knows of its base: the row existed; while current  *)
(* it is at the version read or later, and at that version it says what was *)
(* read.                                                                    *)
BaseKnown(j) ==
    LET row == rounds[j.base] IN
    /\ row # Unused
    /\ row.state = "current" => /\ row.scope = j.scope
                                /\ row.version >= j.version
                                /\ row.version = j.version => row.facts = j.seen

BasesKnown ==
    \A c \in Client : job[c].step = "write" /\ job[c].base # NoRound => BaseKnown(job[c])

(* A ledger step keeps what is known of a base. *)
LEMMA LedgerKeepsBase ==
    ASSUME TypeInv, [Ledger!Next]_rounds, NEW j \in WriteJob, j.base # NoRound, BaseKnown(j)
    PROVE  BaseKnown(j)'
<1>1. j.base \in RoundId /\ j.version \in Nat
  BY DEF WriteJob
<1>2. rounds[j.base].state = "current" => rounds[j.base].version \in Nat
  BY <1>1, StoredIsRow DEF Row, TypeInv
<1>3. CASE Ledger!Create
  BY <1>1, <1>3 DEF Ledger!Create, BaseKnown, Ledger!Unused, Unused, TypeInv, TypeOK
<1>4. CASE Ledger!Revise
  <2>1. PICK i \in RoundId, f \in Fact :
           /\ rounds[i].state = "current"
           /\ rounds' = [rounds EXCEPT ![i] = Ledger!Revised(rounds[i], f)]
    BY <1>4 DEF Ledger!Revise
  <2>2. CASE i # j.base
    BY <1>1, <2>1, <2>2 DEF BaseKnown, TypeInv, TypeOK
  <2>3. CASE i = j.base
    <3>1. rounds'[j.base] = Ledger!Revised(rounds[j.base], f)
      BY <1>1, <2>1, <2>3 DEF TypeInv, TypeOK
    <3>2. rounds'[j.base] # Unused
      BY <2>1, <2>3, <3>1 DEF Ledger!Revised, Unused
    <3>3. /\ rounds'[j.base].scope = j.scope
          /\ rounds'[j.base].version = rounds[j.base].version + 1
          /\ rounds[j.base].version >= j.version
      BY <2>1, <2>3, <3>1 DEF Ledger!Revised, BaseKnown
    <3>4. rounds'[j.base].version >= j.version /\ rounds'[j.base].version # j.version
      BY <1>1, <1>2, <2>1, <2>3, <3>3
    <3> QED  BY <3>2, <3>3, <3>4 DEF BaseKnown
  <2> QED  BY <2>2, <2>3
<1>5. CASE Ledger!Rollover
  <2>1. PICK i \in RoundId, k \in RoundId, n \in Number, f \in Fact :
             /\ rounds[k] = Unused
             /\ rounds'[i] = [state |-> "archived", scope |-> rounds[i].scope,
                              number |-> rounds[i].number, version |-> rounds[i].version,
                              facts |-> rounds[i].facts]
             /\ \A m \in RoundId \ {i, k} : rounds'[m] = rounds[m]
    BY <1>5, RolloverRows
  <2>2. j.base # k
    BY <2>1 DEF BaseKnown
  <2>3. rounds'[i] # Unused /\ rounds'[i].state # "current"
    BY <2>1 DEF Unused
  <2> QED  BY <1>1, <2>1, <2>2, <2>3 DEF BaseKnown
<1>6. CASE Ledger!Forget
  BY <1>1, <1>6 DEF Ledger!Forget, BaseKnown, Ledger!Deleted, Unused, TypeInv, TypeOK
<1>7. CASE Ledger!Withdraw
  BY <1>1, <1>7 DEF Ledger!Withdraw, BaseKnown, Ledger!Deleted, Unused, TypeInv, TypeOK
<1>8. CASE UNCHANGED rounds
  BY <1>8 DEF BaseKnown
<1> QED  BY <1>3, <1>4, <1>5, <1>6, <1>7, <1>8 DEF Ledger!Next

(* A write prepared by this step knows the base it just read. *)
LEMMA PreparedKnowsBase ==
    ASSUME TypeInv, NEW c \in Client, NEW s \in Scope, NEW in, NEW expected \in Nat,
           ReadForUpdate(c, s, in, expected), UNCHANGED rounds,
           job'[c].base # NoRound
    PROVE  BaseKnown(job[c])'
<1>1. PICK i \in RoundId :
         /\ IsCurrent(i, s)
         /\ rounds[i].version = expected
         /\ job' = [job EXCEPT ![c] =
               Prepared(s, i, expected, rounds[i].facts, Overwrite(rounds[i].facts, in))]
  BY DEF ReadForUpdate, Prepared, TypeInv, TypeOK
<1>2. /\ job'[c].base = i /\ job'[c].scope = s
      /\ job'[c].version = expected /\ job'[c].seen = rounds[i].facts
  BY <1>1 DEF Prepared, TypeInv, TypeOK
<1> QED  BY <1>1, <1>2 DEF BaseKnown, IsCurrent, Unused

(* One request moves; the jobs of the others are as they were. *)
LEMMA BasesStayKnown ==
    ASSUME TypeInv, BasesKnown, [Next]_vars
    PROVE  BasesKnown'
<1> SUFFICES ASSUME NEW d \in Client, job'[d].step = "write", job'[d].base # NoRound
             PROVE  BaseKnown(job[d])'
  BY DEF BasesKnown
<1>1. [Ledger!Next]_rounds
  BY StepIsLedger
<1>2. CASE job'[d] = job[d]
  <2>1. job[d] \in WriteJob
    BY <1>2 DEF TypeInv, TypeOK, Idle, ClearJob, ProgressJob
  <2>2. BaseKnown(job[d])
    BY <1>2 DEF BasesKnown
  <2>3. job[d].base # NoRound
    BY <1>2
  <2>4. \A j \in WriteJob : j.base # NoRound /\ BaseKnown(j) =>
          LET row == rounds'[j.base] IN
            /\ row # Unused
            /\ row.state = "current" => /\ row.scope = j.scope
                                        /\ row.version >= j.version
                                        /\ row.version = j.version => row.facts = j.seen
    BY <1>1, LedgerKeepsBase DEF BaseKnown
  <2> QED  BY <1>2, <2>1, <2>2, <2>3, <2>4 DEF BaseKnown
<1>3. CASE job'[d] # job[d]
  <2>1. PICK c \in Client : Request(c)
    BY <1>3 DEF Next, vars, StartRewatch, DeleteArchivedRound, RemoveFromLibrary,
       ApplySyncedWatch
  <2>2. \A j : job' = [job EXCEPT ![c] = j] => c = d /\ job'[d] = j
    BY <1>3 DEF TypeInv, TypeOK
  <2>3. ~ (job' = [job EXCEPT ![c] = Idle])
    BY <2>2 DEF Idle
  <2>4. CASE BeginUpdate(c)
    <3>1. PICK s \in Scope, in \in Input, expected \in 0..(MaxVersion - 1) :
             ReadForUpdate(c, s, in, expected)
      BY <2>4 DEF BeginUpdate
    <3>2. c = d
      BY <2>2, <3>1 DEF ReadForUpdate
    <3>3. expected \in Nat /\ UNCHANGED rounds
      BY <2>4, BoundAssumption DEF BeginUpdate
    <3> QED  BY <3>1, <3>2, <3>3, PreparedKnowsBase
  <2>5. CASE ClearReads(c)
    <3> DEFINE in == [status |-> job[c].status, at |-> job[c].at,
                      review |-> NoReview, touch |-> FALSE]
    <3>1. ReadForUpdate(c, job[c].scope, in, job[c].expected) /\ UNCHANGED rounds
      BY <2>3, <2>5 DEF ClearReads
    <3>2. job[c].scope \in Scope /\ job[c].expected \in Nat
      BY <2>5 DEF ClearReads, TypeInv, TypeOK, Idle, WriteJob, ClearJob, ProgressJob
    <3>3. c = d
      BY <2>2, <3>1 DEF ReadForUpdate
    <3> HIDE DEF in
    <3> QED  BY <3>1, <3>2, <3>3, PreparedKnowsBase
  <2>6. CASE BeginClear(c)
    <3>1. job'[c].step = "clear" /\ (c # d => job'[d] = job[d])
      BY <2>6 DEF BeginClear, TypeInv, TypeOK
    <3> QED  BY <1>3, <3>1
  <2>7. CASE BeginProgress(c)
    <3>1. job'[c].step = "progress" /\ (c # d => job'[d] = job[d])
      BY <2>7 DEF BeginProgress, TypeInv, TypeOK
    <3> QED  BY <1>3, <3>1
  <2>8. ~ (\/ InsertRound(c) \/ UpdateRound(c) \/ WriteRefused(c)
           \/ ApplySeasonEpisodeProgress(c) \/ ProgressRefused(c))
    BY <2>3 DEF InsertRound, UpdateRound, WriteRefused, ApplySeasonEpisodeProgress, EnsureEpisodeIdentities,
       ProgressRefused
  <2> QED  BY <2>1, <2>4, <2>5, <2>6, <2>7, <2>8 DEF Request
<1> QED  BY <1>2, <1>3

(* However many requests race, the row an UpdateRound overwrites is the row *)
(* its request read: the version guard loses no update.                     *)
THEOREM NoUpdateIsLost == Spec => []NoLostUpdate
<1>1. Init => BasesKnown
  BY DEF Init, BasesKnown, Idle
<1>2. TypeInv /\ BasesKnown /\ [Next]_vars => BasesKnown'
  BY BasesStayKnown
<1>3. TypeInv /\ BasesKnown => NoLostUpdate
  BY DEF BasesKnown, BaseKnown, NoLostUpdate, Guarded
<1> QED  BY <1>1, <1>2, <1>3, TypeInvInductive, PTL DEF Spec

-----------------------------------------------------------------------------
(* History: what an archived round keeps. *)

(* The events and the progress of round m are as they were. *)
Keeps(m) == EventsOf(m)' = EventsOf(m) /\ ProgressOf(m)' = ProgressOf(m)

(* Writing one round's movie event leaves the events of the others. *)
LEMMA MovieEventIsOwn ==
    ASSUME TypeInv, NEW i \in RoundId, NEW s, NEW f, SyncMovieRoundEvent(i, s, f),
           UNCHANGED progress, NEW m \in RoundId, m # i
    PROVE  Keeps(m)
<1> DEFINE own == EventsOf(i)
           new == [round |-> i, ep |-> NoEpisode, ext |-> NoExt,
                   source |-> f.source, at |-> f.done, full |-> TRUE]
<1>1. CASE events' = events
  BY <1>1 DEF Keeps, EventsOf, ProgressOf
<1>2. CASE \E e \in own : events' = events \ {e}
  BY <1>2 DEF Keeps, EventsOf, ProgressOf
<1>3. CASE events' = events \cup {new}
  BY <1>3 DEF Keeps, EventsOf, ProgressOf
<1>4. CASE \E e \in own :
             events' = (events \ {e}) \cup {[e EXCEPT !.at = f.done, !.source = f.source]}
  <2>1. PICK e \in own :
          events' = (events \ {e}) \cup {[e EXCEPT !.at = f.done, !.source = f.source]}
    BY <1>4
  <2>2. e \in Event /\ e.round = i
    BY DEF EventsOf, TypeInv, TypeOK
  <2>3. [e EXCEPT !.at = f.done, !.source = f.source].round = i
    BY <2>2 DEF Event
  <2> QED  BY <2>1, <2>2, <2>3 DEF Keeps, EventsOf, ProgressOf
<1> QED  BY <1>1, <1>2, <1>3, <1>4 DEF SyncMovieRoundEvent

(* So does undoing, retiming or marking episodes ... *)
LEMMA ApplyToIsOwn ==
    ASSUME TypeInv, NEW i \in RoundId, NEW j \in ProgressJob, ApplyTo(i, j),
           NEW m \in RoundId, m # i
    PROVE  Keeps(m)
<1>1. \A p \in Rows(i, j.targets, j.at) : p.round = i /\ EventOf(p, "manual").round = i
  BY DEF Rows, EventOf
<1>2. \A p \in Stored(i, j.targets) : p.round = i /\ p \in Progress
  BY DEF Stored, ProgressOf, TypeInv, TypeOK
<1>3. \A p \in Stored(i, j.targets) : [p EXCEPT !.at = j.at].round = i
  BY <1>2 DEF Progress
<1>4. \A e \in events, p \in Stored(i, j.targets) : Backs(e, p) => e.round = i
  BY <1>2 DEF Backs
<1>5. CASE Undo(i, j.targets)
  BY <1>2, <1>4, <1>5 DEF Undo, Keeps, EventsOf, ProgressOf
<1>6. CASE Mark(i, j.targets, j.at)
  BY <1>1, <1>6 DEF Mark, Keeps, EventsOf, ProgressOf
<1>7. CASE SetTime(i, j.targets, j.at)
  <2>1. ProgressOf(m)' = ProgressOf(m)
    BY <1>1, <1>2, <1>3, <1>7 DEF SetTime, ProgressOf
  <2> DEFINE moved(e) == IF \E p \in Stored(i, j.targets) : Backs(e, p)
                         THEN [e EXCEPT !.at = j.at] ELSE e
  <2>2. \A e \in events : moved(e).round = e.round /\ (e.round = m => moved(e) = e)
    BY <1>4 DEF TypeInv, TypeOK, Event
  <2>3. events' = {moved(e) : e \in events}
                    \cup {EventOf(p, "manual") : p \in Rows(i, j.targets, j.at)}
    BY <1>7 DEF SetTime
  <2> HIDE DEF moved
  <2>4. EventsOf(m)' = EventsOf(m)
    BY <1>1, <2>2, <2>3 DEF EventsOf
  <2> QED  BY <2>1, <2>4 DEF Keeps
<1> QED  BY <1>5, <1>6, <1>7 DEF ApplyTo

(* ... and recording a synced play. *)
LEMMA RecordPlayIsOwn ==
    ASSUME NEW i \in RoundId, NEW ep, NEW x, NEW at, NEW full, RecordPlay(i, ep, x, at, full),
           NEW m \in RoundId, m # i
    PROVE  Keeps(m)
BY DEF RecordPlay, Keeps, EventsOf, ProgressOf

(* A step leaves an archived round alone, or deletes it with what it owns. *)
HistoryKept(m) ==
    IF rounds'[m] = Deleted
    THEN EventsOf(m)' = {} /\ ProgressOf(m)' = {}
    ELSE rounds'[m] = rounds[m] /\ Keeps(m)

(* Opening, rewriting and rolling over rounds leave the archived rows.      *)
LEMMA ArchivedRowKept ==
    ASSUME TypeInv, NEW m \in RoundId, rounds[m].state = "archived",
           Ledger!Create \/ Ledger!Revise \/ Ledger!Rollover \/ UNCHANGED rounds
    PROVE  rounds'[m] = rounds[m] /\ rounds'[m] # Deleted
<1>1. rounds[m] # Deleted
  BY DEF Deleted
<1>2. CASE Ledger!Create
  BY <1>1, <1>2 DEF Ledger!Create, Ledger!Unused, TypeInv, TypeOK
<1>3. CASE Ledger!Revise
  BY <1>1, <1>3 DEF Ledger!Revise, TypeInv, TypeOK
<1>4. CASE Ledger!Rollover
  <2>1. PICK i \in RoundId, k \in RoundId, n \in Number, f \in Fact :
             /\ rounds[i].state = "current" /\ rounds[k] = Unused
             /\ \A r \in RoundId \ {i, k} : rounds'[r] = rounds[r]
    BY <1>4, RolloverRows
  <2>2. m # i /\ m # k
    BY <2>1 DEF Unused
  <2> QED  BY <1>1, <2>1, <2>2
<1>5. CASE UNCHANGED rounds
  BY <1>1, <1>5
<1> QED  BY <1>2, <1>3, <1>4, <1>5

(* The transactions of requests: the round they write is not archived.      *)
LEMMA RequestKeepsHistory ==
    ASSUME TypeInv, NEW c \in Client, Request(c), NEW m \in RoundId,
           rounds[m].state = "archived"
    PROVE  HistoryKept(m)
<1>1. CASE InsertRound(c)
  <2>1. PICK i \in RoundId :
           /\ rounds[i] = Unused
           /\ SyncMovieRoundEvent(i, job[c].scope, job[c].next)
           /\ UNCHANGED progress
    BY <1>1 DEF InsertRound
  <2>2. m # i
    BY <2>1 DEF Unused
  <2>3. Keeps(m)
    BY <2>1, <2>2, MovieEventIsOwn
  <2> QED  BY <1>1, <2>3, InsertIsCreate, ArchivedRowKept DEF HistoryKept
<1>2. CASE UpdateRound(c)
  <2>1. /\ Guarded(job[c])
        /\ SyncMovieRoundEvent(job[c].base, job[c].scope, job[c].next)
        /\ UNCHANGED progress
    BY <1>2 DEF UpdateRound
  <2>2. job[c].base \in RoundId
    BY <1>2 DEF UpdateRound, TypeInv, TypeOK, Idle, WriteJob, ClearJob, ProgressJob
  <2>3. m # job[c].base
    BY <2>1 DEF Guarded
  <2>4. Keeps(m)
    BY <2>1, <2>2, <2>3, MovieEventIsOwn
  <2> QED  BY <1>2, <2>4, UpdateIsRevise, ArchivedRowKept DEF HistoryKept
<1>3. CASE ApplySeasonEpisodeProgress(c)
  <2>1. job[c] \in ProgressJob
    BY <1>3 DEF ApplySeasonEpisodeProgress, EnsureEpisodeIdentities, TypeInv, TypeOK, Idle, WriteJob, ClearJob
  <2>2. ASSUME NEW i \in RoundId, ReviseByProgress(i, job[c]) \/ OpenByProgress(i, job[c])
        PROVE  Keeps(m)
    <3>1. ApplyTo(i, job[c]) /\ m # i
      BY <2>2 DEF ReviseByProgress, OpenByProgress, IsCurrent, Unused
    <3> QED  BY <2>1, <3>1, ApplyToIsOwn
  <2>3. UndoNothing(job[c]) => Keeps(m)
    BY DEF UndoNothing, Keeps, EventsOf, ProgressOf
  <2>4. Keeps(m)
    BY <1>3, <2>2, <2>3 DEF ApplySeasonEpisodeProgress, EnsureEpisodeIdentities
  <2> QED  BY <1>3, <2>4, ProgressIsLedger, ArchivedRowKept DEF HistoryKept
<1>4. CASE \/ BeginUpdate(c) \/ WriteRefused(c) \/ BeginClear(c) \/ ClearReads(c)
           \/ BeginProgress(c) \/ ProgressRefused(c)
  <2>1. UNCHANGED <<rounds, events, progress>>
    BY <1>4 DEF BeginUpdate, WriteRefused, BeginClear, ClearReads, BeginProgress,
       ProgressRefused
  <2>2. Keeps(m)
    BY <2>1 DEF Keeps, EventsOf, ProgressOf
  <2> QED  BY <2>1, <2>2, ArchivedRowKept DEF HistoryKept
<1> QED  BY <1>1, <1>2, <1>3, <1>4 DEF Request

(* A synced play is recorded under a round in progress or a new one. *)
LEMMA SyncKeepsHistory ==
    ASSUME TypeInv, ApplySyncedWatch, NEW m \in RoundId, rounds[m].state = "archived"
    PROVE  HistoryKept(m)
<1>1. PICK s \in Scope, ep \in Episode \cup {NoEpisode}, x \in ExtId, at \in Time,
           full \in BOOLEAN, i \in RoundId, k \in RoundId :
         \/ SyncInto(i, s, ep, x, at, full)
         \/ SyncOpens(k, s, ep, x, at, full)
         \/ SyncRollsOver(i, k, s, ep, x, at, full)
  BY DEF ApplySyncedWatch
<1>2. PICK w \in RoundId : RecordPlay(w, ep, x, at, full) /\ m # w
  BY <1>1 DEF SyncInto, SyncOpens, SyncRollsOver, IsCurrent, Unused
<1>3. Keeps(m)
  BY <1>2, RecordPlayIsOwn
<1> QED  BY <1>3, SyncIsLedger, ArchivedRowKept DEF HistoryKept

(* Rewatching writes no event; deletions cascade to what the round owns.    *)
LEMMA LibraryKeepsHistory ==
    ASSUME TypeInv, StartRewatch \/ DeleteArchivedRound \/ RemoveFromLibrary,
           NEW m \in RoundId, rounds[m].state = "archived"
    PROVE  HistoryKept(m)
<1>1. CASE StartRewatch
  <2>1. Keeps(m)
    BY <1>1 DEF StartRewatch, Keeps, EventsOf, ProgressOf
  <2> QED  BY <1>1, <2>1, RewatchIsRollover, ArchivedRowKept DEF HistoryKept
<1>2. CASE DeleteArchivedRound
  <2>1. PICK i \in RoundId : rounds' = [rounds EXCEPT ![i] = Deleted] /\ Cascade({i})
    BY <1>2 DEF DeleteArchivedRound
  <2>2. CASE m = i
    BY <2>1, <2>2 DEF Cascade, HistoryKept, EventsOf, ProgressOf, TypeInv, TypeOK
  <2>3. CASE m # i
    <3>1. rounds'[m] = rounds[m] /\ rounds[m] # Deleted
      BY <2>1, <2>3 DEF TypeInv, TypeOK, Deleted
    <3>2. Keeps(m)
      BY <2>1, <2>3 DEF Cascade, Keeps, EventsOf, ProgressOf
    <3> QED  BY <3>1, <3>2 DEF HistoryKept
  <2> QED  BY <2>2, <2>3
<1>3. CASE RemoveFromLibrary
  <2>1. m \notin Live
    BY DEF Live
  <2>2. rounds'[m] = rounds[m] /\ rounds[m] # Deleted
    BY <1>3, <2>1 DEF RemoveFromLibrary, Deleted
  <2>3. Keeps(m)
    BY <1>3, <2>1 DEF RemoveFromLibrary, Cascade, Keeps, EventsOf, ProgressOf
  <2> QED  BY <2>2, <2>3 DEF HistoryKept
<1> QED  BY <1>1, <1>2, <1>3

(* History is immutable: no request in flight, synced play, rewatch or      *)
(* removal changes an archived round or what hangs off it; deleting one     *)
(* takes its events and its progress with it.                               *)
THEOREM HistoryIsImmutable == Spec => ArchivedImmutable
<1> DEFINE Kept == \A i \in RoundId : rounds[i].state = "archived" =>
                      IF rounds'[i] = Deleted
                      THEN EventsOf(i)' = {} /\ ProgressOf(i)' = {}
                      ELSE /\ rounds'[i] = rounds[i]
                           /\ EventsOf(i)' = EventsOf(i)
                           /\ ProgressOf(i)' = ProgressOf(i)
<1>1. TypeInv /\ [Next]_vars => [Kept]_vars
  <2> SUFFICES ASSUME TypeInv, Next, NEW m \in RoundId, rounds[m].state = "archived"
               PROVE  HistoryKept(m)
    BY DEF HistoryKept, Keeps
  <2> QED  BY RequestKeepsHistory, SyncKeepsHistory, LibraryKeepsHistory DEF Next
<1> QED  BY <1>1, TypeInvInductive, PTL DEF Spec, ArchivedImmutable

-----------------------------------------------------------------------------
(* Completion dates, and the status the library shows. *)

(* A recount that says completed counted at least one mark. *)
LEMMA CompletedIsMarked ==
    ASSUME NEW own, NEW total, SeriesStatus(Cardinality(own), total) = "completed"
    PROVE  own # {}
<1>1. Cardinality({}) = 0
  BY FS_EmptySet
<1>2. total > 0 /\ Cardinality(own) = total
  BY DEF SeriesStatus
<1> QED  BY <1>1, <1>2

(* The date of a completed round is the latest of a non-empty set of times. *)
LEMMA LatestDates ==
    ASSUME NEW f \in Fact, NEW instants, IsDone(f.done, f.status, instants),
           instants \subseteq Time, f.status = "completed" => instants # {}
    PROVE  Dated(f)
BY DataAssumption DEF IsDone, IsLatest, Dated

LEMMA RecountedDated ==
    ASSUME NEW i, NEW j, NEW f, NEW g \in Fact, Recounted(i, j, f, g),
           progress' \subseteq Progress
    PROVE  Dated(g)
<1> DEFINE own == {p \in progress' : p.round = i}
<1>1. {p.at : p \in own} \subseteq Time
  BY DEF Progress
<1>2. g.status = "completed" => {p.at : p \in own} # {}
  BY CompletedIsMarked DEF Recounted
<1>3. IsDone(g.done, g.status, {p.at : p \in own})
  BY DEF Recounted
<1> HIDE DEF own
<1> QED  BY <1>1, <1>2, <1>3, LatestDates

LEMMA SyncedDated ==
    ASSUME NEW i, NEW s, NEW ep, NEW x, NEW at, NEW full, NEW review, NEW f \in Fact,
           RecordPlay(i, ep, x, at, full), Synced(i, s, full, review, f),
           progress' \subseteq Progress, events' \subseteq Event
    PROVE  Dated(f)
<1> DEFINE own   == {p \in progress' : p.round = i}
           plays == {e \in events' : e.round = i}
<1>1. {p.at : p \in own} \subseteq Time /\ {e.at : e \in plays} \subseteq Time
  BY DEF Progress, Event
<1>2. CASE s = Movie
  <2>1. [round |-> i, ep |-> ep, ext |-> x, source |-> "confirmed_sync",
         at |-> at, full |-> full] \in events'
    BY DEF RecordPlay
  <2>2. {e.at : e \in plays} # {}
    BY <2>1
  <2>3. IsDone(f.done, f.status, {e.at : e \in plays})
    BY <1>2 DEF Synced
  <2> HIDE DEF plays
  <2> QED  BY <1>1, <2>2, <2>3, LatestDates
<1>3. CASE s # Movie
  <2>1. f.status = "completed" => {p.at : p \in own} # {}
    BY <1>3, CompletedIsMarked DEF Synced
  <2>2. IsDone(f.done, f.status, {p.at : p \in own})
    BY <1>3 DEF Synced
  <2> HIDE DEF own
  <2> QED  BY <1>1, <2>1, <2>2, LatestDates
<1> QED  BY <1>2, <1>3

(* Rows that keep their facts, and one row with dated facts, stay dated.    *)
LEMMA OneRowDated ==
    ASSUME CompletionDated, NEW w \in RoundId,
           rounds'[w] # Unused /\ rounds'[w] # Deleted => Dated(rounds'[w].facts),
           \A m \in RoundId \ {w} :
              rounds'[m].state \in {"current", "archived"} =>
                 /\ rounds[m].state \in {"current", "archived"}
                 /\ rounds'[m].facts = rounds[m].facts
    PROVE  CompletionDated'
BY DEF CompletionDated, Dated, Unused, Deleted

LEMMA RequestDates ==
    ASSUME TypeInv, TypeInv', CompletionDated, NEW c \in Client, Request(c)
    PROVE  CompletionDated'
<1>1. CASE InsertRound(c) \/ UpdateRound(c)
  <2>1. job[c] \in WriteJob /\ Dated(job[c].next)
    BY <1>1 DEF InsertRound, UpdateRound, TypeInv, TypeOK, PreparedDated, Idle, ClearJob,
       ProgressJob
  <2>2. CASE InsertRound(c)
    <3>1. PICK i \in RoundId :
             rounds' = [rounds EXCEPT ![i] = NewRow(job[c].scope, 1, job[c].next)]
      BY <2>2 DEF InsertRound
    <3>2. rounds'[i].facts = job[c].next /\ \A m \in RoundId \ {i} : rounds'[m] = rounds[m]
      BY <3>1 DEF NewRow, TypeInv, TypeOK
    <3> QED  BY <2>1, <3>2, OneRowDated
  <2>3. CASE UpdateRound(c)
    <3>1. job[c].base \in RoundId
      BY <2>1, <2>3 DEF UpdateRound, WriteJob
    <3> QED  BY <2>1, <2>3, <3>1, OneRowDated DEF UpdateRound, Rewritten, TypeInv, TypeOK
  <2> QED  BY <1>1, <2>2, <2>3
<1>2. CASE ApplySeasonEpisodeProgress(c)
  <2>1. progress' \subseteq Progress
    BY DEF TypeInv, TypeOK
  <2>2. ASSUME NEW i \in RoundId, ReviseByProgress(i, job[c])
        PROVE  CompletionDated'
    <3>1. CASE UNCHANGED rounds
      BY <3>1 DEF CompletionDated
    <3>2. CASE \E f \in Fact : /\ Recounted(i, job[c], rounds[i].facts, f)
                               /\ rounds' = [rounds EXCEPT ![i] = Revised(rounds[i], f)]
      <4>1. PICK f \in Fact : /\ Recounted(i, job[c], rounds[i].facts, f)
                              /\ rounds' = [rounds EXCEPT ![i] = Revised(rounds[i], f)]
        BY <3>2
      <4>2. Dated(f)
        BY <2>1, <4>1, RecountedDated
      <4> QED  BY <4>1, <4>2, OneRowDated DEF Revised, Rewritten, TypeInv, TypeOK
    <3> QED  BY <2>2, <3>1, <3>2 DEF ReviseByProgress
  <2>3. ASSUME NEW i \in RoundId, OpenByProgress(i, job[c])
        PROVE  CompletionDated'
    <3>1. PICK n \in Number, f \in Fact :
             /\ Recounted(i, job[c], EmptyFact("manual"), f)
             /\ rounds' = [rounds EXCEPT ![i] = NewRow(job[c].scope, n, f)]
      BY <2>3 DEF OpenByProgress
    <3>2. Dated(f)
      BY <2>1, <3>1, RecountedDated
    <3> QED  BY <3>1, <3>2, OneRowDated DEF NewRow, TypeInv, TypeOK
  <2>4. UndoNothing(job[c]) => CompletionDated'
    BY DEF UndoNothing, CompletionDated
  <2> QED  BY <1>2, <2>2, <2>3, <2>4 DEF ApplySeasonEpisodeProgress, EnsureEpisodeIdentities
<1>3. CASE \/ BeginUpdate(c) \/ WriteRefused(c) \/ BeginClear(c) \/ ClearReads(c)
           \/ BeginProgress(c) \/ ProgressRefused(c)
  BY <1>3 DEF BeginUpdate, WriteRefused, BeginClear, ClearReads, BeginProgress,
     ProgressRefused, CompletionDated
<1> QED  BY <1>1, <1>2, <1>3 DEF Request

LEMMA SyncDates ==
    ASSUME TypeInv, TypeInv', CompletionDated, ApplySyncedWatch
    PROVE  CompletionDated'
<1>1. PICK s \in Scope, ep \in Episode \cup {NoEpisode}, x \in ExtId, at \in Time,
           full \in BOOLEAN, i \in RoundId, k \in RoundId :
         \/ SyncInto(i, s, ep, x, at, full)
         \/ SyncOpens(k, s, ep, x, at, full)
         \/ SyncRollsOver(i, k, s, ep, x, at, full)
  BY DEF ApplySyncedWatch
<1>2. progress' \subseteq Progress /\ events' \subseteq Event
  BY DEF TypeInv, TypeOK
<1>3. CASE SyncInto(i, s, ep, x, at, full)
  <2>1. PICK f \in Fact : /\ Synced(i, s, full, rounds[i].facts.review, f)
                          /\ rounds' = [rounds EXCEPT ![i] = Revised(rounds[i], f)]
    BY <1>3 DEF SyncInto
  <2>2. Dated(f)
    BY <1>2, <1>3, <2>1, SyncedDated DEF SyncInto
  <2> QED  BY <2>1, <2>2, OneRowDated DEF Revised, Rewritten, TypeInv, TypeOK
<1>4. CASE SyncOpens(k, s, ep, x, at, full)
  <2>1. PICK n \in Number, f \in Fact :
           /\ Synced(k, s, full, NoReview, f)
           /\ rounds' = [rounds EXCEPT ![k] = NewRow(s, n, f)]
    BY <1>4 DEF SyncOpens
  <2>2. Dated(f)
    BY <1>2, <1>4, <2>1, SyncedDated DEF SyncOpens
  <2> QED  BY <2>1, <2>2, OneRowDated DEF NewRow, TypeInv, TypeOK
<1>5. CASE SyncRollsOver(i, k, s, ep, x, at, full)
  <2>1. PICK n \in Number, f \in Fact :
           /\ Synced(k, s, full, NoReview, f)
           /\ rounds' = [rounds EXCEPT ![i] = Archived(rounds[i]), ![k] = NewRow(s, n, f)]
    BY <1>5 DEF SyncRollsOver
  <2>2. Dated(f)
    BY <1>2, <1>5, <2>1, SyncedDated DEF SyncRollsOver
  <2>3. rounds[i].state = "current" /\ rounds[i] \in Row
    BY <1>5, StoredIsRow DEF SyncRollsOver, IsCurrent, TypeInv
  <2>4. Archived(rounds[i]).facts = rounds[i].facts
    BY <2>3 DEF Archived, Row
  <2> QED  BY <2>1, <2>2, <2>3, <2>4, OneRowDated DEF NewRow, TypeInv, TypeOK
<1> QED  BY <1>1, <1>3, <1>4, <1>5

LEMMA LibraryDates ==
    ASSUME TypeInv, CompletionDated, StartRewatch \/ DeleteArchivedRound \/ RemoveFromLibrary
    PROVE  CompletionDated'
<1>1. CASE StartRewatch
  <2> DEFINE next == [EmptyFact("manual") EXCEPT !.status = "watching"]
  <2>1. PICK i \in RoundId, k \in RoundId :
           /\ rounds[i].state = "current"
           /\ rounds' = [rounds EXCEPT ![i] = Archived(rounds[i]),
                             ![k] = NewRow(rounds[i].scope, rounds[i].number + 1, next)]
    BY <1>1 DEF StartRewatch
  <2>2. Dated(next)
    BY DEF Dated, EmptyFact
  <2>3. Archived(rounds[i]).facts = rounds[i].facts
    BY <2>1, StoredIsRow DEF Archived, Row, TypeInv
  <2> HIDE DEF next
  <2> QED  BY <2>1, <2>2, <2>3, OneRowDated DEF NewRow, TypeInv, TypeOK
<1>2. CASE DeleteArchivedRound
  BY <1>2 DEF DeleteArchivedRound, CompletionDated, Deleted, TypeInv, TypeOK
<1>3. CASE RemoveFromLibrary
  BY <1>3 DEF RemoveFromLibrary, CompletionDated, Deleted
<1> QED  BY <1>1, <1>2, <1>3

(* Completed rounds carry a date and no other round does, whichever of the  *)
(* four writers wrote the row and in whatever order.                        *)
THEOREM CompletionIsDated == Spec => []CompletionDated
<1>1. Init => CompletionDated
  BY DEF Init, CompletionDated, Unused
<1>2. TypeInv /\ TypeInv' /\ CompletionDated /\ [Next]_vars => CompletionDated'
  <2> SUFFICES ASSUME TypeInv, TypeInv', CompletionDated, [Next]_vars
               PROVE  CompletionDated'
    OBVIOUS
  <2>1. CASE UNCHANGED vars
    BY <2>1 DEF vars, CompletionDated
  <2> QED  BY <2>1, RequestDates, SyncDates, LibraryDates DEF Next
<1> QED  BY <1>1, <1>2, TypeInvInductive, PTL DEF Spec

(* A step that writes a current round projects it in the same transaction;  *)
(* the others leave the projected rows alone.                               *)
LEMMA StepProjects ==
    ASSUME TypeInv, ProfileProjection, Next
    PROVE  ProfileProjection'
<1>1. CASE \E i \in RoundId : ProjectMediaProfile(i)
  BY <1>1 DEF ProjectMediaProfile, ProfileProjection
<1>2. CASE UNCHANGED <<rounds, fresh, profile>>
  BY <1>2 DEF ProfileProjection, Projects, Live
<1>3. CASE DeleteArchivedRound
  <2>1. \A i \in RoundId : rounds'[i].state = "current" <=> rounds[i].state = "current"
    BY <1>3 DEF DeleteArchivedRound, Deleted, TypeInv, TypeOK
  <2>2. \A i \in RoundId : rounds[i].state = "current" => rounds'[i] = rounds[i]
    BY <1>3 DEF DeleteArchivedRound, Deleted, TypeInv, TypeOK
  <2>3. UNCHANGED <<fresh, profile>>
    BY <1>3 DEF DeleteArchivedRound
  <2> QED  BY <2>1, <2>2, <2>3 DEF ProfileProjection, Projects, Live
<1>4. CASE RemoveFromLibrary
  <2>1. Live' = {}
    BY <1>4 DEF RemoveFromLibrary, Live, Deleted
  <2>2. profile' \in {"absent", "none"}
    BY <1>4 DEF RemoveFromLibrary
  <2> QED  BY <2>1, <2>2 DEF ProfileProjection, Projects, Live
<1>5. ASSUME NEW c \in Client, Request(c)
      PROVE  \/ \E i \in RoundId : ProjectMediaProfile(i)
             \/ UNCHANGED <<rounds, fresh, profile>>
  <2>1. UpdateRound(c) => job[c].base \in RoundId
    BY DEF UpdateRound, TypeInv, TypeOK, Idle, WriteJob, ClearJob, ProgressJob
  <2>2. UpdateRound(c) => ProjectMediaProfile(job[c].base)
    BY DEF UpdateRound
  <2>3. InsertRound(c) => \E i \in RoundId : ProjectMediaProfile(i)
    BY DEF InsertRound
  <2>4. ApplySeasonEpisodeProgress(c) => \/ \E i \in RoundId : ProjectMediaProfile(i)
                                         \/ UNCHANGED <<rounds, fresh, profile>>
    BY DEF ApplySeasonEpisodeProgress, EnsureEpisodeIdentities, ReviseByProgress, OpenByProgress, UndoNothing
  <2>5. \/ BeginUpdate(c) \/ WriteRefused(c) \/ BeginClear(c) \/ ClearReads(c)
        \/ BeginProgress(c) \/ ProgressRefused(c)
        => UNCHANGED <<rounds, fresh, profile>>
    BY DEF BeginUpdate, WriteRefused, BeginClear, ClearReads, BeginProgress, ProgressRefused
  <2> QED  BY <1>5, <2>1, <2>2, <2>3, <2>4, <2>5 DEF Request
<1>6. StartRewatch \/ ApplySyncedWatch => \E i \in RoundId : ProjectMediaProfile(i)
  BY DEF StartRewatch, ApplySyncedWatch, SyncInto, SyncOpens, SyncRollsOver
<1> QED  BY <1>1, <1>2, <1>3, <1>4, <1>5, <1>6 DEF Next

(* The status the library lists is always the one the rounds in progress    *)
(* project: no writer of a current round forgets the projection.            *)
THEOREM ProfileIsProjection == Spec => []ProfileProjection
<1>1. Init => ProfileProjection
  BY DEF Init, ProfileProjection, Live, Unused
<1>2. TypeInv /\ ProfileProjection /\ [Next]_vars => ProfileProjection'
  <2>1. ProfileProjection /\ UNCHANGED vars => ProfileProjection'
    BY DEF vars, ProfileProjection, Projects, Live
  <2> QED  BY <2>1, StepProjects
<1> QED  BY <1>1, <1>2, TypeInvInductive, PTL DEF Spec

-----------------------------------------------------------------------------
(* What the user wrote outranks sync. *)

(* A prepared write is the user's: every edit writes source manual. *)
PreparedManual == \A c \in Client : job[c].step = "write" => job[c].next.source = "manual"

LEMMA PreparedStaysManual ==
    ASSUME TypeInv, PreparedManual, [Next]_vars
    PROVE  PreparedManual'
<1>1. ASSUME NEW c \in Client, NEW s, NEW in, NEW expected,
             ReadForUpdate(c, s, in, expected)
      PROVE  PreparedManual'
  <2>1. \A b, v, f, g : Prepared(s, b, v, f, Overwrite(g, in)).next.source = "manual"
    BY DEF Prepared, Overwrite
  <2>2. \E b, v, f, g : job' = [job EXCEPT ![c] = Prepared(s, b, v, f, Overwrite(g, in))]
    BY <1>1 DEF ReadForUpdate
  <2> QED  BY <2>1, <2>2 DEF PreparedManual, TypeInv, TypeOK
<1>2. ASSUME NEW c \in Client, NEW j, j.step # "write", job' = [job EXCEPT ![c] = j]
      PROVE  PreparedManual'
  BY <1>2 DEF PreparedManual, TypeInv, TypeOK
<1>3. Idle.step # "write"
  BY DEF Idle
<1>4. ASSUME UNCHANGED job
      PROVE  PreparedManual'
  BY <1>4 DEF PreparedManual
<1>5. ASSUME NEW c \in Client, Request(c)
      PROVE  PreparedManual'
  <2>1. CASE BeginUpdate(c)
    BY <1>1, <2>1 DEF BeginUpdate
  <2>2. CASE ClearReads(c)
    BY <1>1, <1>2, <1>3, <2>2 DEF ClearReads
  <2>3. CASE BeginClear(c)
    BY <1>2, <2>3 DEF BeginClear
  <2>4. CASE BeginProgress(c)
    <3>1. PICK s \in Season, action \in Action, targets \in SUBSET Episode, at \in Time,
               refs \in BOOLEAN, version \in 0..(MaxVersion - 1) :
             /\ VersionOf(s, version)
             /\ IF refs THEN Refers(action, targets) ELSE Selects(s, action, targets)
             /\ job' = [job EXCEPT ![c] =
                   [step |-> "progress", scope |-> s, version |-> version,
                    change |-> IF action \in {"undo", "set_time"} THEN action ELSE "mark",
                    targets |-> targets, at |-> at,
                    total |-> IF refs THEN SeasonSize ELSE 0]]
      BY <2>4 DEF BeginProgress
    <3> DEFINE j == [step |-> "progress", scope |-> s, version |-> version,
                     change |-> IF action \in {"undo", "set_time"} THEN action ELSE "mark",
                     targets |-> targets, at |-> at,
                     total |-> IF refs THEN SeasonSize ELSE 0]
    <3>2. j.step # "write" /\ job' = [job EXCEPT ![c] = j]
      BY <3>1
    <3> HIDE DEF j
    <3> QED  BY <1>2, <3>2
  <2>5. CASE \/ InsertRound(c) \/ UpdateRound(c) \/ WriteRefused(c)
             \/ ApplySeasonEpisodeProgress(c) \/ ProgressRefused(c)
    BY <1>2, <1>3, <2>5 DEF InsertRound, UpdateRound, WriteRefused,
       ApplySeasonEpisodeProgress, ProgressRefused
  <2> QED  BY <1>5, <2>1, <2>2, <2>3, <2>4, <2>5 DEF Request
<1> QED  BY <1>4, <1>5 DEF Next, vars, StartRewatch, DeleteArchivedRound, RemoveFromLibrary,
         ApplySyncedWatch

(* A manual round in progress stays manual, and no synced play enters it.   *)
ManualKept(m) ==
    /\ rounds'[m] = Deleted \/ rounds'[m].facts.source = "manual"
    /\ SyncedPlays(m)' \subseteq SyncedPlays(m)

LEMMA FewerEvents ==
    ASSUME NEW m \in RoundId, EventsOf(m)' \subseteq EventsOf(m)
    PROVE  SyncedPlays(m)' \subseteq SyncedPlays(m)
BY DEF SyncedPlays

(* Events that are new or moved are manual, or keep what they are a play of. *)
LEMMA NoNewPlays ==
    ASSUME NEW m \in RoundId,
           \A e \in EventsOf(m)' :
              \/ e.source = "manual"
              \/ \E o \in EventsOf(m) : o.source = e.source /\ o.ep = e.ep /\ o.ext = e.ext
    PROVE  SyncedPlays(m)' \subseteq SyncedPlays(m)
BY DEF SyncedPlays

(* A movie event written for a manual row is manual. *)
LEMMA MovieEventManual ==
    ASSUME TypeInv, NEW i \in RoundId, NEW s, NEW f, f.source = "manual",
           SyncMovieRoundEvent(i, s, f)
    PROVE  SyncedPlays(i)' \subseteq SyncedPlays(i)
<1> DEFINE new == [round |-> i, ep |-> NoEpisode, ext |-> NoExt,
                   source |-> f.source, at |-> f.done, full |-> TRUE]
<1>1. CASE events' \subseteq events
  BY <1>1, FewerEvents DEF EventsOf
<1>2. CASE events' = events \cup {new}
  BY <1>2, NoNewPlays DEF EventsOf
<1>3. ASSUME NEW e \in EventsOf(i),
             events' = (events \ {e}) \cup {[e EXCEPT !.at = f.done, !.source = f.source]}
      PROVE  SyncedPlays(i)' \subseteq SyncedPlays(i)
  <2>1. [e EXCEPT !.at = f.done, !.source = f.source].source = "manual"
    BY <1>3 DEF EventsOf, TypeInv, TypeOK, Event
  <2> QED  BY <1>3, <2>1, NoNewPlays DEF EventsOf
<1> QED  BY <1>1, <1>2, <1>3 DEF SyncMovieRoundEvent

(* Undoing, retiming and marking by hand add no synced play. *)
LEMMA ApplyToManual ==
    ASSUME TypeInv, NEW i \in RoundId, NEW j \in ProgressJob, ApplyTo(i, j)
    PROVE  SyncedPlays(i)' \subseteq SyncedPlays(i)
<1>1. \A p \in Rows(i, j.targets, j.at) : EventOf(p, "manual").source = "manual"
  BY DEF EventOf
<1>2. CASE Undo(i, j.targets)
  BY <1>2, FewerEvents DEF Undo, EventsOf
<1>3. CASE Mark(i, j.targets, j.at)
  BY <1>1, <1>3, NoNewPlays DEF Mark, EventsOf
<1>4. CASE SetTime(i, j.targets, j.at)
  <2> DEFINE moved(e) == IF \E p \in Stored(i, j.targets) : Backs(e, p)
                         THEN [e EXCEPT !.at = j.at] ELSE e
  <2>1. \A e \in events : /\ moved(e).round = e.round /\ moved(e).source = e.source
                          /\ moved(e).ep = e.ep /\ moved(e).ext = e.ext
    BY DEF TypeInv, TypeOK, Event
  <2>2. events' = {moved(e) : e \in events}
                    \cup {EventOf(p, "manual") : p \in Rows(i, j.targets, j.at)}
    BY <1>4 DEF SetTime
  <2> HIDE DEF moved
  <2> QED  BY <1>1, <2>1, <2>2, NoNewPlays DEF EventsOf
<1> QED  BY <1>2, <1>3, <1>4 DEF ApplyTo

LEMMA RequestKeepsManual ==
    ASSUME TypeInv, PreparedManual, NEW c \in Client, Request(c), NEW m \in RoundId,
           rounds[m].state = "current", rounds[m].facts.source = "manual"
    PROVE  ManualKept(m)
<1>1. CASE InsertRound(c)
  <2>1. PICK i \in RoundId :
           /\ rounds[i] = Unused
           /\ rounds' = [rounds EXCEPT ![i] = NewRow(job[c].scope, 1, job[c].next)]
           /\ SyncMovieRoundEvent(i, job[c].scope, job[c].next)
           /\ UNCHANGED progress
    BY <1>1 DEF InsertRound
  <2>2. m # i
    BY <2>1 DEF Unused
  <2>3. Keeps(m)
    BY <2>1, <2>2, MovieEventIsOwn
  <2> QED  BY <2>1, <2>2, <2>3, FewerEvents DEF ManualKept, Keeps, TypeInv, TypeOK
<1>2. CASE UpdateRound(c)
  <2>1. /\ job[c].step = "write"
        /\ rounds' = [rounds EXCEPT ![job[c].base] =
                        Rewritten(rounds[job[c].base], job[c].version + 1, job[c].next)]
        /\ SyncMovieRoundEvent(job[c].base, job[c].scope, job[c].next)
        /\ UNCHANGED progress
    BY <1>2 DEF UpdateRound
  <2>2. job[c].base \in RoundId
    BY <1>2 DEF UpdateRound, TypeInv, TypeOK, Idle, WriteJob, ClearJob, ProgressJob
  <2>3. job[c].next.source = "manual"
    BY <2>1 DEF PreparedManual
  <2>4. CASE m = job[c].base
    <3>1. SyncedPlays(m)' \subseteq SyncedPlays(m)
      BY <2>1, <2>3, <2>4, MovieEventManual
    <3>2. rounds'[m].facts = job[c].next
      BY <2>1, <2>4 DEF Rewritten, TypeInv, TypeOK
    <3> QED  BY <2>3, <3>1, <3>2 DEF ManualKept
  <2>5. CASE m # job[c].base
    <3>1. Keeps(m)
      BY <2>1, <2>2, <2>5, MovieEventIsOwn
    <3> QED  BY <2>1, <2>5, <3>1, FewerEvents DEF ManualKept, Keeps, TypeInv, TypeOK
  <2> QED  BY <2>4, <2>5
<1>3. CASE ApplySeasonEpisodeProgress(c)
  <2>1. job[c] \in ProgressJob
    BY <1>3 DEF ApplySeasonEpisodeProgress, EnsureEpisodeIdentities, TypeInv, TypeOK, Idle,
       WriteJob, ClearJob
  <2>2. ASSUME NEW i \in RoundId, ApplyTo(i, job[c])
        PROVE  SyncedPlays(m)' \subseteq SyncedPlays(m)
    <3>1. CASE m = i
      BY <2>1, <2>2, <3>1, ApplyToManual
    <3>2. CASE m # i
      BY <2>1, <2>2, <3>2, ApplyToIsOwn, FewerEvents DEF Keeps
    <3> QED  BY <3>1, <3>2
  <2>3. ASSUME NEW i \in RoundId, ReviseByProgress(i, job[c])
        PROVE  ManualKept(m)
    <3>1. SyncedPlays(m)' \subseteq SyncedPlays(m)
      BY <2>2, <2>3 DEF ReviseByProgress
    <3>2. \/ UNCHANGED rounds
          \/ \E f \in Fact : /\ f.source = "manual"
                             /\ rounds' = [rounds EXCEPT ![i] = Revised(rounds[i], f)]
      BY <2>3 DEF ReviseByProgress, Recounted
    <3> QED  BY <3>1, <3>2 DEF ManualKept, Revised, Rewritten, TypeInv, TypeOK
  <2>4. ASSUME NEW i \in RoundId, OpenByProgress(i, job[c])
        PROVE  ManualKept(m)
    <3>1. SyncedPlays(m)' \subseteq SyncedPlays(m)
      BY <2>2, <2>4 DEF OpenByProgress
    <3>2. m # i
      BY <2>4 DEF OpenByProgress, Unused
    <3>3. \E new : rounds' = [rounds EXCEPT ![i] = new]
      BY <2>4 DEF OpenByProgress
    <3> QED  BY <3>1, <3>2, <3>3 DEF ManualKept, TypeInv, TypeOK
  <2>5. UndoNothing(job[c]) => ManualKept(m)
    BY DEF UndoNothing, ManualKept, SyncedPlays, EventsOf
  <2> QED  BY <1>3, <2>3, <2>4, <2>5 DEF ApplySeasonEpisodeProgress, EnsureEpisodeIdentities
<1>4. CASE \/ BeginUpdate(c) \/ WriteRefused(c) \/ BeginClear(c) \/ ClearReads(c)
           \/ BeginProgress(c) \/ ProgressRefused(c)
  BY <1>4 DEF BeginUpdate, WriteRefused, BeginClear, ClearReads, BeginProgress,
     ProgressRefused, ManualKept, SyncedPlays, EventsOf
<1> QED  BY <1>1, <1>2, <1>3, <1>4 DEF Request

(* A synced play is never recorded under a manual round. *)
LEMMA SyncKeepsManual ==
    ASSUME TypeInv, ApplySyncedWatch, NEW m \in RoundId,
           rounds[m].state = "current", rounds[m].facts.source = "manual"
    PROVE  ManualKept(m)
<1>1. PICK s \in Scope, ep \in Episode \cup {NoEpisode}, x \in ExtId, at \in Time,
           full \in BOOLEAN, i \in RoundId, k \in RoundId :
         \/ SyncInto(i, s, ep, x, at, full)
         \/ SyncOpens(k, s, ep, x, at, full)
         \/ SyncRollsOver(i, k, s, ep, x, at, full)
  BY DEF ApplySyncedWatch
<1>2. ~ SyncMayWrite(rounds[m])
  BY DEF SyncMayWrite, CanOverwrite, SourcePriority
<1>3. PICK w \in RoundId : RecordPlay(w, ep, x, at, full) /\ m # w
  BY <1>1, <1>2 DEF SyncInto, SyncOpens, SyncRollsOver, Unused
<1>4. SyncedPlays(m)' \subseteq SyncedPlays(m)
  BY <1>3, RecordPlayIsOwn, FewerEvents DEF Keeps
<1>5. rounds'[m] = rounds[m]
  BY <1>1, <1>2 DEF SyncInto, SyncOpens, SyncRollsOver, Unused, TypeInv, TypeOK
<1> QED  BY <1>4, <1>5 DEF ManualKept

LEMMA LibraryKeepsManual ==
    ASSUME TypeInv, StartRewatch \/ DeleteArchivedRound \/ RemoveFromLibrary,
           NEW m \in RoundId, rounds[m].state = "current", rounds[m].facts.source = "manual"
    PROVE  ManualKept(m)
<1>1. EventsOf(m)' \subseteq EventsOf(m)
  BY DEF StartRewatch, DeleteArchivedRound, RemoveFromLibrary, Cascade, EventsOf
<1>2. CASE StartRewatch
  <2>1. PICK i \in RoundId, k \in RoundId :
           /\ rounds[k] = Unused
           /\ \E new : rounds' = [rounds EXCEPT ![i] = Archived(rounds[i]), ![k] = new]
    BY <1>2 DEF StartRewatch
  <2>2. m # k
    BY <2>1 DEF Unused
  <2>3. rounds[m] \in Row
    BY StoredIsRow DEF TypeInv
  <2>4. rounds'[m] \in {rounds[m], Archived(rounds[m])}
    BY <2>1, <2>2 DEF TypeInv, TypeOK
  <2>5. rounds'[m].facts = rounds[m].facts
    BY <2>3, <2>4 DEF Archived, Row
  <2> QED  BY <1>1, <2>5, FewerEvents DEF ManualKept
<1>3. CASE DeleteArchivedRound \/ RemoveFromLibrary
  <2>1. rounds'[m] \in {rounds[m], Deleted}
    BY <1>3 DEF DeleteArchivedRound, RemoveFromLibrary, TypeInv, TypeOK
  <2> QED  BY <1>1, <2>1, FewerEvents DEF ManualKept
<1> QED  BY <1>2, <1>3

(* What the user wrote outranks sync: whatever edits, plays and rewatches   *)
(* interleave, a round once edited by hand stays manual and no synced play  *)
(* enters it.                                                               *)
THEOREM ManualIsKept == Spec => ManualStays
<1> DEFINE Kept == \A i \in RoundId :
                      rounds[i].state = "current" /\ rounds[i].facts.source = "manual" =>
                         /\ rounds'[i] = Deleted \/ rounds'[i].facts.source = "manual"
                         /\ SyncedPlays(i)' \subseteq SyncedPlays(i)
<1>1. Init => PreparedManual
  BY DEF Init, PreparedManual, Idle
<1>2. TypeInv /\ PreparedManual /\ [Next]_vars => PreparedManual'
  BY PreparedStaysManual
<1>3. TypeInv /\ PreparedManual /\ [Next]_vars => [Kept]_vars
  <2> SUFFICES ASSUME TypeInv, PreparedManual, Next, NEW m \in RoundId,
                      rounds[m].state = "current", rounds[m].facts.source = "manual"
               PROVE  ManualKept(m)
    BY DEF ManualKept
  <2> QED  BY RequestKeepsManual, SyncKeepsManual, LibraryKeepsManual DEF Next
<1> QED  BY <1>1, <1>2, <1>3, TypeInvInductive, PTL DEF Spec, ManualStays

-----------------------------------------------------------------------------
(* Events behind the rows: marks of a series, completions of a movie. *)

(* A movie has no seasons: no marks, and its events name no episode.        *)
MovieAlone == Movie \in Scope =>
    /\ Scope = {Movie} /\ Season = {}
    /\ progress = {} /\ \A e \in events : e.ep = NoEpisode

LEMMA MovieStaysAlone ==
    ASSUME TypeInv, MovieAlone, [Next]_vars
    PROVE  MovieAlone'
<1> SUFFICES ASSUME Movie \in Scope
             PROVE  progress' = {} /\ \A e \in events' : e.ep = NoEpisode
  BY DEF MovieAlone
<1>1. Scope = {Movie} /\ Season = {} /\ progress = {} /\ \A e \in events : e.ep = NoEpisode
  BY DEF MovieAlone
<1>2. ASSUME NEW i, NEW s, NEW f, SyncMovieRoundEvent(i, s, f)
      PROVE  \A e \in events' : e.ep = NoEpisode
  <2> DEFINE new == [round |-> i, ep |-> NoEpisode, ext |-> NoExt,
                     source |-> f.source, at |-> f.done, full |-> TRUE]
  <2>1. CASE events' \subseteq events \cup {new}
    BY <1>1, <2>1
  <2>2. ASSUME NEW e \in EventsOf(i),
               events' = (events \ {e}) \cup {[e EXCEPT !.at = f.done, !.source = f.source]}
        PROVE  \A o \in events' : o.ep = NoEpisode
    <3>1. [e EXCEPT !.at = f.done, !.source = f.source].ep = e.ep
      BY DEF EventsOf, TypeInv, TypeOK, Event
    <3> QED  BY <1>1, <2>2, <3>1 DEF EventsOf
  <2> QED  BY <1>2, <2>1, <2>2 DEF SyncMovieRoundEvent
<1>3. ASSUME NEW c \in Client, Request(c)
      PROVE  progress' = {} /\ \A e \in events' : e.ep = NoEpisode
  <2>1. CASE InsertRound(c) \/ UpdateRound(c)
    BY <1>1, <1>2, <2>1 DEF InsertRound, UpdateRound
  <2>2. ~ ApplySeasonEpisodeProgress(c)
    BY <1>1 DEF ApplySeasonEpisodeProgress, EnsureEpisodeIdentities, TypeInv, TypeOK, Idle,
       WriteJob, ClearJob, ProgressJob
  <2>3. CASE \/ BeginUpdate(c) \/ WriteRefused(c) \/ BeginClear(c) \/ ClearReads(c)
             \/ BeginProgress(c) \/ ProgressRefused(c)
    BY <1>1, <2>3 DEF BeginUpdate, WriteRefused, BeginClear, ClearReads, BeginProgress,
       ProgressRefused
  <2> QED  BY <1>3, <2>1, <2>2, <2>3 DEF Request
<1>4. CASE ApplySyncedWatch
  <2>1. PICK s \in Scope, ep \in Episode \cup {NoEpisode}, x \in ExtId, at \in Time,
             full \in BOOLEAN, i \in RoundId, k \in RoundId :
           /\ IF s = Movie THEN ep = NoEpisode ELSE ep \in catalog[s]
           /\ \/ SyncInto(i, s, ep, x, at, full)
              \/ SyncOpens(k, s, ep, x, at, full)
              \/ SyncRollsOver(i, k, s, ep, x, at, full)
    BY <1>4 DEF ApplySyncedWatch
  <2>2. ep = NoEpisode
    BY <1>1, <2>1
  <2>3. PICK w \in RoundId : RecordPlay(w, ep, x, at, full)
    BY <2>1 DEF SyncInto, SyncOpens, SyncRollsOver
  <2> QED  BY <1>1, <2>2, <2>3 DEF RecordPlay
<1>5. CASE \/ StartRewatch \/ DeleteArchivedRound \/ RemoveFromLibrary \/ UNCHANGED vars
  BY <1>1, <1>5 DEF StartRewatch, DeleteArchivedRound, RemoveFromLibrary, Cascade, vars
<1> QED  BY <1>3, <1>4, <1>5 DEF Next

LEMMA MovieInv == Spec => []MovieAlone
<1>1. Init => MovieAlone
  BY ScopeAssumption DEF Init, MovieAlone, Season, Movie
<1> QED  BY <1>1, MovieStaysAlone, TypeInvInductive, PTL DEF Spec

(* The loop over the targets keeps marks and events together.               *)
LEMMA ApplyToKeepsMatch ==
    ASSUME TypeInv, ProgressMatchesEvents, NEW i \in RoundId, NEW j \in ProgressJob,
           ApplyTo(i, j)
    PROVE  ProgressMatchesEvents'
<1> DEFINE marked == Stored(i, j.targets)
           new    == Rows(i, j.targets, j.at)
<1>1. \A p \in marked : p \in progress /\ p.round = i /\ p.ep \in j.targets
  BY DEF Stored, ProgressOf
<1>2. \A p \in progress : p.round = i /\ p.ep \in j.targets => p \in marked
  BY DEF Stored, ProgressOf
<1>3. \A p \in new : /\ Backs(EventOf(p, "manual"), p)
                     /\ EventOf(p, "manual").at = p.at
  BY DEF EventOf, Backs
<1>4. CASE Undo(i, j.targets)
  <2>1. /\ progress' = progress \ marked
        /\ events' = {e \in events : \A p \in marked : ~ Backs(e, p)}
    BY <1>4 DEF Undo
  <2>2. \A p \in progress', e \in events : Backs(e, p) => e \in events'
    BY <1>1, <1>2, <2>1 DEF Backs
  <2>3. \A e \in events', p \in progress : Backs(e, p) => p \in progress'
    BY <2>1
  <2> HIDE DEF marked
  <2> QED  BY <2>1, <2>2, <2>3 DEF ProgressMatchesEvents
<1>5. CASE Mark(i, j.targets, j.at)
  <2>1. /\ progress' = progress \cup new
        /\ events' = events \cup {EventOf(p, "manual") : p \in new}
    BY <1>5 DEF Mark
  <2> HIDE DEF new
  <2> QED  BY <1>3, <2>1 DEF ProgressMatchesEvents
<1>6. CASE SetTime(i, j.targets, j.at)
  <2> DEFINE retimed(p) == [p EXCEPT !.at = j.at]
             moved(e)   == IF \E p \in marked : Backs(e, p) THEN [e EXCEPT !.at = j.at] ELSE e
  <2>1. /\ progress' = (progress \ marked) \cup {retimed(p) : p \in marked} \cup new
        /\ events' = {moved(e) : e \in events} \cup {EventOf(p, "manual") : p \in new}
    BY <1>6 DEF SetTime
  <2>2. \A p \in marked : /\ retimed(p).at = j.at
                          /\ \A e : Backs(e, retimed(p)) <=> Backs(e, p)
    <3>1. \A p \in marked : p \in Progress
      BY <1>1 DEF TypeInv, TypeOK
    <3>2. \A p \in Progress : /\ retimed(p).at = j.at /\ retimed(p).round = p.round
                              /\ retimed(p).ep = p.ep /\ retimed(p).ext = p.ext
      BY DEF Progress
    <3> QED  BY <3>1, <3>2 DEF Backs
  <2>3. \A e \in events : /\ moved(e).ep = e.ep /\ moved(e).source = e.source
                          /\ \A p : Backs(moved(e), p) <=> Backs(e, p)
                          /\ (\E p \in marked : Backs(e, p)) => moved(e).at = j.at
                          /\ ~ (\E p \in marked : Backs(e, p)) => moved(e) = e
    <3>1. \A e \in events : e \in Event
      BY DEF TypeInv, TypeOK
    <3>2. \A e \in Event : LET m == [e EXCEPT !.at = j.at]
                           IN  /\ m.ep = e.ep /\ m.source = e.source /\ m.at = j.at
                               /\ m.round = e.round /\ m.ext = e.ext
      BY DEF Event
    <3> QED  BY <3>1, <3>2 DEF Backs
  <2>4. \A p \in progress \ marked, e \in events :
           Backs(e, p) => ~ \E q \in marked : Backs(e, q)
    BY <1>1, <1>2 DEF Backs
  <2> HIDE DEF marked, new, retimed, moved
  <2>5. ASSUME NEW p \in progress' PROVE \E e \in events' : Backs(e, p) /\ e.at = p.at
    <3>1. CASE p \in progress \ marked
      <4>1. PICK e \in events : Backs(e, p) /\ e.at = p.at
        BY <3>1 DEF ProgressMatchesEvents
      <4>2. moved(e) = e /\ moved(e) \in events'
        BY <2>1, <2>3, <2>4, <3>1, <4>1
      <4> QED  BY <4>1, <4>2
    <3>2. ASSUME NEW q \in marked, p = retimed(q)
          PROVE  \E e \in events' : Backs(e, p) /\ e.at = p.at
      <4>1. PICK e \in events : Backs(e, q)
        BY <1>1 DEF ProgressMatchesEvents
      <4>2. moved(e) \in events' /\ Backs(moved(e), p) /\ moved(e).at = p.at
        BY <2>1, <2>2, <2>3, <3>2, <4>1
      <4> QED  BY <4>2
    <3>3. CASE p \in new
      BY <1>3, <2>1, <3>3
    <3> QED  BY <2>1, <3>1, <3>2, <3>3
  <2>6. ASSUME NEW e \in events', e.ep # NoEpisode, e.source = "manual"
        PROVE  \E p \in progress' : Backs(e, p)
    <3>1. ASSUME NEW o \in events, e = moved(o)
          PROVE  \E p \in progress' : Backs(e, p)
      <4>1. PICK p \in progress : Backs(o, p)
        BY <2>3, <2>6, <3>1 DEF ProgressMatchesEvents
      <4>2. Backs(e, p)
        BY <2>3, <3>1, <4>1
      <4>3. CASE p \in marked
        BY <2>1, <2>2, <4>2, <4>3
      <4> QED  BY <2>1, <4>2, <4>3
    <3>2. CASE e \in {EventOf(p, "manual") : p \in new}
      BY <1>3, <2>1, <3>2
    <3> QED  BY <2>1, <3>1, <3>2
  <2> QED  BY <2>5, <2>6 DEF ProgressMatchesEvents
<1> QED  BY <1>4, <1>5, <1>6 DEF ApplyTo

(* Recording a play marks its episode with the play behind it; a cascade    *)
(* takes the marks and the events of a round together.                      *)
LEMMA RecordAndCascadeKeepMatch ==
    ASSUME ProgressMatchesEvents
    PROVE  /\ \A i, ep, x, at, full : RecordPlay(i, ep, x, at, full) => ProgressMatchesEvents'
           /\ \A gone : Cascade(gone) => ProgressMatchesEvents'
<1>1. ASSUME NEW i, NEW ep, NEW x, NEW at, NEW full, RecordPlay(i, ep, x, at, full)
      PROVE  ProgressMatchesEvents'
  <2> DEFINE play == [round |-> i, ep |-> ep, ext |-> x, source |-> "confirmed_sync",
                      at |-> at, full |-> full]
             row  == [round |-> i, ep |-> ep, ext |-> x, at |-> at]
  <2>1. /\ events' = events \cup {play}
        /\ progress' = progress \/ progress' = progress \cup {row}
    BY <1>1 DEF RecordPlay
  <2>2. Backs(play, row) /\ play.at = row.at /\ play.source # "manual"
    BY DEF Backs
  <2> HIDE DEF play, row
  <2> QED  BY <2>1, <2>2 DEF ProgressMatchesEvents
<1>2. ASSUME NEW gone, Cascade(gone)
      PROVE  ProgressMatchesEvents'
  BY <1>2 DEF Cascade, ProgressMatchesEvents, Backs
<1> QED  BY <1>1, <1>2

(* Progress and history agree: a marked episode is backed by an event of    *)
(* its round at the same instant, and a manual episode event exists only    *)
(* while its mark does.                                                     *)
THEOREM ProgressHasItsEvents == Spec => []ProgressMatchesEvents
<1>1. Init => ProgressMatchesEvents
  BY DEF Init, ProgressMatchesEvents
<1>2. TypeInv /\ MovieAlone /\ MovieAlone' /\ ProgressMatchesEvents /\ [Next]_vars
        => ProgressMatchesEvents'
  <2> SUFFICES ASSUME TypeInv, MovieAlone', ProgressMatchesEvents, [Next]_vars
               PROVE  ProgressMatchesEvents'
    OBVIOUS
  <2>1. CASE Movie \in Scope
    BY <2>1 DEF MovieAlone, ProgressMatchesEvents
  <2>2. CASE UNCHANGED <<events, progress>>
    BY <2>2 DEF ProgressMatchesEvents
  <2>3. ASSUME Movie \notin Scope, NEW c \in Client, Request(c)
        PROVE  ProgressMatchesEvents'
    <3>1. InsertRound(c) \/ UpdateRound(c) => job[c] \in WriteJob
      BY DEF InsertRound, UpdateRound, TypeInv, TypeOK, Idle, ClearJob, ProgressJob
    <3>2. job[c] \in WriteJob => job[c].scope # Movie
      BY <2>3 DEF WriteJob
    <3>3. InsertRound(c) \/ UpdateRound(c) => UNCHANGED <<events, progress>>
      <4>1. \A i, f : SyncMovieRoundEvent(i, job[c].scope, f) /\ job[c].scope # Movie
                       => events' = events
        BY DEF SyncMovieRoundEvent
      <4> QED  BY <3>1, <3>2, <4>1 DEF InsertRound, UpdateRound
    <3>4. CASE ApplySeasonEpisodeProgress(c)
      <4>1. job[c] \in ProgressJob
        BY <3>4 DEF ApplySeasonEpisodeProgress, EnsureEpisodeIdentities, TypeInv, TypeOK, Idle,
           WriteJob, ClearJob
      <4>2. \/ UNCHANGED <<events, progress>>
            \/ \E i \in RoundId : ApplyTo(i, job[c])
        BY <3>4 DEF ApplySeasonEpisodeProgress, EnsureEpisodeIdentities, ReviseByProgress,
           OpenByProgress, UndoNothing
      <4> QED  BY <2>2, <4>1, <4>2, ApplyToKeepsMatch
    <3>5. \/ BeginUpdate(c) \/ WriteRefused(c) \/ BeginClear(c) \/ ClearReads(c)
          \/ BeginProgress(c) \/ ProgressRefused(c)
          => UNCHANGED <<events, progress>>
      BY DEF BeginUpdate, WriteRefused, BeginClear, ClearReads, BeginProgress, ProgressRefused
    <3> QED  BY <2>2, <2>3, <3>3, <3>4, <3>5 DEF Request
  <2>4. CASE DeleteArchivedRound \/ RemoveFromLibrary
    BY <2>4, RecordAndCascadeKeepMatch DEF DeleteArchivedRound, RemoveFromLibrary
  <2>5. CASE ApplySyncedWatch
    <3>1. \E i, ep, x, at, full : RecordPlay(i, ep, x, at, full)
      BY <2>5 DEF ApplySyncedWatch, SyncInto, SyncOpens, SyncRollsOver
    <3> QED  BY <3>1, RecordAndCascadeKeepMatch
  <2>6. StartRewatch \/ UNCHANGED vars => UNCHANGED <<events, progress>>
    BY DEF StartRewatch, vars
  <2> QED  BY <2>1, <2>2, <2>3, <2>4, <2>5, <2>6 DEF Next
<1> QED  BY <1>1, <1>2, TypeInvInductive, MovieInv, PTL DEF Spec

(* The date of round i, when it is a completed movie, is that of an event.  *)
Eventful(i) == IsStored(i, Movie) /\ rounds[i].facts.status = "completed"
                  => \E e \in EventsOf(i) : e.at = rounds[i].facts.done

(* Writing a movie row leaves an event at its completion. *)
LEMMA MovieEventDates ==
    ASSUME TypeInv, NEW i \in RoundId, NEW f, f.status = "completed",
           SyncMovieRoundEvent(i, Movie, f)
    PROVE  \E e \in EventsOf(i)' : e.at = f.done
<1> DEFINE new == [round |-> i, ep |-> NoEpisode, ext |-> NoExt,
                   source |-> f.source, at |-> f.done, full |-> TRUE]
<1>1. CASE events' = events \cup {new}
  <2>1. new \in EventsOf(i)' /\ new.at = f.done
    BY <1>1 DEF EventsOf
  <2> QED  BY <2>1
<1>2. ASSUME NEW e \in EventsOf(i),
             events' = (events \ {e}) \cup {[e EXCEPT !.at = f.done, !.source = f.source]}
      PROVE  \E o \in EventsOf(i)' : o.at = f.done
  <2>1. e \in Event /\ e.round = i
    BY DEF EventsOf, TypeInv, TypeOK
  <2>2. /\ [e EXCEPT !.at = f.done, !.source = f.source].round = i
        /\ [e EXCEPT !.at = f.done, !.source = f.source].at = f.done
    BY <2>1 DEF Event
  <2> QED  BY <1>2, <2>2 DEF EventsOf
<1> QED  BY <1>1, <1>2 DEF SyncMovieRoundEvent

(* Recording a play of a movie completes it at the time of one of its plays. *)
LEMMA SyncedEventful ==
    ASSUME NEW i, NEW ep, NEW x, NEW at, NEW full, NEW review, NEW f,
           RecordPlay(i, ep, x, at, full), Synced(i, Movie, full, review, f),
           f.status = "completed"
    PROVE  \E e \in EventsOf(i)' : e.at = f.done
<1> DEFINE play == [round |-> i, ep |-> ep, ext |-> x, source |-> "confirmed_sync",
                    at |-> at, full |-> full]
<1>1. play \in {e \in events' : e.round = i}
  BY DEF RecordPlay
<1>2. IsLatest(f.done, {e.at : e \in {o \in events' : o.round = i}})
  BY DEF Synced, IsDone
<1>3. f.done \in {e.at : e \in {o \in events' : o.round = i}}
  BY <1>1, <1>2 DEF IsLatest
<1> QED  BY <1>3 DEF EventsOf

(* A round keeps its event with its facts. *)
LEMMA EventfulKept ==
    ASSUME NEW m \in RoundId, Eventful(m), EventsOf(m)' = EventsOf(m),
           IsStored(m, Movie)' => IsStored(m, Movie) /\ rounds'[m].facts = rounds[m].facts
    PROVE  Eventful(m)'
BY DEF Eventful

LEMMA RequestEventful ==
    ASSUME TypeInv, TypeInv', MovieAlone, Scope = {Movie}, NEW c \in Client, Request(c),
           NEW m \in RoundId, Eventful(m)
    PROVE  Eventful(m)'
<1>1. CASE InsertRound(c)
  <2>1. PICK i \in RoundId :
           /\ rounds[i] = Unused
           /\ rounds' = [rounds EXCEPT ![i] = NewRow(job[c].scope, 1, job[c].next)]
           /\ SyncMovieRoundEvent(i, job[c].scope, job[c].next)
           /\ UNCHANGED progress
    BY <1>1 DEF InsertRound
  <2>2. job[c].scope = Movie
    BY <1>1 DEF InsertRound, TypeInv, TypeOK, Idle, ClearJob, ProgressJob, WriteJob
  <2>3. CASE m = i
    <3>1. rounds'[m].facts = job[c].next
      BY <2>1, <2>3 DEF NewRow, TypeInv, TypeOK
    <3> QED  BY <2>1, <2>2, <2>3, <3>1, MovieEventDates DEF Eventful
  <2>4. CASE m # i
    <3>1. EventsOf(m)' = EventsOf(m)
      BY <2>1, <2>4, MovieEventIsOwn DEF Keeps
    <3>2. rounds'[m] = rounds[m]
      BY <2>1, <2>4 DEF TypeInv, TypeOK
    <3> QED  BY <3>1, <3>2, EventfulKept DEF IsStored
  <2> QED  BY <2>3, <2>4
<1>2. CASE UpdateRound(c)
  <2>1. /\ rounds' = [rounds EXCEPT ![job[c].base] =
                        Rewritten(rounds[job[c].base], job[c].version + 1, job[c].next)]
        /\ SyncMovieRoundEvent(job[c].base, job[c].scope, job[c].next)
        /\ UNCHANGED progress
    BY <1>2 DEF UpdateRound
  <2>2. job[c].base \in RoundId /\ job[c].scope = Movie
    BY <1>2 DEF UpdateRound, TypeInv, TypeOK, Idle, ClearJob, ProgressJob, WriteJob
  <2>3. CASE m = job[c].base
    <3>1. rounds'[m].facts = job[c].next
      BY <2>1, <2>3 DEF Rewritten, TypeInv, TypeOK
    <3> QED  BY <2>1, <2>2, <2>3, <3>1, MovieEventDates DEF Eventful
  <2>4. CASE m # job[c].base
    <3>1. EventsOf(m)' = EventsOf(m)
      BY <2>1, <2>2, <2>4, MovieEventIsOwn DEF Keeps
    <3>2. rounds'[m] = rounds[m]
      BY <2>1, <2>4 DEF TypeInv, TypeOK
    <3> QED  BY <3>1, <3>2, EventfulKept DEF IsStored
  <2> QED  BY <2>3, <2>4
<1>3. ~ ApplySeasonEpisodeProgress(c)
  BY DEF MovieAlone, ApplySeasonEpisodeProgress, EnsureEpisodeIdentities, TypeInv, TypeOK, Idle,
     WriteJob, ClearJob, ProgressJob
<1>4. CASE \/ BeginUpdate(c) \/ WriteRefused(c) \/ BeginClear(c) \/ ClearReads(c)
           \/ BeginProgress(c) \/ ProgressRefused(c)
  <2>1. UNCHANGED <<rounds, events>>
    BY <1>4 DEF BeginUpdate, WriteRefused, BeginClear, ClearReads, BeginProgress,
       ProgressRefused
  <2> QED  BY <2>1 DEF Eventful, IsStored, EventsOf
<1> QED  BY <1>1, <1>2, <1>3, <1>4 DEF Request

LEMMA SyncEventful ==
    ASSUME TypeInv, Scope = {Movie}, ApplySyncedWatch, NEW m \in RoundId, Eventful(m)
    PROVE  Eventful(m)'
<1>1. PICK ep \in Episode \cup {NoEpisode}, x \in ExtId, at \in Time,
           full \in BOOLEAN, i \in RoundId, k \in RoundId :
         \/ SyncInto(i, Movie, ep, x, at, full)
         \/ SyncOpens(k, Movie, ep, x, at, full)
         \/ SyncRollsOver(i, k, Movie, ep, x, at, full)
  BY DEF ApplySyncedWatch
<1>2. PICK w \in RoundId, f \in Fact :
         /\ RecordPlay(w, ep, x, at, full)
         /\ \E review : Synced(w, Movie, full, review, f)
         /\ rounds'[w].facts = f
         /\ m # w => \/ rounds'[m] = rounds[m]
                     \/ rounds[m].state = "current" /\ rounds'[m] = Archived(rounds[m])
  <2>1. CASE SyncInto(i, Movie, ep, x, at, full)
    BY <2>1 DEF SyncInto, Revised, Rewritten, TypeInv, TypeOK
  <2>2. CASE SyncOpens(k, Movie, ep, x, at, full)
    BY <2>2 DEF SyncOpens, NewRow, TypeInv, TypeOK
  <2>3. CASE SyncRollsOver(i, k, Movie, ep, x, at, full)
    <3>1. PICK n \in Number, f \in Fact :
             /\ Synced(k, Movie, full, NoReview, f)
             /\ rounds' = [rounds EXCEPT ![i] = Archived(rounds[i]), ![k] = NewRow(Movie, n, f)]
      BY <2>3 DEF SyncRollsOver
    <3>2. rounds'[k].facts = f
      BY <3>1 DEF NewRow, TypeInv, TypeOK
    <3>3. rounds[i].state = "current"
      BY <2>3 DEF SyncRollsOver, IsCurrent
    <3>4. m # k => \/ rounds'[m] = rounds[m]
                   \/ rounds[m].state = "current" /\ rounds'[m] = Archived(rounds[m])
      BY <3>1, <3>3 DEF TypeInv, TypeOK
    <3>5. RecordPlay(k, ep, x, at, full)
      BY <2>3 DEF SyncRollsOver
    <3> QED  BY <3>1, <3>2, <3>4, <3>5
  <2> QED  BY <1>1, <2>1, <2>2, <2>3
<1>3. CASE m = w
  BY <1>2, <1>3, SyncedEventful DEF Eventful
<1>4. CASE m # w
  <2>1. EventsOf(m)' = EventsOf(m)
    BY <1>2, <1>4, RecordPlayIsOwn DEF Keeps
  <2>2. CASE rounds'[m] = rounds[m]
    BY <2>1, <2>2, EventfulKept DEF IsStored
  <2>3. CASE rounds[m].state = "current" /\ rounds'[m] = Archived(rounds[m])
    <3>1. rounds[m] \in Row
      BY <2>3, StoredIsRow DEF TypeInv
    <3>2. rounds'[m].facts = rounds[m].facts /\ rounds'[m].scope = rounds[m].scope
      BY <2>3, <3>1 DEF Archived, Row
    <3> QED  BY <2>1, <2>3, <3>2, EventfulKept DEF IsStored
  <2> QED  BY <1>2, <1>4, <2>2, <2>3
<1> QED  BY <1>3, <1>4

LEMMA LibraryEventful ==
    ASSUME TypeInv, StartRewatch \/ DeleteArchivedRound \/ RemoveFromLibrary,
           NEW m \in RoundId, Eventful(m)
    PROVE  Eventful(m)'
<1>1. CASE StartRewatch
  <2> DEFINE next == [EmptyFact("manual") EXCEPT !.status = "watching"]
  <2>1. PICK i \in RoundId, k \in RoundId :
           /\ rounds[i].state = "current"
           /\ rounds' = [rounds EXCEPT ![i] = Archived(rounds[i]),
                             ![k] = NewRow(rounds[i].scope, rounds[i].number + 1, next)]
           /\ UNCHANGED events
    BY <1>1 DEF StartRewatch
  <2>2. next.status = "watching"
    BY DEF EmptyFact
  <2>3. /\ Archived(rounds[i]).facts = rounds[i].facts
        /\ Archived(rounds[i]).scope = rounds[i].scope
    BY <2>1, StoredIsRow DEF Archived, Row, TypeInv
  <2>4. EventsOf(m)' = EventsOf(m)
    BY <2>1 DEF EventsOf
  <2> HIDE DEF next
  <2>5. CASE m = k
    <3>1. rounds'[m].facts.status = "watching"
      BY <2>1, <2>2, <2>5 DEF NewRow, TypeInv, TypeOK
    <3> QED  BY <3>1 DEF Eventful
  <2>6. CASE m = i /\ m # k
    <3>1. rounds'[m] = Archived(rounds[i])
      BY <2>1, <2>6 DEF TypeInv, TypeOK
    <3> QED  BY <2>1, <2>3, <2>4, <2>6, <3>1, EventfulKept DEF IsStored
  <2>7. CASE m # i /\ m # k
    <3>1. rounds'[m] = rounds[m]
      BY <2>1, <2>7 DEF TypeInv, TypeOK
    <3> QED  BY <2>4, <3>1, EventfulKept DEF IsStored
  <2> QED  BY <2>5, <2>6, <2>7
<1>2. ASSUME NEW gone, Cascade(gone), NEW row, rounds'[m] = row,
             m \in gone => row = Deleted, m \notin gone => row = rounds[m]
      PROVE  Eventful(m)'
  <2>1. CASE m \in gone
    BY <1>2, <2>1 DEF Eventful, IsStored, Deleted
  <2>2. CASE m \notin gone
    <3>1. EventsOf(m)' = EventsOf(m)
      BY <1>2, <2>2 DEF Cascade, EventsOf
    <3> QED  BY <1>2, <2>2, <3>1, EventfulKept DEF IsStored
  <2> QED  BY <2>1, <2>2
<1>3. CASE DeleteArchivedRound
  <2>1. PICK i \in RoundId : rounds' = [rounds EXCEPT ![i] = Deleted] /\ Cascade({i})
    BY <1>3 DEF DeleteArchivedRound
  <2> QED  BY <1>2, <2>1 DEF TypeInv, TypeOK
<1>4. CASE RemoveFromLibrary
  BY <1>2, <1>4 DEF RemoveFromLibrary
<1> QED  BY <1>1, <1>3, <1>4

(* A completed movie round keeps an event at its completion time: the       *)
(* calendar and the statistics, which read events, show the completion.     *)
THEOREM CompletionsAreEvents == Spec => []CompletedMovieHasEvent
<1>1. Init => CompletedMovieHasEvent
  BY DEF Init, CompletedMovieHasEvent, IsStored, Unused
<1>2. TypeInv /\ TypeInv' /\ MovieAlone /\ CompletedMovieHasEvent /\ [Next]_vars
        => CompletedMovieHasEvent'
  <2> SUFFICES ASSUME TypeInv, TypeInv', MovieAlone, CompletedMovieHasEvent, [Next]_vars,
                      NEW m \in RoundId
               PROVE  Eventful(m)'
    BY DEF CompletedMovieHasEvent, Eventful
  <2>1. Eventful(m)
    BY DEF CompletedMovieHasEvent, Eventful
  <2>2. CASE Movie \notin Scope
    <3>1. ~ IsStored(m, Movie)'
      BY <2>2, StoredIsRow DEF IsStored, TypeInv, TypeOK, Row, Unused, Deleted
    <3> QED  BY <3>1 DEF Eventful
  <2>3. CASE Movie \in Scope
    <3>1. Scope = {Movie}
      BY <2>3 DEF MovieAlone
    <3>2. CASE UNCHANGED vars
      BY <2>1, <3>2 DEF vars, Eventful, IsStored, EventsOf
    <3> QED  BY <2>1, <3>1, <3>2, RequestEventful, SyncEventful, LibraryEventful DEF Next
  <2> QED  BY <2>2, <2>3
<1> QED  BY <1>1, <1>2, TypeInvInductive, MovieInv, PTL DEF Spec

-----------------------------------------------------------------------------
(* The interface to sync: every step keeps the book of PlayBook.tla.        *)

(* Every event has its round: what a round in the history or in progress    *)
(* owns goes with it.                                                       *)
EventsStored == \A e \in events : rounds[e.round].state \in {"current", "archived"}

(* The event e is one that was there, at another instant or taken over. *)
TakenFrom(e, o) ==
    e.ep = o.ep /\ e.ext = o.ext /\ (e.source = o.source \/ e.source = "manual")

(* What a write by hand leaves: its round i is the user's and in progress,  *)
(* what it has of external plays it had before, and of the other rounds one *)
(* of the scope may have been archived.                                     *)
WrittenByHand(i, s) ==
    /\ rounds[i] = Unused \/ IsCurrent(i, s)
    /\ IsCurrent(i, s)' /\ rounds'[i].facts.source = "manual"
    /\ \A e \in EventsOf(i)' : e.ext = NoExt \/ \E o \in EventsOf(i) : TakenFrom(e, o)
    /\ \A m \in RoundId \ {i} :
          /\ EventsOf(m)' = EventsOf(m)
          /\ \/ rounds'[m] = rounds[m]
             \/ IsCurrent(m, s) /\ rounds'[m] = Archived(rounds[m])

(* Archiving a row changes its state alone. *)
LEMMA ArchivedRow ==
    ASSUME NEW row \in Row
    PROVE  /\ Archived(row).state = "archived" /\ Archived(row).scope = row.scope
           /\ Archived(row).facts = row.facts
BY DEF Archived, Row

(* The others keep their events, and their rounds the scope. *)
LEMMA OthersStay ==
    ASSUME TypeInv, NEW i \in RoundId, NEW s \in Scope, WrittenByHand(i, s),
           NEW m \in RoundId, m # i, rounds[m].state \in {"current", "archived"}
    PROVE  /\ rounds'[m].state \in {"current", "archived"}
           /\ rounds'[m].scope = rounds[m].scope /\ rounds'[m].facts = rounds[m].facts
BY ArchivedRow, StoredIsRow DEF WrittenByHand, TypeInv

LEMMA HandIsEdit ==
    ASSUME TypeInv, TypeInv', EventsStored, NEW i \in RoundId, NEW s \in Scope,
           WrittenByHand(i, s)
    PROVE  Book!Edit /\ EventsStored'
<1>1. \A e \in events : e.round \in RoundId
  BY DEF TypeInv, TypeOK, Event
<1>2. \A e \in events' : e.round \in RoundId /\ e.ep \in Episode \cup {NoEpisode}
  BY DEF TypeInv, TypeOK, Event
<1>3. \A e : e \in events' /\ e.round # i <=> e \in events /\ e.round # i
  BY <1>1, <1>2 DEF WrittenByHand, EventsOf
<1>4. \A ep \in Episode \cup {NoEpisode} : <<s, ep>> \in Held'
  BY DEF WrittenByHand, Held, ByHand
<1>5. Held \subseteq Held'
  <2> SUFFICES ASSUME NEW u \in Scope, NEW ep \in Episode \cup {NoEpisode},
                      NEW m \in RoundId, IsCurrent(m, u), ByHand(rounds[m])
               PROVE  <<u, ep>> \in Held'
    BY DEF Held
  <2>1. CASE u = s
    BY <1>4, <2>1
  <2>2. CASE u # s
    <3>1. m # i
      BY <2>2 DEF WrittenByHand, IsCurrent, Unused
    <3>2. rounds'[m] = rounds[m]
      BY <2>2, <3>1 DEF WrittenByHand, IsCurrent
    <3> QED  BY <3>2 DEF Held, IsCurrent, ByHand
  <2> QED  BY <2>1, <2>2
<1>6. \A e \in events : e.round # i => PlayOf(e)' = PlayOf(e)
  BY <1>1, OthersStay DEF EventsStored, PlayOf
<1>7. ASSUME NEW p \in Plays, p.target \notin Held'
      PROVE  p \in Plays'
  <2>1. PICK e \in events : e.ext # NoExt /\ p = PlayOf(e)
    BY <1>7 DEF Plays
  <2>2. e.round # i
    <3>1. SUFFICES ASSUME e.round = i PROVE FALSE
      OBVIOUS
    <3>2. rounds[i].scope = s
      BY <3>1 DEF EventsStored, WrittenByHand, Unused, IsCurrent
    <3>3. p.target = <<s, e.ep>> /\ e.ep \in Episode \cup {NoEpisode}
      BY <2>1, <3>1, <3>2 DEF PlayOf, TypeInv, TypeOK, Event
    <3> QED  BY <1>4, <1>7, <3>3
  <2> QED  BY <1>3, <1>6, <2>1, <2>2 DEF Plays
<1>8. ASSUME NEW p \in Plays', p \notin Plays
      PROVE  p.target \in Held' /\ \E q \in Plays : p = Book!TakenOver(q)
  <2>1. PICK e \in events' : e.ext # NoExt /\ p = PlayOf(e)'
    BY <1>8 DEF Plays
  <2>2. e.round = i
    BY <1>3, <1>6, <1>8, <2>1 DEF Plays
  <2>3. PICK o \in EventsOf(i) : TakenFrom(e, o)
    BY <2>1, <2>2 DEF WrittenByHand, EventsOf
  <2>4. o \in events /\ o.round = i /\ o.ext # NoExt
    BY <2>1, <2>3 DEF EventsOf, TakenFrom
  <2>5. rounds[i].scope = s /\ rounds'[i].scope = s
    BY <2>4 DEF EventsStored, WrittenByHand, Unused, IsCurrent
  <2>6. p = [event |-> o.ext, target |-> <<s, o.ep>>, source |-> e.source]
    BY <2>1, <2>2, <2>3, <2>5 DEF PlayOf, TakenFrom
  <2>7. PlayOf(o) \in Plays
        /\ PlayOf(o) = [event |-> o.ext, target |-> <<s, o.ep>>, source |-> o.source]
    BY <2>4, <2>5 DEF Plays, PlayOf
  <2>8. e.source = "manual"
    BY <1>8, <2>3, <2>6, <2>7 DEF TakenFrom
  <2>9. p = Book!TakenOver(PlayOf(o))
    BY <2>6, <2>7, <2>8 DEF Book!TakenOver
  <2>10. p.target \in Held'
    BY <1>2, <1>4, <2>1, <2>3, <2>6 DEF TakenFrom
  <2> QED  BY <2>7, <2>9, <2>10
<1>9. Book!Edit
  <2>1. Held' \subseteq Scope \X (Episode \cup {NoEpisode})
    BY DEF Held
  <2> QED  BY <1>5, <1>7, <1>8, <2>1 DEF Book!Edit
<1>10. EventsStored'
  <2> SUFFICES ASSUME NEW e \in events'
               PROVE  rounds'[e.round].state \in {"current", "archived"}
    BY DEF EventsStored
  <2>1. CASE e.round = i
    BY <2>1 DEF WrittenByHand, IsCurrent
  <2>2. CASE e.round # i
    <3>1. e.round \in RoundId /\ rounds[e.round].state \in {"current", "archived"}
      BY <1>2, <1>3, <2>2 DEF EventsStored
    <3> QED  BY <2>2, <3>1, OthersStay
  <2> QED  BY <2>1, <2>2
<1> QED  BY <1>9, <1>10

(* Rounds that leave take their events along: plays only go. *)
LEMMA RemovalIsDrop ==
    ASSUME TypeInv, TypeInv', EventsStored, events' \subseteq events,
           \A m \in RoundId : \/ rounds'[m] = rounds[m]
                              \/ rounds'[m] = Deleted /\ EventsOf(m)' = {}
    PROVE  Book!Drop /\ EventsStored'
<1>1. \A e \in events' : e.round \in RoundId /\ e \in EventsOf(e.round)'
  BY DEF TypeInv, TypeOK, Event, EventsOf
<1>2. \A e \in events' : rounds'[e.round] = rounds[e.round]
  BY <1>1
<1>3. Held' \subseteq Held
  BY DEF Held, IsCurrent, Deleted
<1>4. Plays' \subseteq Plays
  BY <1>2 DEF Plays, PlayOf
<1>5. EventsStored'
  BY <1>2 DEF EventsStored
<1> QED  BY <1>3, <1>4, <1>5 DEF Book!Drop

(* What a synced play leaves: its round is in progress and was not, or not  *)
(* by hand; another of the scope may have been archived that was not by     *)
(* hand either.                                                             *)
WrittenBySync(w, s) ==
    /\ rounds[w] = Unused \/ IsCurrent(w, s)
    /\ IsCurrent(w, s)' /\ ~ ByHand(rounds'[w])
    /\ \A m \in RoundId : IsCurrent(m, s) => ~ ByHand(rounds[m])
    /\ \A m \in RoundId \ {w} :
          \/ rounds'[m] = rounds[m]
          \/ IsCurrent(m, s) /\ rounds'[m] = Archived(rounds[m])

(* Rows that sync may write are not the user's. *)
LEMMA SyncOutranked ==
    ASSUME NEW row, SyncMayWrite(row)
    PROVE  ~ ByHand(row)
BY DEF SyncMayWrite, CanOverwrite, SourcePriority, ByHand

LEMMA SyncWrites ==
    ASSUME TypeInv, ScopesConsistent, NEW s \in Scope, NEW ep, NEW x, NEW at, NEW full,
           NEW i \in RoundId, NEW k \in RoundId,
           \/ SyncInto(i, s, ep, x, at, full)
           \/ SyncOpens(k, s, ep, x, at, full)
           \/ SyncRollsOver(i, k, s, ep, x, at, full)
    PROVE  \E w \in RoundId : RecordPlay(w, ep, x, at, full) /\ WrittenBySync(w, s)
<1>1. ASSUME IsCurrent(i, s), SyncMayWrite(rounds[i])
      PROVE  \A m \in RoundId : IsCurrent(m, s) => ~ ByHand(rounds[m])
  BY <1>1, SyncOutranked DEF ScopesConsistent
<1>2. CASE SyncInto(i, s, ep, x, at, full)
  <2>1. PICK f \in Fact : /\ f.source = "confirmed_sync"
                          /\ rounds' = [rounds EXCEPT ![i] = Revised(rounds[i], f)]
    BY <1>2 DEF SyncInto, Synced
  <2>2. IsCurrent(i, s)' /\ ~ ByHand(rounds'[i])
    BY <1>2, <2>1 DEF SyncInto, IsCurrent, ByHand, Revised, Rewritten, TypeInv, TypeOK
  <2>3. \A m \in RoundId \ {i} : rounds'[m] = rounds[m]
    BY <2>1 DEF TypeInv, TypeOK
  <2> QED  BY <1>1, <1>2, <2>2, <2>3 DEF SyncInto, WrittenBySync
<1>3. CASE SyncOpens(k, s, ep, x, at, full)
  <2>1. PICK n \in Number, f \in Fact : /\ f.source = "confirmed_sync"
                                        /\ rounds' = [rounds EXCEPT ![k] = NewRow(s, n, f)]
    BY <1>3 DEF SyncOpens, Synced
  <2>2. IsCurrent(k, s)' /\ ~ ByHand(rounds'[k])
    BY <2>1 DEF NewRow, IsCurrent, ByHand, TypeInv, TypeOK
  <2>3. \A m \in RoundId \ {k} : rounds'[m] = rounds[m]
    BY <2>1 DEF TypeInv, TypeOK
  <2> QED  BY <1>3, <2>2, <2>3 DEF SyncOpens, WrittenBySync, NoCurrent
<1>4. CASE SyncRollsOver(i, k, s, ep, x, at, full)
  <2>1. PICK n \in Number, f \in Fact :
           /\ f.source = "confirmed_sync"
           /\ rounds' = [rounds EXCEPT ![i] = Archived(rounds[i]), ![k] = NewRow(s, n, f)]
    BY <1>4 DEF SyncRollsOver, Synced
  <2>2. i # k /\ rounds[k] = Unused
    BY <1>4 DEF SyncRollsOver, IsCurrent, Unused
  <2>3. IsCurrent(k, s)' /\ ~ ByHand(rounds'[k])
    BY <2>1, <2>2 DEF NewRow, IsCurrent, ByHand, TypeInv, TypeOK
  <2>4. /\ rounds'[i] = Archived(rounds[i])
        /\ \A m \in RoundId \ {i, k} : rounds'[m] = rounds[m]
    BY <2>1, <2>2 DEF TypeInv, TypeOK
  <2> QED  BY <1>1, <1>4, <2>2, <2>3, <2>4 DEF SyncRollsOver, WrittenBySync
<1> QED  BY <1>2, <1>3, <1>4

LEMMA SyncIsRecord ==
    ASSUME TypeInv, TypeInv', ScopesConsistent, EventsStored, ApplySyncedWatch
    PROVE  Book!Record /\ EventsStored'
<1>1. PICK s \in Scope, ep \in Episode \cup {NoEpisode}, x \in ExtId, at \in Time,
           full \in BOOLEAN, i \in RoundId, k \in RoundId :
         /\ \A e \in events : e.ext = x => e.source # "confirmed_sync"
         /\ \/ SyncInto(i, s, ep, x, at, full)
            \/ SyncOpens(k, s, ep, x, at, full)
            \/ SyncRollsOver(i, k, s, ep, x, at, full)
  BY DEF ApplySyncedWatch
<1>2. PICK w \in RoundId : RecordPlay(w, ep, x, at, full) /\ WrittenBySync(w, s)
  BY <1>1, SyncWrites
<1> DEFINE e0 == [round |-> w, ep |-> ep, ext |-> x, source |-> "confirmed_sync",
                  at |-> at, full |-> full]
           p0 == [event |-> x, target |-> <<s, ep>>, source |-> "confirmed_sync"]
<1>3. events' = events \cup {e0}
  BY <1>2 DEF RecordPlay
<1>4. \A m \in RoundId : rounds[m].state \in {"current", "archived"} =>
         /\ rounds'[m].state \in {"current", "archived"}
         /\ rounds'[m].scope = rounds[m].scope
  <2>1. rounds[w].state \in {"current", "archived"} => IsCurrent(w, s)
    BY <1>2 DEF WrittenBySync, Unused
  <2> QED  BY <1>2, <2>1, ArchivedRow, StoredIsRow DEF WrittenBySync, IsCurrent, TypeInv
<1>5. \A e \in events : /\ e.round \in RoundId
                        /\ rounds'[e.round].state \in {"current", "archived"}
                        /\ PlayOf(e)' = PlayOf(e)
  BY <1>4 DEF EventsStored, PlayOf, TypeInv, TypeOK, Event
<1>6. rounds'[w].state = "current" /\ rounds'[w].scope = s
  BY <1>2 DEF WrittenBySync, IsCurrent
<1>7. PlayOf(e0)' = p0
  BY <1>6 DEF PlayOf
<1>8. Plays' = Plays \cup {p0}
  <2>1. e0.ext # NoExt
    BY DataAssumption DEF NoExt
  <2> HIDE DEF e0, p0
  <2> QED  BY <1>3, <1>5, <1>7, <2>1 DEF Plays
<1>9. Held' = Held
  <2> SUFFICES ASSUME NEW u \in Scope, NEW m \in RoundId
               PROVE  (IsCurrent(m, u) /\ ByHand(rounds[m]))
                        <=> (IsCurrent(m, u)' /\ ByHand(rounds'[m]))
    BY DEF Held
  <2>1. CASE m = w
    BY <1>2, <2>1 DEF WrittenBySync, IsCurrent, Unused
  <2>2. CASE m # w
    <3>1. CASE rounds'[m] = rounds[m]
      BY <3>1 DEF IsCurrent
    <3>2. CASE IsCurrent(m, s) /\ rounds'[m] = Archived(rounds[m])
      <4>1. rounds'[m].state = "archived"
        BY <3>2, ArchivedRow, StoredIsRow DEF IsCurrent, TypeInv
      <4>2. ~ ByHand(rounds[m])
        BY <1>2, <3>2 DEF WrittenBySync
      <4> QED  BY <4>1, <4>2 DEF IsCurrent
    <3> QED  BY <1>2, <2>2, <3>1, <3>2 DEF WrittenBySync
  <2> QED  BY <2>1, <2>2
<1>10. <<s, ep>> \notin Held
  BY <1>2 DEF Held, WrittenBySync
<1>11. \A p \in Book!Synced : p.event # x
  BY <1>1 DEF Book!Synced, Plays, PlayOf
<1>12. Book!Record
  <2>1. <<s, ep>> \in (Scope \X (Episode \cup {NoEpisode})) \ Held
    BY <1>10
  <2> QED  BY <1>8, <1>9, <1>11, <2>1 DEF Book!Record
<1>13. EventsStored'
  BY <1>3, <1>5, <1>6 DEF EventsStored
<1> QED  BY <1>12, <1>13

(* An edit of the movie row takes its event over, writes one of its own or  *)
(* drops one.                                                               *)
LEMMA MovieEventTaken ==
    ASSUME TypeInv, NEW i \in RoundId, NEW s, NEW f, f.source = "manual",
           SyncMovieRoundEvent(i, s, f)
    PROVE  \A e \in EventsOf(i)' : e.ext = NoExt \/ \E o \in EventsOf(i) : TakenFrom(e, o)
<1> DEFINE new == [round |-> i, ep |-> NoEpisode, ext |-> NoExt,
                   source |-> f.source, at |-> f.done, full |-> TRUE]
<1>1. CASE events' \subseteq events
  BY <1>1 DEF EventsOf, TakenFrom
<1>2. CASE events' = events \cup {new}
  BY <1>2 DEF EventsOf, TakenFrom
<1>3. ASSUME NEW o \in EventsOf(i),
             events' = (events \ {o}) \cup {[o EXCEPT !.at = f.done, !.source = f.source]}
      PROVE  \A e \in EventsOf(i)' : \E b \in EventsOf(i) : TakenFrom(e, b)
  <2>1. TakenFrom([o EXCEPT !.at = f.done, !.source = f.source], o)
    BY <1>3 DEF TakenFrom, EventsOf, TypeInv, TypeOK, Event
  <2>2. \A e \in EventsOf(i) : TakenFrom(e, e)
    BY DEF TakenFrom
  <2> QED  BY <1>3, <2>1, <2>2 DEF EventsOf
<1> QED  BY <1>1, <1>2, <1>3 DEF SyncMovieRoundEvent

(* Undoing, retiming and marking leave of a round's external plays some,    *)
(* and all of them when no mark changes.                                    *)
LEMMA ApplyToTaken ==
    ASSUME TypeInv, NEW i \in RoundId, NEW j \in ProgressJob, ApplyTo(i, j)
    PROVE  /\ \A e \in EventsOf(i)' : e.ext = NoExt
                 \/ \E o \in EventsOf(i) : e.ep = o.ep /\ e.ext = o.ext /\ e.source = o.source
           /\ progress' = progress =>
                 \A o \in EventsOf(i) :
                    \E e \in EventsOf(i)' : e.ep = o.ep /\ e.ext = o.ext /\ e.source = o.source
<1>1. \A p \in Rows(i, j.targets, j.at) : EventOf(p, "manual").ext = NoExt
  BY DEF Rows, EventOf
<1>2. CASE Undo(i, j.targets)
  <2>1. Stored(i, j.targets) \subseteq progress
    BY DEF Stored, ProgressOf
  <2>2. progress' = progress => Stored(i, j.targets) = {}
    BY <1>2, <2>1 DEF Undo
  <2> QED  BY <1>2, <2>2 DEF Undo, EventsOf
<1>3. CASE Mark(i, j.targets, j.at)
  BY <1>1, <1>3 DEF Mark, EventsOf
<1>4. CASE SetTime(i, j.targets, j.at)
  <2> DEFINE moved(e) == IF \E p \in Stored(i, j.targets) : Backs(e, p)
                         THEN [e EXCEPT !.at = j.at] ELSE e
  <2>1. \A e \in events : /\ moved(e).round = e.round /\ moved(e).source = e.source
                          /\ moved(e).ep = e.ep /\ moved(e).ext = e.ext
    BY DEF TypeInv, TypeOK, Event
  <2>2. events' = {moved(e) : e \in events}
                    \cup {EventOf(p, "manual") : p \in Rows(i, j.targets, j.at)}
    BY <1>4 DEF SetTime
  <2> HIDE DEF moved
  <2> QED  BY <1>1, <2>1, <2>2 DEF EventsOf
<1> QED  BY <1>2, <1>3, <1>4 DEF ApplyTo

(* Rounds as they were, and the same external plays under them: the book    *)
(* does not move.                                                           *)
LEMMA SamePlaysStutter ==
    ASSUME TypeInv, TypeInv', EventsStored, NEW i \in RoundId, UNCHANGED rounds,
           rounds[i].state \in {"current", "archived"},
           \A m \in RoundId \ {i} : EventsOf(m)' = EventsOf(m),
           \A e \in EventsOf(i)' : e.ext = NoExt
              \/ \E o \in EventsOf(i) : e.ep = o.ep /\ e.ext = o.ext /\ e.source = o.source,
           \A o \in EventsOf(i) :
              \E e \in EventsOf(i)' : e.ep = o.ep /\ e.ext = o.ext /\ e.source = o.source
    PROVE  UNCHANGED <<Plays, Held>> /\ EventsStored'
<1>1. \A e \in events \cup events' : e.round \in RoundId
  BY DEF TypeInv, TypeOK, Event
<1>2. \A e : e \in events' /\ e.round # i <=> e \in events /\ e.round # i
  BY <1>1 DEF EventsOf
<1>3. \A e : PlayOf(e)' = PlayOf(e)
  BY DEF PlayOf
<1>4. \A e, o : e.round = o.round /\ e.ep = o.ep /\ e.ext = o.ext /\ e.source = o.source
                   => PlayOf(e) = PlayOf(o)
  BY DEF PlayOf
<1>5. \A p : p \in Plays' <=> \E e \in events' : e.ext # NoExt /\ p = PlayOf(e)
  BY <1>3 DEF Plays
<1>6. \A p : p \in Plays <=> \E e \in events : e.ext # NoExt /\ p = PlayOf(e)
  BY DEF Plays
<1>7. ASSUME NEW e \in events', e.ext # NoExt
      PROVE  PlayOf(e) \in Plays
  <2>1. CASE e.round # i
    BY <1>2, <1>6, <1>7, <2>1
  <2>2. CASE e.round = i
    <3>1. PICK o \in EventsOf(i) : e.ep = o.ep /\ e.ext = o.ext /\ e.source = o.source
      BY <1>7, <2>2 DEF EventsOf
    <3> QED  BY <1>4, <1>6, <1>7, <2>2, <3>1 DEF EventsOf
  <2> QED  BY <2>1, <2>2
<1>8. ASSUME NEW o \in events, o.ext # NoExt
      PROVE  PlayOf(o) \in Plays'
  <2>1. CASE o.round # i
    BY <1>2, <1>5, <1>8, <2>1
  <2>2. CASE o.round = i
    <3>1. PICK e \in EventsOf(i)' : e.ep = o.ep /\ e.ext = o.ext /\ e.source = o.source
      BY <2>2 DEF EventsOf
    <3> QED  BY <1>4, <1>5, <1>8, <2>2, <3>1 DEF EventsOf
  <2> QED  BY <2>1, <2>2
<1>9. Plays' = Plays
  BY <1>5, <1>6, <1>7, <1>8
<1>10. Held' = Held
  BY DEF Held, IsCurrent
<1>11. EventsStored'
  BY <1>2 DEF EventsStored
<1> QED  BY <1>9, <1>10, <1>11

(* Reads and refusals leave the book alone. *)
LEMMA ReadsStutter ==
    ASSUME EventsStored, UNCHANGED <<rounds, events>>
    PROVE  UNCHANGED <<Plays, Held>> /\ EventsStored'
BY DEF EventsStored, Plays, PlayOf, Held, IsCurrent

(* A new row of the scope by hand, the movie event its own. *)
LEMMA OpenedByHand ==
    ASSUME TypeInv, NEW i \in RoundId, NEW s \in Scope, NEW n, NEW f, f.source = "manual",
           rounds[i] = Unused, rounds' = [rounds EXCEPT ![i] = NewRow(s, n, f)],
           \A m \in RoundId \ {i} : EventsOf(m)' = EventsOf(m),
           \A e \in EventsOf(i)' : e.ext = NoExt \/ \E o \in EventsOf(i) : TakenFrom(e, o)
    PROVE  WrittenByHand(i, s)
<1>1. rounds'[i] = NewRow(s, n, f) /\ \A m \in RoundId \ {i} : rounds'[m] = rounds[m]
  BY DEF TypeInv, TypeOK
<1>2. IsCurrent(i, s)' /\ rounds'[i].facts.source = "manual"
  BY <1>1 DEF IsCurrent, NewRow
<1> QED  BY <1>1, <1>2 DEF WrittenByHand

(* The round in progress rewritten by hand. *)
LEMMA RevisedByHand ==
    ASSUME TypeInv, NEW i \in RoundId, rounds[i].state = "current", NEW v, NEW f,
           f.source = "manual", rounds' = [rounds EXCEPT ![i] = Rewritten(rounds[i], v, f)],
           \A m \in RoundId \ {i} : EventsOf(m)' = EventsOf(m),
           \A e \in EventsOf(i)' : e.ext = NoExt \/ \E o \in EventsOf(i) : TakenFrom(e, o)
    PROVE  \E s \in Scope : WrittenByHand(i, s)
<1>1. PICK s \in Scope : s = rounds[i].scope
  BY StoredIsRow DEF Row, TypeInv
<1>2. rounds'[i] = Rewritten(rounds[i], v, f)
      /\ \A m \in RoundId \ {i} : rounds'[m] = rounds[m]
  BY DEF TypeInv, TypeOK
<1>3. rounds'[i].state = "current" /\ rounds'[i].scope = s /\ rounds'[i].facts.source = "manual"
  BY <1>1, <1>2 DEF Rewritten
<1>4. WrittenByHand(i, s)
  BY <1>1, <1>2, <1>3 DEF WrittenByHand, IsCurrent
<1> QED  BY <1>4

(* Each request is an edit by hand at the scope it writes, or writes        *)
(* nothing the book holds.                                                  *)
LEMMA RequestIsEdit ==
    ASSUME TypeInv, TypeInv', PreparedManual, EventsStored, NEW c \in Client, Request(c)
    PROVE  (Book!Edit \/ UNCHANGED <<Plays, Held>>) /\ EventsStored'
<1>1. CASE InsertRound(c)
  <2>1. job[c].scope \in Scope /\ job[c].next.source = "manual"
    BY <1>1 DEF InsertRound, PreparedManual, TypeInv, TypeOK, Idle, WriteJob, ClearJob,
       ProgressJob
  <2>2. PICK s, f : /\ s \in Scope /\ s = job[c].scope
                     /\ f = job[c].next /\ f.source = "manual"
    BY <2>1
  <2>3. PICK i \in RoundId :
           /\ rounds[i] = Unused
           /\ rounds' = [rounds EXCEPT ![i] = NewRow(s, 1, f)]
           /\ SyncMovieRoundEvent(i, s, f)
           /\ UNCHANGED progress
    BY <1>1, <2>2 DEF InsertRound
  <2>4. \A m \in RoundId \ {i} : EventsOf(m)' = EventsOf(m)
    BY <2>3, MovieEventIsOwn DEF Keeps
  <2>5. \A e \in EventsOf(i)' : e.ext = NoExt \/ \E o \in EventsOf(i) : TakenFrom(e, o)
    BY <2>2, <2>3, MovieEventTaken
  <2>6. WrittenByHand(i, s)
    BY <2>2, <2>3, <2>4, <2>5, OpenedByHand
  <2> QED  BY <2>2, <2>6, HandIsEdit
<1>2. CASE UpdateRound(c)
  <2>1. PICK i, s, f, v :
           /\ i = job[c].base /\ s = job[c].scope /\ f = job[c].next
           /\ v = job[c].version + 1
    OBVIOUS
  <2>2. i \in RoundId /\ f.source = "manual"
    BY <1>2, <2>1 DEF UpdateRound, PreparedManual, TypeInv, TypeOK, Idle, WriteJob, ClearJob,
       ProgressJob
  <2>3. /\ rounds[i].state = "current"
        /\ rounds' = [rounds EXCEPT ![i] = Rewritten(rounds[i], v, f)]
        /\ SyncMovieRoundEvent(i, s, f)
        /\ UNCHANGED progress
    BY <1>2, <2>1 DEF UpdateRound, Guarded
  <2>4. \A m \in RoundId \ {i} : EventsOf(m)' = EventsOf(m)
    BY <2>2, <2>3, MovieEventIsOwn DEF Keeps
  <2>5. \A e \in EventsOf(i)' : e.ext = NoExt \/ \E o \in EventsOf(i) : TakenFrom(e, o)
    BY <2>2, <2>3, MovieEventTaken
  <2>6. \E u \in Scope : WrittenByHand(i, u)
    BY <2>2, <2>3, <2>4, <2>5, RevisedByHand
  <2> QED  BY <2>2, <2>6, HandIsEdit
<1>3. CASE ApplySeasonEpisodeProgress(c)
  <2>1. PICK j \in ProgressJob : j = job[c]
    BY <1>3 DEF ApplySeasonEpisodeProgress, EnsureEpisodeIdentities, TypeInv, TypeOK, Idle,
       WriteJob, ClearJob
  <2>2. ASSUME NEW i \in RoundId, ApplyTo(i, j)
        PROVE  /\ \A m \in RoundId \ {i} : EventsOf(m)' = EventsOf(m)
               /\ \A e \in EventsOf(i)' : e.ext = NoExt
                     \/ \E o \in EventsOf(i) : TakenFrom(e, o)
    BY <2>2, ApplyToIsOwn, ApplyToTaken DEF Keeps, TakenFrom
  <2>3. ASSUME NEW i \in RoundId, ReviseByProgress(i, j)
        PROVE  (Book!Edit \/ UNCHANGED <<Plays, Held>>) /\ EventsStored'
    <3>1. ApplyTo(i, j) /\ rounds[i].state = "current"
      BY <2>3 DEF ReviseByProgress, IsCurrent
    <3>2. CASE progress' = progress /\ UNCHANGED rounds
      BY <2>2, <3>1, <3>2, ApplyToTaken, SamePlaysStutter
    <3>3. ASSUME NEW f \in Fact, f.source = "manual",
                 rounds' = [rounds EXCEPT ![i] = Revised(rounds[i], f)]
          PROVE  Book!Edit /\ EventsStored'
      <4>1. PICK v : v = rounds[i].version + 1
        OBVIOUS
      <4>2. rounds' = [rounds EXCEPT ![i] = Rewritten(rounds[i], v, f)]
        BY <3>3, <4>1 DEF Revised
      <4>3. \E u \in Scope : WrittenByHand(i, u)
        BY <2>2, <3>1, <3>3, <4>2, RevisedByHand
      <4> QED  BY <4>3, HandIsEdit
    <3> QED  BY <2>3, <3>2, <3>3 DEF ReviseByProgress, Recounted
  <2>4. ASSUME NEW i \in RoundId, OpenByProgress(i, j)
        PROVE  Book!Edit /\ EventsStored'
    <3>1. PICK s \in Scope : s = j.scope
      BY DEF ProgressJob, Season
    <3>2. PICK n \in Number, f \in Fact :
             f.source = "manual" /\ rounds' = [rounds EXCEPT ![i] = NewRow(s, n, f)]
      BY <2>4, <3>1 DEF OpenByProgress, Recounted
    <3>3. ApplyTo(i, j) /\ rounds[i] = Unused
      BY <2>4 DEF OpenByProgress
    <3>4. WrittenByHand(i, s)
      BY <2>2, <3>2, <3>3, OpenedByHand
    <3> QED  BY <3>4, HandIsEdit
  <2>5. UndoNothing(j) => UNCHANGED <<Plays, Held>> /\ EventsStored'
    BY ReadsStutter DEF UndoNothing
  <2> QED  BY <1>3, <2>1, <2>3, <2>4, <2>5 DEF ApplySeasonEpisodeProgress, EnsureEpisodeIdentities
<1>4. CASE \/ BeginUpdate(c) \/ WriteRefused(c) \/ BeginClear(c) \/ ClearReads(c)
           \/ BeginProgress(c) \/ ProgressRefused(c)
  BY <1>4, ReadsStutter DEF BeginUpdate, WriteRefused, BeginClear, ClearReads, BeginProgress,
     ProgressRefused
<1> QED  BY <1>1, <1>2, <1>3, <1>4 DEF Request

(* A rewatch is the user's; what leaves the library or the history takes    *)
(* its plays along.                                                         *)
LEMMA RewatchIsEdit ==
    ASSUME TypeInv, TypeInv', EventsStored, StartRewatch
    PROVE  Book!Edit /\ EventsStored'
<1> DEFINE next == [EmptyFact("manual") EXCEPT !.status = "watching"]
<1>1. PICK i, k, s, n :
         /\ i \in RoundId /\ k \in RoundId
         /\ rounds[i].state = "current" /\ rounds[i].scope = s
         /\ rounds[k] = Unused
         /\ rounds' = [rounds EXCEPT ![i] = Archived(rounds[i]), ![k] = NewRow(s, n, next)]
         /\ events' = events
  BY DEF StartRewatch
<1>2. s \in Scope
  BY <1>1, StoredIsRow DEF Row, TypeInv
<1>3. i # k
  BY <1>1 DEF Unused
<1>4. /\ rounds'[i] = Archived(rounds[i]) /\ rounds'[k] = NewRow(s, n, next)
      /\ \A m \in RoundId \ {i, k} : rounds'[m] = rounds[m]
  BY <1>1, <1>3 DEF TypeInv, TypeOK
<1>5. rounds'[k].state = "current" /\ rounds'[k].scope = s /\ rounds'[k].facts.source = "manual"
  BY <1>4 DEF NewRow, EmptyFact
<1>6. WrittenByHand(k, s)
  BY <1>1, <1>4, <1>5 DEF WrittenByHand, IsCurrent, EventsOf, TakenFrom
<1> QED  BY <1>1, <1>2, <1>6, HandIsEdit

LEMMA RemovalsAreDrops ==
    ASSUME TypeInv, TypeInv', EventsStored, DeleteArchivedRound \/ RemoveFromLibrary
    PROVE  Book!Drop /\ EventsStored'
<1>1. CASE DeleteArchivedRound
  <2>1. PICK i \in RoundId : /\ rounds' = [rounds EXCEPT ![i] = Deleted]
                             /\ Cascade({i})
    BY <1>1 DEF DeleteArchivedRound
  <2> QED  BY <2>1, RemovalIsDrop DEF Cascade, EventsOf, TypeInv, TypeOK
<1>2. CASE RemoveFromLibrary
  BY <1>2, RemovalIsDrop DEF RemoveFromLibrary, Cascade, EventsOf
<1> QED  BY <1>1, <1>2

(* The rounds keep their side of the interface: whatever edits, progress,   *)
(* rewatches, removals and synced plays interleave, a play enters once and  *)
(* where the user holds nothing, and by hand plays are taken over or        *)
(* dropped only where the user holds the round from then on.                *)
THEOREM KeepsTheBook == Spec => BookSpec
<1>1. Init => Book!Init /\ EventsStored /\ PreparedManual
  BY DEF Init, Book!Init, EventsStored, PreparedManual, Plays, Held, Idle
<1>2. TypeInv /\ TypeInv' /\ PreparedManual /\ ScopesConsistent /\ EventsStored /\ [Next]_vars
        => [Book!Next]_<<Plays, Held>> /\ EventsStored'
  <2> SUFFICES ASSUME TypeInv, TypeInv', PreparedManual, ScopesConsistent, EventsStored,
                      [Next]_vars
               PROVE  (Book!Next \/ UNCHANGED <<Plays, Held>>) /\ EventsStored'
    OBVIOUS
  <2>1. CASE UNCHANGED vars
    BY <2>1, ReadsStutter DEF vars
  <2> QED  BY <2>1, RequestIsEdit, RewatchIsEdit, RemovalsAreDrops, SyncIsRecord
           DEF Next, Book!Next
<1>3. TypeInv /\ PreparedManual /\ [Next]_vars => PreparedManual'
  BY PreparedStaysManual
<1> QED  BY <1>1, <1>2, <1>3, TypeInvInductive, ScopesStayConsistent, PTL
         DEF Spec, BookSpec, Book!Spec

=============================================================================
