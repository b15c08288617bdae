---------------------------- MODULE SyncScheduler ----------------------------
(***************************************************************************)
(* The sync scheduler (internal/sync): persisted jobs with leases, the     *)
(* sequential scheduler of each server process, and the provider run that  *)
(* reads an account's play history page by page and ingests its events.    *)
(*                                                                         *)
(* Time is relative: a job row holds the ticks left until it is due and    *)
(* until its lease expires (0: expired or NULL).  A tick is one poll       *)
(* interval.  A process is an owner uuid: it starts once and never returns *)
(* after a crash.  A provider's history is an append-only list; a cursor   *)
(* is a position in it.  Jellyfin and Emby are asked for it day by day,    *)
(* and without a cursor from today on; Plex for the whole of it.  Ingest   *)
(* is idempotent and is one transaction per event; what it decides about   *)
(* the event is not modelled here.                                         *)
(***************************************************************************)
EXTENDS Integers, Sequences, FiniteSets

CONSTANTS
    Account,        \* external accounts; a disconnected one never returns
    Departing,      \* those that may be disconnected
    Owner,          \* server processes, by lease owner
    Overlap,        \* may two processes run on one database?
    StorageFails,   \* may a database operation of the scheduler fail?
    Interval,       \* kind -> ticks from one completion to the next due time
    Lease,          \* ticks a claim lasts
    Limit,          \* jobs one claim takes at most
    BatchTime,      \* bound: ticks between a claim and the end of its batch
    Overdue,        \* bound: ticks past due that are told apart
    PageLimit,      \* events of a history page
    MaxEvent        \* bound: events of an account's history

Kind == {"incremental", "compensation"}
Job  == Account \X Kind

ASSUME TimeAssumption ==
    /\ Interval \in [Kind -> Nat \ {0}]
    /\ Lease \in Nat \ {0} /\ BatchTime \in Nat /\ Overdue \in Nat
ASSUME SizeAssumption ==
    Limit \in Nat \ {0} /\ PageLimit \in Nat \ {0} /\ MaxEvent \in Nat
ASSUME AccountAssumption == IsFiniteSet(Account)
ASSUME OwnerAssumption == "nobody" \notin Owner
ASSUME SwitchAssumption ==
    Departing \subseteq Account /\ Overlap \in BOOLEAN /\ StorageFails \in BOOLEAN

Nobody == "nobody"
NoJob  == [owner |-> "no row"]

VARIABLES
    account,    \* external_accounts: "new", "linked" or "gone"
    handler,    \* account -> the process still connecting it
    jobs,       \* sync_jobs
    sched,      \* owner -> its scheduler goroutine
    history,    \* account -> the provider's history (external)
    ingested    \* account -> positions whose event has a candidate row

vars == <<account, handler, jobs, sched, history, ingested>>

-----------------------------------------------------------------------------
(* Rows and process states *)

Position == 0..MaxEvent

Row == [due    : {t \in Int : t >= - Overdue},
        owner  : Owner \cup {Nobody},
        lease  : 0..Lease,
        cursor : Position]              \* 0: no cursor yet

NewRow == [due |-> 0, owner |-> Nobody, lease |-> 0, cursor |-> 0]

Linked(a) == account[a] = "linked"

(* plays: its length; today: what was played before today began; byDay: it  *)
(* is asked for by days.                                                    *)
History == [plays : Position, today : Position, byDay : BOOLEAN]

(* A claimed job as the claim read it. *)
Claimed == [job : Job, cursor : Position]

Sched == [step    : {"off", "wait", "poll", "begin", "open", "fetch", "ingest",
                     "finish", "complete", "stopped", "dead"},
          batch   : Seq(Claimed),       \* the claimed jobs not yet completed
          start   : Position,           \* where the run's first page starts
          until   : Position,           \* last event played when the run opened
          from    : Position,           \* request.Cursor; at the end result.Cursor
          at      : Position,           \* last event of the page ingested
          upto    : Position,           \* last event of the page
          failed  : BOOLEAN,            \* an error of the run, not yet in sync_runs
          fatal   : BOOLEAN,            \* schedulerErrors is not empty
          elapsed : 0..BatchTime]       \* ticks since the claim

Fresh(step) == [step |-> step, batch |-> <<>>, start |-> 0, until |-> 0,
                from |-> 0, at |-> 0, upto |-> 0, failed |-> FALSE, fatal |-> FALSE,
                elapsed |-> 0]

Busy  == {"begin", "open", "fetch", "ingest", "finish", "complete"}
Alive == {o \in Owner : sched[o].step \notin {"off", "dead"}}

CurrentJob(o) == Head(sched[o].batch).job

-----------------------------------------------------------------------------
(* Accounts: POST and DELETE /integrations/accounts *)

Provisioned(rows, accounts) ==
    [j \in Job |-> IF j[1] \in accounts /\ rows[j] = NoJob THEN NewRow ELSE rows[j]]

Dropped(rows, a) == [j \in Job |-> IF j[1] = a THEN NoJob ELSE rows[j]]

(* AccountRepository.Create commits; the jobs come in a second transaction. *)
Connect(o, a) ==
    /\ o \in Alive /\ account[a] = "new"
    /\ account' = [account EXCEPT ![a] = "linked"]
    /\ handler' = [handler EXCEPT ![a] = o]
    /\ UNCHANGED <<jobs, sched, history, ingested>>

EnsureJobs(a) ==
    /\ handler[a] # Nobody /\ Linked(a)
    /\ jobs' = Provisioned(jobs, {a})
    /\ handler' = [handler EXCEPT ![a] = Nobody]
    /\ UNCHANGED <<account, sched, history, ingested>>

(* ON DELETE CASCADE takes jobs, runs and candidates along. *)
Deleted(a) ==
    /\ account' = [account EXCEPT ![a] = "gone"]
    /\ handler' = [handler EXCEPT ![a] = Nobody]
    /\ jobs' = Dropped(jobs, a)
    /\ ingested' = [ingested EXCEPT ![a] = {}]
    /\ UNCHANGED <<sched, history>>

Disconnect(a) ==
    /\ a \in Departing /\ Linked(a) /\ Alive # {}
    /\ Deleted(a)

(* EnsureJobs failed: the handler deletes the account it just created. *)
ConnectFails(a) ==
    /\ StorageFails /\ handler[a] # Nobody /\ Linked(a)
    /\ Deleted(a)

(* The client left, and the delete failed with its context as EnsureJobs    *)
(* did; its error is discarded and the account stays, without jobs.         *)
ConnectAbandoned(a) ==
    /\ handler[a] # Nobody /\ Linked(a)
    /\ handler' = [handler EXCEPT ![a] = Nobody]
    /\ UNCHANGED <<account, jobs, sched, history, ingested>>

-----------------------------------------------------------------------------
(* A process: newSyncRuntime at its start, then Scheduler.Start *)

Start(o) ==
    /\ sched[o].step = "off"
    /\ Overlap \/ Alive = {}
    /\ jobs' = Provisioned(jobs, {a \in Account : Linked(a)})
    /\ sched' = [sched EXCEPT ![o] = Fresh("poll")]
    /\ UNCHANGED <<account, handler, history, ingested>>

(* The server dies with its scheduler and its requests.  Bound: another     *)
(* process is left to take its place.                                       *)
Crash(o) ==
    /\ o \in Alive
    /\ \E p \in Owner : sched[p].step = "off"
    /\ sched' = [sched EXCEPT ![o] = Fresh("dead")]
    /\ handler' = [a \in Account |-> IF handler[a] = o THEN Nobody ELSE handler[a]]
    /\ UNCHANGED <<account, jobs, history, ingested>>

(* Mutant: a job is due whoever holds its lease. *)
DueAnyway(j) == jobs[j] # NoJob /\ Linked(j[1]) /\ jobs[j].due <= 0

Due(j) == jobs[j] # NoJob /\ Linked(j[1]) /\ jobs[j].due <= 0 /\ jobs[j].lease = 0

(* ORDER BY next_run_at, id LIMIT: the longest overdue first. *)
Batch(picked, due) ==
    /\ \A m, n \in DOMAIN picked : m < n => /\ picked[m] # picked[n]
                                            /\ jobs[picked[m]].due <= jobs[picked[n]].due
    /\ \A j \in due : \/ \E n \in DOMAIN picked : picked[n] = j
                      \/ \A n \in DOMAIN picked : jobs[picked[n]].due <= jobs[j].due

ClaimDue(o) ==
    /\ sched[o].step = "poll"
    /\ LET due  == {j \in Job : Due(j)}
           size == IF Cardinality(due) < Limit THEN Cardinality(due) ELSE Limit
       IN  \E picked \in [1..size -> due] :
              /\ Batch(picked, due)
              /\ jobs' = [j \in Job |-> IF \E n \in 1..size : picked[n] = j
                                        THEN [jobs[j] EXCEPT !.owner = o, !.lease = Lease]
                                        ELSE jobs[j]]
              /\ sched' = [sched EXCEPT ![o] =
                    [Fresh(IF size = 0 THEN "wait" ELSE "begin") EXCEPT !.batch =
                        [n \in 1..size |-> [job |-> picked[n], cursor |-> jobs[picked[n]].cursor]]]]
    /\ UNCHANGED <<account, handler, history, ingested>>

(* The claim's own error is fatal. *)
ClaimFails(o) ==
    /\ StorageFails /\ sched[o].step = "poll"
    /\ sched' = [sched EXCEPT ![o] = Fresh("stopped")]
    /\ UNCHANGED <<account, handler, jobs, history, ingested>>

(* INSERT INTO sync_runs; without it the job completes with the error. *)
BeginRun(o) ==
    /\ sched[o].step = "begin"
    /\ \/ /\ Linked(CurrentJob(o)[1])
          /\ sched' = [sched EXCEPT ![o].step = "open"]
       \/ /\ StorageFails \/ ~ Linked(CurrentJob(o)[1])
          /\ sched' = [sched EXCEPT ![o].step = "complete", ![o].fatal = TRUE]
    /\ UNCHANGED <<account, handler, jobs, history, ingested>>

-----------------------------------------------------------------------------
(* ProviderRunner.Run *)

(* The account, its credentials and the provider answer.  An incremental    *)
(* run goes on from the cursor; without one it starts where today's history *)
(* does, or with Plex at the first event.  A compensation run starts 24     *)
(* hours back (by day: with that day), at whatever position that is.        *)
OpenRun(o) ==
    LET j == CurrentJob(o)
        c == IF j[2] = "incremental" THEN Head(sched[o].batch).cursor ELSE 0
        h == history[j[1]]
    IN  /\ sched[o].step = "open" /\ Linked(j[1])
        /\ \E k \in 0..h.plays :
              /\ c # 0 => k = c
              /\ c = 0 /\ h.byDay => k <= h.today
              /\ c = 0 /\ j[2] = "incremental" => k = (IF h.byDay THEN h.today ELSE 0)
              /\ sched' = [sched EXCEPT ![o].step = "fetch", ![o].start = k,
                                       ![o].until = h.plays, ![o].from = c]
        /\ UNCHANGED <<account, handler, jobs, history, ingested>>

(* The position the next page starts after: request.Cursor, or the start.   *)
Asked(s) == IF s.from = 0 THEN s.start ELSE s.from

(* request.Until: a list ends there, a day with the plays of that day. *)
Shown(s, h) == IF h.byDay THEN s.until..h.plays ELSE {s.until}

(* The end of a run with result.Cursor = k; 0 is no cursor. *)
Ended(s, k) == [Fresh("finish") EXCEPT !.batch = s.batch, !.fatal = s.fatal,
                                       !.elapsed = s.elapsed, !.from = k,
                                       !.start = IF k = 0 THEN 0 ELSE s.start]

(* Mutant: the run ends with its last page, before ingesting it. *)
FetchAhead(o) ==
    LET s == sched[o]
        a == CurrentJob(o)[1]
        k == Asked(s)
    IN  /\ s.step = "fetch"
        /\ \E v \in Shown(s, history[a]) : \E n \in k..v :
              /\ n <= k + PageLimit /\ (n = k => v = k)
              /\ sched' = [sched EXCEPT ![o] =
                    Ended(@, IF CurrentJob(o)[2] = "incremental" THEN n ELSE 0)]
        /\ UNCHANGED <<account, handler, jobs, history, ingested>>

(* provider.History: a page past the request's cursor; an empty page ends   *)
(* the run, and only an incremental run returns its cursor.  A start today  *)
(* is taken when it asks: past midnight Until is before it, and the         *)
(* provider refuses.                                                        *)
Fetch(o) ==
    LET s == sched[o]
        j == CurrentJob(o)
        h == history[j[1]]
        k == Asked(s)
    IN  /\ s.step = "fetch"
        /\ j[2] = "incremental" /\ s.from = 0 /\ h.byDay => k = h.today
        /\ \E v \in Shown(s, h) :
              \/ /\ v <= k
                 /\ sched' = [sched EXCEPT ![o] =
                       Ended(@, IF j[2] = "incremental" THEN s.from ELSE 0)]
              \/ \E n \in (k + 1)..v :
                    /\ n <= k + PageLimit
                    /\ sched' = [sched EXCEPT ![o].step = "ingest",
                                             ![o].at = k, ![o].upto = n]
        /\ UNCHANGED <<account, handler, jobs, history, ingested>>

(* CandidateService.Ingest, one event; after the last one of the page the   *)
(* request's cursor moves to the page's next cursor.                        *)
Ingest(o) ==
    LET a == CurrentJob(o)[1]
        n == sched[o].at + 1
    IN  /\ sched[o].step = "ingest" /\ Linked(a)
        /\ ingested' = [ingested EXCEPT ![a] = @ \cup {n}]
        /\ sched' = IF n = sched[o].upto
                    THEN [sched EXCEPT ![o].step = "fetch", ![o].from = n,
                                       ![o].at = 0, ![o].upto = 0]
                    ELSE [sched EXCEPT ![o].at = n]
        /\ UNCHANGED <<account, handler, jobs, history>>

(* The provider or an ingestion fails, or the account has gone. *)
RunFails(o) ==
    /\ sched[o].step \in {"open", "fetch", "ingest"}
    /\ sched' = [sched EXCEPT ![o] = [Ended(@, 0) EXCEPT !.failed = TRUE]]
    /\ UNCHANGED <<account, handler, jobs, history, ingested>>

-----------------------------------------------------------------------------
(* The end of a run *)

(* UPDATE sync_runs ... WHERE status = 'running': the row of this run is    *)
(* there unless the account took it along; no row is an error.              *)
FinishRun(o) ==
    /\ sched[o].step = "finish"
    /\ \/ /\ Linked(CurrentJob(o)[1])
          /\ sched' = [sched EXCEPT ![o].step = "complete", ![o].failed = FALSE]
       \/ /\ StorageFails \/ ~ Linked(CurrentJob(o)[1])
          /\ sched' = [sched EXCEPT ![o].step = "complete", ![o].failed = FALSE,
                                    ![o].fatal = TRUE]
    /\ UNCHANGED <<account, handler, jobs, history, ingested>>

(* Mutant: the lease is checked for expiry, not for its owner. *)
HoldsSome(o, j) == jobs[j] # NoJob /\ jobs[j].lease > 0

Holds(o, j) == jobs[j] # NoJob /\ jobs[j].owner = o /\ jobs[j].lease > 0

(* cursor = COALESCE(?, cursor): a failed run keeps the cursor. *)
Released(o, j) ==
    [due |-> Interval[j[2]], owner |-> Nobody, lease |-> 0,
     cursor |-> IF sched[o].from # 0 THEN sched[o].from ELSE jobs[j].cursor]

(* After a job: the rest of the batch, then the next poll, at once when     *)
(* the ticker fired meanwhile; an error of the scheduler's own ends it.     *)
AfterJob(s, fatal) ==
    IF Len(s.batch) > 1
    THEN [Fresh("begin") EXCEPT !.batch = Tail(s.batch), !.fatal = fatal,
                                !.elapsed = s.elapsed]
    ELSE Fresh(IF fatal THEN "stopped" ELSE IF s.elapsed > 0 THEN "poll" ELSE "wait")

Complete(o) ==
    LET j == CurrentJob(o) IN
    /\ sched[o].step = "complete"
    /\ \/ /\ Holds(o, j)
          /\ jobs' = [jobs EXCEPT ![j] = Released(o, j)]
          /\ sched' = [sched EXCEPT ![o] = AfterJob(@, @.fatal)]
       \/ /\ StorageFails \/ ~ Holds(o, j)
          /\ sched' = [sched EXCEPT ![o] = AfterJob(@, TRUE)]
          /\ UNCHANGED jobs
    /\ UNCHANGED <<account, handler, history, ingested>>

-----------------------------------------------------------------------------
(* The environment.  A poll follows its tick at once. *)

Aged(row) == [row EXCEPT !.due   = IF @ > - Overdue THEN @ - 1 ELSE @,
                         !.lease = IF @ > 0 THEN @ - 1 ELSE 0]

Tick ==
    /\ \A o \in Owner : /\ sched[o].step # "poll"
                        /\ sched[o].step \in Busy => sched[o].elapsed < BatchTime
    /\ jobs' = [j \in Job |-> IF jobs[j] = NoJob THEN NoJob ELSE Aged(jobs[j])]
    /\ sched' = [o \in Owner |->
                   IF sched[o].step \in Busy THEN [sched[o] EXCEPT !.elapsed = @ + 1]
                   ELSE IF sched[o].step = "wait" THEN Fresh("poll") ELSE sched[o]]
    /\ UNCHANGED <<account, handler, history, ingested>>

Play(a) ==
    /\ history[a].plays < MaxEvent
    /\ history' = [history EXCEPT ![a].plays = @ + 1]
    /\ UNCHANGED <<account, handler, jobs, sched, ingested>>

Midnight(a) ==
    /\ history[a].byDay
    /\ history' = [history EXCEPT ![a].today = history[a].plays]
    /\ UNCHANGED <<account, handler, jobs, sched, ingested>>

Init ==
    /\ account = [a \in Account |-> "new"]
    /\ handler = [a \in Account |-> Nobody]
    /\ jobs = [j \in Job |-> NoJob]
    /\ sched = [o \in Owner |-> Fresh("off")]
    /\ \E days \in [Account -> BOOLEAN] :
          history = [a \in Account |-> [plays |-> 0, today |-> 0, byDay |-> days[a]]]
    /\ ingested = [a \in Account |-> {}]

Scheduling(o) ==
    \/ ClaimDue(o) \/ ClaimFails(o) \/ BeginRun(o) \/ OpenRun(o) \/ Fetch(o)
    \/ Ingest(o) \/ RunFails(o) \/ FinishRun(o) \/ Complete(o)

Next ==
    \/ \E o \in Owner : Start(o) \/ Crash(o) \/ Scheduling(o)
    \/ \E a \in Account : \/ \E o \in Owner : Connect(o, a)
                          \/ EnsureJobs(a) \/ ConnectFails(a) \/ ConnectAbandoned(a)
                          \/ Disconnect(a) \/ Play(a) \/ Midnight(a)
    \/ Tick

Spec == Init /\ [][Next]_vars

(* A server that is down is started again (restart: unless-stopped), and    *)
(* requests, the scheduler goroutine and time go on.                        *)
Fairness ==
    /\ WF_vars(Tick)
    /\ \A a \in Account : WF_vars(EnsureJobs(a))
    /\ \A o \in Owner : WF_vars(Start(o)) /\ WF_vars(Scheduling(o))

FairSpec == Spec /\ Fairness

-----------------------------------------------------------------------------
(* What must hold *)

(* Every variable has its type. *)
TypeOK ==
    /\ account \in [Account -> {"new", "linked", "gone"}]
    /\ handler \in [Account -> Owner \cup {Nobody}]
    /\ jobs \in [Job -> Row \cup {NoJob}]
    /\ sched \in [Owner -> Sched]
    /\ history \in [Account -> History]
    /\ ingested \in [Account -> SUBSET Position]

(* No play is skipped: whatever crashes, fails or is taken over, a stored   *)
(* cursor moves over no event without a candidate row.  The one exception   *)
(* is the first cursor of an account read by days: it may pass what was     *)
(* played before the current day, where its run started, and nothing later. *)
NothingSkipped ==
    [][\A a \in Account :
          LET j == <<a, "incremental">>
              c == jobs[j].cursor
              first == IF c = 0 /\ history[a].byDay THEN sched[jobs[j].owner].start ELSE c
          IN  jobs[j] # NoJob /\ jobs'[j] # NoJob /\ jobs'[j].cursor # c
              => /\ (first + 1)..jobs'[j].cursor \subseteq ingested[a]
                 /\ first = c \/ first <= history[a].today]_vars

(* A run that outlived its lease does not take back the progress of the     *)
(* run that replaced it: a job's cursor never moves backwards.              *)
CursorNeverRewinds ==
    [][\A j \in Job : jobs[j] # NoJob /\ jobs'[j] # NoJob
          => jobs'[j].cursor >= jobs[j].cursor]_vars

(* Until it expires a lease belongs to its owner: no other process takes    *)
(* the job over or releases it.                                             *)
LeaseHonoured ==
    [][\A j \in Job :
          jobs[j] # NoJob /\ jobs[j].lease > 0 /\ jobs'[j] # NoJob
              /\ jobs'[j].owner # jobs[j].owner
          => /\ jobs'[j].owner = Nobody
             /\ sched[jobs[j].owner].step = "complete"
             /\ CurrentJob(jobs[j].owner) = j]_vars

(* While a batch ends within its lease and no account leaves, the           *)
(* scheduler survives every provider failure and every crash of a process   *)
(* before it: it never stops on an error of its own.                        *)
SchedulerSurvives == \A o \in Owner : sched[o].step # "stopped"

(* Once providers stop failing, every play of an account with jobs gets a   *)
(* candidate row sooner or later, whatever failed or crashed before.  With  *)
(* Jellyfin and Emby that holds of the plays past the stored cursor; those  *)
(* before the first one stored may never be read.                           *)
ProvidersRecover == <>[][\A o \in Owner : ~ RunFails(o)]_vars

Awaited(a, n) ==
    /\ jobs[<<a, "incremental">>] # NoJob
    /\ history[a].plays >= n
    /\ history[a].byDay => jobs[<<a, "incremental">>].cursor \in 1..(n - 1)

PlaysArrive ==
    ProvidersRecover =>
        \A a \in Account, n \in 1..MaxEvent :
            Awaited(a, n) ~> (~ Linked(a) \/ n \in ingested[a])

=============================================================================
