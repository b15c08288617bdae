------------------------ MODULE SyncSchedulerProofs ------------------------
(***************************************************************************)
(* Proofs about SyncScheduler for any finite set of accounts, any set of   *)
(* processes, and any lease, interval, page and batch size.                *)
(***************************************************************************)
EXTENDS SyncScheduler, FiniteSetTheorems, TLAPS

(* A process at work on a batch has one, and a page under ingestion starts  *)
(* at the request's cursor and is not at its end.                           *)
Working ==
    \A o \in Owner :
        /\ sched[o].step \in Busy => sched[o].batch # <<>>
        /\ sched[o].step = "begin" => sched[o].from = 0
        /\ sched[o].step = "ingest" => /\ sched[o].from <= sched[o].at
                                       /\ sched[o].at < sched[o].upto

(* Today began when some of the plays were there. *)
HistoryTrue == \A a \in Account : history[a].today <= history[a].plays

TypeInv == TypeOK /\ Working /\ HistoryTrue

-----------------------------------------------------------------------------
(* Rows, batches and records *)

LEMMA NoJobIsNoRow == NoJob \notin Row
<1> SUFFICES ASSUME NoJob \in Row PROVE FALSE
  OBVIOUS
<1>1. DOMAIN NoJob = {"owner"}
  BY DEF NoJob
<1>2. DOMAIN NoJob = {"due", "owner", "lease", "cursor"}
  BY DEF Row
<1> QED  BY <1>1, <1>2

LEMMA RowTypes ==
    ASSUME TypeOK, NEW j \in Job, jobs[j] # NoJob
    PROVE  jobs[j] \in Row
BY DEF TypeOK

LEMMA NewRowIsRow == NewRow \in Row /\ NewRow # NoJob
<1>1. NewRow \in Row
  BY TimeAssumption, SizeAssumption DEF NewRow, Row, Position, Nobody
<1> QED  BY <1>1, NoJobIsNoRow

LEMMA FreshIsSched ==
    ASSUME NEW step \in {"off", "wait", "poll", "begin", "open", "fetch", "ingest",
                         "finish", "complete", "stopped", "dead"}
    PROVE  Fresh(step) \in Sched
BY TimeAssumption, SizeAssumption DEF Fresh, Sched, Position

LEMMA BatchHead ==
    ASSUME NEW s \in Seq(Claimed), s # <<>>
    PROVE  /\ Head(s) = s[1] /\ s[1] \in Claimed
           /\ Len(s) \in Nat \ {0}
           /\ Tail(s) \in Seq(Claimed) /\ Len(Tail(s)) = Len(s) - 1
           /\ \A m \in 1..Len(Tail(s)) : Tail(s)[m] = s[m + 1]
           /\ Len(s) > 1 => Tail(s) # <<>>
OBVIOUS

LEMMA CurrentJobIsJob ==
    ASSUME TypeOK, NEW o \in Owner, sched[o].batch # <<>>
    PROVE  /\ Head(sched[o].batch) \in Claimed
           /\ CurrentJob(o) \in Job /\ CurrentJob(o)[1] \in Account /\ CurrentJob(o)[2] \in Kind
           /\ CurrentJob(o) = <<CurrentJob(o)[1], CurrentJob(o)[2]>>
<1>1. sched[o].batch \in Seq(Claimed)
  BY DEF TypeOK, Sched
<1>2. Head(sched[o].batch) \in Claimed
  BY <1>1, BatchHead
<1>3. CurrentJob(o) \in Job
  BY <1>2 DEF CurrentJob, Claimed
<1> QED  BY <1>2, <1>3 DEF Job

LEMMA SchedSet ==
    ASSUME TypeOK, NEW o \in Owner, NEW r \in Sched, sched' = [sched EXCEPT ![o] = r]
    PROVE  /\ sched' \in [Owner -> Sched]
           /\ sched'[o] = r
           /\ \A p \in Owner \ {o} : sched'[p] = sched[p]
BY DEF TypeOK

-----------------------------------------------------------------------------
(* Types *)

LEMMA InitTyped == Init => TypeInv
<1> SUFFICES ASSUME Init PROVE TypeInv
  OBVIOUS
<1>1. Fresh("off") \in Sched
  BY FreshIsSched
<1>2. sched \in [Owner -> Sched]
  BY <1>1 DEF Init
<1>3. history \in [Account -> History] /\ HistoryTrue
  BY SizeAssumption DEF Init, History, Position, HistoryTrue
<1>4. TypeOK
  BY <1>2, <1>3 DEF Init, TypeOK
<1>5. Working
  BY DEF Init, Working, Busy, Fresh
<1> QED  BY <1>3, <1>4, <1>5 DEF TypeInv

(* The provider's side: today never goes back, and never passes the plays. *)
LEMMA HistoryGrows ==
    ASSUME TypeInv, NEW a \in Account, Play(a) \/ Midnight(a)
    PROVE  /\ history' \in [Account -> History] /\ HistoryTrue'
           /\ \A b \in Account : /\ history'[b].byDay = history[b].byDay
                                 /\ history'[b].today \in Nat
                                 /\ history'[b].today >= history[b].today
<1>1. \A b \in Account : /\ history[b] \in History
                         /\ history[b].plays \in Nat /\ history[b].today \in Nat
                         /\ history[b].today <= history[b].plays
  BY SizeAssumption DEF TypeInv, TypeOK, History, Position, HistoryTrue
<1>2. CASE Play(a)
  <2>1. history[a].plays + 1 \in Position
    BY <1>1, <1>2, SizeAssumption DEF Play, Position
  <2>2. /\ history' = [history EXCEPT ![a] = [history[a] EXCEPT !.plays = history[a].plays + 1]]
        /\ [history[a] EXCEPT !.plays = history[a].plays + 1] \in History
    BY <1>1, <1>2, <2>1 DEF Play, History
  <2> QED  BY <1>1, <2>1, <2>2 DEF TypeInv, TypeOK, History, HistoryTrue
<1>3. CASE Midnight(a)
  <2>1. /\ history' = [history EXCEPT ![a] = [history[a] EXCEPT !.today = history[a].plays]]
        /\ [history[a] EXCEPT !.today = history[a].plays] \in History
    BY <1>1, <1>3 DEF Midnight, History
  <2> QED  BY <1>1, <2>1 DEF TypeInv, TypeOK, History, HistoryTrue
<1> QED  BY <1>2, <1>3

(* Jobs are added to accounts without, and go with their account. *)
LEMMA AccountsTyped ==
    ASSUME TypeInv, NEW a \in Account,
           \/ (\E o \in Owner : Connect(o, a)) \/ EnsureJobs(a) \/ Deleted(a)
           \/ ConnectAbandoned(a) \/ Play(a) \/ Midnight(a)
    PROVE  TypeInv'
<1>1. sched' = sched
  BY DEF Connect, EnsureJobs, Deleted, ConnectAbandoned, Play, Midnight
<1>2. Working'
  BY <1>1 DEF TypeInv, Working
<1>a. HistoryTrue'
  <2>1. CASE Play(a) \/ Midnight(a)
    BY <2>1, HistoryGrows
  <2>2. CASE history' = history
    BY <2>2 DEF TypeInv, HistoryTrue
  <2> QED  BY <2>1, <2>2 DEF Connect, EnsureJobs, Deleted, ConnectAbandoned
<1>3. ASSUME NEW o \in Owner, Connect(o, a) PROVE TypeOK'
  BY <1>3 DEF TypeInv, TypeOK, Connect
<1>4. CASE EnsureJobs(a)
  <2>1. jobs' \in [Job -> Row \cup {NoJob}]
    BY <1>4, NewRowIsRow DEF TypeInv, TypeOK, EnsureJobs, Provisioned
  <2> QED  BY <1>2, <1>a, <1>4, <2>1 DEF TypeInv, TypeOK, EnsureJobs
<1>5. CASE Deleted(a)
  <2>1. jobs' \in [Job -> Row \cup {NoJob}]
    BY <1>5 DEF TypeInv, TypeOK, Deleted, Dropped
  <2> QED  BY <1>2, <1>a, <1>5, <2>1 DEF TypeInv, TypeOK, Deleted
<1>6. CASE ConnectAbandoned(a)
  BY <1>2, <1>a, <1>6 DEF TypeInv, TypeOK, ConnectAbandoned
<1>7. CASE Play(a) \/ Midnight(a)
  <2>1. history' \in [Account -> History]
    BY <1>7, HistoryGrows
  <2> QED  BY <1>2, <1>a, <1>7, <2>1 DEF TypeInv, TypeOK, Play, Midnight
<1> QED  BY <1>2, <1>a, <1>3, <1>4, <1>5, <1>6, <1>7 DEF TypeInv

(* A step that sets the scheduler of one process to r. *)
LEMMA SchedulerTyped ==
    ASSUME TypeInv, NEW o \in Owner, NEW r \in Sched, sched' = [sched EXCEPT ![o] = r],
           r.step \in Busy => r.batch # <<>>,
           r.step = "begin" => r.from = 0,
           r.step = "ingest" => r.from <= r.at /\ r.at < r.upto
    PROVE  sched' \in [Owner -> Sched] /\ Working'
<1>1. /\ sched' \in [Owner -> Sched]
      /\ sched'[o] = r
      /\ \A p \in Owner \ {o} : sched'[p] = sched[p]
  BY SchedSet DEF TypeInv
<1> QED  BY <1>1 DEF TypeInv, Working

LEMMA StartTyped ==
    ASSUME TypeInv, NEW o \in Owner, Start(o) \/ Crash(o) \/ ClaimFails(o)
    PROVE  TypeInv'
<1>1. \A step \in {"poll", "dead", "stopped"} :
        /\ Fresh(step) \in Sched /\ Fresh(step).step = step
        /\ step \notin Busy /\ step # "ingest" /\ step # "begin"
  BY FreshIsSched DEF Fresh, Busy
<1>2. CASE Start(o)
  <2>1. jobs' \in [Job -> Row \cup {NoJob}]
    BY <1>2, NewRowIsRow DEF TypeInv, TypeOK, Start, Provisioned
  <2>2. sched' \in [Owner -> Sched] /\ Working'
    BY <1>1, <1>2, SchedulerTyped DEF Start
  <2> QED  BY <1>2, <2>1, <2>2 DEF TypeInv, TypeOK, Start, HistoryTrue
<1>3. CASE Crash(o)
  <2>1. handler' \in [Account -> Owner \cup {Nobody}]
    BY <1>3 DEF TypeInv, TypeOK, Crash
  <2>2. sched' \in [Owner -> Sched] /\ Working'
    BY <1>1, <1>3, SchedulerTyped DEF Crash
  <2> QED  BY <1>3, <2>1, <2>2 DEF TypeInv, TypeOK, Crash, HistoryTrue
<1>4. CASE ClaimFails(o)
  <2>2. sched' \in [Owner -> Sched] /\ Working'
    BY <1>1, <1>4, SchedulerTyped DEF ClaimFails
  <2> QED  BY <1>4, <2>2 DEF TypeInv, TypeOK, ClaimFails, HistoryTrue
<1> QED  BY <1>2, <1>3, <1>4

(* What a claim takes: some of the due jobs, each with the cursor it has. *)
Taken(o, size, picked) ==
    /\ size \in Nat
    /\ picked \in [1..size -> {j \in Job : Due(j)}]
    /\ jobs' = [j \in Job |-> IF \E n \in 1..size : picked[n] = j
                              THEN [jobs[j] EXCEPT !.owner = o, !.lease = Lease]
                              ELSE jobs[j]]
    /\ sched' = [sched EXCEPT ![o] =
          [Fresh(IF size = 0 THEN "wait" ELSE "begin") EXCEPT !.batch =
              [n \in 1..size |-> [job |-> picked[n], cursor |-> jobs[picked[n]].cursor]]]]
    /\ UNCHANGED <<account, handler, history, ingested>>

LEMMA ClaimTakes ==
    ASSUME NEW o \in Owner, ClaimDue(o)
    PROVE  \E size, picked : Taken(o, size, picked)
<1> DEFINE due  == {j \in Job : Due(j)}
           size == IF Cardinality(due) < Limit THEN Cardinality(due) ELSE Limit
<1>1. IsFiniteSet(Kind)
  <2>1. IsFiniteSet({"incremental"})
    BY FS_Singleton
  <2>2. Kind = {"incremental"} \cup {"compensation"}
    BY DEF Kind
  <2> QED  BY <2>1, <2>2, FS_AddElement
<1>2. IsFiniteSet(Job)
  BY <1>1, FS_Product, AccountAssumption DEF Job
<1>3. Cardinality(due) \in Nat
  BY <1>2, FS_Subset, FS_CardinalityType
<1>4. size \in Nat
  BY <1>3, SizeAssumption
<1>5. PICK picked \in [1..size -> due] :
        /\ jobs' = [j \in Job |-> IF \E n \in 1..size : picked[n] = j
                                  THEN [jobs[j] EXCEPT !.owner = o, !.lease = Lease]
                                  ELSE jobs[j]]
        /\ sched' = [sched EXCEPT ![o] =
              [Fresh(IF size = 0 THEN "wait" ELSE "begin") EXCEPT !.batch =
                  [n \in 1..size |-> [job |-> picked[n], cursor |-> jobs[picked[n]].cursor]]]]
  BY DEF ClaimDue
<1>6. UNCHANGED <<account, handler, history, ingested>>
  BY DEF ClaimDue
<1> HIDE DEF size
<1>7. Taken(o, size, picked)
  BY <1>4, <1>5, <1>6 DEF Taken
<1> QED  BY <1>7

LEMMA ClaimTyped ==
    ASSUME TypeInv, NEW o \in Owner, ClaimDue(o)
    PROVE  TypeInv'
<1>1. PICK size, picked : Taken(o, size, picked)
  BY ClaimTakes
<1> DEFINE claimed == [n \in 1..size |-> [job |-> picked[n], cursor |-> jobs[picked[n]].cursor]]
           r == [Fresh(IF size = 0 THEN "wait" ELSE "begin") EXCEPT !.batch = claimed]
<1>2. \A n \in 1..size : picked[n] \in Job /\ jobs[picked[n]] \in Row
  BY <1>1 DEF Taken, Due, TypeInv, TypeOK
<1>3. \A n \in 1..size : [job |-> picked[n], cursor |-> jobs[picked[n]].cursor] \in Claimed
  BY <1>2 DEF Claimed, Row
<1>4. claimed \in Seq(Claimed) /\ Len(claimed) = size /\ (size # 0 => claimed # <<>>)
  <2>1. size \in Nat
    BY <1>1 DEF Taken
  <2>2. claimed \in [1..size -> Claimed]
    BY <1>3
  <2>3. claimed \in Seq(Claimed) /\ Len(claimed) = size
    BY <2>1, <2>2
  <2> QED  BY <2>3
<1>5. /\ r \in Sched
      /\ r.step = (IF size = 0 THEN "wait" ELSE "begin")
      /\ r.batch = claimed /\ r.from = 0
  <2>1. Fresh(IF size = 0 THEN "wait" ELSE "begin") \in Sched
    BY FreshIsSched
  <2> HIDE DEF claimed
  <2> QED  BY <1>4, <2>1 DEF Fresh, Sched
<1>6. sched' \in [Owner -> Sched] /\ Working'
  <2>1. sched' = [sched EXCEPT ![o] = r]
    BY <1>1 DEF Taken
  <2>2. r.step \in {"wait", "begin"} /\ (r.step = "begin" => r.batch # <<>>)
    <3> HIDE DEF r, claimed
    <3> QED  BY <1>4, <1>5
  <2> HIDE DEF r, claimed
  <2>3. /\ r.step \in Busy => r.batch # <<>>
        /\ r.step = "begin" => r.from = 0
        /\ r.step # "ingest"
    BY <1>5, <2>2 DEF Busy
  <2> QED  BY <1>5, <2>1, <2>3, SchedulerTyped
<1>7. jobs' \in [Job -> Row \cup {NoJob}]
  <2>1. ASSUME NEW n \in 1..size
        PROVE  [jobs[picked[n]] EXCEPT !.owner = o, !.lease = Lease] \in Row
    <3>1. Lease \in 0..Lease
      BY TimeAssumption
    <3>2. jobs[picked[n]] \in Row
      BY <1>2
    <3> QED  BY <3>1, <3>2 DEF Row
  <2> QED  BY <1>1, <2>1 DEF Taken, TypeInv, TypeOK, HistoryTrue
<1> QED  BY <1>1, <1>6, <1>7 DEF Taken, TypeInv, TypeOK, HistoryTrue

LEMMA ShownIsPosition ==
    ASSUME NEW s \in Sched, NEW h \in History, NEW v \in Shown(s, h)
    PROVE  v \in Position
BY SizeAssumption DEF Shown, Sched, History, Position

(* The states a run goes through keep the batch. *)
LEMMA RunTyped ==
    ASSUME TypeInv, NEW o \in Owner,
           BeginRun(o) \/ OpenRun(o) \/ Fetch(o) \/ RunFails(o) \/ FinishRun(o)
    PROVE  TypeInv'
<1> DEFINE s == sched[o]
<1>1. s \in Sched /\ s.batch # <<>>
  BY DEF TypeInv, TypeOK, Working, Busy, BeginRun, OpenRun, Fetch, RunFails, FinishRun
<1>2. /\ CurrentJob(o)[1] \in Account /\ history[CurrentJob(o)[1]] \in History
      /\ Head(s.batch).cursor \in Position
  BY <1>1, CurrentJobIsJob DEF TypeInv, TypeOK, Claimed
<1>3. UNCHANGED <<account, handler, jobs, history, ingested>>
  BY DEF BeginRun, OpenRun, Fetch, RunFails, FinishRun
<1>4. \A k \in Position : /\ Ended(s, k) \in Sched /\ Ended(s, k).step = "finish"
                          /\ Ended(s, k).batch = s.batch
                          /\ [Ended(s, k) EXCEPT !.failed = TRUE] \in Sched
                          /\ [Ended(s, k) EXCEPT !.failed = TRUE].step = "finish"
                          /\ [Ended(s, k) EXCEPT !.failed = TRUE].batch = s.batch
  <2>1. Fresh("finish") \in Sched
    BY FreshIsSched
  <2> QED  BY <1>1, <2>1 DEF Ended, Fresh, Sched
<1>5. 0 \in Position
  BY SizeAssumption DEF Position
<1>6. \E r \in Sched : /\ sched' = [sched EXCEPT ![o] = r]
                       /\ r.batch = s.batch /\ r.step # "begin"
                       /\ r.step = "ingest" => r.from <= r.at /\ r.at < r.upto
  <2>1. CASE BeginRun(o)
    <3>1. [s EXCEPT !.step = "open"] \in Sched /\ [s EXCEPT !.step = "complete", !.fatal = TRUE] \in Sched
      BY <1>1 DEF Sched
    <3>2. \/ sched' = [sched EXCEPT ![o] = [s EXCEPT !.step = "open"]]
          \/ sched' = [sched EXCEPT ![o] = [s EXCEPT !.step = "complete", !.fatal = TRUE]]
      BY <2>1, <1>1 DEF BeginRun, TypeInv, TypeOK
    <3> QED  BY <1>1, <3>1, <3>2 DEF Sched
  <2>2. CASE OpenRun(o)
    <3> DEFINE h == history[CurrentJob(o)[1]]
               c == IF CurrentJob(o)[2] = "incremental" THEN Head(s.batch).cursor ELSE 0
    <3>0. PICK k \in 0..h.plays :
                sched' = [sched EXCEPT ![o].step = "fetch", ![o].start = k,
                                       ![o].until = h.plays, ![o].from = c]
      BY <2>2 DEF OpenRun
    <3>a. k \in Position /\ h.plays \in Position /\ c \in Position
      BY <1>2, SizeAssumption DEF Position, History
    <3> HIDE DEF h, c
    <3>1. sched' = [sched EXCEPT ![o] = [s EXCEPT !.step = "fetch", !.start = k,
                                                  !.until = h.plays, !.from = c]]
      BY <3>0
    <3>2. [s EXCEPT !.step = "fetch", !.start = k, !.until = h.plays, !.from = c] \in Sched
      BY <1>1, <3>a DEF Sched
    <3> QED  BY <1>1, <3>1, <3>2 DEF Sched
  <2>3. CASE Fetch(o)
    <3> DEFINE k == Asked(s)
    <3>1. s.from \in Position /\ k \in Position /\ s.from <= k
      BY <1>1, SizeAssumption DEF Sched, Asked, Position
    <3> HIDE DEF k
    <3>2. CASE sched' = [sched EXCEPT ![o] = Ended(@, IF CurrentJob(o)[2] = "incremental" THEN s.from ELSE 0)]
      BY <1>4, <1>5, <3>1, <3>2
    <3>3. ASSUME NEW v \in Position, NEW n \in (k + 1)..v,
                 sched' = [sched EXCEPT ![o].step = "ingest", ![o].at = k, ![o].upto = n]
          PROVE  \E r \in Sched : /\ sched' = [sched EXCEPT ![o] = r]
                                  /\ r.batch = s.batch /\ r.step # "begin"
                                  /\ r.step = "ingest" => r.from <= r.at /\ r.at < r.upto
      <4>1. n \in Position /\ k < n
        BY <3>1, <3>3, SizeAssumption DEF Position
      <4>2. sched' = [sched EXCEPT ![o] = [s EXCEPT !.step = "ingest", !.at = k, !.upto = n]]
        BY <3>3
      <4>3. [s EXCEPT !.step = "ingest", !.at = k, !.upto = n] \in Sched
        BY <1>1, <3>1, <4>1 DEF Sched
      <4> QED  BY <1>1, <3>1, <4>1, <4>2, <4>3 DEF Sched
    <3>4. PICK v \in Shown(s, history[CurrentJob(o)[1]]) :
             \/ sched' = [sched EXCEPT ![o] = Ended(@, IF CurrentJob(o)[2] = "incremental" THEN s.from ELSE 0)]
             \/ \E n \in (k + 1)..v :
                   sched' = [sched EXCEPT ![o].step = "ingest", ![o].at = k, ![o].upto = n]
      BY <2>3 DEF Fetch, k
    <3>5. v \in Position
      BY <1>1, <1>2, <3>4, ShownIsPosition
    <3> QED  BY <3>2, <3>3, <3>4, <3>5
  <2>4. CASE RunFails(o)
    BY <2>4, <1>4, <1>5 DEF RunFails
  <2>5. CASE FinishRun(o)
    <3>1. /\ [s EXCEPT !.step = "complete", !.failed = FALSE] \in Sched
          /\ [s EXCEPT !.step = "complete", !.failed = FALSE, !.fatal = TRUE] \in Sched
      BY <1>1 DEF Sched
    <3>2. \/ sched' = [sched EXCEPT ![o] = [s EXCEPT !.step = "complete", !.failed = FALSE]]
          \/ sched' = [sched EXCEPT ![o] =
                          [s EXCEPT !.step = "complete", !.failed = FALSE, !.fatal = TRUE]]
      BY <2>5 DEF FinishRun
    <3> QED  BY <1>1, <3>1, <3>2 DEF Sched
  <2> QED  BY <2>1, <2>2, <2>3, <2>4, <2>5
<1>7. sched' \in [Owner -> Sched] /\ Working'
  BY <1>1, <1>6, SchedulerTyped
<1> QED  BY <1>3, <1>7 DEF TypeInv, TypeOK, HistoryTrue

(* An event is ingested: the page goes on, or the next page is fetched. *)
LEMMA IngestTyped ==
    ASSUME TypeInv, NEW o \in Owner, Ingest(o)
    PROVE  TypeInv'
<1> DEFINE s == sched[o]
           a == CurrentJob(o)[1]
           n == s.at + 1
<1>1. s \in Sched /\ s.batch # <<>> /\ s.step = "ingest" /\ s.from <= s.at /\ s.at < s.upto
  BY DEF TypeInv, TypeOK, Working, Busy, Ingest
<1>2. a \in Account
  BY <1>1, CurrentJobIsJob DEF TypeInv
<1>3. n \in Position /\ 0 \in Position /\ s.at \in Int /\ s.upto \in Int /\ s.from \in Int
  <2>1. s.at \in Position /\ s.upto \in Position /\ s.from \in Position
    BY <1>1 DEF Sched
  <2> QED  BY <1>1, <2>1, SizeAssumption DEF Position
<1>4. /\ ingested' = [ingested EXCEPT ![a] = @ \cup {n}]
      /\ UNCHANGED <<account, handler, jobs, history>>
  BY DEF Ingest
<1>5. ingested' \in [Account -> SUBSET Position]
  BY <1>2, <1>3, <1>4 DEF TypeInv, TypeOK
<1>6. sched' \in [Owner -> Sched] /\ Working'
  <2>1. CASE n = s.upto
    <3> DEFINE r == [s EXCEPT !.step = "fetch", !.from = n, !.at = 0, !.upto = 0]
    <3>1. r \in Sched /\ r.step = "fetch" /\ r.batch = s.batch
      BY <1>1, <1>3 DEF Sched
    <3>2. sched' = [sched EXCEPT ![o].step = "fetch", ![o].from = n, ![o].at = 0, ![o].upto = 0]
      BY <2>1 DEF Ingest
    <3>3. sched' = [sched EXCEPT ![o] = r]
      BY <3>2
    <3> HIDE DEF r
    <3> QED  BY <1>1, <3>1, <3>3, SchedulerTyped
  <2>2. CASE n # s.upto
    <3> DEFINE r == [s EXCEPT !.at = n]
    <3>1. r \in Sched /\ r.step = "ingest" /\ r.batch = s.batch /\ r.from = s.from /\ r.at = n
          /\ r.upto = s.upto
      BY <1>1, <1>3 DEF Sched
    <3>2. sched' = [sched EXCEPT ![o].at = n]
      BY <2>2 DEF Ingest
    <3>3. sched' = [sched EXCEPT ![o] = r]
      BY <3>2
    <3>4. r.from <= r.at /\ r.at < r.upto
      BY <1>1, <1>3, <2>2, <3>1
    <3> HIDE DEF r
    <3> QED  BY <1>1, <3>1, <3>3, <3>4, SchedulerTyped
  <2> QED  BY <2>1, <2>2
<1> QED  BY <1>4, <1>5, <1>6 DEF TypeInv, TypeOK, HistoryTrue

LEMMA AfterJobIsSched ==
    ASSUME NEW s \in Sched, s.batch # <<>>, NEW fatal \in BOOLEAN
    PROVE  /\ AfterJob(s, fatal) \in Sched
           /\ AfterJob(s, fatal).step \in {"begin", "stopped", "poll", "wait"}
           /\ AfterJob(s, fatal).from = 0
           /\ AfterJob(s, fatal).batch = IF Len(s.batch) > 1 THEN Tail(s.batch) ELSE <<>>
           /\ AfterJob(s, fatal).step = "begin" => AfterJob(s, fatal).batch # <<>>
<1>1. s.batch \in Seq(Claimed)
  BY DEF Sched
<1>2. \A step \in {"begin", "stopped", "poll", "wait"} :
         Fresh(step) \in Sched /\ Fresh(step).step = step /\ Fresh(step).from = 0
           /\ Fresh(step).batch = <<>>
  BY FreshIsSched DEF Fresh
<1>3. CASE Len(s.batch) > 1
  <2>1. Tail(s.batch) \in Seq(Claimed) /\ Tail(s.batch) # <<>>
    BY <1>1, <1>3, BatchHead
  <2>2. AfterJob(s, fatal) = [Fresh("begin") EXCEPT !.batch = Tail(s.batch), !.fatal = fatal,
                                                  !.elapsed = s.elapsed]
    BY <1>3 DEF AfterJob
  <2> QED  BY <1>2, <1>3, <2>1, <2>2 DEF Sched
<1>4. CASE ~ (Len(s.batch) > 1)
  BY <1>2, <1>4 DEF AfterJob
<1> QED  BY <1>3, <1>4

LEMMA CompleteTyped ==
    ASSUME TypeInv, NEW o \in Owner, Complete(o)
    PROVE  TypeInv'
<1> DEFINE s == sched[o]
           j == CurrentJob(o)
<1>1. s \in Sched /\ s.batch # <<>> /\ s.step = "complete"
  BY DEF TypeInv, TypeOK, Working, Busy, Complete
<1>2. j \in Job /\ j[2] \in Kind
  BY <1>1, CurrentJobIsJob DEF TypeInv
<1>3. PICK fatal \in BOOLEAN : sched' = [sched EXCEPT ![o] = AfterJob(s, fatal)]
  BY <1>1 DEF Complete, Sched, TypeInv, TypeOK
<1>4. sched' \in [Owner -> Sched] /\ Working'
  <2>1. AfterJob(s, fatal).step \in Busy => AfterJob(s, fatal).step = "begin"
    BY <1>1, AfterJobIsSched DEF Busy
  <2> QED  BY <1>1, <1>3, <2>1, AfterJobIsSched, SchedulerTyped
<1>5. jobs' \in [Job -> Row \cup {NoJob}]
  <2>1. CASE Holds(o, j)
    <3>1. jobs[j] \in Row
      BY <1>2, <2>1 DEF Holds, TypeInv, TypeOK
    <3>2. Interval[j[2]] \in {t \in Int : t >= - Overdue}
      BY <1>2, TimeAssumption
    <3>3. Released(o, j) \in Row
      BY <1>1, <3>1, <3>2, TimeAssumption DEF Released, Row, Sched, Nobody
    <3> QED  BY <1>2, <3>3 DEF Complete, TypeInv, TypeOK, HistoryTrue
  <2>2. CASE ~ Holds(o, j)
    BY <2>2 DEF Complete, TypeInv, TypeOK
  <2> QED  BY <2>1, <2>2
<1> QED  BY <1>4, <1>5 DEF Complete, TypeInv, TypeOK, HistoryTrue

LEMMA TickTyped ==
    ASSUME TypeInv, Tick
    PROVE  TypeInv'
<1>1. jobs' \in [Job -> Row \cup {NoJob}]
  <2>1. ASSUME NEW row \in Row PROVE Aged(row) \in Row
    <3> DEFINE due   == IF row.due > - Overdue THEN row.due - 1 ELSE row.due
               lease == IF row.lease > 0 THEN row.lease - 1 ELSE 0
    <3>1. row.due \in Int /\ row.due >= - Overdue /\ row.lease \in 0..Lease
      BY DEF Row
    <3>2. due \in {t \in Int : t >= - Overdue} /\ lease \in 0..Lease
      BY <3>1, TimeAssumption
    <3>3. Aged(row) = [row EXCEPT !.due = due, !.lease = lease]
      BY DEF Aged
    <3> HIDE DEF due, lease
    <3> QED  BY <3>2, <3>3 DEF Row
  <2> QED  BY <2>1 DEF Tick, TypeInv, TypeOK, HistoryTrue
<1>2. ASSUME NEW o \in Owner
      PROVE  /\ sched'[o] \in Sched
             /\ \/ sched'[o] = [sched[o] EXCEPT !.elapsed = @ + 1]
                \/ sched'[o] = Fresh("poll")
                \/ sched'[o] = sched[o]
  <2>1. sched[o] \in Sched
    BY DEF TypeInv, TypeOK
  <2>2. CASE sched[o].step \in Busy
    <3>1. sched'[o] = [sched[o] EXCEPT !.elapsed = @ + 1]
      BY <2>2 DEF Tick
    <3>2. sched[o].elapsed \in 0..BatchTime /\ sched[o].elapsed < BatchTime
      BY <2>1, <2>2 DEF Tick, Sched
    <3>3. sched[o].elapsed + 1 \in 0..BatchTime
      BY <3>2, TimeAssumption
    <3> QED  BY <2>1, <3>1, <3>3 DEF Sched
  <2>3. CASE sched[o].step \notin Busy
    BY <2>1, <2>3, FreshIsSched DEF Tick
  <2> QED  BY <2>2, <2>3
<1>3. sched' \in [Owner -> Sched]
  BY <1>2 DEF Tick
<1>4. Working'
  <2> SUFFICES ASSUME NEW o \in Owner
               PROVE  /\ sched'[o].step \in Busy => sched'[o].batch # <<>>
                      /\ sched'[o].step = "begin" => sched'[o].from = 0
                      /\ sched'[o].step = "ingest" => /\ sched'[o].from <= sched'[o].at
                                                     /\ sched'[o].at < sched'[o].upto
    BY DEF Working
  <2>1. sched[o] \in Sched
    BY DEF TypeInv, TypeOK
  <2>2. CASE sched'[o] = [sched[o] EXCEPT !.elapsed = @ + 1]
    BY <2>1, <2>2 DEF TypeInv, Working, Sched
  <2>3. CASE sched'[o] = Fresh("poll")
    BY <2>3 DEF Fresh, Busy
  <2>4. CASE sched'[o] = sched[o]
    BY <2>4 DEF TypeInv, Working
  <2> QED  BY <1>2, <2>2, <2>3, <2>4
<1> QED  BY <1>1, <1>3, <1>4 DEF Tick, TypeInv, TypeOK, HistoryTrue

LEMMA StepTyped ==
    ASSUME TypeInv, [Next]_vars
    PROVE  TypeInv'
<1>1. CASE UNCHANGED vars
  BY <1>1 DEF vars, TypeInv, TypeOK, Working, HistoryTrue
<1>2. ASSUME NEW o \in Owner, Start(o) \/ Crash(o) \/ Scheduling(o) PROVE TypeInv'
  BY <1>2, StartTyped, ClaimTyped, RunTyped, IngestTyped, CompleteTyped DEF Scheduling
<1>3. ASSUME NEW a \in Account, \/ \E o \in Owner : Connect(o, a)
                                \/ EnsureJobs(a) \/ Disconnect(a) \/ ConnectFails(a)
                                \/ ConnectAbandoned(a) \/ Play(a) \/ Midnight(a)
      PROVE  TypeInv'
  BY <1>3, AccountsTyped DEF Disconnect, ConnectFails
<1>4. CASE Tick
  BY <1>4, TickTyped
<1> QED  BY <1>1, <1>2, <1>3, <1>4 DEF Next

(* A process that works on a batch has one, in every reachable state. *)
THEOREM TypeInvariant == Spec => []TypeInv
<1> QED  BY InitTyped, StepTyped, PTL DEF Spec

(* Every variable has its type, whatever crashes, fails or leaves. *)
THEOREM TypeCorrect == Spec => []TypeOK
<1>1. TypeInv => TypeOK
  BY DEF TypeInv
<1> QED  BY <1>1, TypeInvariant, PTL

-----------------------------------------------------------------------------
(* What a process knows *)

Entries(o) == {sched[o].batch[m] : m \in 1..Len(sched[o].batch)}

IsIncremental(j) == j[2] = "incremental"

(* The position up to which the run under way has ingested. *)
Reached(o) == IF sched[o].step = "ingest" THEN sched[o].at ELSE Asked(sched[o])

(* Claimed jobs are of accounts that were connected; until another claims   *)
(* a job, its row has the cursor the claim read.                            *)
ClaimsTrue(o) ==
    \A c \in Entries(o) :
        /\ account[c.job[1]] # "new"
        /\ Holds(o, c.job) => jobs[c.job].cursor = c.cursor

(* A run s for a job claimed with cursor c starts at c; without a cursor at *)
(* the beginning or, by days, where some day began.                         *)
StartsRight(s, c, h) ==
    IF c # 0 THEN s.start = c
    ELSE IF h.byDay THEN s.start <= h.today
    ELSE s.start = 0

(* What lies between the start of an incremental run s and k is ingested,   *)
(* and k is not before the cursor claimed.                                  *)
Covers(s, j, c, k) ==
    /\ StartsRight(s, c, history[j[1]])
    /\ k >= s.start /\ k >= c
    /\ Linked(j[1]) => (s.start + 1)..k \subseteq ingested[j[1]]

(* The same after a step, of a run and a job as they are before it. *)
CoversNext(s, j, c, k) ==
    /\ StartsRight(s, c, history'[j[1]])
    /\ k >= s.start /\ k >= c
    /\ account'[j[1]] = "linked" => (s.start + 1)..k \subseteq ingested'[j[1]]

RunTrue(o) ==
    LET s == sched[o]
        c == Head(s.batch)
    IN  /\ s.step \in {"fetch", "ingest"} /\ IsIncremental(c.job)
              => Covers(s, c.job, c.cursor, Reached(o)) /\ (s.from = 0 \/ s.from >= s.start)
        /\ s.step \in {"finish", "complete"} /\ s.from # 0
              => IsIncremental(c.job) /\ Covers(s, c.job, c.cursor, s.from)

ProcessTrue(o) == ClaimsTrue(o) /\ RunTrue(o)

(* Jobs go with their account. *)
JobsLinked == \A j \in Job : jobs[j] # NoJob => Linked(j[1])

IInv == TypeInv /\ JobsLinked /\ (\A o \in Owner : ProcessTrue(o))

(* A step after which what a process p knows is still true: accounts are    *)
(* connected once, candidates stay while their account does, days do not go *)
(* back, and p gets no lease and no other cursor under one.                 *)
Harmless(p) ==
    /\ \A a \in Account : account'[a] = "new" => account[a] = "new"
    /\ \A a \in Account : /\ history'[a].byDay = history[a].byDay
                          /\ history'[a].today \in Nat
                          /\ history'[a].today >= history[a].today
    /\ \A a \in Account : account'[a] = "linked" => /\ account[a] \in {"new", "linked"}
                                                  /\ ingested[a] \subseteq ingested'[a]
    /\ \A j \in Job : Holds(p, j)' => Holds(p, j) /\ jobs'[j].cursor = jobs[j].cursor

LEMMA EntryTypes ==
    ASSUME TypeOK, NEW o \in Owner, NEW c \in Entries(o)
    PROVE  c \in Claimed /\ c.job \in Job /\ c.job[1] \in Account /\ c.cursor \in Position
<1>1. sched[o].batch \in Seq(Claimed)
  BY DEF TypeOK, Sched
<1>2. c \in Claimed
  BY <1>1 DEF Entries
<1> QED  BY <1>2 DEF Claimed, Job

LEMMA HeadIsEntry ==
    ASSUME TypeOK, NEW o \in Owner, sched[o].batch # <<>>
    PROVE  Head(sched[o].batch) \in Entries(o)
<1>1. sched[o].batch \in Seq(Claimed)
  BY DEF TypeOK, Sched
<1>2. Head(sched[o].batch) = sched[o].batch[1] /\ 1 \in 1..Len(sched[o].batch)
  BY <1>1, BatchHead
<1> QED  BY <1>2 DEF Entries

LEMMA ClaimsStayTrue ==
    ASSUME TypeOK, NEW p \in Owner, ClaimsTrue(p), Harmless(p), Entries(p)' \subseteq Entries(p)
    PROVE  ClaimsTrue(p)'
<1> SUFFICES ASSUME NEW c \in Entries(p)'
             PROVE  /\ account'[c.job[1]] # "new"
                    /\ Holds(p, c.job)' => jobs'[c.job].cursor = c.cursor
  BY DEF ClaimsTrue
<1>1. c \in Entries(p) /\ c.job \in Job /\ c.job[1] \in Account
  BY EntryTypes
<1>2. account[c.job[1]] # "new"
  BY <1>1 DEF ClaimsTrue
<1>3. account'[c.job[1]] # "new"
  BY <1>1, <1>2 DEF Harmless
<1>4. Holds(p, c.job)' => jobs'[c.job].cursor = c.cursor
  BY <1>1 DEF Harmless, ClaimsTrue
<1> QED  BY <1>3, <1>4

(* What a run covers stays covered. *)
LEMMA CoversStays ==
    ASSUME TypeInv, NEW p \in Owner, Harmless(p), NEW s \in Sched, NEW c \in Claimed,
           account[c.job[1]] # "new", NEW k, Covers(s, c.job, c.cursor, k)
    PROVE  CoversNext(s, c.job, c.cursor, k)
<1> DEFINE a == c.job[1]
<1>1. a \in Account /\ s.start \in Nat
  BY SizeAssumption DEF Claimed, Job, Sched, Position
<1>2. history[a] \in History /\ history'[a].byDay = history[a].byDay
      /\ history[a].today \in Nat /\ history'[a].today >= history[a].today
  BY <1>1, SizeAssumption DEF TypeInv, TypeOK, History, Position, Harmless
<1>3. account'[a] = "linked" => account[a] = "linked" /\ ingested[a] \subseteq ingested'[a]
  BY <1>1 DEF Harmless
<1>4. StartsRight(s, c.cursor, history'[a])
  <2>1. history'[a].today \in Nat
    BY <1>1 DEF Harmless
  <2> QED  BY <1>1, <1>2, <2>1 DEF Covers, StartsRight
<1> QED  BY <1>3, <1>4 DEF Covers, CoversNext, Linked

LEMMA ProcessStaysTrue ==
    ASSUME TypeInv, NEW p \in Owner, ProcessTrue(p), Harmless(p), NEW elapsed \in 0..BatchTime,
           sched'[p] = [sched[p] EXCEPT !.elapsed = elapsed]
    PROVE  ProcessTrue(p)'
<1> DEFINE s == sched[p]
           c == Head(s.batch)
<1>0. s \in Sched
  BY DEF TypeInv, TypeOK
<1>1. /\ sched'[p].step = s.step /\ sched'[p].batch = s.batch /\ sched'[p].from = s.from
      /\ sched'[p].at = s.at /\ sched'[p].start = s.start /\ sched'[p] \in Sched
  BY <1>0 DEF Sched
<1>2. Entries(p)' = Entries(p)
  BY <1>1 DEF Entries
<1>3. ClaimsTrue(p)'
  BY <1>2, ClaimsStayTrue DEF ProcessTrue, TypeInv
<1>4. Reached(p)' = Reached(p)
  BY <1>1 DEF Reached, Asked
<1>5. ASSUME s.step \in {"fetch", "ingest", "finish", "complete"},
             NEW k, Covers(s, c.job, c.cursor, k)
      PROVE  Covers(sched[p], c.job, c.cursor, k)'
  <2>1. s.batch # <<>>
    BY <1>5 DEF TypeInv, Working, Busy
  <2>2. c \in Claimed /\ account[c.job[1]] # "new"
    BY <2>1, HeadIsEntry, EntryTypes DEF TypeInv, ProcessTrue, ClaimsTrue
  <2>3. CoversNext(s, c.job, c.cursor, k)
    BY <1>0, <1>5, <2>2, CoversStays
  <2> QED  BY <1>1, <2>3 DEF Covers, CoversNext, StartsRight, Linked
<1>6. RunTrue(p)'
  BY <1>1, <1>4, <1>5 DEF ProcessTrue, RunTrue, IsIncremental
<1> QED  BY <1>3, <1>6 DEF ProcessTrue

(* A process whose record does not change. *)
LEMMA ProcessUntouched ==
    ASSUME TypeInv, NEW p \in Owner, ProcessTrue(p), Harmless(p), sched'[p] = sched[p]
    PROVE  ProcessTrue(p)'
<1>1. sched[p].elapsed \in 0..BatchTime /\ sched[p] = [sched[p] EXCEPT !.elapsed = sched[p].elapsed]
  BY DEF TypeInv, TypeOK, Sched
<1> QED  BY <1>1, ProcessStaysTrue

-----------------------------------------------------------------------------
(* No step harms what another process knows *)

LEMMA RowsUntouchedHarmless ==
    ASSUME TypeOK, NEW p \in Owner, jobs' = jobs, account' = account,
           \A a \in Account : ingested[a] \subseteq ingested'[a],
           \A a \in Account : /\ history'[a].byDay = history[a].byDay
                              /\ history'[a].today \in Nat
                              /\ history'[a].today >= history[a].today
    PROVE  Harmless(p)
BY DEF Harmless, Holds

LEMMA SameDays ==
    ASSUME TypeOK, history' = history
    PROVE  \A a \in Account : /\ history'[a].byDay = history[a].byDay
                              /\ history'[a].today \in Nat
                              /\ history'[a].today >= history[a].today
BY SizeAssumption DEF TypeOK, History, Position

(* New rows have no owner. *)
LEMMA ProvisioningHarmless ==
    ASSUME TypeOK, NEW p \in Owner, NEW accounts, jobs' = Provisioned(jobs, accounts)
    PROVE  \A j \in Job : Holds(p, j)' => Holds(p, j) /\ jobs'[j].cursor = jobs[j].cursor
<1> SUFFICES ASSUME NEW j \in Job, Holds(p, j)'
             PROVE  Holds(p, j) /\ jobs'[j].cursor = jobs[j].cursor
  OBVIOUS
<1>1. CASE jobs[j] = NoJob /\ j[1] \in accounts
  BY <1>1, OwnerAssumption DEF Provisioned, Holds, NewRow, Nobody
<1>2. CASE ~ (jobs[j] = NoJob /\ j[1] \in accounts)
  BY <1>2 DEF Provisioned, Holds
<1> QED  BY <1>1, <1>2

LEMMA AccountsHarmless ==
    ASSUME TypeInv, NEW p \in Owner, NEW a \in Account,
           \/ (\E o \in Owner : Connect(o, a)) \/ EnsureJobs(a) \/ Deleted(a)
           \/ ConnectAbandoned(a) \/ Play(a) \/ Midnight(a)
    PROVE  Harmless(p)
<1>0. TypeOK /\ (history' = history => \A b \in Account : /\ history'[b].byDay = history[b].byDay
                                                      /\ history'[b].today \in Nat
                                                      /\ history'[b].today >= history[b].today)
  BY SameDays DEF TypeInv
<1>1. ASSUME NEW o \in Owner, Connect(o, a) PROVE Harmless(p)
  BY <1>0, <1>1 DEF Connect, Harmless, Holds, TypeOK
<1>2. CASE EnsureJobs(a)
  BY <1>0, <1>2, ProvisioningHarmless DEF EnsureJobs, Harmless, TypeOK
<1>3. CASE Deleted(a)
  BY <1>0, <1>3 DEF Deleted, Dropped, Harmless, Holds, TypeOK
<1>4. CASE ConnectAbandoned(a)
  BY <1>0, <1>4, RowsUntouchedHarmless DEF ConnectAbandoned
<1>5. CASE Play(a) \/ Midnight(a)
  <2>1. jobs' = jobs /\ account' = account /\ ingested' = ingested
    BY <1>5 DEF Play, Midnight
  <2> QED  BY <1>0, <1>5, <2>1, HistoryGrows, RowsUntouchedHarmless
<1> QED  BY <1>1, <1>2, <1>3, <1>4, <1>5

LEMMA QuietHarmless ==
    ASSUME TypeInv, NEW p \in Owner, NEW o \in Owner,
           \/ Start(o) \/ Crash(o) \/ ClaimFails(o) \/ BeginRun(o) \/ OpenRun(o)
           \/ Fetch(o) \/ Ingest(o) \/ RunFails(o) \/ FinishRun(o)
    PROVE  Harmless(p)
<1>1. CASE Start(o)
  BY <1>1, ProvisioningHarmless, SameDays DEF Start, Harmless, TypeInv, TypeOK
<1>2. CASE Ingest(o)
  <2>1. jobs' = jobs /\ account' = account /\ history' = history
    BY <1>2 DEF Ingest
  <2>2. \A a \in Account : ingested[a] \subseteq ingested'[a]
    BY <1>2 DEF Ingest, TypeInv, TypeOK
  <2> QED  BY <2>1, <2>2, SameDays, RowsUntouchedHarmless DEF TypeInv
<1>3. CASE \/ Crash(o) \/ ClaimFails(o) \/ BeginRun(o) \/ OpenRun(o)
           \/ Fetch(o) \/ RunFails(o) \/ FinishRun(o)
  <2>1. jobs' = jobs /\ account' = account /\ ingested' = ingested
        /\ history' = history
    BY <1>3 DEF Crash, ClaimFails, BeginRun, OpenRun, Fetch, RunFails, FinishRun
  <2> QED  BY <2>1, SameDays, RowsUntouchedHarmless DEF TypeInv
<1> QED  BY <1>1, <1>2, <1>3

LEMMA ClaimHarmless ==
    ASSUME TypeOK, NEW o \in Owner, NEW p \in Owner \ {o}, ClaimDue(o)
    PROVE  Harmless(p)
<1>1. PICK size, picked : Taken(o, size, picked)
  BY ClaimTakes
<1>2. ASSUME NEW j \in Job, Holds(p, j)'
      PROVE  Holds(p, j) /\ jobs'[j].cursor = jobs[j].cursor
  <2>1. CASE \E n \in 1..size : picked[n] = j
    <3>1. jobs'[j] = [jobs[j] EXCEPT !.owner = o, !.lease = Lease] /\ jobs[j] \in Row
      BY <1>1, <2>1 DEF Taken, Due, TypeOK
    <3>2. jobs'[j].owner = o
      BY <3>1 DEF Row
    <3> QED  BY <1>2, <3>2 DEF Holds
  <2>2. CASE ~ \E n \in 1..size : picked[n] = j
    BY <1>1, <1>2, <2>2 DEF Taken, Holds
  <2> QED  BY <2>1, <2>2
<1> QED  BY <1>1, <1>2, SameDays DEF Taken, Harmless

LEMMA CompleteHarmless ==
    ASSUME TypeInv, NEW p \in Owner, NEW o \in Owner, Complete(o)
    PROVE  Harmless(p)
<1> DEFINE i == CurrentJob(o)
<1>1. jobs' = jobs \/ (i \in Job /\ jobs' = [jobs EXCEPT ![i] = Released(o, i)])
  <2>1. sched[o].batch # <<>>
    BY DEF Complete, TypeInv, Working, Busy
  <2>2. i \in Job
    BY <2>1, CurrentJobIsJob DEF TypeInv
  <2> QED  BY <2>2 DEF Complete
<1>2. ASSUME NEW j \in Job, Holds(p, j)'
      PROVE  Holds(p, j) /\ jobs'[j].cursor = jobs[j].cursor
  <2>1. CASE jobs' = jobs
    BY <1>2, <2>1 DEF Holds
  <2>2. CASE i \in Job /\ jobs' = [jobs EXCEPT ![i] = Released(o, i)]
    <3>1. Released(o, i).owner = Nobody
      BY DEF Released
    <3>2. j # i
      BY <1>2, <2>2, <3>1, OwnerAssumption DEF Holds, Nobody, TypeInv, TypeOK
    <3> QED  BY <1>2, <2>2, <3>2 DEF Holds, TypeInv, TypeOK
  <2> QED  BY <1>1, <2>1, <2>2
<1>3. history' = history
  BY DEF Complete
<1> QED  BY <1>2, <1>3, SameDays DEF Complete, Harmless, TypeInv, TypeOK

LEMMA TickHarmless ==
    ASSUME TypeOK, NEW p \in Owner, Tick
    PROVE  Harmless(p)
<1>1. ASSUME NEW j \in Job, Holds(p, j)'
      PROVE  Holds(p, j) /\ jobs'[j].cursor = jobs[j].cursor
  <2>1. jobs[j] # NoJob /\ jobs'[j] = Aged(jobs[j]) /\ jobs[j] \in Row
    BY <1>1 DEF Tick, Holds, TypeOK
  <2>2. /\ Aged(jobs[j]).owner = jobs[j].owner /\ Aged(jobs[j]).cursor = jobs[j].cursor
        /\ Aged(jobs[j]).lease > 0 => jobs[j].lease > 0
    BY <2>1, TimeAssumption DEF Aged, Row
  <2> QED  BY <1>1, <2>1, <2>2 DEF Holds
<1> QED  BY <1>1, SameDays DEF Tick, Harmless, TypeOK

-----------------------------------------------------------------------------
(* What the process that steps knows afterwards *)

LEMMA BatchOf ==
    ASSUME TypeInv, NEW o \in Owner, sched[o].step \in Busy
    PROVE  /\ sched[o] \in Sched /\ sched[o].batch # <<>> /\ sched[o].batch \in Seq(Claimed)
           /\ Head(sched[o].batch) \in Entries(o) /\ CurrentJob(o) = Head(sched[o].batch).job
           /\ CurrentJob(o) \in Job /\ CurrentJob(o)[1] \in Account
<1>1. sched[o] \in Sched /\ sched[o].batch # <<>>
  BY DEF TypeInv, TypeOK, Working
<1>2. sched[o].batch \in Seq(Claimed)
  BY <1>1 DEF Sched
<1> QED  BY <1>1, <1>2, HeadIsEntry, CurrentJobIsJob DEF TypeInv, CurrentJob

(* With no batch there is nothing to know. *)
LEMMA IdleTrue ==
    ASSUME NEW o \in Owner, sched'[o].batch = <<>>,
           sched'[o].step \notin {"fetch", "ingest", "finish", "complete"}
    PROVE  ProcessTrue(o)'
<1>1. Entries(o)' = {}
  BY DEF Entries
<1> QED  BY <1>1 DEF ProcessTrue, ClaimsTrue, RunTrue

LEMMA StartTrue ==
    ASSUME TypeInv, NEW o \in Owner, Start(o) \/ Crash(o) \/ ClaimFails(o)
    PROVE  ProcessTrue(o)'
<1>1. \E step \in {"poll", "dead", "stopped"} : sched' = [sched EXCEPT ![o] = Fresh(step)]
  BY DEF Start, Crash, ClaimFails
<1>2. sched'[o].batch = <<>> /\ sched'[o].step \in {"poll", "dead", "stopped"}
  BY <1>1 DEF Fresh, TypeInv, TypeOK
<1> QED  BY <1>2, IdleTrue

LEMMA ClaimTrue ==
    ASSUME IInv, NEW o \in Owner, ClaimDue(o)
    PROVE  ProcessTrue(o)'
<1>1. PICK size, picked : Taken(o, size, picked)
  BY ClaimTakes
<1> DEFINE entry(n) == [job |-> picked[n], cursor |-> jobs[picked[n]].cursor]
<1>2. /\ sched'[o].batch = [n \in 1..size |-> entry(n)]
      /\ sched'[o].step \in {"wait", "begin"}
  BY <1>1 DEF Taken, Fresh, IInv, TypeInv, TypeOK
<1>3. size \in Nat /\ Len(sched'[o].batch) = size
  <2>1. size \in Nat
    BY <1>1 DEF Taken
  <2>2. \A f : f = [n \in 1..size |-> entry(n)] => Len(f) = size
    BY <2>1
  <2> QED  BY <1>2, <2>1, <2>2
<1>4. Entries(o)' = {entry(n) : n \in 1..size}
  BY <1>2, <1>3 DEF Entries
<1>5. ASSUME NEW n \in 1..size
      PROVE  /\ picked[n] \in Job /\ jobs[picked[n]] \in Row /\ Linked(picked[n][1])
             /\ jobs[picked[n]] # NoJob
             /\ jobs'[picked[n]].cursor = jobs[picked[n]].cursor
  <2>1. picked[n] \in Job /\ Due(picked[n])
    BY <1>1 DEF Taken
  <2>2. jobs[picked[n]] \in Row /\ jobs[picked[n]] # NoJob /\ Linked(picked[n][1])
    BY <2>1 DEF Due, IInv, TypeInv, TypeOK
  <2>3. jobs'[picked[n]] = [jobs[picked[n]] EXCEPT !.owner = o, !.lease = Lease]
    BY <1>1, <2>1 DEF Taken
  <2>4. jobs'[picked[n]].cursor = jobs[picked[n]].cursor
    BY <2>2, <2>3 DEF Row
  <2> QED  BY <2>1, <2>2, <2>4
<1>6. account' = account
  BY <1>1 DEF Taken
<1>8. ClaimsTrue(o)'
  <2> SUFFICES ASSUME NEW c \in Entries(o)'
               PROVE  /\ account'[c.job[1]] # "new"
                      /\ jobs'[c.job].cursor = c.cursor
    BY DEF ClaimsTrue
  <2>1. PICK n \in 1..size : c = entry(n)
    BY <1>4
  <2>2. c.job = picked[n] /\ c.cursor = jobs[picked[n]].cursor
    BY <2>1
  <2> QED  BY <1>5, <1>6, <2>2 DEF Linked
<1> QED  BY <1>2, <1>8 DEF ProcessTrue, RunTrue

(* A step that keeps the batch and sets the run at r. *)
LEMMA RunStepTrue ==
    ASSUME IInv, NEW o \in Owner, Harmless(o), sched[o].step \in Busy,
           NEW r \in Sched, sched' = [sched EXCEPT ![o] = r], r.batch = sched[o].batch,
           r.step \in {"fetch", "ingest"} /\ IsIncremental(CurrentJob(o))
              => /\ CoversNext(r, CurrentJob(o), Head(r.batch).cursor,
                               IF r.step = "ingest" THEN r.at ELSE Asked(r))
                 /\ r.from = 0 \/ r.from >= r.start,
           r.step \in {"finish", "complete"} /\ r.from # 0
              => /\ IsIncremental(CurrentJob(o))
                 /\ CoversNext(r, CurrentJob(o), Head(r.batch).cursor, r.from)
    PROVE  ProcessTrue(o)'
<1>1. sched'[o] = r
  BY SchedSet DEF IInv, TypeInv
<1>2. /\ Entries(o)' = Entries(o)
      /\ Head(sched'[o].batch).job = CurrentJob(o)
      /\ Head(sched'[o].batch) = Head(r.batch)
  BY <1>1 DEF Entries, CurrentJob
<1>3. ClaimsTrue(o)'
  BY <1>2, ClaimsStayTrue DEF IInv, TypeInv, ProcessTrue
<1>4. Reached(o)' = IF r.step = "ingest" THEN r.at ELSE Asked(r)
  BY <1>1 DEF Reached, Asked
<1>5. ASSUME NEW k, CoversNext(r, CurrentJob(o), Head(r.batch).cursor, k)
      PROVE  Covers(sched[o], Head(sched[o].batch).job, Head(sched[o].batch).cursor, k)'
  BY <1>1, <1>2, <1>5 DEF Covers, CoversNext, Linked, StartsRight
<1>6. RunTrue(o)'
  BY <1>1, <1>2, <1>4, <1>5 DEF RunTrue, IsIncremental
<1> QED  BY <1>3, <1>6 DEF ProcessTrue

LEMMA EndedRecord ==
    ASSUME NEW s \in Sched, NEW k \in Position
    PROVE  /\ Ended(s, k) \in Sched /\ Ended(s, k).step = "finish" /\ Ended(s, k).from = k
           /\ Ended(s, k).batch = s.batch
           /\ k # 0 => Ended(s, k).start = s.start
<1>1. Fresh("finish") \in Sched /\ 0 \in Position
  BY FreshIsSched, SizeAssumption DEF Position
<1>2. s.batch \in Seq(Claimed) /\ s.fatal \in BOOLEAN /\ s.elapsed \in 0..BatchTime
      /\ s.start \in Position
  BY DEF Sched
<1>3. (IF k = 0 THEN 0 ELSE s.start) \in Position
  BY <1>1, <1>2
<1> QED  BY <1>1, <1>2, <1>3 DEF Ended, Fresh, Sched

LEMMA RunTrueAfter ==
    ASSUME IInv, NEW o \in Owner,
           BeginRun(o) \/ OpenRun(o) \/ Fetch(o) \/ RunFails(o) \/ FinishRun(o)
    PROVE  ProcessTrue(o)'
<1> DEFINE s == sched[o]
           a == CurrentJob(o)[1]
           c == Head(s.batch)
           h == history[a]
<1>0. s.step \in Busy
  BY DEF Busy, BeginRun, OpenRun, Fetch, RunFails, FinishRun
<1>1. /\ s \in Sched /\ s.batch # <<>> /\ c \in Entries(o) /\ CurrentJob(o) = c.job
      /\ a \in Account /\ s.from \in Position /\ s.from \in Nat
      /\ c \in Claimed /\ c.cursor \in Position /\ c.cursor \in Nat
      /\ h \in History /\ h.plays \in Position /\ h.plays \in Nat /\ h.today \in Nat
      /\ s.start \in Nat
  <2>1. /\ s \in Sched /\ s.batch # <<>> /\ c \in Entries(o) /\ CurrentJob(o) = c.job
        /\ a \in Account
    BY <1>0, BatchOf DEF IInv
  <2>2. c \in Claimed /\ c.cursor \in Position
    BY <2>1, EntryTypes DEF IInv, TypeInv
  <2>3. h \in History /\ h.plays \in Position /\ h.today \in Position
    BY <2>1 DEF IInv, TypeInv, TypeOK, History
  <2>4. s.from \in Position /\ s.start \in Position
    BY <2>1 DEF Sched
  <2>5. Position \subseteq Nat
    BY SizeAssumption DEF Position
  <2> HIDE DEF h, s, c, a
  <2> QED  BY <2>1, <2>2, <2>3, <2>4, <2>5
<1>2. Harmless(o) /\ ingested' = ingested /\ account' = account /\ history' = history
  <2>1. Harmless(o)
    BY QuietHarmless DEF IInv
  <2> QED  BY <2>1 DEF BeginRun, OpenRun, Fetch, RunFails, FinishRun
<1>3. account[c.job[1]] # "new"
  BY <1>1 DEF IInv, ProcessTrue, ClaimsTrue
<1>4. ASSUME NEW r \in Sched, sched' = [sched EXCEPT ![o] = r], r.batch = s.batch,
             r.step \in {"open", "complete", "finish"}, r.step = "open" \/ r.from = 0
      PROVE  ProcessTrue(o)'
  BY <1>0, <1>2, <1>4, RunStepTrue
<1>5. 0 \in Position
  BY SizeAssumption DEF Position
<1>6. ASSUME NEW k, Covers(s, c.job, c.cursor, k),
             NEW r \in Sched, r.start = s.start
      PROVE  CoversNext(r, CurrentJob(o), c.cursor, k)
  BY <1>1, <1>2, <1>6 DEF Covers, CoversNext, StartsRight, Linked
<1>7. CASE BeginRun(o)
  <2>1. s.from = 0 /\ s.step = "begin"
    BY <1>7 DEF BeginRun, IInv, TypeInv, Working
  <2>2. CASE sched' = [sched EXCEPT ![o].step = "open"]
    <3> DEFINE r == [s EXCEPT !.step = "open"]
    <3>1. r \in Sched /\ r.batch = s.batch /\ r.step = "open"
      BY <1>1 DEF Sched
    <3>2. sched' = [sched EXCEPT ![o] = r]
      BY <2>2
    <3> HIDE DEF r
    <3> QED  BY <1>4, <3>1, <3>2
  <2>3. CASE sched' = [sched EXCEPT ![o].step = "complete", ![o].fatal = TRUE]
    <3> DEFINE r == [s EXCEPT !.step = "complete", !.fatal = TRUE]
    <3>1. r \in Sched /\ r.batch = s.batch /\ r.step = "complete" /\ r.from = 0
      BY <1>1, <2>1 DEF Sched
    <3>2. sched' = [sched EXCEPT ![o] = r]
      BY <2>3
    <3> HIDE DEF r
    <3> QED  BY <1>4, <3>1, <3>2
  <2> QED  BY <1>7, <2>2, <2>3 DEF BeginRun
<1>8. CASE OpenRun(o)
  <2> DEFINE f == IF IsIncremental(c.job) THEN c.cursor ELSE 0
  <2>1. PICK k \in 0..h.plays :
           /\ f # 0 => k = f
           /\ f = 0 /\ h.byDay => k <= h.today
           /\ f = 0 /\ IsIncremental(c.job) => k = (IF h.byDay THEN h.today ELSE 0)
           /\ sched' = [sched EXCEPT ![o].step = "fetch", ![o].start = k,
                                    ![o].until = h.plays, ![o].from = f]
    BY <1>1, <1>8 DEF OpenRun, IsIncremental
  <2>2. k \in Position /\ k \in Nat /\ f \in Position /\ h.plays \in Position
    <3>1. f \in Position
      BY <1>1, <1>5
    <3> HIDE DEF h, f
    <3> QED  BY <1>1, <2>1, <3>1, SizeAssumption DEF Position
  <2> DEFINE r == [s EXCEPT !.step = "fetch", !.start = k, !.until = h.plays, !.from = f]
  <2>3. /\ r \in Sched /\ r.batch = s.batch /\ r.step = "fetch"
        /\ r.start = k /\ r.from = f
    <3> HIDE DEF f, h
    <3> QED  BY <1>1, <2>2 DEF Sched
  <2>4. sched' = [sched EXCEPT ![o] = r]
    BY <2>1
  <2>5. ASSUME IsIncremental(c.job)
        PROVE  /\ CoversNext(r, CurrentJob(o), Head(r.batch).cursor, Asked(r))
               /\ r.from = 0 \/ r.from >= r.start
    <3>1. f = c.cursor
      BY <2>5
    <3>a. /\ f # 0 => k = f
          /\ f = 0 => k = (IF h.byDay THEN h.today ELSE 0)
      BY <2>1, <2>5
    <3>b. h.byDay \in BOOLEAN
      BY <1>1 DEF History
    <3> HIDE DEF r, f, h
    <3>2. Asked(r) = k
      BY <3>a, <2>3 DEF Asked
    <3>3. (k + 1)..k = {} /\ k >= k
      BY <2>2
    <3>4. k >= c.cursor
      BY <1>1, <2>2, <3>a, <3>1
    <3>5. StartsRight(r, c.cursor, h)
      BY <1>1, <2>2, <2>3, <3>a, <3>1 DEF StartsRight
    <3>6. r.from = 0 \/ r.from >= r.start
      BY <2>3, <3>a, <3>3
    <3>7. history'[a] = h /\ c = Head(r.batch)
      BY <1>2, <2>3 DEF h
    <3> HIDE DEF c, a, s
    <3>8. CoversNext(r, CurrentJob(o), c.cursor, k)
      BY <2>3, <3>3, <3>4, <3>5, <3>7 DEF CoversNext, a
    <3> QED  BY <3>2, <3>6, <3>7, <3>8
  <2> HIDE DEF r
  <2> QED  BY <1>0, <1>1, <1>2, <2>3, <2>4, <2>5, RunStepTrue
<1>9. CASE Fetch(o)
  <2>1. s.step = "fetch"
    BY <1>9 DEF Fetch
  <2> DEFINE k == Asked(s)
  <2>2. IsIncremental(c.job)
           => Covers(s, c.job, c.cursor, k) /\ (s.from = 0 \/ s.from >= s.start)
    BY <1>1, <2>1 DEF IInv, ProcessTrue, RunTrue, Reached
  <2>3. k \in Position /\ k \in Nat
    BY <1>1, SizeAssumption DEF Asked, Sched, Position
  <2>4. CASE sched' = [sched EXCEPT ![o] = Ended(@, IF CurrentJob(o)[2] = "incremental" THEN s.from ELSE 0)]
    <3> DEFINE m == IF IsIncremental(c.job) THEN s.from ELSE 0
               r == Ended(s, m)
    <3>1. m \in Position
      BY <1>1, <1>5
    <3>2. sched' = [sched EXCEPT ![o] = r]
      BY <1>1, <2>4 DEF IsIncremental
    <3>3. m # 0 => IsIncremental(c.job) /\ m = s.from /\ m = k
      BY DEF Asked
    <3> HIDE DEF m
    <3>4. /\ r \in Sched /\ r.batch = s.batch /\ r.step = "finish" /\ r.from = m
          /\ m # 0 => r.start = s.start
      BY <1>1, <3>1, EndedRecord
    <3> HIDE DEF r, k
    <3>5. m # 0 => CoversNext(r, CurrentJob(o), c.cursor, m)
      BY <1>6, <2>2, <3>3, <3>4
    <3> QED  BY <1>0, <1>1, <1>2, <3>2, <3>3, <3>4, <3>5, RunStepTrue
  <2>5. ASSUME NEW n \in Position,
               sched' = [sched EXCEPT ![o].step = "ingest", ![o].at = k, ![o].upto = n]
        PROVE  ProcessTrue(o)'
    <3> DEFINE r == [s EXCEPT !.step = "ingest", !.at = k, !.upto = n]
    <3> HIDE DEF k
    <3>1. /\ r \in Sched /\ r.batch = s.batch /\ r.step = "ingest" /\ r.from = s.from
          /\ r.at = k /\ r.start = s.start
      BY <1>1, <2>3, <2>5 DEF Sched
    <3>2. sched' = [sched EXCEPT ![o] = r]
      BY <2>5
    <3> HIDE DEF r
    <3> QED  BY <1>0, <1>1, <1>2, <1>6, <2>2, <3>1, <3>2, RunStepTrue
  <2>6. PICK v \in Shown(s, h) :
           \/ sched' = [sched EXCEPT ![o] = Ended(@, IF CurrentJob(o)[2] = "incremental" THEN s.from ELSE 0)]
           \/ \E n \in (k + 1)..v :
                 sched' = [sched EXCEPT ![o].step = "ingest", ![o].at = k, ![o].upto = n]
    BY <1>9 DEF Fetch
  <2>7. v \in Position
    BY <1>1, <2>6, ShownIsPosition
  <2>8. \A n \in (k + 1)..v : n \in Position
    BY <2>3, <2>7, SizeAssumption DEF Position
  <2> QED  BY <2>4, <2>5, <2>6, <2>8
<1>10. CASE RunFails(o)
  <2> DEFINE e == Ended(s, 0)
             r == [e EXCEPT !.failed = TRUE]
  <2>1. r \in Sched /\ r.batch = s.batch /\ r.step = "finish" /\ r.from = 0
    <3>1. e \in Sched /\ e.batch = s.batch /\ e.step = "finish" /\ e.from = 0
      BY <1>1, <1>5, EndedRecord
    <3> HIDE DEF e
    <3> QED  BY <3>1 DEF Sched
  <2>2. sched' = [sched EXCEPT ![o] = r]
    BY <1>10 DEF RunFails
  <2> HIDE DEF r
  <2> QED  BY <1>4, <2>1, <2>2
<1>11. CASE FinishRun(o)
  <2>1. s.step = "finish"
    BY <1>11 DEF FinishRun
  <2>2. PICK fatal \in BOOLEAN :
            sched' = [sched EXCEPT ![o] =
                        [s EXCEPT !.step = "complete", !.failed = FALSE, !.fatal = fatal]]
    <3>1. CASE sched' = [sched EXCEPT ![o].step = "complete", ![o].failed = FALSE]
      <4>1. s.fatal \in BOOLEAN /\ [s EXCEPT !.step = "complete", !.failed = FALSE]
                     = [s EXCEPT !.step = "complete", !.failed = FALSE, !.fatal = s.fatal]
        BY <1>1 DEF Sched
      <4>2. sched' = [sched EXCEPT ![o] = [s EXCEPT !.step = "complete", !.failed = FALSE]]
        BY <3>1
      <4> QED  BY <4>1, <4>2
    <3>2. CASE sched' = [sched EXCEPT ![o].step = "complete", ![o].failed = FALSE, ![o].fatal = TRUE]
      <4>1. sched' = [sched EXCEPT ![o] =
                        [s EXCEPT !.step = "complete", !.failed = FALSE, !.fatal = TRUE]]
        BY <3>2
      <4> QED  BY <4>1
    <3> QED  BY <1>11, <3>1, <3>2 DEF FinishRun
  <2> DEFINE r == [s EXCEPT !.step = "complete", !.failed = FALSE, !.fatal = fatal]
  <2>3. /\ r \in Sched /\ r.batch = s.batch /\ r.step = "complete" /\ r.from = s.from
        /\ r.start = s.start
    BY <1>1 DEF Sched
  <2>4. s.from # 0 => IsIncremental(c.job) /\ Covers(s, c.job, c.cursor, s.from)
    BY <1>1, <2>1 DEF IInv, ProcessTrue, RunTrue
  <2>5. sched' = [sched EXCEPT ![o] = r]
    BY <2>2
  <2> HIDE DEF r
  <2> QED  BY <1>0, <1>1, <1>2, <1>6, <2>3, <2>4, <2>5, RunStepTrue
<1> QED  BY <1>7, <1>8, <1>9, <1>10, <1>11

LEMMA IngestTrue ==
    ASSUME IInv, NEW o \in Owner, Ingest(o)
    PROVE  ProcessTrue(o)'
<1> DEFINE s == sched[o]
           a == CurrentJob(o)[1]
           c == Head(s.batch)
           n == s.at + 1
<1>1. s.step = "ingest" /\ s.step \in Busy
  BY DEF Ingest, Busy
<1>2. /\ s \in Sched /\ s.batch # <<>> /\ c \in Entries(o) /\ CurrentJob(o) = c.job
      /\ a \in Account /\ c.cursor \in Position
  BY <1>1, BatchOf, EntryTypes DEF IInv, TypeInv
<1>3. /\ s.start \in Nat /\ s.from \in Nat /\ s.at \in Nat /\ s.upto \in Nat /\ n \in Nat
      /\ c.cursor \in Nat /\ n \in Position /\ 0 \in Position
      /\ s.from <= s.at /\ s.at < s.upto
  <2>1. s.start \in Position /\ s.from \in Position /\ s.at \in Position /\ s.upto \in Position
    BY <1>2 DEF Sched
  <2>2. s.from <= s.at /\ s.at < s.upto
    BY <1>1 DEF IInv, TypeInv, Working
  <2> QED  BY <1>2, <2>1, <2>2, SizeAssumption DEF Position
<1>4. Harmless(o)
  BY QuietHarmless DEF IInv
<1>5. ingested'[a] = ingested[a] \cup {n} /\ account' = account /\ history' = history
  BY <1>2 DEF Ingest, IInv, TypeInv, TypeOK
<1>6. ASSUME IsIncremental(c.job), NEW r \in Sched, r.start = s.start
      PROVE  /\ CoversNext(r, c.job, c.cursor, n)
             /\ n >= s.start /\ (s.from = 0 \/ s.from >= s.start)
  <2>1. Covers(s, c.job, c.cursor, s.at) /\ (s.from = 0 \/ s.from >= s.start)
    BY <1>1, <1>2, <1>6 DEF IInv, ProcessTrue, RunTrue, Reached
  <2>2. s.at >= s.start /\ s.at >= c.cursor
    BY <2>1 DEF Covers
  <2>3. (s.start + 1)..n = ((s.start + 1)..s.at) \cup {n} /\ n >= s.start /\ n >= c.cursor
    BY <1>3, <2>2
  <2>4. StartsRight(r, c.cursor, history'[a])
    BY <1>2, <1>5, <1>6, <2>1 DEF Covers, StartsRight
  <2>5. account'[a] = "linked" => (s.start + 1)..n \subseteq ingested'[a]
    BY <1>2, <1>5, <2>1, <2>3 DEF Covers, Linked
  <2> HIDE DEF n
  <2> QED  BY <1>2, <1>6, <2>1, <2>3, <2>4, <2>5 DEF CoversNext
<1>7. CASE n = s.upto
  <2> DEFINE r == [s EXCEPT !.step = "fetch", !.from = n, !.at = 0, !.upto = 0]
  <2>1. /\ r \in Sched /\ r.batch = s.batch /\ r.step = "fetch" /\ r.from = n
        /\ r.start = s.start
    BY <1>2, <1>3 DEF Sched
  <2>2. sched' = [sched EXCEPT ![o].step = "fetch", ![o].from = n, ![o].at = 0, ![o].upto = 0]
    BY <1>7 DEF Ingest
  <2>3. sched' = [sched EXCEPT ![o] = r]
    BY <2>2
  <2>4. Asked(r) = n
    <3>1. n # 0
      BY <1>3
    <3> HIDE DEF n, r
    <3> QED  BY <2>1, <3>1 DEF Asked
  <2> HIDE DEF r, n
  <2> QED  BY <1>1, <1>2, <1>4, <1>6, <2>1, <2>3, <2>4, RunStepTrue
<1>8. CASE n # s.upto
  <2> DEFINE r == [s EXCEPT !.at = n]
  <2>1. /\ r \in Sched /\ r.batch = s.batch /\ r.step = "ingest" /\ r.from = s.from
        /\ r.at = n /\ r.start = s.start
    BY <1>1, <1>2, <1>3 DEF Sched
  <2>2. sched' = [sched EXCEPT ![o].at = n]
    BY <1>8 DEF Ingest
  <2>3. sched' = [sched EXCEPT ![o] = r]
    BY <2>2
  <2> HIDE DEF r, n
  <2> QED  BY <1>1, <1>2, <1>4, <1>6, <2>1, <2>3, RunStepTrue
<1> QED  BY <1>7, <1>8

LEMMA CompleteTrue ==
    ASSUME IInv, NEW o \in Owner, Complete(o)
    PROVE  ProcessTrue(o)'
<1> DEFINE s == sched[o]
<1>1. s.step \in Busy
  BY DEF Complete, Busy
<1>2. s \in Sched /\ s.batch # <<>> /\ s.batch \in Seq(Claimed)
  BY <1>1, BatchOf DEF IInv
<1>3. PICK fatal \in BOOLEAN : sched' = [sched EXCEPT ![o] = AfterJob(s, fatal)]
  BY <1>2 DEF Complete, Sched
<1>4. /\ sched'[o].step \in {"begin", "stopped", "poll", "wait"}
      /\ sched'[o].batch = IF Len(s.batch) > 1 THEN Tail(s.batch) ELSE <<>>
  <2>1. sched'[o] = AfterJob(s, fatal)
    BY <1>3 DEF IInv, TypeInv, TypeOK
  <2> QED  BY <1>2, <2>1, AfterJobIsSched
<1>5. Entries(o)' \subseteq Entries(o)
  <2>1. CASE Len(s.batch) > 1
    <3>1. /\ Len(Tail(s.batch)) = Len(s.batch) - 1 /\ Len(s.batch) \in Nat
          /\ \A m \in 1..Len(Tail(s.batch)) : Tail(s.batch)[m] = s.batch[m + 1]
      BY <1>2, BatchHead
    <3>2. sched'[o].batch = Tail(s.batch)
      BY <1>4, <2>1
    <3>3. ASSUME NEW c \in Entries(o)' PROVE c \in Entries(o)
      <4>1. PICK m \in 1..Len(Tail(s.batch)) : c = Tail(s.batch)[m]
        BY <3>2 DEF Entries
      <4>2. m + 1 \in 1..Len(s.batch) /\ c = s.batch[m + 1]
        BY <3>1, <4>1
      <4> QED  BY <4>2 DEF Entries
    <3> QED  BY <3>3
  <2>2. CASE ~ (Len(s.batch) > 1)
    BY <1>4, <2>2 DEF Entries
  <2> QED  BY <2>1, <2>2
<1>6. ClaimsTrue(o)'
  <2>1. Harmless(o)
    BY CompleteHarmless DEF IInv
  <2> QED  BY <1>5, <2>1, ClaimsStayTrue DEF IInv, TypeInv, ProcessTrue
<1> QED  BY <1>4, <1>6 DEF ProcessTrue, RunTrue

LEMMA TickTrue ==
    ASSUME IInv, NEW p \in Owner, Tick
    PROVE  ProcessTrue(p)'
<1>1. sched[p] \in Sched
  BY DEF IInv, TypeInv, TypeOK
<1>2. CASE sched[p].step \in Busy
  <2>1. sched'[p] = [sched[p] EXCEPT !.elapsed = @ + 1]
    BY <1>2 DEF Tick
  <2>2. sched[p].elapsed + 1 \in 0..BatchTime
    BY <1>1, <1>2, TimeAssumption DEF Tick, Sched
  <2> QED  BY <2>1, <2>2, TickHarmless, ProcessStaysTrue DEF IInv, TypeInv
<1>3. CASE sched[p].step = "wait"
  <2>1. sched'[p] = Fresh("poll")
    BY <1>3 DEF Tick, Busy
  <2> QED  BY <2>1, IdleTrue DEF Fresh
<1>4. CASE sched[p].step \notin Busy /\ sched[p].step # "wait"
  <2>1. sched'[p] = sched[p]
    BY <1>4 DEF Tick
  <2> QED  BY <2>1, TickHarmless, ProcessUntouched DEF IInv, TypeInv
<1> QED  BY <1>2, <1>3, <1>4

(* Whatever process steps, every process knows the truth afterwards. *)
LEMMA ProcessesTrue ==
    ASSUME IInv, NEW p \in Owner, [Next]_vars
    PROVE  ProcessTrue(p)'
<1>1. CASE UNCHANGED vars
  <2>1. UNCHANGED <<account, jobs, sched, history, ingested>>
    BY <1>1 DEF vars
  <2>2. Harmless(p)
    BY <2>1, SameDays, RowsUntouchedHarmless DEF IInv, TypeInv
  <2> QED  BY <2>1, <2>2, ProcessUntouched DEF IInv
<1>2. ASSUME NEW o \in Owner, Start(o) \/ Crash(o) \/ Scheduling(o)
      PROVE  ProcessTrue(p)'
  <2>1. CASE p = o
    BY <1>2, <2>1, StartTrue, ClaimTrue, RunTrueAfter, IngestTrue, CompleteTrue
       DEF Scheduling, IInv
  <2>2. CASE p # o
    <3>1. Harmless(p)
      BY <1>2, <2>2, QuietHarmless, ClaimHarmless, CompleteHarmless DEF Scheduling, IInv, TypeInv
    <3>2. sched'[p] = sched[p]
      BY <1>2, <2>2 DEF Start, Crash, Scheduling, ClaimDue, ClaimFails, BeginRun, OpenRun, Fetch,
         Ingest, RunFails, FinishRun, Complete, IInv, TypeInv, TypeOK
    <3> QED  BY <3>1, <3>2, ProcessUntouched DEF IInv
  <2> QED  BY <2>1, <2>2
<1>3. ASSUME NEW a \in Account,
             \/ \E o \in Owner : Connect(o, a)
             \/ EnsureJobs(a) \/ Disconnect(a) \/ ConnectFails(a)
             \/ ConnectAbandoned(a) \/ Play(a) \/ Midnight(a)
      PROVE  ProcessTrue(p)'
  <2>1. \/ (\E o \in Owner : Connect(o, a)) \/ EnsureJobs(a) \/ Deleted(a)
        \/ ConnectAbandoned(a) \/ Play(a) \/ Midnight(a)
    BY <1>3 DEF Disconnect, ConnectFails
  <2>2. sched' = sched
    BY <2>1 DEF Connect, EnsureJobs, Deleted, ConnectAbandoned, Play, Midnight
  <2>3. Harmless(p)
    BY <2>1, AccountsHarmless DEF IInv, TypeInv
  <2> QED  BY <2>2, <2>3, ProcessUntouched DEF IInv
<1>4. CASE Tick
  BY <1>4, TickTrue
<1> QED  BY <1>1, <1>2, <1>3, <1>4 DEF Next

-----------------------------------------------------------------------------
(* What a step does to a row *)

(* A row that is there after a step is new, or kept its cursor and, under a *)
(* lease, its owner, or was released by the process that holds it.          *)
RowStep(j) ==
    jobs'[j] # NoJob =>
        /\ account'[j[1]] = "linked"
        /\ ingested[j[1]] \subseteq ingested'[j[1]]
        /\ \/ jobs[j] = NoJob /\ jobs'[j].cursor = 0
           \/ /\ jobs[j] # NoJob /\ jobs'[j].cursor = jobs[j].cursor
              /\ jobs[j].lease > 0 => jobs'[j].owner = jobs[j].owner
           \/ \E o \in Owner : /\ sched[o].step = "complete" /\ CurrentJob(o) = j
                               /\ Holds(o, j) /\ jobs'[j] = Released(o, j)

LEMMA SameRows ==
    ASSUME IInv, NEW j \in Job, jobs'[j] = jobs[j], account'[j[1]] = account[j[1]],
           ingested[j[1]] \subseteq ingested'[j[1]]
    PROVE  RowStep(j)
BY DEF RowStep, IInv, JobsLinked, Linked

LEMMA ProvisionedRows ==
    ASSUME IInv, NEW j \in Job, NEW accounts, \A a \in accounts : Linked(a),
           jobs' = Provisioned(jobs, accounts), account' = account, ingested' = ingested
    PROVE  RowStep(j)
<1>1. CASE j[1] \in accounts /\ jobs[j] = NoJob
  <2>1. jobs'[j] = NewRow
    BY <1>1 DEF Provisioned
  <2> QED  BY <1>1, <2>1 DEF RowStep, NewRow, Linked
<1>2. CASE ~ (j[1] \in accounts /\ jobs[j] = NoJob)
  BY <1>2, SameRows DEF Provisioned
<1> QED  BY <1>1, <1>2

LEMMA AccountRows ==
    ASSUME IInv, NEW j \in Job, NEW a \in Account,
           \/ \E o \in Owner : Connect(o, a)
           \/ EnsureJobs(a) \/ Disconnect(a) \/ ConnectFails(a)
           \/ ConnectAbandoned(a) \/ Play(a) \/ Midnight(a)
    PROVE  RowStep(j)
<1>0. j[1] \in Account
  BY DEF Job
<1>1. ASSUME NEW o \in Owner, Connect(o, a) PROVE RowStep(j)
  BY <1>0, <1>1 DEF Connect, RowStep, IInv, TypeInv, TypeOK, JobsLinked, Linked
<1>2. CASE EnsureJobs(a)
  BY <1>2, ProvisionedRows DEF EnsureJobs
<1>3. CASE Deleted(a)
  <2>1. CASE j[1] = a
    BY <1>3, <2>1 DEF Deleted, Dropped, RowStep
  <2>2. CASE j[1] # a
    BY <1>0, <1>3, <2>2, SameRows DEF Deleted, Dropped, IInv, TypeInv, TypeOK
  <2> QED  BY <2>1, <2>2
<1>4. CASE ConnectAbandoned(a) \/ Play(a) \/ Midnight(a)
  BY <1>4, SameRows DEF ConnectAbandoned, Play, Midnight
<1> QED  BY <1>1, <1>2, <1>3, <1>4 DEF Disconnect, ConnectFails

LEMMA SchedulerRows ==
    ASSUME IInv, NEW j \in Job, NEW o \in Owner, Start(o) \/ Crash(o) \/ Scheduling(o)
    PROVE  RowStep(j)
<1>0. j[1] \in Account
  BY DEF Job
<1>1. CASE Start(o)
  <2>1. \A a \in {b \in Account : Linked(b)} : Linked(a)
    OBVIOUS
  <2>2. /\ jobs' = Provisioned(jobs, {b \in Account : Linked(b)})
        /\ account' = account /\ ingested' = ingested
    BY <1>1 DEF Start
  <2> QED  BY <2>1, <2>2, ProvisionedRows
<1>2. CASE ClaimDue(o)
  <2>1. PICK size, picked : Taken(o, size, picked)
    BY <1>2, ClaimTakes
  <2>2. CASE \E n \in 1..size : picked[n] = j
    <3>1. Due(j) /\ jobs'[j] = [jobs[j] EXCEPT !.owner = o, !.lease = Lease]
      BY <2>1, <2>2 DEF Taken
    <3>2. jobs[j] \in Row
      BY <3>1 DEF Due, IInv, TypeInv, TypeOK
    <3>3. jobs'[j].cursor = jobs[j].cursor /\ jobs[j] # NoJob /\ ~ (jobs[j].lease > 0)
          /\ account[j[1]] = "linked"
      BY <3>1, <3>2 DEF Due, Row, Linked
    <3> QED  BY <2>1, <3>3 DEF Taken, RowStep
  <2>3. CASE ~ \E n \in 1..size : picked[n] = j
    BY <2>1, <2>3, SameRows DEF Taken
  <2> QED  BY <2>2, <2>3
<1>3. CASE Ingest(o)
  <2>1. jobs' = jobs /\ account' = account /\ ingested[j[1]] \subseteq ingested'[j[1]]
    BY <1>0, <1>3 DEF Ingest, IInv, TypeInv, TypeOK
  <2> QED  BY <2>1, SameRows
<1>4. CASE Complete(o)
  <2>0. account' = account /\ ingested' = ingested /\ sched[o].step = "complete"
    BY <1>4 DEF Complete
  <2>1. CASE jobs' = jobs
    BY <2>0, <2>1, SameRows
  <2>2. CASE jobs' = [jobs EXCEPT ![CurrentJob(o)] = Released(o, CurrentJob(o))]
              /\ Holds(o, CurrentJob(o))
    <3>1. CASE CurrentJob(o) = j
      <4>1. jobs'[j] = Released(o, j) /\ jobs[j] # NoJob
        BY <2>2, <3>1 DEF Holds, IInv, TypeInv, TypeOK
      <4>2. account[j[1]] = "linked"
        BY <4>1 DEF IInv, JobsLinked, Linked
      <4> QED  BY <2>0, <2>2, <3>1, <4>1, <4>2 DEF RowStep
    <3>2. CASE CurrentJob(o) # j
      <4>1. jobs'[j] = jobs[j]
        BY <2>2, <3>2
      <4> QED  BY <2>0, <4>1, SameRows
    <3> QED  BY <3>1, <3>2
  <2> QED  BY <1>4, <2>1, <2>2 DEF Complete
<1>5. CASE \/ Crash(o) \/ ClaimFails(o) \/ BeginRun(o) \/ OpenRun(o)
           \/ Fetch(o) \/ RunFails(o) \/ FinishRun(o)
  <2>1. jobs' = jobs /\ account' = account /\ ingested' = ingested
    BY <1>5 DEF Crash, ClaimFails, BeginRun, OpenRun, Fetch, RunFails, FinishRun
  <2> QED  BY <2>1, SameRows
<1> QED  BY <1>1, <1>2, <1>3, <1>4, <1>5 DEF Scheduling

LEMMA RowSteps ==
    ASSUME IInv, [Next]_vars, NEW j \in Job
    PROVE  RowStep(j)
<1>1. CASE UNCHANGED vars
  BY <1>1, SameRows DEF vars
<1>2. CASE Tick
  <2>1. CASE jobs[j] = NoJob
    BY <1>2, <2>1 DEF Tick, RowStep
  <2>2. CASE jobs[j] # NoJob
    <3>1. jobs'[j] = Aged(jobs[j]) /\ jobs[j] \in Row
      BY <1>2, <2>2 DEF Tick, IInv, TypeInv, TypeOK
    <3>2. Aged(jobs[j]).owner = jobs[j].owner /\ Aged(jobs[j]).cursor = jobs[j].cursor
      BY <3>1 DEF Aged, Row
    <3> QED  BY <1>2, <2>2, <3>1, <3>2 DEF Tick, RowStep, IInv, JobsLinked, Linked
  <2> QED  BY <2>1, <2>2
<1> QED  BY <1>1, <1>2, AccountRows, SchedulerRows DEF Next

-----------------------------------------------------------------------------
(* The invariant and what follows from it *)

LEMMA InitTrue == Init => IInv
<1> SUFFICES ASSUME Init PROVE IInv
  OBVIOUS
<1>1. TypeInv
  BY InitTyped
<1>2. ASSUME NEW o \in Owner PROVE ProcessTrue(o)
  <2>1. sched[o] = Fresh("off")
    BY DEF Init
  <2>2. sched[o].batch = <<>> /\ sched[o].step = "off"
    BY <2>1 DEF Fresh
  <2>3. Entries(o) = {}
    BY <2>2 DEF Entries
  <2> QED  BY <2>2, <2>3 DEF ProcessTrue, ClaimsTrue, RunTrue
<1>3. JobsLinked
  BY DEF Init, JobsLinked
<1> QED  BY <1>1, <1>2, <1>3 DEF IInv

(* The process that releases a row has ingested what lies between the start *)
(* of its run and the cursor it stores, which is not below the one it found. *)
LEMMA ReleaseTrue ==
    ASSUME IInv, NEW o \in Owner, sched[o].step = "complete", Holds(o, CurrentJob(o))
    PROVE  LET j == CurrentJob(o)
               k == Released(o, j).cursor
           IN  /\ k >= jobs[j].cursor
               /\ k # jobs[j].cursor
                     => /\ StartsRight(sched[o], jobs[j].cursor, history[j[1]])
                        /\ (sched[o].start + 1)..k \subseteq ingested[j[1]]
<1> DEFINE j == CurrentJob(o)
           c == Head(sched[o].batch)
<1>1. /\ sched[o] \in Sched /\ c \in Entries(o) /\ j = c.job /\ j \in Job
  BY BatchOf DEF Busy, IInv
<1>2. jobs[j] \in Row /\ Linked(j[1])
  BY <1>1 DEF Holds, IInv, TypeInv, TypeOK, JobsLinked
<1>3. jobs[j].cursor = c.cursor
  BY <1>1 DEF IInv, ProcessTrue, ClaimsTrue
<1>4. jobs[j].cursor \in Nat
  BY <1>2, SizeAssumption DEF Row, Position
<1>5. CASE sched[o].from = 0
  BY <1>4, <1>5 DEF Released
<1>6. CASE sched[o].from # 0
  <2>1. Covers(sched[o], c.job, c.cursor, sched[o].from)
    BY <1>6 DEF IInv, ProcessTrue, RunTrue
  <2> QED  BY <1>1, <1>2, <1>3, <1>6, <2>1 DEF Released, Covers
<1> QED  BY <1>5, <1>6

LEMMA StepTrue ==
    ASSUME IInv, [Next]_vars
    PROVE  IInv'
<1>1. TypeInv'
  BY StepTyped DEF IInv
<1>2. JobsLinked'
  BY RowSteps DEF JobsLinked, RowStep, Linked
<1>3. \A o \in Owner : ProcessTrue(o)'
  BY ProcessesTrue
<1> QED  BY <1>1, <1>2, <1>3 DEF IInv

(* Every process knows the truth about the jobs it claimed, whatever others *)
(* do meanwhile: what it read under a lease is so while it holds the lease. *)
THEOREM Invariant == Spec => []IInv
<1> QED  BY InitTrue, StepTrue, PTL DEF Spec

(* However many processes overlap, crash and take jobs over from one        *)
(* another, a stored cursor moves over no event without a candidate row;    *)
(* only the first cursor of an account read by days passes what was played  *)
(* before the day its run opened on.                                        *)
THEOREM NoPlayIsSkipped == Spec => NothingSkipped
<1> DEFINE first(a) == IF jobs[<<a, "incremental">>].cursor = 0 /\ history[a].byDay
                       THEN sched[jobs[<<a, "incremental">>].owner].start
                       ELSE jobs[<<a, "incremental">>].cursor
<1>1. ASSUME IInv, [Next]_vars, NEW a \in Account,
             jobs[<<a, "incremental">>] # NoJob, jobs'[<<a, "incremental">>] # NoJob,
             jobs'[<<a, "incremental">>].cursor # jobs[<<a, "incremental">>].cursor
      PROVE  /\ (first(a) + 1)..jobs'[<<a, "incremental">>].cursor \subseteq ingested[a]
             /\ first(a) = jobs[<<a, "incremental">>].cursor \/ first(a) <= history[a].today
  <2> DEFINE j == <<a, "incremental">>
  <2>1. j \in Job /\ j[1] = a
    BY DEF Job, Kind
  <2>2. RowStep(j)
    BY <2>1, RowSteps, <1>1
  <2>3. PICK o \in Owner : /\ sched[o].step = "complete" /\ CurrentJob(o) = j
                           /\ Holds(o, j) /\ jobs'[j] = Released(o, j)
    BY <1>1, <2>2 DEF RowStep
  <2>4. /\ StartsRight(sched[o], jobs[j].cursor, history[a])
        /\ (sched[o].start + 1)..jobs'[j].cursor \subseteq ingested[a]
    BY <1>1, <2>1, <2>3, ReleaseTrue
  <2>5. jobs[j].owner = o
    BY <2>3 DEF Holds
  <2>6. /\ first(a) = sched[o].start
        /\ first(a) = jobs[j].cursor \/ first(a) <= history[a].today
    BY <2>4, <2>5 DEF StartsRight
  <2> QED  BY <2>4, <2>6
<1>2. IInv /\ [Next]_vars
        => [\A a \in Account :
               LET j == <<a, "incremental">>
                   c == jobs[j].cursor
                   f == IF c = 0 /\ history[a].byDay THEN sched[jobs[j].owner].start ELSE c
               IN  jobs[j] # NoJob /\ jobs'[j] # NoJob /\ jobs'[j].cursor # c
                   => /\ (f + 1)..jobs'[j].cursor \subseteq ingested[a]
                      /\ f = c \/ f <= history[a].today]_vars
  BY <1>1
<1> QED  BY <1>2, Invariant, PTL DEF Spec, NothingSkipped

(* A run that outlived its lease cannot take back what the run after it     *)
(* achieved.                                                                *)
THEOREM CursorsOnlyAdvance == Spec => CursorNeverRewinds
<1>1. ASSUME IInv, [Next]_vars, NEW j \in Job, jobs[j] # NoJob, jobs'[j] # NoJob
      PROVE  jobs'[j].cursor >= jobs[j].cursor
  <2>1. RowStep(j)
    BY <1>1, RowSteps
  <2>2. jobs[j].cursor \in Nat
    BY <1>1, SizeAssumption DEF IInv, TypeInv, TypeOK, Row, Position
  <2>3. CASE jobs'[j].cursor = jobs[j].cursor
    BY <2>2, <2>3
  <2>4. ASSUME NEW o \in Owner, sched[o].step = "complete", CurrentJob(o) = j,
               Holds(o, j), jobs'[j] = Released(o, j)
        PROVE  jobs'[j].cursor >= jobs[j].cursor
    BY <1>1, <2>4, ReleaseTrue
  <2> QED  BY <1>1, <2>1, <2>3, <2>4 DEF RowStep
<1>2. IInv /\ [Next]_vars
        => [\A j \in Job : jobs[j] # NoJob /\ jobs'[j] # NoJob
                => jobs'[j].cursor >= jobs[j].cursor]_vars
  BY <1>1
<1> QED  BY <1>2, Invariant, PTL DEF Spec, CursorNeverRewinds

(* While its lease lasts nobody but its owner releases a job, and nobody    *)
(* takes it over.                                                           *)
THEOREM LeasesAreHonoured == Spec => LeaseHonoured
<1>1. ASSUME IInv, [Next]_vars, NEW j \in Job,
             jobs[j] # NoJob, jobs[j].lease > 0, jobs'[j] # NoJob, jobs'[j].owner # jobs[j].owner
      PROVE  /\ jobs'[j].owner = Nobody
             /\ sched[jobs[j].owner].step = "complete"
             /\ CurrentJob(jobs[j].owner) = j
  <2>1. RowStep(j)
    BY <1>1, RowSteps
  <2>2. PICK o \in Owner : /\ sched[o].step = "complete" /\ CurrentJob(o) = j
                           /\ Holds(o, j) /\ jobs'[j] = Released(o, j)
    BY <1>1, <2>1 DEF RowStep
  <2> QED  BY <2>2 DEF Holds, Released
<1>2. IInv /\ [Next]_vars
        => [\A j \in Job :
               jobs[j] # NoJob /\ jobs[j].lease > 0 /\ jobs'[j] # NoJob
                   /\ jobs'[j].owner # jobs[j].owner
               => /\ jobs'[j].owner = Nobody
                  /\ sched[jobs[j].owner].step = "complete"
                  /\ CurrentJob(jobs[j].owner) = j]_vars
  BY <1>1
<1> QED  BY <1>2, Invariant, PTL DEF Spec, LeaseHonoured

=============================================================================
