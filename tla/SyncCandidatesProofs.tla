------------------------- MODULE SyncCandidatesProofs -------------------------
(* Theorems about SyncCandidates, for every value of its constants. *)
EXTENDS SyncCandidates, TLAPS

LEMMA NoRow == NoCandidate.status = "no row"
BY DEF NoCandidate

-----------------------------------------------------------------------------
(* Type correctness.  A request that goes on to record a play has a target: *)
(* without it the type of the recorded play is lost.                        *)

Targeted(j) ==
    /\ j.step = "judge" => j.target \in Target
    /\ j.step = "ingest" /\ j.status = "exact" => j.target \in Target
    /\ j.step = "resolve" => j.target \in Target

JobsTargeted == \A c \in Client : Targeted(job[c])

TypeInv == TypeOK /\ JobsTargeted

(* Recording a play keeps the rows it writes typed. *)
LEMMA AppliedType ==
    ASSUME TypeOK, NEW e \in Event, NEW t \in Target, Applied(e, t)
    PROVE  /\ mapping' \in [Item -> Target \cup {NoTarget}]
           /\ plays' \subseteq Play
           /\ hold' \in [Target -> Hold]
<1> DEFINE new == [event |-> e, target |-> t, source |-> "confirmed_sync"]
<1>1. new \in Play
  BY DEF Play
<1>2. mapping' \in [Item -> Target \cup {NoTarget}]
  BY DEF Applied, TypeOK
<1>3. CASE Recorded(e, t)
  BY <1>2, <1>3 DEF Applied, TypeOK
<1>4. CASE ~ Recorded(e, t)
  <2>1. plays' = plays \cup {new} /\ hold' = [hold EXCEPT ![t] = "confirmed_sync"]
    BY <1>4 DEF Applied
  <2> QED  BY <1>1, <1>2, <2>1 DEF TypeOK, Hold
<1> QED  BY <1>3, <1>4

(* A typed, targeted job in the place of one keeps them all so. *)
LEMMA JobWrite ==
    ASSUME TypeInv, NEW c \in Client, NEW j \in {Idle} \cup IngestJob \cup ResolveJob,
           Targeted(j), job' = [job EXCEPT ![c] = j]
    PROVE  job' \in [Client -> {Idle} \cup IngestJob \cup ResolveJob] /\ JobsTargeted'
BY DEF TypeInv, TypeOK, JobsTargeted

LEMMA IdleJob == Idle \in {Idle} \cup IngestJob \cup ResolveJob /\ Targeted(Idle)
BY DEF Idle, Targeted

(* A match names a target of the catalogue, or none; exact ones name one. *)
LEMMA MatchedType ==
    ASSUME TypeOK, NEW e \in Event, NEW status, NEW t \in Target \cup {NoTarget},
           Matched(e, status, t), status = "exact"
    PROVE  t \in Target
BY ItemAssumption, NullAssumption DEF TypeOK, Matched, Target, NoTarget

LEMMA BeginIngestType ==
    ASSUME TypeInv, NEW c \in Client, BeginIngest(c)
    PROVE  TypeInv'
<1>1. PICK e \in Event, status \in Pending \cup {"exact"}, t \in Target \cup {NoTarget} :
         /\ Matched(e, status, t)
         /\ job' = [job EXCEPT ![c] =
               Ingesting(IF status = "exact" THEN "judge" ELSE "ingest", e, status, t)]
  BY DEF BeginIngest
<1>2. status = "exact" => t \in Target
  BY <1>1, MatchedType DEF TypeInv
<1>3. Ingesting(IF status = "exact" THEN "judge" ELSE "ingest", e, status, t) \in IngestJob
  BY DEF Ingesting, IngestJob
<1>4. Targeted(Ingesting(IF status = "exact" THEN "judge" ELSE "ingest", e, status, t))
  BY <1>2 DEF Ingesting, Targeted, Pending
<1>5. job' \in [Client -> {Idle} \cup IngestJob \cup ResolveJob] /\ JobsTargeted'
  BY <1>1, <1>3, <1>4, JobWrite
<1> QED  BY <1>5 DEF BeginIngest, TypeInv, TypeOK

(* What the reads of a request left: a job of its kind, its target known. *)
LEMMA JudgingJob ==
    ASSUME TypeInv, NEW c \in Client, job[c].step \in {"judge", "ingest"}
    PROVE  /\ job[c] \in IngestJob
           /\ job[c].step = "judge" => job[c].target \in Target
           /\ job[c].status = "exact" => job[c].target \in Target
BY DEF TypeInv, TypeOK, JobsTargeted, Targeted, IngestJob, ResolveJob, Idle

LEMMA ResolvingJob ==
    ASSUME TypeInv, NEW c \in Client, job[c].step \in {"resolve", "custom", "ignore"}
    PROVE  /\ job[c] \in ResolveJob
           /\ job[c].step = "resolve" => job[c].target \in Target
BY DEF TypeInv, TypeOK, JobsTargeted, Targeted, IngestJob, ResolveJob, Idle

LEMMA JudgeType ==
    ASSUME TypeInv, NEW c \in Client, Judge(c)
    PROVE  TypeInv'
<1> DEFINE verdict == IF hold[job[c].target] = "manual" THEN "conflict" ELSE "exact"
           j == [job[c] EXCEPT !.step = "ingest", !.status = verdict]
<1>1. job[c] \in IngestJob /\ job[c].target \in Target
  BY JudgingJob DEF Judge
<1>2. job' = [job EXCEPT ![c] = j]
  BY DEF Judge, TypeInv, TypeOK
<1>3. j \in IngestJob /\ Targeted(j)
  BY <1>1 DEF IngestJob, Targeted, Pending
<1>4. job' \in [Client -> {Idle} \cup IngestJob \cup ResolveJob] /\ JobsTargeted'
  BY <1>2, <1>3, JobWrite
<1> QED  BY <1>4 DEF Judge, TypeInv, TypeOK

LEMMA IngestType ==
    ASSUME TypeInv, NEW c \in Client, Ingest(c)
    PROVE  TypeInv'
<1>1. job[c] \in IngestJob /\ (job[c].status = "exact" => job[c].target \in Target)
  BY JudgingJob DEF Ingest
<1>2. [status |-> Outcome(job[c].status), target |-> job[c].target] \in Candidate
  BY <1>1 DEF IngestJob, Outcome, Candidate, Status, Pending
<1>3. cand' \in [Event -> Candidate \cup {NoCandidate}]
  BY <1>1, <1>2 DEF Ingest, TypeInv, TypeOK, IngestJob
<1>4. /\ mapping' \in [Item -> Target \cup {NoTarget}]
      /\ plays' \subseteq Play
      /\ hold' \in [Target -> Hold]
  BY <1>1, AppliedType DEF Ingest, TypeInv, TypeOK, IngestJob
<1>5. job' \in [Client -> {Idle} \cup IngestJob \cup ResolveJob] /\ JobsTargeted'
  BY IdleJob, JobWrite DEF Ingest
<1> QED  BY <1>3, <1>4, <1>5 DEF Ingest, TypeInv, TypeOK

(* Confirm, Rematch, CreateCustom and Ignore read an open row. *)
LEMMA ResolutionType ==
    ASSUME TypeOK, NEW e \in Event, Open(e), NEW step \in {"resolve", "custom", "ignore"},
           NEW t \in Target \cup {NoTarget}, step = "resolve" => t \in Target
    PROVE  Resolution(step, e, t) \in ResolveJob /\ Targeted(Resolution(step, e, t))
BY DEF Open, Resolution, ResolveJob, Targeted, Pending

LEMMA BeginResolutionType ==
    ASSUME TypeInv, NEW c \in Client,
           BeginConfirm(c) \/ BeginRematch(c) \/ BeginCustom(c) \/ BeginIgnore(c)
    PROVE  TypeInv'
<1>1. PICK e \in Event, step \in {"resolve", "custom", "ignore"}, t \in Target \cup {NoTarget} :
         /\ Open(e) /\ (step = "resolve" => t \in Target)
         /\ job' = [job EXCEPT ![c] = Resolution(step, e, t)]
  <2>1. CASE BeginConfirm(c)
    <3>1. PICK e \in Event : /\ Open(e) /\ cand[e].target # NoTarget
                             /\ job' = [job EXCEPT ![c] = Resolution("resolve", e, cand[e].target)]
      BY <2>1 DEF BeginConfirm
    <3>2. cand[e] \in Candidate
      BY <3>1, NoRow DEF TypeInv, TypeOK, Open, Pending
    <3>3. cand[e].target \in Target
      BY <3>1, <3>2 DEF Candidate
    <3> QED  BY <3>1, <3>3
  <2>2. CASE BeginRematch(c)
    BY <2>2 DEF BeginRematch, TypeInv, TypeOK
  <2>3. CASE BeginCustom(c)
    BY <2>3 DEF BeginCustom
  <2>4. CASE BeginIgnore(c)
    BY <2>4 DEF BeginIgnore
  <2> QED  BY <2>1, <2>2, <2>3, <2>4
<1>2. Resolution(step, e, t) \in ResolveJob /\ Targeted(Resolution(step, e, t))
  BY <1>1, ResolutionType DEF TypeInv
<1>3. job' \in [Client -> {Idle} \cup IngestJob \cup ResolveJob] /\ JobsTargeted'
  BY <1>1, <1>2, JobWrite
<1> QED  BY <1>3 DEF BeginConfirm, BeginRematch, BeginCustom, BeginIgnore, TypeInv, TypeOK

(* What Resolve and CreateCustom have in common. *)
LEMMA ConfirmedType ==
    ASSUME TypeInv, NEW c \in Client, job[c] \in ResolveJob, NEW t \in Target, Confirmed(c, t)
    PROVE  /\ cand' \in [Event -> Candidate \cup {NoCandidate}]
           /\ mapping' \in [Item -> Target \cup {NoTarget}]
           /\ plays' \subseteq Play
           /\ hold' \in [Target -> Hold]
           /\ job' \in [Client -> {Idle} \cup IngestJob \cup ResolveJob] /\ JobsTargeted'
<1>1. job[c].event \in Event
  BY DEF ResolveJob
<1>2. [status |-> "confirmed", target |-> t] \in Candidate
  BY DEF Candidate, Status
<1>3. cand' \in [Event -> Candidate \cup {NoCandidate}]
  BY <1>1, <1>2 DEF Confirmed, TypeInv, TypeOK
<1>4. /\ mapping' \in [Item -> Target \cup {NoTarget}]
      /\ plays' \subseteq Play
      /\ hold' \in [Target -> Hold]
  BY <1>1, AppliedType DEF Confirmed, TypeInv
<1>5. job' \in [Client -> {Idle} \cup IngestJob \cup ResolveJob] /\ JobsTargeted'
  BY IdleJob, JobWrite DEF Confirmed
<1> QED  BY <1>3, <1>4, <1>5

LEMMA ResolveType ==
    ASSUME TypeInv, NEW c \in Client, Resolve(c) \/ CreateCustom(c)
    PROVE  TypeInv'
<1>1. job[c] \in ResolveJob /\ (job[c].step = "resolve" => job[c].target \in Target)
  BY ResolvingJob DEF Resolve, CreateCustom
<1>2. PICK t \in Target : Confirmed(c, t)
  BY <1>1 DEF Resolve, CreateCustom, Target
<1>3. Media \subseteq catalogue' /\ catalogue' \subseteq Target
  BY DEF Resolve, CreateCustom, TypeInv, TypeOK, Target
<1> QED  BY <1>1, <1>2, <1>3, ConfirmedType DEF Confirmed, TypeInv, TypeOK

LEMMA IgnoreType ==
    ASSUME TypeInv, NEW c \in Client, Ignore(c)
    PROVE  TypeInv'
<1>1. job[c] \in ResolveJob
  BY ResolvingJob DEF Ignore
<1>2. cand' \in [Event -> Candidate \cup {NoCandidate}]
  <2> DEFINE e == job[c].event
  <2>1. e \in Event
    BY <1>1 DEF ResolveJob
  <2>2. CASE cand' = cand
    BY <2>2 DEF TypeInv, TypeOK
  <2>3. CASE cand' = [cand EXCEPT ![e].status = "ignored"] /\ cand[e] \in Candidate
    <3>1. [cand[e] EXCEPT !.status = "ignored"] \in Candidate
      BY <2>3 DEF Candidate, Status
    <3> QED  BY <2>1, <2>3, <3>1 DEF TypeInv, TypeOK
  <2> QED  BY <2>1, <2>2, <2>3 DEF Ignore, Ignorable, TypeInv, TypeOK
<1>3. job' \in [Client -> {Idle} \cup IngestJob \cup ResolveJob] /\ JobsTargeted'
  BY IdleJob, JobWrite DEF Ignore
<1> QED  BY <1>2, <1>3 DEF Ignore, TypeInv, TypeOK

LEMMA RequestType ==
    ASSUME TypeInv, NEW c \in Client, Request(c)
    PROVE  TypeInv'
<1>1. CASE IngestFails(c) \/ ResolveFails(c)
  <2>1. job' \in [Client -> {Idle} \cup IngestJob \cup ResolveJob] /\ JobsTargeted'
    BY <1>1, IdleJob, JobWrite DEF IngestFails, ResolveFails
  <2> QED  BY <1>1, <2>1 DEF IngestFails, ResolveFails, TypeInv, TypeOK
<1> QED  BY <1>1, BeginIngestType, JudgeType, IngestType, BeginResolutionType,
            ResolveType, IgnoreType DEF Request

(* Edits and removals take plays over or away, and write nothing else but   *)
(* who holds the rounds.                                                    *)
LEMMA ByHandPlays ==
    ASSUME TypeInv, NEW T \in SUBSET catalogue, EditByHand(T) \/ Remove(T)
    PROVE  /\ UNCHANGED <<linked, catalogue, cand, mapping, job>>
           /\ plays' \subseteq Play
           /\ \A p \in plays' : p.source = "confirmed_sync" => p \in plays
<1>1. \A p \in Play : /\ [p EXCEPT !.source = "manual"] \in Play
                     /\ [p EXCEPT !.source = "manual"].source = "manual"
  BY DEF Play
<1>2. plays \subseteq Play
  BY DEF TypeInv, TypeOK
<1>3. CASE EditByHand(T)
  <2>1. PICK gone \in SUBSET {p \in plays : p.target \in T},
             own \in SUBSET {p \in plays : p.target \in T} :
               plays' = (plays \ (gone \cup own))
                          \cup {[p EXCEPT !.source = "manual"] : p \in own}
    BY <1>3 DEF EditByHand
  <2>2. own \subseteq Play
    BY <1>2
  <2> QED  BY <1>1, <1>2, <1>3, <2>1, <2>2 DEF EditByHand
<1>4. CASE Remove(T)
  BY <1>2, <1>4 DEF Remove
<1> QED  BY <1>3, <1>4

(* The steps of nobody's request. *)
LEMMA OutsideType ==
    ASSUME TypeInv, Disconnect \/ \E T \in SUBSET catalogue : EditByHand(T) \/ Remove(T)
    PROVE  TypeInv'
<1>1. CASE Disconnect
  BY <1>1 DEF Disconnect, TypeInv, TypeOK, JobsTargeted
<1>2. ASSUME NEW T \in SUBSET catalogue, EditByHand(T) \/ Remove(T)
      PROVE  TypeInv'
  <2>1. hold' \in [Target -> Hold]
    BY <1>2 DEF EditByHand, Remove, TypeInv, TypeOK, Hold
  <2> QED  BY <1>2, <2>1, ByHandPlays DEF TypeInv, TypeOK, JobsTargeted
<1> QED  BY <1>1, <1>2

LEMMA NextType == TypeInv /\ [Next]_vars => TypeInv'
<1> SUFFICES ASSUME TypeInv, [Next]_vars PROVE TypeInv'
  OBVIOUS
<1>1. CASE UNCHANGED vars
  BY <1>1 DEF vars, TypeInv, TypeOK, JobsTargeted
<1> QED  BY <1>1, RequestType, OutsideType DEF Next

LEMMA InitType == Init => TypeInv
BY IdleJob DEF Init, TypeInv, TypeOK, JobsTargeted, Target, Hold

LEMMA TypeInvariant == Spec => []TypeInv
BY InitType, NextType, PTL DEF Spec

(* Every variable keeps its type, whatever the requests interleave: what a  *)
(* transaction writes is typed although it works on reads of the past.      *)
THEOREM TypeCorrect == Spec => []TypeOK
<1>1. TypeInv => TypeOK
  BY DEF TypeInv
<1> QED  BY <1>1, TypeInvariant, PTL

-----------------------------------------------------------------------------
(* What one recording does to the plays. *)

(* A play is added only where none was synced before, outside rounds that   *)
(* outrank sync.                                                            *)
LEMMA AppliedPlays ==
    ASSUME NEW e \in Event, NEW t \in Target, Applies(e, t), Applied(e, t)
    PROVE  \/ UNCHANGED <<plays, hold>> /\ Recorded(e, t)
           \/ /\ SyncedPlays(e) = {} /\ hold[t] # "manual"
              /\ plays' = plays \cup {[event |-> e, target |-> t, source |-> "confirmed_sync"]}
              /\ hold' = [hold EXCEPT ![t] = "confirmed_sync"]
BY DEF Applies, Applied, Recorded

(* The steps that confirm a candidate, and the target they confirm it as. *)
Confirms(e, t) ==
    /\ Applies(e, t) /\ Applied(e, t)
    /\ cand' = [cand EXCEPT ![e] = [status |-> "confirmed", target |-> t]]
    /\ linked /\ linked' = linked

LEMMA ConfirmSteps ==
    ASSUME TypeInv, NEW c \in Client, Request(c)
    PROVE  \/ UNCHANGED <<plays, hold, mapping>>
              /\ \A e \in Event : cand'[e] # cand[e] => cand'[e].status # "confirmed"
           \/ \E e \in Event, t \in Target : Confirms(e, t)
<1>1. CASE Ingest(c)
  <2>1. job[c] \in IngestJob /\ (job[c].status = "exact" => job[c].target \in Target)
    BY <1>1, JudgingJob DEF Ingest
  <2>2. CASE job[c].status = "exact"
    BY <1>1, <2>1, <2>2 DEF Ingest, Ingestible, Outcome, IngestJob, Confirms
  <2>3. CASE job[c].status # "exact"
    <3>1. Outcome(job[c].status) # "confirmed"
      BY <2>1, <2>3 DEF IngestJob, Outcome, Pending
    <3> QED  BY <1>1, <2>1, <2>3, <3>1 DEF Ingest, IngestJob, TypeInv, TypeOK
  <2> QED  BY <2>2, <2>3
<1>2. CASE Resolve(c) \/ CreateCustom(c)
  <2>1. job[c] \in ResolveJob /\ (job[c].step = "resolve" => job[c].target \in Target)
    BY <1>2, ResolvingJob DEF Resolve, CreateCustom
  <2>2. PICK t \in Target : Confirmed(c, t)
    BY <1>2, <2>1 DEF Resolve, CreateCustom, Target
  <2> QED  BY <2>1, <2>2 DEF Confirmed, Confirms, ResolveJob
<1>3. CASE Ignore(c)
  <2>1. job[c].event \in Event
    BY <1>3, ResolvingJob DEF Ignore, ResolveJob
  <2>2. Ignorable(job[c].event) => cand[job[c].event] \in Candidate
    BY <2>1 DEF Ignorable, TypeInv, TypeOK
  <2> QED  BY <1>3, <2>1, <2>2 DEF Ignore, TypeInv, TypeOK, Candidate
<1>4. CASE UNCHANGED <<plays, hold, mapping, cand>>
  BY <1>4
<1> QED  BY <1>1, <1>2, <1>3, <1>4
         DEF Request, BeginIngest, Judge, IngestFails, BeginConfirm, BeginRematch,
             BeginCustom, ResolveFails, BeginIgnore

-----------------------------------------------------------------------------
(* However requests overlap, no play is recorded twice: the lookup in the   *)
(* recording transaction is enough, the unique index is never needed.       *)
THEOREM PlaysRecordedOnce == Spec => []PlayRecordedOnce
<1>1. Init => PlayRecordedOnce
  BY DEF Init, PlayRecordedOnce, SyncedPlays
<1>2. TypeInv /\ PlayRecordedOnce /\ [Next]_vars => PlayRecordedOnce'
  <2> SUFFICES ASSUME TypeInv, PlayRecordedOnce, [Next]_vars
               PROVE  PlayRecordedOnce'
    OBVIOUS
  <2>1. CASE plays' \subseteq plays
    BY <2>1 DEF PlayRecordedOnce, SyncedPlays
  <2>2. ASSUME NEW e \in Event, NEW t \in Target, Confirms(e, t)
        PROVE  PlayRecordedOnce'
    BY <2>1, <2>2, AppliedPlays DEF Confirms, PlayRecordedOnce, SyncedPlays
  <2>3. ASSUME NEW T \in SUBSET catalogue, EditByHand(T) \/ Remove(T)
        PROVE  PlayRecordedOnce'
    BY <2>3, ByHandPlays DEF PlayRecordedOnce, SyncedPlays
  <2> QED  BY <2>1, <2>2, <2>3, ConfirmSteps DEF Next, vars, Disconnect
<1> QED  BY <1>1, <1>2, TypeInvariant, PTL DEF Spec

(* The mapping that confirms later plays of an item without asking always   *)
(* stands on a candidate of the item confirmed as the mapped target.        *)
THEOREM MappingsAreConfirmed == Spec => []MappingConfirmed
<1>1. Init => MappingConfirmed
  BY DEF Init, MappingConfirmed
<1>2. TypeInv /\ MappingConfirmed /\ [Next]_vars => MappingConfirmed'
  <2> SUFFICES ASSUME TypeInv, MappingConfirmed, [Next]_vars
               PROVE  MappingConfirmed'
    OBVIOUS
  <2>1. CASE mapping' = mapping /\ \A e \in Event : cand[e].status = "confirmed" => cand'[e] = cand[e]
    BY <2>1 DEF MappingConfirmed
  <2>2. CASE Disconnect
    BY <2>2 DEF Disconnect, MappingConfirmed
  <2>3. ASSUME NEW e \in Event, NEW t \in Target, Confirms(e, t)
        PROVE  MappingConfirmed'
    <3>1. mapping' = [mapping EXCEPT ![ItemOf[e]] = t]
      BY <2>3 DEF Confirms, Applied
    <3>2. cand'[e] = [status |-> "confirmed", target |-> t]
          /\ \A d \in Event : d # e => cand'[d] = cand[d]
      BY <2>3 DEF Confirms, TypeInv, TypeOK
    <3>3. SUFFICES ASSUME NEW i \in Item, mapping'[i] # NoTarget
                   PROVE  \E d \in Event :
                             /\ ItemOf[d] = i
                             /\ cand'[d] = [status |-> "confirmed", target |-> mapping'[i]]
      BY DEF MappingConfirmed
    <3>4. CASE i = ItemOf[e]
      <4>1. mapping'[i] = t
        BY <3>1, <3>4 DEF TypeInv, TypeOK
      <4> QED  BY <3>2, <3>4, <4>1
    <3>5. CASE i # ItemOf[e]
      <4>1. mapping'[i] = mapping[i]
        BY <3>1, <3>5 DEF TypeInv, TypeOK
      <4>2. PICK d \in Event : /\ ItemOf[d] = i
                               /\ cand[d] = [status |-> "confirmed", target |-> mapping[i]]
        BY <3>3, <4>1 DEF MappingConfirmed
      <4> QED  BY <3>2, <3>5, <4>1, <4>2
    <3> QED  BY <3>4, <3>5
  <2>4. ASSUME NEW c \in Client, Ingest(c), job[c].status # "exact"
        PROVE  mapping' = mapping
               /\ \A e \in Event : cand[e].status = "confirmed" => cand'[e] = cand[e]
    <3>1. job[c].event \in Event /\ cand[job[c].event].status # "confirmed"
      BY <2>4, JudgingJob, NoRow DEF Ingest, IngestJob, Ingestible
    <3> QED  BY <2>4, <3>1 DEF Ingest, TypeInv, TypeOK
  <2>5. ASSUME NEW c \in Client, Ignore(c)
        PROVE  mapping' = mapping
               /\ \A e \in Event : cand[e].status = "confirmed" => cand'[e] = cand[e]
    BY <2>5, ResolvingJob DEF Ignore, ResolveJob, Ignorable, TypeInv, TypeOK
  <2>6. ASSUME NEW c \in Client, Ingest(c), job[c].status = "exact"
        PROVE  MappingConfirmed'
    <3>1. job[c] \in IngestJob /\ job[c].target \in Target
      BY <2>6, JudgingJob DEF Ingest
    <3>2. Confirms(job[c].event, job[c].target)
      BY <2>6 DEF Ingest, Ingestible, Outcome, Confirms
    <3> QED  BY <2>3, <3>1, <3>2 DEF IngestJob
  <2>7. ASSUME NEW c \in Client, Resolve(c) \/ CreateCustom(c)
        PROVE  MappingConfirmed'
    <3>1. job[c] \in ResolveJob /\ (job[c].step = "resolve" => job[c].target \in Target)
      BY <2>7, ResolvingJob DEF Resolve, CreateCustom
    <3>2. PICK t \in Target : Confirmed(c, t)
      BY <2>7, <3>1 DEF Resolve, CreateCustom, Target
    <3>3. Confirms(job[c].event, t)
      BY <3>2 DEF Confirmed, Confirms
    <3> QED  BY <2>3, <3>1, <3>3 DEF ResolveJob
  <2>8. CASE UNCHANGED <<mapping, cand>>
    BY <2>1, <2>8
  <2> QED  BY <2>1, <2>2, <2>4, <2>5, <2>6, <2>7, <2>8
           DEF Next, vars, Request, BeginIngest, Judge, IngestFails, BeginConfirm,
               BeginRematch, BeginCustom, ResolveFails, BeginIgnore, EditByHand, Remove
<1> QED  BY <1>1, <1>2, TypeInvariant, PTL DEF Spec

(* However old its match or its confirmation, sync never writes into a      *)
(* round that outranks it.                                                  *)
THEOREM ManualRoundsStay == Spec => ManualRoundsUntouched
<1>1. TypeInv /\ [Next]_vars =>
        \A t \in Target : hold[t] = "manual" =>
          /\ hold'[t] # "confirmed_sync"
          /\ {p \in plays' : p.target = t /\ p.source = "confirmed_sync"} \subseteq plays
  <2> SUFFICES ASSUME TypeInv, [Next]_vars, NEW t \in Target, hold[t] = "manual"
               PROVE  /\ hold'[t] # "confirmed_sync"
                      /\ {p \in plays' : p.target = t /\ p.source = "confirmed_sync"} \subseteq plays
    OBVIOUS
  <2>1. CASE plays' \subseteq plays /\ (hold'[t] = hold[t] \/ hold'[t] \in {"manual", "none"})
    BY <2>1
  <2>2. ASSUME NEW e \in Event, NEW u \in Target, Confirms(e, u)
        PROVE  /\ hold'[t] # "confirmed_sync"
               /\ {p \in plays' : p.target = t /\ p.source = "confirmed_sync"} \subseteq plays
    <3>1. CASE UNCHANGED <<plays, hold>>
      BY <3>1
    <3>2. CASE /\ hold[u] # "manual"
               /\ plays' = plays \cup {[event |-> e, target |-> u, source |-> "confirmed_sync"]}
               /\ hold' = [hold EXCEPT ![u] = "confirmed_sync"]
      BY <3>2 DEF TypeInv, TypeOK
    <3> QED  BY <2>2, <3>1, <3>2, AppliedPlays DEF Confirms
  <2>3. ASSUME NEW T \in SUBSET catalogue, EditByHand(T) \/ Remove(T)
        PROVE  /\ hold'[t] # "confirmed_sync"
               /\ {p \in plays' : p.target = t /\ p.source = "confirmed_sync"} \subseteq plays
    <3>1. hold'[t] \in {"manual", "none"}
      BY <2>3 DEF EditByHand, Remove
    <3> QED  BY <2>3, <3>1, ByHandPlays
  <2> QED  BY <2>1, <2>2, <2>3, ConfirmSteps DEF Next, vars, Disconnect
<1> QED  BY <1>1, TypeInvariant, PTL DEF Spec, ManualRoundsUntouched

(* A confirmation and the watch event it stands for are one transaction,    *)
(* and a confirmed candidate moves to another target only when the event    *)
(* recorded first is gone or taken over by hand.  The invariant: the synced *)
(* event of a confirmed candidate is at the candidate's target.             *)
Backed ==
    \A e \in Event : cand[e].status = "confirmed" =>
        \A p \in SyncedPlays(e) : p.target = cand[e].target

(* A candidate stays confirmed as it was, save by another confirmation. *)
LEMMA ConfirmedKept ==
    ASSUME TypeInv, NEW c \in Client, Request(c)
    PROVE  \/ /\ UNCHANGED <<plays, hold, mapping>>
              /\ \A e \in Event : \/ cand'[e].status # "confirmed"
                                  \/ cand'[e] = cand[e]
           \/ \E e \in Event, t \in Target : Confirms(e, t)
BY ConfirmSteps

LEMMA BackedStep ==
    ASSUME TypeInv, PlayRecordedOnce, Backed, [Next]_vars
    PROVE  Backed'
<1>1. ASSUME plays' \subseteq plays,
             \A e \in Event : cand'[e].status # "confirmed" \/ cand'[e] = cand[e]
      PROVE  Backed'
  BY <1>1 DEF Backed, SyncedPlays
<1>2. ASSUME NEW e \in Event, NEW t \in Target, Confirms(e, t)
      PROVE  Backed'
  <2>1. /\ cand'[e] = [status |-> "confirmed", target |-> t]
        /\ \A d \in Event : d # e => cand'[d] = cand[d]
    BY <1>2 DEF Confirms, TypeInv, TypeOK
  <2>2. \A p \in SyncedPlays(e)' : p.target = t
    BY <1>2, AppliedPlays DEF Confirms, SyncedPlays, Recorded, PlayRecordedOnce
  <2>3. \A d \in Event : d # e => SyncedPlays(d)' = SyncedPlays(d)
    BY <1>2, AppliedPlays DEF Confirms, SyncedPlays
  <2> QED  BY <2>1, <2>2, <2>3 DEF Backed
<1>3. ASSUME NEW T \in SUBSET catalogue, EditByHand(T) \/ Remove(T)
      PROVE  Backed'
  <2>1. \A e \in Event : SyncedPlays(e)' \subseteq SyncedPlays(e)
    BY <1>3, ByHandPlays DEF SyncedPlays
  <2>2. cand' = cand
    BY <1>3, ByHandPlays
  <2> QED  BY <2>1, <2>2 DEF Backed
<1>4. CASE Disconnect
  BY <1>1, <1>4, NoRow DEF Disconnect
<1> QED  BY <1>1, <1>2, <1>3, <1>4, ConfirmedKept DEF Next, vars

THEOREM ConfirmationsAreRecorded == Spec => ConfirmationRecorded
<1>1. Init => Backed
  BY NoRow DEF Init, Backed
<1>2. Spec => []PlayRecordedOnce
  BY PlaysRecordedOnce
<1>3. TypeInv /\ PlayRecordedOnce /\ Backed /\ [Next]_vars => Backed'
  BY BackedStep
<1>4. TypeInv /\ PlayRecordedOnce /\ Backed /\ [Next]_vars =>
        \A e \in Event : cand'[e] # cand[e] /\ cand'[e].status = "confirmed" =>
           /\ \E p \in plays' : p.event = e /\ p.target = cand'[e].target
           /\ cand[e].status = "confirmed" => SyncedPlays(e) = {}
  <2> SUFFICES ASSUME TypeInv, Backed, [Next]_vars, NEW e \in Event,
                      cand'[e] # cand[e], cand'[e].status = "confirmed"
               PROVE  /\ \E p \in plays' : p.event = e /\ p.target = cand'[e].target
                      /\ cand[e].status = "confirmed" => SyncedPlays(e) = {}
    OBVIOUS
  <2>1. PICK d \in Event, t \in Target : Confirms(d, t)
    BY ConfirmSteps, NoRow DEF Next, vars, EditByHand, Remove, Disconnect
  <2>2. d = e /\ cand'[e] = [status |-> "confirmed", target |-> t]
    BY <2>1 DEF Confirms, TypeInv, TypeOK
  <2>3. \E p \in plays' : p.event = e /\ p.target = t
    <3>1. CASE plays' = plays /\ Recorded(e, t)
      BY <3>1 DEF Recorded, SyncedPlays
    <3>2. CASE [event |-> e, target |-> t, source |-> "confirmed_sync"] \in plays'
      BY <3>2
    <3> QED  BY <2>1, <2>2, <3>1, <3>2, AppliedPlays DEF Confirms
  <2>4. ASSUME cand[e].status = "confirmed"
        PROVE  SyncedPlays(e) = {}
    <3>1. cand[e] \in Candidate
      BY <2>4, NoRow DEF TypeInv, TypeOK
    <3>2. cand[e].target # t
      BY <2>2, <2>4, <3>1 DEF Candidate
    <3> QED  BY <2>1, <2>2, <2>4, <3>2, AppliedPlays DEF Confirms, Backed, Recorded
  <2> QED  BY <2>2, <2>3, <2>4
<1> QED  BY <1>1, <1>2, <1>3, <1>4, TypeInvariant, PTL DEF Spec, ConfirmationRecorded

(* A resolution is final for all who can see it. *)
THEOREM ResolutionsAreFinal == Spec => ResolutionFinal
<1>1. TypeInv /\ [Next]_vars =>
        (linked' => \A e \in Event :
          /\ cand[e].status = "confirmed" => cand'[e].status = "confirmed"
          /\ cand[e].status = "ignored" /\ cand'[e].status # "ignored" =>
                \E c \in Client : /\ job[c].step \in {"resolve", "custom"}
                                  /\ job[c].event = e /\ job[c].seen # "ignored")
  <2> SUFFICES ASSUME TypeInv, [Next]_vars, linked', NEW e \in Event, cand'[e] # cand[e],
                      cand[e].status \in {"confirmed", "ignored"}
               PROVE  /\ cand[e].status = "confirmed" => cand'[e].status = "confirmed"
                      /\ cand[e].status = "ignored" /\ cand'[e].status # "ignored" =>
                           \E c \in Client : /\ job[c].step \in {"resolve", "custom"}
                                             /\ job[c].event = e /\ job[c].seen # "ignored"
    OBVIOUS
  <2>1. ASSUME NEW c \in Client, Ingest(c)
        PROVE  FALSE
    <3>1. job[c].event # e
      BY <2>1, NoRow DEF Ingest, Ingestible
    <3> QED  BY <2>1, <3>1 DEF Ingest, TypeInv, TypeOK
  <2>2. ASSUME NEW c \in Client, Resolve(c) \/ CreateCustom(c)
        PROVE  /\ cand'[e].status = "confirmed"
               /\ job[c].step \in {"resolve", "custom"}
               /\ job[c].event = e /\ job[c].seen # "ignored"
    <3>1. job[c] \in ResolveJob
      BY <2>2, ResolvingJob DEF Resolve, CreateCustom
    <3>2. PICK t : Confirmed(c, t)
      BY <2>2 DEF Resolve, CreateCustom
    <3>3. job[c].event = e /\ cand'[e].status = "confirmed"
      BY <3>1, <3>2 DEF Confirmed, ResolveJob, TypeInv, TypeOK
    <3> QED  BY <2>2, <3>1, <3>3 DEF Resolve, CreateCustom, ResolveJob, Pending
  <2>3. ASSUME NEW c \in Client, Ignore(c)
        PROVE  cand[e].status = "ignored" /\ cand'[e].status = "ignored"
    <3>1. job[c].event \in Event
      BY <2>3, ResolvingJob DEF Ignore, ResolveJob
    <3>2. job[c].event = e /\ Ignorable(e) /\ cand' = [cand EXCEPT ![e].status = "ignored"]
      BY <2>3, <3>1 DEF Ignore, TypeInv, TypeOK
    <3>3. cand[e] \in Candidate
      BY <3>2 DEF Ignorable, TypeInv, TypeOK
    <3> QED  BY <3>2, <3>3 DEF Ignorable, Candidate, TypeInv, TypeOK
  <2>4. PICK c \in Client : Ingest(c) \/ Resolve(c) \/ CreateCustom(c) \/ Ignore(c)
    BY DEF Next, vars, Request, BeginIngest, Judge, IngestFails, BeginConfirm, BeginRematch,
           BeginCustom, ResolveFails, BeginIgnore, EditByHand, Remove, Disconnect
  <2> QED  BY <2>1, <2>2, <2>3, <2>4
<1> QED  BY <1>1, TypeInvariant, PTL DEF Spec, ResolutionFinal

-----------------------------------------------------------------------------
(* The interface to the rounds: every step keeps the book of PlayBook.tla.  *)

HeldNow == {t \in Target : hold[t] = "manual"}

(* A recording is a play entered where nothing is held, or none. *)
LEMMA ConfirmIsRecord ==
    ASSUME TypeInv, NEW e \in Event, NEW t \in Target, Confirms(e, t)
    PROVE  Book!Record \/ UNCHANGED <<plays, HeldNow>>
<1>1. CASE UNCHANGED <<plays, hold>>
  BY <1>1 DEF HeldNow
<1>2. CASE /\ SyncedPlays(e) = {} /\ hold[t] # "manual"
           /\ plays' = plays \cup {[event |-> e, target |-> t, source |-> "confirmed_sync"]}
           /\ hold' = [hold EXCEPT ![t] = "confirmed_sync"]
  <2>1. HeldNow' = HeldNow
    BY <1>2 DEF HeldNow, TypeInv, TypeOK
  <2>2. t \in Target \ HeldNow
    BY <1>2 DEF HeldNow
  <2>3. \A p \in Book!Synced : p.event # e
    BY <1>2 DEF Book!Synced, SyncedPlays
  <2> QED  BY <1>2, <2>1, <2>2, <2>3 DEF Book!Record, HeldNow
<1> QED  BY <1>1, <1>2, AppliedPlays DEF Confirms

(* An edit by hand holds what it writes and takes plays over only there. *)
LEMMA ByHandIsEdit ==
    ASSUME TypeInv, NEW T \in SUBSET catalogue, EditByHand(T)
    PROVE  Book!Edit
<1>1. PICK gone \in SUBSET {p \in plays : p.target \in T},
           own \in SUBSET {p \in plays : p.target \in T} :
             plays' = (plays \ (gone \cup own))
                        \cup {[p EXCEPT !.source = "manual"] : p \in own}
  BY DEF EditByHand
<1>2. T \subseteq Target
  BY DEF TypeInv, TypeOK
<1>3. HeldNow' = HeldNow \cup T
  BY <1>2 DEF EditByHand, HeldNow
<1>4. \A p \in plays : p.target \notin HeldNow' => p \in plays'
  BY <1>1, <1>3
<1>5. ASSUME NEW p \in plays' \ plays
      PROVE  p.target \in HeldNow' /\ \E q \in plays : p = Book!TakenOver(q)
  <2>1. PICK q \in own : p = [q EXCEPT !.source = "manual"]
    BY <1>1, <1>5
  <2>2. q \in plays /\ q.target \in T
    OBVIOUS
  <2>3. p.target = q.target
    BY <2>1, <2>2 DEF TypeInv, TypeOK, Play
  <2> QED  BY <1>3, <2>1, <2>2, <2>3 DEF Book!TakenOver
<1>6. HeldNow \subseteq HeldNow' /\ HeldNow' \subseteq Target
  BY <1>2, <1>3 DEF HeldNow
<1> QED  BY <1>4, <1>5, <1>6 DEF Book!Edit, HeldNow

LEMMA RemoveIsDrop ==
    ASSUME NEW T \in SUBSET catalogue, Remove(T)
    PROVE  Book!Drop
<1>1. plays' \subseteq plays
  BY DEF Remove
<1>2. HeldNow' \subseteq HeldNow
  BY DEF Remove, HeldNow
<1> QED  BY <1>1, <1>2 DEF Book!Drop, HeldNow

(* Whatever requests, retries and edits overlap, the candidates use the     *)
(* rounds as PlayBook allows: a play enters once and where the user holds   *)
(* nothing, by hand plays are only taken over or dropped.                   *)
THEOREM KeepsTheBook == Spec => BookSpec
<1>1. Init => Book!Init
  BY DEF Init, Book!Init
<1>2. TypeInv /\ [Next]_vars => [Book!Next]_<<plays, HeldNow>>
  <2> SUFFICES ASSUME TypeInv, [Next]_vars
               PROVE  Book!Next \/ UNCHANGED <<plays, HeldNow>>
    OBVIOUS
  <2>1. ASSUME NEW c \in Client, Request(c)
        PROVE  Book!Record \/ UNCHANGED <<plays, HeldNow>>
    BY <2>1, ConfirmSteps, ConfirmIsRecord DEF HeldNow
  <2>2. CASE Disconnect \/ UNCHANGED vars
    BY <2>2 DEF Disconnect, vars, HeldNow
  <2> QED  BY <2>1, <2>2, ByHandIsEdit, RemoveIsDrop DEF Next, Book!Next
<1> QED  BY <1>1, <1>2, TypeInvariant, PTL DEF Spec, BookSpec, Book!Spec, HeldNow

=============================================================================
