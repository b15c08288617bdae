---------------------------- MODULE SyncCandidates ----------------------------
(***************************************************************************)
(* From a play a provider reports to a watch event (internal/sync): the    *)
(* candidate rows of one connected account, the mappings a confirmation    *)
(* leaves for the next play of the same item, and the requests that        *)
(* ingest, confirm, rematch, ignore or customise a candidate.              *)
(*                                                                         *)
(* Every one of them reads through the reader pool and writes in a later   *)
(* transaction; job[c] holds what its reads returned, and a transaction is *)
(* one step.  The viewing rounds are those of Rounds.tla, reduced to what  *)
(* sync asks of them: whether the round in progress of a target may be     *)
(* written by sync, and which watch events bear an external event id.      *)
(***************************************************************************)
CONSTANTS
    Client,     \* scheduler runs and requests in flight at one time
    Event,      \* plays the provider reports for the account
    Item,       \* provider items
    ItemOf,     \* play -> the item played
    Media,      \* movies or episodes of the catalogue a play can be of
    Custom      \* media that CreateCustom may still create

ASSUME ItemAssumption == ItemOf \in [Event -> Item]
ASSUME MediaAssumption == Media \cap Custom = {}
ASSUME NullAssumption == "no target" \notin Media \cup Custom

NoTarget == "no target"
Target   == Media \cup Custom

VARIABLES
    linked,     \* the account's row exists
    catalogue,  \* media and episodes stored
    cand,       \* sync_candidates: play -> row or NoCandidate
    mapping,    \* external_media_mappings: item -> confirmed target
    plays,      \* watch_events that bear an external event id
    hold,       \* target -> who wrote its round in progress
    job         \* client -> what its request has read so far

vars == <<linked, catalogue, cand, mapping, plays, hold, job>>

-----------------------------------------------------------------------------
(* Rows *)

NoCandidate == [status |-> "no row"]

Status  == {"possible", "unmatched", "conflict", "confirmed", "ignored"}
Pending == {"possible", "unmatched", "conflict"}

Candidate == [status : Status, target : Target \cup {NoTarget}]

Play == [event : Event, target : Target, source : {"confirmed_sync", "manual"}]

(* "none": no round in progress; "manual" stands for confirmed_import too:  *)
(* both outrank sync.                                                       *)
Hold == {"none", "confirmed_sync", "manual"}

Idle == [step |-> "idle"]

SyncedPlays(e) == {p \in plays : p.event = e /\ p.source = "confirmed_sync"}

-----------------------------------------------------------------------------
(* applyCandidate, inside the transaction that confirms play e as target t *)

Recorded(e, t) == \E p \in SyncedPlays(e) : p.target = t

(* Mutant: the matcher looked at the round already, it is not asked again. *)
AppliesUnasked(e, t) == SyncedPlays(e) = {} \/ Recorded(e, t)

(* Mutant: a play recorded at another target is not looked up. *)
AppliesAnywhere(e, t) == Recorded(e, t) \/ hold[t] # "manual"

(* A play recorded before is not moved to another target; a new one must    *)
(* not enter a round that outranks sync.                                    *)
Applies(e, t) ==
    IF SyncedPlays(e) # {} THEN Recorded(e, t) ELSE hold[t] # "manual"

(* Mutant: the mapping of an item is kept once it is there. *)
AppliedFirst(e, t) ==
    /\ IF Recorded(e, t) THEN UNCHANGED <<plays, hold>>
       ELSE /\ plays' = plays \cup {[event |-> e, target |-> t, source |-> "confirmed_sync"]}
            /\ hold' = [hold EXCEPT ![t] = "confirmed_sync"]
    /\ mapping' = [mapping EXCEPT ![ItemOf[e]] = IF @ = NoTarget THEN t ELSE @]

(* A play recorded before is not recorded again; the mapping is renewed. *)
Applied(e, t) ==
    /\ IF Recorded(e, t) THEN UNCHANGED <<plays, hold>>
       ELSE /\ plays' = plays \cup {[event |-> e, target |-> t, source |-> "confirmed_sync"]}
            /\ hold' = [hold EXCEPT ![t] = "confirmed_sync"]
    /\ mapping' = [mapping EXCEPT ![ItemOf[e]] = t]

-----------------------------------------------------------------------------
(* Ingest: two reads, then one transaction *)

Ingesting(step, e, status, t) ==
    [step |-> step, event |-> e, status |-> status, target |-> t]

(* The play has no candidate yet, and Match looks for its target: the       *)
(* item's confirmed mapping, else whatever the catalogue's external ids and *)
(* titles say at that moment, which other requests change.                  *)
Matched(e, status, t) ==
    IF mapping[ItemOf[e]] # NoTarget
    THEN status = "exact" /\ t = mapping[ItemOf[e]]
    ELSE \/ status = "exact" /\ t \in catalogue
         \/ status = "possible" /\ t \in catalogue \cup {NoTarget}
         \/ status \in {"unmatched", "conflict"} /\ t = NoTarget

BeginIngest(c) ==
    /\ job[c] = Idle /\ linked
    /\ \E e \in Event, status \in Pending \cup {"exact"}, t \in Target \cup {NoTarget} :
          /\ cand[e] = NoCandidate
          /\ Matched(e, status, t)
          /\ job' = [job EXCEPT ![c] =
                Ingesting(IF status = "exact" THEN "judge" ELSE "ingest", e, status, t)]
    /\ UNCHANGED <<linked, catalogue, cand, mapping, plays, hold>>

(* withUserConflict *)
Judge(c) ==
    /\ job[c].step = "judge"
    /\ job' = [job EXCEPT ![c].step = "ingest",
                          ![c].status = IF hold[job[c].target] = "manual"
                                        THEN "conflict" ELSE "exact"]
    /\ UNCHANGED <<linked, catalogue, cand, mapping, plays, hold>>

(* Refused: the account has gone, another run stored the play, or the round *)
(* that an exact match would enter outranks sync by now.                    *)
Ingestible(j) ==
    /\ linked /\ cand[j.event] = NoCandidate
    /\ j.status = "exact" => Applies(j.event, j.target)

Outcome(status) == IF status = "exact" THEN "confirmed" ELSE status

Ingest(c) ==
    /\ job[c].step = "ingest"
    /\ Ingestible(job[c])
    /\ IF job[c].status = "exact" THEN Applied(job[c].event, job[c].target)
                                  ELSE UNCHANGED <<mapping, plays, hold>>
    /\ cand' = [cand EXCEPT ![job[c].event] =
                   [status |-> Outcome(job[c].status), target |-> job[c].target]]
    /\ job' = [job EXCEPT ![c] = Idle]
    /\ UNCHANGED <<linked, catalogue>>

IngestFails(c) ==
    /\ job[c].step = "ingest"
    /\ ~ Ingestible(job[c])
    /\ job' = [job EXCEPT ![c] = Idle]
    /\ UNCHANGED <<linked, catalogue, cand, mapping, plays, hold>>

-----------------------------------------------------------------------------
(* Confirm, Rematch, CreateCustom and Ignore: candidateForUser reads the    *)
(* row, the transaction follows.                                            *)

(* A row still to be resolved: confirmed and ignored ones are refused here. *)
Open(e) == cand[e].status \in Pending

Resolution(step, e, t) ==
    [step |-> step, event |-> e, seen |-> cand[e].status, target |-> t]

BeginConfirm(c) ==
    /\ job[c] = Idle
    /\ \E e \in Event : /\ Open(e) /\ cand[e].target # NoTarget
                        /\ job' = [job EXCEPT ![c] = Resolution("resolve", e, cand[e].target)]
    /\ UNCHANGED <<linked, catalogue, cand, mapping, plays, hold>>

BeginRematch(c) ==
    /\ job[c] = Idle
    /\ \E e \in Event, t \in catalogue :
          Open(e) /\ job' = [job EXCEPT ![c] = Resolution("resolve", e, t)]
    /\ UNCHANGED <<linked, catalogue, cand, mapping, plays, hold>>

BeginCustom(c) ==
    /\ job[c] = Idle
    /\ \E e \in Event : Open(e) /\ job' = [job EXCEPT ![c] = Resolution("custom", e, NoTarget)]
    /\ UNCHANGED <<linked, catalogue, cand, mapping, plays, hold>>

(* UPDATE sync_candidates ... WHERE id: whatever the row says by now. *)
Confirmed(c, t) ==
    /\ linked /\ Applies(job[c].event, t)
    /\ Applied(job[c].event, t)
    /\ cand' = [cand EXCEPT ![job[c].event] = [status |-> "confirmed", target |-> t]]
    /\ job' = [job EXCEPT ![c] = Idle]
    /\ UNCHANGED linked

Resolve(c) ==
    /\ job[c].step = "resolve"
    /\ Confirmed(c, job[c].target)
    /\ UNCHANGED catalogue

(* The medium is created and the candidate confirmed as it, or neither. *)
CreateCustom(c) ==
    /\ job[c].step = "custom"
    /\ \E t \in Custom \ catalogue :
          Confirmed(c, t) /\ catalogue' = catalogue \cup {t}

ResolveFails(c) ==
    /\ \/ job[c].step = "resolve" /\ ~ Applies(job[c].event, job[c].target)
       \/ job[c].step = "custom" /\ SyncedPlays(job[c].event) # {}
       \/ job[c].step \in {"resolve", "custom"} /\ ~ linked
    /\ job' = [job EXCEPT ![c] = Idle]
    /\ UNCHANGED <<linked, catalogue, cand, mapping, plays, hold>>

BeginIgnore(c) ==
    /\ job[c] = Idle
    /\ \E e \in Event : Open(e) /\ job' = [job EXCEPT ![c] = Resolution("ignore", e, NoTarget)]
    /\ UNCHANGED <<linked, catalogue, cand, mapping, plays, hold>>

(* Mutant: the UPDATE without status != 'confirmed'. *)
IgnorableAlways(e) == cand[e] # NoCandidate

Ignorable(e) == cand[e] # NoCandidate /\ cand[e].status # "confirmed"

Ignore(c) ==
    /\ job[c].step = "ignore"
    /\ cand' = IF Ignorable(job[c].event)
               THEN [cand EXCEPT ![job[c].event].status = "ignored"] ELSE cand
    /\ job' = [job EXCEPT ![c] = Idle]
    /\ UNCHANGED <<linked, catalogue, mapping, plays, hold>>

-----------------------------------------------------------------------------
(* The account leaves; its candidates and mappings go with it, plays stay. *)
Disconnect ==
    /\ linked
    /\ linked' = FALSE
    /\ cand' = [e \in Event |-> NoCandidate]
    /\ mapping' = [i \in Item |-> NoTarget]
    /\ UNCHANGED <<catalogue, plays, hold, job>>

(* What the other requests on rounds do to the rounds and events of targets *)
(* (Rounds.tla).  An edit by hand makes a round the user's own, for all the *)
(* episodes it is the round of, and may drop events of it or take them      *)
(* over.  A removal drops events, with the round in progress or, from the   *)
(* history, without.                                                        *)
EditByHand(T) ==
    /\ hold' = [t \in Target |-> IF t \in T THEN "manual" ELSE hold[t]]
    /\ \E gone, own \in SUBSET {p \in plays : p.target \in T} :
          plays' = (plays \ (gone \cup own)) \cup {[p EXCEPT !.source = "manual"] : p \in own}
    /\ UNCHANGED <<linked, catalogue, cand, mapping, job>>

Remove(T) ==
    /\ hold' \in {hold, [t \in Target |-> IF t \in T THEN "none" ELSE hold[t]]}
    /\ \E gone \in SUBSET {p \in plays : p.target \in T} : plays' = plays \ gone
    /\ UNCHANGED <<linked, catalogue, cand, mapping, job>>

Init ==
    /\ linked = TRUE
    /\ catalogue = Media
    /\ cand = [e \in Event |-> NoCandidate]
    /\ mapping = [i \in Item |-> NoTarget]
    /\ plays = {}
    /\ hold \in [Target -> {"none", "manual"}]
    /\ \A t \in Custom : hold[t] = "none"
    /\ job = [c \in Client |-> Idle]

Request(c) ==
    \/ BeginIngest(c) \/ Judge(c) \/ Ingest(c) \/ IngestFails(c)
    \/ BeginConfirm(c) \/ BeginRematch(c) \/ BeginCustom(c)
    \/ Resolve(c) \/ CreateCustom(c) \/ ResolveFails(c)
    \/ BeginIgnore(c) \/ Ignore(c)

Next ==
    \/ \E c \in Client : Request(c)
    \/ \E T \in SUBSET catalogue : EditByHand(T) \/ Remove(T)
    \/ Disconnect

Spec == Init /\ [][Next]_vars

-----------------------------------------------------------------------------
(* What must hold *)

IngestJob  == [step : {"judge", "ingest"}, event : Event,
               status : Pending \cup {"exact"}, target : Target \cup {NoTarget}]
ResolveJob == [step : {"resolve", "custom", "ignore"}, event : Event,
               seen : Pending, target : Target \cup {NoTarget}]

(* Every variable has its type. *)
TypeOK ==
    /\ linked \in BOOLEAN
    /\ Media \subseteq catalogue /\ catalogue \subseteq Target
    /\ cand \in [Event -> Candidate \cup {NoCandidate}]
    /\ mapping \in [Item -> Target \cup {NoTarget}]
    /\ plays \subseteq Play
    /\ hold \in [Target -> Hold]
    /\ job \in [Client -> {Idle} \cup IngestJob \cup ResolveJob]

(* However ingestion, confirmations and retries overlap, a play is recorded *)
(* once: two synced watch events never bear the same external event id.     *)
PlayRecordedOnce == \A e \in Event : \A p, q \in SyncedPlays(e) : p = q

(* A mapping that decides alone about the next play of an item stands on a  *)
(* candidate of that item that was confirmed as the mapped target.          *)
MappingConfirmed ==
    \A i \in Item : mapping[i] # NoTarget =>
        \E e \in Event : /\ ItemOf[e] = i
                         /\ cand[e] = [status |-> "confirmed", target |-> mapping[i]]

(* Sync never writes into a round that outranks it, however old the match   *)
(* or the confirmation is that asks for it.                                 *)
ManualRoundsUntouched ==
    [][\A t \in Target : hold[t] = "manual" =>
          /\ hold'[t] # "confirmed_sync"
          /\ {p \in plays' : p.target = t /\ p.source = "confirmed_sync"} \subseteq plays]_vars

(* A candidate that becomes confirmed, or is confirmed as something else,   *)
(* does so with a watch event of the play at that target in the same        *)
(* transaction; a confirmed one is retargeted only when the event recorded  *)
(* first has been deleted or taken over by hand.                            *)
ConfirmationRecorded ==
    [][\A e \in Event :
          cand'[e] # cand[e] /\ cand'[e].status = "confirmed" =>
             /\ \E p \in plays' : p.event = e /\ p.target = cand'[e].target
             /\ cand[e].status = "confirmed" => SyncedPlays(e) = {}]_vars

(* A resolution is final for every request that can see it: a confirmed row *)
(* never leaves that status while the account stays, and an ignored one     *)
(* only for a confirmation that had read the row before it was ignored.     *)
ResolutionFinal ==
    [][linked' => \A e \in Event :
          /\ cand[e].status = "confirmed" => cand'[e].status = "confirmed"
          /\ cand[e].status = "ignored" /\ cand'[e].status # "ignored" =>
                \E c \in Client : /\ job[c].step \in {"resolve", "custom"}
                                  /\ job[c].event = e /\ job[c].seen # "ignored"]_vars

(* What sync and the rounds promise each other, PlayBook.tla: whatever the  *)
(* requests of sync have read, a play is recorded once, and only outside    *)
(* the rounds that the user holds.                                          *)
Book == INSTANCE PlayBook WITH Event <- Event, Target <- Target, plays <- plays,
                               held <- {t \in Target : hold[t] = "manual"}
BookSpec == Book!Spec
=============================================================================
