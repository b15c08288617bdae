----------------------------- MODULE Idempotency -----------------------------
(***************************************************************************)
(* Idempotency keys: internal/httpapi/idempotency.go in front of every     *)
(* handler that writes, and in front of the restore of a backup, whose     *)
(* run replaces the database that holds the keys.                          *)
(*                                                                         *)
(* A client sends one request and sends it again, under the same key,      *)
(* until an answer settles it.  A run of the handler behind the middleware *)
(* is one step, numbered: it commits its effect or not and answers below   *)
(* 500 or not, in any combination, since a handler may fail after its      *)
(* transaction.  Statements of the middleware are steps of their own and   *)
(* may fail: a broken database, or a client that went away, which cancels  *)
(* the context of the request.  A crash ends all requests.                 *)
(*                                                                         *)
(* A key lapses 24 hours after its reservation; no request takes that      *)
(* long.  A restore runs when the maintenance gate has let the last        *)
(* ordinary request out: Restore has its steps, here it is one.            *)
(***************************************************************************)
EXTENDS Naturals, FiniteSets

CONSTANTS
    Clients,      \* each sends one request until it is settled
    Keys,         \* the Idempotency-Key values of one user
    Bodies,       \* what a request is: method, path and hash of the body
    KeyOf,        \* [Clients -> Keys]
    BodyOf,       \* [Clients -> Bodies]
    RestoreKeys,  \* the keys that are sent with POST /restore
    MaxFaults,    \* bound on failing statements, answers of 500 and above, and crashes
    None

ASSUME ClientsSend == KeyOf \in [Clients -> Keys] /\ BodyOf \in [Clients -> Bodies]
ASSUME MaxFaultsIsNat == MaxFaults \in Nat

VARIABLES
    row,      \* [Keys -> the row of idempotency_keys, or None]
    effects,  \* the runs whose transaction is in the database, while their key has not lapsed
    snap,     \* the database in the archive a restore uploads, or None
    req,      \* [Clients -> the request of the client being served]
    runs,     \* runs of handlers so far
    told,     \* [Keys -> the answer clients were given since the key last lapsed, or None]
    faults

vars == <<row, effects, snap, req, runs, told, faults>>

\* What a handler did: committed or not, answered below 500 or not.
Kinds == [committed : BOOLEAN, answered : BOOLEAN]
Answer == [run : Nat, kind : Kinds]
Reserved == [run |-> 0, kind |-> [committed |-> FALSE, answered |-> FALSE]]
Row == [body : Bodies, answer : Answer]
Effect == [run : Nat, key : Keys, answered : BOOLEAN]
Database == [row : [Keys -> Row \cup {None}], effects : SUBSET Effect]

ASSUME NoneIsDistinct == None \notin Row /\ None \notin Database /\ None \notin Answer

\* idle: (re)sends; insert, refind, run: on the way to the handler; then what
\* is recorded of its answer; settled: the client has its answer.
Stages == {"idle", "insert", "refind", "run", "complete", "upsert", "release", "settled"}
Request == [pc : Stages, answer : Answer]
Resting == [pc |-> "idle", answer |-> Reserved]

IsRestore(c) == KeyOf[c] \in RestoreKeys
InFlight(c) == req[c].pc \notin {"idle", "settled"}
Holds(c) == req[c].pc \in {"run", "complete", "upsert", "release"}
IsPending(k) == row[k] # None /\ row[k].answer = Reserved

Goto(c, stage) == req' = [req EXCEPT ![c].pc = stage]
\* The request ends with a problem the client answers with another attempt.
EndUnsettled(c) == req' = [req EXCEPT ![c] = Resting]
Fails == faults < MaxFaults /\ faults' = faults + 1

Init ==
    /\ row = [k \in Keys |-> None] /\ effects = {} /\ snap = None
    /\ req = [c \in Clients |-> Resting]
    /\ runs = 0 /\ told = [k \in Keys |-> None]
    /\ faults = 0

-----------------------------------------------------------------------------
(* The middleware *)

\* The row found under the key: of another request, of one not yet answered,
\* or an answer to replay.
AnswerFound(c, found) ==
    IF found.body # BodyOf[c] THEN Goto(c, "settled") /\ UNCHANGED told
    ELSE IF found.answer = Reserved THEN EndUnsettled(c) /\ UNCHANGED told
    ELSE /\ Goto(c, "settled")
         /\ told' = [told EXCEPT ![KeyOf[c]] = found.answer]

Find(c) ==
    /\ req[c].pc = "idle"
    /\ IsRestore(c) => snap # None
    /\ \/ /\ row[KeyOf[c]] = None /\ Goto(c, "insert") /\ UNCHANGED <<told, faults>>
       \/ /\ row[KeyOf[c]] # None /\ AnswerFound(c, row[KeyOf[c]]) /\ UNCHANGED faults
       \/ Fails /\ EndUnsettled(c) /\ UNCHANGED told
    /\ UNCHANGED <<row, effects, snap, runs>>

(* Mutant: INSERT OR REPLACE, which takes a reservation over. *)
ReserveTakesOver(c) ==
    /\ req[c].pc = "insert"
    /\ row' = [row EXCEPT ![KeyOf[c]] = [body |-> BodyOf[c], answer |-> Reserved]]
    /\ Goto(c, "run")
    /\ UNCHANGED <<effects, snap, runs, told, faults>>

\* INSERT: the primary key admits one row per key.
Reserve(c) ==
    /\ req[c].pc = "insert"
    /\ \/ /\ row[KeyOf[c]] = None
          /\ row' = [row EXCEPT ![KeyOf[c]] = [body |-> BodyOf[c], answer |-> Reserved]]
          /\ Goto(c, "run") /\ UNCHANGED faults
       \/ /\ row[KeyOf[c]] # None /\ Goto(c, "refind") /\ UNCHANGED <<row, faults>>
       \/ Fails /\ Goto(c, "refind") /\ UNCHANGED row
    /\ UNCHANGED <<effects, snap, runs, told>>

FindAgain(c) ==
    /\ req[c].pc = "refind"
    /\ \/ /\ row[KeyOf[c]] # None /\ AnswerFound(c, row[KeyOf[c]]) /\ UNCHANGED faults
       \/ row[KeyOf[c]] = None /\ EndUnsettled(c) /\ UNCHANGED <<told, faults>>
       \/ Fails /\ EndUnsettled(c) /\ UNCHANGED told
    /\ UNCHANGED <<row, effects, snap, runs>>

\* Below 500 the answer is recorded, from 500 on the key is given back.
Respond(c, kind) ==
    /\ IF kind.answered THEN UNCHANGED faults ELSE Fails
    /\ runs' = runs + 1
    /\ req' = [req EXCEPT ![c] = [pc |-> IF kind.answered THEN "complete" ELSE "release",
                                  answer |-> [run |-> runs + 1, kind |-> kind]]]

EffectOf(c, kind) ==
    [run |-> runs + 1, key |-> KeyOf[c], answered |-> kind.answered]

Run(c) ==
    /\ req[c].pc = "run" /\ ~IsRestore(c)
    /\ \E kind \in Kinds :
         /\ Respond(c, kind)
         /\ effects' = IF kind.committed THEN effects \cup {EffectOf(c, kind)} ELSE effects
    /\ UNCHANGED <<row, snap, told>>

(* Mutant: the keys of the replaced database are kept. *)
ReplaceKeepsKeys(c, kind) ==
    /\ effects' = snap.effects \cup {EffectOf(c, kind)}
    /\ told' = [k \in Keys |-> None]
    /\ UNCHANGED row

\* The other database: its keys and its effects, with the audit event of this run.
ReplaceDatabase(c, kind) ==
    /\ row' = snap.row
    /\ effects' = snap.effects \cup {EffectOf(c, kind)}
    /\ told' = [k \in Keys |-> None]

\* A restore that reports an error has put the database back (see Restore).
RunRestore(c) ==
    /\ req[c].pc = "run" /\ IsRestore(c)
    /\ \A o \in Clients : InFlight(o) => IsRestore(o)
    /\ \E kind \in Kinds :
         /\ kind.committed => kind.answered
         /\ Respond(c, kind)
         /\ IF kind.committed THEN ReplaceDatabase(c, kind) ELSE UNCHANGED <<row, effects, told>>
    /\ UNCHANGED snap

\* UPDATE ... WHERE the request is the same AND status_code = 0
CanComplete(c) == IsPending(KeyOf[c]) /\ row[KeyOf[c]].body = BodyOf[c]

Record(c) == row' = [row EXCEPT ![KeyOf[c]] = [body |-> BodyOf[c], answer |-> req[c].answer]]
Deliver(c) ==
    /\ req' = [req EXCEPT ![c] = [pc |-> "settled", answer |-> Reserved]]
    /\ told' = [told EXCEPT ![KeyOf[c]] = req[c].answer]

(* Mutant: every request is answered, recorded or not. *)
NotRecordedButDelivered(c) ==
    /\ IF IsRestore(c) THEN Goto(c, "upsert") /\ UNCHANGED told ELSE Deliver(c)
    /\ UNCHANGED row

\* What became of the answer when it could not be recorded: a restore tries the
\* upsert, any other request is answered with a failure.
NotRecorded(c) ==
    /\ IF IsRestore(c) THEN Goto(c, "upsert") ELSE EndUnsettled(c)
    /\ UNCHANGED <<row, told>>

Complete(c) ==
    /\ req[c].pc = "complete"
    /\ \/ CanComplete(c) /\ Record(c) /\ Deliver(c) /\ UNCHANGED faults
       \/ ~CanComplete(c) /\ NotRecorded(c) /\ UNCHANGED faults
       \/ Fails /\ NotRecorded(c)
    /\ UNCHANGED <<effects, snap, runs>>

\* Best effort: the answer is delivered whatever became of the row.
UpsertCompleted(c) ==
    /\ req[c].pc = "upsert" /\ Deliver(c)
    /\ \/ (row[KeyOf[c]] = None \/ CanComplete(c)) /\ Record(c) /\ UNCHANGED faults
       \/ row[KeyOf[c]] # None /\ ~CanComplete(c) /\ UNCHANGED <<row, faults>>
       \/ Fails /\ UNCHANGED row
    /\ UNCHANGED <<effects, snap, runs>>

Release(c) ==
    /\ req[c].pc = "release" /\ EndUnsettled(c)
    /\ \/ /\ row' = IF CanComplete(c) THEN [row EXCEPT ![KeyOf[c]] = None] ELSE row
          /\ UNCHANGED faults
       \/ Fails /\ UNCHANGED row
    /\ UNCHANGED <<effects, snap, runs, told>>

-----------------------------------------------------------------------------
(* The world around it *)

(* Mutant: only answered keys are deleted when they expire. *)
LapseAnswered(k) ==
    /\ row[k] # None /\ ~IsPending(k)
    /\ row' = [row EXCEPT ![k] = None]
    /\ effects' = {e \in effects : e.key # k}
    /\ told' = [told EXCEPT ![k] = None]
    /\ UNCHANGED <<snap, req, runs, faults>>

\* 24 hours after the reservation the next find deletes the row, answered or not.
Lapse(k) ==
    /\ row[k] # None
    /\ \A c \in Clients : KeyOf[c] = k => ~Holds(c)
    /\ row' = [row EXCEPT ![k] = None]
    /\ effects' = {e \in effects : e.key # k}
    /\ told' = [told EXCEPT ![k] = None]
    /\ UNCHANGED <<snap, req, runs, faults>>

\* The archive is made once, at any moment; SQLite copies a consistent state.
Backup ==
    /\ snap = None /\ snap' = [row |-> row, effects |-> effects]
    /\ UNCHANGED <<row, effects, req, runs, told, faults>>

Crash ==
    /\ Fails
    /\ req' = [c \in Clients |-> IF InFlight(c) THEN Resting ELSE req[c]]
    /\ UNCHANGED <<row, effects, snap, runs, told>>

Settled == \A c \in Clients : req[c].pc = "settled"
Done == Settled /\ UNCHANGED vars

Serve(c) ==
    \/ Find(c) \/ Reserve(c) \/ FindAgain(c) \/ Run(c) \/ RunRestore(c)
    \/ Complete(c) \/ UpsertCompleted(c) \/ Release(c)

Next ==
    \/ \E c \in Clients : Serve(c)
    \/ \E k \in Keys : Lapse(k)
    \/ Backup \/ Crash \/ Done

Spec == Init /\ [][Next]_vars

\* A client retries, the server goes on with what it serves, a day passes, and
\* the gate lets a restore in after the requests it waits for.
Fairness ==
    /\ \A c \in Clients : WF_vars(Serve(c))
    /\ \A c \in {d \in Clients : IsRestore(d)} : SF_vars(RunRestore(c))
    /\ \A k \in Keys : WF_vars(Lapse(k))

FairSpec == Spec /\ Fairness

-----------------------------------------------------------------------------
(* Properties *)

\* The variables hold what the code stores in them.
TypeOK ==
    /\ row \in [Keys -> Row \cup {None}]
    /\ effects \subseteq Effect
    /\ snap \in Database \cup {None}
    /\ req \in [Clients -> Request]
    /\ runs \in Nat
    /\ told \in [Keys -> Answer \cup {None}]
    /\ faults \in Nat

\* However often a request is sent, at once or after lost answers, failing
\* statements, a crash or a restored database: as long as its key has not
\* lapsed, its effect is in the database a second time only if the handler
\* answered 500 or above after it had committed the first one.
AtMostOnce ==
    \A e, f \in effects :
      (e.key \notin RestoreKeys /\ e.key = f.key /\ e.run < f.run) => ~e.answered

\* What one client was told is what every other attempt will be told, until the
\* key lapses or another database is restored.
ToldIsRecorded ==
    \A k \in Keys \ RestoreKeys :
      told[k] # None => row[k] # None /\ row[k].answer = told[k]

\* The answer recorded under a key and the effect it speaks of are in the
\* database together or not at all, also in a restored one.
RecordMatchesEffects ==
    \A k \in Keys \ RestoreKeys :
      (row[k] # None /\ row[k].answer # Reserved) =>
        (row[k].answer.kind.committed <=> \E e \in effects : e.run = row[k].answer.run)

\* A client that goes on retrying has its answer some day: a reservation left
\* behind by a crash or by a lost UPDATE holds it up for a day only.
RetriesSettle ==
    \A c \in Clients : (IsRestore(c) => snap # None) ~> (req[c].pc = "settled")
=============================================================================
