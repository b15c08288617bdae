-------------------------- MODULE IdempotencyProofs --------------------------
(***************************************************************************)
(* Idempotency keys for any number of clients, keys and faults: the safety *)
(* properties of Idempotency, from one inductive invariant.                *)
(***************************************************************************)
EXTENDS Idempotency, TLAPS

\* Keys of ordinary requests, which a restore replaces but does not use.
Ordinary == Keys \ RestoreKeys

\* A restore is only sent once there is an archive to send.
HasArchive == \A c \in Clients : IsRestore(c) /\ InFlight(c) => snap # None

\* A request that holds its key has the reservation in the database, and no
\* other request holds it.
Held ==
    \A c \in Clients : KeyOf[c] \in Ordinary /\ Holds(c) =>
        row[KeyOf[c]] = [body |-> BodyOf[c], answer |-> Reserved]
OneHolder ==
    \A c, d \in Clients :
        KeyOf[c] \in Ordinary /\ KeyOf[c] = KeyOf[d] /\ Holds(c) /\ Holds(d) => c = d
UpsertsRestore == \A c \in Clients : req[c].pc = "upsert" => IsRestore(c)

\* No effect under a key counts as answered.
Unanswered(k, db) == \A e \in db : e.key = k => ~e.answered
\* An answer and what it says of its effect.
Speaks(k, a, db) ==
    /\ a.run \in 1..runs
    /\ a.kind.committed => \E e \in db : e.run = a.run /\ e.key = k
    /\ ~a.kind.committed => \A e \in db : e.run # a.run

\* What a request that holds its key knows of the effects under it.
Knows ==
    \A c \in Clients : KeyOf[c] \in Ordinary =>
        /\ req[c].pc \in {"run", "release"} => Unanswered(KeyOf[c], effects)
        /\ req[c].pc = "complete" => Speaks(KeyOf[c], req[c].answer, effects)

\* A database, the one in use or the one in the archive, is consistent.
PastRuns(db) == \A e \in db : e.run \in 1..runs
OnlyLastAnswered(db) ==
    \A e, f \in db : e.key \in Ordinary /\ e.key = f.key /\ e.run < f.run => ~e.answered
FreeUnanswered(rows, db) == \A k \in Ordinary : rows[k] = None => Unanswered(k, db)
RecordsSpeak(rows, db) ==
    \A k \in Ordinary : rows[k] # None /\ rows[k].answer # Reserved => Speaks(k, rows[k].answer, db)
Consistent(rows, db) ==
    /\ PastRuns(db) /\ OnlyLastAnswered(db)
    /\ FreeUnanswered(rows, db) /\ RecordsSpeak(rows, db)

Archive == snap # None => Consistent(snap.row, snap.effects)

Told == \A k \in Ordinary : told[k] # None =>
            row[k] # None /\ row[k].answer = told[k] /\ told[k] # Reserved

Safe ==
    /\ Held /\ OneHolder /\ UpsertsRestore /\ Knows
    /\ Consistent(row, effects) /\ Archive /\ Told

IInv == TypeOK /\ HasArchive /\ Safe

-----------------------------------------------------------------------------
(* Types *)

LEMMA AnswerTypes ==
    /\ Reserved \in Answer /\ Resting \in Request
    /\ \A b \in Bodies, a \in Answer : [body |-> b, answer |-> a] \in Row
    /\ \A s \in Stages, a \in Answer : [pc |-> s, answer |-> a] \in Request
    /\ \A r \in Request : r.answer \in Answer /\ r.pc \in Stages
    /\ \A r \in Row : r.answer \in Answer /\ r.body \in Bodies
    /\ \A n \in Nat, kind \in Kinds : [run |-> n, kind |-> kind] \in Answer
    /\ \A a \in Answer : a.run \in Nat /\ a.kind \in Kinds
    /\ \A r \in Request, s \in Stages : [r EXCEPT !.pc = s] \in Request
BY DEF Reserved, Resting, Answer, Kinds, Row, Request, Stages

LEMMA InitTypes == Init => TypeOK
<1> SUFFICES ASSUME Init PROVE TypeOK
    OBVIOUS
<1>1. req \in [Clients -> Request]
    BY AnswerTypes DEF Init
<1> QED BY <1>1 DEF Init, TypeOK

LEMMA InitArchive == Init => HasArchive
BY DEF Init, HasArchive, InFlight, Resting

\* The ways a step of the middleware leaves the request of a client.
LEMMA RequestTypes ==
    ASSUME TypeOK, NEW c \in Clients
    PROVE  /\ \A s \in Stages : Goto(c, s) => req' \in [Clients -> Request]
           /\ EndUnsettled(c) => req' \in [Clients -> Request]
           /\ Deliver(c) => req' \in [Clients -> Request] /\ told' \in [Keys -> Answer \cup {None}]
           /\ \A found \in Row : AnswerFound(c, found) =>
                req' \in [Clients -> Request] /\ told' \in [Keys -> Answer \cup {None}]
           /\ \A kind \in Kinds : Respond(c, kind) =>
                req' \in [Clients -> Request] /\ runs' \in Nat /\ faults' \in Nat
           /\ Fails => faults' \in Nat
<1> USE ClientsSend
<1>0. req[c] \in Request /\ req[c].answer \in Answer /\ KeyOf[c] \in Keys
    BY AnswerTypes DEF TypeOK
<1>1. \A s \in Stages : Goto(c, s) => req' \in [Clients -> Request]
    BY <1>0, AnswerTypes DEF Goto, TypeOK
<1>2. EndUnsettled(c) => req' \in [Clients -> Request]
    BY AnswerTypes DEF EndUnsettled, TypeOK
<1>3. "settled" \in Stages /\ "complete" \in Stages /\ "release" \in Stages
    BY DEF Stages
<1>4. Deliver(c) => req' \in [Clients -> Request] /\ told' \in [Keys -> Answer \cup {None}]
    BY <1>0, <1>3, AnswerTypes DEF Deliver, TypeOK
<1>5. ASSUME NEW found \in Row, AnswerFound(c, found)
      PROVE  req' \in [Clients -> Request] /\ told' \in [Keys -> Answer \cup {None}]
    BY <1>0, <1>1, <1>2, <1>3, <1>5, AnswerTypes DEF AnswerFound, TypeOK
<1>6. Fails => faults' \in Nat
    BY MaxFaultsIsNat DEF Fails, TypeOK
<1>7. ASSUME NEW kind \in Kinds, Respond(c, kind)
      PROVE  req' \in [Clients -> Request] /\ runs' \in Nat /\ faults' \in Nat
  <2>1. runs + 1 \in Nat
      BY DEF TypeOK
  <2>2. [run |-> runs + 1, kind |-> kind] \in Answer
      BY <2>1, AnswerTypes
  <2>3. [pc |-> IF kind.answered THEN "complete" ELSE "release",
         answer |-> [run |-> runs + 1, kind |-> kind]] \in Request
      BY <2>2, <1>3, AnswerTypes
  <2> QED BY <2>1, <2>3, <1>6, <1>7 DEF Respond, TypeOK
<1> QED BY <1>1, <1>2, <1>4, <1>5, <1>6, <1>7

LEMMA EffectTypes ==
    ASSUME TypeOK, NEW c \in Clients, NEW kind \in Kinds
    PROVE  EffectOf(c, kind) \in Effect
BY ClientsSend DEF EffectOf, Effect, Kinds, TypeOK

LEMMA NextTypes == TypeOK /\ HasArchive /\ [Next]_vars => TypeOK'
<1> SUFFICES ASSUME TypeOK, HasArchive, [Next]_vars PROVE TypeOK'
    OBVIOUS
<1> USE ClientsSend
<1>0. CASE UNCHANGED vars
    BY <1>0 DEF TypeOK, vars
<1>1. ASSUME NEW c \in Clients, Find(c) \/ FindAgain(c) PROVE TypeOK'
  <2>1. row[KeyOf[c]] # None => row[KeyOf[c]] \in Row
      BY DEF TypeOK
  <2>2. /\ req' \in [Clients -> Request] /\ told' \in [Keys -> Answer \cup {None}]
        /\ faults' \in Nat
      BY <1>1, <2>1, RequestTypes DEF Find, FindAgain, Stages, TypeOK
  <2> QED BY <1>1, <2>2 DEF Find, FindAgain, TypeOK
<1>2. ASSUME NEW c \in Clients, Reserve(c) PROVE TypeOK'
  <2>1. req' \in [Clients -> Request] /\ faults' \in Nat
      BY <1>2, RequestTypes DEF Reserve, Stages, TypeOK
  <2>2. row' \in [Keys -> Row \cup {None}]
      BY <1>2, AnswerTypes DEF Reserve, TypeOK
  <2> QED BY <1>2, <2>1, <2>2 DEF Reserve, TypeOK
<1>3. ASSUME NEW c \in Clients, Run(c) PROVE TypeOK'
  <2>1. PICK kind \in Kinds :
          /\ Respond(c, kind)
          /\ effects' = IF kind.committed THEN effects \cup {EffectOf(c, kind)} ELSE effects
      BY <1>3 DEF Run
  <2>2. effects' \subseteq Effect
      BY <2>1, EffectTypes DEF TypeOK
  <2>3. req' \in [Clients -> Request] /\ runs' \in Nat /\ faults' \in Nat
      BY <2>1, RequestTypes
  <2> QED BY <1>3, <2>2, <2>3 DEF Run, TypeOK
<1>4. ASSUME NEW c \in Clients, RunRestore(c) PROVE TypeOK'
  <2>1. PICK kind \in Kinds :
          /\ Respond(c, kind)
          /\ IF kind.committed THEN ReplaceDatabase(c, kind) ELSE UNCHANGED <<row, effects, told>>
      BY <1>4 DEF RunRestore
  <2>2. req' \in [Clients -> Request] /\ runs' \in Nat /\ faults' \in Nat
      BY <2>1, RequestTypes
  <2>3. snap \in Database
      BY <1>4 DEF RunRestore, HasArchive, InFlight, TypeOK
  <2>4. snap.row \in [Keys -> Row \cup {None}] /\ snap.effects \subseteq Effect
      BY <2>3 DEF Database
  <2>5. /\ row' \in [Keys -> Row \cup {None}] /\ effects' \subseteq Effect
        /\ told' \in [Keys -> Answer \cup {None}]
      BY <2>1, <2>4, EffectTypes DEF ReplaceDatabase, TypeOK
  <2> QED BY <1>4, <2>2, <2>5 DEF RunRestore, TypeOK
<1>5. ASSUME NEW c \in Clients, Complete(c) \/ UpsertCompleted(c) \/ Release(c) PROVE TypeOK'
  <2>1. req[c].answer \in Answer
      BY AnswerTypes DEF TypeOK
  <2>2. Record(c) => row' \in [Keys -> Row \cup {None}]
      BY <2>1, AnswerTypes DEF Record, TypeOK
  <2>3. NotRecorded(c) => /\ req' \in [Clients -> Request] /\ row' \in [Keys -> Row \cup {None}]
                          /\ told' \in [Keys -> Answer \cup {None}]
      BY RequestTypes DEF NotRecorded, Stages, TypeOK
  <2>4. CASE Complete(c)
      BY <2>4, <2>2, <2>3, RequestTypes DEF Complete, TypeOK
  <2>5. CASE UpsertCompleted(c)
      BY <2>5, <2>2, RequestTypes DEF UpsertCompleted, TypeOK
  <2>6. CASE Release(c)
      BY <2>6, RequestTypes DEF Release, TypeOK
  <2> QED BY <1>5, <2>4, <2>5, <2>6
<1>6. ASSUME NEW k \in Keys, Lapse(k) PROVE TypeOK'
    BY <1>6 DEF Lapse, TypeOK
<1>7. CASE Backup
    BY <1>7 DEF Backup, TypeOK, Database
<1>8. CASE Crash
  <2>1. \A c \in Clients : req[c] \in Request
      BY DEF TypeOK
  <2>2. req' \in [Clients -> Request]
      BY <1>8, <2>1, AnswerTypes DEF Crash
  <2> QED BY <1>8, <2>2, MaxFaultsIsNat DEF Crash, Fails, TypeOK
<1>9. CASE Done
    BY <1>0, <1>9 DEF Done
<1> QED BY <1>0, <1>1, <1>2, <1>3, <1>4, <1>5, <1>6, <1>7, <1>8, <1>9 DEF Next, Serve

-----------------------------------------------------------------------------
(* The archive of a restore *)

\* A client that is not served yet is served only from Find on; the archive stays.
LEMMA NextArchive == TypeOK /\ HasArchive /\ [Next]_vars => HasArchive'
<1> SUFFICES ASSUME TypeOK, HasArchive, [Next]_vars,
                    NEW d \in Clients, IsRestore(d), InFlight(d)'
             PROVE  snap' # None
    BY DEF HasArchive, IsRestore
<1>0. CASE UNCHANGED vars
    BY <1>0 DEF HasArchive, InFlight, vars
<1>1. ASSUME NEW c \in Clients, Serve(c) PROVE snap' # None
  <2>1. snap' = snap
      BY <1>1 DEF Serve, Find, Reserve, FindAgain, Run, RunRestore, Complete, UpsertCompleted, Release
  <2>2. CASE InFlight(d)
      BY <2>1, <2>2 DEF HasArchive
  <2>3. CASE ~InFlight(d)
    <3>1. d # c => req'[d] = req[d]
        BY <1>1 DEF Serve, Find, Reserve, FindAgain, Run, RunRestore, Complete, UpsertCompleted,
             Release, AnswerFound, Goto, EndUnsettled, Respond, Deliver, NotRecorded, TypeOK
    <3>2. d = c
        BY <2>3, <3>1 DEF InFlight
    <3>3. Find(c) \/ snap # None
        BY <1>1, <2>3, <3>2 DEF Serve, Find, Reserve, FindAgain, Run, RunRestore, Complete,
             UpsertCompleted, Release, InFlight
    <3> QED BY <2>1, <3>2, <3>3 DEF Find
  <2> QED BY <2>2, <2>3
<1>2. ASSUME NEW k \in Keys, Lapse(k) PROVE snap' # None
    BY <1>2 DEF Lapse, HasArchive, InFlight
<1>3. CASE Backup
    BY <1>3, NoneIsDistinct DEF Backup, Database, TypeOK
<1>4. CASE Crash
    BY <1>4 DEF Crash, HasArchive, InFlight, Resting, TypeOK
<1>5. CASE Done
    BY <1>0, <1>5 DEF Done
<1> QED BY <1>0, <1>1, <1>2, <1>3, <1>4, <1>5 DEF Next

-----------------------------------------------------------------------------
(* Steps that leave the ordinary keys and their effects alone *)

\* A request that has no ordinary key in its hands.
Aside(c) ==
    /\ KeyOf[c] \in Ordinary => ~Holds(c)
    /\ req[c].pc = "upsert" => IsRestore(c)

Quiet ==
    /\ UNCHANGED <<effects, snap, runs>>
    /\ \A k \in Ordinary : row'[k] = row[k]
    /\ \A c \in Clients : req'[c] = req[c] \/ Aside(c)'
    /\ \A k \in Ordinary :
         \/ told'[k] = told[k]
         \/ row[k] # None /\ row[k].answer = told'[k] /\ told'[k] # Reserved

LEMMA QuietSafe == Safe /\ Quiet => Safe'
<1> SUFFICES ASSUME Safe, Quiet PROVE Safe'
    OBVIOUS
<1>1. \A c \in Clients : KeyOf[c] \in Ordinary /\ Holds(c)' => Holds(c) /\ req'[c] = req[c]
    BY DEF Quiet, Aside, Holds, Ordinary
<1>2. Held' /\ OneHolder'
    BY <1>1 DEF Safe, Held, OneHolder, Quiet, Ordinary
<1>3. UpsertsRestore'
    BY DEF Safe, UpsertsRestore, Quiet, Aside, IsRestore
<1>4. Knows'
    BY <1>1 DEF Safe, Knows, Quiet, Ordinary, Holds, Unanswered, Speaks
<1>5. Consistent(row, effects)'
    BY DEF Safe, Consistent, PastRuns, OnlyLastAnswered, FreeUnanswered, RecordsSpeak,
           Unanswered, Speaks, Quiet, Ordinary
<1>6. Archive'
    BY DEF Safe, Archive, Quiet, Consistent, PastRuns, OnlyLastAnswered, FreeUnanswered,
           RecordsSpeak, Unanswered, Speaks, Ordinary
<1>7. Told'
    BY DEF Safe, Told, Quiet, Ordinary
<1> QED BY <1>2, <1>3, <1>4, <1>5, <1>6, <1>7 DEF Safe

\* Only the request of c and what is at its key change in a step of c.
LEMMA OthersKept ==
    ASSUME TypeOK, NEW c \in Clients, Serve(c)
    PROVE  \A d \in Clients : d # c => req'[d] = req[d]
BY DEF Serve, Find, Reserve, FindAgain, Run, RunRestore, Complete, UpsertCompleted,
     Release, AnswerFound, Goto, EndUnsettled, Respond, Deliver, NotRecorded, TypeOK

LEMMA FindsQuietly ==
    ASSUME TypeOK, NEW c \in Clients, Find(c) \/ FindAgain(c)
    PROVE  Quiet
<1>1. \A d \in Clients : d # c => req'[d] = req[d]
    BY OthersKept DEF Serve
<1>2. req'[c].pc \in {"idle", "insert", "settled"}
    BY DEF Find, FindAgain, AnswerFound, Goto, EndUnsettled, Resting, TypeOK, Request
<1>3. Aside(c)'
    BY <1>2 DEF Aside, Holds
<1>4. \A k \in Keys :
         \/ told'[k] = told[k]
         \/ row[k] # None /\ row[k].answer = told'[k] /\ told'[k] # Reserved
    BY ClientsSend DEF Find, FindAgain, AnswerFound, TypeOK
<1> QED BY <1>1, <1>3, <1>4 DEF Quiet, Find, FindAgain, Ordinary

\* Whatever a restore does with its own key.
LEMMA RestoresQuietly ==
    ASSUME TypeOK, NEW c \in Clients, IsRestore(c),
           Reserve(c) \/ Complete(c) \/ UpsertCompleted(c) \/ Release(c)
    PROVE  Quiet
<1>1. \A d \in Clients : d # c => req'[d] = req[d]
    BY OthersKept DEF Serve
<1>2. Aside(c)'
    BY DEF Aside, IsRestore, Ordinary
<1>3. \A k \in Ordinary : row'[k] = row[k] /\ told'[k] = told[k]
    BY DEF Reserve, Complete, UpsertCompleted, Release, Record, Deliver, NotRecorded, IsRestore,
         Ordinary, TypeOK
<1> QED BY <1>1, <1>2, <1>3 DEF Quiet, Reserve, Complete, UpsertCompleted, Release

\* A request that could not reserve, record or give back its key.
LEMMA FailsQuietly ==
    ASSUME TypeOK, NEW c \in Clients, UNCHANGED <<row, effects, snap, runs, told>>,
           Goto(c, "refind") \/ EndUnsettled(c)
    PROVE  Quiet
<1>1. \A d \in Clients : d # c => req'[d] = req[d]
    BY DEF Goto, EndUnsettled, TypeOK
<1>2. Aside(c)'
    BY DEF Goto, EndUnsettled, Resting, Aside, Holds, TypeOK, Request
<1> QED BY <1>1, <1>2 DEF Quiet

-----------------------------------------------------------------------------
(* Steps of an ordinary request with its key *)

LEMMA ReserveSafe ==
    ASSUME TypeOK, Safe, NEW c \in Clients, Reserve(c)
    PROVE  Safe'
<1> DEFINE k == KeyOf[c]
           reservation == [body |-> BodyOf[c], answer |-> Reserved]
<1>1. CASE IsRestore(c)
    BY <1>1, RestoresQuietly, QuietSafe
<1>2. CASE Goto(c, "refind") /\ UNCHANGED row
    BY <1>2, FailsQuietly, QuietSafe DEF Reserve
<1>3. CASE ~IsRestore(c) /\ row[k] = None /\ row' = [row EXCEPT ![k] = reservation] /\ Goto(c, "run")
  <2>1. /\ k \in Keys /\ k \in Ordinary
        /\ UNCHANGED <<effects, snap, runs, told>>
        /\ req' = [req EXCEPT ![c].pc = "run"]
      BY <1>3, ClientsSend DEF Reserve, IsRestore, Ordinary, Goto
  <2>2. reservation \in Row /\ reservation # None
      BY AnswerTypes, ClientsSend, NoneIsDistinct
  <2>3. \A d \in Clients : KeyOf[d] = k => ~Holds(d)
    <3> SUFFICES ASSUME NEW d \in Clients, KeyOf[d] = k, Holds(d) PROVE FALSE
        OBVIOUS
    <3>1. row[k] = [body |-> BodyOf[d], answer |-> Reserved]
        BY <2>1 DEF Safe, Held
    <3>2. row[k] \in Row
        BY <3>1, AnswerTypes, ClientsSend
    <3> QED BY <1>3, <3>2, NoneIsDistinct
  <2>4. row'[k] = reservation /\ \A i \in Keys : i # k => row'[i] = row[i]
      BY <1>3, <2>1 DEF TypeOK
  <2>5. req'[c].pc = "run" /\ \A d \in Clients : d # c => req'[d] = req[d]
      BY <2>1 DEF TypeOK, Request
  <2>6. Unanswered(k, effects)
      BY <1>3, <2>1 DEF Safe, Consistent, FreeUnanswered
  <2>7. Held' /\ OneHolder'
      BY <2>3, <2>4, <2>5, ClientsSend DEF Safe, Held, OneHolder, Holds, Ordinary
  <2>8. UpsertsRestore'
      BY <2>5 DEF Safe, UpsertsRestore, IsRestore
  <2>9. Knows'
      BY <2>1, <2>5, <2>6 DEF Safe, Knows, Unanswered, Speaks
  <2>10. Consistent(row, effects)'
      BY <2>1, <2>2, <2>4 DEF Safe, Consistent, PastRuns, OnlyLastAnswered, FreeUnanswered,
           RecordsSpeak, Unanswered, Speaks, Ordinary
  <2>11. Archive'
      BY <2>1 DEF Safe, Archive, Consistent, PastRuns, OnlyLastAnswered, FreeUnanswered,
           RecordsSpeak, Unanswered, Speaks
  <2>12. Told'
      BY <1>3, <2>1, <2>4 DEF Safe, Told, Ordinary
  <2> QED BY <2>7, <2>8, <2>9, <2>10, <2>11, <2>12 DEF Safe
<1> QED BY <1>1, <1>2, <1>3 DEF Reserve

LEMMA RunSafe ==
    ASSUME TypeOK, Safe, NEW c \in Clients, Run(c)
    PROVE  Safe'
<1> DEFINE k == KeyOf[c]
<1>1. PICK kind \in Kinds :
        /\ Respond(c, kind)
        /\ effects' = IF kind.committed THEN effects \cup {EffectOf(c, kind)} ELSE effects
    BY DEF Run
<1>2. k \in Keys /\ k \in Ordinary /\ Holds(c) /\ runs \in Nat /\ req[c].pc = "run"
    BY ClientsSend DEF Run, IsRestore, Ordinary, Holds, TypeOK
<1>3. UNCHANGED <<row, snap, told>> /\ runs' = runs + 1
    BY <1>1 DEF Run, Respond
<1>4. /\ req'[c].pc = IF kind.answered THEN "complete" ELSE "release"
      /\ req'[c].answer = [run |-> runs + 1, kind |-> kind]
      /\ \A d \in Clients : d # c => req'[d] = req[d]
    BY <1>1 DEF Respond, TypeOK
<1>5. \A d \in Clients : KeyOf[d] = k /\ Holds(d) => d = c
    BY <1>2 DEF Safe, OneHolder
<1> DEFINE e == [run |-> runs + 1, key |-> k, answered |-> kind.answered]
<1>6. effects' = IF kind.committed THEN effects \cup {e} ELSE effects
    BY <1>1 DEF EffectOf
<1>7. Unanswered(k, effects)
    BY <1>2 DEF Safe, Knows
<1>8. \A f \in effects : f.run \in 1..runs /\ f.run # runs + 1
    BY <1>2 DEF Safe, Consistent, PastRuns
<1>9. \A n \in 1..runs : n \in 1..runs' /\ n # runs + 1
    BY <1>2, <1>3
<1>10. \A i, a : Speaks(i, a, effects) => Speaks(i, a, effects)'
    BY <1>6, <1>9 DEF Speaks
<1>11. row[k] = [body |-> BodyOf[c], answer |-> Reserved]
    BY <1>2 DEF Safe, Held
<1>12. Held' /\ OneHolder' /\ UpsertsRestore'
    BY <1>2, <1>3, <1>4, <1>5 DEF Safe, Held, OneHolder, UpsertsRestore, Holds, IsRestore
<1>13. Knows'
  <2> SUFFICES ASSUME NEW d \in Clients, KeyOf[d] \in Ordinary
               PROVE  /\ req'[d].pc \in {"run", "release"} => Unanswered(KeyOf[d], effects')
                      /\ req'[d].pc = "complete" => Speaks(KeyOf[d], req[d].answer, effects)'
      BY DEF Knows, Unanswered
  <2>1. CASE d = c
    <3>1. ~kind.answered => Unanswered(k, effects')
        BY <1>6, <1>7 DEF Unanswered
    <3>2. Speaks(k, req[c].answer, effects)'
      <4>1. runs' = runs + 1 /\ runs + 1 \in 1..(runs + 1)
          BY <1>2, <1>3
      <4>2. e.run = runs + 1 /\ e.key = k
          OBVIOUS
      <4>3. kind.committed => \E f \in effects' : f.run = runs + 1 /\ f.key = k
          BY <1>6, <4>2
      <4>4. ~kind.committed => \A f \in effects' : f.run # runs + 1
          BY <1>6, <1>8
      <4> QED BY <1>4, <4>1, <4>3, <4>4 DEF Speaks
    <3>3. req'[c].pc # "run" /\ (req'[c].pc = "release" => ~kind.answered)
        BY <1>4
    <3>4. KeyOf[d] = k /\ req'[d] = req'[c]
        BY <2>1
    <3>5. Speaks(KeyOf[d], req[d].answer, effects)'
        BY <3>2, <3>4 DEF Speaks
    <3> QED BY <3>1, <3>3, <3>4, <3>5
  <2>2. CASE d # c
    <3>1. Holds(d) => KeyOf[d] # k
        BY <1>5, <2>2
    <3>2. KeyOf[d] # k /\ Unanswered(KeyOf[d], effects) => Unanswered(KeyOf[d], effects')
        BY <1>6 DEF Unanswered
    <3> QED BY <1>4, <1>10, <2>2, <3>1, <3>2 DEF Safe, Knows, Holds
  <2> QED BY <2>1, <2>2
<1>14. Consistent(row, effects)'
  <2>1. PastRuns(effects)'
      BY <1>2, <1>3, <1>6, <1>8, <1>9 DEF PastRuns
  <2>2. OnlyLastAnswered(effects)'
    <3> SUFFICES ASSUME NEW f \in effects', NEW g \in effects',
                        f.key \in Ordinary, f.key = g.key, f.run < g.run
                 PROVE  ~f.answered
        BY DEF OnlyLastAnswered, Ordinary
    <3>1. CASE f \in effects /\ g \in effects
        BY <3>1 DEF Safe, Consistent, OnlyLastAnswered
    <3>2. CASE f \in effects /\ g = e
        BY <1>7, <3>2 DEF Unanswered
    <3>3. f = e => g \in effects /\ g.run \in 1..runs
        BY <1>2, <1>6, <1>8
    <3>4. f # e
        BY <1>2, <3>3
    <3> QED BY <1>6, <3>1, <3>2, <3>4
  <2>3. FreeUnanswered(row, effects)'
    <3>1. row[k] # None
        BY <1>11, AnswerTypes, ClientsSend, NoneIsDistinct
    <3>2. \A i : i # k /\ Unanswered(i, effects) => Unanswered(i, effects')
        BY <1>6 DEF Unanswered
    <3> QED BY <1>3, <3>1, <3>2 DEF Safe, Consistent, FreeUnanswered, Unanswered, Ordinary
  <2>4. RecordsSpeak(row, effects)'
      BY <1>3, <1>10 DEF Safe, Consistent, RecordsSpeak, Ordinary
  <2> QED BY <2>1, <2>2, <2>3, <2>4 DEF Consistent
<1>15. Archive'
    BY <1>3, <1>9 DEF Safe, Archive, Consistent, PastRuns, OnlyLastAnswered, FreeUnanswered,
         RecordsSpeak, Unanswered, Speaks, Ordinary
<1>16. Told'
    BY <1>3 DEF Safe, Told, Ordinary
<1> QED BY <1>12, <1>13, <1>14, <1>15, <1>16 DEF Safe

LEMMA CompleteSafe ==
    ASSUME TypeOK, Safe, NEW c \in Clients, Complete(c)
    PROVE  Safe'
<1> DEFINE k == KeyOf[c]
           answer == req[c].answer
<1>1. CASE IsRestore(c)
    BY <1>1, RestoresQuietly, QuietSafe
<1>2. CASE ~IsRestore(c) /\ NotRecorded(c)
    BY <1>2, FailsQuietly, QuietSafe DEF Complete, NotRecorded
<1>3. CASE ~IsRestore(c) /\ Record(c) /\ Deliver(c)
  <2>1. k \in Keys /\ k \in Ordinary /\ Holds(c) /\ runs \in Nat /\ req[c].pc = "complete"
      BY <1>3, ClientsSend DEF Complete, IsRestore, Ordinary, Holds, TypeOK
  <2>2. UNCHANGED <<effects, snap, runs>>
      BY DEF Complete
  <2>3. /\ row'[k] = [body |-> BodyOf[c], answer |-> answer]
        /\ \A i \in Keys : i # k => row'[i] = row[i]
        /\ told'[k] = answer
        /\ \A i \in Keys : i # k => told'[i] = told[i]
      BY <1>3, <2>1 DEF Record, Deliver, TypeOK
  <2>4. req'[c].pc = "settled" /\ \A d \in Clients : d # c => req'[d] = req[d]
      BY <1>3 DEF Deliver, TypeOK
  <2>5. \A d \in Clients : KeyOf[d] = k /\ Holds(d) => d = c
      BY <2>1 DEF Safe, OneHolder
  <2>6. Speaks(k, answer, effects)
      BY <2>1 DEF Safe, Knows
  <2>7. answer # Reserved
      BY <2>1, <2>6 DEF Speaks, Reserved
  <2>8. row'[k] # None
    <3>1. answer \in Answer
        BY AnswerTypes DEF TypeOK
    <3> QED BY <2>3, <3>1, AnswerTypes, ClientsSend, NoneIsDistinct
  <2>9. Held' /\ OneHolder' /\ UpsertsRestore'
      BY <2>3, <2>4, <2>5, ClientsSend DEF Safe, Held, OneHolder, UpsertsRestore, Holds, IsRestore
  <2>10. Knows'
      BY <2>2, <2>4 DEF Safe, Knows, Unanswered, Speaks
  <2>11. Consistent(row, effects)'
      BY <2>2, <2>3, <2>6, <2>8 DEF Safe, Consistent, PastRuns, OnlyLastAnswered,
           FreeUnanswered, RecordsSpeak, Unanswered, Speaks, Ordinary
  <2>12. Archive'
      BY <2>2 DEF Safe, Archive, Consistent, PastRuns, OnlyLastAnswered, FreeUnanswered,
           RecordsSpeak, Unanswered, Speaks, Ordinary
  <2>13. Told'
      BY <2>3, <2>7, <2>8 DEF Safe, Told, Ordinary
  <2> QED BY <2>9, <2>10, <2>11, <2>12, <2>13 DEF Safe
<1> QED BY <1>1, <1>2, <1>3 DEF Complete

LEMMA ReleaseSafe ==
    ASSUME TypeOK, Safe, NEW c \in Clients, Release(c)
    PROVE  Safe'
<1> DEFINE k == KeyOf[c]
<1>1. CASE IsRestore(c)
    BY <1>1, RestoresQuietly, QuietSafe
<1>2. CASE UNCHANGED row
    BY <1>2, FailsQuietly, QuietSafe DEF Release
<1>3. CASE ~IsRestore(c) /\ row' = [row EXCEPT ![k] = None]
  <2>1. k \in Keys /\ k \in Ordinary /\ Holds(c)
      BY <1>3, ClientsSend DEF Release, IsRestore, Ordinary, Holds
  <2>2. UNCHANGED <<effects, snap, runs, told>>
      BY DEF Release
  <2>3. row'[k] = None /\ \A i \in Keys : i # k => row'[i] = row[i]
      BY <1>3, <2>1 DEF TypeOK
  <2>4. req'[c].pc = "idle" /\ \A d \in Clients : d # c => req'[d] = req[d]
      BY DEF Release, EndUnsettled, Resting, TypeOK
  <2>5. \A d \in Clients : KeyOf[d] = k /\ Holds(d) => d = c
      BY <2>1 DEF Safe, OneHolder
  <2>6. Unanswered(k, effects)
      BY <2>1 DEF Release, Safe, Knows
  <2>7. told[k] = None
    <3>1. row[k] = [body |-> BodyOf[c], answer |-> Reserved]
        BY <2>1 DEF Safe, Held
    <3> QED BY <2>1, <3>1 DEF Safe, Told
  <2>8. Held' /\ OneHolder' /\ UpsertsRestore'
      BY <2>3, <2>4, <2>5, ClientsSend DEF Safe, Held, OneHolder, UpsertsRestore, Holds, IsRestore
  <2>9. Knows'
      BY <2>2, <2>4 DEF Safe, Knows, Unanswered, Speaks
  <2>10. Consistent(row, effects)'
      BY <2>2, <2>3, <2>6 DEF Safe, Consistent, PastRuns, OnlyLastAnswered,
           FreeUnanswered, RecordsSpeak, Unanswered, Speaks, Ordinary
  <2>11. Archive'
      BY <2>2 DEF Safe, Archive, Consistent, PastRuns, OnlyLastAnswered, FreeUnanswered,
           RecordsSpeak, Unanswered, Speaks, Ordinary
  <2>12. Told'
      BY <2>2, <2>3, <2>7 DEF Safe, Told, Ordinary
  <2> QED BY <2>8, <2>9, <2>10, <2>11, <2>12 DEF Safe
<1> QED BY <1>1, <1>2, <1>3 DEF Release

-----------------------------------------------------------------------------
(* The restore, a day, an archive *)

LEMMA RunRestoreSafe ==
    ASSUME TypeOK, HasArchive, Safe, NEW c \in Clients, RunRestore(c)
    PROVE  Safe'
<1>1. PICK kind \in Kinds :
        /\ Respond(c, kind)
        /\ IF kind.committed THEN ReplaceDatabase(c, kind) ELSE UNCHANGED <<row, effects, told>>
    BY DEF RunRestore
<1>2. /\ KeyOf[c] \notin Ordinary /\ snap # None /\ UNCHANGED snap /\ runs \in Nat
      /\ runs' = runs + 1
    BY <1>1 DEF RunRestore, HasArchive, InFlight, Respond, IsRestore, Ordinary, TypeOK
<1>3. /\ req'[c].pc \in {"complete", "release"}
      /\ \A d \in Clients : d # c => req'[d] = req[d]
    BY <1>1 DEF Respond, TypeOK
<1>4. \A d \in Clients : KeyOf[d] \in Ordinary => ~Holds(d) /\ ~Holds(d)' /\ req'[d].pc # "complete"
    BY <1>2, <1>3 DEF RunRestore, IsRestore, InFlight, Holds, Ordinary
<1>5. Held' /\ OneHolder' /\ Knows'
    BY <1>4 DEF Held, OneHolder, Knows, Holds
<1>6. UpsertsRestore'
    BY <1>3 DEF Safe, UpsertsRestore, IsRestore
<1>7. \A n \in 1..runs : n \in 1..runs' /\ n < runs + 1
    BY <1>2
<1>8. Archive'
    BY <1>2, <1>7 DEF Safe, Archive, Consistent, PastRuns, OnlyLastAnswered, FreeUnanswered,
         RecordsSpeak, Unanswered, Speaks, Ordinary
<1>9. CASE kind.committed
  <2> DEFINE e == EffectOf(c, kind)
  <2>1. /\ row' = snap.row /\ effects' = snap.effects \cup {e}
        /\ told' = [k \in Keys |-> None]
      BY <1>1, <1>9 DEF ReplaceDatabase
  <2>2. e.run = runs + 1 /\ e.key \notin Ordinary
      BY <1>2 DEF EffectOf
  <2>3. Consistent(snap.row, snap.effects)
      BY <1>2 DEF Safe, Archive
  <2> HIDE DEF e
  <2>4. PastRuns(effects)'
      BY <1>2, <1>7, <2>1, <2>2, <2>3 DEF Consistent, PastRuns
  <2>5. OnlyLastAnswered(effects)'
      BY <2>1, <2>2, <2>3 DEF Consistent, OnlyLastAnswered, Ordinary
  <2>6. FreeUnanswered(row, effects)'
      BY <2>1, <2>2, <2>3 DEF Consistent, FreeUnanswered, Unanswered, Ordinary
  <2>7. RecordsSpeak(row, effects)'
    <3>1. \A k, a : Speaks(k, a, snap.effects) => Speaks(k, a, effects)'
        BY <1>2, <1>7, <2>1, <2>2 DEF Speaks
    <3> QED BY <2>1, <2>3, <3>1 DEF Consistent, RecordsSpeak, Ordinary
  <2>8. Told'
      BY <2>1 DEF Told, Ordinary
  <2> QED BY <1>5, <1>6, <1>8, <2>4, <2>5, <2>6, <2>7, <2>8 DEF Safe, Consistent
<1>10. CASE ~kind.committed
  <2>1. UNCHANGED <<row, effects, told>>
      BY <1>1, <1>10
  <2>2. Consistent(row, effects)'
      BY <1>2, <1>7, <2>1 DEF Safe, Consistent, PastRuns, OnlyLastAnswered, FreeUnanswered,
           RecordsSpeak, Unanswered, Speaks, Ordinary
  <2>3. Told'
      BY <2>1 DEF Safe, Told, Ordinary
  <2> QED BY <1>5, <1>6, <1>8, <2>2, <2>3 DEF Safe
<1> QED BY <1>9, <1>10

LEMMA LapseSafe ==
    ASSUME TypeOK, Safe, NEW k \in Keys, Lapse(k)
    PROVE  Safe'
<1>1. /\ row'[k] = None /\ told'[k] = None
      /\ \A i \in Keys : i # k => row'[i] = row[i] /\ told'[i] = told[i]
      /\ effects' = {e \in effects : e.key # k}
      /\ UNCHANGED <<snap, req, runs>>
      /\ \A c \in Clients : KeyOf[c] = k => ~Holds(c)
    BY DEF Lapse, TypeOK
<1>2. Held' /\ OneHolder' /\ UpsertsRestore'
    BY <1>1, ClientsSend DEF Safe, Held, OneHolder, UpsertsRestore, Holds, IsRestore
<1>3. \A i : Unanswered(i, effects) \/ i = k => Unanswered(i, effects')
    BY <1>1 DEF Unanswered
<1>4. \A i, a : Speaks(i, a, effects) /\ i # k => Speaks(i, a, effects)'
    BY <1>1 DEF Speaks
<1>5. Knows'
  <2>1. \A c \in Clients : Holds(c) => KeyOf[c] # k
      BY <1>1
  <2> QED BY <1>1, <1>3, <1>4, <2>1 DEF Safe, Knows, Holds, Unanswered
<1>6. Consistent(row, effects)'
  <2>1. PastRuns(effects)' /\ OnlyLastAnswered(effects)'
      BY <1>1 DEF Safe, Consistent, PastRuns, OnlyLastAnswered, Ordinary
  <2>2. FreeUnanswered(row, effects)'
      BY <1>1, <1>3 DEF Safe, Consistent, FreeUnanswered, Unanswered, Ordinary
  <2>3. RecordsSpeak(row, effects)'
      BY <1>1, <1>4 DEF Safe, Consistent, RecordsSpeak, Ordinary
  <2> QED BY <2>1, <2>2, <2>3 DEF Consistent
<1>7. Archive'
    BY <1>1 DEF Safe, Archive, Consistent, PastRuns, OnlyLastAnswered, FreeUnanswered,
         RecordsSpeak, Unanswered, Speaks, Ordinary
<1>8. Told'
    BY <1>1 DEF Safe, Told, Ordinary
<1> QED BY <1>2, <1>5, <1>6, <1>7, <1>8 DEF Safe

LEMMA BackupSafe ==
    ASSUME TypeOK, Safe, Backup
    PROVE  Safe'
<1>1. /\ UNCHANGED <<row, effects, req, runs, told>>
      /\ snap'.row = row /\ snap'.effects = effects
    BY DEF Backup
<1>2. Consistent(row, effects)'
    BY <1>1 DEF Safe, Consistent, PastRuns, OnlyLastAnswered, FreeUnanswered, RecordsSpeak,
         Unanswered, Speaks, Ordinary
<1>3. Archive'
    BY <1>1 DEF Safe, Archive, Consistent, PastRuns, OnlyLastAnswered, FreeUnanswered,
         RecordsSpeak, Unanswered, Speaks, Ordinary
<1> QED BY <1>1, <1>2, <1>3 DEF Safe, Held, OneHolder, UpsertsRestore, Knows, Holds, IsRestore,
         Unanswered, Speaks, Told, Ordinary

LEMMA CrashSafe ==
    ASSUME TypeOK, Safe, Crash
    PROVE  Safe'
<1>1. \A c \in Clients : req'[c] = req[c] \/ Aside(c)'
    BY DEF Crash, Aside, Resting, Holds, TypeOK
<1> QED BY <1>1, QuietSafe DEF Quiet, Crash

-----------------------------------------------------------------------------
(* The invariant *)

LEMMA InitIInv == Init => IInv
<1> SUFFICES ASSUME Init PROVE IInv
    OBVIOUS
<1>1. Safe
    BY DEF Init, Safe, Held, OneHolder, UpsertsRestore, Knows, Holds, Resting, Consistent,
         PastRuns, OnlyLastAnswered, FreeUnanswered, RecordsSpeak, Unanswered, Archive, Told, Ordinary
<1> QED BY <1>1, InitTypes, InitArchive DEF IInv

LEMMA NextIInv == IInv /\ [Next]_vars => IInv'
<1> SUFFICES ASSUME IInv, [Next]_vars PROVE IInv'
    OBVIOUS
<1> USE DEF IInv
<1>1. TypeOK' /\ HasArchive'
    BY NextTypes, NextArchive
<1>2. Safe'
  <2>1. CASE UNCHANGED vars
      BY <2>1, QuietSafe DEF vars, Quiet
  <2>2. ASSUME NEW c \in Clients, Serve(c) PROVE Safe'
    <3>1. CASE Find(c) \/ FindAgain(c)
        BY <3>1, FindsQuietly, QuietSafe
    <3>2. CASE UpsertCompleted(c)
        BY <3>2, RestoresQuietly, QuietSafe DEF UpsertCompleted, Safe, UpsertsRestore
    <3> QED BY <2>2, <3>1, <3>2, ReserveSafe, RunSafe, CompleteSafe, ReleaseSafe, RunRestoreSafe
          DEF Serve
  <2> QED BY <2>1, <2>2, LapseSafe, BackupSafe, CrashSafe DEF Next, Done
<1> QED BY <1>1, <1>2

(* The variables hold what the code stores in them. *)
THEOREM TypeCorrect == Spec => []TypeOK
<1>1. IInv => TypeOK
    BY DEF IInv
<1> QED BY <1>1, InitIInv, NextIInv, PTL DEF Spec

(* A key that has not lapsed is served twice only after an answer of 500   *)
(* or above, through lost answers, failing statements, crashes and         *)
(* restored databases, for any number of clients, keys and faults.         *)
THEOREM EffectsHappenOnce == Spec => []AtMostOnce
<1>1. IInv => AtMostOnce
    BY DEF IInv, Safe, Consistent, OnlyLastAnswered, AtMostOnce, Ordinary, TypeOK, Effect
<1> QED BY <1>1, InitIInv, NextIInv, PTL DEF Spec

(* What one client was told is what every other attempt will be told.      *)
THEOREM AnswersAreRecorded == Spec => []ToldIsRecorded
<1>1. IInv => ToldIsRecorded
    BY DEF IInv, Safe, Told, ToldIsRecorded, Ordinary
<1> QED BY <1>1, InitIInv, NextIInv, PTL DEF Spec

(* A recorded answer and the effect it speaks of are in the database       *)
(* together or not at all, also in a restored one.                         *)
THEOREM RecordsAreTrue == Spec => []RecordMatchesEffects
<1>1. IInv => RecordMatchesEffects
    BY DEF IInv, Safe, Consistent, RecordsSpeak, Speaks, RecordMatchesEffects, Ordinary
<1> QED BY <1>1, InitIInv, NextIInv, PTL DEF Spec

=============================================================================
