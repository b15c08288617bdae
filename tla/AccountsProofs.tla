---------------------------- MODULE AccountsProofs ----------------------------
(***************************************************************************)
(* The accounts of a household for any number of users, names, requests    *)
(* and sessions: the properties of Accounts, from one inductive invariant. *)
(***************************************************************************)
EXTENDS Accounts, FiniteSetTheorems, TLAPS

\* There is one administrator, who is active, as soon as there is a user.
Led == (\E u \in Users : Exists(u)) => \E a \in Users : Admins = {a} /\ users[a].active

\* What requireManagedMember found out stays true: nobody's role changes.
Managed ==
    \A r \in Requests :
        op[r].pc \in {"may reset", "may deactivate"} => users[op[r].user].role = "member"

\* The counts that logins have read are below the limit.
Counts ==
    \A r \in Requests :
        op[r].pc \in {"forget", "verify", "fail"} => op[r].attempt.failures < FailureLimit

\* Sessions are numbered as they are opened, and of those of a user all but the
\* last are over.
Numbered == \E n \in 0..MaxSessions : Opened = 1..n
LastOpen ==
    \A s, t \in Opened :
        s < t /\ sessions[s].user = sessions[t].user => sessions[s].state # "open"

IInv ==
    /\ TypeOK /\ Led /\ Managed /\ AuditTellsMembers
    /\ BlockedAtLimit /\ Counts /\ Numbered /\ LastOpen

-----------------------------------------------------------------------------
(* Types *)

\* Requests by their stage.
LEMMA RequestKinds ==
    ASSUME NEW q \in Request
    PROVE  /\ q.pc = "setup" => q \in Setup
           /\ q.pc \in {"forget", "verify", "fail"} => q \in Login
           /\ q.pc \in {"pass", "open"} => q \in Opening
           /\ q.pc \in {"change", "rehash"} => q \in Change
           /\ q.pc \in Actions \cup {"may create", "may reset", "may deactivate"} => q \in Managing
<1>1. q = Idle \/ q \in Setup \/ q \in Login \/ q \in Opening \/ q \in Change \/ q \in Managing
    BY DEF Request
<1>2. CASE q = Idle
    BY <1>2 DEF Idle, Actions
<1>3. CASE q \in Setup
    BY <1>3 DEF Setup, Actions
<1>4. CASE q \in Login
    BY <1>4 DEF Login, Actions
<1>5. CASE q \in Opening
    BY <1>5 DEF Opening, Actions
<1>6. CASE q \in Change
    BY <1>6 DEF Change, Actions
<1>7. CASE q \in Managing
    BY <1>7 DEF Managing, Actions
<1> QED BY <1>1, <1>2, <1>3, <1>4, <1>5, <1>6, <1>7

LEMMA KindsApart ==
    ASSUME NEW q
    PROVE  /\ q \in Setup => q.pc = "setup" /\ q.user \in Users
           /\ q \in Login => q.pc \in {"forget", "verify", "fail"} /\ q.name \in Names /\ q.attempt \in Attempt
           /\ q \in Opening => q.pc \in {"pass", "open"} /\ q.user \in Users
           /\ q \in Change => q.pc \in {"change", "rehash"} /\ q.user \in Users
           /\ q \in Managing => /\ q.pc \in {"create", "reset", "deactivate",
                                             "may create", "may reset", "may deactivate"}
                                /\ q.actor \in Users /\ q.user \in Users
BY DEF Setup, Login, Opening, Change, Managing, Actions

LEMMA RowTypes ==
    /\ NoAttempt \in Attempt
    /\ \A role \in Roles : NewUser(role) \in User
    /\ \A u \in Users : [user |-> u, state |-> "open"] \in Session
    /\ \A a \in Attempt : Counted(a) \in Attempt
BY DEF NoAttempt, Attempt, NewUser, Roles, User, Session, Counted

\* A user stays, with the same role.
Stay == \A u \in Users : Exists(u) => Exists(u)' /\ users'[u].role = users[u].role

LEMMA PasswordTypes ==
    ASSUME TypeOK, NEW u \in Users, Exists(u), SetsPassword(u)
    PROVE  /\ users' \in [Users -> User \cup {None}] /\ Stay
           /\ users'[u] = [users[u] EXCEPT !.password = @ + 1]
           /\ \A v \in Users : v # u => users'[v] = users[v]
<1>1. users[u] \in User
    BY DEF TypeOK, Exists
<1>2. [users[u] EXCEPT !.password = @ + 1] \in User
    BY <1>1 DEF User
<1>3. users' = [users EXCEPT ![u] = [users[u] EXCEPT !.password = @ + 1]]
    BY DEF SetsPassword
<1> QED BY <1>1, <1>2, <1>3, NoneIsDistinct DEF TypeOK, Stay, Exists, User

\* Whom the requests under way speak of.
LEMMA Speakers ==
    ASSUME TypeOK, NEW r \in Requests
    PROVE  /\ op[r].pc \in {"pass", "open", "change", "rehash"} =>
                op[r].user \in Users /\ Exists(op[r].user)
           /\ op[r].pc \in Actions \cup {"may create", "may reset", "may deactivate"} =>
                op[r].actor \in Users /\ Exists(op[r].actor) /\ op[r].user \in Users
           /\ op[r].pc \in {"reset", "deactivate", "may reset", "may deactivate"} => Exists(op[r].user)
           /\ op[r].pc = "setup" => op[r].user \in Users
           /\ op[r].pc \in {"forget", "verify", "fail"} => op[r].name \in Names /\ op[r].attempt \in Attempt
<1>1. op[r] \in Request
    BY DEF TypeOK
<1> QED BY <1>1, RequestKinds, KindsApart DEF TypeOK, Actions

LEMMA UsersStay == TypeOK /\ [Next]_vars => users' \in [Users -> User \cup {None}] /\ Stay
<1> SUFFICES ASSUME TypeOK, [Next]_vars PROVE users' \in [Users -> User \cup {None}] /\ Stay
    OBVIOUS
<1>1. CASE UNCHANGED users
    BY <1>1 DEF TypeOK, Stay, Exists
<1>2. ASSUME NEW r \in Requests, CreateInitialAdmin(r)
      PROVE  users' \in [Users -> User \cup {None}] /\ Stay
    BY <1>2, RowTypes, Speakers, NoneIsDistinct DEF CreateInitialAdmin, TypeOK, Stay, Exists, Roles
<1>3. ASSUME NEW r \in Requests, CreateMember(r)
      PROVE  users' \in [Users -> User \cup {None}] /\ Stay
    BY <1>3, RowTypes, Speakers, NoneIsDistinct DEF CreateMember, TypeOK, Stay, Exists, Roles
<1>4. ASSUME NEW r \in Requests, UpdateUserPasswordHash(r) \/ ResetPassword(r)
      PROVE  users' \in [Users -> User \cup {None}] /\ Stay
    BY <1>4, PasswordTypes, Speakers DEF UpdateUserPasswordHash, ResetPassword
<1>5. ASSUME NEW r \in Requests, DeactivateMember(r)
      PROVE  users' \in [Users -> User \cup {None}] /\ Stay
  <2>1. op[r].user \in Users /\ users[op[r].user] \in User
      BY <1>5, Speakers DEF DeactivateMember, TypeOK, Exists
  <2>2. users' = [users EXCEPT ![op[r].user] = [users[op[r].user] EXCEPT !.active = FALSE]]
      BY <1>5 DEF DeactivateMember
  <2>3. [users[op[r].user] EXCEPT !.active = FALSE] \in User
      BY <2>1 DEF User
  <2> QED BY <2>1, <2>2, <2>3, NoneIsDistinct DEF TypeOK, Stay, Exists, User
<1> QED BY <1>1, <1>2, <1>3, <1>4, <1>5 DEF Next, Serve, vars, GivesUp, BeginSetup, BeginLogin,
      ForgetAttempt, VerifyPassword, RecordLoginFailure, ClearLoginAttempt, RotateSession, BeginChange,
      FindUserPasswordHash, BeginManaging, RequirePermission, Revoke, Expire, Lapse

\* The sessions of u are over, the others are as they were.
LEMMA RevokedSessions ==
    ASSUME TypeOK, NEW u \in Users
    PROVE  /\ Revoked(u) \in [1..MaxSessions -> Session \cup {None}]
           /\ \A s \in 1..MaxSessions : Revoked(u)[s] # None <=> sessions[s] # None
           /\ \A s \in 1..MaxSessions : sessions[s] # None =>
                /\ Revoked(u)[s].user = sessions[s].user
                /\ Revoked(u)[s].state = IF sessions[s].user = u THEN "revoked"
                                         ELSE sessions[s].state
<1>1. ASSUME NEW s \in 1..MaxSessions
      PROVE  /\ Revoked(u)[s] \in Session \cup {None}
             /\ Revoked(u)[s] # None <=> sessions[s] # None
             /\ sessions[s] # None =>
                  /\ Revoked(u)[s].user = sessions[s].user
                  /\ Revoked(u)[s].state = IF sessions[s].user = u THEN "revoked"
                                           ELSE sessions[s].state
  <2>1. sessions[s] \in Session \cup {None}
      BY DEF TypeOK
  <2>2. CASE sessions[s] # None /\ sessions[s].user = u
    <3>1. Revoked(u)[s] = [sessions[s] EXCEPT !.state = "revoked"]
        BY <2>2 DEF Revoked
    <3>2. sessions[s] \in Session
        BY <2>1, <2>2
    <3> QED BY <2>2, <3>1, <3>2, NoneIsDistinct DEF Session
  <2>3. CASE ~(sessions[s] # None /\ sessions[s].user = u)
      BY <2>1, <2>3 DEF Revoked
  <2> QED BY <2>2, <2>3
<1> QED BY <1>1 DEF Revoked

\* The numbers of the sessions.
LEMMA NextNumber ==
    ASSUME TypeOK, NEW n \in 0..MaxSessions, Opened = 1..n
    PROVE  NextSession = n + 1
<1>1. Cardinality(1..n) = IF 1 > n THEN 0 ELSE n - 1 + 1
    BY FS_Interval
<1> QED BY <1>1, Limits DEF NextSession

\* What a login writes to the sessions.
LEMMA Rotated ==
    ASSUME TypeOK, NEW r \in Requests, RotateSession(r), NEW n \in 0..MaxSessions, Opened = 1..n
    PROVE  /\ n + 1 \in 1..MaxSessions /\ op[r].user \in Users /\ Exists(op[r].user)
           /\ sessions'[n + 1] = [user |-> op[r].user, state |-> "open"]
           /\ \A s \in 1..MaxSessions : s # n + 1 => sessions'[s] = Revoked(op[r].user)[s]
           /\ sessions' \in [1..MaxSessions -> Session \cup {None}]
<1>1. NextSession = n + 1 /\ n + 1 \in 1..MaxSessions
    BY NextNumber, Limits DEF RotateSession
<1>2. op[r].user \in Users /\ Exists(op[r].user)
    BY Speakers DEF RotateSession
<1>3. sessions' = [Revoked(op[r].user) EXCEPT ![n + 1] = [user |-> op[r].user, state |-> "open"]]
    BY <1>1 DEF RotateSession
<1>4. /\ Revoked(op[r].user) \in [1..MaxSessions -> Session \cup {None}]
      /\ [user |-> op[r].user, state |-> "open"] \in Session
    BY <1>2, RevokedSessions, RowTypes
<1> QED BY <1>1, <1>2, <1>3, <1>4

\* What a step does to the sessions there are: none goes, none changes its user,
\* and none opens again; only a login adds one.
Over ==
    /\ sessions' \in [1..MaxSessions -> Session \cup {None}]
    /\ Opened' = Opened
    /\ \A s \in Opened : /\ sessions'[s].user = sessions[s].user
                         /\ sessions'[s].state = "open" => sessions[s].state = "open"

LEMMA SessionSteps ==
    ASSUME TypeOK, [Next]_vars, \A r \in Requests : ~RotateSession(r)
    PROVE  Over
<1>1. CASE UNCHANGED sessions
    BY <1>1 DEF Over, Opened, TypeOK
<1>2. ASSUME NEW u \in Users, sessions' = Revoked(u)
      PROVE  Over
    BY <1>2, RevokedSessions DEF Over, Opened
<1>3. ASSUME NEW s \in Opened, NEW state \in {"revoked", "expired"},
             sessions' = [sessions EXCEPT ![s].state = state]
      PROVE  Over
  <2>1. s \in 1..MaxSessions /\ sessions[s] \in Session
      BY DEF Opened, TypeOK
  <2>2. [sessions[s] EXCEPT !.state = state] \in Session
      BY <2>1 DEF Session
  <2>3. /\ sessions'[s] = [sessions[s] EXCEPT !.state = state]
        /\ \A t \in 1..MaxSessions : t # s => sessions'[t] = sessions[t]
        /\ sessions' \in [1..MaxSessions -> Session \cup {None}]
      BY <1>3, <2>1, <2>2 DEF TypeOK
  <2>4. sessions'[s].user = sessions[s].user /\ sessions'[s].state # "open" /\ sessions'[s] # None
      BY <2>1, <2>2, <2>3, NoneIsDistinct DEF Session
  <2> QED BY <2>3, <2>4 DEF Over, Opened
<1>4. ASSUME NEW r \in Requests, ResetPassword(r) \/ DeactivateMember(r) PROVE Over
    BY <1>2, <1>4, Speakers DEF ResetPassword, DeactivateMember
<1>5. CASE Revoke \/ Expire
    BY <1>3, <1>5 DEF Revoke, Expire
<1> QED BY <1>1, <1>4, <1>5 DEF Next, Serve, vars, GivesUp, BeginSetup, CreateInitialAdmin, BeginLogin,
      ForgetAttempt, VerifyPassword, RecordLoginFailure, ClearLoginAttempt, BeginChange,
      FindUserPasswordHash, UpdateUserPasswordHash, BeginManaging, RequirePermission, CreateMember, Lapse

LEMMA SessionTypes ==
    ASSUME TypeOK, Numbered, [Next]_vars
    PROVE  /\ sessions' \in [1..MaxSessions -> Session \cup {None}]
           /\ \A s \in Opened' : sessions'[s].user \in Users /\ Exists(sessions'[s].user)
<1>1. \A s \in Opened : sessions[s].user \in Users /\ Exists(sessions[s].user)
    BY DEF TypeOK, Opened, Session
<1>2. ASSUME NEW r \in Requests, RotateSession(r)
      PROVE  /\ sessions' \in [1..MaxSessions -> Session \cup {None}]
             /\ \A s \in Opened' : sessions'[s].user \in Users /\ Exists(sessions'[s].user)
  <2>1. PICK n \in 0..MaxSessions : Opened = 1..n
      BY DEF Numbered
  <2> DEFINE u == op[r].user
  <2>2. /\ u \in Users /\ Exists(u) /\ sessions'[n + 1] = [user |-> u, state |-> "open"]
        /\ \A s \in 1..MaxSessions : s # n + 1 => sessions'[s] = Revoked(u)[s]
        /\ sessions' \in [1..MaxSessions -> Session \cup {None}]
      BY <1>2, <2>1, Rotated
  <2>3. \A s \in Opened' : s # n + 1 => s \in Opened /\ sessions'[s].user = sessions[s].user
      BY <2>2, RevokedSessions DEF Opened
  <2>4. ASSUME NEW s \in Opened'
        PROVE  sessions'[s].user \in Users /\ Exists(sessions'[s].user)
      BY <1>1, <2>2, <2>3, <2>4 DEF Exists
  <2> QED BY <2>2, <2>4
<1>3. CASE \A r \in Requests : ~RotateSession(r)
    BY <1>1, <1>3, SessionSteps DEF Over
<1> QED BY <1>2, <1>3

\* Whom a request speaks of, as TypeOK has it.
Sound(q) ==
    /\ q \in Opening \cup Change => Exists(q.user)
    /\ q \in Managing =>
         Exists(q.actor) /\ (q.pc \notin {"create", "may create"} => Exists(q.user))

\* The request a step leaves behind.
LEMMA Left ==
    ASSUME TypeOK, NEW r \in Requests, NEW q \in Request, Sound(q)', Stay, Becomes(r, q)
    PROVE  op' \in [Requests -> Request] /\ \A d \in Requests : Sound(op[d])'
<1>1. op'[r] = q /\ \A d \in Requests : d # r => op'[d] = op[d]
    BY DEF Becomes, TypeOK
<1>2. ASSUME NEW d \in Requests, d # r PROVE Sound(op[d])'
  <2>1. Sound(op[d])
      BY DEF TypeOK, Sound
  <2>2. op'[d] = op[d]
      BY <1>1, <1>2
  <2> QED BY <2>1, <2>2, KindsApart DEF Sound, Stay
<1> QED BY <1>1, <1>2 DEF Becomes, TypeOK, Sound

LEMMA IdleLeft ==
    ASSUME TypeOK, NEW r \in Requests, Stay, Ends(r)
    PROVE  op' \in [Requests -> Request] /\ \A d \in Requests : Sound(op[d])'
<1>1. Idle \in Request /\ Idle \notin Opening \cup Change /\ Idle \notin Managing
    BY KindsApart DEF Idle, Request
<1> QED BY <1>1, Left DEF Ends, Sound

\* Requests that speak of nobody, or of users there are.
LEMMA KnownLeft ==
    ASSUME TypeOK, Stay, NEW r \in Requests, NEW q, Becomes(r, q),
           \/ q \in Setup \/ q \in Login
           \/ q \in Opening \cup Change /\ Exists(q.user)
           \/ /\ q \in Managing /\ Exists(q.actor)
              /\ q.pc \notin {"create", "may create"} => Exists(q.user)
    PROVE  op' \in [Requests -> Request] /\ \A d \in Requests : Sound(op[d])'
<1>1. q \in Request
    BY DEF Request
<1>2. Sound(q)'
    BY KindsApart DEF Sound, Stay
<1> QED BY <1>1, <1>2, Left

LEMMA RequestTypes ==
    ASSUME TypeOK, [Next]_vars
    PROVE  op' \in [Requests -> Request] /\ \A d \in Requests : Sound(op[d])'
<1> DEFINE Fine == op' \in [Requests -> Request] /\ \A d \in Requests : Sound(op[d])'
<1>0. Stay
    BY UsersStay
<1>1. CASE UNCHANGED op
    BY <1>0, <1>1, KindsApart DEF TypeOK, Sound, Stay
<1>2. ASSUME NEW r \in Requests, BeginSetup(r) PROVE Fine
  <2>1. \A u \in Users : [pc |-> "setup", user |-> u] \in Setup
      BY DEF Setup
  <2> QED BY <1>0, <1>2, <2>1, KnownLeft DEF BeginSetup
<1>3. ASSUME NEW r \in Requests, BeginLogin(r) PROVE Fine
  <2>1. \A n \in Names, a \in Attempt, pc \in {"forget", "verify"} :
          [pc |-> pc, name |-> n, attempt |-> a] \in Login
      BY DEF Login
  <2>2. PICK n \in Names : Becomes(r, IF attempts[n].lapsed
                       THEN [pc |-> "forget", name |-> n, attempt |-> NoAttempt]
                       ELSE [pc |-> "verify", name |-> n, attempt |-> attempts[n]])
      BY <1>3 DEF BeginLogin
  <2>3. attempts[n] \in Attempt
      BY DEF TypeOK
  <2> QED BY <1>0, <2>1, <2>2, <2>3, RowTypes, KnownLeft
<1>4. ASSUME NEW r \in Requests, ForgetAttempt(r) \/ VerifyPassword(r) PROVE Fine
  <2>1. op[r] \in Login
      BY <1>4, RequestKinds DEF ForgetAttempt, VerifyPassword, TypeOK
  <2>2. \A pc \in {"verify", "fail"} : [op[r] EXCEPT !.pc = pc] \in Login
      BY <2>1 DEF Login
  <2>3. \A u \in Users : [pc |-> "pass", user |-> u] \in Opening
      BY DEF Opening
  <2> QED BY <1>0, <1>4, <2>2, <2>3, KnownLeft DEF ForgetAttempt, VerifyPassword, Active
<1>5. ASSUME NEW r \in Requests, ClearLoginAttempt(r) PROVE Fine
  <2>1. op[r] \in Opening /\ Exists(op[r].user)
      BY <1>5, RequestKinds DEF ClearLoginAttempt, TypeOK
  <2>2. [op[r] EXCEPT !.pc = "open"] \in Opening /\ [op[r] EXCEPT !.pc = "open"].user = op[r].user
      BY <2>1 DEF Opening
  <2> QED BY <1>0, <1>5, <2>1, <2>2, KnownLeft DEF ClearLoginAttempt
<1>6. ASSUME NEW r \in Requests, BeginChange(r) PROVE Fine
  <2>1. PICK s \in Opened : Active(sessions[s].user) /\ Becomes(r, [pc |-> "change", user |-> sessions[s].user])
      BY <1>6 DEF BeginChange, Authenticates
  <2>2. sessions[s].user \in Users
      BY DEF TypeOK, Opened, Session
  <2>3. [pc |-> "change", user |-> sessions[s].user] \in Change
      BY <2>2 DEF Change
  <2> QED BY <1>0, <2>1, <2>3, KnownLeft DEF Active
<1>7. ASSUME NEW r \in Requests, FindUserPasswordHash(r) PROVE Fine
  <2>1. op[r] \in Change /\ Exists(op[r].user)
      BY <1>7, RequestKinds DEF FindUserPasswordHash, TypeOK
  <2>2. [op[r] EXCEPT !.pc = "rehash"] \in Change /\ [op[r] EXCEPT !.pc = "rehash"].user = op[r].user
      BY <2>1 DEF Change
  <2>3. CASE Active(op[r].user)
      BY <1>0, <1>7, <2>1, <2>2, <2>3, KnownLeft DEF FindUserPasswordHash
  <2>4. CASE ~Active(op[r].user)
      BY <1>0, <1>7, <2>4, IdleLeft DEF FindUserPasswordHash, Ends
  <2> QED BY <2>3, <2>4
<1>8. ASSUME NEW r \in Requests, BeginManaging(r) PROVE Fine
  <2>1. PICK s \in Opened, u \in Users, action \in Actions :
          /\ Active(sessions[s].user) /\ (action # "create" => Exists(u))
          /\ Becomes(r, [pc |-> action, actor |-> sessions[s].user, user |-> u])
      BY <1>8 DEF BeginManaging, Authenticates
  <2>2. sessions[s].user \in Users
      BY DEF TypeOK, Opened, Session
  <2> DEFINE q == [pc |-> action, actor |-> sessions[s].user, user |-> u]
  <2>3. q \in Managing /\ q.pc = action /\ q.actor = sessions[s].user /\ q.user = u
      BY <2>2 DEF Managing
  <2> HIDE DEF q
  <2>4. Becomes(r, q)
      BY <2>1 DEF q
  <2> QED BY <1>0, <2>1, <2>3, <2>4, KnownLeft DEF Active
<1>9. ASSUME NEW r \in Requests, RequirePermission(r) PROVE Fine
  <2>1. op[r] \in Managing /\ op[r].pc \in Actions
      BY <1>9, RequestKinds DEF RequirePermission, TypeOK
  <2> DEFINE q == [op[r] EXCEPT !.pc = May(op[r].pc)]
  <2>2. May(op[r].pc) = "may create" <=> op[r].pc = "create"
      BY <2>1 DEF Actions, May
  <2>3. May(op[r].pc) \in {"may create", "may reset", "may deactivate"}
      BY <2>1 DEF Actions, May
  <2>4. q \in Managing /\ q.pc = May(op[r].pc) /\ q.actor = op[r].actor /\ q.user = op[r].user
      BY <2>1, <2>3 DEF Managing
  <2>5. Exists(op[r].actor) /\ (op[r].pc # "create" => Exists(op[r].user))
      BY <2>1 DEF TypeOK, Actions
  <2>6. Becomes(r, q) \/ Ends(r)
      BY <1>9 DEF RequirePermission, Ends
  <2> HIDE DEF q
  <2>7. q.pc \notin {"create", "may create"} => Exists(q.user)
      BY <2>2, <2>3, <2>4, <2>5
  <2>8. Becomes(r, q) => Fine
      BY <1>0, <2>4, <2>5, <2>7, KnownLeft
  <2> QED BY <1>0, <2>6, <2>8, IdleLeft
<1> QED BY <1>0, <1>1, <1>2, <1>3, <1>4, <1>5, <1>6, <1>7, <1>8, <1>9, IdleLeft DEF Next, Serve, vars,
      GivesUp, CreateInitialAdmin, RecordLoginFailure, RotateSession, UpdateUserPasswordHash,
      CreateMember, ResetPassword, DeactivateMember, Revoke, Expire, Lapse

\* The number an audit event adds one to.
LEMMA AuditStep ==
    ASSUME TypeOK, NEW a \in Actions, NEW u \in Users, Audits(a, u)
    PROVE  /\ audit' \in [Actions -> [Users -> Nat]]
           /\ \A b \in Actions, v \in Users :
                audit'[b][v] = IF b = a /\ v = u THEN audit[b][v] + 1 ELSE audit[b][v]
<1>1. audit[a] \in [Users -> Nat]
    BY DEF TypeOK
<1>2. audit' = [audit EXCEPT ![a] = [audit[a] EXCEPT ![u] = audit[a][u] + 1]]
    BY DEF Audits
<1>3. [audit[a] EXCEPT ![u] = audit[a][u] + 1] \in [Users -> Nat]
    BY <1>1
<1>4. audit' \in [Actions -> [Users -> Nat]]
    BY <1>2, <1>3 DEF TypeOK
<1>5. audit'[a] = [audit[a] EXCEPT ![u] = audit[a][u] + 1] /\ \A b \in Actions : b # a => audit'[b] = audit[b]
    BY <1>2 DEF TypeOK
<1> QED BY <1>1, <1>4, <1>5

LEMMA CountTypes ==
    ASSUME TypeOK, [Next]_vars
    PROVE  attempts' \in [Names -> Attempt] /\ audit' \in [Actions -> [Users -> Nat]]
<1>1. CASE UNCHANGED <<attempts, audit>>
    BY <1>1 DEF TypeOK
<1>2. ASSUME NEW r \in Requests, RecordLoginFailure(r)
      PROVE  attempts' \in [Names -> Attempt] /\ audit' \in [Actions -> [Users -> Nat]]
    BY <1>2, Speakers, RowTypes DEF RecordLoginFailure, TypeOK
<1>3. ASSUME NEW r \in Requests, ForgetAttempt(r) \/ ClearLoginAttempt(r)
      PROVE  attempts' \in [Names -> Attempt] /\ audit' \in [Actions -> [Users -> Nat]]
    BY <1>3, RowTypes DEF ForgetAttempt, ClearLoginAttempt, Forgotten, TypeOK
<1>4. CASE Lapse
  <2>1. \A a \in Attempt : [a EXCEPT !.lapsed = TRUE] \in Attempt
      BY DEF Attempt
  <2>2. PICK n \in Names : attempts' = [attempts EXCEPT ![n] = [attempts[n] EXCEPT !.lapsed = TRUE]]
      BY <1>4 DEF Lapse
  <2> QED BY <1>4, <2>1, <2>2 DEF Lapse, TypeOK
<1>5. ASSUME NEW r \in Requests, CreateMember(r) \/ ResetPassword(r) \/ DeactivateMember(r)
      PROVE  attempts' \in [Names -> Attempt] /\ audit' \in [Actions -> [Users -> Nat]]
  <2>1. op[r].user \in Users
      BY <1>5, Speakers DEF CreateMember, ResetPassword, DeactivateMember
  <2>2. \A a \in Actions : Audits(a, op[r].user) => audit' \in [Actions -> [Users -> Nat]]
      BY <2>1, AuditStep
  <2> QED BY <1>5, <2>2 DEF CreateMember, ResetPassword, DeactivateMember, Actions, TypeOK
<1> QED BY <1>1, <1>2, <1>3, <1>4, <1>5 DEF Next, Serve, vars, GivesUp, BeginSetup, CreateInitialAdmin,
      BeginLogin, VerifyPassword, RotateSession, BeginChange, FindUserPasswordHash,
      UpdateUserPasswordHash, BeginManaging, RequirePermission, Revoke, Expire

LEMMA NextTypes == TypeOK /\ Numbered /\ [Next]_vars => TypeOK'
<1> SUFFICES ASSUME TypeOK, Numbered, [Next]_vars PROVE TypeOK'
    OBVIOUS
<1>1. \A s \in Opened' : Exists(sessions[s].user)'
    BY SessionTypes, UsersStay DEF Stay, Exists
<1>2. \A r \in Requests : Sound(op[r])'
    BY RequestTypes
<1> QED BY <1>1, <1>2, UsersStay, SessionTypes, CountTypes, RequestTypes DEF TypeOK, Sound

-----------------------------------------------------------------------------
(* Sessions *)

LEMMA NextSessions ==
    ASSUME TypeOK, Numbered, LastOpen, [Next]_vars
    PROVE  Numbered' /\ LastOpen'
<1>1. CASE \A r \in Requests : ~RotateSession(r)
  <2>1. Over
      BY <1>1, SessionSteps
  <2>2. Numbered'
      BY <2>1 DEF Over, Numbered
  <2>3. LastOpen'
      BY <2>1 DEF Over, LastOpen
  <2> QED BY <2>2, <2>3
<1>2. ASSUME NEW r \in Requests, RotateSession(r) PROVE Numbered' /\ LastOpen'
  <2>1. PICK n \in 0..MaxSessions : Opened = 1..n
      BY DEF Numbered
  <2> DEFINE u == op[r].user
  <2>2. /\ n + 1 \in 1..MaxSessions /\ u \in Users
        /\ sessions'[n + 1] = [user |-> u, state |-> "open"]
        /\ \A s \in 1..MaxSessions : s # n + 1 => sessions'[s] = Revoked(u)[s]
        /\ sessions' \in [1..MaxSessions -> Session \cup {None}]
      BY <1>2, <2>1, Rotated
  <2>3. sessions'[n + 1] # None /\ sessions'[n + 1].user = u
      BY <2>2, RowTypes, NoneIsDistinct
  <2>4. Opened' = 1..(n + 1)
    <3>1. \A s \in 1..MaxSessions : s # n + 1 => (s \in Opened' <=> s \in Opened)
        BY <2>2, RevokedSessions DEF Opened
    <3>2. n + 1 \in Opened' /\ Opened' \subseteq 1..MaxSessions
        BY <2>2, <2>3 DEF Opened
    <3>3. 1..(n + 1) \subseteq 1..MaxSessions /\ \A s \in 1..(n + 1) : s = n + 1 \/ s \in 1..n
        BY <2>2, Limits
    <3>4. 1..n \subseteq 1..(n + 1) /\ n + 1 \in 1..(n + 1)
        BY <2>2
    <3>5. \A s \in 1..MaxSessions : s \in Opened' <=> s \in 1..(n + 1)
        BY <2>1, <3>1, <3>2, <3>3, <3>4
    <3> QED BY <3>2, <3>3, <3>5
  <2>5. Numbered'
      BY <2>2, <2>4 DEF Numbered
  <2>6. \A s \in 1..n : /\ sessions'[s].user = sessions[s].user
                        /\ sessions'[s].state = IF sessions[s].user = u THEN "revoked"
                                                ELSE sessions[s].state
    <3>1. \A s \in 1..n : s \in 1..MaxSessions /\ s # n + 1 /\ sessions[s] # None
        BY <2>1 DEF Opened
    <3> QED BY <2>2, <3>1, RevokedSessions
  <2>7. LastOpen'
    <3> SUFFICES ASSUME NEW s \in 1..(n + 1), NEW t \in 1..(n + 1), s < t,
                        sessions'[s].user = sessions'[t].user
                 PROVE  sessions'[s].state # "open"
        BY <2>4 DEF LastOpen
    <3>1. s \in 1..n /\ (t \in 1..n \/ t = n + 1)
        OBVIOUS
    <3>2. CASE t = n + 1
        BY <2>3, <2>6, <3>1, <3>2
    <3>3. CASE t \in 1..n
        BY <2>1, <2>6, <3>1, <3>3 DEF LastOpen
    <3> QED BY <3>1, <3>2, <3>3
  <2> QED BY <2>5, <2>7
<1> QED BY <1>1, <1>2

-----------------------------------------------------------------------------
(* Counts of failures *)

LEMMA NextCounts ==
    ASSUME TypeOK, BlockedAtLimit, Counts, [Next]_vars
    PROVE  BlockedAtLimit' /\ Counts'
<1>1. CASE UNCHANGED <<attempts, op>>
    BY <1>1 DEF BlockedAtLimit, Counts
<1>2. \A r \in Requests : Ends(r) => Counts'
  <2> SUFFICES ASSUME NEW r \in Requests, Ends(r) PROVE Counts'
      OBVIOUS
  <2>1. op'[r].pc = "idle" /\ \A d \in Requests : d # r => op'[d] = op[d]
      BY DEF Ends, Becomes, Idle, TypeOK
  <2> QED BY <2>1 DEF Counts
<1>3. ASSUME NEW r \in Requests, NEW q, Becomes(r, q),
             q.pc \notin {"forget", "verify", "fail"} \/ q.attempt.failures < FailureLimit
      PROVE  Counts'
    BY <1>3 DEF Becomes, Counts, TypeOK
<1>4. ASSUME NEW n \in Names, Forgotten(n) PROVE BlockedAtLimit'
  <2>1. attempts'[n] = NoAttempt /\ \A m \in Names : m # n => attempts'[m] = attempts[m]
      BY <1>4 DEF Forgotten, TypeOK
  <2>2. NoAttempt.failures = 0 /\ ~NoAttempt.blocked
      BY DEF NoAttempt
  <2> QED BY <2>1, <2>2, Limits DEF BlockedAtLimit
<1>5. ASSUME NEW r \in Requests, BeginLogin(r) PROVE BlockedAtLimit' /\ Counts'
  <2>1. PICK n \in Names :
          /\ ~(attempts[n].blocked /\ ~attempts[n].lapsed)
          /\ Becomes(r, IF attempts[n].lapsed
                       THEN [pc |-> "forget", name |-> n, attempt |-> NoAttempt]
                       ELSE [pc |-> "verify", name |-> n, attempt |-> attempts[n]])
      BY <1>5 DEF BeginLogin
  <2>2. attempts[n] \in Attempt
      BY DEF TypeOK
  <2>3. ~attempts[n].lapsed => attempts[n].failures < FailureLimit
      BY <2>1, <2>2, Limits DEF BlockedAtLimit, Attempt
  <2>4. NoAttempt.failures < FailureLimit
      BY Limits DEF NoAttempt
  <2> QED BY <1>3, <1>5, <2>1, <2>3, <2>4 DEF BeginLogin, BlockedAtLimit
<1>6. ASSUME NEW r \in Requests, ForgetAttempt(r) \/ VerifyPassword(r) PROVE BlockedAtLimit' /\ Counts'
  <2>1. op[r] \in Login /\ op[r].name \in Names /\ op[r].attempt.failures < FailureLimit
      BY <1>6, RequestKinds, Speakers DEF ForgetAttempt, VerifyPassword, Counts, TypeOK
  <2>2. \A pc \in {"verify", "fail"} : [op[r] EXCEPT !.pc = pc].attempt = op[r].attempt
      BY <2>1 DEF Login
  <2>3. Counts'
      BY <1>3, <1>6, <2>1, <2>2 DEF ForgetAttempt, VerifyPassword
  <2>4. BlockedAtLimit'
      BY <1>4, <1>6, <2>1 DEF ForgetAttempt, VerifyPassword, BlockedAtLimit
  <2> QED BY <2>3, <2>4
<1>7. ASSUME NEW r \in Requests, RecordLoginFailure(r) PROVE BlockedAtLimit' /\ Counts'
  <2> DEFINE a == op[r].attempt
  <2>1. op[r].name \in Names /\ a \in Attempt /\ a.failures < FailureLimit
      BY <1>7, Speakers DEF RecordLoginFailure, Counts
  <2>2. /\ Counted(a).failures <= FailureLimit
        /\ Counted(a).blocked <=> Counted(a).failures = FailureLimit
    <3>1. /\ Counted(a).failures = a.failures + 1
          /\ Counted(a).blocked = (a.failures + 1 >= FailureLimit)
        BY DEF Counted
    <3>2. a.failures \in Nat
        BY <2>1 DEF Attempt
    <3>3. /\ a.failures + 1 <= FailureLimit
          /\ (a.failures + 1 >= FailureLimit) <=> (a.failures + 1 = FailureLimit)
        BY <2>1, <3>2, Limits
    <3> QED BY <3>1, <3>3, Zenon
  <2>3. attempts' = [attempts EXCEPT ![op[r].name] = Counted(a)]
      BY <1>7 DEF RecordLoginFailure
  <2>4. BlockedAtLimit'
      BY <2>1, <2>2, <2>3 DEF BlockedAtLimit, TypeOK
  <2> QED BY <1>2, <1>7, <2>4 DEF RecordLoginFailure
<1>8. ASSUME NEW r \in Requests, ClearLoginAttempt(r) PROVE BlockedAtLimit' /\ Counts'
  <2>1. op[r].user \in Users /\ NameOf[op[r].user] \in Names /\ op[r] \in Opening
      BY <1>8, Speakers, UsersAreNamed, RequestKinds DEF ClearLoginAttempt, TypeOK
  <2>2. [op[r] EXCEPT !.pc = "open"].pc = "open"
      BY <2>1 DEF Opening
  <2> QED BY <1>3, <1>4, <1>8, <2>1, <2>2 DEF ClearLoginAttempt
<1>9. CASE Lapse
  <2>1. PICK n \in Names : attempts' = [attempts EXCEPT ![n] = [attempts[n] EXCEPT !.lapsed = TRUE]]
      BY <1>9 DEF Lapse
  <2>2. attempts[n] \in Attempt
      BY DEF TypeOK
  <2>3. /\ [attempts[n] EXCEPT !.lapsed = TRUE].failures = attempts[n].failures
        /\ [attempts[n] EXCEPT !.lapsed = TRUE].blocked = attempts[n].blocked
      BY <2>2 DEF Attempt
  <2>4. /\ attempts'[n].failures = attempts[n].failures /\ attempts'[n].blocked = attempts[n].blocked
        /\ \A m \in Names : m # n => attempts'[m] = attempts[m]
      BY <2>1, <2>3 DEF TypeOK
  <2>5. BlockedAtLimit'
      BY <2>4 DEF BlockedAtLimit
  <2> QED BY <1>9, <2>5 DEF Lapse, Counts
<1>10. ASSUME NEW r \in Requests, BeginSetup(r) \/ BeginChange(r) \/ FindUserPasswordHash(r)
                                  \/ BeginManaging(r) \/ RequirePermission(r)
       PROVE  Counts' /\ UNCHANGED attempts
  <2>1. CASE BeginSetup(r) \/ BeginChange(r)
      BY <1>3, <2>1 DEF BeginSetup, BeginChange
  <2>2. CASE BeginManaging(r)
      BY <1>3, <2>2 DEF BeginManaging, Actions
  <2>3. CASE FindUserPasswordHash(r)
    <3>1. op[r] \in Change
        BY <2>3, RequestKinds DEF FindUserPasswordHash, TypeOK
    <3>2. [op[r] EXCEPT !.pc = "rehash"].pc = "rehash"
        BY <3>1 DEF Change
    <3> QED BY <1>2, <1>3, <2>3, <3>2 DEF FindUserPasswordHash, Ends
  <2>4. CASE RequirePermission(r)
    <3>1. op[r] \in Managing /\ op[r].pc \in Actions
        BY <2>4, RequestKinds DEF RequirePermission, TypeOK
    <3>2. [op[r] EXCEPT !.pc = May(op[r].pc)].pc \notin {"forget", "verify", "fail"}
        BY <3>1 DEF Managing, Actions, May
    <3> QED BY <1>2, <1>3, <2>4, <3>2 DEF RequirePermission, Ends
  <2> QED BY <1>10, <2>1, <2>2, <2>3, <2>4
<1>11. UNCHANGED attempts => BlockedAtLimit'
    BY DEF BlockedAtLimit
<1> QED BY <1>1, <1>2, <1>5, <1>6, <1>7, <1>8, <1>9, <1>10, <1>11 DEF Next, Serve, vars, GivesUp,
      CreateInitialAdmin, RotateSession, UpdateUserPasswordHash, CreateMember, ResetPassword,
      DeactivateMember, Revoke, Expire

-----------------------------------------------------------------------------
(* Members *)

\* Roles do not change, and permission was asked for what is about to be done.
LEMMA NextManaged ==
    ASSUME TypeOK, Managed, [Next]_vars
    PROVE  Managed'
<1>0. Stay
    BY UsersStay
<1>1. ASSUME NEW d \in Requests, op'[d] = op[d] \/ op'[d].pc \notin {"may reset", "may deactivate"},
             op'[d].pc \in {"may reset", "may deactivate"}
      PROVE  users'[op'[d].user].role = "member"
  <2>1. op'[d] = op[d] /\ op[d].user \in Users /\ Exists(op[d].user)
      BY <1>1, Speakers
  <2> QED BY <1>0, <1>1, <2>1 DEF Managed, Stay
<1>2. CASE UNCHANGED op
    BY <1>1, <1>2 DEF Managed
<1>3. ASSUME NEW r \in Requests, NEW q, Becomes(r, q), q.pc \notin {"may reset", "may deactivate"}
      PROVE  Managed'
    BY <1>1, <1>3 DEF Becomes, Managed, TypeOK
<1>4. \A r \in Requests : Ends(r) => Managed'
    BY <1>3 DEF Ends, Idle
<1>5. ASSUME NEW r \in Requests, RequirePermission(r) PROVE Managed'
  <2>1. op[r] \in Managing /\ op[r].pc \in Actions /\ op[r].user \in Users
      BY <1>5, RequestKinds, Speakers DEF RequirePermission, TypeOK
  <2> DEFINE q == [op[r] EXCEPT !.pc = May(op[r].pc)]
  <2>2. q.pc = May(op[r].pc) /\ q.user = op[r].user
      BY <2>1 DEF Managing
  <2>3. May(op[r].pc) = "may create" <=> op[r].pc = "create"
      BY <2>1 DEF Actions, May
  <2>4. CASE Ends(r)
      BY <1>4, <2>4
  <2>5. CASE Permitted(op[r].actor, op[r].user, op[r].pc) /\ Becomes(r, q)
    <3>1. q.pc = "may create" \/ users[q.user].role = "member"
        BY <2>2, <2>3, <2>5 DEF Permitted
    <3>2. q.pc # "may create" => Exists(op[r].user)
        BY <2>1, <2>2, <2>3, Speakers DEF Actions
    <3>3. users' = users
        BY <1>5 DEF RequirePermission
    <3> HIDE DEF q
    <3>4. op'[r] = q /\ \A d \in Requests : d # r => op'[d] = op[d]
        BY <2>5 DEF Becomes, TypeOK
    <3>5. ASSUME NEW d \in Requests, op'[d].pc \in {"may reset", "may deactivate"}
          PROVE  users'[op'[d].user].role = "member"
        BY <1>1, <3>1, <3>3, <3>4, <3>5
    <3> QED BY <3>5 DEF Managed
  <2> QED BY <1>5, <2>4, <2>5 DEF RequirePermission, Ends
<1>6. ASSUME NEW r \in Requests, NEW pc \in {"verify", "fail", "open", "rehash"},
             op[r] \in Login \cup Opening \cup Change, Becomes(r, [op[r] EXCEPT !.pc = pc])
      PROVE  Managed'
  <2>1. [op[r] EXCEPT !.pc = pc].pc = pc
      BY <1>6 DEF Login, Opening, Change
  <2> QED BY <1>3, <1>6, <2>1
<1>7. ASSUME NEW r \in Requests,
             ForgetAttempt(r) \/ VerifyPassword(r) \/ ClearLoginAttempt(r) \/ FindUserPasswordHash(r)
      PROVE  Managed'
  <2>1. op[r] \in Login \cup Opening \cup Change
      BY <1>7, RequestKinds DEF ForgetAttempt, VerifyPassword, ClearLoginAttempt,
           FindUserPasswordHash, TypeOK
  <2> QED BY <1>3, <1>4, <1>6, <1>7, <2>1 DEF ForgetAttempt, VerifyPassword, ClearLoginAttempt,
           FindUserPasswordHash, Ends
<1>8. ASSUME NEW r \in Requests, BeginSetup(r) \/ BeginLogin(r) \/ BeginChange(r) \/ BeginManaging(r)
      PROVE  Managed'
    BY <1>3, <1>8 DEF BeginSetup, BeginLogin, BeginChange, BeginManaging, Actions
<1> QED BY <1>2, <1>4, <1>5, <1>7, <1>8 DEF Next, Serve, vars, GivesUp, CreateInitialAdmin,
      RecordLoginFailure, RotateSession, UpdateUserPasswordHash, CreateMember, ResetPassword,
      DeactivateMember, Revoke, Expire, Lapse

\* The ways a step changes the users and their audit trail.
Kept == UNCHANGED <<users, audit>>
First(u) ==
    /\ \A v \in Users : ~Exists(v)
    /\ users' = [users EXCEPT ![u] = NewUser("admin")] /\ UNCHANGED audit
Joins(u) ==
    /\ ~Exists(u) /\ \E v \in Users : Exists(v)
    /\ users' = [users EXCEPT ![u] = NewUser("member")] /\ Audits("create", u)
Rehashes(u) == Exists(u) /\ SetsPassword(u) /\ (Audits("reset", u) \/ UNCHANGED audit)
Leaves(u) ==
    /\ Exists(u) /\ users[u].role = "member" /\ users[u].active
    /\ users' = [users EXCEPT ![u].active = FALSE] /\ Audits("deactivate", u)

LEMMA UserSteps ==
    ASSUME TypeOK, Managed, [Next]_vars
    PROVE  Kept \/ \E u \in Users : First(u) \/ Joins(u) \/ Rehashes(u) \/ Leaves(u)
<1>1. ASSUME NEW r \in Requests, CreateInitialAdmin(r)
      PROVE  Kept \/ \E u \in Users : First(u)
    BY <1>1, Speakers DEF CreateInitialAdmin, First, Kept
<1>2. ASSUME NEW r \in Requests, CreateMember(r)
      PROVE  \E u \in Users : Joins(u)
    BY <1>2, Speakers DEF CreateMember, Joins
<1>3. ASSUME NEW r \in Requests, UpdateUserPasswordHash(r) \/ ResetPassword(r)
      PROVE  \E u \in Users : Rehashes(u)
    BY <1>3, Speakers DEF UpdateUserPasswordHash, ResetPassword, Rehashes
<1>4. ASSUME NEW r \in Requests, DeactivateMember(r)
      PROVE  \E u \in Users : Leaves(u)
    BY <1>4, Speakers DEF DeactivateMember, Leaves, Managed
<1>5. UNCHANGED vars => Kept
    BY DEF vars, Kept
<1> QED BY <1>1, <1>2, <1>3, <1>4, <1>5 DEF Next, Serve, GivesUp, Kept, BeginSetup, BeginLogin,
      ForgetAttempt, VerifyPassword, RecordLoginFailure, ClearLoginAttempt, RotateSession, BeginChange,
      FindUserPasswordHash, BeginManaging, RequirePermission, Revoke, Expire, Lapse

\* A user whose row a step writes, and the others.
LEMMA Written ==
    ASSUME TypeOK, NEW u \in Users, First(u) \/ Joins(u) \/ Rehashes(u) \/ Leaves(u)
    PROVE  /\ \A v \in Users : v # u => users'[v] = users[v]
           /\ First(u) => users'[u] = NewUser("admin")
           /\ Joins(u) => users'[u] = NewUser("member")
           /\ Rehashes(u) => /\ Exists(u)' /\ users'[u].role = users[u].role
                             /\ users'[u].active = users[u].active
                             /\ users'[u].password = users[u].password + 1
           /\ Leaves(u) => /\ Exists(u)' /\ users'[u].role = "member" /\ users'[u].active = FALSE
                           /\ users'[u].password = users[u].password
<1>1. CASE First(u)
    BY <1>1 DEF First, Joins, Rehashes, Leaves, TypeOK
<1>2. CASE Joins(u)
    BY <1>2 DEF First, Joins, Rehashes, Leaves, TypeOK
<1>3. Exists(u) => users[u] \in User
    BY DEF TypeOK, Exists
<1>4. CASE Rehashes(u)
  <2>1. /\ users'[u] = [users[u] EXCEPT !.password = @ + 1]
        /\ \A v \in Users : v # u => users'[v] = users[v]
      BY <1>4, PasswordTypes DEF Rehashes
  <2>2. Exists(u)'
      BY <1>4, PasswordTypes DEF Rehashes, Stay
  <2>3. /\ users'[u].role = users[u].role /\ users'[u].active = users[u].active
        /\ users'[u].password = users[u].password + 1
      BY <1>3, <1>4, <2>1 DEF Rehashes, User
  <2>4. ~First(u) /\ ~Joins(u)
      BY <1>4 DEF Rehashes, First, Joins
  <2>5. ~Leaves(u)
    <3>1. SUFFICES ASSUME Leaves(u) PROVE FALSE
        OBVIOUS
    <3>2. users[u] \in User /\ users' = [users EXCEPT ![u] = [users[u] EXCEPT !.active = FALSE]]
        BY <1>3, <3>1 DEF Leaves
    <3>3. users'[u].password = users[u].password
        BY <3>2 DEF TypeOK, User
    <3>4. users[u].password \in Nat
        BY <3>2 DEF User
    <3> QED BY <2>3, <3>3, <3>4
  <2> QED BY <2>1, <2>2, <2>3, <2>4, <2>5
<1>5. CASE Leaves(u)
  <2>1. users' = [users EXCEPT ![u] = [users[u] EXCEPT !.active = FALSE]] /\ users[u] \in User
      BY <1>3, <1>5 DEF Leaves
  <2>2. [users[u] EXCEPT !.active = FALSE] \in User
      BY <2>1 DEF User
  <2>3. users'[u] = [users[u] EXCEPT !.active = FALSE] /\ \A v \in Users : v # u => users'[v] = users[v]
      BY <2>1 DEF TypeOK
  <2>4. /\ Exists(u)' /\ users'[u].role = "member" /\ users'[u].active = FALSE
        /\ users'[u].password = users[u].password
      BY <1>5, <2>1, <2>2, <2>3, NoneIsDistinct DEF Leaves, Exists, User
  <2>5. ~First(u) /\ ~Joins(u) /\ ~Rehashes(u)
      BY <1>4, <1>5, <2>1, <2>4 DEF First, Joins, Leaves, Rehashes, User
  <2> QED BY <2>3, <2>4, <2>5
<1> QED BY <1>1, <1>2, <1>4, <1>5

\* A step leads the household on, and the trail tells of it.
LEMMA NextLed ==
    ASSUME TypeOK, Led, AuditTellsMembers, Managed, [Next]_vars
    PROVE  Led' /\ AuditTellsMembers'
<1>1. CASE Kept
    BY <1>1 DEF Kept, Led, AuditTellsMembers, Exists, Admins
<1>2. ASSUME NEW u \in Users, First(u) PROVE Led' /\ AuditTellsMembers'
  <2>1. /\ users'[u] = NewUser("admin") /\ UNCHANGED audit
        /\ \A v \in Users : ~Exists(v) /\ (v # u => users'[v] = users[v])
      BY <1>2, Written DEF First
  <2>2. NewUser("admin") # None
      BY RowTypes, NoneIsDistinct DEF Roles
  <2>3. /\ NewUser("admin").role = "admin" /\ NewUser("admin").active = TRUE
        /\ NewUser("admin").password = 1
      BY DEF NewUser
  <2>4. Admins' = {u} /\ users'[u].active
      BY <2>1, <2>2, <2>3 DEF Admins, Exists
  <2>5. Led'
      BY <2>4 DEF Led
  <2>6. AuditTellsMembers'
    <3>1. ASSUME NEW v \in Users
          PROVE  audit["create"][v] = 0 /\ audit["deactivate"][v] = 0 /\ audit["reset"][v] < 1
        BY <2>1 DEF AuditTellsMembers
    <3> QED BY <2>1, <2>2, <2>3, <3>1 DEF AuditTellsMembers, Exists
  <2> QED BY <2>5, <2>6
<1>3. ASSUME NEW u \in Users, Joins(u) PROVE Led' /\ AuditTellsMembers'
  <2>1. /\ users'[u] = NewUser("member") /\ ~Exists(u) /\ Audits("create", u)
        /\ \A v \in Users : v # u => users'[v] = users[v]
      BY <1>3, Written DEF Joins
  <2>2. NewUser("member") # None
      BY RowTypes, NoneIsDistinct DEF Roles
  <2>3. /\ NewUser("member").role = "member" /\ NewUser("member").active = TRUE
        /\ NewUser("member").password = 1
      BY DEF NewUser
  <2>4. Admins' = Admins
      BY <2>1, <2>2, <2>3 DEF Admins, Exists
  <2>5. Led'
      BY <1>3, <2>1, <2>4 DEF Joins, Led, Admins, Exists
  <2>6. \A b \in Actions, v \in Users :
          audit'[b][v] = IF b = "create" /\ v = u THEN audit[b][v] + 1 ELSE audit[b][v]
      BY <2>1, AuditStep DEF Actions
  <2>7. AuditTellsMembers'
      BY <2>1, <2>2, <2>3, <2>6 DEF AuditTellsMembers, Exists, Actions
  <2> QED BY <2>5, <2>7
<1>4. ASSUME NEW u \in Users, Rehashes(u) PROVE Led' /\ AuditTellsMembers'
  <2>1. /\ Exists(u) /\ Exists(u)' /\ users'[u].role = users[u].role
        /\ users'[u].active = users[u].active
        /\ users'[u].password = users[u].password + 1
        /\ \A v \in Users : v # u => users'[v] = users[v]
      BY <1>4, Written DEF Rehashes
  <2>2. Admins' = Admins
      BY <2>1 DEF Admins, Exists
  <2>3. Led'
      BY <2>1, <2>2 DEF Led, Admins, Exists
  <2>4. users[u].password \in Nat /\ \A v \in Users : audit["reset"][v] \in Nat
      BY <2>1 DEF TypeOK, Exists, User, Actions
  <2>5. \/ UNCHANGED audit
        \/ \A b \in Actions, v \in Users :
             audit'[b][v] = IF b = "reset" /\ v = u THEN audit[b][v] + 1 ELSE audit[b][v]
      BY <1>4, AuditStep DEF Rehashes, Actions
  <2>6. AuditTellsMembers'
      BY <2>1, <2>4, <2>5 DEF AuditTellsMembers, Exists, Actions
  <2> QED BY <2>3, <2>6
<1>5. ASSUME NEW u \in Users, Leaves(u) PROVE Led' /\ AuditTellsMembers'
  <2>1. /\ Exists(u) /\ users[u].role = "member" /\ users[u].active
        /\ Exists(u)' /\ users'[u].role = "member" /\ users'[u].active = FALSE
        /\ users'[u].password = users[u].password
        /\ \A v \in Users : v # u => users'[v] = users[v]
      BY <1>5, Written DEF Leaves
  <2>2. Admins' = Admins
      BY <2>1 DEF Admins, Exists
  <2>3. Led'
      BY <2>1, <2>2 DEF Led, Admins, Exists
  <2>4. \A b \in Actions, v \in Users :
          audit'[b][v] = IF b = "deactivate" /\ v = u THEN audit[b][v] + 1 ELSE audit[b][v]
      BY <1>5, AuditStep DEF Leaves, Actions
  <2>5. AuditTellsMembers'
      BY <2>1, <2>4 DEF AuditTellsMembers, Exists, Actions
  <2> QED BY <2>3, <2>5
<1> QED BY <1>1, <1>2, <1>3, <1>4, <1>5, UserSteps

-----------------------------------------------------------------------------
(* The invariant *)

LEMMA InitIInv == Init => IInv
<1> SUFFICES ASSUME Init PROVE IInv
    OBVIOUS
<1>1. Idle \in Request /\ Idle.pc = "idle"
    BY DEF Idle, Request
<1>2. Idle \notin Opening \cup Change /\ Idle \notin Managing
    BY KindsApart, <1>1
<1>3. Opened = {}
    BY DEF Init, Opened
<1>4. TypeOK
    BY <1>1, <1>2, <1>3, RowTypes DEF Init, TypeOK, Actions
<1>5. Numbered /\ LastOpen
    BY <1>3, Limits DEF Numbered, LastOpen
<1>6. Managed /\ Counts
    BY <1>1 DEF Init, Managed, Counts
<1>7. Led /\ AuditTellsMembers
    BY DEF Init, Led, AuditTellsMembers, Exists, Actions
<1>8. BlockedAtLimit
    BY Limits DEF Init, BlockedAtLimit, NoAttempt
<1> QED BY <1>4, <1>5, <1>6, <1>7, <1>8 DEF IInv

LEMMA NextIInv == IInv /\ [Next]_vars => IInv'
BY NextTypes, NextLed, NextManaged, NextCounts, NextSessions DEF IInv

(* Every variable has its type, and requests speak of users there are. *)
THEOREM TypeCorrect == Spec => []TypeOK
<1>1. IInv => TypeOK
    BY DEF IInv
<1> QED BY <1>1, InitIInv, NextIInv, PTL DEF Spec

(* Setups may overlap and the administrator may ask for anything: there    *)
(* remains one administrator, who is active, for any number of users.      *)
THEOREM HouseholdIsLed == Spec => []OneAdministrator
<1>1. \A a : Cardinality({a}) = 1
    BY FS_Singleton
<1>2. IInv => OneAdministrator
    BY <1>1 DEF IInv, Led, OneAdministrator, Admins
<1> QED BY <1>2, InitIInv, NextIInv, PTL DEF Spec

(* The audit trail tells what happened to the members, once each.          *)
THEOREM TrailIsTrue == Spec => []AuditTellsMembers
<1>1. IInv => AuditTellsMembers
    BY DEF IInv
<1> QED BY <1>1, InitIInv, NextIInv, PTL DEF Spec

(* Logins of one name may overlap in any number: the count of failures     *)
(* stays within its limit, and blocks exactly there.                       *)
THEOREM LimitBlocks == Spec => []BlockedAtLimit
<1>1. IInv => BlockedAtLimit
    BY DEF IInv
<1> QED BY <1>1, InitIInv, NextIInv, PTL DEF Spec

\* Only the first step of a change or of the management of a member takes it on.
LEMMA TakenOnHere ==
    ASSUME TypeOK, [Next]_vars, NEW r \in Requests, TakenOn(r)
    PROVE  BeginChange(r) \/ BeginManaging(r)
<1>1. op[r] = Idle /\ op'[r] # Idle /\ Idle.pc = "idle"
    BY KindsApart DEF TakenOn, Idle
<1>2. UNCHANGED op => FALSE
    BY <1>1
<1>3. ASSUME NEW d \in Requests, d # r, NEW q, Becomes(d, q) PROVE FALSE
    BY <1>1, <1>3 DEF Becomes, TypeOK
<1>4. ASSUME NEW d \in Requests, Ends(d) PROVE FALSE
    BY <1>1, <1>4 DEF Ends, Becomes, TypeOK
<1>5. ASSUME NEW q, Becomes(r, q), q.pc \in {"setup", "forget", "verify"} PROVE FALSE
  <2>1. op'[r] = q
      BY <1>5 DEF Becomes, TypeOK
  <2> QED BY <1>5, <2>1, KindsApart DEF TakenOn
<1>6. ASSUME NEW d \in Requests, d # r, Serve(d) PROVE FALSE
    BY <1>2, <1>3, <1>4, <1>6 DEF Serve, GivesUp, BeginSetup, CreateInitialAdmin, BeginLogin,
      ForgetAttempt, VerifyPassword, RecordLoginFailure, ClearLoginAttempt, RotateSession, BeginChange,
      FindUserPasswordHash, UpdateUserPasswordHash, BeginManaging, RequirePermission, CreateMember,
      ResetPassword, DeactivateMember, Ends
<1>7. Serve(r) => BeginChange(r) \/ BeginManaging(r)
    BY <1>1, <1>5 DEF Serve, GivesUp, BeginSetup, CreateInitialAdmin, BeginLogin,
      ForgetAttempt, VerifyPassword, RecordLoginFailure, ClearLoginAttempt, RotateSession,
      FindUserPasswordHash, UpdateUserPasswordHash, RequirePermission, CreateMember,
      ResetPassword, DeactivateMember, Actions
<1> QED BY <1>2, <1>6, <1>7 DEF Next, vars, Revoke, Expire, Lapse

(* A request is only taken on for an active user, by the session the user  *)
(* opened last, for any number of overlapping logins and deactivations.    *)
THEOREM LastSessionAdmits == Spec => AdmittedByLastSession
<1>1. ASSUME IInv, [Next]_vars, NEW r \in Requests, TakenOn(r)
      PROVE  /\ Active(Actor(op'[r]))
             /\ \E s \in LastSession(Actor(op'[r])) : sessions[s].state = "open"
  <2>1. \E s \in Opened : Authenticates(s) /\ Actor(op'[r]) = sessions[s].user
    <3>1. CASE BeginChange(r)
      <4>1. PICK s \in Opened : Authenticates(s) /\ Becomes(r, [pc |-> "change", user |-> sessions[s].user])
          BY <3>1 DEF BeginChange
      <4>2. op'[r] = [pc |-> "change", user |-> sessions[s].user]
          BY <1>1, <4>1 DEF Becomes, IInv, TypeOK
      <4>3. sessions[s].user \in Users
          BY <1>1 DEF IInv, TypeOK, Opened, Session
      <4> QED BY <4>1, <4>2, <4>3 DEF Actor, Change
    <3>2. CASE BeginManaging(r)
      <4>1. PICK s \in Opened, u \in Users, action \in Actions :
              Authenticates(s) /\ Becomes(r, [pc |-> action, actor |-> sessions[s].user, user |-> u])
          BY <3>2 DEF BeginManaging
      <4> DEFINE q == [pc |-> action, actor |-> sessions[s].user, user |-> u]
      <4>2. op'[r] = q
          BY <1>1, <4>1 DEF Becomes, IInv, TypeOK
      <4>3. q.actor = sessions[s].user /\ q.pc = action
          OBVIOUS
      <4> HIDE DEF q
      <4>4. q \notin Change
          BY <4>3, KindsApart DEF Actions
      <4> QED BY <4>1, <4>2, <4>3, <4>4 DEF Actor
    <3> QED BY <1>1, <3>1, <3>2, TakenOnHere DEF IInv
  <2>2. PICK s \in Opened : Authenticates(s) /\ Actor(op'[r]) = sessions[s].user
      BY <2>1
  <2>3. \A t \in Opened : t > s => sessions[t].user # sessions[s].user
    <3>1. \A t \in Opened : t > s => s < t
        BY DEF Opened
    <3> QED BY <1>1, <2>2, <3>1 DEF IInv, LastOpen, Authenticates
  <2>4. s \in LastSession(sessions[s].user)
      BY <2>3 DEF LastSession
  <2> QED BY <2>2, <2>4 DEF Authenticates
<1>2. IInv /\ [Next]_vars =>
        [\A r \in Requests : TakenOn(r) =>
          /\ Active(Actor(op'[r]))
          /\ \E s \in LastSession(Actor(op'[r])) : sessions[s].state = "open"]_vars
    BY <1>1
<1> QED BY <1>2, InitIInv, NextIInv, PTL DEF Spec, AdmittedByLastSession

=============================================================================
