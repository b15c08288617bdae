------------------------------ MODULE Accounts ------------------------------
(***************************************************************************)
(* The accounts of a household: internal/auth and internal/household.      *)
(* Setup creates the one administrator, who creates, resets and            *)
(* deactivates members; a login opens the one session of its user and is   *)
(* counted against its name when it fails.                                 *)
(*                                                                         *)
(* Every service method reads first and writes later, in a transaction of  *)
(* its own: reads and writes are separate steps here, and other requests,  *)
(* an error or the end of the process may come between any two.            *)
(*                                                                         *)
(* A password is the number of times it was set, since every hash has its  *)
(* own salt; whether a client sent the right one is either answer.  The    *)
(* client's address, of which the login count is also a part, is one.      *)
(* Times are phases: an attempt window or block that has lapsed, a session *)
(* that has expired.  No login takes the fifteen minutes of a window.      *)
(***************************************************************************)
EXTENDS Naturals, FiniteSets

CONSTANTS
    Users,         \* ids of the users that may be created
    Names,         \* user names, after trimming and case folding
    NameOf,        \* [Users -> Names]
    Requests,      \* requests served at the same time
    FailureLimit,  \* defaultLoginFailureLimit
    MaxSessions,   \* bound on the logins that succeed
    MaxPasswords,  \* bound on the passwords of a user
    None

ASSUME UsersAreNamed == NameOf \in [Users -> Names]
ASSUME Limits == /\ FailureLimit \in Nat \ {0} /\ MaxSessions \in Nat
                 /\ MaxPasswords \in Nat

VARIABLES
    users,     \* [Users -> the row of users, or None]
    sessions,  \* [1..MaxSessions -> the row of sessions, or None], as they were opened
    attempts,  \* [Names -> the row of login_attempts, or NoAttempt]
    audit,     \* [Actions -> [Users -> the number of audit_events]]
    op         \* [Requests -> the request being served, or Idle]

vars == <<users, sessions, attempts, audit, op>>

Roles == {"admin", "member"}
Actions == {"create", "reset", "deactivate"}
User == [role : Roles, active : BOOLEAN, password : Nat]
Session == [user : Users, state : {"open", "expired", "revoked"}]

ASSUME NoneIsDistinct == None \notin User /\ None \notin Session

\* lapsed: the block has ended or, without one, the window has.
Attempt == [failures : Nat, blocked : BOOLEAN, lapsed : BOOLEAN]
NoAttempt == [failures |-> 0, blocked |-> FALSE, lapsed |-> FALSE]

Idle == [pc |-> "idle"]
Setup == [pc : {"setup"}, user : Users]
Login == [pc : {"forget", "verify", "fail"}, name : Names, attempt : Attempt]
Opening == [pc : {"pass", "open"}, user : Users]
Change == [pc : {"change", "rehash"}, user : Users]
Managing == [pc : Actions \cup {"may create", "may reset", "may deactivate"}, actor : Users, user : Users]
Request == {Idle} \cup Setup \cup Login \cup Opening \cup Change \cup Managing

Exists(u) == users[u] # None
Active(u) == Exists(u) /\ users[u].active
Opened == {s \in 1..MaxSessions : sessions[s] # None}
Becomes(r, request) == op' = [op EXCEPT ![r] = request]
Ends(r) == Becomes(r, Idle)

Init ==
    /\ users = [u \in Users |-> None]
    /\ sessions = [s \in 1..MaxSessions |-> None]
    /\ attempts = [n \in Names |-> NoAttempt]
    /\ audit = [a \in Actions |-> [u \in Users |-> 0]]
    /\ op = [r \in Requests |-> Idle]

\* An error, a client that went away, or the end of the process.
GivesUp(r) == op[r] # Idle /\ Ends(r) /\ UNCHANGED <<users, sessions, attempts, audit>>

-----------------------------------------------------------------------------
(* Setup *)

NewUser(role) == [role |-> role, active |-> TRUE, password |-> 1]

BeginSetup(r) ==
    /\ op[r] = Idle /\ ~\E u \in Users : Exists(u)
    /\ \E u \in Users : Becomes(r, [pc |-> "setup", user |-> u])
    /\ UNCHANGED <<users, sessions, attempts, audit>>

(* Mutant: the count that BeginSetup saw is trusted. *)
CreateAnyAdmin(r) ==
    /\ op[r].pc = "setup" /\ ~Exists(op[r].user)
    /\ users' = [users EXCEPT ![op[r].user] = NewUser("admin")]
    /\ Ends(r)
    /\ UNCHANGED <<sessions, attempts, audit>>

\* The transaction counts the users again.
CreateInitialAdmin(r) ==
    /\ op[r].pc = "setup"
    /\ users' = IF \E u \in Users : Exists(u) THEN users
                ELSE [users EXCEPT ![op[r].user] = NewUser("admin")]
    /\ Ends(r)
    /\ UNCHANGED <<sessions, attempts, audit>>

-----------------------------------------------------------------------------
(* Login *)

BeginLogin(r) ==
    /\ op[r] = Idle
    /\ \E n \in Names :
         LET attempt == attempts[n] IN
         /\ ~(attempt.blocked /\ ~attempt.lapsed)
         /\ Becomes(r, IF attempt.lapsed
                       THEN [pc |-> "forget", name |-> n, attempt |-> NoAttempt]
                       ELSE [pc |-> "verify", name |-> n, attempt |-> attempt])
    /\ UNCHANGED <<users, sessions, attempts, audit>>

Forgotten(n) == attempts' = [attempts EXCEPT ![n] = NoAttempt]

ForgetAttempt(r) ==
    /\ op[r].pc = "forget"
    /\ Forgotten(op[r].name) /\ Becomes(r, [op[r] EXCEPT !.pc = "verify"])
    /\ UNCHANGED <<users, sessions, audit>>

\* The active user of the name, and the right password, or a failure.
VerifyPassword(r) ==
    /\ op[r].pc = "verify"
    /\ \/ Becomes(r, [op[r] EXCEPT !.pc = "fail"])
       \/ \E u \in Users : /\ NameOf[u] = op[r].name /\ Active(u)
                            /\ Becomes(r, [pc |-> "pass", user |-> u])
    /\ UNCHANGED <<users, sessions, attempts, audit>>

(* Mutant: a count that reached its limit is not what starts a block. *)
CountedPastLimit(attempt) ==
    [failures |-> attempt.failures + 1, lapsed |-> FALSE,
     blocked |-> attempt.failures + 1 > FailureLimit]

Counted(attempt) ==
    [failures |-> attempt.failures + 1, lapsed |-> FALSE,
     blocked |-> attempt.failures + 1 >= FailureLimit]

\* Writes the count that BeginLogin read, plus one.
RecordLoginFailure(r) ==
    /\ op[r].pc = "fail"
    /\ attempts' = [attempts EXCEPT ![op[r].name] = Counted(op[r].attempt)]
    /\ Ends(r)
    /\ UNCHANGED <<users, sessions, audit>>

ClearLoginAttempt(r) ==
    /\ op[r].pc = "pass"
    /\ Forgotten(NameOf[op[r].user]) /\ Becomes(r, [op[r] EXCEPT !.pc = "open"])
    /\ UNCHANGED <<users, sessions, audit>>

Revoked(u) ==
    [s \in 1..MaxSessions |-> IF sessions[s] # None /\ sessions[s].user = u
                              THEN [sessions[s] EXCEPT !.state = "revoked"] ELSE sessions[s]]

NextSession == Cardinality(Opened) + 1

(* Mutant: the sessions of other devices stay. *)
AddSession(r) ==
    /\ op[r].pc = "open" /\ NextSession <= MaxSessions
    /\ sessions' = [sessions EXCEPT ![NextSession] = [user |-> op[r].user, state |-> "open"]]
    /\ Ends(r)
    /\ UNCHANGED <<users, attempts, audit>>

\* Whatever became of the user since the password was verified.
RotateSession(r) ==
    /\ op[r].pc = "open" /\ NextSession <= MaxSessions
    /\ sessions' = [Revoked(op[r].user) EXCEPT
                      ![NextSession] = [user |-> op[r].user, state |-> "open"]]
    /\ Ends(r)
    /\ UNCHANGED <<users, attempts, audit>>

\* Logout, which asks for nothing but the cookie.
Revoke ==
    /\ \E s \in Opened : sessions' = [sessions EXCEPT ![s].state = "revoked"]
    /\ UNCHANGED <<users, attempts, audit, op>>

\* The 30 days of a session.
Expire ==
    /\ \E s \in Opened : sessions[s].state = "open"
                         /\ sessions' = [sessions EXCEPT ![s].state = "expired"]
    /\ UNCHANGED <<users, attempts, audit, op>>

\* The 15 minutes of a window, or of a block.
Lapse ==
    /\ \E n \in Names :
         /\ attempts[n] # NoAttempt
         /\ ~\E r \in Requests : op[r] \in Login /\ op[r].name = n
         /\ attempts' = [attempts EXCEPT ![n].lapsed = TRUE]
    /\ UNCHANGED <<users, sessions, audit, op>>

-----------------------------------------------------------------------------
(* Requests with a session *)

Authenticates(s) == sessions[s].state = "open" /\ Active(sessions[s].user)

BeginChange(r) ==
    /\ op[r] = Idle
    /\ \E s \in Opened : /\ Authenticates(s)
                         /\ Becomes(r, [pc |-> "change", user |-> sessions[s].user])
    /\ UNCHANGED <<users, sessions, attempts, audit>>

\* Read of the hash, verified against the current password.
FindUserPasswordHash(r) ==
    /\ op[r].pc = "change"
    /\ Becomes(r, IF Active(op[r].user) THEN [op[r] EXCEPT !.pc = "rehash"] ELSE Idle)
    /\ UNCHANGED <<users, sessions, attempts, audit>>

SetsPassword(u) ==
    /\ users[u].active
    /\ users' = [users EXCEPT ![u].password = @ + 1]

UpdateUserPasswordHash(r) ==
    /\ op[r].pc = "rehash" /\ users[op[r].user].password < MaxPasswords
    /\ SetsPassword(op[r].user) /\ Ends(r)
    /\ UNCHANGED <<sessions, attempts, audit>>

BeginManaging(r) ==
    /\ op[r] = Idle
    /\ \E s \in Opened, u \in Users, action \in Actions :
         /\ Authenticates(s)
         /\ action # "create" => Exists(u)
         /\ Becomes(r, [pc |-> action, actor |-> sessions[s].user, user |-> u])
    /\ UNCHANGED <<users, sessions, attempts, audit>>

May(action) == CASE action = "create" -> "may create"
                 [] action = "reset" -> "may reset"
                 [] action = "deactivate" -> "may deactivate"

\* requireAdmin for all, requireManagedMember for what is done to a member.
Permitted(actor, user, action) ==
    /\ users[actor].active /\ users[actor].role = "admin"
    /\ action # "create" => users[user].role = "member" /\ actor # user

RequirePermission(r) ==
    /\ op[r].pc \in Actions
    /\ Becomes(r, IF Permitted(op[r].actor, op[r].user, op[r].pc)
                  THEN [op[r] EXCEPT !.pc = May(op[r].pc)] ELSE Idle)
    /\ UNCHANGED <<users, sessions, attempts, audit>>

Audits(action, u) == audit' = [audit EXCEPT ![action][u] = @ + 1]

\* The id is new and the name is unique.
CreateMember(r) ==
    LET u == op[r].user IN
    /\ op[r].pc = "may create"
    /\ ~\E v \in Users : Exists(v) /\ NameOf[v] = NameOf[u]
    /\ users' = [users EXCEPT ![u] = NewUser("member")]
    /\ Audits("create", u) /\ Ends(r)
    /\ UNCHANGED <<sessions, attempts>>

ResetPassword(r) ==
    LET u == op[r].user IN
    /\ op[r].pc = "may reset" /\ users[u].password < MaxPasswords
    /\ SetsPassword(u)
    /\ sessions' = Revoked(u) /\ Audits("reset", u) /\ Ends(r)
    /\ UNCHANGED attempts

(* Mutant: the update that matches no row is not noticed. *)
DeactivateAgain(r) ==
    LET u == op[r].user IN
    /\ op[r].pc = "may deactivate"
    /\ users' = [users EXCEPT ![u].active = FALSE]
    /\ sessions' = Revoked(u) /\ Audits("deactivate", u) /\ Ends(r)
    /\ UNCHANGED attempts

DeactivateMember(r) ==
    LET u == op[r].user IN
    /\ op[r].pc = "may deactivate" /\ users[u].active
    /\ users' = [users EXCEPT ![u].active = FALSE]
    /\ sessions' = Revoked(u) /\ Audits("deactivate", u) /\ Ends(r)
    /\ UNCHANGED attempts

Serve(r) ==
    \/ BeginSetup(r) \/ CreateInitialAdmin(r)
    \/ BeginLogin(r) \/ ForgetAttempt(r) \/ VerifyPassword(r) \/ RecordLoginFailure(r)
    \/ ClearLoginAttempt(r) \/ RotateSession(r)
    \/ BeginChange(r) \/ FindUserPasswordHash(r) \/ UpdateUserPasswordHash(r)
    \/ BeginManaging(r) \/ RequirePermission(r)
    \/ CreateMember(r) \/ ResetPassword(r) \/ DeactivateMember(r)
    \/ GivesUp(r)

Next == (\E r \in Requests : Serve(r)) \/ Revoke \/ Expire \/ Lapse

Spec == Init /\ [][Next]_vars

-----------------------------------------------------------------------------
(* Properties *)

\* Rows and requests have their types, and refer to users there are, although a
\* name without a user goes through the steps of a login like any other.
TypeOK ==
    /\ users \in [Users -> User \cup {None}]
    /\ sessions \in [1..MaxSessions -> Session \cup {None}]
    /\ attempts \in [Names -> Attempt]
    /\ audit \in [Actions -> [Users -> Nat]]
    /\ op \in [Requests -> Request]
    /\ \A s \in Opened : Exists(sessions[s].user)
    /\ \A r \in Requests : op[r] \in Opening \cup Change => Exists(op[r].user)
    /\ \A r \in Requests : op[r] \in Managing =>
          Exists(op[r].actor) /\ (op[r].pc \notin {"create", "may create"} => Exists(op[r].user))

Admins == {u \in Users : Exists(u) /\ users[u].role = "admin"}

\* A household that has a user has one administrator, who is active, however
\* setups overlap and whatever the administrator asks to deactivate: without
\* one nobody could ever create, reset or deactivate a member again.
OneAdministrator ==
    (\E u \in Users : Exists(u)) =>
        Cardinality(Admins) = 1 /\ \A u \in Admins : users[u].active

\* The audit trail tells what happened to the members, once each: the members
\* are those created, the inactive ones those deactivated, and every reset set
\* a password, although permission is checked before the transaction.
AuditTellsMembers ==
    \A u \in Users :
        /\ audit["create"][u] = IF Exists(u) /\ users[u].role = "member" THEN 1 ELSE 0
        /\ audit["deactivate"][u] = IF Exists(u) /\ ~users[u].active THEN 1 ELSE 0
        /\ audit["reset"][u] < IF Exists(u) THEN users[u].password ELSE 1

\* A name is blocked exactly when its failures have reached the limit, and they
\* never pass it, whatever counts overlapping logins read and write back: a
\* count above the limit or a full one without a block would never be reset.
BlockedAtLimit ==
    \A n \in Names :
        /\ attempts[n].failures <= FailureLimit
        /\ attempts[n].blocked <=> attempts[n].failures = FailureLimit

\* A request is only taken on for a user who is active, by the session the
\* user opened last, although a login may open a session after its user was
\* deactivated, and although logins of one user overlap.
TakenOn(r) == op[r] = Idle /\ (op'[r] \in Change \/ op'[r] \in Managing)
Actor(request) == IF request \in Change THEN request.user ELSE request.actor
LastSession(u) ==
    {s \in Opened : sessions[s].user = u
                    /\ \A t \in Opened : t > s => sessions[t].user # u}
AdmittedByLastSession ==
    [][\A r \in Requests : TakenOn(r) =>
          /\ Active(Actor(op'[r]))
          /\ \E s \in LastSession(Actor(op'[r])) : sessions[s].state = "open"]_vars

=============================================================================
