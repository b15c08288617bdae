---------------------------- MODULE RoundLedger ----------------------------
(***************************************************************************)
(* What the viewing-round store promises for one (user, media) pair,       *)
(* without transactions, version checks, events or sync: a ledger of       *)
(* numbered rounds per scope (the movie, or one season of a series).       *)
(*                                                                         *)
(*   - a scope has at most one current round, and no two stored rounds of  *)
(*     a scope share a number;                                             *)
(*   - a current round changes only by Revise, which advances its version  *)
(*     by exactly one and never moves it to another scope or number;       *)
(*   - an archived round is history: it can be forgotten, never changed.   *)
(*                                                                         *)
(* Rounds.tla is the detailed specification and implements this one.       *)
(***************************************************************************)
EXTENDS Naturals

CONSTANTS
    RoundId,    \* identities of rounds; an identity is never reused
    Scope,      \* the movie, or the seasons of the series
    Number,     \* numbers a round may bear: positive integers
    Fact        \* what a round says: status, source, completion, review

VARIABLE rounds \* identity -> what the ledger holds under it

Unused  == [state |-> "unused"]
Deleted == [state |-> "deleted"]

Row == [state : {"current", "archived"}, scope : Scope,
        number : Number, version : Nat \ {0}, facts : Fact]

NewRow(s, n, f) ==
    [state |-> "current", scope |-> s, number |-> n, version |-> 1, facts |-> f]

Revised(row, f) ==
    [state |-> row.state, scope |-> row.scope, number |-> row.number,
     version |-> row.version + 1, facts |-> f]

IsCurrent(i, s) == rounds[i].state = "current" /\ rounds[i].scope = s
IsStored(i, s)  == rounds[i].state \in {"current", "archived"} /\ rounds[i].scope = s

Init == rounds = [i \in RoundId |-> Unused]

(* A round is opened in a scope that has none in progress. *)
Create ==
    \E i \in RoundId, s \in Scope, n \in Number :
        /\ rounds[i] = Unused
        /\ \A k \in RoundId : ~ IsCurrent(k, s)
        /\ \A k \in RoundId : IsStored(k, s) => rounds[k].number # n
        /\ \E f \in Fact : rounds' = [rounds EXCEPT ![i] = NewRow(s, n, f)]

(* The current round is rewritten, one version at a time. *)
Revise ==
    \E i \in RoundId :
        /\ rounds[i].state = "current"
        /\ \E f \in Fact :
              rounds' = [rounds EXCEPT ![i] = Revised(rounds[i], f)]

(* The current round becomes history and its successor starts, in one step. *)
Rollover ==
    \E i, k \in RoundId, n \in Number :
        /\ rounds[i].state = "current"
        /\ rounds[k] = Unused
        /\ n > rounds[i].number
        /\ \A j \in RoundId : IsStored(j, rounds[i].scope) => rounds[j].number # n
        /\ \E f \in Fact :
              rounds' = [rounds EXCEPT ![i] = [rounds[i] EXCEPT !.state = "archived"],
                                       ![k] = NewRow(rounds[i].scope, n, f)]

(* One round of the history is deleted. *)
Forget ==
    \E i \in RoundId :
        /\ rounds[i].state = "archived"
        /\ rounds' = [rounds EXCEPT ![i] = Deleted]

(* The media leaves the library: every current round goes, history stays. *)
Withdraw ==
    rounds' = [i \in RoundId |->
                 IF rounds[i].state = "current" THEN Deleted ELSE rounds[i]]

Next == Forget \/ Withdraw \/ Revise \/ Create \/ Rollover

Spec == Init /\ [][Next]_rounds
=============================================================================
