------------------------------ MODULE ReaderPool ------------------------------
(***************************************************************************)
(* The read connections of the database (internal/storage/db.go) and the   *)
(* code that holds one while it asks for another: an export                *)
(* (internal/records/export.go) and the matching of a play by title        *)
(* (internal/sync/matcher.go).                                             *)
(*                                                                         *)
(* database/sql lends a connection to a statement until its rows are read  *)
(* to the end or closed.  A statement that is issued between two rows of   *)
(* another needs a connection of its own; when all are lent it waits, and  *)
(* keeps those of the statements around it.                                *)
(***************************************************************************)
EXTENDS Naturals, FiniteSets, Sequences

CONSTANTS
    Connections,  \* the reader pool
    Exports,      \* clients that export their data
    Matchers,     \* schedulers, which match one play at a time
    Requests,     \* clients of everything else
    MaxRows       \* bound on the rows of a statement that others run inside

ASSUME TasksAreDistinct ==
    Exports \cap Matchers = {} /\ Exports \cap Requests = {} /\ Matchers \cap Requests = {}
ASSUME RowsAreBounded == MaxRows \in Nat

VARIABLES
    step,  \* [Task -> the statement of its program it is at, 0 when at rest]
    open   \* [Task -> its open statements, the innermost last]

vars == <<step, open>>

Task == Exports \cup Matchers \cup Requests

Leaves == {"ids", "genres", "episodes", "profile", "tags", "events", "progress", "items",
           "candidate", "mapping", "media", "number", "any"}
Statements == Leaves \cup {"records", "seasons", "rounds", "collections", "titles"}

(* Mutant: the events of a round look up their participants one by one. *)
InnerDeeper(s) ==
    CASE s = "records"     -> <<"ids", "genres", "seasons", "profile", "tags", "rounds">>
      [] s = "seasons"     -> <<"episodes">>
      [] s = "rounds"      -> <<"events", "progress">>
      [] s = "collections" -> <<"items">>
      [] s = "titles"      -> <<"number">>
      [] s = "events"      -> <<"any">>
      [] OTHER             -> <<>>

(* Mutant: the episode of a title is looked up through its season. *)
InnerSeason(s) ==
    CASE s = "records"     -> <<"ids", "genres", "seasons", "profile", "tags", "rounds">>
      [] s = "seasons"     -> <<"episodes">>
      [] s = "rounds"      -> <<"events", "progress">>
      [] s = "collections" -> <<"items">>
      [] s = "titles"      -> <<"seasons">>
      [] OTHER             -> <<>>

\* What is read for every row of a statement, before the next row is.
Inner(s) ==
    CASE s = "records"     -> <<"ids", "genres", "seasons", "profile", "tags", "rounds">>
      [] s = "seasons"     -> <<"episodes">>
      [] s = "rounds"      -> <<"events", "progress">>
      [] s = "collections" -> <<"items">>
      [] s = "titles"      -> <<"number">>
      [] OTHER             -> <<>>

\* The statements of a task, one after the other.
Program(t) == IF t \in Exports THEN <<"records", "collections">>
              ELSE IF t \in Matchers THEN <<"candidate", "mapping", "media", "titles">>
              ELSE <<"any">>

\* Open statements: on which connection, how many rows are left, and which
\* inner statement of the present row is next (0 between rows).
Frame == [of : Statements, conn : Connections, left : Nat, next : Nat]

Held(t) == {open[t][i].conn : i \in DOMAIN open[t]}
Free == Connections \ UNION {Held(t) : t \in Task}

Depth(t) == Len(open[t])
Top(t) == open[t][Depth(t)]
InRow(t) == Depth(t) > 0 /\ Top(t).next \in DOMAIN Inner(Top(t).of)

\* The task needs a connection before it can go on.
Waits(t) == step[t] # 0 /\ (Depth(t) = 0 \/ InRow(t))
Wanted(t) == IF Depth(t) = 0 THEN Program(t)[step[t]] ELSE Inner(Top(t).of)[Top(t).next]

-----------------------------------------------------------------------------
Begin(t) ==
    /\ step[t] = 0
    /\ step' = [step EXCEPT ![t] = 1]
    /\ UNCHANGED open

\* Which of the free connections it is makes no difference.
Query(t) ==
    /\ Waits(t) /\ Free # {}
    /\ \E rows \in IF Inner(Wanted(t)) = <<>> THEN {0} ELSE 0..MaxRows :
         open' = [open EXCEPT ![t] = Append(@,
                    [of |-> Wanted(t), conn |-> CHOOSE c \in Free : TRUE, left |-> rows, next |-> 0])]
    /\ UNCHANGED step

\* The next row, when what the last one called for has been read.
NextRow(t) ==
    /\ Depth(t) > 0 /\ ~InRow(t) /\ Top(t).left > 0
    /\ open' = [open EXCEPT ![t][Depth(t)] = [Top(t) EXCEPT !.left = @ - 1, !.next = 1]]
    /\ UNCHANGED step

\* After the last row the connection goes back, and the statement around it,
\* or the program, goes on.
Close(t) ==
    /\ Depth(t) > 0 /\ ~InRow(t) /\ Top(t).left = 0
    /\ LET outer == SubSeq(open[t], 1, Depth(t) - 1) IN
       IF outer = <<>>
       THEN /\ open' = [open EXCEPT ![t] = <<>>]
            /\ step' = [step EXCEPT ![t] = IF @ = Len(Program(t)) THEN 0 ELSE @ + 1]
       ELSE /\ open' = [open EXCEPT ![t] = [outer EXCEPT ![Len(outer)].next = @ + 1]]
            /\ UNCHANGED step

\* The client hangs up, or the server drops it: the end of the request's
\* context closes its statements.
HangUp(t) ==
    /\ t \notin Matchers /\ step[t] # 0
    /\ step' = [step EXCEPT ![t] = 0]
    /\ open' = [open EXCEPT ![t] = <<>>]

Init == step = [t \in Task |-> 0] /\ open = [t \in Task |-> <<>>]

Next == \E t \in Task : Begin(t) \/ Query(t) \/ NextRow(t) \/ Close(t) \/ HangUp(t)

Spec == Init /\ [][Next]_vars

(* A connection that comes back goes to one of those that wait, each as    *)
(* likely as the other; clients need not ask and need not hang up.         *)
Fairness == \A t \in Task : SF_vars(Query(t)) /\ WF_vars(NextRow(t) \/ Close(t))

FairSpec == Spec /\ Fairness

-----------------------------------------------------------------------------
(* What must hold *)

(* Every variable has its type. *)
TypeOK ==
    /\ step \in [Task -> Nat] /\ open \in [Task -> Seq(Frame)]
    /\ \A t \in Task : step[t] <= Len(Program(t))

(* The reads never wait for one another in a circle: when all connections  *)
(* are lent, one of the statements that have them can go on.               *)
NeverStuck == Free # {} \/ \E t \in Task : Depth(t) > 0 /\ ~Waits(t)

(* Whoever asks is answered, or hangs up first. *)
RequestsEnd == \A t \in Task : step[t] # 0 ~> step[t] = 0

=============================================================================
