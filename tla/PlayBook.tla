------------------------------ MODULE PlayBook ------------------------------
(***************************************************************************)
(* What sync and the viewing rounds promise each other about the plays a   *)
(* provider reported, without requests, candidates, versions or rows: a    *)
(* book of plays at the movies and episodes they are plays of, and the     *)
(* targets whose round in progress the user holds.                         *)
(*                                                                         *)
(*   - a play is recorded by sync once, and never at a target that is held;*)
(*   - by hand, targets become held, and their plays are struck out or     *)
(*     become the user's own: those at other targets stay as they are;     *)
(*   - only what leaves the library or the history lets targets go, and    *)
(*     then plays only go.                                                 *)
(*                                                                         *)
(* Rounds.tla keeps the pages of one media, SyncCandidates.tla writes the  *)
(* book for all: both implement this module, so each may rely on it.       *)
(***************************************************************************)
CONSTANTS
    Event,      \* external event ids
    Target      \* movies and episodes

VARIABLES
    plays,      \* plays on record: [event, target, source]
    held        \* targets whose round in progress outranks sync

Synced == {p \in plays : p.source = "confirmed_sync"}
TakenOver(p) == [p EXCEPT !.source = "manual"]

Init == plays = {} /\ held \subseteq Target

(* A play that is not on record yet, outside what the user holds. *)
Record ==
    /\ \E e \in Event, t \in Target \ held :
          /\ \A p \in Synced : p.event # e
          /\ plays' = plays \cup {[event |-> e, target |-> t, source |-> "confirmed_sync"]}
    /\ held' = held

(* The user writes rounds, and holds them from then on. *)
Edit ==
    /\ held \subseteq held' /\ held' \subseteq Target
    /\ \A p \in plays : p.target \notin held' => p \in plays'
    /\ \A p \in plays' \ plays :
          p.target \in held' /\ \E q \in plays : p = TakenOver(q)

(* Rounds are deleted. *)
Drop == held' \subseteq held /\ plays' \subseteq plays

Next == Record \/ Edit \/ Drop

Spec == Init /\ [][Next]_<<plays, held>>
=============================================================================
