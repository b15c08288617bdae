----------------------------- MODULE MCAccounts -----------------------------
(* Accounts for TLC: two people set the server up at the same time; the one  *)
(* who comes first may make a member of the other.                           *)
EXTENDS Accounts, TLC

CONSTANTS ann, bob, n1, n2

MCNameOf == (ann :> n1) @@ (bob :> n2)

\* Requests are alike, and so are the two people with their names.
Alike == {p @@ q : p \in Permutations(Requests),
                   q \in {(ann :> ann @@ bob :> bob @@ n1 :> n1 @@ n2 :> n2),
                          (ann :> bob @@ bob :> ann @@ n1 :> n2 @@ n2 :> n1)}}
=============================================================================
