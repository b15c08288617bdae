---------------------------- MODULE MCIdempotency ----------------------------
(* An instance of Idempotency for TLC: two clients that send the same        *)
(* request, one that reuses their key, and one that restores a backup.       *)
EXTENDS Idempotency, TLC

CONSTANTS same1, same2, reuse, restore, k, kr, b1, b2

MCKeyOf == [c \in Clients |-> IF c = restore THEN kr ELSE k]
MCBodyOf == [c \in Clients |-> IF c = reuse THEN b2 ELSE b1]

=============================================================================
