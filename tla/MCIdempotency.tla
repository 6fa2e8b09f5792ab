--------------------------- MODULE MCIdempotency ---------------------------
(* Two accounts with one key each.  The first has three requests, one of   *)
(* them with another body and sent to either of two replicas; the second   *)
(* has two.  A replica has two slots, and one place to wait per account.   *)
EXTENDS Idempotency, TLC

CONSTANTS a1, a2, a3, b1, b2, A, B, k1, k2, p1, p2

MCRequests == {a1, a2, a3, b1, b2}
MCOwners == {A, B}
MCOwnerOf == a1 :> A @@ a2 :> A @@ a3 :> A @@ b1 :> B @@ b2 :> B
MCReplicas == {p1, p2}
MCReach == [r \in MCRequests |-> IF r = a3 THEN {p1, p2} ELSE {p1}]
MCKeys == {k1, k2}
MCKeyOf == a1 :> k1 @@ a2 :> k1 @@ a3 :> k1 @@ b1 :> k2 @@ b2 :> k2
MCBodyOf == [r \in MCRequests |-> IF r = a3 THEN 2 ELSE 1]
=============================================================================
