--------------------------- MODULE MCEntitlements ---------------------------
(* Two free plans and a paid one.  Two grants, one of which ends; three    *)
(* revocations, with the default fallback, another, and one that is not    *)
(* free; and a grant under the id of a revocation.                         *)
EXTENDS Entitlements, TLC

CONSTANTS free, team, pro

MCLimit == free :> 1 @@ team :> 2 @@ pro :> 3
MCPayloads ==
    {[id |-> 1, type |-> "granted", plan |-> pro, ends |-> TRUE],
     [id |-> 2, type |-> "granted", plan |-> pro, ends |-> FALSE],
     [id |-> 3, type |-> "revoked", plan |-> pro, fallback |-> NoPlan],
     [id |-> 3, type |-> "granted", plan |-> pro, ends |-> FALSE],
     [id |-> 4, type |-> "revoked", plan |-> pro, fallback |-> team],
     [id |-> 5, type |-> "revoked", plan |-> pro, fallback |-> pro]}
=============================================================================
