---------------------------- MODULE QuotaLedger ----------------------------
(***************************************************************************)
(* What every path that moves an account's storage counters promises.      *)
(*                                                                         *)
(* An item is one thing that may occupy storage: a resumable upload        *)
(* session, a one-shot upload, the file either of them becomes.  Its bytes *)
(* are held, then charged or returned, and a charged item may later be     *)
(* refunded; each of these happens at most once.  The two counters of the  *)
(* User row, reservedUploadBytes and storageUsed, are moved by exactly the *)
(* item's size in the same step, and never past the plan's limit.          *)
(*                                                                         *)
(* The detailed modules implement this one: their handlers, crashes and    *)
(* retries may only ever take these steps.                                 *)
(***************************************************************************)
EXTENDS Integers, FiniteSets

CONSTANTS
    Items,      \* everything that may ever hold or use the account's bytes
    Size,       \* Size[i]: the bytes of item i
    Limits      \* the storageLimit of each plan of the catalogue

ASSUME LedgerAssumption ==
    /\ IsFiniteSet(Items)
    /\ Size \in [Items -> Nat \ {0}]
    /\ Limits \subseteq Nat

VARIABLES
    phase,      \* where each item is in its life
    reserved,   \* User.reservedUploadBytes
    used,       \* User.storageUsed
    limit       \* Plan.storageLimit of the user's plan

vars == <<phase, reserved, used, limit>>

Phases == {"none", "held", "charged", "returned"}

In(p) == {i \in Items : phase[i] = p}

(* The bytes of a set of items, as a set: one element per item and byte.   *)
(* Counting it is the sum of the sizes.                                    *)
Bytes(S) == UNION {{i} \X (1 .. Size[i]) : i \in S}

-----------------------------------------------------------------------------

Init ==
    /\ phase = [i \in Items |-> "none"]
    /\ reserved = 0
    /\ used = 0
    /\ limit \in Limits

(* Fault: the admission test forgets the bytes already held.               *)
FitsForgettingHeld(b, l) == used + b <= l

(* The admission test shared by every statement that creates usage.        *)
Fits(b, l) == used + reserved + b <= l

(* Quota is held for an item whose bytes have not arrived.                 *)
Hold(i) ==
    /\ phase[i] = "none"
    /\ Fits(Size[i], limit)
    /\ phase' = [phase EXCEPT ![i] = "held"]
    /\ reserved' = reserved + Size[i]
    /\ UNCHANGED <<used, limit>>

(* Fault: the bytes are charged and stay reserved.                         *)
ChargeKeepingHold(i) ==
    /\ phase[i] = "held"
    /\ phase' = [phase EXCEPT ![i] = "charged"]
    /\ used' = used + Size[i]
    /\ UNCHANGED <<reserved, limit>>

(* The item becomes a file: its bytes move from reserved to used.  That    *)
(* the reservation is still there and within the plan is what the invariant*)
(* says; the statement tests it again.                                     *)
Charge(i) ==
    /\ phase[i] = "held"
    /\ phase' = [phase EXCEPT ![i] = "charged"]
    /\ reserved' = reserved - Size[i]
    /\ used' = used + Size[i]
    /\ UNCHANGED limit

(* An upload that held nothing in advance is admitted when it commits.     *)
ChargeDirectly(i) ==
    /\ phase[i] = "none"
    /\ Fits(Size[i], limit)
    /\ phase' = [phase EXCEPT ![i] = "charged"]
    /\ used' = used + Size[i]
    /\ UNCHANGED <<reserved, limit>>

(* Fault: without a compare-and-set on the row that owns the bytes, a      *)
(* second release of the same item moves the counter again.                *)
ReturnTwice(i) ==
    /\ phase[i] \in {"held", "returned"}
    /\ phase' = [phase EXCEPT ![i] = "returned"]
    /\ reserved' = reserved - Size[i]
    /\ UNCHANGED <<used, limit>>

(* The item is given up before it became a file.  The statement clamps the *)
(* counter at zero; here it is exact, so an implementation must show that  *)
(* the clamp never bites.                                                  *)
Return(i) ==
    /\ phase[i] = "held"
    /\ phase' = [phase EXCEPT ![i] = "returned"]
    /\ reserved' = reserved - Size[i]
    /\ UNCHANGED <<used, limit>>

(* The file is deleted and its bytes are refunded.                         *)
Refund(i) ==
    /\ phase[i] = "charged"
    /\ phase' = [phase EXCEPT ![i] = "returned"]
    /\ used' = used - Size[i]
    /\ UNCHANGED <<reserved, limit>>

(* The account moves to a plan that holds what it uses and has reserved.   *)
SwitchPlan(l) ==
    /\ Fits(0, l)
    /\ limit' = l
    /\ UNCHANGED <<phase, reserved, used>>

Next ==
    \/ \E i \in Items :
          Hold(i) \/ Charge(i) \/ ChargeDirectly(i) \/ Return(i) \/ Refund(i)
    \/ \E l \in Limits : SwitchPlan(l)

Spec == Init /\ [][Next]_vars

-----------------------------------------------------------------------------

TypeOK ==
    /\ phase \in [Items -> Phases]
    /\ reserved \in Nat
    /\ used \in Nat
    /\ limit \in Limits

(* Each counter is exactly the bytes of the items it stands for: nothing   *)
(* leaks when an upload is given up and nothing is moved twice.            *)
CountersExact ==
    /\ reserved = Cardinality(Bytes(In("held")))
    /\ used = Cardinality(Bytes(In("charged")))

(* What is used and what is promised fit the plan the account is on, after *)
(* every upload, deletion and change of plan.                              *)
WithinLimit == used + reserved <= limit

=============================================================================
