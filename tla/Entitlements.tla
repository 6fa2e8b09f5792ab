---------------------------- MODULE Entitlements ----------------------------
(***************************************************************************)
(* The plan of one user and the entitlements that billing events give and  *)
(* take: lib/entitlements.js, PATCH /plans/:planId/subscribe and           *)
(* POST /billing/webhook, outside demo mode.                               *)
(*                                                                         *)
(* The provider may deliver an event late, again, in any order, or under   *)
(* an id it has used before.  Every transaction here takes the user's row  *)
(* first, so each is one action.                                           *)
(***************************************************************************)
EXTENDS Integers, Sequences, FiniteSets, SequencesExt

CONSTANTS
    Plans,
    FreePlans,      \* priceMonthly = 0
    DefaultPlan,    \* the plan named "Free"
    Limit,          \* storageLimit of each plan
    Payloads,       \* bound: the events the provider may deliver
    NoPlan          \* an event that names no fallback

GrantPayload == [id : Nat, type : {"granted"}, plan : Plans, ends : BOOLEAN]
RevokePayload ==
    [id : Nat, type : {"revoked"}, plan : Plans, fallback : Plans \cup {NoPlan}]

ASSUME EntitlementsAssumption ==
    /\ DefaultPlan \in FreePlans /\ FreePlans \subseteq Plans
    /\ NoPlan \notin Plans
    /\ Limit \in [Plans -> Nat]
    /\ \A e \in Payloads : e \in GrantPayload \cup RevokePayload

VARIABLES
    status,     \* of the account
    plan,       \* planId
    usage,      \* storageUsed + reservedUploadBytes
    events,     \* the BillingEvent rows: the payload of each processed event
    active,     \* the grants whose PlanEntitlement is ACTIVE
    past,       \* the grants whose validUntil has passed
    delivered,  \* history: the first delivery of each event id, in order
    excuse      \* history: why the plan may be held without an entitlement

vars == <<status, plan, usage, events, active, past, delivered, excuse>>

Init ==
    /\ status = "ACTIVE" /\ plan = DefaultPlan /\ usage = 0
    /\ events = {} /\ active = {} /\ past = {}
    /\ delivered = <<>> /\ excuse = "none"

(* Fault: an entitlement whose time has passed still counts.               *)
EntitledOnce(p) == \E g \in active : g.plan = p

Entitled(p) == \E g \in active \ past : g.plan = p

Fits(p) == usage <= Limit[p]

-----------------------------------------------------------------------------
(* The user.                                                               *)

(* The UPDATE of switchPlanIfEntitled.                                     *)
MaySwitch(p) ==
    /\ status = "ACTIVE"
    /\ Fits(p)
    /\ p \in FreePlans \/ Entitled(p)

Subscribe(p) ==
    /\ MaySwitch(p)
    /\ plan' = p
    /\ excuse' = IF p = plan THEN excuse ELSE "none"
    /\ UNCHANGED <<status, usage, events, active, past, delivered>>

(* Uploads are admitted within the plan's limit; deletions and releases    *)
(* are possible always.                                                    *)
Upload ==
    /\ status = "ACTIVE" /\ usage < Limit[plan]
    /\ usage' = usage + 1
    /\ UNCHANGED <<status, plan, events, active, past, delivered, excuse>>

Delete ==
    /\ usage > 0
    /\ usage' = usage - 1
    /\ UNCHANGED <<status, plan, events, active, past, delivered, excuse>>

SetStatus(s) ==
    /\ status' = s
    /\ UNCHANGED <<plan, usage, events, active, past, delivered, excuse>>

-----------------------------------------------------------------------------
(* The provider.                                                           *)

IdsOf(es) == {e.id : e \in es}

(* Fault: every delivery is taken for a new event.                         *)
AnyDelivery(e) == TRUE

(* recordEvent: a processed id is a replay or a conflict, and changes      *)
(* nothing.                                                                *)
NewEvent(e) == e.id \notin IdsOf(events)

Record(e) ==
    /\ NewEvent(e)
    /\ events' = events \cup {e}
    /\ delivered' = IF e.id \in IdsOf(ToSet(delivered)) THEN delivered
                    ELSE Append(delivered, e)

Grant(e) ==
    /\ e.type = "granted"
    /\ Record(e)
    /\ active' = active \cup {e}
    /\ excuse' = IF e.plan = plan /\ e \notin past THEN "none" ELSE excuse
    /\ UNCHANGED <<status, plan, usage, past>>

FallbackOf(e) == IF e.fallback = NoPlan THEN DefaultPlan ELSE e.fallback

CanFall(e) == FallbackOf(e) \in FreePlans /\ Fits(FallbackOf(e))

(* The entitlements of the plan are revoked; downgradeIfUnentitled then    *)
(* finds none, and the user falls back unless the fallback is not free or  *)
(* too small.  The account need not be active.                             *)
Revoke(e) ==
    /\ e.type = "revoked"
    /\ Record(e)
    /\ active' = {g \in active : g.plan # e.plan}
    /\ plan' = IF plan = e.plan /\ CanFall(e) THEN FallbackOf(e) ELSE plan
    /\ excuse' = CASE plan' # plan -> "none"
                   [] plan' = plan /\ plan = e.plan -> "grace"
                   [] OTHER -> excuse
    /\ UNCHANGED <<status, usage, past>>

(* The grants in force after the events delivered first under each id, in  *)
(* the order of those deliveries: those no later one revokes.              *)
Revokes(e, g) == e.type = "revoked" /\ e.plan = g.plan

Stands(i) ==
    /\ delivered[i].type = "granted"
    /\ \A j \in i + 1 .. Len(delivered) : ~Revokes(delivered[j], delivered[i])

Granted == {delivered[i] : i \in {i \in DOMAIN delivered : Stands(i)}}

PaidUntil(p, lapsed) == \E g \in Granted \ lapsed : g.plan = p

(* Nothing downgrades a user whose entitlement lapses.                     *)
TimePasses(e) ==
    /\ e.type = "granted" /\ e.ends /\ e \notin past
    /\ past' = past \cup {e}
    /\ excuse' = IF PaidUntil(plan, past) /\ ~PaidUntil(plan, past')
                 THEN "lapse" ELSE excuse
    /\ UNCHANGED <<status, plan, usage, events, active, delivered>>

-----------------------------------------------------------------------------
Next ==
    \/ \E p \in Plans : Subscribe(p)
    \/ Upload \/ Delete
    \/ \E s \in {"ACTIVE", "SUSPENDED"} : SetStatus(s)
    \/ \E e \in Payloads : Grant(e) \/ Revoke(e) \/ TimePasses(e)

Spec == Init /\ [][Next]_vars

-----------------------------------------------------------------------------
(* Properties.                                                             *)

(* However often an event is repeated, and whatever else is sent under its *)
(* id, the entitlements are those of the first deliveries: a repeated      *)
(* grant does not undo a revocation, nor a repeated revocation a grant.    *)
EntitlementsFollowDeliveries == active = Granted

(* A user holds a paid plan only under a grant in force, or because the    *)
(* last revocation found usage above the free fallback (or no free         *)
(* fallback), or because the last entitlement for it lapsed while held.    *)
PaidPlanIsPaidFor ==
    \/ plan \in FreePlans
    \/ PaidUntil(plan, past)
    \/ excuse # "none"
=============================================================================
