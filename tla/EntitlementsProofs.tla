------------------------ MODULE EntitlementsProofs ------------------------
(***************************************************************************)
(* The entitlements are what the first deliveries say, and a paid plan is  *)
(* paid for or excused: for any plans, any events and any deliveries.      *)
(***************************************************************************)
EXTENDS Entitlements, TLAPS

(* The events processed are those delivered, and the entitlements in force *)
(* follow from their order.                                                *)
Followed ==
    /\ delivered \in Seq(Payloads)
    /\ events = ToSet(delivered)
    /\ active = Granted

EntitlementsInv == Followed /\ PaidPlanIsPaidFor

(* What one more delivery does to the grants in force.                     *)
LEMMA GrantedAppend ==
    ASSUME delivered \in Seq(Payloads), NEW e \in Payloads,
           delivered' = Append(delivered, e)
    PROVE  /\ delivered' \in Seq(Payloads)
           /\ ToSet(delivered') = ToSet(delivered) \cup {e}
           /\ e.type = "granted" => Granted' = Granted \cup {e}
           /\ e.type = "revoked" => Granted' = {g \in Granted : g.plan # e.plan}
<1>0. PICK n \in Nat : n = Len(delivered)
  OBVIOUS
<1>1. /\ DOMAIN delivered = 1 .. n
      /\ Len(delivered') = n + 1 /\ DOMAIN delivered' = 1 .. n + 1
      /\ delivered'[n + 1] = e
      /\ \A i \in 1 .. n : delivered'[i] = delivered[i]
      /\ delivered' \in Seq(Payloads)
  BY <1>0
<1>2. DOMAIN delivered' = DOMAIN delivered \cup {n + 1}
  BY <1>1
<1>3. ToSet(delivered') = ToSet(delivered) \cup {e}
  BY <1>1, <1>2 DEF ToSet
<1>4. ASSUME NEW i \in DOMAIN delivered
      PROVE  Stands(i)' <=> Stands(i) /\ ~Revokes(e, delivered[i])
  <2>1. /\ i \in 1 .. n /\ delivered'[i] = delivered[i]
        /\ i + 1 .. n + 1 = (i + 1 .. n) \cup {n + 1}
        /\ \A j \in i + 1 .. n : delivered'[j] = delivered[j]
    BY <1>1
  <2>2. Stands(i)' <=>
          /\ delivered[i].type = "granted"
          /\ \A j \in i + 1 .. n + 1 : ~Revokes(delivered'[j], delivered[i])
    BY <1>1, <2>1 DEF Stands, Revokes
  <2>3. (\A j \in i + 1 .. n + 1 : ~Revokes(delivered'[j], delivered[i])) <=>
          /\ \A j \in i + 1 .. n : ~Revokes(delivered[j], delivered[i])
          /\ ~Revokes(e, delivered[i])
    BY <1>1, <2>1
  <2>4. Stands(i) <=>
          /\ delivered[i].type = "granted"
          /\ \A j \in i + 1 .. n : ~Revokes(delivered[j], delivered[i])
    BY <1>0 DEF Stands
  <2> QED
    BY <2>2, <2>3, <2>4
<1>5. Stands(n + 1)' <=> e.type = "granted"
  <2>1. n + 1 + 1 .. n + 1 = {}
    BY <1>1
  <2> QED
    BY <1>1, <2>1 DEF Stands
<1>6. Granted' = {delivered'[i] : i \in {i \in DOMAIN delivered' : Stands(i)'}}
  BY DEF Granted
<1>7. ASSUME e.type = "granted" PROVE Granted' = Granted \cup {e}
  <2>1. \A i \in DOMAIN delivered : Stands(i)' <=> Stands(i)
    BY <1>4, <1>7 DEF Revokes
  <2>2. {i \in DOMAIN delivered' : Stands(i)'}
          = {i \in DOMAIN delivered : Stands(i)} \cup {n + 1}
    BY <1>2, <1>5, <1>7, <2>1
  <2>3. \A i \in DOMAIN delivered : delivered'[i] = delivered[i]
    BY <1>1
  <2> QED
    BY <1>1, <1>6, <2>2, <2>3 DEF Granted
<1>8. ASSUME e.type = "revoked"
      PROVE  Granted' = {g \in Granted : g.plan # e.plan}
  <2>1. \A i \in DOMAIN delivered :
          Stands(i)' <=> Stands(i) /\ delivered[i].plan # e.plan
    BY <1>4, <1>8 DEF Revokes
  <2>2. {i \in DOMAIN delivered' : Stands(i)'}
          = {i \in DOMAIN delivered : Stands(i) /\ delivered[i].plan # e.plan}
    BY <1>2, <1>5, <1>8, <2>1
  <2>3. \A i \in DOMAIN delivered : delivered'[i] = delivered[i]
    BY <1>1
  <2>4. Granted' = {delivered[i] : i \in
          {i \in DOMAIN delivered : Stands(i) /\ delivered[i].plan # e.plan}}
    BY <1>6, <2>2, <2>3
  <2> QED
    BY <2>4 DEF Granted
<1> QED
  BY <1>1, <1>3, <1>7, <1>8

(* An event taken for a new one is the first under its id, in the history  *)
(* as in the table.                                                        *)
LEMMA Recorded ==
    ASSUME Followed, NEW e \in Payloads, Record(e)
    PROVE  delivered' = Append(delivered, e) /\ events' = events \cup {e}
  BY DEF Followed, Record, NewEvent

LEMMA EntitlementsInit == Init => EntitlementsInv
<1> SUFFICES ASSUME Init PROVE EntitlementsInv
  OBVIOUS
<1>1. delivered = <<>> /\ DOMAIN delivered = {}
  BY DEF Init
<1>2. Granted = {} /\ ToSet(delivered) = {}
  BY <1>1 DEF Granted, ToSet
<1>3. Followed
  BY <1>1, <1>2 DEF Init, Followed
<1>4. PaidPlanIsPaidFor
  BY EntitlementsAssumption DEF Init, PaidPlanIsPaidFor
<1> QED
  BY <1>3, <1>4 DEF EntitlementsInv

LEMMA EntitlementsGrant ==
    ASSUME EntitlementsInv, NEW e \in Payloads, Grant(e)
    PROVE  EntitlementsInv'
<1> USE DEF EntitlementsInv
<1>1. /\ e.type = "granted" /\ Record(e) /\ active' = active \cup {e}
      /\ excuse' = IF e.plan = plan /\ e \notin past THEN "none" ELSE excuse
      /\ plan' = plan /\ past' = past
  BY DEF Grant
<1>2. delivered' = Append(delivered, e) /\ events' = events \cup {e}
  BY <1>1, Recorded
<1>3. /\ delivered' \in Seq(Payloads) /\ Granted' = Granted \cup {e}
      /\ ToSet(delivered') = ToSet(delivered) \cup {e}
  BY <1>1, <1>2, GrantedAppend DEF Followed
<1>4. Followed'
  BY <1>1, <1>2, <1>3 DEF Followed
<1>5. PaidPlanIsPaidFor'
  BY <1>1, <1>3 DEF PaidPlanIsPaidFor, PaidUntil
<1> QED
  BY <1>4, <1>5

LEMMA EntitlementsRevoke ==
    ASSUME EntitlementsInv, NEW e \in Payloads, Revoke(e)
    PROVE  EntitlementsInv'
<1> USE DEF EntitlementsInv
<1>1. /\ e.type = "revoked" /\ Record(e)
      /\ active' = {g \in active : g.plan # e.plan} /\ past' = past
      /\ plan' = IF plan = e.plan /\ CanFall(e) THEN FallbackOf(e) ELSE plan
      /\ excuse' = CASE plan' # plan -> "none"
                     [] plan' = plan /\ plan = e.plan -> "grace"
                     [] OTHER -> excuse
  BY DEF Revoke
<1>2. delivered' = Append(delivered, e) /\ events' = events \cup {e}
  BY <1>1, Recorded
<1>3. /\ delivered' \in Seq(Payloads)
      /\ Granted' = {g \in Granted : g.plan # e.plan}
      /\ ToSet(delivered') = ToSet(delivered) \cup {e}
  BY <1>1, <1>2, GrantedAppend DEF Followed
<1>4. Followed'
  BY <1>1, <1>2, <1>3 DEF Followed
<1>5. PaidPlanIsPaidFor'
  <2>1. CASE plan' # plan
    BY <1>1, <2>1 DEF CanFall, PaidPlanIsPaidFor
  <2>2. CASE plan' = plan /\ plan = e.plan
    BY <1>1, <2>2 DEF PaidPlanIsPaidFor
  <2>3. CASE plan' = plan /\ plan # e.plan
    <3>1. excuse' = excuse
      BY <1>1, <2>3
    <3> QED
      BY <1>1, <1>3, <2>3, <3>1 DEF PaidPlanIsPaidFor, PaidUntil
  <2> QED
    BY <2>1, <2>2, <2>3
<1> QED
  BY <1>4, <1>5

(* A plan is switched to only when free or entitled, and the entitlements  *)
(* are those in force.                                                     *)
LEMMA EntitlementsSubscribe ==
    ASSUME EntitlementsInv, NEW p \in Plans, Subscribe(p)
    PROVE  EntitlementsInv'
<1> USE DEF EntitlementsInv
<1>1. /\ p \in FreePlans \/ Entitled(p)
      /\ plan' = p /\ UNCHANGED <<events, active, past, delivered>>
  BY DEF Subscribe, MaySwitch
<1>2. Followed' /\ Granted' = Granted
  BY <1>1 DEF Followed, Granted, Stands
<1>3. PaidPlanIsPaidFor'
  BY <1>1, <1>2 DEF Followed, Entitled, PaidPlanIsPaidFor, PaidUntil
<1> QED
  BY <1>2, <1>3

LEMMA EntitlementsLapse ==
    ASSUME EntitlementsInv, NEW e \in Payloads, TimePasses(e)
    PROVE  EntitlementsInv'
<1> USE DEF EntitlementsInv
<1>1. /\ excuse' = IF PaidUntil(plan, past) /\ ~PaidUntil(plan, past')
                   THEN "lapse" ELSE excuse
      /\ UNCHANGED <<plan, events, active, delivered>>
  BY DEF TimePasses
<1>2. Followed' /\ Granted' = Granted
  BY <1>1 DEF Followed, Granted, Stands
<1>3. PaidUntil(plan, past)' <=> PaidUntil(plan, past')
  BY <1>1, <1>2 DEF PaidUntil
<1>4. PaidPlanIsPaidFor'
  BY <1>1, <1>3 DEF PaidPlanIsPaidFor
<1> QED
  BY <1>2, <1>4

(* Uploads, deletions and changes of status concern neither.               *)
LEMMA EntitlementsKept ==
    ASSUME EntitlementsInv,
           UNCHANGED <<plan, events, active, past, delivered, excuse>>
    PROVE  EntitlementsInv'
<1>1. Followed' /\ Granted' = Granted
  BY DEF EntitlementsInv, Followed, Granted, Stands
<1> QED
  BY <1>1 DEF EntitlementsInv, PaidPlanIsPaidFor, PaidUntil

LEMMA EntitlementsStep == EntitlementsInv /\ [Next]_vars => EntitlementsInv'
<1> SUFFICES ASSUME EntitlementsInv, [Next]_vars PROVE EntitlementsInv'
  OBVIOUS
<1>1. ASSUME NEW p \in Plans, Subscribe(p) PROVE EntitlementsInv'
  BY <1>1, EntitlementsSubscribe
<1>2. CASE Upload \/ Delete
  BY <1>2, EntitlementsKept DEF Upload, Delete
<1>3. ASSUME NEW s, SetStatus(s) PROVE EntitlementsInv'
  BY <1>3, EntitlementsKept DEF SetStatus
<1>4. ASSUME NEW e \in Payloads, Grant(e) PROVE EntitlementsInv'
  BY <1>4, EntitlementsGrant
<1>5. ASSUME NEW e \in Payloads, Revoke(e) PROVE EntitlementsInv'
  BY <1>5, EntitlementsRevoke
<1>6. ASSUME NEW e \in Payloads, TimePasses(e) PROVE EntitlementsInv'
  BY <1>6, EntitlementsLapse
<1>7. CASE UNCHANGED vars
  BY <1>7, EntitlementsKept DEF vars
<1> QED
  BY <1>1, <1>2, <1>3, <1>4, <1>5, <1>6, <1>7 DEF Next

(* Repeated deliveries, and other events under an id already used, change  *)
(* nothing: the entitlements are those of the first deliveries, in order.  *)
THEOREM FollowDeliveries == Spec => []EntitlementsFollowDeliveries
<1>1. EntitlementsInv => EntitlementsFollowDeliveries
  BY DEF EntitlementsInv, Followed, EntitlementsFollowDeliveries
<1> QED
  BY <1>1, EntitlementsInit, EntitlementsStep, PTL DEF Spec

(* A paid plan is held under a grant in force, or because a revocation had *)
(* nowhere to move the user, or because a grant lapsed while it was held.  *)
THEOREM PaidPlans == Spec => []PaidPlanIsPaidFor
<1>1. EntitlementsInv => PaidPlanIsPaidFor
  BY DEF EntitlementsInv
<1> QED
  BY <1>1, EntitlementsInit, EntitlementsStep, PTL DEF Spec

=============================================================================
