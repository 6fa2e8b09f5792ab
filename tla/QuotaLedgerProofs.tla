------------------------- MODULE QuotaLedgerProofs -------------------------
(***************************************************************************)
(* The counters of the ledger are exact and within the plan, for any       *)
(* finite set of items, any sizes and any catalogue of plans.              *)
(*                                                                         *)
(* A counter is compared with the number of bytes of a set of items.  The  *)
(* lemmas below say how that number moves when one item enters or leaves   *)
(* the set; every step of the ledger moves one item, so the theorem needs  *)
(* nothing else.                                                           *)
(***************************************************************************)
EXTENDS QuotaLedger, FiniteSetTheorems, TLAPS

(* The bytes of one item are as many as its size.                          *)
LEMMA OneItem ==
    ASSUME NEW i \in Items
    PROVE  /\ IsFiniteSet({i} \X (1 .. Size[i]))
           /\ Cardinality({i} \X (1 .. Size[i])) = Size[i]
<1>1. Size[i] \in Nat \ {0}
  BY LedgerAssumption
<1>2. IsFiniteSet({i}) /\ Cardinality({i}) = 1
  BY FS_Singleton
<1>3. IsFiniteSet(1 .. Size[i]) /\ Cardinality(1 .. Size[i]) = Size[i]
  <2>1. \A n \in Nat \ {0} : n >= 1 /\ n - 1 + 1 = n
    OBVIOUS
  <2>2. \A n \in Nat \ {0} : IsFiniteSet(1 .. n) /\ Cardinality(1 .. n) = n
    BY <2>1, FS_Interval
  <2> QED
    BY <1>1, <2>2
<1>4. /\ IsFiniteSet({i} \X (1 .. Size[i]))
      /\ Cardinality({i} \X (1 .. Size[i]))
           = Cardinality({i}) * Cardinality(1 .. Size[i])
  BY <1>2, <1>3, FS_Product
<1> QED
  BY <1>1, <1>2, <1>3, <1>4

(* A set of items has finitely many bytes.                                 *)
LEMMA BytesFinite ==
    ASSUME NEW S \in SUBSET Items
    PROVE  IsFiniteSet(Bytes(S)) /\ Cardinality(Bytes(S)) \in Nat
<1> DEFINE Block(i) == {i} \X (1 .. Size[i])
<1>1. IsFiniteSet(S)
  BY LedgerAssumption, FS_Subset
<1>2. IsFiniteSet({Block(i) : i \in S})
  <2> DEFINE f == [i \in S |-> Block(i)]
  <2>1. f \in Surjection(S, {Block(i) : i \in S})
    BY DEF Surjection
  <2> HIDE DEF f
  <2> QED
    BY <1>1, <2>1, FS_Surjection
<1>3. \A B \in {Block(i) : i \in S} : IsFiniteSet(B)
  BY OneItem
<1>4. IsFiniteSet(UNION {Block(i) : i \in S})
  BY <1>2, <1>3, FS_UNION
<1> QED
  BY <1>4, FS_CardinalityType DEF Bytes

(* One more item adds its size to the bytes of a set.                      *)
LEMMA BytesAdd ==
    ASSUME NEW S \in SUBSET Items, NEW i \in Items, i \notin S
    PROVE  Cardinality(Bytes(S \cup {i})) = Cardinality(Bytes(S)) + Size[i]
<1> DEFINE B == {i} \X (1 .. Size[i])
<1>1. Bytes(S \cup {i}) = Bytes(S) \cup B
  BY DEF Bytes
<1>2. Bytes(S) \cap B = {}
  BY DEF Bytes
<1>3. IsFiniteSet(Bytes(S)) /\ Cardinality(Bytes(S)) \in Nat
  BY BytesFinite
<1>4. IsFiniteSet(B) /\ Cardinality(B) = Size[i]
  BY OneItem
<1>5. Cardinality(Bytes(S) \cup B)
        = Cardinality(Bytes(S)) + Cardinality(B) - Cardinality(Bytes(S) \cap B)
  BY <1>3, <1>4, FS_Union
<1>6. Cardinality(Bytes(S) \cap B) = 0
  BY <1>2, FS_EmptySet
<1>7. Size[i] \in Nat
  BY LedgerAssumption
<1> HIDE DEF B
<1>8. Cardinality(Bytes(S) \cup B) = Cardinality(Bytes(S)) + Size[i]
  BY <1>3, <1>4, <1>5, <1>6, <1>7
<1> QED
  BY <1>1, <1>8

(* One item less takes its size off.                                       *)
LEMMA BytesRemove ==
    ASSUME NEW S \in SUBSET Items, NEW i \in S
    PROVE  Cardinality(Bytes(S \ {i})) = Cardinality(Bytes(S)) - Size[i]
<1>1. /\ S \ {i} \in SUBSET Items
      /\ i \in Items
      /\ i \notin S \ {i}
      /\ (S \ {i}) \cup {i} = S
  OBVIOUS
<1>2. Cardinality(Bytes(S)) = Cardinality(Bytes(S \ {i})) + Size[i]
  BY <1>1, BytesAdd
<1>3. Cardinality(Bytes(S \ {i})) \in Nat /\ Size[i] \in Nat
  BY <1>1, BytesFinite, LedgerAssumption
<1> QED
  BY <1>2, <1>3

(* The bytes of a set that holds an item are at least the item's.          *)
LEMMA BytesAtLeast ==
    ASSUME NEW S \in SUBSET Items, NEW i \in S
    PROVE  Size[i] <= Cardinality(Bytes(S))
<1>1. Cardinality(Bytes(S \ {i})) = Cardinality(Bytes(S)) - Size[i]
  BY BytesRemove
<1>2. Cardinality(Bytes(S \ {i})) \in Nat /\ Cardinality(Bytes(S)) \in Nat
  BY BytesFinite
<1>3. Size[i] \in Nat
  BY LedgerAssumption
<1> QED
  BY <1>1, <1>2, <1>3

-----------------------------------------------------------------------------

LedgerInv == TypeOK /\ CountersExact /\ WithinLimit

LEMMA LedgerInit == Init => LedgerInv
<1> SUFFICES ASSUME Init PROVE LedgerInv
  OBVIOUS
<1>1. TypeOK
  BY LedgerAssumption DEF Init, TypeOK, Phases
<1>2. In("held") = {} /\ In("charged") = {}
  BY DEF Init, In
<1>3. Bytes({}) = {}
  BY DEF Bytes
<1>4. CountersExact
  BY <1>2, <1>3, FS_EmptySet DEF Init, CountersExact
<1>5. WithinLimit
  BY LedgerAssumption DEF Init, WithinLimit
<1> QED
  BY <1>1, <1>4, <1>5 DEF LedgerInv

(* Every step of the ledger keeps the counters exact and within the plan.  *)
LEMMA LedgerStep == LedgerInv /\ [Next]_vars => LedgerInv'
<1> SUFFICES ASSUME LedgerInv, [Next]_vars PROVE LedgerInv'
  OBVIOUS
<1> USE DEF LedgerInv
<1> DEFINE Total(S) == Cardinality(Bytes(S))
<1>0. /\ \A i \in Items : Size[i] \in Nat \ {0}
      /\ \A l \in Limits : l \in Nat
      /\ In("held") \in SUBSET Items /\ In("charged") \in SUBSET Items
      /\ {"none", "held", "charged", "returned"} = Phases
  BY LedgerAssumption DEF In, Phases
<1>1. ASSUME NEW i \in Items, Hold(i) PROVE LedgerInv'
  <2>1. /\ In("held")' = In("held") \cup {i} /\ i \notin In("held")
        /\ In("charged")' = In("charged")
    <3>1. phase[i] = "none" /\ phase' = [phase EXCEPT ![i] = "held"]
      BY <1>1 DEF Hold
    <3> QED
      BY <1>0, <3>1 DEF TypeOK, In
  <2>2. Total(In("held") \cup {i}) = Total(In("held")) + Size[i]
    BY <1>0, <2>1, BytesAdd
  <2>3. CountersExact'
    BY <1>1, <2>1, <2>2 DEF Hold, CountersExact, Bytes
  <2>4. TypeOK' /\ WithinLimit'
    BY <1>0, <1>1 DEF Hold, Fits, TypeOK, WithinLimit
  <2> QED
    BY <2>3, <2>4
<1>2. ASSUME NEW i \in Items, Charge(i) PROVE LedgerInv'
  <2>1. /\ In("held")' = In("held") \ {i} /\ i \in In("held")
        /\ In("charged")' = In("charged") \cup {i} /\ i \notin In("charged")
    <3>1. phase[i] = "held" /\ phase' = [phase EXCEPT ![i] = "charged"]
      BY <1>2 DEF Charge
    <3> QED
      BY <1>0, <3>1 DEF TypeOK, In
  <2>2. /\ Total(In("held") \ {i}) = Total(In("held")) - Size[i]
        /\ Size[i] <= Total(In("held"))
        /\ Total(In("charged") \cup {i}) = Total(In("charged")) + Size[i]
    BY <1>0, <2>1, BytesAdd, BytesRemove, BytesAtLeast
  <2>3. CountersExact'
    BY <1>2, <2>1, <2>2 DEF Charge, CountersExact, Bytes
  <2>4. TypeOK' /\ WithinLimit'
    BY <1>0, <1>2, <2>2 DEF Charge, TypeOK, WithinLimit, CountersExact
  <2> QED
    BY <2>3, <2>4
<1>3. ASSUME NEW i \in Items, ChargeDirectly(i) PROVE LedgerInv'
  <2>1. /\ In("charged")' = In("charged") \cup {i} /\ i \notin In("charged")
        /\ In("held")' = In("held")
    <3>1. phase[i] = "none" /\ phase' = [phase EXCEPT ![i] = "charged"]
      BY <1>3 DEF ChargeDirectly
    <3> QED
      BY <1>0, <3>1 DEF TypeOK, In
  <2>2. Total(In("charged") \cup {i}) = Total(In("charged")) + Size[i]
    BY <1>0, <2>1, BytesAdd
  <2>3. CountersExact'
    BY <1>3, <2>1, <2>2 DEF ChargeDirectly, CountersExact, Bytes
  <2>4. TypeOK' /\ WithinLimit'
    BY <1>0, <1>3 DEF ChargeDirectly, Fits, TypeOK, WithinLimit
  <2> QED
    BY <2>3, <2>4
<1>4. ASSUME NEW i \in Items, Return(i) PROVE LedgerInv'
  <2>1. /\ In("held")' = In("held") \ {i} /\ i \in In("held")
        /\ In("charged")' = In("charged")
    <3>1. phase[i] = "held" /\ phase' = [phase EXCEPT ![i] = "returned"]
      BY <1>4 DEF Return
    <3> QED
      BY <1>0, <3>1 DEF TypeOK, In
  <2>2. /\ Total(In("held") \ {i}) = Total(In("held")) - Size[i]
        /\ Size[i] <= Total(In("held"))
    BY <1>0, <2>1, BytesRemove, BytesAtLeast
  <2>3. CountersExact'
    BY <1>4, <2>1, <2>2 DEF Return, CountersExact, Bytes
  <2>4. TypeOK' /\ WithinLimit'
    BY <1>0, <1>4, <2>2 DEF Return, TypeOK, WithinLimit, CountersExact
  <2> QED
    BY <2>3, <2>4
<1>5. ASSUME NEW i \in Items, Refund(i) PROVE LedgerInv'
  <2>1. /\ In("charged")' = In("charged") \ {i} /\ i \in In("charged")
        /\ In("held")' = In("held")
    <3>1. phase[i] = "charged" /\ phase' = [phase EXCEPT ![i] = "returned"]
      BY <1>5 DEF Refund
    <3> QED
      BY <1>0, <3>1 DEF TypeOK, In
  <2>2. /\ Total(In("charged") \ {i}) = Total(In("charged")) - Size[i]
        /\ Size[i] <= Total(In("charged"))
    BY <1>0, <2>1, BytesRemove, BytesAtLeast
  <2>3. CountersExact'
    BY <1>5, <2>1, <2>2 DEF Refund, CountersExact, Bytes
  <2>4. TypeOK' /\ WithinLimit'
    BY <1>0, <1>5, <2>2 DEF Refund, TypeOK, WithinLimit, CountersExact
  <2> QED
    BY <2>3, <2>4
<1>6. ASSUME NEW l \in Limits, SwitchPlan(l) PROVE LedgerInv'
  BY <1>0, <1>6
  DEF SwitchPlan, Fits, TypeOK, CountersExact, WithinLimit, In, Bytes
<1>7. CASE UNCHANGED vars
  BY <1>7 DEF vars, TypeOK, CountersExact, WithinLimit, In, Bytes
<1> QED
  BY <1>1, <1>2, <1>3, <1>4, <1>5, <1>6, <1>7 DEF Next

(* reservedUploadBytes is exactly the bytes held, storageUsed exactly the  *)
(* bytes charged, and together they never exceed the plan's limit.         *)
THEOREM LedgerSafe == Spec => [](TypeOK /\ CountersExact /\ WithinLimit)
<1>1. Init => LedgerInv
  BY LedgerInit
<1>2. LedgerInv /\ [Next]_vars => LedgerInv'
  BY LedgerStep
<1>3. LedgerInv => TypeOK /\ CountersExact /\ WithinLimit
  BY DEF LedgerInv
<1> QED
  BY <1>1, <1>2, <1>3, PTL DEF Spec

(* The counters are numbers: no release ever takes one below zero.         *)
THEOREM LedgerTypeOK == Spec => []TypeOK
<1>1. (TypeOK /\ CountersExact /\ WithinLimit) => TypeOK
  OBVIOUS
<1> QED
  BY <1>1, LedgerSafe, PTL

(* Whatever is held, charged, returned and refunded, and whatever plan the *)
(* account moves to, usage and promises stay within the plan.              *)
THEOREM LedgerWithinLimit == Spec => []WithinLimit
<1>1. (TypeOK /\ CountersExact /\ WithinLimit) => WithinLimit
  OBVIOUS
<1> QED
  BY <1>1, LedgerSafe, PTL

=============================================================================
