---------------------- MODULE UploadReservationProofs ----------------------
(***************************************************************************)
(* One-shot uploads: their types, what a sweep and a suspension may not    *)
(* do, the bytes behind their files, and that together with the rest of    *)
(* the account they implement the quota ledger.  For any number of         *)
(* requests, replicas, sizes and plans, and any other items of the account.*)
(*                                                                         *)
(* ReservationInv is inductive: no type is kept without the ledger's own   *)
(* invariant, because the rest of the account subtracts from the counters. *)
(***************************************************************************)
EXTENDS UploadReservation, FiniteSetTheorems, TLAPS

(* Everything that may hold or use the account's bytes.                    *)
Items == Uploads \cup Others

LP == INSTANCE QuotaLedgerProofs WITH
    Items <- Items,
    phase <- [i \in Items |-> Phase(i)]

LEMMA Facts ==
    /\ \A i \in Items : Size[i] \in Nat /\ Size[i] > 0
    /\ \A u \in Uploads : Size[u] \in Nat /\ Size[u] > 0
    /\ Uploads \cap Others = {}
    /\ \A l \in Limits : l \in Nat
    /\ Declared \subseteq Uploads
  BY ReservationAssumption DEF Items

-----------------------------------------------------------------------------
(* The ledger that all of the account's items share.                       *)

(* The constants of the uploads are those the ledger assumes.              *)
LEMMA LedgerAssumed == LP!LedgerAssumption
<1>1. IsFiniteSet(Items)
  BY ReservationAssumption, FS_Union DEF Items
<1>2. LP!IsFiniteSet(Items)
  BY <1>1 DEF LP!IsFiniteSet, IsFiniteSet
<1> QED
  BY <1>2, ReservationAssumption DEF LP!LedgerAssumption, Items

(* The two instances of the ledger have the same steps.                    *)
LEMMA LedgerSteps == [Ledger!Next]_(Ledger!vars) => [LP!Next]_(LP!vars)
  BY DEF Ledger!Next, LP!Next, Ledger!vars, LP!vars, Ledger!Hold, LP!Hold,
         Ledger!Charge, LP!Charge, Ledger!ChargeDirectly, LP!ChargeDirectly,
         Ledger!Return, LP!Return, Ledger!Refund, LP!Refund,
         Ledger!SwitchPlan, LP!SwitchPlan, Ledger!Fits, LP!Fits, Items

(* The bytes of an item that holds them are still in one counter, those of *)
(* a file in the other, whatever all the others did.                       *)
LEMMA CountedBytes ==
    ASSUME LP!LedgerInv, NEW i \in Items
    PROVE  /\ Phase(i) = "held" => Size[i] <= reserved
           /\ Phase(i) = "charged" => Size[i] <= used
<1>1. LP!In("held") \in SUBSET Items /\ LP!In("charged") \in SUBSET Items
  BY DEF LP!In
<1>2. /\ Phase(i) = "held" => i \in LP!In("held")
      /\ Phase(i) = "charged" => i \in LP!In("charged")
  BY DEF LP!In
<1>3. Phase(i) = "held" => Size[i] <= LP!Cardinality(LP!Bytes(LP!In("held")))
  BY <1>1, <1>2, LedgerAssumed, LP!BytesAtLeast
<1>4. Phase(i) = "charged" => Size[i] <= LP!Cardinality(LP!Bytes(LP!In("charged")))
  BY <1>1, <1>2, LedgerAssumed, LP!BytesAtLeast
<1> QED
  BY <1>3, <1>4 DEF LP!LedgerInv, LP!CountersExact

(* The rest of the account returns and refunds what its items have put     *)
(* into the counters, and gains nothing while the account is suspended.    *)
LEMMA OthersTypes ==
    ASSUME TypeOK, LP!LedgerInv, OthersMove
    PROVE  /\ reserved' \in Nat /\ used' \in Nat
           /\ other' \in [Others -> Rest!Phases]
           /\ account # "ACTIVE" => reserved' <= reserved /\ used' <= used
<1>1. PICK o \in Others :
         \/ /\ account = "ACTIVE"
            /\ Rest!Hold(o) \/ Rest!Charge(o)
         \/ Rest!Return(o) \/ Rest!Refund(o)
  BY DEF OthersMove
<1>2. /\ reserved \in Nat /\ used \in Nat /\ other \in [Others -> Rest!Phases]
      /\ Size[o] \in Nat
  BY Facts DEF TypeOK, Items
<1>3. /\ other[o] = "held" => Size[o] <= reserved
      /\ other[o] = "charged" => Size[o] <= used
  <2>1. o \in Items /\ o \notin Uploads
    BY Facts DEF Items
  <2>2. Phase(o) = other[o]
    BY <2>1 DEF Phase
  <2> QED
    BY <2>1, <2>2, CountedBytes
<1>4. CASE account = "ACTIVE" /\ (Rest!Hold(o) \/ Rest!Charge(o))
  BY <1>2, <1>3, <1>4 DEF Rest!Hold, Rest!Charge, Rest!Phases
<1>5. CASE Rest!Return(o) \/ Rest!Refund(o)
  BY <1>2, <1>3, <1>5 DEF Rest!Return, Rest!Refund, Rest!Phases
<1> QED
  BY <1>1, <1>4, <1>5

-----------------------------------------------------------------------------
(* Types.                                                                  *)

LEMMA TypeInit == Init => TypeOK
  BY DEF Init, TypeOK, States, Labels, Beating, Rest!Phases

LEMMA TypeStep == TypeOK /\ LP!LedgerInv /\ [Next]_vars => TypeOK'
<1> SUFFICES ASSUME TypeOK, LP!LedgerInv, [Next]_vars PROVE TypeOK'
  OBVIOUS
<1> USE Facts DEF TypeOK, States, Labels, Beating, Goto, AfterDiscard, quotaVars, sweepVars
<1>0. reserved \in Nat /\ used \in Nat /\ limit \in Nat
  OBVIOUS
<1>1. CASE Suspend \/ Reactivate
  BY <1>1 DEF Suspend, Reactivate
<1>2. ASSUME NEW l \in Limits, SwitchPlan(l) PROVE TypeOK'
  BY <1>2 DEF SwitchPlan
<1>3. ASSUME NEW u \in Uploads, Reserve(u) PROVE TypeOK'
  BY <1>3 DEF Reserve
<1>4. ASSUME NEW u \in Uploads, StartUndeclared(u) \/ LeaseLapses(u) \/ Crash(u)
      PROVE  TypeOK'
  BY <1>4 DEF StartUndeclared, LeaseLapses, Crash
<1>5. ASSUME NEW u \in Uploads, Renew(u) PROVE TypeOK'
  <2>1. stale' \in [Sweepers -> SUBSET Uploads]
    BY <1>5 DEF Renew
  <2> QED
    BY <1>5, <2>1 DEF Renew
<1>6. ASSUME NEW u \in Uploads, Stream(u) \/ Discard(u) PROVE TypeOK'
  BY <1>6 DEF Stream, Discard
<1>7. ASSUME NEW u \in Uploads, Commit(u) PROVE TypeOK'
  <2>1. used' = used + Size[u] /\ used' \in Nat
    BY <1>7 DEF Commit, Charge
  <2>2. reserved' \in Nat /\ state' \in [Uploads -> States]
    BY <1>7 DEF Commit, Charge, Admitted, AdmittedThen, Convertible
  <2>3. /\ file' \in [Uploads -> {"NONE", "ACTIVE", "DELETED"}]
        /\ pc' \in [Uploads -> Labels]
    BY <1>7 DEF Commit
  <2>4. UNCHANGED <<account, limit, other, lease, stored, listed, stale>>
    BY <1>7 DEF Commit, Charge
  <2> QED
    BY <2>1, <2>2, <2>3, <2>4
<1>8. ASSUME NEW u \in Uploads, CommitFails(u) PROVE TypeOK'
  BY <1>8 DEF CommitFails
<1>9. ASSUME NEW u \in Uploads, ReleaseOwn(u) PROVE TypeOK'
  BY <1>9 DEF ReleaseOwn, ReleaseRow, Less
<1>10. ASSUME NEW u \in Uploads, DeleteFile(u) \/ RemoveBytes(u) PROVE TypeOK'
  BY <1>10 DEF DeleteFile, RemoveBytes, Less
<1>11. ASSUME NEW w \in Sweepers, SweepList(w) PROVE TypeOK'
  <2>1. Lapsed \in SUBSET Uploads
    BY DEF Lapsed
  <2> QED
    BY <1>11, <2>1 DEF SweepList
<1>12. ASSUME NEW w \in Sweepers, NEW u \in Uploads,
              SweepRelease(w, u) \/ SweepSkip(w, u)
       PROVE  TypeOK'
  BY <1>12 DEF SweepRelease, SweepSkip, ReleaseRow, Tried, Less
<1>13. CASE UNCHANGED vars
  BY <1>13 DEF vars
<1>14. CASE OthersMove
  <2>1. limit' = limit
    BY <1>14 DEF OthersMove, Rest!Hold, Rest!Charge, Rest!Return, Rest!Refund
  <2> QED
    BY <1>14, <2>1, OthersTypes DEF OthersMove
<1> QED
  BY <1>1, <1>2, <1>3, <1>4, <1>5, <1>6, <1>7, <1>8, <1>9, <1>10, <1>11, <1>12,
     <1>13, <1>14
  DEF Next, Step

-----------------------------------------------------------------------------
(* The life of a row and its file.                                         *)

(* A row exists for an upload that declared its size and has reserved; a   *)
(* file, once its request has committed; a COMMITTED row and a file only   *)
(* together.                                                               *)
Life(u) ==
    /\ pc[u] = "idle" \/ u \notin Declared => state[u] = "NONE"
    /\ pc[u] \in {"idle", "stream", "commit"} => file[u] = "NONE"
    /\ state[u] \in {"PENDING", "RELEASED"} => file[u] = "NONE"
    /\ state[u] = "COMMITTED" => file[u] # "NONE"

Lives == \A u \in Uploads : Life(u)

(* A request whose transactions are acknowledged is done when its file is  *)
(* there, and it commits an object that is whole.                          *)
Whole(u) ==
    /\ pc[u] = "commit" => u \in stored
    /\ u \notin Unsure /\ file[u] = "ACTIVE" => pc[u] = "done" /\ u \in stored

Stored == \A u \in Uploads : Whole(u)

(* What a sweeper holds for lapsed is a row that was there, and is lapsed. *)
StaleIsLapsed ==
    \A w \in Sweepers : \A u \in stale[w] : state[u] # "NONE" /\ lease[u] = "lapsed"

RowInv == TypeOK /\ Lives /\ Stored /\ StaleIsLapsed

LEMMA RowInit == Init => RowInv
  BY TypeInit DEF Init, RowInv, Lives, Life, Stored, Whole, StaleIsLapsed

LEMMA LifeStep == RowInv /\ [Next]_vars => Lives'
<1> SUFFICES ASSUME RowInv, [Next]_vars, NEW v \in Uploads PROVE Life(v)'
  BY DEF Lives
<1>0. Life(v)
  BY DEF RowInv, Lives
<1> USE <1>0 DEF RowInv, TypeOK, States, Labels, Beating, Life, Goto, AfterDiscard, quotaVars, sweepVars
<1>1. CASE Suspend \/ Reactivate \/ OthersMove
  BY <1>1 DEF Suspend, Reactivate, OthersMove
<1>2. ASSUME NEW l \in Limits, SwitchPlan(l) PROVE Life(v)'
  BY <1>2 DEF SwitchPlan
<1>3. ASSUME NEW u \in Uploads, Reserve(u) PROVE Life(v)'
  BY <1>3 DEF Reserve
<1>4. ASSUME NEW u \in Uploads, StartUndeclared(u) \/ LeaseLapses(u) \/ Crash(u)
      PROVE  Life(v)'
  BY <1>4 DEF StartUndeclared, LeaseLapses, Crash
<1>5. ASSUME NEW u \in Uploads, Renew(u) PROVE Life(v)'
  BY <1>5 DEF Renew
<1>6. ASSUME NEW u \in Uploads, Stream(u) \/ Discard(u) \/ CommitFails(u)
      PROVE  Life(v)'
  BY <1>6 DEF Stream, Discard, CommitFails
<1>7. ASSUME NEW u \in Uploads, Commit(u) PROVE Life(v)'
  BY <1>7 DEF Commit, Charge, Admitted, AdmittedThen
<1>8. ASSUME NEW u \in Uploads, ReleaseOwn(u) PROVE Life(v)'
  BY <1>8 DEF ReleaseOwn, ReleaseRow
<1>9. ASSUME NEW u \in Uploads, DeleteFile(u) \/ RemoveBytes(u) PROVE Life(v)'
  BY <1>9 DEF DeleteFile, RemoveBytes
<1>10. ASSUME NEW w \in Sweepers, SweepList(w) PROVE Life(v)'
  BY <1>10 DEF SweepList
<1>11. ASSUME NEW w \in Sweepers, NEW u \in Uploads,
              SweepRelease(w, u) \/ SweepSkip(w, u)
       PROVE  Life(v)'
  BY <1>11 DEF SweepRelease, SweepSkip, ReleaseRow
<1>12. CASE UNCHANGED vars
  BY <1>12 DEF vars
<1> QED
  BY <1>1, <1>2, <1>3, <1>4, <1>5, <1>6, <1>7, <1>8, <1>9, <1>10, <1>11, <1>12
  DEF Next, Step

LEMMA WholeStep == RowInv /\ [Next]_vars => Stored'
<1> SUFFICES ASSUME RowInv, [Next]_vars, NEW v \in Uploads PROVE Whole(v)'
  BY DEF Stored
<1>0. Life(v) /\ Whole(v)
  BY DEF RowInv, Lives, Stored
<1> USE <1>0 DEF RowInv, TypeOK, Labels, Beating, Whole, Goto, AfterDiscard, quotaVars, sweepVars
<1>1. CASE Suspend \/ Reactivate \/ OthersMove
  BY <1>1 DEF Suspend, Reactivate, OthersMove
<1>2. ASSUME NEW l \in Limits, SwitchPlan(l) PROVE Whole(v)'
  BY <1>2 DEF SwitchPlan
<1>3. ASSUME NEW u \in Uploads, Reserve(u) PROVE Whole(v)'
  BY <1>3 DEF Reserve, Life
<1>4. ASSUME NEW u \in Uploads, StartUndeclared(u) \/ LeaseLapses(u) \/ Crash(u)
      PROVE  Whole(v)'
  BY <1>4 DEF StartUndeclared, LeaseLapses, Crash, Life
<1>5. ASSUME NEW u \in Uploads, Renew(u) PROVE Whole(v)'
  BY <1>5 DEF Renew
<1>6. ASSUME NEW u \in Uploads, Stream(u) PROVE Whole(v)'
  BY <1>6 DEF Stream, Life
<1>7. ASSUME NEW u \in Uploads, Commit(u) PROVE Whole(v)'
  BY <1>7 DEF Commit
<1>8. ASSUME NEW u \in Uploads, CommitFails(u) PROVE Whole(v)'
  BY <1>8 DEF CommitFails
<1>9. ASSUME NEW u \in Uploads, Discard(u) PROVE Whole(v)'
  BY <1>9 DEF Discard
<1>10. ASSUME NEW u \in Uploads, ReleaseOwn(u) PROVE Whole(v)'
  BY <1>10 DEF ReleaseOwn
<1>11. ASSUME NEW u \in Uploads, DeleteFile(u) \/ RemoveBytes(u) PROVE Whole(v)'
  BY <1>11 DEF DeleteFile, RemoveBytes, Life
<1>12. ASSUME NEW w \in Sweepers, SweepList(w) PROVE Whole(v)'
  BY <1>12 DEF SweepList
<1>13. ASSUME NEW w \in Sweepers, NEW u \in Uploads,
              SweepRelease(w, u) \/ SweepSkip(w, u)
       PROVE  Whole(v)'
  BY <1>13 DEF SweepRelease, SweepSkip
<1>14. CASE UNCHANGED vars
  BY <1>14 DEF vars
<1> QED
  BY <1>1, <1>2, <1>3, <1>4, <1>5, <1>6, <1>7, <1>8, <1>9, <1>10, <1>11, <1>12,
     <1>13, <1>14
  DEF Next, Step

(* A renewal takes its row from every sweeper's hands; a row is reserved   *)
(* before any sweeper has seen it.                                         *)
LEMMA StaleStep == RowInv /\ [Next]_vars => StaleIsLapsed'
<1> SUFFICES ASSUME RowInv, [Next]_vars, NEW x \in Sweepers, NEW v \in stale'[x]
             PROVE  state'[v] # "NONE" /\ lease'[v] = "lapsed"
  BY DEF StaleIsLapsed
<1> USE DEF RowInv, TypeOK, States, StaleIsLapsed, quotaVars, sweepVars
<1>1. ASSUME UNCHANGED <<state, lease, stale>>
      PROVE  state'[v] # "NONE" /\ lease'[v] = "lapsed"
  BY <1>1
<1>2. ASSUME NEW u \in Uploads, ReleaseRow(u), UNCHANGED <<lease, stale>>
      PROVE  state'[v] # "NONE" /\ lease'[v] = "lapsed"
  BY <1>2 DEF ReleaseRow
<1>3. ASSUME NEW u \in Uploads, Reserve(u)
      PROVE  state'[v] # "NONE" /\ lease'[v] = "lapsed"
  <2>1. state[u] = "NONE"
    BY <1>3 DEF Lives, Life, Reserve
  <2> QED
    BY <1>3, <2>1 DEF Reserve
<1>4. ASSUME NEW u \in Uploads, Renew(u)
      PROVE  state'[v] # "NONE" /\ lease'[v] = "lapsed"
  BY <1>4 DEF Renew
<1>5. ASSUME NEW u \in Uploads, Commit(u)
      PROVE  state'[v] # "NONE" /\ lease'[v] = "lapsed"
  BY <1>5 DEF Commit, Charge
<1>6. ASSUME NEW u \in Uploads, LeaseLapses(u)
      PROVE  state'[v] # "NONE" /\ lease'[v] = "lapsed"
  BY <1>6 DEF LeaseLapses
<1>7. ASSUME NEW w \in Sweepers, SweepList(w)
      PROVE  state'[v] # "NONE" /\ lease'[v] = "lapsed"
  BY <1>7 DEF SweepList, Lapsed
<1>8. ASSUME NEW u \in Uploads,
             \/ StartUndeclared(u) \/ Stream(u) \/ CommitFails(u) \/ Discard(u)
             \/ DeleteFile(u) \/ RemoveBytes(u) \/ Crash(u)
      PROVE  UNCHANGED <<state, lease, stale>>
  BY <1>8 DEF StartUndeclared, Stream, CommitFails, Discard, DeleteFile,
              RemoveBytes, Crash
<1>9. ASSUME NEW u \in Uploads, ReleaseOwn(u)
      PROVE  state'[v] # "NONE" /\ lease'[v] = "lapsed"
  BY <1>1, <1>2, <1>9 DEF ReleaseOwn
<1>10. ASSUME NEW w \in Sweepers, NEW u \in Uploads,
              SweepRelease(w, u) \/ SweepSkip(w, u)
       PROVE  state'[v] # "NONE" /\ lease'[v] = "lapsed"
  BY <1>1, <1>2, <1>10 DEF SweepRelease, SweepSkip
<1>11. CASE \/ Suspend \/ Reactivate \/ OthersMove \/ UNCHANGED vars
            \/ \E l \in Limits : SwitchPlan(l)
  BY <1>1, <1>11 DEF Suspend, Reactivate, OthersMove, SwitchPlan, vars
<1> QED
  BY <1>1, <1>3, <1>4, <1>5, <1>6, <1>7, <1>8, <1>9, <1>10, <1>11
  DEF Next, Step

LEMMA RowStep == RowInv /\ LP!LedgerInv /\ [Next]_vars => RowInv'
  BY TypeStep, LifeStep, WholeStep, StaleStep DEF RowInv

-----------------------------------------------------------------------------
(* The refinement of the ledger.                                           *)

phases == [i \in Items |-> Phase(i)]

LedgerStep == [Ledger!Next]_(Ledger!vars)

(* Nothing moves in the ledger while no row, file or counter changes.      *)
LEMMA Stutter ==
    ASSUME UNCHANGED <<state, file, other, reserved, used, limit>>
    PROVE  LedgerStep
<1>1. ASSUME NEW i \in Items PROVE Phase(i)' = Phase(i)
  BY DEF Phase, PhaseOf
<1> QED
  BY <1>1 DEF LedgerStep, Ledger!vars, Items

(* A row or a file that changes moves one item of the ledger.              *)
LEMMA OneMoves ==
    ASSUME NEW u \in Uploads, NEW ph, PhaseOf(u)' = ph,
           \A v \in Uploads \ {u} : UNCHANGED <<state[v], file[v]>>,
           UNCHANGED other
    PROVE  phases' = [phases EXCEPT ![u] = ph]
<1>1. Phase(u)' = ph
  BY DEF Phase
<1>2. ASSUME NEW i \in Items, i # u PROVE Phase(i)' = Phase(i)
  BY <1>2 DEF Phase, PhaseOf
<1> QED
  BY <1>1, <1>2 DEF phases

(* The ledger's view of one of the uploads.                                *)
LEMMA Viewed == \A u \in Uploads : phases[u] = PhaseOf(u) /\ u \in Items
  BY DEF phases, Phase, Items

(* A reservation is a hold.                                                *)
LEMMA ReserveHolds ==
    ASSUME RowInv, NEW u \in Uploads, Reserve(u)
    PROVE  LedgerStep
<1>1. state[u] = "NONE" /\ file[u] = "NONE"
  BY DEF RowInv, Lives, Life, Reserve
<1>2. /\ state'[u] = "PENDING" /\ file'[u] = "NONE"
      /\ \A v \in Uploads \ {u} : UNCHANGED <<state[v], file[v]>>
  BY <1>1 DEF Reserve, RowInv, TypeOK
<1>3. PhaseOf(u) = "none" /\ PhaseOf(u)' = "held"
  BY <1>1, <1>2 DEF PhaseOf
<1>4. phases' = [phases EXCEPT ![u] = "held"]
  BY <1>2, <1>3, OneMoves DEF Reserve
<1>5. Ledger!Hold(u)
  BY <1>3, <1>4, Viewed DEF Reserve, Fits, Ledger!Fits, Ledger!Hold, phases, Items
<1> QED
  BY <1>5, Viewed DEF LedgerStep, Ledger!Next, Items

(* The release of a PENDING row is a return, whoever makes it.             *)
LEMMA ReleaseReturns ==
    ASSUME RowInv, LP!LedgerInv, NEW u \in Uploads, ReleaseRow(u), UNCHANGED file
    PROVE  LedgerStep
<1>1. state[u] = "PENDING" /\ file[u] = "NONE"
  BY DEF ReleaseRow, RowInv, Lives, Life
<1>2. /\ state'[u] = "RELEASED" /\ file'[u] = "NONE"
      /\ \A v \in Uploads \ {u} : UNCHANGED <<state[v], file[v]>>
  BY <1>1 DEF ReleaseRow, RowInv, TypeOK
<1>3. PhaseOf(u) = "held" /\ PhaseOf(u)' = "returned"
  BY <1>1, <1>2 DEF PhaseOf
<1>4. phases' = [phases EXCEPT ![u] = "returned"]
  BY <1>2, <1>3, OneMoves DEF ReleaseRow
<1>5. reserved' = reserved - Size[u]
  BY <1>3, CountedBytes, Facts, Viewed DEF ReleaseRow, Less, RowInv, TypeOK, phases
<1>6. Ledger!Return(u)
  BY <1>3, <1>4, <1>5, Viewed DEF ReleaseRow, Ledger!Return, phases, Items
<1> QED
  BY <1>6, Viewed DEF LedgerStep, Ledger!Next, Items

(* A commit is a charge of what was held, or a direct charge.              *)
LEMMA CommitCharges ==
    ASSUME RowInv, NEW u \in Uploads, Commit(u)
    PROVE  LedgerStep
<1>1. AdmittedThen(u) /\ Charge(u) /\ file[u] = "NONE" /\ file'[u] = "ACTIVE"
  BY DEF Commit, Admitted, RowInv, TypeOK, Lives, Life
<1>2. \A v \in Uploads \ {u} : UNCHANGED <<state[v], file[v]>>
  BY DEF Commit, Charge, RowInv, TypeOK
<1>3. CASE u \in Declared
  <2>1. state[u] = "PENDING" /\ state'[u] = "COMMITTED"
    BY <1>1, <1>3 DEF AdmittedThen, Charge, RowInv, TypeOK
  <2>2. PhaseOf(u) = "held" /\ PhaseOf(u)' = "charged"
    BY <1>1, <2>1 DEF PhaseOf
  <2>3. phases' = [phases EXCEPT ![u] = "charged"]
    BY <1>2, <2>2, OneMoves DEF Commit, Charge
  <2>4. Ledger!Charge(u)
    BY <1>1, <1>3, <2>2, <2>3, Viewed DEF Charge, Ledger!Charge, phases, Items
  <2> QED
    BY <2>4, Viewed DEF LedgerStep, Ledger!Next, Items
<1>4. CASE u \notin Declared
  <2>1. state[u] = "NONE" /\ state'[u] = "NONE"
    BY <1>1, <1>4 DEF Charge, RowInv, Lives, Life
  <2>2. PhaseOf(u) = "none" /\ PhaseOf(u)' = "charged"
    BY <1>1, <2>1 DEF PhaseOf
  <2>3. phases' = [phases EXCEPT ![u] = "charged"]
    BY <1>2, <2>2, OneMoves DEF Commit, Charge
  <2>4. Ledger!ChargeDirectly(u)
    BY <1>1, <1>4, <2>2, <2>3, Viewed
    DEF AdmittedThen, Fits, Ledger!Fits, Charge, Ledger!ChargeDirectly, phases, Items
  <2> QED
    BY <2>4, Viewed DEF LedgerStep, Ledger!Next, Items
<1> QED
  BY <1>3, <1>4

(* A deletion is a refund.                                                 *)
LEMMA DeleteRefunds ==
    ASSUME RowInv, LP!LedgerInv, NEW u \in Uploads, DeleteFile(u)
    PROVE  LedgerStep
<1>1. /\ file[u] = "ACTIVE" /\ file'[u] = "DELETED"
      /\ state[u] \notin {"PENDING", "RELEASED"} /\ state'[u] = state[u]
      /\ used' = Less(used, Size[u]) /\ UNCHANGED <<reserved, limit>>
      /\ \A v \in Uploads \ {u} : UNCHANGED <<state[v], file[v]>>
  BY DEF DeleteFile, RowInv, TypeOK, Lives, Life
<1>2. PhaseOf(u) = "charged" /\ PhaseOf(u)' = "returned"
  BY <1>1 DEF PhaseOf
<1>3. phases' = [phases EXCEPT ![u] = "returned"]
  BY <1>1, <1>2, OneMoves DEF DeleteFile
<1>4. used' = used - Size[u]
  BY <1>1, <1>2, CountedBytes, Facts, Viewed DEF Less, RowInv, TypeOK, phases
<1>5. Ledger!Refund(u)
  BY <1>1, <1>2, <1>3, <1>4, Viewed DEF Ledger!Refund, phases, Items
<1> QED
  BY <1>5, Viewed DEF LedgerStep, Ledger!Next, Items

(* What the rest of the account does is a step of the shared ledger.       *)
LEMMA OthersMoveLedger ==
    ASSUME TypeOK, OthersMove
    PROVE  LedgerStep
<1>1. PICK o \in Others :
         Rest!Hold(o) \/ Rest!Charge(o) \/ Rest!Return(o) \/ Rest!Refund(o)
  BY DEF OthersMove
<1>2. o \in Items /\ o \notin Uploads
  BY Facts DEF Items
<1>3. phases[o] = other[o]
  BY <1>2 DEF phases, Phase
<1>4. ASSUME NEW ph, other' = [other EXCEPT ![o] = ph]
      PROVE  phases' = [phases EXCEPT ![o] = ph]
  <2>1. Phase(o)' = ph
    BY <1>2, <1>4 DEF Phase, TypeOK
  <2>2. ASSUME NEW i \in Items, i # o PROVE Phase(i)' = Phase(i)
    BY <1>4, <2>2 DEF Phase, PhaseOf, OthersMove, TypeOK, Items
  <2> QED
    BY <2>1, <2>2 DEF phases
<1>5. CASE Rest!Hold(o)
  BY <1>2, <1>3, <1>4, <1>5
  DEF Rest!Hold, Rest!Fits, Ledger!Hold, Ledger!Fits, phases, Items, LedgerStep,
      Ledger!Next
<1>6. CASE Rest!Charge(o)
  BY <1>2, <1>3, <1>4, <1>6
  DEF Rest!Charge, Ledger!Charge, phases, Items, LedgerStep, Ledger!Next
<1>7. CASE Rest!Return(o)
  BY <1>2, <1>3, <1>4, <1>7
  DEF Rest!Return, Ledger!Return, phases, Items, LedgerStep, Ledger!Next
<1>8. CASE Rest!Refund(o)
  BY <1>2, <1>3, <1>4, <1>8
  DEF Rest!Refund, Ledger!Refund, phases, Items, LedgerStep, Ledger!Next
<1> QED
  BY <1>1, <1>5, <1>6, <1>7, <1>8

(* Every step of the uploads is a step of the ledger or none.              *)
LEMMA StepsLedger ==
    ASSUME RowInv, LP!LedgerInv, [Next]_vars
    PROVE  LedgerStep
<1> USE DEF quotaVars, sweepVars
<1>1. CASE Suspend \/ Reactivate \/ UNCHANGED vars
  BY <1>1, Stutter DEF Suspend, Reactivate, vars
<1>2. ASSUME NEW l \in Limits, SwitchPlan(l) PROVE LedgerStep
  <2>1. phases' = phases
    BY <1>2 DEF SwitchPlan, phases, Phase, PhaseOf
  <2>3. Ledger!Fits(0, l)
    BY <1>2, Facts DEF SwitchPlan, Ledger!Fits, RowInv, TypeOK
  <2>4. Ledger!SwitchPlan(l)
    BY <1>2, <2>1, <2>3 DEF SwitchPlan, Ledger!SwitchPlan, phases, Items
  <2> QED
    BY <2>4 DEF LedgerStep, Ledger!Next
<1>3. ASSUME NEW u \in Uploads,
             \/ StartUndeclared(u) \/ Renew(u) \/ Stream(u) \/ CommitFails(u)
             \/ Discard(u) \/ RemoveBytes(u) \/ LeaseLapses(u) \/ Crash(u)
      PROVE  LedgerStep
  BY <1>3, Stutter
  DEF StartUndeclared, Renew, Stream, CommitFails, Discard, RemoveBytes,
      LeaseLapses, Crash
<1>4. ASSUME NEW u \in Uploads, ReleaseOwn(u) PROVE LedgerStep
  BY <1>4, Stutter, ReleaseReturns DEF ReleaseOwn
<1>5. ASSUME NEW w \in Sweepers, SweepList(w) PROVE LedgerStep
  BY <1>5, Stutter DEF SweepList
<1>6. ASSUME NEW w \in Sweepers, NEW u \in Uploads,
             SweepRelease(w, u) \/ SweepSkip(w, u)
      PROVE  LedgerStep
  BY <1>6, Stutter, ReleaseReturns DEF SweepRelease, SweepSkip
<1> QED
  BY <1>1, <1>2, <1>3, <1>4, <1>5, <1>6, ReserveHolds, CommitCharges,
     DeleteRefunds, OthersMoveLedger
  DEF Next, Step, RowInv

(* The inductive invariant of the refinement: the ledger's own invariant   *)
(* shows that a release or a refund moves exactly the bytes of its upload. *)
ReservationInv == RowInv /\ LP!LedgerInv

LEMMA ReservationInit == Init => ReservationInv /\ Ledger!Init
<1> SUFFICES ASSUME Init PROVE ReservationInv /\ Ledger!Init
  OBVIOUS
<1>1. phases = [i \in Items |-> "none"]
  BY DEF Init, Phase, PhaseOf, phases, Items
<1>2. LP!Init /\ Ledger!Init
  BY <1>1 DEF Init, LP!Init, Ledger!Init, phases, Items
<1>3. LP!LedgerInv
  BY <1>2, LedgerAssumed, LP!LedgerInit
<1> QED
  BY <1>2, <1>3, RowInit DEF ReservationInv

LEMMA ReservationStep ==
    ReservationInv /\ [Next]_vars => ReservationInv' /\ LedgerStep
<1> SUFFICES ASSUME ReservationInv, [Next]_vars
             PROVE  ReservationInv' /\ LedgerStep
  OBVIOUS
<1>1. LedgerStep
  BY StepsLedger DEF ReservationInv
<1>2. LP!LedgerInv'
  BY <1>1, LedgerSteps, LedgerAssumed, LP!LedgerStep
  DEF ReservationInv, LedgerStep
<1> QED
  BY <1>1, <1>2, RowStep DEF ReservationInv

-----------------------------------------------------------------------------
(* What holds of every one-shot upload.                                    *)

(* Rows, counters, requests and sweeps are always what they are declared   *)
(* to be; in particular neither counter goes below zero.                   *)
THEOREM ReservationTypeOK == Spec => []TypeOK
<1>1. ReservationInv => TypeOK
  BY DEF ReservationInv, RowInv
<1> QED
  BY <1>1, ReservationInit, ReservationStep, PTL DEF Spec

(* A file that has not been deleted has its bytes: no failure, cleanup or  *)
(* removal of its request takes them, unless a commit is not acknowledged. *)
THEOREM ReservationFilesHaveBytes == Spec => []FilesHaveBytes
<1>1. RowInv => FilesHaveBytes
  BY DEF RowInv, Stored, Whole, FilesHaveBytes
<1> QED
  BY <1>1, ReservationInit, ReservationStep, PTL DEF Spec, ReservationInv

(* No sweep releases a reservation that was renewed after it was listed.   *)
THEOREM ReservationLiveUploadIsKept == Spec => LiveUploadIsKept
<1> DEFINE Kept ==
      \A u \in Uploads :
        (state[u] = "PENDING" /\ state'[u] = "RELEASED" /\ lease[u] = "live")
          => pc[u] = "release"
<1>1. RowInv /\ [Next]_vars => [Kept]_vars
  <2> SUFFICES ASSUME RowInv, Next, NEW v \in Uploads,
                      state[v] = "PENDING", state'[v] = "RELEASED",
                      lease[v] = "live"
               PROVE  pc[v] = "release"
    OBVIOUS
  <2> USE DEF RowInv, TypeOK, States, quotaVars, sweepVars
  <2>1. ASSUME NEW u \in Uploads, ReleaseRow(u) PROVE u = v
    BY <2>1 DEF ReleaseRow
  <2>2. ASSUME NEW u \in Uploads, ReleaseOwn(u) PROVE pc[v] = "release"
    BY <2>1, <2>2 DEF ReleaseOwn
  <2>3. ASSUME NEW w \in Sweepers, NEW u \in Uploads, SweepRelease(w, u)
        PROVE  FALSE
    BY <2>1, <2>3 DEF SweepRelease, SweepMayRelease, StaleIsLapsed
  <2>4. ASSUME NEW w \in Sweepers, NEW u \in Uploads, SweepSkip(w, u)
        PROVE  FALSE
    BY <2>4 DEF SweepSkip
  <2>5. ASSUME NEW u \in Uploads, Reserve(u) \/ Commit(u) PROVE FALSE
    BY <2>5 DEF Reserve, Commit, Charge
  <2>6. ASSUME NEW u \in Uploads,
               \/ StartUndeclared(u) \/ Renew(u) \/ Stream(u) \/ CommitFails(u)
               \/ Discard(u) \/ DeleteFile(u) \/ RemoveBytes(u)
               \/ LeaseLapses(u) \/ Crash(u)
        PROVE  FALSE
    BY <2>6 DEF StartUndeclared, Renew, Stream, CommitFails, Discard,
                DeleteFile, RemoveBytes, LeaseLapses, Crash
  <2>7. CASE \/ Suspend \/ Reactivate \/ OthersMove \/ \E l \in Limits : SwitchPlan(l)
             \/ \E w \in Sweepers : SweepList(w)
    BY <2>7 DEF Suspend, Reactivate, OthersMove, SwitchPlan, SweepList
  <2> QED
    BY <2>2, <2>3, <2>4, <2>5, <2>6, <2>7 DEF Next, Step
<1> QED
  BY <1>1, ReservationInit, ReservationStep, PTL
  DEF Spec, ReservationInv, LiveUploadIsKept

(* Nothing is gained by an account that is suspended, whatever was already *)
(* on its way: a commit admits only under an ACTIVE account.               *)
THEOREM ReservationSuspendedGainsNothing == Spec => SuspendedGainsNothing
<1> DEFINE NoGain ==
      account # "ACTIVE" =>
        /\ used' <= used
        /\ reserved' <= reserved
        /\ \A u \in Uploads : file[u] = "NONE" => file'[u] = "NONE"
<1>1. ReservationInv /\ [Next]_vars => [NoGain]_vars
  <2> SUFFICES ASSUME TypeOK, LP!LedgerInv, Next, account # "ACTIVE"
               PROVE  NoGain
    BY DEF ReservationInv, RowInv
  <2>0. reserved \in Nat /\ used \in Nat /\ reserved <= reserved /\ used <= used
    BY DEF TypeOK
  <2>1. ASSUME NEW n \in Nat, NEW u \in Uploads PROVE Less(n, Size[u]) <= n
    BY Facts DEF Less, Items
  <2> USE <2>0 DEF quotaVars, sweepVars
  <2>2. ASSUME NEW u \in Uploads, ReleaseRow(u), UNCHANGED file PROVE NoGain
    BY <2>1, <2>2 DEF ReleaseRow
  <2>3. ASSUME NEW u \in Uploads, Reserve(u) \/ Commit(u) PROVE FALSE
    BY <2>3 DEF Reserve, Commit, Admitted
  <2>4. ASSUME NEW u \in Uploads, DeleteFile(u) PROVE NoGain
    <3>1. \A v \in Uploads : file[v] = "NONE" => file'[v] = "NONE"
      BY <2>4 DEF DeleteFile, TypeOK
    <3> QED
      BY <2>1, <2>4, <3>1 DEF DeleteFile
  <2>5. ASSUME NEW u \in Uploads,
               \/ StartUndeclared(u) \/ Renew(u) \/ Stream(u) \/ CommitFails(u)
               \/ Discard(u) \/ RemoveBytes(u) \/ LeaseLapses(u) \/ Crash(u)
        PROVE  NoGain
    BY <2>5 DEF StartUndeclared, Renew, Stream, CommitFails, Discard,
                RemoveBytes, LeaseLapses, Crash
  <2>6. ASSUME NEW u \in Uploads, ReleaseOwn(u) PROVE NoGain
    BY <2>2, <2>6 DEF ReleaseOwn
  <2>7. ASSUME NEW w \in Sweepers, NEW u \in Uploads,
               SweepRelease(w, u) \/ SweepSkip(w, u)
        PROVE  NoGain
    BY <2>2, <2>7 DEF SweepRelease, SweepSkip
  <2>8. CASE \/ Suspend \/ Reactivate \/ \E l \in Limits : SwitchPlan(l)
             \/ \E w \in Sweepers : SweepList(w)
    BY <2>8 DEF Suspend, Reactivate, SwitchPlan, SweepList
  <2>9. CASE OthersMove
    BY <2>9, OthersTypes DEF OthersMove
  <2> QED
    BY <2>3, <2>4, <2>5, <2>6, <2>7, <2>8, <2>9 DEF Next, Step
<1> QED
  BY <1>1, ReservationInit, ReservationStep, PTL
  DEF Spec, SuspendedGainsNothing

(* One-shot uploads implement the ledger: the commit, the request's own    *)
(* cleanup, the sweepers of all replicas and the deletions charge, return  *)
(* and refund the bytes of an upload at most once each.                    *)
THEOREM ReservationKeepsLedger == Spec => KeepsLedger
<1>1. Init => ReservationInv /\ Ledger!Init
  BY ReservationInit
<1>2. ReservationInv /\ [Next]_vars
        => ReservationInv' /\ [Ledger!Next]_(Ledger!vars)
  BY ReservationStep DEF LedgerStep
<1> QED
  BY <1>1, <1>2, PTL DEF Spec, KeepsLedger, Ledger!Spec

(* The ledger's invariant, in the words of the ledger the uploads keep.    *)
LEMMA LedgerCounts ==
    LP!LedgerInv => Ledger!CountersExact /\ Ledger!WithinLimit
<1>1. ASSUME NEW S PROVE LP!Cardinality(S) = Ledger!Cardinality(S)
  BY DEF LP!Cardinality, Ledger!Cardinality
<1> QED
  BY <1>1
  DEF LP!LedgerInv, LP!CountersExact, Ledger!CountersExact, LP!In, Ledger!In,
      LP!Bytes, Ledger!Bytes, LP!WithinLimit, Ledger!WithinLimit, Items

(* However an upload ends, and whatever crashed in between, the counters   *)
(* are exactly the bytes of the PENDING rows and of the files that are not *)
(* deleted: no bytes stay reserved for an upload that is over.             *)
THEOREM ReservationCountersExact == Spec => []Ledger!CountersExact
<1>1. Init => ReservationInv
  BY ReservationInit
<1>2. ReservationInv /\ [Next]_vars => ReservationInv'
  BY ReservationStep
<1>3. ReservationInv => Ledger!CountersExact
  BY LedgerCounts DEF ReservationInv
<1> QED
  BY <1>1, <1>2, <1>3, PTL DEF Spec

(* Uploads that start at the same time never take an account over its      *)
(* plan's storage.                                                         *)
THEOREM ReservationWithinLimit == Spec => []Ledger!WithinLimit
<1>1. Init => ReservationInv
  BY ReservationInit
<1>2. ReservationInv /\ [Next]_vars => ReservationInv'
  BY ReservationStep
<1>3. ReservationInv => Ledger!WithinLimit
  BY LedgerCounts DEF ReservationInv
<1> QED
  BY <1>1, <1>2, <1>3, PTL DEF Spec

=============================================================================
