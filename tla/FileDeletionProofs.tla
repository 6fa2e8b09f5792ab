------------------------- MODULE FileDeletionProofs -------------------------
(***************************************************************************)
(* The queue of deletions, for any number of files and workers, attempts,  *)
(* batches and requeues: the bytes of a deleted file are not forgotten, a  *)
(* late worker changes nothing, and a live claim is left alone.            *)
(***************************************************************************)
EXTENDS FileDeletion, TLAPS

TaskSet == [file : Files, attempt : Nat, stage : Stages, round : Nat, serial : Nat]

LEMMA TypeInit == Init => TypeOK
  BY DEF Init, TypeOK, Statuses

(* A settlement changes one job that is pending, and unlocks it.           *)
LEMMA SettleTypes ==
    ASSUME TypeOK, NEW t \in tasks, NEW st \in {"PENDING", "DONE", "DEAD"},
           NEW b \in BOOLEAN, Settle(t, st, b)
    PROVE  TypeOK'
<1>1. t \in TaskSet /\ t.file \in Files
  BY DEF TypeOK, TaskSet
<1>2. CASE MaySettle(t)
  BY <1>1, <1>2 DEF Settle, TypeOK, Statuses, TaskSet, history
<1>3. CASE ~MaySettle(t)
  BY <1>1, <1>3 DEF Settle, TypeOK, history
<1> QED
  BY <1>2, <1>3

LEMMA ClaimTypes ==
    ASSUME TypeOK, NEW S \in SUBSET Files, Claim(S)
    PROVE  TypeOK'
<1>1. \A f \in S : status[f] = "PENDING"
  BY DEF Claim, Claimable
<1>2. \A f \in S : Task(f, "claimed") \in TaskSet
  BY DEF Task, TaskSet, TypeOK, Stages
<1>3. tasks' \subseteq TaskSet
  BY <1>2 DEF Claim, TypeOK, TaskSet
<1>4. /\ attempts' \in [Files -> Nat] /\ claims' \in [Files -> Nat]
      /\ lease' \in [Files -> {"none", "live", "lapsed"}]
  BY DEF Claim, TypeOK
<1>5. ASSUME NEW f \in Files
      PROVE  attempts'[f] <= claims'[f] /\ (status'[f] # "PENDING" => lease'[f] = "none")
  BY <1>1, <1>5 DEF Claim, TypeOK
<1> QED
  BY <1>3, <1>4, <1>5 DEF Claim, TypeOK, TaskSet

LEMMA TypeStep == TypeOK /\ [Next]_vars => TypeOK'
<1> SUFFICES ASSUME TypeOK, [Next]_vars PROVE TypeOK'
  OBVIOUS
<1> USE DEF TypeOK, Statuses, Stages, history, jobVars
<1>1. ASSUME NEW f \in Files, DeleteFile(f) PROVE TypeOK'
  BY <1>1 DEF DeleteFile
<1>2. ASSUME NEW f \in Files, Prune(f) PROVE TypeOK'
  BY <1>2 DEF Prune
<1>3. ASSUME NEW f \in Files, LeaseLapses(f) \/ BackoffEnds(f) PROVE TypeOK'
  BY <1>3 DEF LeaseLapses, BackoffEnds
<1>4. ASSUME NEW t \in tasks, DeleteObject(t) PROVE TypeOK'
  BY <1>4 DEF DeleteObject
<1>5. ASSUME NEW t \in tasks, SettleDone(t) PROVE TypeOK'
  BY <1>5, SettleTypes DEF SettleDone
<1>6. ASSUME NEW t \in tasks, SettleFailed(t) PROVE TypeOK'
  BY <1>6, SettleTypes DEF SettleFailed
<1>7. ASSUME NEW t \in tasks, Lost(t) PROVE TypeOK'
  BY <1>7 DEF Lost
<1>8. CASE DeadLetter
  BY <1>8 DEF DeadLetter, Exhausted
<1>9. CASE Requeue
  BY <1>9 DEF Requeue, Dead
<1>10. CASE UNCHANGED vars
  BY <1>10 DEF vars
<1> QED
  BY <1>1, <1>2, <1>3, <1>4, <1>5, <1>6, <1>7, <1>8, <1>9, <1>10, ClaimTypes
  DEF Next

(* Jobs and claims are what they are declared to be; only a pending job is *)
(* locked.                                                                 *)
THEOREM DeletionTypeOK == Spec => []TypeOK
  BY TypeInit, TypeStep, PTL DEF Spec

-----------------------------------------------------------------------------
(* What a worker that is told an object is gone knows stays true: nothing  *)
(* is stored again.                                                        *)
GoneIsGone == \A t \in tasks : t.stage = "gone" => t.file \notin stored

(* Within a round, attempts and claims are counted together: the number a  *)
(* claim has is as far behind the row as the claim is behind the newest.   *)
Counted ==
    \A t \in tasks :
        /\ t.round <= requeued[t.file]
        /\ t.round = requeued[t.file]
             => t.serial - t.attempt = claims[t.file] - attempts[t.file]

JobInv == TypeOK /\ GoneIsGone /\ LeftoverBytesAreQueued /\ Counted

LEMMA JobInit == Init => JobInv
  BY TypeInit DEF Init, JobInv, GoneIsGone, LeftoverBytesAreQueued, Counted

LEMMA GoneStep == JobInv /\ [Next]_vars => GoneIsGone'
<1> SUFFICES ASSUME JobInv, [Next]_vars PROVE GoneIsGone'
  OBVIOUS
<1> USE DEF JobInv, GoneIsGone, jobVars, history
<1>1. ASSUME stored' = stored, tasks' \subseteq tasks PROVE GoneIsGone'
  BY <1>1
<1>2. ASSUME NEW S \in SUBSET Files, Claim(S) PROVE GoneIsGone'
  BY <1>2 DEF Claim, Task
<1>3. ASSUME NEW t \in tasks, DeleteObject(t) PROVE GoneIsGone'
  <2>1. t \in TaskSet
    BY DEF TypeOK, TaskSet
  <2> QED
    BY <1>3, <2>1 DEF DeleteObject, TaskSet
<1>4. ASSUME NEW t \in tasks, SettleDone(t) \/ SettleFailed(t) \/ Lost(t)
      PROVE  GoneIsGone'
  BY <1>1, <1>4 DEF SettleDone, SettleFailed, Settle, Lost
<1>5. CASE \/ \E f \in Files :
                 DeleteFile(f) \/ Prune(f) \/ LeaseLapses(f) \/ BackoffEnds(f)
           \/ DeadLetter \/ Requeue \/ UNCHANGED vars
  BY <1>1, <1>5
  DEF DeleteFile, Prune, LeaseLapses, BackoffEnds, DeadLetter, Requeue, vars
<1> QED
  BY <1>2, <1>3, <1>4, <1>5 DEF Next

(* A job ends DONE by a worker that found the object gone, and only such a *)
(* job is pruned.                                                          *)
LEMMA LeftoverStep == JobInv /\ [Next]_vars => LeftoverBytesAreQueued'
<1> SUFFICES ASSUME JobInv, [Next]_vars, NEW g \in stored', file'[g] = "DELETED"
             PROVE  status'[g] \in {"PENDING", "DEAD"}
  BY DEF LeftoverBytesAreQueued
<1> USE DEF JobInv, TypeOK, Statuses, LeftoverBytesAreQueued, jobVars, history
<1>1. ASSUME g \in stored, UNCHANGED <<file, status>>
      PROVE  status'[g] \in {"PENDING", "DEAD"}
  BY <1>1
<1>2. ASSUME NEW f \in Files, DeleteFile(f)
      PROVE  status'[g] \in {"PENDING", "DEAD"}
  BY <1>2 DEF DeleteFile
<1>3. ASSUME NEW f \in Files, Prune(f)
      PROVE  status'[g] \in {"PENDING", "DEAD"}
  BY <1>3 DEF Prune
<1>4. ASSUME NEW t \in tasks, SettleDone(t) \/ SettleFailed(t)
      PROVE  status'[g] \in {"PENDING", "DEAD"}
  <2>1. t.file \in Files
    BY DEF TaskSet
  <2>2. CASE SettleDone(t)
    <3>1. t.file # g
      BY <2>2 DEF SettleDone, Settle, GoneIsGone
    <3> QED
      BY <2>1, <2>2, <3>1 DEF SettleDone, Settle
  <2>3. CASE SettleFailed(t)
    BY <2>1, <2>3 DEF SettleFailed, Settle
  <2> QED
    BY <1>4, <2>2, <2>3
<1>5. ASSUME NEW S \in SUBSET Files, Claim(S)
      PROVE  status'[g] \in {"PENDING", "DEAD"}
  BY <1>1, <1>5 DEF Claim
<1>6. ASSUME NEW t \in tasks, DeleteObject(t) \/ Lost(t)
      PROVE  status'[g] \in {"PENDING", "DEAD"}
  BY <1>1, <1>6 DEF DeleteObject, Lost
<1>7. CASE DeadLetter
  BY <1>7 DEF DeadLetter
<1>8. CASE Requeue
  BY <1>8 DEF Requeue
<1>9. CASE UNCHANGED vars \/ \E f \in Files : LeaseLapses(f) \/ BackoffEnds(f)
  BY <1>1, <1>9 DEF LeaseLapses, BackoffEnds, vars
<1> QED
  BY <1>2, <1>3, <1>4, <1>5, <1>6, <1>7, <1>8, <1>9 DEF Next

LEMMA CountedStep == JobInv /\ [Next]_vars => Counted'
<1> SUFFICES ASSUME JobInv, [Next]_vars PROVE Counted'
  OBVIOUS
<1> USE DEF JobInv, Counted, jobVars, history
<1>0. \A t \in tasks : t \in TaskSet
  BY DEF TypeOK, TaskSet
<1>1. ASSUME tasks' \subseteq tasks, UNCHANGED <<attempts, claims, requeued>>
      PROVE  Counted'
  BY <1>1
<1>2. ASSUME NEW S \in SUBSET Files, Claim(S) PROVE Counted'
  <2> SUFFICES ASSUME NEW t \in tasks'
               PROVE  /\ t.round <= requeued'[t.file]
                      /\ t.round = requeued'[t.file]
                           => t.serial - t.attempt = claims'[t.file] - attempts'[t.file]
    OBVIOUS
  <2>1. requeued' = requeued
    BY <1>2 DEF Claim
  <2>2. \A f \in Files :
          /\ attempts[f] \in Nat /\ claims[f] \in Nat /\ requeued[f] \in Nat
          /\ claims'[f] - attempts'[f] = claims[f] - attempts[f]
    BY <1>2 DEF Claim, TypeOK
  <2>3. CASE t \in tasks
    BY <1>0, <2>1, <2>2, <2>3 DEF TaskSet
  <2>4. CASE \E f \in S : t = Task(f, "claimed")
    <3>1. PICK f \in S : t = Task(f, "claimed")
      BY <2>4
    <3>2. /\ t.file = f /\ t.round = requeued[f]
          /\ t.serial = claims[f] + 1 /\ t.attempt = attempts[f] + 1
      BY <3>1 DEF Task
    <3>3. /\ f \in Files /\ requeued[f] <= requeued[f]
          /\ (claims[f] + 1) - (attempts[f] + 1) = claims[f] - attempts[f]
      BY <2>2
    <3>4. /\ requeued'[t.file] = requeued[f]
          /\ claims'[t.file] - attempts'[t.file] = claims[f] - attempts[f]
      BY <2>1, <2>2, <3>2, <3>3
    <3>5. t.serial - t.attempt = claims[f] - attempts[f]
      BY <3>2, <3>3
    <3> QED
      BY <3>2, <3>3, <3>4, <3>5
  <2> QED
    BY <1>2, <2>3, <2>4 DEF Claim
<1>3. ASSUME NEW t \in tasks, DeleteObject(t) PROVE Counted'
  <2>1. UNCHANGED <<attempts, claims, requeued>>
    BY <1>3 DEF DeleteObject
  <2>2. ASSUME NEW s \in {"gone", "failed"}, NEW u, u = [t EXCEPT !.stage = s]
        PROVE  /\ u.file = t.file /\ u.round = t.round
               /\ u.serial = t.serial /\ u.attempt = t.attempt
    BY <1>0, <2>2 DEF TaskSet
  <2>3. ASSUME NEW u \in tasks'
        PROVE  \E v \in tasks : /\ u.file = v.file /\ u.round = v.round
                               /\ u.serial = v.serial /\ u.attempt = v.attempt
    BY <1>3, <2>2, <2>3 DEF DeleteObject
  <2> QED
    BY <2>1, <2>3
<1>4. CASE Requeue
  <2> SUFFICES ASSUME NEW t \in tasks
               PROVE  /\ t.round <= requeued'[t.file]
                      /\ t.round = requeued'[t.file]
                           => t.serial - t.attempt = claims'[t.file] - attempts'[t.file]
    BY <1>4 DEF Requeue
  <2>1. /\ t.file \in Files /\ t.round \in Nat /\ requeued[t.file] \in Nat
        /\ t.round <= requeued[t.file]
    BY <1>0 DEF TaskSet, TypeOK
  <2>2. CASE t.file \in Dead
    BY <1>4, <2>1, <2>2 DEF Requeue
  <2>3. CASE t.file \notin Dead
    BY <1>4, <2>1, <2>3 DEF Requeue
  <2> QED
    BY <2>2, <2>3
<1>5. ASSUME NEW t \in tasks, SettleDone(t) \/ SettleFailed(t) \/ Lost(t)
      PROVE  Counted'
  BY <1>1, <1>5 DEF SettleDone, SettleFailed, Settle, Lost
<1>6. CASE \/ \E f \in Files :
                 DeleteFile(f) \/ Prune(f) \/ LeaseLapses(f) \/ BackoffEnds(f)
           \/ DeadLetter \/ UNCHANGED vars
  BY <1>1, <1>6
  DEF DeleteFile, Prune, LeaseLapses, BackoffEnds, DeadLetter, vars
<1> QED
  BY <1>2, <1>3, <1>4, <1>5, <1>6 DEF Next

LEMMA JobStep == JobInv /\ [Next]_vars => JobInv'
  BY TypeStep, GoneStep, LeftoverStep, CountedStep DEF JobInv

(* While the bytes of a deleted file are in storage its job is pending or  *)
(* parked: no failure, death, late answer or pruning loses them.           *)
THEOREM DeletionLeftoverBytesAreQueued == Spec => []LeftoverBytesAreQueued
<1>1. JobInv => LeftoverBytesAreQueued
  BY DEF JobInv
<1> QED
  BY <1>1, JobInit, JobStep, PTL DEF Spec

-----------------------------------------------------------------------------
(* A task that ends as its job changes is settling it: no other step both  *)
(* ends a task and touches a job.                                          *)
LEMMA OnlySettlements ==
    ASSUME Next, NEW t \in tasks, Settles(t)
    PROVE  (SettleDone(t) \/ SettleFailed(t)) /\ MaySettle(t)
<1>1. tasks' = tasks \ {t} /\ tasks' # tasks
  BY DEF Settles
<1>2. ~UNCHANGED <<status, due, lease>>
  BY DEF Settles
<1>3. ASSUME NEW u \in tasks, SettleDone(u) \/ SettleFailed(u)
      PROVE  u = t /\ MaySettle(u)
  BY <1>1, <1>2, <1>3 DEF SettleDone, SettleFailed, Settle
<1>4. ASSUME NEW u \in tasks PROVE ~DeleteObject(u) /\ ~Lost(u)
  BY <1>2 DEF DeleteObject, Lost, jobVars
<1>5. \A S \in SUBSET Files : ~Claim(S)
  BY <1>1 DEF Claim
<1>6. ~DeadLetter /\ ~Requeue
  BY <1>1 DEF DeadLetter, Requeue
<1>7. \A f \in Files :
         ~DeleteFile(f) /\ ~Prune(f) /\ ~LeaseLapses(f) /\ ~BackoffEnds(f)
  BY <1>1 DEF DeleteFile, Prune, LeaseLapses, BackoffEnds
<1> QED
  BY <1>3, <1>4, <1>5, <1>6, <1>7 DEF Next

(* Within a round the number of a claim tells whether it is the newest.    *)
LEMMA NewestSettles ==
    ASSUME JobInv, Next, NEW t \in tasks, Settles(t), t.round = requeued[t.file]
    PROVE  t.serial = claims[t.file]
<1>1. t \in TaskSet /\ t.file \in Files
  BY DEF JobInv, TypeOK, TaskSet
<1>2. attempts[t.file] = t.attempt
  BY OnlySettlements DEF MaySettle
<1>3. t.serial - t.attempt = claims[t.file] - attempts[t.file]
  BY DEF JobInv, Counted
<1> QED
  BY <1>1, <1>2, <1>3 DEF JobInv, TypeOK, TaskSet

(* Between two requeues only the newest claim of a job changes how it      *)
(* stands, when it is due or who has it: a worker that answers late, done  *)
(* or failed, leaves the claim that came after it alone.                   *)
THEOREM DeletionLateWorkersChangeNothing == Spec => LateWorkersChangeNothing
<1> DEFINE Newest ==
      \A t \in tasks :
        Settles(t) /\ t.round = requeued[t.file] => t.serial = claims[t.file]
<1>1. JobInv /\ [Next]_vars => [Newest]_vars
  BY NewestSettles
<1> QED
  BY <1>1, JobInit, JobStep, PTL DEF Spec, LateWorkersChangeNothing

(* A claim whose lease lasts is ended by a worker, and by none of the      *)
(* round's workers but the one that has it.                                *)
THEOREM DeletionLiveClaimIsKept == Spec => LiveClaimIsKept
<1> DEFINE Kept ==
      \A f \in Files :
        (lease[f] = "live" /\ lease'[f] = "none") =>
           \E t \in tasks :
              /\ t.file = f /\ tasks' = tasks \ {t}
              /\ t.round = requeued[f] => t.serial = claims[f]
<1>1. JobInv /\ [Next]_vars => [Kept]_vars
  <2> SUFFICES ASSUME JobInv, Next, NEW f \in Files,
                      lease[f] = "live", lease'[f] = "none"
               PROVE  \E t \in tasks :
                         /\ t.file = f /\ tasks' = tasks \ {t}
                         /\ t.round = requeued[f] => t.serial = claims[f]
    OBVIOUS
  <2>1. TypeOK /\ status[f] = "PENDING"
    BY DEF JobInv, TypeOK
  <2>2. ASSUME NEW t \in tasks, SettleDone(t) \/ SettleFailed(t)
        PROVE  /\ t.file = f /\ tasks' = tasks \ {t}
               /\ t.round = requeued[f] => t.serial = claims[f]
    <3>1. t.file = f /\ tasks' = tasks \ {t}
      BY <2>1, <2>2 DEF SettleDone, SettleFailed, Settle, TypeOK
    <3>2. Settles(t)
      BY <3>1 DEF Settles
    <3> QED
      BY <3>1, <3>2, NewestSettles
  <2>3. ~DeadLetter
    BY <2>1 DEF DeadLetter, Exhausted
  <2>4. ~Requeue
    BY <2>1 DEF Requeue, Dead
  <2>5. \A g \in Files :
           ~DeleteFile(g) /\ ~Prune(g) /\ ~LeaseLapses(g) /\ ~BackoffEnds(g)
    BY <2>1 DEF DeleteFile, Prune, LeaseLapses, BackoffEnds, TypeOK
  <2>6. \A S \in SUBSET Files : ~Claim(S)
    BY <2>1 DEF Claim, TypeOK
  <2>7. \A t \in tasks : ~DeleteObject(t) /\ ~Lost(t)
    BY DEF DeleteObject, Lost, jobVars
  <2> QED
    BY <2>2, <2>3, <2>4, <2>5, <2>6, <2>7 DEF Next
<1> QED
  BY <1>1, JobInit, JobStep, PTL DEF Spec, LiveClaimIsKept

=============================================================================
