------------------------- MODULE IdempotencyProofs -------------------------
(***************************************************************************)
(* The records of idempotent requests, for any number of requests, keys,   *)
(* replicas and any limits of the gates: a key is executed once until its  *)
(* record expires, or twice if the pruner takes the fresh record away, and *)
(* what requests are told is true.  For that nothing   *)
(* is asked of the gates: whoever they let in, the lock and the claim      *)
(* decide.  Of the gates themselves: their counters are exactly who holds  *)
(* and who waits, nobody waits who could run, and owners are served in     *)
(* the order of the queue.                                                 *)
(***************************************************************************)
EXTENDS Idempotency, SequenceProofs, FiniteSetTheorems

Replies ==
    [to : Requests \cup {Nobody},
     kind : {"none", "executed", "replayed", "mismatch", "busy", "inProgress",
             "failed"},
     of : Requests \cup {Nobody}]

LEMMA Facts ==
    /\ \A r \in Requests : KeyOf[r] \in Keys /\ Reach[r] \subseteq Replicas
    /\ \A r \in Requests : r # Nobody
  BY IdempotencyAssumption

(* What the answers are made of.                                           *)
LEMMA Told ==
    ASSUME NEW r \in Requests, NEW q \in Requests \cup {Nobody}, NEW k,
           Tell(r, k, q)
    PROVE  /\ reply'.to = r /\ reply'.kind = k /\ reply'.of = q
           /\ k \in {"none", "executed", "replayed", "mismatch", "busy",
                     "inProgress", "failed"} => reply' \in Replies
  BY DEF Tell, Replies

LEMMA Answered ==
    ASSUME NEW r \in Requests, NEW q \in Requests, AnswerFrom(r, q)
    PROVE  /\ reply' \in Replies /\ reply'.to = r
           /\ \/ reply'.kind = "replayed" /\ reply'.of = q /\ BodyOf[q] = BodyOf[r]
              \/ reply'.kind = "mismatch"
<1>1. CASE BodyOf[q] = BodyOf[r]
  BY <1>1, Told DEF AnswerFrom
<1>2. CASE BodyOf[q] # BodyOf[r]
  BY <1>2, Told DEF AnswerFrom
<1> QED
  BY <1>1, <1>2

LEMMA Silent == Silence \in Replies /\ Silence.kind = "none"
  BY DEF Silence, Replies

-----------------------------------------------------------------------------
(* Requests, records and locks.                                            *)

Types ==
    /\ pc \in [Requests -> Labels]
    /\ at \in [Requests -> Replicas \cup {Nobody}]
    /\ record \in [Keys -> Requests \cup {Nobody}]
    /\ expired \in [Keys -> BOOLEAN]
    /\ locked \in [Keys -> Requests \cup {Nobody}]
    /\ folders \subseteq Requests
    /\ current \in [Keys -> SUBSET Requests]
    /\ doomed \subseteq Keys /\ lost \subseteq Keys

(* A transaction past its lock holds it, and a lock is held by one.        *)
Locks ==
    /\ \A r \in Requests : pc[r] \in {"read", "execute"} => locked[KeyOf[r]] = r
    /\ \A k \in Keys : locked[k] # Nobody =>
          KeyOf[locked[k]] = k /\ pc[locked[k]] \in {"read", "execute"}
    /\ after \subseteq {r \in Requests : pc[r] \in InTransaction}

Fresh(k) == record[k] # Nobody /\ ~expired[k]

Once(S) == S = {} \/ \E r \in Requests : S = {r}
Twice(S) == Once(S) \/ \E q, r \in Requests : S = {q, r}

(* What a key's record says of its lifetime.  An operation done in it has  *)
(* a fresh record, unless the pruner removed that; a DELETE that can do so *)
(* has listed the row before the lifetime began, and a row comes once.  A  *)
(* transaction that claims the key has met no fresh record.                *)
Lifetimes ==
    /\ \A r \in after : expired[KeyOf[r]]
    /\ \A r \in Requests : pc[r] = "execute" => ~Fresh(KeyOf[r])
    /\ \A k \in Keys : expired[k] =>
          record[k] # Nobody /\ current[k] = {} /\ k \notin lost
    /\ \A k \in doomed : record[k] # Nobody /\ k \notin lost
    /\ \A k \in Keys \ lost :
          IF Fresh(k) THEN Once(current[k]) ELSE current[k] = {}
    /\ \A k \in lost :
          IF Fresh(k) THEN Twice(current[k]) ELSE Once(current[k])

(* A request has made nothing before its commit; a record is of a request  *)
(* that has made its folder.                                               *)
Before == {"idle", "acquire", "queued", "begin", "lock", "read", "execute"}

Made ==
    /\ \A r \in Requests : pc[r] \in Before => r \notin folders
    /\ \A k \in Keys : record[k] # Nobody =>
          record[k] \in folders /\ KeyOf[record[k]] = k

KeyInv == Types /\ Locks /\ Lifetimes /\ Made

LEMMA KeyInit == Init => KeyInv
  BY Facts
  DEF Init, KeyInv, Types, Locks, Lifetimes, Fresh, Made, Before, Labels, Holding,
      InTransaction

(* The steps of a request that only move it.                               *)
LEMMA Moves ==
    ASSUME KeyInv, NEW r \in Requests, NEW l \in Labels,
           pc' = [pc EXCEPT ![r] = l], at' \in [Requests -> Replicas \cup {Nobody}],
           pc[r] \in {"idle", "acquire", "queued"},
           l \in {"acquire", "queued", "begin", "done"},
           UNCHANGED dbVars
    PROVE  KeyInv'
<1> USE Facts DEF KeyInv, Types, Locks, Lifetimes, Fresh, Made, prune, dbVars
<1>1. Types'
  OBVIOUS
<1>2. Locks'
  BY DEF InTransaction
<1>3. Lifetimes'
  OBVIOUS
<1>4. Made'
  BY DEF Before
<1> QED
  BY <1>1, <1>2, <1>3, <1>4

LEMMA KeyBegin ==
    ASSUME KeyInv, NEW r \in Requests, Begin(r)
    PROVE  KeyInv'
<1> USE Facts DEF KeyInv, Types, Locks, Lifetimes, Fresh, Made, prune, Begin, Goto
<1>1. Types'
  BY DEF Labels, Holding, InTransaction
<1>2. Locks'
  BY DEF InTransaction
<1>3. Lifetimes'
  OBVIOUS
<1>4. Made'
  BY DEF Before
<1> QED
  BY <1>1, <1>2, <1>3, <1>4

LEMMA KeyLock ==
    ASSUME KeyInv, NEW r \in Requests, Lock(r)
    PROVE  KeyInv'
<1> USE Facts DEF KeyInv, Types, Locks, Lifetimes, Fresh, Made, prune, Lock, Goto
<1>1. Types'
  BY DEF Labels, Holding, InTransaction
<1>2. Locks'
  BY DEF InTransaction
<1>3. Lifetimes'
  <2>1. Claims(r) => ~Fresh(KeyOf[r])
    BY DEF Claims
  <2> QED
    BY <2>1
<1>4. Made'
  BY DEF Before
<1> QED
  BY <1>1, <1>2, <1>3, <1>4

(* A transaction ends without an effect.                                   *)
LEMMA Ended ==
    ASSUME KeyInv, NEW r \in Requests, EndTransaction(r), Goto(r, "leave"),
           UNCHANGED <<record, expired, folders, current, prune>>
    PROVE  KeyInv'
<1> USE Facts DEF KeyInv, Types, Locks, Lifetimes, Fresh, Made, prune, EndTransaction, Goto
<1>1. Types'
  BY DEF Labels, Holding, InTransaction
<1>2. Locks'
  BY DEF InTransaction
<1>3. Lifetimes'
  OBVIOUS
<1>4. Made'
  BY DEF Before
<1> QED
  BY <1>1, <1>2, <1>3, <1>4

(* The lock keeps every other request of the key from its commit.          *)
LEMMA KeyExecute ==
    ASSUME KeyInv, NEW r \in Requests, Execute(r)
    PROVE  KeyInv'
<1> USE Facts DEF KeyInv, Types, Locks, Lifetimes, Fresh, Made, prune, Execute, Goto
<1>1. Types'
  BY DEF Labels, Holding, InTransaction
<1>2. Locks'
  BY DEF InTransaction
<1>3. Lifetimes'
  <2> DEFINE k == KeyOf[r]
  <2>1. /\ current'[k] = current[k] \cup {r}
        /\ \A l \in Keys : l # k => current'[l] = current[l]
    BY DEF Execute
  <2>2. /\ Once(current[k]) => Twice(current'[k])
        /\ current[k] = {} => Once(current'[k])
    BY <2>1 DEF Once, Twice
  <2>3. \A q \in Requests : pc'[q] = "execute" => KeyOf[q] # k
    OBVIOUS
  <2>4. \A q \in after' : q \in after /\ KeyOf[q] # k
    OBVIOUS
  <2>5. /\ k \in Keys /\ Fresh(k)' /\ ~expired'[k]
        /\ IF k \in lost THEN Once(current[k]) ELSE current[k] = {}
    OBVIOUS
  <2>6. IF k \in lost' THEN Twice(current'[k]) ELSE Once(current'[k])
    BY <2>2, <2>5
  <2>7. \A l \in Keys : l # k =>
           current'[l] = current[l] /\ record'[l] = record[l] /\ expired'[l] = expired[l]
    BY <2>1
  <2>8. \A l \in doomed' : record'[l] # Nobody /\ l \notin lost'
    OBVIOUS
  <2>9. \A q \in Requests : pc'[q] = "execute" => ~Fresh(KeyOf[q])'
    BY <2>3, <2>7
  <2>10. \A q \in after' : expired'[KeyOf[q]]
    BY <2>4, <2>7
  <2>11. ASSUME NEW l \in Keys
         PROVE  /\ expired'[l] => record'[l] # Nobody /\ current'[l] = {} /\ l \notin lost'
                /\ IF l \in lost'
                   THEN IF Fresh(l)' THEN Twice(current'[l]) ELSE Once(current'[l])
                   ELSE IF Fresh(l)' THEN Once(current'[l]) ELSE current'[l] = {}
    <3>1. CASE l = k
      BY <2>5, <2>6, <3>1
    <3>2. CASE l # k
      <4>1. lost' = lost /\ Fresh(l)' = Fresh(l) /\ current'[l] = current[l]
        BY <2>7, <3>2
      <4> QED
        BY <2>7, <3>2, <4>1
    <3> QED
      BY <3>1, <3>2
  <2> QED
    BY <2>8, <2>9, <2>10, <2>11
<1>4. Made'
  BY DEF Before
<1> QED
  BY <1>1, <1>2, <1>3, <1>4

LEMMA KeyLeave ==
    ASSUME KeyInv, NEW r \in Requests, Leave(r)
    PROVE  KeyInv'
<1> USE Facts DEF KeyInv, Types, Locks, Lifetimes, Fresh, Made, prune, Leave, Ends, Forget, dbVars
<1>1. Types'
  BY DEF Labels, Holding, InTransaction
<1>2. Locks'
  BY DEF InTransaction
<1>3. Lifetimes'
  OBVIOUS
<1>4. Made'
  BY DEF Before
<1> QED
  BY <1>1, <1>2, <1>3, <1>4

LEMMA KeyExpire ==
    ASSUME KeyInv, NEW k \in Keys, Expire(k)
    PROVE  KeyInv'
<1> USE Facts DEF KeyInv, Types, Locks, Lifetimes, Fresh, Made, Expire
<1>1. Types'
  OBVIOUS
<1>2. Locks'
  OBVIOUS
<1>3. Lifetimes'
  OBVIOUS
<1>4. Made'
  OBVIOUS
<1> QED
  BY <1>1, <1>2, <1>3, <1>4

(* A row that is removed fresh takes the record of its lifetime's first    *)
(* operation with it, and no DELETE has listed the row that comes next.    *)
LEMMA KeyPrune ==
    ASSUME KeyInv, NEW k \in Keys, PruneList(k) \/ PruneDelete(k) \/ PruneFail(k)
    PROVE  KeyInv'
<1> USE Facts DEF KeyInv, Types, Locks, Lifetimes, Fresh, Made
<1>1. CASE PruneList(k) \/ PruneFail(k)
  <2> USE <1>1 DEF PruneList, PruneFail
  <2>1. Types'
    OBVIOUS
  <2>2. Locks'
    OBVIOUS
  <2>3. Lifetimes'
    OBVIOUS
  <2>4. Made'
    OBVIOUS
  <2> QED
    BY <2>1, <2>2, <2>3, <2>4
<1>2. CASE PruneDelete(k)
  <2> USE <1>2 DEF PruneDelete
  <2>1. Types'
    OBVIOUS
  <2>2. Locks'
    OBVIOUS
  <2>3. Lifetimes'
    <3>1. /\ record'[k] = Nobody /\ k \notin lost
          /\ IF expired[k] THEN current[k] = {} ELSE Once(current[k])
      OBVIOUS
    <3>2. \A r \in after' : expired'[KeyOf[r]]
      OBVIOUS
    <3> QED
      BY <3>1, <3>2
  <2>4. Made'
    OBVIOUS
  <2> QED
    BY <2>1, <2>2, <2>3, <2>4
<1> QED
  BY <1>1, <1>2

LEMMA KeyCrash ==
    ASSUME KeyInv, NEW p \in Replicas, Crash(p)
    PROVE  KeyInv'
<1> USE Facts DEF KeyInv, Types, Locks, Lifetimes, Fresh, Made, prune, Crash
<1>1. Types'
  BY DEF Labels, Holding, InTransaction
<1>2. Locks'
  BY DEF InTransaction
<1>3. Lifetimes'
  OBVIOUS
<1>4. Made'
  BY DEF Before
<1> QED
  BY <1>1, <1>2, <1>3, <1>4

LEMMA KeyStep == KeyInv /\ [Next]_vars => KeyInv'
<1> SUFFICES ASSUME KeyInv, [Next]_vars PROVE KeyInv'
  OBVIOUS
<1>0. \A l \in {"acquire", "queued", "begin", "done"} : l \in Labels
  BY DEF Labels, Holding, InTransaction
<1>1. ASSUME NEW r \in Requests, Lookup(r) PROVE KeyInv'
  <2>1. /\ pc[r] = "idle" /\ at' \in [Requests -> Replicas \cup {Nobody}]
        /\ UNCHANGED dbVars
        /\ \E l \in {"acquire", "done"} : pc' = [pc EXCEPT ![r] = l]
    BY <1>1, Facts DEF Lookup, Goto, KeyInv, Types
  <2> QED
    BY <1>0, <2>1, Moves
<1>2. ASSUME NEW r \in Requests, Acquire(r) PROVE KeyInv'
  <2>1. /\ pc[r] = "acquire" /\ at' \in [Requests -> Replicas \cup {Nobody}]
        /\ UNCHANGED dbVars
        /\ \E l \in {"begin", "done", "queued"} : pc' = [pc EXCEPT ![r] = l]
    BY <1>2, Facts DEF Acquire, Goto, Finish, Forget, KeyInv, Types
  <2> QED
    BY <1>0, <2>1, Moves
<1>3. ASSUME NEW r \in Requests, QueueTimeout(r) PROVE KeyInv'
  <2>1. /\ pc[r] = "queued" /\ at' \in [Requests -> Replicas \cup {Nobody}]
        /\ UNCHANGED dbVars /\ pc' = [pc EXCEPT ![r] = "done"]
    BY <1>3, Facts DEF QueueTimeout, Finish, Forget, KeyInv, Types
  <2> QED
    BY <1>0, <2>1, Moves
<1>4. ASSUME NEW r \in Requests, LockTimeout(r) \/ Read(r) \/ Fail(r)
      PROVE  KeyInv'
  BY <1>4, Ended DEF LockTimeout, Read, Fail
<1>5. CASE UNCHANGED vars
  BY <1>5 DEF vars, dbVars, prune, KeyInv, Types, Locks, Lifetimes, Fresh, Made
<1> QED
  BY <1>1, <1>2, <1>3, <1>4, <1>5, KeyBegin, KeyLock, KeyExecute, KeyLeave,
     KeyExpire, KeyPrune, KeyCrash
  DEF Next, Transact

(* Whatever replicas its requests run on, however they fail, time out,     *)
(* crash or are retried, and however its record expires and is pruned, an  *)
(* operation is performed once until the record expires, or twice if the   *)
(* pruner removed the fresh record in between.                             *)
THEOREM IdempotencyOnceUnlessPruned == Spec => []OnceUnlessPruned
<1>1. KeyInv => OnceUnlessPruned
  <2> SUFFICES ASSUME KeyInv, NEW k \in Keys
               PROVE  Cardinality(current[k]) <= (IF k \in lost THEN 2 ELSE 1)
    BY DEF OnceUnlessPruned
  <2>1. \A S : Once(S) => Cardinality(S) \in Nat /\ Cardinality(S) <= 1
    <3>1. Cardinality({}) = 0 /\ \A r \in Requests : Cardinality({r}) = 1
      BY FS_EmptySet, FS_Singleton
    <3> QED
      BY <3>1 DEF Once
  <2>2. ASSUME NEW q \in Requests, NEW r \in Requests
        PROVE  Cardinality({q, r}) \in Nat /\ Cardinality({q, r}) <= 2
    <3>1. IsFiniteSet({q}) /\ Cardinality({q}) = 1 /\ {q, r} = {q} \cup {r}
      BY FS_Singleton
    <3> QED
      BY <3>1, FS_AddElement
  <2>3. \A S : Twice(S) => Cardinality(S) \in Nat /\ Cardinality(S) <= 2
    BY <2>1, <2>2 DEF Twice
  <2>4. IF k \in lost THEN Twice(current[k]) ELSE Once(current[k])
    BY DEF KeyInv, Lifetimes, Twice, Once
  <2> QED
    BY <2>1, <2>3, <2>4
<1> QED
  BY <1>1, KeyInit, KeyStep, PTL DEF Spec

-----------------------------------------------------------------------------
(* The answers.                                                            *)

AnswerInv == KeyInv /\ reply \in Replies /\ AnswersAreTrue

LEMMA AnswerInit == Init => AnswerInv
<1> SUFFICES ASSUME Init PROVE reply \in Replies /\ AnswersAreTrue
  BY KeyInit DEF AnswerInv
<1>1. reply = Silence
  BY DEF Init
<1> QED
  BY <1>1, Silent DEF AnswersAreTrue

(* A request that is answered from a record, or turned away, has made      *)
(* nothing; what it is shown was made under its key.                       *)
LEMMA AnswerStep == AnswerInv /\ [Next]_vars => AnswerInv'
<1> SUFFICES ASSUME AnswerInv, [Next]_vars
             PROVE  reply' \in Replies /\ AnswersAreTrue'
  BY KeyStep DEF AnswerInv
<1> DEFINE Good == reply' \in Replies /\ AnswersAreTrue'
<1>0. /\ \A r \in Requests : pc[r] \in Before => r \notin folders
      /\ \A k \in Keys : record[k] # Nobody =>
            /\ record[k] \in folders /\ record[k] \in Requests
            /\ KeyOf[record[k]] = k
  BY Facts DEF AnswerInv, KeyInv, Types, Made
<1>1. ASSUME reply' = Silence PROVE Good
  BY <1>1, Silent DEF AnswersAreTrue
<1>2. ASSUME NEW r \in Requests, NEW k \in {"mismatch", "busy", "inProgress"},
             Tell(r, k, Nobody), pc[r] \in Before, UNCHANGED folders
      PROVE  Good
  BY <1>0, <1>2, Told DEF AnswersAreTrue
<1>3. ASSUME NEW r \in Requests, Tell(r, "failed", Nobody) PROVE Good
  BY <1>3, Told DEF AnswersAreTrue
<1>4. ASSUME NEW r \in Requests, record[KeyOf[r]] # Nobody,
             AnswerFrom(r, record[KeyOf[r]]), pc[r] \in Before,
             UNCHANGED folders
      PROVE  Good
  <2>1. /\ record[KeyOf[r]] \in folders /\ record[KeyOf[r]] \in Requests
        /\ KeyOf[record[KeyOf[r]]] = KeyOf[r] /\ r \notin folders
    BY <1>0, <1>4, Facts
  <2> QED
    BY <1>4, <2>1, Answered DEF AnswersAreTrue
<1>5. ASSUME NEW r \in Requests, Lookup(r) PROVE Good
  BY <1>1, <1>4, <1>5 DEF Lookup, Before, dbVars
<1>6. ASSUME NEW r \in Requests, Acquire(r) PROVE Good
  BY <1>1, <1>2, <1>6 DEF Acquire, Before, dbVars
<1>7. ASSUME NEW r \in Requests, QueueTimeout(r) PROVE Good
  BY <1>2, <1>7 DEF QueueTimeout, Before, dbVars
<1>8. ASSUME NEW r \in Requests, LockTimeout(r) PROVE Good
  BY <1>2, <1>8 DEF LockTimeout, Before
<1>9. ASSUME NEW r \in Requests, Read(r) PROVE Good
  BY <1>3, <1>4, <1>9 DEF Read, Before
<1>10. ASSUME NEW r \in Requests, Execute(r) PROVE Good
  <2>1. CASE Tell(r, "executed", r)
    <3>1. r \in folders'
      BY <1>10 DEF Execute
    <3> QED
      BY <2>1, <3>1, Told DEF AnswersAreTrue
  <2> QED
    BY <1>3, <1>10, <2>1 DEF Execute
<1>11. ASSUME NEW r \in Requests, Fail(r) PROVE Good
  BY <1>3, <1>11 DEF Fail
<1>12. ASSUME NEW r \in Requests, Begin(r) \/ Lock(r) \/ Leave(r) PROVE Good
  BY <1>1, <1>12 DEF Begin, Lock, Leave
<1>13. CASE \/ \E k \in Keys :
                  Expire(k) \/ PruneList(k) \/ PruneDelete(k) \/ PruneFail(k)
            \/ \E p \in Replicas : Crash(p)
  BY <1>1, <1>13 DEF Expire, PruneList, PruneDelete, PruneFail, Crash
<1>14. CASE UNCHANGED vars
  BY <1>14 DEF vars, dbVars, AnswerInv, AnswersAreTrue
<1> QED
  BY <1>5, <1>6, <1>7, <1>8, <1>9, <1>10, <1>11, <1>12, <1>13, <1>14
  DEF Next, Transact

(* No answer is a false one, at the moment it is given.                    *)
THEOREM IdempotencyAnswersAreTrue == Spec => []AnswersAreTrue
<1>1. AnswerInv => AnswersAreTrue
  BY DEF AnswerInv
<1> QED
  BY <1>1, AnswerInit, AnswerStep, PTL DEF Spec

(* Requests, records, locks and answers are what they are declared to be,  *)
(* and a lock is held by a transaction that took it.                       *)
THEOREM IdempotencyTypeOK == Spec => []TypeOK
<1>1. AnswerInv => TypeOK
  BY DEF AnswerInv, KeyInv, Types, Locks, Lifetimes, Replies, TypeOK
<1> QED
  BY <1>1, AnswerInit, AnswerStep, PTL DEF Spec

-----------------------------------------------------------------------------
Gates ==
    [active : Nat, activeBy : [Owners -> Nat], queue : Seq(Requests),
     queuedBy : [Owners -> Nat], holders : SUBSET Requests]

Orderly(g) == g \in Gates /\ IsInjective(g.queue) /\ Exact(g)

(* One more caller, one more for its owner and for no other.               *)
LEMMA Added ==
    ASSUME NEW S \in SUBSET Requests, NEW r \in Requests, r \notin S
    PROVE  /\ Cardinality(S) \in Nat
           /\ Cardinality(S \cup {r}) = Cardinality(S) + 1
           /\ \A o \in Owners :
                 /\ Cardinality(Of(S, o)) \in Nat
                 /\ Cardinality(Of(S \cup {r}, o)) =
                       Cardinality(Of(S, o)) + (IF o = OwnerOf[r] THEN 1 ELSE 0)
<1>1. IsFiniteSet(S)
  BY FS_Subset, GateAssumption
<1>2. Cardinality(S) \in Nat /\ Cardinality(S \cup {r}) = Cardinality(S) + 1
  BY <1>1, FS_AddElement, FS_CardinalityType
<1>3. ASSUME NEW o \in Owners
      PROVE  /\ Cardinality(Of(S, o)) \in Nat
             /\ Cardinality(Of(S \cup {r}, o)) =
                   Cardinality(Of(S, o)) + (IF o = OwnerOf[r] THEN 1 ELSE 0)
  <2>1. IsFiniteSet(Of(S, o)) /\ r \notin Of(S, o)
    BY <1>1, FS_Subset DEF Of
  <2>2. Cardinality(Of(S, o)) \in Nat
    BY <2>1, FS_CardinalityType
  <2>3. CASE o = OwnerOf[r]
    <3>1. Of(S \cup {r}, o) = Of(S, o) \cup {r}
      BY <2>3 DEF Of
    <3>2. Cardinality(Of(S, o) \cup {r}) = Cardinality(Of(S, o)) + 1
      BY <2>1, FS_AddElement
    <3> QED
      BY <2>2, <2>3, <3>1, <3>2
  <2>4. CASE o # OwnerOf[r]
    <3>1. Of(S \cup {r}, o) = Of(S, o)
      BY <2>4 DEF Of
    <3> QED
      BY <2>2, <2>4, <3>1
  <2> QED
    BY <2>3, <2>4
<1> QED
  BY <1>2, <1>3

(* One caller less, one less for its owner and for no other.               *)
LEMMA Taken ==
    ASSUME NEW S \in SUBSET Requests, NEW r \in S
    PROVE  /\ Cardinality(S) \in Nat /\ Cardinality(S) > 0
           /\ Cardinality(S \ {r}) = Cardinality(S) - 1
           /\ \A o \in Owners :
                 /\ Cardinality(Of(S, o)) \in Nat
                 /\ o = OwnerOf[r] => Cardinality(Of(S, o)) > 0
                 /\ Cardinality(Of(S \ {r}, o)) =
                       Cardinality(Of(S, o)) - (IF o = OwnerOf[r] THEN 1 ELSE 0)
<1> DEFINE T == S \ {r}
<1>1. T \in SUBSET Requests /\ r \in Requests /\ r \notin T /\ T \cup {r} = S
  OBVIOUS
<1> HIDE DEF T
<1>2. /\ Cardinality(T) \in Nat
      /\ Cardinality(S) = Cardinality(T) + 1
      /\ \A o \in Owners :
            /\ Cardinality(Of(T, o)) \in Nat
            /\ Cardinality(Of(S, o)) =
                  Cardinality(Of(T, o)) + (IF o = OwnerOf[r] THEN 1 ELSE 0)
  BY <1>1, Added
<1>3. ASSUME NEW o \in Owners
      PROVE  /\ Cardinality(Of(S, o)) \in Nat
             /\ o = OwnerOf[r] => Cardinality(Of(S, o)) > 0
             /\ Cardinality(Of(T, o)) =
                   Cardinality(Of(S, o)) - (IF o = OwnerOf[r] THEN 1 ELSE 0)
  BY <1>2
<1>4. /\ Cardinality(S) \in Nat /\ Cardinality(S) > 0
      /\ Cardinality(T) = Cardinality(S) - 1
  BY <1>2
<1> QED
  BY <1>3, <1>4 DEF T

(* A caller that can run takes a slot.                                     *)
LEMMA GateStarts ==
    ASSUME NEW g, Orderly(g), NEW r \in Requests, CanRun(g, r),
           r \notin g.holders, r \notin ToSet(g.queue)
    PROVE  /\ Orderly(Started(g, r))
           /\ Started(g, r).holders = g.holders \cup {r}
           /\ Started(g, r).queue = g.queue
           /\ \A q \in Requests : CanRun(Started(g, r), q) => CanRun(g, q)
<1> DEFINE h == Started(g, r)
<1>0. /\ OwnerOf[r] \in Owners /\ \A q \in Requests : OwnerOf[q] \in Owners
      /\ Concurrency \in Nat /\ PerOwner \in Nat
  BY GateAssumption
<1>2. /\ g \in Gates /\ g.active \in Nat /\ g.activeBy \in [Owners -> Nat]
      /\ g.holders \in SUBSET Requests
  BY DEF Orderly, Gates
<1>1. /\ h \in Gates
      /\ h.active = g.active + 1
      /\ h.activeBy = [g.activeBy EXCEPT ![OwnerOf[r]] = g.activeBy[OwnerOf[r]] + 1]
      /\ h.holders = g.holders \cup {r}
      /\ h.queue = g.queue /\ h.queuedBy = g.queuedBy
  <2>1. h = [g EXCEPT !.active = g.active + 1,
                      !.activeBy = [g.activeBy EXCEPT ![OwnerOf[r]] =
                                       g.activeBy[OwnerOf[r]] + 1],
                      !.holders = g.holders \cup {r}]
    BY <1>2 DEF Started, Gates
  <2>2. [g.activeBy EXCEPT ![OwnerOf[r]] = g.activeBy[OwnerOf[r]] + 1]
          \in [Owners -> Nat]
    BY <1>0, <1>2
  <2>3. g.active + 1 \in Nat /\ g.holders \cup {r} \in SUBSET Requests
    BY <1>2
  <2> HIDE DEF h
  <2>4. h \in Gates
    BY <1>2, <2>1, <2>2, <2>3 DEF Gates
  <2> QED
    BY <1>2, <2>1, <2>4 DEF Gates
<1> HIDE DEF h
<1>3. \A o \in Owners :
         h.activeBy[o] = g.activeBy[o] + (IF o = OwnerOf[r] THEN 1 ELSE 0)
  BY <1>1, <1>2
<1>6. /\ Cardinality(h.holders) = Cardinality(g.holders) + 1
      /\ \A o \in Owners :
            Cardinality(Of(h.holders, o)) =
               Cardinality(Of(g.holders, o)) + (IF o = OwnerOf[r] THEN 1 ELSE 0)
  BY <1>1, <1>2, Added
<1>4. Exact(h)
  <2>1. h.active = Cardinality(h.holders) /\ h.active <= Concurrency
    BY <1>0, <1>1, <1>2, <1>6 DEF Orderly, Exact, CanRun
  <2>2. ASSUME NEW o \in Owners
        PROVE  /\ h.activeBy[o] = Cardinality(Of(h.holders, o))
               /\ h.activeBy[o] <= PerOwner
    <3>2. g.activeBy[o] = Cardinality(Of(g.holders, o)) /\ g.activeBy[o] <= PerOwner
      BY DEF Orderly, Exact
    <3> QED
      BY <1>0, <1>2, <1>3, <1>6, <3>2 DEF CanRun
  <2> QED
    BY <1>1, <2>1, <2>2 DEF Orderly, Exact
<1>5. \A q \in Requests : CanRun(h, q) => CanRun(g, q)
  BY <1>0, <1>1, <1>2, <1>3 DEF CanRun
<1> QED
  BY <1>1, <1>4, <1>5 DEF Orderly, h

(* A caller that cannot run joins a queue that is not full.                *)
LEMMA GateEnqueues ==
    ASSUME NEW g, Orderly(g), NEW r \in Requests, ~Full(g, r),
           r \notin g.holders, r \notin ToSet(g.queue)
    PROVE  /\ Orderly(Enqueued(g, r))
           /\ Enqueued(g, r).holders = g.holders
           /\ ToSet(Enqueued(g, r).queue) = ToSet(g.queue) \cup {r}
           /\ \A q \in Requests : CanRun(Enqueued(g, r), q) <=> CanRun(g, q)
<1> DEFINE h == Enqueued(g, r)
<1>0. /\ OwnerOf[r] \in Owners /\ \A q \in Requests : OwnerOf[q] \in Owners
      /\ MaxQueue \in Nat /\ MaxQueuePerOwner \in Nat
  BY GateAssumption
<1>1. /\ g.queue \in Seq(Requests) /\ IsInjective(g.queue)
      /\ g.queuedBy \in [Owners -> Nat] /\ g \in Gates
  BY DEF Orderly, Gates
<1>2. /\ Append(g.queue, r) \in Seq(Requests)
      /\ IsInjective(Append(g.queue, r))
      /\ ToSet(Append(g.queue, r)) = ToSet(g.queue) \cup {r}
      /\ Len(Append(g.queue, r)) = Len(g.queue) + 1
      /\ Len(g.queue) \in Nat
  BY <1>1, Appended, LenProperties
<1>3. /\ h \in Gates
      /\ h.active = g.active /\ h.activeBy = g.activeBy
      /\ h.holders = g.holders /\ h.queue = Append(g.queue, r)
      /\ h.queuedBy = [g.queuedBy EXCEPT ![OwnerOf[r]] = g.queuedBy[OwnerOf[r]] + 1]
  <2>1. h = [g EXCEPT !.queue = Append(g.queue, r),
                      !.queuedBy = [g.queuedBy EXCEPT ![OwnerOf[r]] =
                                       g.queuedBy[OwnerOf[r]] + 1]]
    BY <1>1 DEF Enqueued, Gates
  <2>2. [g.queuedBy EXCEPT ![OwnerOf[r]] = g.queuedBy[OwnerOf[r]] + 1]
          \in [Owners -> Nat]
    BY <1>0, <1>1
  <2> HIDE DEF h
  <2> QED
    BY <1>1, <1>2, <2>1, <2>2 DEF Gates
<1> HIDE DEF h
<1>4. ToSet(g.queue) \in SUBSET Requests
  BY <1>1, LenProperties DEF ToSet
<1>7. /\ Cardinality(ToSet(h.queue)) = Cardinality(ToSet(g.queue)) + 1
      /\ \A o \in Owners :
            Cardinality(Of(ToSet(h.queue), o)) =
               Cardinality(Of(ToSet(g.queue), o)) + (IF o = OwnerOf[r] THEN 1 ELSE 0)
  <2> DEFINE S == ToSet(g.queue)
  <2>1. S \in SUBSET Requests /\ r \notin S
    BY <1>4
  <2>2. ToSet(h.queue) = S \cup {r}
    BY <1>2, <1>3
  <2> HIDE DEF S
  <2>3. /\ Cardinality(S \cup {r}) = Cardinality(S) + 1
        /\ \A o \in Owners : Cardinality(Of(S \cup {r}, o)) =
              Cardinality(Of(S, o)) + (IF o = OwnerOf[r] THEN 1 ELSE 0)
    BY <2>1, Added
  <2> QED
    BY <2>2, <2>3 DEF S
<1>5. Exact(h)
  <2>1. ToSet(h.queue) \cap h.holders = {}
    BY <1>2, <1>3 DEF Orderly, Exact
  <2>2. Len(h.queue) <= MaxQueue /\ Cardinality(ToSet(h.queue)) = Len(h.queue)
    BY <1>0, <1>2, <1>3, <1>7 DEF Orderly, Exact, Full
  <2>3. ASSUME NEW o \in Owners
        PROVE  /\ h.queuedBy[o] = Cardinality(Of(ToSet(h.queue), o))
               /\ h.queuedBy[o] <= MaxQueuePerOwner
    <3>2. /\ g.queuedBy[o] = Cardinality(Of(ToSet(g.queue), o))
          /\ g.queuedBy[o] <= MaxQueuePerOwner
      BY DEF Orderly, Exact
    <3>3. h.queuedBy[o] = g.queuedBy[o] + (IF o = OwnerOf[r] THEN 1 ELSE 0)
      BY <1>1, <1>3
    <3> QED
      BY <1>0, <1>1, <1>7, <3>2, <3>3 DEF Full
  <2> QED
    BY <1>3, <2>1, <2>2, <2>3 DEF Orderly, Exact
<1>6. \A q \in Requests : CanRun(h, q) <=> CanRun(g, q)
  BY <1>3 DEF CanRun
<1> QED
  BY <1>2, <1>3, <1>5, <1>6 DEF Orderly, h

(* A waiter gives up its place; slots stay as they are.                    *)
LEMMA GateDequeues ==
    ASSUME NEW g, Orderly(g), NEW r \in ToSet(g.queue)
    PROVE  /\ Orderly(Dequeued(g, r))
           /\ Dequeued(g, r).holders = g.holders
           /\ ToSet(Dequeued(g, r).queue) = ToSet(g.queue) \ {r}
           /\ \A q \in Requests : CanRun(Dequeued(g, r), q) <=> CanRun(g, q)
<1> DEFINE h == Dequeued(g, r)
<1>1. /\ g.queue \in Seq(Requests) /\ IsInjective(g.queue)
      /\ g.queuedBy \in [Owners -> Nat] /\ g \in Gates
  BY DEF Orderly, Gates
<1>2. /\ RemoveFirst(g.queue, r) \in Seq(Requests)
      /\ IsInjective(RemoveFirst(g.queue, r))
      /\ ToSet(RemoveFirst(g.queue, r)) = ToSet(g.queue) \ {r}
      /\ Len(RemoveFirst(g.queue, r)) = Len(g.queue) - 1
      /\ Len(g.queue) \in Nat
  BY <1>1, Removed, LenProperties
<1>3. ToSet(g.queue) \in SUBSET Requests /\ r \in Requests /\ OwnerOf[r] \in Owners
      /\ MaxQueue \in Nat /\ MaxQueuePerOwner \in Nat
  BY <1>1, LenProperties, GateAssumption DEF ToSet
<1>8. /\ Cardinality(ToSet(g.queue)) \in Nat
      /\ Cardinality(ToSet(g.queue) \ {r}) = Cardinality(ToSet(g.queue)) - 1
      /\ \A o \in Owners :
            /\ o = OwnerOf[r] => Cardinality(Of(ToSet(g.queue), o)) > 0
            /\ Cardinality(Of(ToSet(g.queue) \ {r}, o)) =
                  Cardinality(Of(ToSet(g.queue), o)) - (IF o = OwnerOf[r] THEN 1 ELSE 0)
  BY <1>3, Taken
<1>9. /\ Cardinality(ToSet(g.queue)) = Len(g.queue) /\ Len(g.queue) <= MaxQueue
      /\ \A o \in Owners :
            /\ g.queuedBy[o] = Cardinality(Of(ToSet(g.queue), o))
            /\ g.queuedBy[o] <= MaxQueuePerOwner
  BY DEF Orderly, Exact
<1>4. /\ g.queuedBy[OwnerOf[r]] > 0
      /\ \A o \in Owners :
           /\ g.queuedBy[o] <= MaxQueuePerOwner
           /\ Cardinality(Of(ToSet(g.queue) \ {r}, o)) =
                 g.queuedBy[o] - (IF o = OwnerOf[r] THEN 1 ELSE 0)
  BY <1>3, <1>8, <1>9
<1>5. /\ h \in Gates
      /\ h.active = g.active /\ h.activeBy = g.activeBy
      /\ h.holders = g.holders /\ h.queue = RemoveFirst(g.queue, r)
      /\ h.queuedBy = [g.queuedBy EXCEPT ![OwnerOf[r]] = g.queuedBy[OwnerOf[r]] - 1]
  <2>1. h = [g EXCEPT !.queue = RemoveFirst(g.queue, r),
                      !.queuedBy = [g.queuedBy EXCEPT ![OwnerOf[r]] =
                                       g.queuedBy[OwnerOf[r]] - 1]]
    BY <1>1 DEF Dequeued, Gates
  <2>2. [g.queuedBy EXCEPT ![OwnerOf[r]] = g.queuedBy[OwnerOf[r]] - 1]
          \in [Owners -> Nat]
    BY <1>1, <1>3, <1>4
  <2> HIDE DEF h
  <2> QED
    BY <1>1, <1>2, <2>1, <2>2 DEF Gates
<1> HIDE DEF h
<1>6. Exact(h)
  <2>1. ToSet(h.queue) \cap h.holders = {}
    BY <1>2, <1>5 DEF Orderly, Exact
  <2>2. Len(h.queue) <= MaxQueue /\ Cardinality(ToSet(h.queue)) = Len(h.queue)
    <3>1. Len(h.queue) = Len(g.queue) - 1
      BY <1>2, <1>5
    <3>2. Cardinality(ToSet(h.queue)) = Cardinality(ToSet(g.queue)) - 1
      BY <1>2, <1>5, <1>8
    <3> QED
      BY <1>2, <1>3, <1>9, <3>1, <3>2
  <2>3. ASSUME NEW o \in Owners
        PROVE  /\ h.queuedBy[o] = Cardinality(Of(ToSet(h.queue), o))
               /\ h.queuedBy[o] <= MaxQueuePerOwner
    <3>1. h.queuedBy[o] = g.queuedBy[o] - (IF o = OwnerOf[r] THEN 1 ELSE 0)
      BY <1>1, <1>5
    <3>2. g.queuedBy[o] \in Nat /\ g.queuedBy[o] <= MaxQueuePerOwner
      BY <1>1, <1>4
    <3>3. h.queuedBy[o] <= MaxQueuePerOwner
      BY <1>3, <3>1, <3>2
    <3>4. Cardinality(Of(ToSet(h.queue), o)) = h.queuedBy[o]
      BY <1>2, <1>4, <1>5, <3>1
    <3> QED
      BY <3>3, <3>4
  <2> QED
    BY <1>5, <2>1, <2>2, <2>3 DEF Orderly, Exact
<1>7. \A q \in Requests : CanRun(h, q) <=> CanRun(g, q)
  BY <1>5 DEF CanRun
<1> QED
  BY <1>2, <1>5, <1>6, <1>7 DEF Orderly, h

(* What FoldLeft of Admit computes, place by place.                        *)
AdmitAt(s, g, it, D) ==
    IF D = {} THEN g ELSE Admit(it[D \ {Max(D)}], s[Max(D)])

(* The definition of FoldLeft, for the scan: each place is computed from   *)
(* the places before it.                                                   *)
LEMMA Scanning ==
    ASSUME NEW g, NEW s, NEW n \in Nat
    PROVE  \E it : it = [D \in SUBSET (1 .. n) |-> AdmitAt(s, g, it, D)]
<1> DEFINE S == {m \in Nat :
                   \E it : it = [D \in SUBSET (1 .. m) |-> AdmitAt(s, g, it, D)]}
<1>1. 0 \in S
  <2> DEFINE it == [D \in SUBSET (1 .. 0) |-> g]
  <2>1. it = [D \in SUBSET (1 .. 0) |-> AdmitAt(s, g, it, D)]
    BY DEF AdmitAt
  <2> QED
    BY <2>1
<1>2. ASSUME NEW m \in Nat, m \in S PROVE m + 1 \in S
  <2>1. PICK it : it = [D \in SUBSET (1 .. m) |-> AdmitAt(s, g, it, D)]
    BY <1>2
  <2> DEFINE P(D) == D \ {m + 1}
             jt == [D \in SUBSET (1 .. m + 1) |->
                       IF m + 1 \in D THEN Admit(it[P(D)], s[m + 1]) ELSE it[D]]
  <2>2. \A D \in SUBSET (1 .. m + 1) :
           P(D) \in SUBSET (1 .. m) /\ (m + 1 \notin D => D \in SUBSET (1 .. m))
    OBVIOUS
  <2>3. ASSUME NEW D \in SUBSET (1 .. m + 1), m + 1 \in D PROVE Max(D) = m + 1
    BY <2>3, Greatest
  <2>4. ASSUME NEW D \in SUBSET (1 .. m + 1)
        PROVE  jt[D] = AdmitAt(s, g, jt, D)
    <3>1. CASE m + 1 \in D
      <4>1. jt[P(D)] = it[P(D)]
        BY <2>2
      <4> QED
        BY <2>3, <3>1, <4>1 DEF AdmitAt
    <3>2. CASE m + 1 \notin D
      <4>1. it[D] = AdmitAt(s, g, it, D)
        BY <2>1, <2>2, <3>2
      <4>2. D # {} => jt[D \ {Max(D)}] = it[D \ {Max(D)}]
        BY <2>2, <3>2
      <4> QED
        BY <3>2, <4>1, <4>2 DEF AdmitAt
    <3> QED
      BY <3>1, <3>2
  <2>5. jt = [D \in SUBSET (1 .. m + 1) |-> AdmitAt(s, g, jt, D)]
    BY <2>4
  <2> HIDE DEF jt
  <2>6. \E kt : kt = [D \in SUBSET (1 .. m + 1) |-> AdmitAt(s, g, kt, D)]
    BY <2>5
  <2> QED
    BY <2>6
<1> HIDE DEF S
<1>3. n \in S
  BY <1>1, <1>2, Inductive
<1> QED
  BY <1>3 DEF S

(* The scan, place by place of the queue.                                  *)
LEMMA Scanned ==
    ASSUME NEW g, NEW n \in Nat, DOMAIN g.queue = 1 .. n
    PROVE  \E tr : /\ tr[0] = g /\ tr[n] = Scan(g)
                   /\ \A i \in 1 .. n : tr[i] = Admit(tr[i - 1], g.queue[i])
<1> DEFINE s == g.queue
           it == CHOOSE it : it = [D \in SUBSET (1 .. n) |-> AdmitAt(s, g, it, D)]
           tr == [i \in 0 .. n |-> it[1 .. i]]
<1>1. it = [D \in SUBSET (1 .. n) |-> AdmitAt(s, g, it, D)]
  BY Scanning
<1>2. Scan(g) = it[1 .. n]
  BY DEF Scan, FoldLeft, MapThenFoldSet, AdmitAt
<1> HIDE DEF it
<1>3. \A i \in 1 .. n : tr[i] = Admit(tr[i - 1], s[i])
  <2> TAKE i \in 1 .. n
  <2>1. /\ 1 .. i \in SUBSET (1 .. n) /\ i - 1 \in 0 .. n /\ i \in 0 .. n
        /\ i \in 1 .. i /\ \A k \in 1 .. i : k <= i
        /\ 1 .. i \in SUBSET Nat
    OBVIOUS
  <2>2. Max(1 .. i) = i
    BY <2>1, Greatest
  <2>3. (1 .. i) \ {i} = 1 .. (i - 1) /\ 1 .. i # {}
    OBVIOUS
  <2>4. it[1 .. i] = AdmitAt(s, g, it, 1 .. i)
    BY <1>1, <2>1
  <2>5. AdmitAt(s, g, it, 1 .. i) = Admit(it[1 .. (i - 1)], s[i])
    BY <2>2, <2>3 DEF AdmitAt
  <2>6. tr[i] = it[1 .. i] /\ tr[i - 1] = it[1 .. (i - 1)]
    BY <2>1
  <2> QED
    BY <2>4, <2>5, <2>6
<1>4. tr[0] = g
  <2>1. it[{}] = g /\ 1 .. 0 = {}
    BY <1>1 DEF AdmitAt
  <2>2. tr[0] = it[1 .. 0]
    OBVIOUS
  <2> QED
    BY <2>1, <2>2
<1>5. tr[n] = Scan(g)
  BY <1>2
<1> HIDE DEF tr
<1> QED
  BY <1>3, <1>4, <1>5

(* The slot is counted off; nobody is started yet.                         *)
Freed(g, r) ==
    [g EXCEPT !.active = @ - 1, !.activeBy[OwnerOf[r]] = @ - 1,
              !.holders = @ \ {r}]

(* A slot is given back; the queue waits to be scanned.                    *)
LEMMA GateFrees ==
    ASSUME NEW g, Orderly(g), NEW r \in g.holders
    PROVE  /\ Orderly(Freed(g, r))
           /\ Freed(g, r).holders = g.holders \ {r}
           /\ Freed(g, r).queue = g.queue
<1> DEFINE h == Freed(g, r)
<1>0. /\ r \in Requests /\ OwnerOf[r] \in Owners
      /\ Concurrency \in Nat /\ PerOwner \in Nat
      /\ g \in Gates /\ g.active \in Nat /\ g.activeBy \in [Owners -> Nat]
      /\ g.holders \in SUBSET Requests
  BY GateAssumption DEF Orderly, Gates
<1>1. /\ Cardinality(g.holders) \in Nat /\ Cardinality(g.holders) > 0
      /\ Cardinality(g.holders \ {r}) = Cardinality(g.holders) - 1
      /\ \A o \in Owners :
            /\ o = OwnerOf[r] => Cardinality(Of(g.holders, o)) > 0
            /\ Cardinality(Of(g.holders \ {r}, o)) =
                  Cardinality(Of(g.holders, o)) - (IF o = OwnerOf[r] THEN 1 ELSE 0)
  BY <1>0, Taken
<1>2. /\ g.active = Cardinality(g.holders) /\ g.active <= Concurrency
      /\ \A o \in Owners :
            /\ g.activeBy[o] = Cardinality(Of(g.holders, o))
            /\ g.activeBy[o] <= PerOwner
  BY DEF Orderly, Exact
<1>3. /\ h \in Gates
      /\ h.active = g.active - 1
      /\ h.activeBy = [g.activeBy EXCEPT ![OwnerOf[r]] = g.activeBy[OwnerOf[r]] - 1]
      /\ h.holders = g.holders \ {r}
      /\ h.queue = g.queue /\ h.queuedBy = g.queuedBy
  <2>1. h = [g EXCEPT !.active = g.active - 1,
                      !.activeBy = [g.activeBy EXCEPT ![OwnerOf[r]] =
                                       g.activeBy[OwnerOf[r]] - 1],
                      !.holders = g.holders \ {r}]
    BY <1>0 DEF Freed, Gates
  <2>2. [g.activeBy EXCEPT ![OwnerOf[r]] = g.activeBy[OwnerOf[r]] - 1]
          \in [Owners -> Nat]
    <3>1. g.activeBy[OwnerOf[r]] > 0
      BY <1>0, <1>1, <1>2
    <3> QED
      BY <1>0, <3>1
  <2>3. g.active - 1 \in Nat
    BY <1>0, <1>1, <1>2
  <2> HIDE DEF h
  <2> QED
    BY <1>0, <2>1, <2>2, <2>3 DEF Gates
<1> HIDE DEF h
<1>4. \A o \in Owners :
         h.activeBy[o] = g.activeBy[o] - (IF o = OwnerOf[r] THEN 1 ELSE 0)
  BY <1>0, <1>3
<1>5. Exact(h)
  <2>1. h.active = Cardinality(h.holders) /\ h.active <= Concurrency
    BY <1>0, <1>1, <1>2, <1>3
  <2>2. ASSUME NEW o \in Owners
        PROVE  /\ h.activeBy[o] = Cardinality(Of(h.holders, o))
               /\ h.activeBy[o] <= PerOwner
    <3>1. h.activeBy[o] = Cardinality(Of(h.holders, o))
      <4>1. Cardinality(Of(h.holders, o)) =
               Cardinality(Of(g.holders, o)) - (IF o = OwnerOf[r] THEN 1 ELSE 0)
        BY <1>1, <1>3
      <4>2. g.activeBy[o] = Cardinality(Of(g.holders, o))
        BY <1>2
      <4> QED
        BY <1>4, <4>1, <4>2
    <3>2. g.activeBy[o] \in Nat /\ g.activeBy[o] <= PerOwner
      BY <1>0, <1>2
    <3> QED
      BY <1>0, <1>4, <3>1, <3>2
  <2>3. ToSet(h.queue) \cap h.holders = {}
    BY <1>3 DEF Orderly, Exact
  <2> QED
    BY <1>3, <2>1, <2>2, <2>3 DEF Orderly, Exact
<1> QED
  BY <1>3, <1>5 DEF Orderly, h

(* A waiter that is scanned starts, or cannot run and stays.               *)
LEMMA GateAdmits ==
    ASSUME NEW g, Orderly(g), NEW r \in ToSet(g.queue)
    PROVE  /\ Orderly(Admit(g, r))
           /\ g.holders \subseteq Admit(g, r).holders
           /\ Admit(g, r).holders \cup ToSet(Admit(g, r).queue) =
                 g.holders \cup ToSet(g.queue)
           /\ ToSet(g.queue) \ {r} \subseteq ToSet(Admit(g, r).queue)
           /\ r \in ToSet(Admit(g, r).queue) => ~CanRun(Admit(g, r), r)
           /\ IF CanRun(g, r) THEN Admit(g, r).holders = g.holders \cup {r}
                             ELSE Admit(g, r) = g
           /\ \A q \in Requests : CanRun(Admit(g, r), q) => CanRun(g, q)
<1>1. CASE ~CanRun(g, r)
  BY <1>1 DEF Admit
<1>2. CASE CanRun(g, r)
  <2> DEFINE d == Dequeued(g, r)
             h == Started(d, r)
  <2>1. r \in Requests /\ r \notin g.holders
    BY LenProperties DEF Orderly, Gates, Exact, ToSet
  <2>2. /\ Orderly(d) /\ d.holders = g.holders
        /\ ToSet(d.queue) = ToSet(g.queue) \ {r}
        /\ \A q \in Requests : CanRun(d, q) <=> CanRun(g, q)
    BY GateDequeues
  <2> HIDE DEF d
  <2>3. /\ Orderly(h) /\ h.holders = d.holders \cup {r} /\ h.queue = d.queue
        /\ \A q \in Requests : CanRun(h, q) => CanRun(d, q)
    BY <1>2, <2>1, <2>2, GateStarts
  <2>4. Admit(g, r) = h
    BY <1>2 DEF Admit, d
  <2> HIDE DEF h
  <2>5. h.holders = g.holders \cup {r} /\ ToSet(h.queue) = ToSet(g.queue) \ {r}
    BY <2>2, <2>3
  <2>6. /\ h.holders \cup ToSet(h.queue) = g.holders \cup ToSet(g.queue)
        /\ r \notin ToSet(h.queue)
    BY <2>5
  <2> QED
    BY <1>2, <2>2, <2>3, <2>4, <2>5, <2>6
<1> QED
  BY <1>1, <1>2

(* The scan leaves nobody waiting who could run: a waiter it passed over   *)
(* could not run then, and slots only fill after that.                     *)
LEMMA GateScans ==
    ASSUME NEW g, Orderly(g)
    PROVE  /\ Orderly(Scan(g)) /\ Busy(Scan(g))
           /\ g.holders \subseteq Scan(g).holders
           /\ Scan(g).holders \cup ToSet(Scan(g).queue) =
                 g.holders \cup ToSet(g.queue)
           /\ \A a, b \in DOMAIN g.queue :
                 a < b /\ OwnerOf[g.queue[a]] = OwnerOf[g.queue[b]]
                 /\ g.queue[b] \in Scan(g).holders =>
                     g.queue[a] \in Scan(g).holders
<1> DEFINE s == g.queue
           n == Len(s)
<1>1. /\ n \in Nat /\ DOMAIN s = 1 .. n
      /\ \A i \in 1 .. n : s[i] \in Requests /\ s[i] \in ToSet(s)
      /\ \A q \in ToSet(s) : \E i \in 1 .. n : q = s[i]
      /\ \A i, j \in 1 .. n : s[i] = s[j] => i = j
  <2>1. s \in Seq(Requests) /\ IsInjective(s)
    BY DEF Orderly, Gates
  <2>2. n \in Nat /\ DOMAIN s = 1 .. n /\ \A i \in 1 .. n : s[i] \in Requests
    BY <2>1, LenProperties, ElementOfSeq
  <2> QED
    BY <2>1, <2>2 DEF ToSet, IsInjective
<1> HIDE DEF n
<1>2. PICK tr : /\ tr[0] = g /\ tr[n] = Scan(g)
                /\ \A i \in 1 .. n : tr[i] = Admit(tr[i - 1], s[i])
  BY <1>1, Scanned
<1> DEFINE Good(i) ==
             /\ Orderly(tr[i])
             /\ g.holders \subseteq tr[i].holders
             /\ tr[i].holders \cup ToSet(tr[i].queue) = g.holders \cup ToSet(s)
             /\ \A j \in 1 .. n : j > i => s[j] \in ToSet(tr[i].queue)
             /\ \A j \in 1 .. n :
                   j <= i /\ s[j] \in ToSet(tr[i].queue) => ~CanRun(tr[i], s[j])
             /\ \A a, b \in 1 .. n :
                   a < b /\ a <= i /\ OwnerOf[s[a]] = OwnerOf[s[b]] =>
                      \/ s[a] \in tr[i].holders
                      \/ s[b] \notin tr[i].holders /\ ~CanRun(tr[i], s[b])
           S == {i \in Nat : i <= n => Good(i)}
<1>3. 0 \in S
  BY <1>1, <1>2
<1>4. ASSUME NEW i \in Nat, i \in S PROVE i + 1 \in S
  <2> SUFFICES ASSUME i + 1 <= n PROVE Good(i + 1)
    OBVIOUS
  <2> DEFINE t == tr[i]
             r == s[i + 1]
             u == tr[i + 1]
  <2>1. Good(i) /\ i + 1 \in 1 .. n /\ (i + 1) - 1 = i
    <3>0. n \in Nat
      BY <1>1
    <3> HIDE DEF Good
    <3>1. i <= n /\ i + 1 \in 1 .. n /\ (i + 1) - 1 = i
      BY <3>0
    <3>2. i <= n => Good(i)
      BY <1>4
    <3> QED
      BY ONLY <3>1, <3>2
  <2>2. Orderly(t) /\ r \in ToSet(t.queue) /\ u = Admit(t, r) /\ r \in Requests
    <3>1. Orderly(t) /\ \A j \in 1 .. n : j > i => s[j] \in ToSet(t.queue)
      BY <2>1
    <3>2. i + 1 \in 1 .. n /\ i + 1 > i /\ (i + 1) - 1 = i
      BY <2>1
    <3> HIDE DEF t, Good, S
    <3>3. u = Admit(t, r)
      BY <1>2, <3>2 DEF t
    <3> QED
      BY <1>1, <3>1, <3>2, <3>3
  <2> HIDE DEF u
  <2>3. /\ Orderly(u) /\ t.holders \subseteq u.holders
        /\ u.holders \cup ToSet(u.queue) = t.holders \cup ToSet(t.queue)
        /\ ToSet(t.queue) \ {r} \subseteq ToSet(u.queue)
        /\ r \in ToSet(u.queue) => ~CanRun(u, r)
        /\ IF CanRun(t, r) THEN u.holders = t.holders \cup {r} ELSE u = t
        /\ \A q \in Requests : CanRun(u, q) => CanRun(t, q)
    BY <2>2, GateAdmits
  <2>4. ASSUME NEW j \in 1 .. n, j > i + 1 PROVE s[j] \in ToSet(u.queue)
    <3>1. s[j] # r /\ j > i
      BY <1>1, <2>1, <2>4
    <3> QED
      BY <2>1, <2>3, <3>1
  <2>5. ASSUME NEW j \in 1 .. n, j <= i + 1, s[j] \in ToSet(u.queue)
        PROVE  ~CanRun(u, s[j])
    <3>1. CASE j = i + 1
      BY <2>3, <2>5, <3>1
    <3>2. CASE j <= i
      <4>1. s[j] \in ToSet(t.queue)
        <5>1. s[j] \in t.holders \cup ToSet(t.queue)
          BY <2>3, <2>5
        <5>2. s[j] \notin u.holders
          BY <2>3, <2>5 DEF Orderly, Exact
        <5> QED
          BY <2>3, <5>1, <5>2
      <4>2. ~CanRun(t, s[j])
        BY <2>1, <3>2, <4>1
      <4> QED
        BY <1>1, <2>3, <4>2
    <3> QED
      BY <2>5, <3>1, <3>2
  <2>8. ASSUME NEW a \in 1 .. n, NEW b \in 1 .. n, a < b, a <= i + 1,
               OwnerOf[s[a]] = OwnerOf[s[b]]
        PROVE  \/ s[a] \in u.holders
               \/ s[b] \notin u.holders /\ ~CanRun(u, s[b])
    <3>1. CASE a = i + 1
      <4>1. CASE CanRun(t, r)
        BY <2>3, <3>1, <4>1
      <4>2. CASE ~CanRun(t, r)
        <5>1. u = t /\ ~CanRun(t, s[b])
          BY <2>3, <2>8, <3>1, <4>2 DEF CanRun
        <5>2. s[b] \in ToSet(u.queue)
          BY <2>4, <2>8, <3>1
        <5> QED
          BY <2>3, <5>1, <5>2 DEF Orderly, Exact
      <4> QED
        BY <4>1, <4>2
    <3>2. CASE a <= i
      <4>1. CASE s[a] \in t.holders
        BY <2>3, <4>1
      <4>2. CASE s[b] \notin t.holders /\ ~CanRun(t, s[b])
        <5>1. ~CanRun(u, s[b])
          BY <1>1, <2>3, <4>2
        <5>2. s[b] \notin u.holders
          BY <2>3, <4>2
        <5> QED
          BY <5>1, <5>2
      <4> QED
        BY <2>1, <2>8, <3>2, <4>1, <4>2
    <3> QED
      BY <2>8, <3>1, <3>2
  <2> HIDE DEF t
  <2>6. g.holders \subseteq u.holders
    BY <2>1, <2>3 DEF t
  <2>7. u.holders \cup ToSet(u.queue) = g.holders \cup ToSet(s)
    BY <2>1, <2>3 DEF t
  <2> QED
    BY <2>3, <2>4, <2>5, <2>6, <2>7, <2>8 DEF u
<1> HIDE DEF S
<1>5. n \in S
  BY <1>1, <1>3, <1>4, Inductive
<1>6. Good(n)
  BY <1>1, <1>5 DEF S
<1>7. Busy(Scan(g))
  <2> SUFFICES ASSUME NEW q \in ToSet(Scan(g).queue) PROVE ~CanRun(Scan(g), q)
    BY DEF Busy
  <2>1. q \in ToSet(s)
    <3>1. q \notin Scan(g).holders /\ q \in g.holders \cup ToSet(s)
      BY <1>2, <1>6 DEF Orderly, Exact
    <3> QED
      BY <1>2, <1>6, <3>1
  <2>2. PICK i \in 1 .. n : q = s[i]
    BY <1>1, <2>1
  <2> QED
    BY <1>1, <1>2, <1>6, <2>2
<1>8. ASSUME NEW a \in DOMAIN s, NEW b \in DOMAIN s, a < b,
             OwnerOf[s[a]] = OwnerOf[s[b]], s[b] \in Scan(g).holders
      PROVE  s[a] \in Scan(g).holders
  <2>1. a \in 1 .. n /\ b \in 1 .. n /\ a <= n
    BY <1>1
  <2> QED
    BY <1>2, <1>6, <1>8, <2>1
<1> QED
  BY <1>2, <1>6, <1>7, <1>8

(* The whole of a release: a slot is given back and the queue scanned.     *)
LEMMA GateReleases ==
    ASSUME NEW g, Orderly(g), NEW r \in g.holders
    PROVE  LET h == Released(g, r)
           IN  /\ Orderly(h) /\ Busy(h)
               /\ g.holders \ {r} \subseteq h.holders
               /\ h.holders \cup ToSet(h.queue) =
                     (g.holders \ {r}) \cup ToSet(g.queue)
               /\ \A a, b \in DOMAIN g.queue :
                     a < b /\ OwnerOf[g.queue[a]] = OwnerOf[g.queue[b]]
                     /\ g.queue[b] \in h.holders => g.queue[a] \in h.holders
<1> DEFINE f == Freed(g, r)
<1>1. Released(g, r) = Scan(f)
  BY DEF Released, Freed
<1>2. Orderly(f) /\ f.holders = g.holders \ {r} /\ f.queue = g.queue
  BY GateFrees
<1> HIDE DEF f
<1> QED
  BY <1>1, <1>2, GateScans

-----------------------------------------------------------------------------
(* The slots and the places of the gates, and who has them.                *)

Serving == {"acquire", "queued"} \cup Holding

Orders ==
    /\ DOMAIN gate = Replicas
    /\ \A p \in Replicas : Orderly(gate[p]) /\ Busy(gate[p])

(* A slot is held exactly while its request is between the gate and its    *)
(* release, a place exactly while it waits: both directions are needed, as *)
(* a request that left with a slot would fill the gate for ever.           *)
Placed ==
    /\ \A r \in Requests : pc[r] \in Serving => at[r] \in Replicas
    /\ \A p \in Replicas, r \in Requests :
          /\ r \in gate[p].holders <=> at[r] = p /\ pc[r] \in Holding
          /\ r \in ToSet(gate[p].queue) <=> at[r] = p /\ pc[r] = "queued"

SlotInv == KeyInv /\ Orders /\ Placed

LEMMA GateEmpty == Orderly(EmptyGate) /\ Busy(EmptyGate)
<1> DEFINE g == EmptyGate
<1>1. /\ g \in Gates /\ g.queue = <<>> /\ g.holders = {} /\ g.active = 0
      /\ \A o \in Owners : g.activeBy[o] = 0 /\ g.queuedBy[o] = 0
  BY DEF EmptyGate, Gates
<1> HIDE DEF g
<1>2. IsInjective(g.queue) /\ ToSet(g.queue) = {} /\ Len(g.queue) = 0
  BY <1>1 DEF IsInjective, ToSet
<1>3. /\ Cardinality({}) = 0 /\ \A o \in Owners : Of({}, o) = {}
  BY FS_EmptySet DEF Of
<1>4. Exact(g)
  <2>1. /\ Cardinality(g.holders) = 0 /\ Cardinality(ToSet(g.queue)) = 0
        /\ \A o \in Owners : /\ Cardinality(Of(g.holders, o)) = 0
                             /\ Cardinality(Of(ToSet(g.queue), o)) = 0
    BY <1>1, <1>2, <1>3
  <2>2. Concurrency \in Nat /\ PerOwner \in Nat /\ MaxQueue \in Nat /\ MaxQueuePerOwner \in Nat
    BY GateAssumption
  <2>3. ToSet(g.queue) \cap g.holders = {}
    BY <1>1
  <2> QED
    BY <1>1, <1>2, <2>1, <2>2, <2>3 DEF Exact
<1> QED
  BY <1>1, <1>2, <1>4 DEF Orderly, Busy, g

LEMMA SlotInit == Init => SlotInv
<1> SUFFICES ASSUME Init PROVE Orders /\ Placed
  BY KeyInit DEF SlotInv
<1>1. /\ gate = [p \in Replicas |-> EmptyGate] /\ pc = [r \in Requests |-> "idle"]
      /\ EmptyGate.holders = {} /\ ToSet(EmptyGate.queue) = {}
  BY DEF Init, EmptyGate, ToSet
<1>2. Orders
  BY <1>1, GateEmpty DEF Orders
<1>3. Placed
  BY <1>1 DEF Placed, Serving, Holding, InTransaction
<1> QED
  BY <1>2, <1>3

(* A request goes on with what it has at the gates.                        *)
LEMMA SlotGoes ==
    ASSUME SlotInv, NEW r \in Requests, NEW l,
           pc' = [pc EXCEPT ![r] = l], UNCHANGED gate,
           \/ pc[r] \in Holding /\ l \in Holding /\ at' = at
           \/ pc[r] \in {"idle", "acquire"} /\ l \notin Serving
              /\ \A q \in Requests : q # r => at'[q] = at[q]
           \/ pc[r] = "idle" /\ l = "acquire" /\ at'[r] \in Replicas
              /\ \A q \in Requests : q # r => at'[q] = at[q]
    PROVE  Orders' /\ Placed'
<1>1. \A q \in Requests : pc'[q] = IF q = r THEN l ELSE pc[q]
  BY DEF SlotInv, KeyInv, Types
<1> USE DEF SlotInv, Serving, Holding, InTransaction
<1>2. Orders'
  BY DEF Orders
<1>3. Placed'
  BY <1>1 DEF Placed
<1> QED
  BY <1>2, <1>3

(* What one gate becomes, and where its requests go.                       *)
LEMMA SlotChanges ==
    ASSUME SlotInv, NEW p \in Replicas, NEW g, Orderly(g), Busy(g),
           gate' = [gate EXCEPT ![p] = g],
           \A r \in Requests : pc'[r] \in Serving => at'[r] \in Replicas,
           \A r \in Requests : at[r] # p => at'[r] = at[r] /\ pc'[r] = pc[r],
           \A r \in Requests : at[r] = p => at'[r] = p \/ pc'[r] \notin Serving,
           \A r \in Requests :
               /\ r \in g.holders <=> at'[r] = p /\ pc'[r] \in Holding
               /\ r \in ToSet(g.queue) <=> at'[r] = p /\ pc'[r] = "queued"
    PROVE  Orders' /\ Placed'
<1>1. /\ DOMAIN gate' = Replicas /\ gate'[p] = g
      /\ \A q \in Replicas : q # p => gate'[q] = gate[q]
  BY DEF SlotInv, Orders
<1>2. Orders'
  BY <1>1 DEF SlotInv, Orders
<1>3. Placed'
  <2> SUFFICES ASSUME NEW q \in Replicas, NEW r \in Requests
               PROVE  /\ r \in gate'[q].holders <=> at'[r] = q /\ pc'[r] \in Holding
                      /\ r \in ToSet(gate'[q].queue) <=> at'[r] = q /\ pc'[r] = "queued"
    BY DEF Placed
  <2> USE DEF SlotInv, Placed, Serving
  <2>1. CASE q = p
    BY <1>1, <2>1
  <2>2. CASE q # p
    BY <1>1, <2>2
  <2> QED
    BY <2>1, <2>2
<1> QED
  BY <1>2, <1>3

LEMMA SlotAcquire ==
    ASSUME SlotInv, NEW r \in Requests, Acquire(r)
    PROVE  Orders' /\ Placed'
<1> DEFINE p == at[r]
           g == gate[p]
<1>1. /\ pc[r] = "acquire" /\ p \in Replicas /\ Orderly(g) /\ Busy(g)
      /\ r \notin g.holders /\ r \notin ToSet(g.queue)
      /\ pc \in [Requests -> Labels]
  BY DEF Acquire, SlotInv, KeyInv, Types, Orders, Placed, Serving, Holding, InTransaction
<1>2. ASSUME NEW h, NEW l, l \in {"begin", "queued"},
             gate' = [gate EXCEPT ![p] = h], pc' = [pc EXCEPT ![r] = l], at' = at,
             Orderly(h), Busy(h),
             h.holders = g.holders \cup (IF l = "begin" THEN {r} ELSE {}),
             ToSet(h.queue) = ToSet(g.queue) \cup (IF l = "queued" THEN {r} ELSE {})
      PROVE  Orders' /\ Placed'
  <2>1. \A q \in Requests : pc'[q] = IF q = r THEN l ELSE pc[q]
    BY <1>1, <1>2
  <2>2. \A q \in Requests : pc'[q] \in Serving => at'[q] \in Replicas
    BY <1>1, <1>2, <2>1 DEF SlotInv, Placed
  <2>3. \A q \in Requests : at[q] # p => pc'[q] = pc[q]
    BY <2>1
  <2>4. \A q \in Requests :
           /\ q \in h.holders <=> at'[q] = p /\ pc'[q] \in Holding
           /\ q \in ToSet(h.queue) <=> at'[q] = p /\ pc'[q] = "queued"
    <3>1. \A q \in Requests :
             /\ q \in g.holders <=> at[q] = p /\ pc[q] \in Holding
             /\ q \in ToSet(g.queue) <=> at[q] = p /\ pc[q] = "queued"
      BY <1>1 DEF SlotInv, Placed
    <3>2. "begin" \in Holding /\ "queued" \notin Holding
      BY DEF Holding, InTransaction
    <3>3. CASE l = "begin"
      BY <1>1, <1>2, <2>1, <3>1, <3>2, <3>3
    <3>4. CASE l = "queued"
      BY <1>1, <1>2, <2>1, <3>1, <3>2, <3>4
    <3> QED
      BY <1>2, <3>3, <3>4
  <2> QED
    BY <1>1, <1>2, <2>2, <2>3, <2>4, SlotChanges
<1>3. CASE CanRun(g, r) /\ SetGate(r, Started(g, r)) /\ Goto(r, "begin")
  <2> DEFINE h == Started(g, r)
  <2>1. /\ Orderly(h) /\ h.holders = g.holders \cup {r} /\ h.queue = g.queue
        /\ \A q \in Requests : CanRun(h, q) => CanRun(g, q)
    BY <1>1, <1>3, GateStarts
  <2>2. gate' = [gate EXCEPT ![p] = h] /\ pc' = [pc EXCEPT ![r] = "begin"] /\ at' = at
    BY <1>3 DEF SetGate, Goto
  <2> HIDE DEF h
  <2>3. Busy(h)
    <3>1. ToSet(g.queue) \subseteq Requests
      BY <1>1, LenProperties DEF Orderly, Gates, ToSet
    <3> QED
      BY <1>1, <2>1, <3>1 DEF Busy
  <2> QED
    BY <1>2, <2>1, <2>2, <2>3
<1>4. CASE UNCHANGED gate /\ Finish(r)
  <2>1. /\ pc' = [pc EXCEPT ![r] = "done"] /\ UNCHANGED gate
        /\ \A q \in Requests : q # r => at'[q] = at[q]
        /\ "done" \notin Serving
    BY <1>4 DEF Finish, Forget, Serving, Holding, InTransaction, SlotInv, KeyInv, Types
  <2> QED
    BY <1>1, <2>1, SlotGoes
<1>5. CASE /\ ~CanRun(g, r) /\ ~Full(g, r)
           /\ SetGate(r, Enqueued(g, r)) /\ Goto(r, "queued")
  <2> DEFINE h == Enqueued(g, r)
  <2>1. /\ Orderly(h) /\ h.holders = g.holders
        /\ ToSet(h.queue) = ToSet(g.queue) \cup {r}
        /\ \A q \in Requests : CanRun(h, q) <=> CanRun(g, q)
    BY <1>1, <1>5, GateEnqueues
  <2>2. gate' = [gate EXCEPT ![p] = h] /\ pc' = [pc EXCEPT ![r] = "queued"] /\ at' = at
    BY <1>5 DEF SetGate, Goto
  <2> HIDE DEF h
  <2>3. Busy(h)
    <3>1. ToSet(g.queue) \subseteq Requests
      BY <1>1, LenProperties DEF Orderly, Gates, ToSet
    <3> QED
      BY <1>1, <1>5, <2>1, <3>1 DEF Busy
  <2> QED
    BY <1>2, <2>1, <2>2, <2>3
<1> QED
  BY <1>3, <1>4, <1>5 DEF Acquire, Gate

LEMMA SlotQueueTimeout ==
    ASSUME SlotInv, NEW r \in Requests, QueueTimeout(r)
    PROVE  Orders' /\ Placed'
<1> DEFINE p == at[r]
           g == gate[p]
           h == Dequeued(g, r)
<1>1. /\ pc[r] = "queued" /\ p \in Replicas /\ Orderly(g) /\ Busy(g)
      /\ r \in ToSet(g.queue)
  BY DEF QueueTimeout, SlotInv, Orders, Placed, Serving
<1>2. /\ gate' = [gate EXCEPT ![p] = h]
      /\ \A q \in Requests : pc'[q] = IF q = r THEN "done" ELSE pc[q]
      /\ \A q \in Requests : q # r => at'[q] = at[q]
  BY DEF QueueTimeout, SetGate, Gate, GivesUp, Finish, Forget, SlotInv, KeyInv, Types
<1>3. /\ Orderly(h) /\ h.holders = g.holders
      /\ ToSet(h.queue) = ToSet(g.queue) \ {r}
      /\ \A q \in Requests : CanRun(h, q) <=> CanRun(g, q)
  BY <1>1, GateDequeues
<1>4. "done" \notin Serving /\ "done" \notin Holding /\ "queued" \notin Holding
  BY DEF Serving, Holding, InTransaction
<1> HIDE DEF h
<1>5. Busy(h)
  <2>1. ToSet(g.queue) \subseteq Requests
    BY <1>1, LenProperties DEF Orderly, Gates, ToSet
  <2> QED
    BY <1>1, <1>3, <2>1 DEF Busy
<1>6. \A q \in Requests : pc'[q] \in Serving => at'[q] \in Replicas
  BY <1>2, <1>4 DEF SlotInv, Placed
<1>7. \A q \in Requests :
         /\ q \in h.holders <=> at'[q] = p /\ pc'[q] \in Holding
         /\ q \in ToSet(h.queue) <=> at'[q] = p /\ pc'[q] = "queued"
  <2>1. \A q \in Requests :
           /\ q \in g.holders <=> at[q] = p /\ pc[q] \in Holding
           /\ q \in ToSet(g.queue) <=> at[q] = p /\ pc[q] = "queued"
    BY <1>1 DEF SlotInv, Placed
  <2> QED
    BY <1>1, <1>2, <1>3, <1>4, <2>1
<1>8. /\ \A q \in Requests : at[q] # p => at'[q] = at[q] /\ pc'[q] = pc[q]
      /\ \A q \in Requests : at[q] = p => at'[q] = p \/ pc'[q] \notin Serving
  BY <1>2, <1>4
<1> QED
  BY <1>1, <1>2, <1>3, <1>5, <1>6, <1>7, <1>8, SlotChanges

(* The request goes; those the scan let in have its slot or others.        *)
LEMMA SlotLeave ==
    ASSUME SlotInv, NEW r \in Requests, Leave(r)
    PROVE  Orders' /\ Placed'
<1> DEFINE p == at[r]
           g == gate[p]
           h == Released(g, r)
<1>0. /\ "leave" \in Holding /\ "leave" \in Serving /\ "begin" \in Holding
      /\ "begin" \in Serving /\ "queued" \in Serving
      /\ "done" \notin Serving /\ "done" \notin Holding /\ "queued" \notin Holding
      /\ "begin" # "queued"
  BY DEF Serving, Holding, InTransaction
<1>1. /\ pc[r] = "leave" /\ p \in Replicas /\ Orderly(g) /\ Busy(g)
      /\ r \in g.holders
  BY <1>0 DEF Leave, SlotInv, Orders, Placed
<1>2. /\ gate' = [gate EXCEPT ![p] = h]
      /\ \A q \in Requests :
            pc'[q] = IF q = r THEN "done"
                     ELSE IF pc[q] = "queued" /\ q \in h.holders THEN "begin" ELSE pc[q]
      /\ \A q \in Requests : q # r => at'[q] = at[q]
  BY DEF Leave, Ends, SetGate, Gate, Forget, SlotInv, KeyInv, Types
<1>3. /\ Orderly(h) /\ Busy(h)
      /\ g.holders \ {r} \subseteq h.holders
      /\ h.holders \cup ToSet(h.queue) = (g.holders \ {r}) \cup ToSet(g.queue)
  BY <1>1, GateReleases
<1> HIDE DEF h
<1>4. \A q \in Requests :
         /\ q \in g.holders <=> at[q] = p /\ pc[q] \in Holding
         /\ q \in ToSet(g.queue) <=> at[q] = p /\ pc[q] = "queued"
  BY <1>1 DEF SlotInv, Placed
<1>5. \A q \in Requests :
         ~(q \in h.holders /\ q \in ToSet(h.queue)) /\ ~(q \in g.holders /\ q \in ToSet(g.queue))
  BY <1>1, <1>3 DEF Orderly, Exact
<1>6. \A q \in Requests : at[q] # p => at'[q] = at[q] /\ pc'[q] = pc[q]
  BY <1>2, <1>3, <1>4
<1>7. \A q \in Requests : pc'[q] \in Serving => at'[q] \in Replicas
  BY <1>0, <1>2 DEF SlotInv, Placed
<1>8. \A q \in Requests :
         /\ q \in h.holders <=> at'[q] = p /\ pc'[q] \in Holding
         /\ q \in ToSet(h.queue) <=> at'[q] = p /\ pc'[q] = "queued"
  <2> SUFFICES ASSUME NEW q \in Requests
               PROVE  /\ q \in h.holders <=> at'[q] = p /\ pc'[q] \in Holding
                      /\ q \in ToSet(h.queue) <=> at'[q] = p /\ pc'[q] = "queued"
    OBVIOUS
  <2>1. CASE q = r
    BY <1>0, <1>1, <1>2, <1>3, <1>5, <2>1
  <2>2. CASE q # r
    BY <1>0, <1>2, <1>3, <1>4, <1>5, <2>2
  <2> QED
    BY <2>1, <2>2
<1>9. \A q \in Requests : at[q] = p => at'[q] = p \/ pc'[q] \notin Serving
  BY <1>0, <1>2
<1> QED
  BY <1>1, <1>2, <1>3, <1>6, <1>7, <1>8, <1>9, SlotChanges

(* The memory of a replica goes, and everyone in it.                       *)
LEMMA SlotCrash ==
    ASSUME SlotInv, NEW p \in Replicas, Crash(p)
    PROVE  Orders' /\ Placed'
<1>1. /\ gate' = [gate EXCEPT ![p] = EmptyGate]
      /\ \A r \in Requests :
            /\ pc'[r] = IF at[r] = p THEN "done" ELSE pc[r]
            /\ at[r] # p => at'[r] = at[r]
  BY DEF Crash
<1>2. /\ "done" \notin Serving /\ "done" \notin Holding
      /\ Holding \subseteq Serving /\ "queued" \in Serving
  BY DEF Serving, Holding, InTransaction
<1>3. EmptyGate.holders = {} /\ ToSet(EmptyGate.queue) = {}
  BY DEF EmptyGate, ToSet
<1>4. \A r \in Requests : pc'[r] \in Serving => at'[r] \in Replicas /\ at'[r] # p
  BY <1>1, <1>2 DEF SlotInv, Placed
<1>5. \A r \in Requests :
         /\ r \in EmptyGate.holders <=> at'[r] = p /\ pc'[r] \in Holding
         /\ r \in ToSet(EmptyGate.queue) <=> at'[r] = p /\ pc'[r] = "queued"
  BY <1>2, <1>3, <1>4
<1> QED
  BY <1>1, <1>2, <1>4, <1>5, GateEmpty, SlotChanges

LEMMA SlotStep == SlotInv /\ [Next]_vars => SlotInv'
<1> SUFFICES ASSUME SlotInv, [Next]_vars PROVE Orders' /\ Placed'
  BY KeyStep DEF SlotInv
<1>0. \A l \in {"begin", "leave", "lock", "read", "execute"} : l \in Holding
  BY DEF Holding, InTransaction
<1>1. ASSUME NEW r \in Requests, Lookup(r) PROVE Orders' /\ Placed'
  <2> USE DEF SlotInv, KeyInv, Types
  <2>1. pc[r] = "idle" /\ UNCHANGED gate
    BY <1>1 DEF Lookup
  <2>2. CASE Goto(r, "done")
    <3>1. "done" \notin Serving
      BY DEF Serving, Holding, InTransaction
    <3> QED
      BY <2>1, <2>2, <3>1, SlotGoes DEF Goto
  <2>3. CASE /\ pc' = [pc EXCEPT ![r] = "acquire"]
             /\ \E p \in Reach[r] : at' = [at EXCEPT ![r] = p]
    <3>1. at'[r] \in Replicas /\ \A q \in Requests : q # r => at'[q] = at[q]
      BY <2>3, Facts
    <3> QED
      BY <2>1, <2>3, <3>1, SlotGoes
  <2> QED
    BY <1>1, <2>2, <2>3 DEF Lookup
<1>2. ASSUME NEW r \in Requests,
             Begin(r) \/ Lock(r) \/ LockTimeout(r) \/ Read(r) \/ Execute(r) \/ Fail(r)
      PROVE  Orders' /\ Placed'
  <2>1. /\ pc[r] \in Holding /\ UNCHANGED <<gate, at>>
        /\ \E l \in Holding : pc' = [pc EXCEPT ![r] = l]
    BY <1>0, <1>2
    DEF Begin, Lock, LockTimeout, Read, Execute, Fail, Goto, InTransaction
  <2> QED
    BY <2>1, SlotGoes
<1>3. CASE \/ \E k \in Keys :
                 Expire(k) \/ PruneList(k) \/ PruneDelete(k) \/ PruneFail(k)
           \/ UNCHANGED vars
  BY <1>3 DEF Expire, PruneList, PruneDelete, PruneFail, vars, SlotInv, Orders, Placed
<1> QED
  BY <1>1, <1>2, <1>3, SlotAcquire, SlotQueueTimeout, SlotLeave, SlotCrash
  DEF Next, Transact

(* Through waits, timeouts, failures and the crashes of replicas, the      *)
(* counters of every gate are its holders and its waiters, those are       *)
(* requests in their transactions and requests that wait, and no limit is  *)
(* exceeded.                                                               *)
THEOREM IdempotencySlotsExact == Spec => []SlotsExact
<1>1. SlotInv => SlotsExact
  <2> SUFFICES ASSUME SlotInv, NEW p \in Replicas
               PROVE  /\ Exact(gate[p])
                      /\ \A r \in gate[p].holders : at[r] = p /\ pc[r] \in Holding
                      /\ \A r \in ToSet(gate[p].queue) : at[r] = p /\ pc[r] = "queued"
    BY DEF SlotsExact
  <2>1. Orderly(gate[p])
    BY DEF SlotInv, Orders
  <2>2. gate[p].holders \subseteq Requests /\ ToSet(gate[p].queue) \subseteq Requests
    BY <2>1, LenProperties DEF Orderly, Gates, ToSet
  <2> QED
    BY <2>1, <2>2 DEF SlotInv, Placed, Orderly
<1> QED
  BY <1>1, SlotInit, SlotStep, PTL DEF Spec

(* Whenever a request waits at a gate its owner is at its cap there, or    *)
(* the process is: no waiter of another owner, however long its request    *)
(* hangs, stands between it and a free slot.                               *)
THEOREM IdempotencyNobodyWaitsInVain == Spec => []NobodyWaitsInVain
<1>1. SlotInv => NobodyWaitsInVain
  BY DEF SlotInv, Orders, NobodyWaitsInVain
<1> QED
  BY <1>1, SlotInit, SlotStep, PTL DEF Spec

(* Behind every request that waits at a gate is another request of that    *)
(* process that holds a slot: when it leaves, the queue is scanned.        *)
THEOREM IdempotencyWaitersAreOwed ==
    Spec => [](\A p \in Replicas : \A r \in ToSet(gate[p].queue) :
                  \E h \in Requests \ {r} : at[h] = p /\ pc[h] \in Holding)
<1> DEFINE Owed(p, r) == \E h \in Requests \ {r} : at[h] = p /\ pc[h] \in Holding
<1>1. ASSUME SlotInv, NEW p \in Replicas, NEW r \in ToSet(gate[p].queue)
      PROVE  Owed(p, r)
  <2> DEFINE g == gate[p]
  <2>1. /\ Orderly(g) /\ g \in Gates /\ ~CanRun(g, r)
        /\ r \in Requests /\ OwnerOf[r] \in Owners
    BY <1>1, GateAssumption, LenProperties
    DEF SlotInv, Orders, Orderly, Gates, Busy, ToSet
  <2>2. g.holders # {}
    <3> SUFFICES ASSUME g.holders = {} PROVE FALSE
      OBVIOUS
    <3>1. Of(g.holders, OwnerOf[r]) = {}
      BY DEF Of
    <3>2. g.active = 0 /\ g.activeBy[OwnerOf[r]] = 0
      BY <2>1, <3>1, FS_EmptySet DEF Orderly, Exact
    <3> QED
      BY <2>1, <3>2, GateAssumption DEF CanRun
  <2>3. PICK h \in g.holders : TRUE
    BY <2>2
  <2>4. h \in Requests /\ at[h] = p /\ pc[h] \in Holding /\ h # r
    BY <1>1, <2>1, <2>3 DEF SlotInv, Placed, Gates, Orderly, Exact
  <2> QED
    BY <2>4
<1>2. SlotInv => \A p \in Replicas : \A r \in ToSet(gate[p].queue) : Owed(p, r)
  BY <1>1
<1> QED
  BY <1>2, SlotInit, SlotStep, PTL DEF Spec, Owed

-----------------------------------------------------------------------------
(* The order of the waiters.                                               *)

(* q waits at the gate of p, and r behind it or not at all.                *)
Ahead(p, q, r) ==
    \E a \in DOMAIN gate[p].queue :
        /\ gate[p].queue[a] = q
        /\ \A b \in DOMAIN gate[p].queue : gate[p].queue[b] = r => a < b

(* Nobody is given a slot before a request of the same owner that was ahead*)
(* of it: the scan passes over the owners that are at their limits, and    *)
(* never changes the order within one.                                     *)
InOrder ==
    \A p \in Replicas : \A q, r \in Requests :
        /\ r \in gate'[p].holders \ gate[p].holders
        /\ Ahead(p, q, r) /\ OwnerOf[q] = OwnerOf[r]
        => q \in gate'[p].holders

LEMMA OrderStep == SlotInv /\ [Next]_vars => [InOrder]_vars
<1> SUFFICES ASSUME SlotInv, [Next]_vars,
                    NEW p \in Replicas, NEW q \in Requests, NEW r \in Requests,
                    r \in gate'[p].holders, r \notin gate[p].holders,
                    Ahead(p, q, r), OwnerOf[q] = OwnerOf[r]
             PROVE  q \in gate'[p].holders
  BY DEF InOrder
<1> DEFINE g == gate[p]
<1>0. /\ DOMAIN gate = Replicas /\ Orderly(g) /\ Busy(g)
      /\ q \in ToSet(g.queue)
  BY DEF SlotInv, Orders, Ahead, ToSet
<1>1. ASSUME NEW s \in Requests, Acquire(s) PROVE q \in gate'[p].holders
  <2>1. /\ at[s] \in Replicas /\ pc[s] = "acquire"
        /\ \A h : gate' = [gate EXCEPT ![at[s]] = h] /\ p # at[s] => gate'[p] = g
        /\ \A h : gate' = [gate EXCEPT ![at[s]] = h] /\ p = at[s] => gate'[p] = h
    BY <1>0, <1>1 DEF Acquire, SlotInv, Placed, Serving
  <2>2. PICK h : /\ gate' = [gate EXCEPT ![at[s]] = h]
                 /\ \/ CanRun(gate[at[s]], s) /\ h = Started(gate[at[s]], s)
                    \/ h = Enqueued(gate[at[s]], s)
    <3>1. CASE UNCHANGED gate
      BY <1>0, <3>1
    <3> QED
      BY <1>1, <3>1 DEF Acquire, Gate, SetGate
  <2>3. p = at[s] /\ gate'[p] = h
    BY <2>1, <2>2
  <2>4. g \in Gates
    BY <1>0 DEF Orderly
  <2>5. CanRun(g, s) /\ r = s
    <3>1. CASE h = Enqueued(g, s)
      BY <2>3, <2>4, <3>1 DEF Enqueued, Gates
    <3>2. CASE CanRun(g, s) /\ h = Started(g, s)
      BY <2>3, <2>4, <3>2 DEF Started, Gates
    <3> QED
      BY <2>2, <2>3, <3>1, <3>2
  <2>6. ~CanRun(g, q)
    BY <1>0 DEF Busy
  <2> QED
    BY <2>5, <2>6 DEF CanRun
<1>2. ASSUME NEW s \in Requests, Leave(s) PROVE q \in gate'[p].holders
  <2> DEFINE h == Released(gate[at[s]], s)
  <2>1. /\ at[s] \in Replicas /\ pc[s] = "leave" /\ s \in gate[at[s]].holders
        /\ gate' = [gate EXCEPT ![at[s]] = h]
    <3>1. "leave" \in Holding /\ "leave" \in Serving
      BY DEF Serving, Holding, InTransaction
    <3> QED
      BY <1>2, <3>1 DEF Leave, Ends, SetGate, Gate, SlotInv, Placed
  <2>2. p = at[s] /\ gate'[p] = h
    BY <1>0, <2>1
  <2>3. /\ h.holders \cup ToSet(h.queue) = (g.holders \ {s}) \cup ToSet(g.queue)
        /\ \A a, b \in DOMAIN g.queue :
              a < b /\ OwnerOf[g.queue[a]] = OwnerOf[g.queue[b]]
              /\ g.queue[b] \in h.holders => g.queue[a] \in h.holders
    BY <1>0, <2>1, <2>2, GateReleases
  <2> HIDE DEF h
  <2>4. r \in ToSet(g.queue)
    BY <2>2, <2>3
  <2>5. PICK a \in DOMAIN g.queue, b \in DOMAIN g.queue :
           g.queue[a] = q /\ g.queue[b] = r /\ a < b
    BY <2>4 DEF Ahead, ToSet
  <2> QED
    BY <2>2, <2>3, <2>5
<1>3. ASSUME NEW s \in Requests, QueueTimeout(s) PROVE q \in gate'[p].holders
  <2>1. /\ at[s] \in Replicas /\ gate[at[s]] \in Gates
        /\ gate' = [gate EXCEPT ![at[s]] = Dequeued(gate[at[s]], s)]
    BY <1>3
    DEF QueueTimeout, SetGate, Gate, GivesUp, SlotInv, Orders, Orderly, Placed, Serving
  <2>2. gate'[p].holders = g.holders
    <3>1. CASE p = at[s]
      BY <1>0, <2>1, <3>1 DEF Dequeued, Gates
    <3>2. CASE p # at[s]
      BY <1>0, <2>1, <3>2
    <3> QED
      BY <3>1, <3>2
  <2> QED
    BY <2>2
<1>4. ASSUME NEW o \in Replicas, Crash(o) PROVE q \in gate'[p].holders
  <2>1. gate'[p].holders \subseteq g.holders
    BY <1>0, <1>4 DEF Crash, EmptyGate
  <2> QED
    BY <2>1
<1>5. CASE UNCHANGED gate
  BY <1>5
<1> QED
  BY <1>1, <1>2, <1>3, <1>4, <1>5
  DEF Next, Transact, Lookup, Begin, Lock, LockTimeout, Read, Execute, Fail,
      Expire, PruneList, PruneDelete, PruneFail, vars

(* Requests of one owner are let in in the order in which they came to a   *)
(* gate, whoever of the others is let in between them.                     *)
THEOREM IdempotencyInOrder == Spec => [][InOrder]_vars
<1>1. SlotInv /\ [Next]_vars => [InOrder]_vars
  BY OrderStep
<1> QED
  BY <1>1, SlotInit, SlotStep, PTL DEF Spec

=============================================================================
