------------------------ MODULE UploadSessionProofs ------------------------
(***************************************************************************)
(* Resumable uploads, for any number of sessions, requests, replicas and   *)
(* parts, any sizes and plans, beside the rest of the account.             *)
(*                                                                         *)
(* First the types: one lemma per group of handlers.  Then the ledger:     *)
(* each handler's step is mapped to the ledger step it takes, or to none.  *)
(* Both rest on one inductive invariant, UploadInv: the rest of the        *)
(* account subtracts from the counters what the ledger says is in them.    *)
(* Last what tokens, leases and the lock of the User row protect, and the  *)
(* bytes behind rows and files.                                            *)
(***************************************************************************)
EXTENDS UploadSession, FiniteSetTheorems, TLAPS

(* Everything that may hold or use the account's bytes.                    *)
Items == Sessions \cup Others

(* The proved facts of the ledger, read on the account.                    *)
LP == INSTANCE QuotaLedgerProofs WITH
    Items <- Items,
    phase <- [i \in Items |-> Phase(i)]

(* A process that is at work works on a session.                           *)
Known == \A p \in Procs : pc[p] \notin {"idle", "done"} => sess[p] \in Sessions

(* A completion request that has not begun to assemble has no final        *)
(* object, and one that still assembles has not written the last part.     *)
Assembly ==
    \A c \in Completers :
        /\ pc[c] \in {"idle", "recover", "revert", "expire",
                      "reload", "claim", "freeze"} => written[c] = Gone
        /\ pc[c] = "assemble" => written[c] # PartCount

(* What types need: a handler indexes the sessions by the one it works on, *)
(* and the part set by the number of parts it has written.                 *)
TypeInv == TypeOK /\ Known /\ Assembly

(* The constants, as the proofs use them.                                  *)
LEMMA Facts ==
    /\ PartCount \in Nat \ {0}
    /\ PartNumbers = 0 .. (PartCount - 1)
    /\ \A s \in Sessions : Size[s] \in Nat \ {0}
    /\ \A o \in Others : Size[o] \in Nat \ {0}
    /\ Sessions \cap Others = {}
    /\ Limits \subseteq Nat
    /\ Procs = Completers \cup Writers \cup Sweepers
    /\ Completers \cap Writers = {}
    /\ (Completers \cup Writers) \cap Sweepers = {}
    /\ None \notin Procs \cup Sessions
    /\ Gone = -1
    /\ AckMayBeLost \in BOOLEAN
  BY UploadAssumption DEF Procs, PartNumbers, Gone

(* Nothing has started.                                                    *)
LEMMA TypeInit == Init => TypeInv
  BY Facts, UploadAssumption
  DEF Init, TypeInv, Known, Assembly, TypeOK, UserTypes, RowTypes, PartTypes,
      StoreTypes, ProcTypes, Names, NoParts, Statuses, Labels, OpenStatus,
      Terminal, Rest!Phases

(* The part of it that is about processes.                                 *)
ProcInv == ProcTypes /\ Known /\ Assembly

(* A process that answers its request keeps nothing behind.                *)
LEMMA FinishTypes ==
    ASSUME ProcInv, NEW p \in Procs, Finish(p), written' = written
    PROVE  ProcInv'
<1> USE Facts DEF ProcInv
<1>1. ProcTypes'
  BY DEF ProcTypes, Finish, NoParts, Names, Labels
<1>2. Known'
  BY DEF ProcTypes, Finish, Known
<1>3. Assembly'
  BY DEF ProcTypes, Finish, Assembly
<1> QED
  BY <1>1, <1>2, <1>3

(* Where a completion request is before it assembles.                      *)
Early == {"idle", "recover", "revert", "expire", "reload", "claim", "freeze"}

(* A process that moves on still works on its session.                     *)
LEMMA GotoTypes ==
    ASSUME ProcInv, NEW p \in Procs, pc[p] \notin {"idle", "done"},
           NEW l \in Labels, Goto(p, l), written' = written,
           p \in Completers => l # "assemble" /\ (l \in Early => pc[p] \in Early)
    PROVE  ProcInv'
<1> USE Facts DEF ProcInv
<1>1. ProcTypes'
  BY DEF ProcTypes, Goto
<1>2. Known'
  BY DEF ProcTypes, Goto, Known
<1>3. Assembly'
  BY DEF ProcTypes, Goto, Assembly, Early
<1> QED
  BY <1>1, <1>2, <1>3

(* One part row is rewritten.                                              *)
LEMMA RowWritten ==
    ASSUME PartTypes, NEW s \in Sessions, NEW n \in PartNumbers, NEW x \in Names
    PROVE  [rows EXCEPT ![s][n] = x] \in [Sessions -> [PartNumbers -> Names]]
<1>1. [rows[s] EXCEPT ![n] = x] \in [PartNumbers -> Names]
  BY DEF PartTypes
<1> QED
  BY <1>1 DEF PartTypes

(* The part requests (PUT .../parts/:n).                                   *)
LEMMA PutTypes ==
    ASSUME TypeInv, NEW w \in Writers, PutStep(w)
    PROVE  TypeInv'
<1> USE Facts DEF TypeInv, TypeOK, ProcInv
<1> USE DEF userVars, rowVars, partVars, storeVars
<1>1. ASSUME NEW s \in Sessions, NEW n \in PartNumbers, PutStart(w, s, n)
      PROVE  TypeInv'
  <2>1. ProcTypes'
    BY <1>1 DEF PutStart, ProcTypes, PartTypes, Names, Labels
  <2>2. Known' /\ Assembly'
    BY <1>1 DEF PutStart, ProcTypes, Known, Assembly
  <2> QED
    BY <1>1, <2>1, <2>2 DEF PutStart, UserTypes, RowTypes, PartTypes, StoreTypes
<1>2. ProcInv' <=> ProcTypes' /\ Known' /\ Assembly'
  OBVIOUS
<1>3. /\ sess[w] \in Sessions \/ pc[w] \in {"idle", "done"}
      /\ w \in Procs /\ w \notin Completers
      /\ part[w] \in PartNumbers
      /\ {"stream", "insert", "discard"} \subseteq Labels
  BY DEF Known, ProcTypes, Labels
<1>4. CASE PutRepair(w)
  <2>1. ProcInv'
    BY <1>4, <1>3, FinishTypes, GotoTypes DEF PutRepair
  <2>2. PartTypes'
    <3>1. sess[w] \in Sessions
      BY <1>4, <1>3 DEF PutRepair
    <3>2. [rows EXCEPT ![sess[w]][part[w]] = None]
            \in [Sessions -> [PartNumbers -> Names]]
      BY <3>1, <1>3, RowWritten DEF Names
    <3>3. rows' \in {rows, [rows EXCEPT ![sess[w]][part[w]] = None]}
      BY <1>4 DEF PutRepair
    <3> QED
      BY <1>4, <3>2, <3>3 DEF PutRepair, PartTypes
  <2> QED
    BY <1>4, <2>1, <2>2 DEF PutRepair, UserTypes, RowTypes, StoreTypes
<1>5. CASE PutStream(w)
  <2>1. ProcInv'
    BY <1>5, <1>3, FinishTypes, GotoTypes DEF PutStream
  <2>2. PartTypes'
    <3>1. chunks' = chunks \/ chunks' = [chunks EXCEPT ![sess[w]] = @ \cup {w}]
      BY <1>5 DEF PutStream
    <3>2. chunks' \in [Sessions -> SUBSET Writers]
      BY <3>1 DEF PartTypes
    <3> QED
      BY <1>5, <3>2 DEF PutStream, PartTypes
  <2> QED
    BY <1>5, <2>1, <2>2 DEF PutStream, UserTypes, RowTypes, StoreTypes
<1>6. CASE PutInsert(w)
  <2>1. ProcInv'
    BY <1>6, <1>3, FinishTypes, GotoTypes DEF PutInsert
  <2>2. PartTypes'
    <3>1. sess[w] \in Sessions
      BY <1>6, <1>3 DEF PutInsert
    <3>2. [rows EXCEPT ![sess[w]][part[w]] = w]
            \in [Sessions -> [PartNumbers -> Names]]
      BY <3>1, <1>3, RowWritten DEF Names
    <3>3. rows' \in {rows, [rows EXCEPT ![sess[w]][part[w]] = w]}
      BY <1>6 DEF PutInsert
    <3> QED
      BY <1>6, <3>2, <3>3 DEF PutInsert, PartTypes
  <2> QED
    BY <1>6, <2>1, <2>2 DEF PutInsert, UserTypes, RowTypes, StoreTypes
<1>7. CASE PutDiscard(w)
  <2>1. ProcInv'
    BY <1>7, <1>3, FinishTypes, GotoTypes DEF PutDiscard
  <2>2. PartTypes'
    BY <1>7, <1>3 DEF PutDiscard, PartTypes, Names
  <2> QED
    BY <1>7, <2>1, <2>2 DEF PutDiscard, UserTypes, RowTypes, StoreTypes
<1> QED
  BY <1>1, <1>4, <1>5, <1>6, <1>7 DEF PutStep

(* The constants of the uploads are those the ledger assumes.              *)
LEMMA LedgerAssumed == LP!LedgerAssumption
<1>1. IsFiniteSet(Items)
  BY UploadAssumption, FS_Union DEF Items
<1>2. LP!IsFiniteSet(Items)
  BY <1>1 DEF LP!IsFiniteSet, IsFiniteSet
<1> QED
  BY <1>2, UploadAssumption DEF LP!LedgerAssumption, Items

(* The ledger's invariant is what CountersExact says of the uploads.       *)
LEMMA LedgerCounts == LP!LedgerInv => Ledger!CountersExact
<1>1. ASSUME NEW S PROVE LP!Cardinality(S) = Ledger!Cardinality(S)
  BY DEF LP!Cardinality, Ledger!Cardinality
<1> QED
  BY <1>1
  DEF LP!LedgerInv, LP!CountersExact, Ledger!CountersExact, LP!In, Ledger!In,
      LP!Bytes, Ledger!Bytes, Items

(* The two instances of the ledger have the same steps.                    *)
LEMMA LedgerSteps == [Ledger!Next]_(Ledger!vars) => [LP!Next]_(LP!vars)
  BY DEF Ledger!Next, LP!Next, Ledger!vars, LP!vars, Ledger!Hold, LP!Hold,
         Ledger!Charge, LP!Charge, Ledger!ChargeDirectly, LP!ChargeDirectly,
         Ledger!Return, LP!Return, Ledger!Refund, LP!Refund,
         Ledger!SwitchPlan, LP!SwitchPlan, Ledger!Fits, LP!Fits, Items

(* The bytes of an item that holds them are still in one counter, those of *)
(* a file in the other, whatever all the others did.                       *)
LEMMA CountedBytes ==
    ASSUME LP!LedgerInv, NEW i \in Items
    PROVE  /\ Phase(i) = "held" => Size[i] <= reserved
           /\ Phase(i) = "charged" => Size[i] <= used
<1>1. LP!In("held") \in SUBSET Items /\ LP!In("charged") \in SUBSET Items
  BY DEF LP!In
<1>2. /\ Phase(i) = "held" => i \in LP!In("held")
      /\ Phase(i) = "charged" => i \in LP!In("charged")
  BY DEF LP!In
<1>3. Phase(i) = "held" => Size[i] <= LP!Cardinality(LP!Bytes(LP!In("held")))
  BY <1>1, <1>2, LedgerAssumed, LP!BytesAtLeast
<1>4. Phase(i) = "charged" => Size[i] <= LP!Cardinality(LP!Bytes(LP!In("charged")))
  BY <1>1, <1>2, LedgerAssumed, LP!BytesAtLeast
<1> QED
  BY <1>3, <1>4 DEF LP!LedgerInv, LP!CountersExact

(* The reservation of an open session is still in the counter, whatever    *)
(* the others did: the clamp of a release at zero never bites.             *)
LEMMA HeldBytes ==
    ASSUME LP!LedgerInv, NEW s \in Sessions, Open(s)
    PROVE  Size[s] <= reserved
  BY CountedBytes DEF Items, Phase, PhaseOf, Open, OpenStatus

(* The rest of the account returns and refunds what its items have put     *)
(* into the counters, and gains nothing while the account is suspended.    *)
LEMMA OthersTypes ==
    ASSUME UserTypes, LP!LedgerInv, OthersMove
    PROVE  /\ reserved' \in Nat /\ used' \in Nat
           /\ other' \in [Others -> Rest!Phases]
           /\ account # "ACTIVE" => reserved' <= reserved /\ used' <= used
           /\ limit' = limit
<1>1. PICK o \in Others :
         \/ /\ account = "ACTIVE"
            /\ Rest!Hold(o) \/ Rest!Charge(o) \/ Rest!ChargeDirectly(o)
         \/ Rest!Return(o) \/ Rest!Refund(o)
  BY DEF OthersMove
<1>2. /\ reserved \in Nat /\ used \in Nat /\ other \in [Others -> Rest!Phases]
      /\ Size[o] \in Nat
  BY Facts DEF UserTypes
<1>3. /\ other[o] = "held" => Size[o] <= reserved
      /\ other[o] = "charged" => Size[o] <= used
  <2>1. o \in Items /\ o \notin Sessions
    BY Facts DEF Items
  <2>2. Phase(o) = other[o]
    BY <2>1 DEF Phase
  <2> QED
    BY <2>1, <2>2, CountedBytes
<1>4. CASE /\ account = "ACTIVE"
           /\ Rest!Hold(o) \/ Rest!Charge(o) \/ Rest!ChargeDirectly(o)
  BY <1>2, <1>3, <1>4
  DEF Rest!Hold, Rest!Charge, Rest!ChargeDirectly, Rest!Phases
<1>5. CASE Rest!Return(o) \/ Rest!Refund(o)
  BY <1>2, <1>3, <1>5 DEF Rest!Return, Rest!Refund, Rest!Phases
<1> QED
  BY <1>1, <1>4, <1>5

(* Suspensions and changes of plan.                                        *)
LEMMA AccountTypes ==
    ASSUME TypeInv, LP!LedgerInv, AccountStep
    PROVE  TypeInv'
<1> USE Facts DEF TypeInv, TypeOK, userVars, rowVars, partVars, storeVars, procVars
<1>1. UserTypes'
  BY OthersTypes
  DEF AccountStep, Suspend, Reactivate, OthersMove, SwitchPlan, UserTypes
<1>2. RowTypes' /\ PartTypes' /\ StoreTypes'
  BY DEF AccountStep, Suspend, Reactivate, OthersMove, SwitchPlan, RowTypes,
         PartTypes, StoreTypes
<1>3. ProcTypes' /\ Known' /\ Assembly'
  BY DEF AccountStep, Suspend, Reactivate, OthersMove, SwitchPlan, ProcTypes,
         Known, Assembly
<1> QED
  BY <1>1, <1>2, <1>3

(* A session row settles on another status.                                *)
LEMMA SettleTypes ==
    ASSUME RowTypes, NEW s \in Sessions, NEW st \in Statuses, Settle(s, st),
           UNCHANGED <<expired, fileId>>
    PROVE  RowTypes'
  BY DEF RowTypes, Settle

(* What creates, ends, cleans and ages a session.                          *)
LEMMA SessionTypes ==
    ASSUME TypeInv, NEW s \in Sessions, SessionStep(s)
    PROVE  TypeInv'
<1> USE Facts DEF TypeInv, TypeOK, userVars, rowVars, partVars, storeVars, procVars
<1>1. CASE CreateSession(s)
  <2>1. UserTypes' /\ RowTypes'
    BY <1>1 DEF CreateSession, UserTypes, RowTypes, Statuses, OpenStatus
  <2>3. PartTypes'
    BY <1>1 DEF CreateSession, PartTypes
  <2>2. ProcTypes' /\ Known' /\ Assembly' /\ StoreTypes'
    BY <1>1 DEF CreateSession, ProcTypes, Known, Assembly, StoreTypes
  <2> QED
    BY <2>1, <2>2, <2>3
<1>2. ASSUME NEW st \in {"ABORTED", "EXPIRED"}, Release(s, st)
      PROVE  TypeInv'
  <2>1. UserTypes'
    BY <1>2 DEF Release, UserTypes, Released
  <2>2. RowTypes'
    BY <1>2, SettleTypes DEF Release, Statuses, Terminal
  <2>3. ProcTypes' /\ Known' /\ Assembly' /\ StoreTypes' /\ PartTypes'
    BY <1>2 DEF Release, ProcTypes, Known, Assembly, StoreTypes, PartTypes
  <2> QED
    BY <2>1, <2>2, <2>3
<1>3. CASE PurgeChunks(s)
  <2>1. UserTypes' /\ RowTypes' /\ PartTypes'
    BY <1>3 DEF PurgeChunks, UserTypes, RowTypes, PartTypes
  <2>2. ProcTypes' /\ Known' /\ Assembly' /\ StoreTypes'
    BY <1>3 DEF PurgeChunks, ProcTypes, Known, Assembly, StoreTypes
  <2> QED
    BY <2>1, <2>2
<1>4. CASE LeaseLapses(s) \/ SessionExpires(s)
  <2>1. UserTypes' /\ RowTypes' /\ PartTypes'
    BY <1>4 DEF LeaseLapses, SessionExpires, UserTypes, RowTypes, PartTypes
  <2>2. ProcTypes' /\ Known' /\ Assembly' /\ StoreTypes'
    BY <1>4 DEF LeaseLapses, SessionExpires, ProcTypes, Known, Assembly, StoreTypes
  <2> QED
    BY <2>1, <2>2
<1>5. ASSUME NEW w \in Writers, LoseChunk(s, w) PROVE TypeInv'
  <2>1. UserTypes' /\ RowTypes' /\ PartTypes'
    BY <1>5 DEF LoseChunk, UserTypes, RowTypes, PartTypes
  <2>2. ProcTypes' /\ Known' /\ Assembly' /\ StoreTypes'
    BY <1>5 DEF LoseChunk, ProcTypes, Known, Assembly, StoreTypes
  <2> QED
    BY <2>1, <2>2
<1> QED
  BY <1>1, <1>2, <1>3, <1>4, <1>5
  DEF SessionStep, AbortSession, ExpireSession, SweepChunks

(* What follows a recovery, in a request and in a sweeper.                 *)
LEMMA RecoveryTypes ==
    ASSUME ProcInv, NEW p \in Completers \cup Sweepers, AfterRecovery(p),
           pc[p] \in {"recover", "revert", "expire"}, written' = written
    PROVE  ProcInv'
<1> USE Facts DEF ProcInv
<1>1. CASE p \in Completers
  <2>1. ProcTypes'
    <3>1. pc' = [pc EXCEPT ![p] = "reload"] /\ seen' = [seen EXCEPT ![p] = None]
      BY <1>1 DEF AfterRecovery
    <3>2. pc' \in [Procs -> Labels]
      BY <3>1 DEF ProcTypes, Labels
    <3>3. seen' \in [Procs -> Completers \cup Writers \cup {None}]
      BY <3>1 DEF ProcTypes
    <3> QED
      BY <1>1, <3>2, <3>3 DEF AfterRecovery, ProcTypes
  <2>2. Known' /\ Assembly'
    BY <1>1 DEF AfterRecovery, ProcTypes, Known, Assembly
  <2> QED
    BY <2>1, <2>2
<1>2. CASE p \notin Completers
  BY <1>2, FinishTypes DEF AfterRecovery
<1> QED
  BY <1>1, <1>2

(* The recovery of a stale completion.                                     *)
LEMMA RecoverTypes ==
    ASSUME TypeInv, NEW p \in Completers \cup Sweepers, RecoverStep(p)
    PROVE  TypeInv'
<1> USE Facts DEF TypeInv, TypeOK, ProcInv, userVars, rowVars, partVars, storeVars
<1>1. ProcInv' <=> ProcTypes' /\ Known' /\ Assembly'
  OBVIOUS
<1>2. pc[p] \in {"recover", "revert", "expire"} => sess[p] \in Sessions
  BY DEF Known
<1>3. CASE RecoverRead(p)
  <2>1. ProcInv'
    <3>1. CASE AfterRecovery(p)
      BY <1>3, <3>1, RecoveryTypes DEF RecoverRead
    <3>2. CASE ~AfterRecovery(p)
      <4>1. ProcTypes'
        <5>1. /\ token[sess[p]] \in Completers \cup {None}
              /\ \E l \in Labels : pc' = [pc EXCEPT ![p] = l]
          BY <1>2, <1>3, <3>2 DEF RecoverRead, RowTypes, Labels
        <5> QED
          BY <1>3, <3>2, <5>1 DEF RecoverRead, ProcTypes
      <4>2. Known' /\ Assembly'
        BY <1>2, <1>3, <3>2 DEF RecoverRead, ProcTypes, Known, Assembly
      <4> QED
        BY <4>1, <4>2
    <3> QED
      BY <3>1, <3>2
  <2>2. UserTypes' /\ RowTypes' /\ PartTypes' /\ StoreTypes'
    BY <1>3 DEF RecoverRead, UserTypes, RowTypes, PartTypes, StoreTypes
  <2> QED
    BY <2>1, <2>2
<1>4. CASE RecoverRevert(p)
  <2>1. ProcInv'
    BY <1>4, RecoveryTypes DEF RecoverRevert
  <2>2. RowTypes'
    BY <1>2, <1>4, SettleTypes DEF RecoverRevert, RowTypes, Statuses, OpenStatus
  <2>3. UserTypes' /\ PartTypes' /\ StoreTypes'
    BY <1>4 DEF RecoverRevert, UserTypes, PartTypes, StoreTypes
  <2> QED
    BY <2>1, <2>2, <2>3
<1>5. CASE RecoverExpire(p)
  <2>1. ProcInv'
    BY <1>5, RecoveryTypes, FinishTypes DEF RecoverExpire
  <2>2. RowTypes'
    BY <1>2, <1>5, SettleTypes DEF RecoverExpire, RowTypes, Statuses, Terminal
  <2>3. UserTypes' /\ PartTypes' /\ StoreTypes'
    BY <1>2, <1>5 DEF RecoverExpire, UserTypes, PartTypes, StoreTypes, Released
  <2> QED
    BY <2>1, <2>2, <2>3
<1> QED
  BY <1>3, <1>4, <1>5 DEF RecoverStep

(* A sweeper takes a candidate.                                            *)
LEMMA PickTypes ==
    ASSUME TypeInv, NEW w \in Sweepers, NEW s \in Sessions, SweepPick(w, s)
    PROVE  TypeInv'
<1> USE Facts DEF TypeInv, TypeOK, SweepPick, userVars, rowVars, partVars, storeVars
<1>1. ProcTypes'
  BY DEF ProcTypes, Labels
<1>2. Known' /\ Assembly'
  BY DEF ProcTypes, Known, Assembly
<1> QED
  BY <1>1, <1>2 DEF UserTypes, RowTypes, PartTypes, StoreTypes

(* A process dies.                                                         *)
LEMMA CrashTypes ==
    ASSUME TypeInv, NEW p \in Procs, Crash(p)
    PROVE  TypeInv'
<1> USE Facts DEF TypeInv, TypeOK, Crash, rowVars, partVars, storeVars
<1>1. ProcInv'
  BY FinishTypes DEF ProcInv
<1>2. UserTypes' /\ RowTypes' /\ PartTypes' /\ StoreTypes'
  BY DEF UserTypes, RowTypes, PartTypes, StoreTypes
<1> QED
  BY <1>1, <1>2 DEF ProcInv

(* The completion request (POST .../complete).                             *)
LEMMA CompleteTypes ==
    ASSUME TypeInv, NEW c \in Completers, CompleteStep(c)
    PROVE  TypeInv'
<1> USE Facts DEF TypeInv, TypeOK, ProcInv, userVars, rowVars, partVars, storeVars
<1>1. ProcInv' <=> ProcTypes' /\ Known' /\ Assembly'
  OBVIOUS
<1>2. /\ pc[c] \notin {"idle", "done"} => sess[c] \in Sessions
      /\ c \in Procs
      /\ {"claim", "freeze", "giveBack", "undo", "commit", "write", "drop"}
            \subseteq Labels
      /\ {"UPLOADING", "COMPLETING", "COMPLETED"} \subseteq Statuses
  BY DEF Known, Labels, Statuses, OpenStatus, Terminal
<1>3. ASSUME NEW s \in Sessions, CompleteLoad(c, s) PROVE TypeInv'
  <2>1. ProcTypes'
    BY <1>3 DEF CompleteLoad, ProcTypes, Labels
  <2>2. Known' /\ Assembly'
    BY <1>3 DEF CompleteLoad, ProcTypes, Known, Assembly
  <2> QED
    BY <1>3, <2>1, <2>2
    DEF CompleteLoad, UserTypes, RowTypes, PartTypes, StoreTypes
<1>4. CASE CompleteReload(c)
  <2>1. ProcInv'
    BY <1>2, <1>4, FinishTypes, GotoTypes DEF CompleteReload, Early
  <2> QED
    BY <1>4, <2>1
    DEF CompleteReload, UserTypes, RowTypes, PartTypes, StoreTypes
<1>5. CASE Claim(c)
  <2>1. ProcInv'
    BY <1>2, <1>5, FinishTypes, GotoTypes DEF Claim, Early
  <2>2. RowTypes'
    BY <1>2, <1>5 DEF Claim, RowTypes
  <2> QED
    BY <1>5, <2>1, <2>2 DEF Claim, UserTypes, PartTypes, StoreTypes
<1>6. CASE ReadFrozen(c)
  <2>1. ProcTypes'
    BY <1>2, <1>6 DEF ReadFrozen, ProcTypes, PartTypes, Labels
  <2>2. Known' /\ Assembly'
    BY <1>2, <1>6 DEF ReadFrozen, ProcTypes, Known, Assembly
  <2> QED
    BY <1>6, <2>1, <2>2
    DEF ReadFrozen, UserTypes, RowTypes, PartTypes, StoreTypes
<1>7. CASE Heartbeat(c)
  <2>1. ProcTypes' /\ Known' /\ Assembly'
    BY <1>7 DEF Heartbeat, procVars, ProcTypes, Known, Assembly
  <2>2. RowTypes'
    BY <1>7 DEF Heartbeat, RowTypes
  <2> QED
    BY <1>7, <2>1, <2>2 DEF Heartbeat, UserTypes, PartTypes, StoreTypes
<1>8. pc[c] = "assemble" => Appended(c) \in PartNumbers
  BY DEF Appended, Assembly, StoreTypes
<1>9. CASE AssemblePart(c)
  <2>1. StoreTypes'
    BY <1>8, <1>9 DEF AssemblePart, StoreTypes
  <2>2. ProcTypes'
    BY <1>9 DEF AssemblePart, procVars, Goto, ProcTypes, Labels
  <2>3. Known'
    BY <1>9 DEF AssemblePart, procVars, Goto, ProcTypes, Known
  <2>4. Assembly'
    BY <1>8, <1>9 DEF AssemblePart, procVars, Goto, ProcTypes, StoreTypes, Assembly
  <2> QED
    BY <1>9, <2>1, <2>2, <2>3, <2>4
    DEF AssemblePart, UserTypes, RowTypes, PartTypes
<1>10. CASE AssembleMissing(c)
  <2>1. StoreTypes'
    BY <1>10 DEF AssembleMissing, StoreTypes
  <2>2. ProcTypes'
    BY <1>8, <1>10 DEF AssembleMissing, ProcTypes, Names, Labels
  <2>3. Known' /\ Assembly'
    BY <1>2, <1>10 DEF AssembleMissing, ProcTypes, StoreTypes, Known, Assembly
  <2> QED
    BY <1>10, <2>1, <2>2, <2>3
    DEF AssembleMissing, UserTypes, RowTypes, PartTypes
<1>11. CASE AssembleAbort(c) \/ Undo(c)
  <2>1. StoreTypes'
    BY <1>11 DEF AssembleAbort, Undo, StoreTypes
  <2>2. ProcTypes'
    BY <1>11 DEF AssembleAbort, Undo, Goto, ProcTypes, Labels
  <2>3. Known'
    BY <1>2, <1>11 DEF AssembleAbort, Undo, Goto, ProcTypes, Known
  <2>4. Assembly'
    <3>1. /\ pc' = [pc EXCEPT ![c] = "giveBack"]
          /\ written' = [written EXCEPT ![c] = Gone]
      BY <1>11 DEF AssembleAbort, Undo, Goto
    <3> QED
      BY <1>2, <3>1 DEF ProcTypes, StoreTypes, Assembly
  <2> QED
    BY <1>11, <2>1, <2>2, <2>3, <2>4
    DEF AssembleAbort, Undo, UserTypes, RowTypes, PartTypes
<1>12. CASE CommitLock(c)
  <2>1. ProcInv'
    BY <1>2, <1>12, GotoTypes DEF CommitLock, Early
  <2> QED
    BY <1>12, <2>1
    DEF CommitLock, UserTypes, RowTypes, PartTypes, StoreTypes
<1>13. CASE CommitWrite(c)
  <2>1. ProcInv'
    BY <1>2, <1>13, FinishTypes, GotoTypes DEF CommitWrite, AfterCommit, Early
  <2>2. UserTypes'
    BY <1>2, <1>13 DEF CommitWrite, Chargeable, UserTypes
  <2>3. RowTypes'
    <3>1. CASE Settle(sess[c], "COMPLETED")
      <4>1. fileId' \in [Sessions -> Completers \cup {None}]
        BY <1>2, <1>13 DEF CommitWrite, RowTypes
      <4> QED
        BY <1>2, <1>13, <3>1, <4>1 DEF CommitWrite, Settle, RowTypes
    <3>2. CASE UNCHANGED <<fileId, status, token, lease>>
      BY <1>13, <3>2 DEF CommitWrite, RowTypes
    <3> QED
      BY <1>13, <3>1, <3>2 DEF CommitWrite
  <2>4. PartTypes' /\ StoreTypes'
    BY <1>13 DEF CommitWrite, PartTypes, StoreTypes
  <2> QED
    BY <2>1, <2>2, <2>3, <2>4
<1>14. CASE GiveBack(c)
  <2>1. ProcInv'
    BY <1>2, <1>14, FinishTypes, GotoTypes DEF GiveBack, AfterGiveBack, Early
  <2>2. RowTypes'
    <3>1. CASE Settle(sess[c], "UPLOADING")
      BY <1>2, <1>14, <3>1, SettleTypes DEF GiveBack
    <3>2. CASE UNCHANGED <<status, token, lease>>
      BY <1>14, <3>2 DEF GiveBack, RowTypes
    <3> QED
      BY <1>14, <3>1, <3>2 DEF GiveBack
  <2> QED
    BY <1>14, <2>1, <2>2 DEF GiveBack, UserTypes, PartTypes, StoreTypes
<1>15. CASE DropMissingRow(c)
  <2>1. ProcInv'
    BY <1>2, <1>15, FinishTypes DEF DropMissingRow
  <2>2. PartTypes'
    BY <1>2, <1>15 DEF DropMissingRow, PartTypes, Names
  <2> QED
    BY <1>15, <2>1, <2>2 DEF DropMissingRow, UserTypes, RowTypes, StoreTypes
<1> QED
  BY <1>3, <1>4, <1>5, <1>6, <1>7, <1>9, <1>10, <1>11, <1>12, <1>13, <1>14, <1>15
  DEF CompleteStep

(* Every step of the system keeps TypeInv.                                 *)
LEMMA TypeStep == TypeInv /\ LP!LedgerInv /\ [Next]_vars => TypeInv'
<1> SUFFICES ASSUME TypeInv, LP!LedgerInv, [Next]_vars PROVE TypeInv'
  OBVIOUS
<1>1. CASE UNCHANGED vars
  BY <1>1
  DEF vars, userVars, rowVars, partVars, storeVars, procVars, TypeInv, TypeOK,
      UserTypes, RowTypes, PartTypes, StoreTypes, ProcTypes, Known, Assembly
<1>2. CASE Next
  BY <1>2, AccountTypes, SessionTypes, PutTypes, CompleteTypes, PickTypes,
     RecoverTypes, CrashTypes DEF Next
<1> QED
  BY <1>1, <1>2

-----------------------------------------------------------------------------

(* The account as the ledger sees it.                                      *)
phases == [i \in Items |-> Phase(i)]

(* A session row that changes status moves one item of the ledger.         *)
LEMMA PhaseStep ==
    ASSUME RowTypes, NEW s \in Sessions, NEW st \in Statuses, NEW ph,
           status' = [status EXCEPT ![s] = st],
           \/ st \in OpenStatus /\ ph = "held"
           \/ st = "COMPLETED" /\ ph = "charged"
           \/ st \in {"ABORTED", "EXPIRED"} /\ ph = "returned",
           UNCHANGED other
    PROVE  phases' = [phases EXCEPT ![s] = ph]
<1>1. Phase(s)' = ph
  BY DEF RowTypes, Phase, PhaseOf, Open, OpenStatus
<1>2. ASSUME NEW i \in Items, i # s PROVE Phase(i)' = Phase(i)
  <2>1. CASE i \in Sessions
    <3>1. PhaseOf(i)' = PhaseOf(i)
      BY <1>2, <2>1 DEF RowTypes, PhaseOf, Open
    <3> QED
      BY <2>1, <3>1 DEF Phase
  <2>2. CASE i \notin Sessions
    BY <2>2 DEF Phase
  <2> QED
    BY <2>1, <2>2
<1> QED
  BY <1>1, <1>2 DEF phases

(* Between UPLOADING and COMPLETING nothing moves in the ledger.           *)
LEMMA PhaseKept ==
    ASSUME RowTypes, NEW s \in Sessions, Open(s), NEW st \in OpenStatus,
           status' = [status EXCEPT ![s] = st],
           UNCHANGED <<reserved, used, limit, other>>
    PROVE  UNCHANGED (Ledger!vars)
<1>1. ASSUME NEW i \in Items PROVE Phase(i)' = Phase(i)
  <2>1. ASSUME NEW t \in Sessions PROVE PhaseOf(t)' = PhaseOf(t)
    BY <2>1 DEF RowTypes, PhaseOf, Open, OpenStatus
  <2> QED
    BY <1>1, <2>1 DEF Phase
<1> QED
  BY <1>1 DEF Ledger!vars, Items

(* Neither does it while no row and no counter changes.                    *)
LEMMA Stutter ==
    ASSUME UNCHANGED <<status, reserved, used, limit, other>>
    PROVE  UNCHANGED (Ledger!vars)
  BY DEF Ledger!vars, Phase, PhaseOf, Open

(* A step of the uploads, as the ledger sees it.                           *)
LedgerStep == [Ledger!Next]_(Ledger!vars)

(* Ending an open session without a file is a return.                      *)
LEMMA Returns ==
    ASSUME TypeInv, LP!LedgerInv, NEW s \in Sessions, Open(s),
           NEW st \in {"ABORTED", "EXPIRED"}, Settle(s, st),
           reserved' = Released(Size[s]), UNCHANGED <<used, limit, other>>
    PROVE  LedgerStep
<1>1. reserved' = reserved - Size[s]
  BY HeldBytes, Facts DEF Released, TypeInv, TypeOK, UserTypes
<1>2. phases' = [phases EXCEPT ![s] = "returned"]
  BY PhaseStep DEF Settle, Statuses, Terminal, TypeInv, TypeOK
<1>3. phases[s] = "held"
  BY DEF phases, Items, Phase, PhaseOf, Open, OpenStatus
<1>4. Ledger!Return(s)
  BY <1>1, <1>2, <1>3 DEF Ledger!Return, phases, Items
<1> QED
  BY <1>4 DEF LedgerStep, Ledger!Next, Items

(* Creating a session is a hold.                                           *)
LEMMA CreateHolds ==
    ASSUME TypeInv, NEW s \in Sessions, CreateSession(s)
    PROVE  LedgerStep
<1>1. phases' = [phases EXCEPT ![s] = "held"]
  BY PhaseStep DEF CreateSession, Statuses, OpenStatus, TypeInv, TypeOK
<1>2. phases[s] = "none"
  BY DEF CreateSession, phases, Items, Phase, PhaseOf, Open, OpenStatus
<1>3. Ledger!Hold(s)
  BY <1>1, <1>2 DEF CreateSession, Fits, Ledger!Fits, Ledger!Hold, phases,
                        Items
<1> QED
  BY <1>3 DEF LedgerStep, Ledger!Next, Items

(* Committing a completion is a charge, or nothing.                        *)
LEMMA CommitCharges ==
    ASSUME TypeInv, NEW c \in Completers, CommitWrite(c)
    PROVE  LedgerStep
<1> DEFINE s == sess[c]
<1>1. s \in Sessions
  BY Facts DEF CommitWrite, TypeInv, Known
<1>2. CASE status' = status
  <2>1. UNCHANGED <<reserved, used, limit, other>>
    BY <1>1, <1>2 DEF CommitWrite, Settle, Owns, TypeInv, TypeOK, RowTypes
  <2> QED
    BY <1>2, <2>1, Stutter DEF LedgerStep
<1>3. CASE status' # status
  <2>1. /\ Owns(c) /\ Settle(s, "COMPLETED")
        /\ reserved' = reserved - Size[s] /\ used' = used + Size[s]
        /\ UNCHANGED <<limit, other>>
    BY <1>3 DEF CommitWrite
  <2>2. phases' = [phases EXCEPT ![s] = "charged"]
    BY <1>1, <2>1, PhaseStep DEF Settle, Statuses, Terminal, TypeInv, TypeOK
  <2>3. phases[s] = "held"
    BY <1>1, <2>1 DEF phases, Items, Phase, PhaseOf, Owns, Open, OpenStatus
  <2>4. Ledger!Charge(s)
    BY <2>1, <2>2, <2>3 DEF Ledger!Charge, phases, Items
  <2> QED
    BY <1>1, <2>4 DEF LedgerStep, Ledger!Next, Items
<1> QED
  BY <1>2, <1>3

(* What the rest of the account does is a step of the shared ledger.       *)
LEMMA OthersMoveLedger ==
    ASSUME TypeInv, OthersMove
    PROVE  LedgerStep
<1>0. other \in [Others -> Rest!Phases] /\ UNCHANGED status
  BY DEF OthersMove, rowVars, TypeInv, TypeOK, UserTypes
<1>1. PICK o \in Others :
         \/ Rest!Hold(o) \/ Rest!Charge(o) \/ Rest!ChargeDirectly(o)
         \/ Rest!Return(o) \/ Rest!Refund(o)
  BY DEF OthersMove
<1>2. o \in Items /\ o \notin Sessions /\ o \in Others
  BY Facts DEF Items
<1>3. phases[o] = other[o]
  BY <1>2 DEF phases, Phase
<1>4. ASSUME NEW ph, other' = [other EXCEPT ![o] = ph]
      PROVE  phases' = [phases EXCEPT ![o] = ph]
  <2>1. Phase(o)' = ph
    BY <1>0, <1>2, <1>4 DEF Phase
  <2>2. ASSUME NEW i \in Items, i # o PROVE Phase(i)' = Phase(i)
    <3>1. ASSUME NEW t \in Sessions PROVE PhaseOf(t)' = PhaseOf(t)
      BY <1>0, <3>1 DEF PhaseOf, Open
    <3>2. i \notin Sessions => i \in Others /\ other'[i] = other[i]
      BY <1>0, <1>4, <2>2 DEF Items
    <3> QED
      BY <3>1, <3>2 DEF Phase
  <2> QED
    BY <2>1, <2>2 DEF phases
<1>5. CASE Rest!Hold(o)
  BY <1>2, <1>3, <1>4, <1>5
  DEF Rest!Hold, Rest!Fits, Ledger!Hold, Ledger!Fits, phases, Items, LedgerStep,
      Ledger!Next
<1>6. CASE Rest!Charge(o)
  BY <1>2, <1>3, <1>4, <1>6
  DEF Rest!Charge, Ledger!Charge, phases, Items, LedgerStep, Ledger!Next
<1>7. CASE Rest!ChargeDirectly(o)
  BY <1>2, <1>3, <1>4, <1>7
  DEF Rest!ChargeDirectly, Rest!Fits, Ledger!ChargeDirectly, Ledger!Fits, phases,
      Items, LedgerStep, Ledger!Next
<1>8. CASE Rest!Return(o)
  BY <1>2, <1>3, <1>4, <1>8
  DEF Rest!Return, Ledger!Return, phases, Items, LedgerStep, Ledger!Next
<1>9. CASE Rest!Refund(o)
  BY <1>2, <1>3, <1>4, <1>9
  DEF Rest!Refund, Ledger!Refund, phases, Items, LedgerStep, Ledger!Next
<1> QED
  BY <1>1, <1>5, <1>6, <1>7, <1>8, <1>9

(* Every step of the uploads is a step of the ledger or none.              *)
LEMMA StepsLedger ==
    ASSUME TypeInv, LP!LedgerInv, Next
    PROVE  LedgerStep
<1> USE DEF LedgerStep, userVars, rowVars, partVars, storeVars, procVars
<1>1. CASE AccountStep
  <2>1. ASSUME NEW l \in Limits, SwitchPlan(l) PROVE LedgerStep
    <3>1. phases' = phases
      BY <2>1 DEF SwitchPlan, phases, Phase, PhaseOf, Open
    <3>2. Ledger!SwitchPlan(l)
      BY <2>1, <3>1
      DEF SwitchPlan, PlanHolds, Fits, Ledger!SwitchPlan, Ledger!Fits, phases,
          Items
    <3> QED
      BY <3>2 DEF Ledger!Next
  <2>2. CASE Suspend \/ Reactivate
    BY <2>2, Stutter DEF Suspend, Reactivate
  <2> QED
    BY <1>1, <2>1, <2>2, OthersMoveLedger DEF AccountStep
<1>2. ASSUME NEW s \in Sessions, SessionStep(s) PROVE LedgerStep
  <2>1. CASE CreateSession(s)
    BY <2>1, CreateHolds
  <2>2. ASSUME NEW st \in {"ABORTED", "EXPIRED"}, Release(s, st)
        PROVE  LedgerStep
    BY <2>2, Returns DEF Release, MayRelease, Open, OpenStatus
  <2>3. CASE PurgeChunks(s) \/ LeaseLapses(s) \/ SessionExpires(s)
    BY <2>3, Stutter DEF PurgeChunks, LeaseLapses, SessionExpires
  <2>4. ASSUME NEW w \in Writers, LoseChunk(s, w) PROVE LedgerStep
    BY <2>4, Stutter DEF LoseChunk
  <2> QED
    BY <1>2, <2>1, <2>2, <2>3, <2>4
    DEF SessionStep, AbortSession, ExpireSession, SweepChunks
<1>3. ASSUME NEW w \in Writers, PutStep(w) PROVE LedgerStep
  BY <1>3, Stutter
  DEF PutStep, PutStart, PutRepair, PutStream, PutInsert, PutDiscard
<1>4. ASSUME NEW w \in Sweepers, NEW s \in Sessions, SweepPick(w, s)
      PROVE  LedgerStep
  BY <1>4, Stutter DEF SweepPick
<1>5. ASSUME NEW p \in Completers \cup Sweepers, RecoverStep(p)
      PROVE  LedgerStep
  <2>1. pc[p] \in {"revert", "expire"} => sess[p] \in Sessions
    BY Facts DEF TypeInv, Known
  <2>2. CASE RecoverRead(p)
    BY <2>2, Stutter DEF RecoverRead
  <2>3. CASE RecoverRevert(p)
    <3>1. CASE UNCHANGED status
      BY <2>3, <3>1, Stutter DEF RecoverRevert
    <3>2. CASE status' # status
      BY <2>1, <2>3, <3>2, PhaseKept
      DEF RecoverRevert, StillStale, Stale, Settle, Open, OpenStatus,
          TypeInv, TypeOK
    <3> QED
      BY <3>1, <3>2
  <2>4. CASE RecoverExpire(p)
    <3>1. CASE UNCHANGED <<status, reserved>>
      BY <2>4, <3>1, Stutter DEF RecoverExpire
    <3>2. CASE ~UNCHANGED <<status, reserved>>
      BY <2>1, <2>4, <3>2, Returns
      DEF RecoverExpire, StillStale, Stale, Open, OpenStatus
    <3> QED
      BY <3>1, <3>2
  <2> QED
    BY <1>5, <2>2, <2>3, <2>4 DEF RecoverStep
<1>6. ASSUME NEW c \in Completers, CompleteStep(c) PROVE LedgerStep
  <2>1. pc[c] \in {"claim", "giveBack"} => sess[c] \in Sessions
    BY Facts DEF TypeInv, Known
  <2>2. CASE CommitWrite(c)
    BY <2>2, CommitCharges
  <2>3. CASE (Claim(c) \/ GiveBack(c)) /\ status' # status
    BY <2>1, <2>3, PhaseKept
    DEF Claim, GiveBack, AcceptsParts, Owns, Settle, Open, OpenStatus,
        TypeInv, TypeOK
  <2>4. CASE (Claim(c) \/ GiveBack(c)) /\ status' = status
    BY <2>4, Stutter DEF Claim, GiveBack
  <2>5. CASE \E s \in Sessions : CompleteLoad(c, s)
    BY <2>5, Stutter DEF CompleteLoad
  <2>6. CASE CompleteReload(c) \/ ReadFrozen(c) \/ Heartbeat(c) \/ CommitLock(c)
    BY <2>6, Stutter DEF CompleteReload, ReadFrozen, Heartbeat, CommitLock
  <2>7. CASE AssemblePart(c) \/ AssembleMissing(c) \/ AssembleAbort(c)
    BY <2>7, Stutter DEF AssemblePart, AssembleMissing, AssembleAbort
  <2>8. CASE Undo(c) \/ DropMissingRow(c)
    BY <2>8, Stutter DEF Undo, DropMissingRow
  <2> QED
    BY <1>6, <2>2, <2>3, <2>4, <2>5, <2>6, <2>7, <2>8 DEF CompleteStep
<1>7. ASSUME NEW p \in Procs, Crash(p) PROVE LedgerStep
  BY <1>7, Stutter DEF Crash
<1> QED
  BY <1>1, <1>2, <1>3, <1>4, <1>5, <1>6, <1>7 DEF Next

(* The inductive invariant of the refinement: the ledger's own invariant   *)
(* is needed to show that a release returns exactly the bytes of its       *)
(* session.                                                                *)
UploadInv == TypeInv /\ LP!LedgerInv

(* The uploads start where the ledger starts.                              *)
LEMMA UploadInit == Init => UploadInv /\ Ledger!Init
<1> SUFFICES ASSUME Init PROVE UploadInv /\ Ledger!Init
  OBVIOUS
<1>1. phases = [i \in Items |-> "none"]
  BY DEF Init, phases, Items, Phase, PhaseOf, Open, OpenStatus
<1>2. LP!Init /\ Ledger!Init
  BY <1>1 DEF Init, LP!Init, Ledger!Init, phases, Items
<1>3. LP!LedgerInv
  BY <1>2, LedgerAssumed, LP!LedgerInit
<1> QED
  BY <1>2, <1>3, TypeInit DEF UploadInv

(* Every step keeps the invariant and is one the ledger allows.            *)
LEMMA UploadStep == UploadInv /\ [Next]_vars => UploadInv' /\ LedgerStep
<1> SUFFICES ASSUME UploadInv, [Next]_vars PROVE UploadInv' /\ LedgerStep
  OBVIOUS
<1>1. LedgerStep
  <2>1. CASE Next
    BY <2>1, StepsLedger DEF UploadInv
  <2>2. CASE UNCHANGED vars
    BY <2>2, Stutter DEF vars, userVars, rowVars, LedgerStep
  <2> QED
    BY <2>1, <2>2
<1>2. LP!LedgerInv'
  BY <1>1, LedgerSteps, LedgerAssumed, LP!LedgerStep DEF UploadInv, LedgerStep
<1> QED
  BY <1>1, <1>2, TypeStep DEF UploadInv

(* Every row, counter, lock and program counter stays in its type: in      *)
(* particular no counter of the account becomes negative, and a part is    *)
(* appended only under a number the session has.                           *)
THEOREM TypeCorrect == Spec => []TypeOK
<1>1. UploadInv => TypeOK
  BY DEF UploadInv, TypeInv
<1> QED
  BY <1>1, UploadInit, UploadStep, PTL DEF Spec

(* The uploads implement the ledger: through every request, retry, sweep   *)
(* and crash the bytes of a session are held once, and then charged once   *)
(* or returned once.                                                       *)
THEOREM UploadKeepsLedger == Spec => KeepsLedger
<1>1. Init => UploadInv /\ Ledger!Init
  BY UploadInit
<1>2. UploadInv /\ [Next]_vars => UploadInv' /\ [Ledger!Next]_(Ledger!vars)
  BY UploadStep DEF LedgerStep
<1> QED
  BY <1>1, <1>2, PTL DEF Spec, KeepsLedger, Ledger!Spec

(* reservedUploadBytes is always exactly the bytes of the open sessions,   *)
(* storageUsed those of the completed ones.                                *)
THEOREM UploadCountersExact == Spec => []CountersExact
<1>1. Init => UploadInv
  BY UploadInit
<1>2. UploadInv /\ [Next]_vars => UploadInv'
  BY UploadStep
<1>3. UploadInv => CountersExact
  BY LedgerCounts DEF UploadInv, CountersExact
<1> QED
  BY <1>1, <1>2, <1>3, PTL DEF Spec

(* No order of creations, completions and changes of plan takes an account *)
(* over its plan's storage.                                                *)
THEOREM UploadWithinLimit == Spec => []Ledger!WithinLimit
<1>1. Init => UploadInv
  BY UploadInit
<1>2. UploadInv /\ [Next]_vars => UploadInv'
  BY UploadStep
<1>3. UploadInv => Ledger!WithinLimit
  BY DEF UploadInv, LP!LedgerInv, LP!WithinLimit, Ledger!WithinLimit
<1> QED
  BY <1>1, <1>2, <1>3, PTL DEF Spec

-----------------------------------------------------------------------------
(* What tokens, leases and the lock of the User row protect: one file per  *)
(* session, no late part, commits that cannot fail, completions that live  *)
(* requests keep, suspensions that bite, and bytes behind rows.            *)
(*                                                                         *)
(* Each invariant has a lemma that says every step keeps it, one step of   *)
(* the proof per group of actions; FenceInv is their conjunction.          *)

(* Where a process is inside a transaction that keeps the User row locked. *)
Critical == {"revert", "expire", "write"}

(* Two such transactions never overlap.                                    *)
LockHeld == \A p \in Procs : pc[p] \in Critical => userLock = p

(* The User row is handed over only while nobody is inside.                *)
LEMMA LockStep ==
    ASSUME TypeInv, LockHeld, [Next]_vars
    PROVE  LockHeld'
<1> USE Facts
    DEF TypeInv, TypeOK, ProcTypes, LockHeld, Critical, Goto, Finish,
        userVars, rowVars, partVars, storeVars, procVars
<1>1. CASE UNCHANGED vars
  BY <1>1 DEF vars
<1>2. CASE AccountStep
  BY <1>2 DEF AccountStep, Suspend, Reactivate, OthersMove, SwitchPlan
<1>3. ASSUME NEW s \in Sessions, SessionStep(s) PROVE LockHeld'
  BY <1>3
  DEF SessionStep, CreateSession, AbortSession, ExpireSession, Release,
      PurgeChunks, SweepChunks, LeaseLapses, SessionExpires, LoseChunk
<1>4. ASSUME NEW w \in Writers, PutStep(w) PROVE LockHeld'
  BY <1>4
  DEF PutStep, PutStart, PutRepair, PutStream, PutInsert, PutDiscard
<1>5. ASSUME NEW w \in Sweepers, NEW s \in Sessions, SweepPick(w, s)
      PROVE  LockHeld'
  BY <1>5 DEF SweepPick
<1>6. ASSUME NEW p \in Completers \cup Sweepers, RecoverStep(p)
      PROVE  LockHeld'
  BY <1>6
  DEF RecoverStep, RecoverRead, RecoverRevert, RecoverExpire, AfterRecovery,
      LockFree
<1>7. ASSUME NEW c \in Completers, CompleteStep(c) PROVE LockHeld'
  <2>1. CASE CommitLock(c) \/ CommitWrite(c)
    BY <2>1 DEF CommitLock, CommitWrite, AfterCommit, LockFree
  <2>2. CASE \E s \in Sessions : CompleteLoad(c, s)
    BY <2>2 DEF CompleteLoad
  <2>3. CASE CompleteReload(c) \/ Claim(c)
    BY <2>3 DEF CompleteReload, Claim
  <2>4. CASE ReadFrozen(c) \/ Heartbeat(c)
    BY <2>4 DEF ReadFrozen, Heartbeat
  <2>5. CASE AssemblePart(c)
    BY <2>5 DEF AssemblePart
  <2>6. CASE AssembleMissing(c) \/ AssembleAbort(c) \/ Undo(c)
    BY <2>6 DEF AssembleMissing, AssembleAbort, Undo
  <2>7. CASE GiveBack(c) \/ DropMissingRow(c)
    BY <2>7 DEF GiveBack, AfterGiveBack, DropMissingRow
  <2> QED
    BY <1>7, <2>1, <2>2, <2>3, <2>4, <2>5, <2>6, <2>7 DEF CompleteStep
<1>8. ASSUME NEW p \in Procs, Crash(p) PROVE LockHeld'
  BY <1>8 DEF Crash
<1> QED
  BY <1>1, <1>2, <1>3, <1>4, <1>5, <1>6, <1>7, <1>8 DEF Next

-----------------------------------------------------------------------------

(* Inside its commit a request owns the session of an active account.      *)
WriterOwns ==
    \A c \in Completers : pc[c] = "write" => account = "ACTIVE" /\ Owns(c)

(* What could take the session away needs the User row, a lapsed token of  *)
(* its own or the status UPLOADING; what could suspend the account needs   *)
(* the User row.                                                           *)
LEMMA OwnerStep ==
    ASSUME TypeInv, LockHeld, WriterOwns, [Next]_vars
    PROVE  WriterOwns'
<1> USE Facts
    DEF TypeInv, TypeOK, ProcTypes, RowTypes, Known, LockHeld, Critical,
        WriterOwns, Owns, Goto, Finish, Settle, userVars, rowVars, partVars,
        storeVars, procVars
<1>1. CASE UNCHANGED vars
  BY <1>1 DEF vars
<1>2. CASE AccountStep
  BY <1>2 DEF AccountStep, Suspend, Reactivate, OthersMove, SwitchPlan, LockFree
<1>3. ASSUME NEW s \in Sessions, SessionStep(s) PROVE WriterOwns'
  <2>1. CASE CreateSession(s)
    BY <2>1 DEF CreateSession
  <2>2. ASSUME NEW st \in Terminal, Release(s, st) PROVE WriterOwns'
    BY <2>2 DEF Release, MayRelease, LockFree
  <2>3. CASE PurgeChunks(s) \/ SweepChunks(s) \/ LeaseLapses(s) \/ SessionExpires(s)
    BY <2>3 DEF PurgeChunks, SweepChunks, LeaseLapses, SessionExpires
  <2>4. CASE \E w \in Writers : LoseChunk(s, w)
    BY <2>4 DEF LoseChunk
  <2> QED
    BY <1>3, <2>1, <2>2, <2>3, <2>4
    DEF SessionStep, AbortSession, ExpireSession, Terminal
<1>4. ASSUME NEW w \in Writers, PutStep(w) PROVE WriterOwns'
  BY <1>4
  DEF PutStep, PutStart, PutRepair, PutStream, PutInsert, PutDiscard
<1>5. ASSUME NEW w \in Sweepers, NEW s \in Sessions, SweepPick(w, s)
      PROVE  WriterOwns'
  BY <1>5 DEF SweepPick
<1>6. ASSUME NEW p \in Completers \cup Sweepers, RecoverStep(p)
      PROVE  WriterOwns'
  BY <1>6
  DEF RecoverStep, RecoverRead, RecoverRevert, RecoverExpire, AfterRecovery,
      LockFree
<1>7. ASSUME NEW c \in Completers, CompleteStep(c) PROVE WriterOwns'
  <2>1. CASE CommitLock(c)
    BY <2>1 DEF CommitLock, LockFree
  <2>2. CASE CommitWrite(c)
    BY <2>2 DEF CommitWrite, AfterCommit
  <2>3. CASE \E s \in Sessions : CompleteLoad(c, s)
    BY <2>3 DEF CompleteLoad
  <2>4. CASE CompleteReload(c) \/ ReadFrozen(c) \/ Heartbeat(c)
    BY <2>4 DEF CompleteReload, ReadFrozen, Heartbeat
  <2>5. CASE Claim(c)
    <3>1. \A d \in Completers : pc'[d] = "write" =>
              pc[d] = "write" /\ sess'[d] = sess[d] /\ Owns(d)
      BY <2>5 DEF Claim
    <3>2. CASE UNCHANGED <<status, token>>
      BY <2>5, <3>1, <3>2 DEF Claim
    <3>3. CASE AcceptsParts(sess[c])
      <4>1. \A t \in Sessions : t # sess[c] =>
                status'[t] = status[t] /\ token'[t] = token[t]
        BY <2>5, <3>3 DEF Claim
      <4>2. status[sess[c]] = "UPLOADING"
        BY <3>3 DEF AcceptsParts
      <4>3. \A d \in Completers : pc[d] = "write" => sess[d] \in Sessions
        OBVIOUS
      <4>4. UNCHANGED account
        BY <2>5 DEF Claim
      <4> QED
        BY <3>1, <4>1, <4>2, <4>3, <4>4
    <3> QED
      BY <2>5, <3>2, <3>3 DEF Claim
  <2>6. CASE AssemblePart(c) \/ AssembleMissing(c) \/ AssembleAbort(c)
    BY <2>6 DEF AssemblePart, AssembleMissing, AssembleAbort
  <2>7. CASE GiveBack(c)
    BY <2>7 DEF GiveBack, AfterGiveBack
  <2>8. CASE DropMissingRow(c) \/ Undo(c)
    BY <2>8 DEF DropMissingRow, Undo
  <2> QED
    BY <1>7, <2>1, <2>2, <2>3, <2>4, <2>5, <2>6, <2>7, <2>8 DEF CompleteStep
<1>8. ASSUME NEW p \in Procs, Crash(p) PROVE WriterOwns'
  BY <1>8 DEF Crash
<1> QED
  BY <1>1, <1>2, <1>3, <1>4, <1>5, <1>6, <1>7, <1>8 DEF Next

-----------------------------------------------------------------------------

(* A request that has published a file does not commit again.              *)
Published == \A c \in files : pc[c] \in {"undo", "giveBack", "drop", "done"}

(* A commit leaves the request past its commit, for good.                  *)
LEMMA PublishedStep ==
    ASSUME TypeInv, Published, [Next]_vars
    PROVE  Published'
<1> USE Facts
    DEF TypeInv, TypeOK, ProcTypes, StoreTypes, Published,
        Goto, Finish, userVars, rowVars, partVars, storeVars, procVars
<1>1. CASE UNCHANGED vars
  BY <1>1 DEF vars
<1>2. CASE AccountStep
  BY <1>2 DEF AccountStep, Suspend, Reactivate, OthersMove, SwitchPlan
<1>3. ASSUME NEW s \in Sessions, SessionStep(s) PROVE Published'
  BY <1>3
  DEF SessionStep, CreateSession, AbortSession, ExpireSession, Release,
      PurgeChunks, SweepChunks, LeaseLapses, SessionExpires, LoseChunk
<1>4. ASSUME NEW w \in Writers, PutStep(w) PROVE Published'
  <2>1. CASE \E s \in Sessions, n \in PartNumbers : PutStart(w, s, n)
    BY <2>1 DEF PutStart
  <2>2. CASE PutRepair(w) \/ PutStream(w)
    BY <2>2 DEF PutRepair, PutStream
  <2>3. CASE PutInsert(w) \/ PutDiscard(w)
    BY <2>3 DEF PutInsert, PutDiscard
  <2> QED
    BY <1>4, <2>1, <2>2, <2>3 DEF PutStep
<1>5. ASSUME NEW w \in Sweepers, NEW s \in Sessions, SweepPick(w, s)
      PROVE  Published'
  BY <1>5 DEF SweepPick
<1>6. ASSUME NEW p \in Completers \cup Sweepers, RecoverStep(p)
      PROVE  Published'
  BY <1>6
  DEF RecoverStep, RecoverRead, RecoverRevert, RecoverExpire, AfterRecovery
<1>7. ASSUME NEW c \in Completers, CompleteStep(c) PROVE Published'
  <2>1. CASE CommitLock(c) \/ CommitWrite(c)
    BY <2>1 DEF CommitLock, CommitWrite, AfterCommit
  <2>2. CASE \E s \in Sessions : CompleteLoad(c, s)
    BY <2>2 DEF CompleteLoad
  <2>3. CASE CompleteReload(c) \/ Claim(c)
    BY <2>3 DEF CompleteReload, Claim
  <2>4. CASE ReadFrozen(c) \/ Heartbeat(c)
    BY <2>4 DEF ReadFrozen, Heartbeat
  <2>5. CASE AssemblePart(c)
    BY <2>5 DEF AssemblePart
  <2>6. CASE AssembleMissing(c) \/ AssembleAbort(c) \/ Undo(c)
    BY <2>6 DEF AssembleMissing, AssembleAbort, Undo
  <2>7. CASE GiveBack(c)
    BY <2>7 DEF GiveBack, AfterGiveBack
  <2>8. CASE DropMissingRow(c)
    BY <2>8 DEF DropMissingRow
  <2> QED
    BY <1>7, <2>1, <2>2, <2>3, <2>4, <2>5, <2>6, <2>7, <2>8 DEF CompleteStep
<1>8. ASSUME NEW p \in Procs, Crash(p) PROVE Published'
  BY <1>8 DEF Crash
<1> QED
  BY <1>1, <1>2, <1>3, <1>4, <1>5, <1>6, <1>7, <1>8 DEF Next

(* A step that neither completes a session nor touches a file.             *)
SameFiles ==
    /\ UNCHANGED <<files, fileId>>
    /\ \A s \in Sessions : status'[s] = "COMPLETED" <=> status[s] = "COMPLETED"

(* Such a step keeps files and sessions in correspondence.                 *)
LEMMA FilesKept ==
    ASSUME OneFilePerSession, SameFiles
    PROVE  OneFilePerSession'
  BY DEF OneFilePerSession, SameFiles

(* A commit adds one file to one session that had none.                    *)
LEMMA CommitPublishes ==
    ASSUME TypeInv, Published, OneFilePerSession, NEW c \in Completers,
           CommitWrite(c)
    PROVE  OneFilePerSession'
<1> DEFINE s == sess[c]
<1>1. s \in Sessions /\ c # None
  BY Facts DEF CommitWrite, TypeInv, Known
<1>2. CASE UNCHANGED <<files, fileId, status>>
  BY <1>2, FilesKept DEF SameFiles
<1>3. CASE ~UNCHANGED <<files, fileId, status>>
  <2>1. /\ fileId' = [fileId EXCEPT ![s] = c]
        /\ status' = [status EXCEPT ![s] = "COMPLETED"]
        /\ files' = files \cup {c}
        /\ c \notin files
        /\ status[s] = "COMPLETING"
    BY <1>3 DEF CommitWrite, Settle, Owns, Published
  <2>2. /\ fileId'[s] = c /\ status'[s] = "COMPLETED"
        /\ \A t \in Sessions \ {s} :
              fileId'[t] = fileId[t] /\ status'[t] = status[t]
    BY <1>1, <2>1 DEF TypeInv, TypeOK, RowTypes
  <2>3. \A t \in Sessions : status'[t] = "COMPLETED" <=> fileId'[t] # None
    BY <1>1, <2>2 DEF OneFilePerSession
  <2>4. files' = {fileId'[t] : t \in {u \in Sessions : status'[u] = "COMPLETED"}}
    BY <1>1, <2>1, <2>2 DEF OneFilePerSession
  <2>5. \A t \in Sessions \ {s} : fileId[t] # c
    BY <1>1, <2>1 DEF OneFilePerSession
  <2>6. \A t, u \in Sessions : fileId'[t] # None /\ fileId'[t] = fileId'[u] => t = u
    BY <1>1, <2>2, <2>5 DEF OneFilePerSession
  <2> QED
    BY <2>3, <2>4, <2>6 DEF OneFilePerSession
<1> QED
  BY <1>2, <1>3

(* Nothing but a commit enters or leaves COMPLETED.                        *)
LEMMA OneFileStep ==
    ASSUME TypeInv, Published, OneFilePerSession, [Next]_vars
    PROVE  OneFilePerSession'
<1> USE Facts, FilesKept
    DEF TypeInv, TypeOK, RowTypes, SameFiles, Settle,
        userVars, rowVars, partVars, storeVars, procVars
<1>1. CASE UNCHANGED vars
  BY <1>1 DEF vars
<1>2. CASE AccountStep
  BY <1>2 DEF AccountStep, Suspend, Reactivate, OthersMove, SwitchPlan
<1>3. ASSUME NEW s \in Sessions, SessionStep(s) PROVE OneFilePerSession'
  <2>1. CASE CreateSession(s)
    BY <2>1 DEF CreateSession
  <2>2. ASSUME NEW st \in {"ABORTED", "EXPIRED"}, Release(s, st)
        PROVE  OneFilePerSession'
    BY <2>2 DEF Release, MayRelease
  <2>3. CASE PurgeChunks(s) \/ SweepChunks(s) \/ LeaseLapses(s) \/ SessionExpires(s)
    BY <2>3 DEF PurgeChunks, SweepChunks, LeaseLapses, SessionExpires
  <2>4. CASE \E w \in Writers : LoseChunk(s, w)
    BY <2>4 DEF LoseChunk
  <2> QED
    BY <1>3, <2>1, <2>2, <2>3, <2>4
    DEF SessionStep, AbortSession, ExpireSession
<1>4. ASSUME NEW w \in Writers, PutStep(w) PROVE OneFilePerSession'
  BY <1>4
  DEF PutStep, PutStart, PutRepair, PutStream, PutInsert, PutDiscard
<1>5. ASSUME NEW w \in Sweepers, NEW s \in Sessions, SweepPick(w, s)
      PROVE  OneFilePerSession'
  BY <1>5 DEF SweepPick
<1>6. ASSUME NEW p \in Completers \cup Sweepers, RecoverStep(p)
      PROVE  OneFilePerSession'
  BY <1>6
  DEF RecoverStep, RecoverRead, RecoverRevert, RecoverExpire, StillStale, Stale
<1>7. ASSUME NEW c \in Completers, CompleteStep(c) PROVE OneFilePerSession'
  <2>1. CASE CommitWrite(c)
    BY <2>1, CommitPublishes
  <2>2. CASE \E s \in Sessions : CompleteLoad(c, s)
    BY <2>2 DEF CompleteLoad
  <2>3. CASE Claim(c)
    BY <2>3 DEF Claim, AcceptsParts
  <2>4. CASE GiveBack(c)
    BY <2>4 DEF GiveBack, Owns
  <2>5. CASE CompleteReload(c) \/ ReadFrozen(c) \/ Heartbeat(c) \/ CommitLock(c)
    BY <2>5 DEF CompleteReload, ReadFrozen, Heartbeat, CommitLock
  <2>6. CASE AssemblePart(c) \/ AssembleMissing(c) \/ AssembleAbort(c)
    BY <2>6 DEF AssemblePart, AssembleMissing, AssembleAbort
  <2>7. CASE Undo(c) \/ DropMissingRow(c)
    BY <2>7 DEF Undo, DropMissingRow
  <2> QED
    BY <1>7, <2>1, <2>2, <2>3, <2>4, <2>5, <2>6, <2>7 DEF CompleteStep
<1>8. ASSUME NEW p \in Procs, Crash(p) PROVE OneFilePerSession'
  BY <1>8 DEF Crash
<1> QED
  BY <1>1, <1>2, <1>3, <1>4, <1>5, <1>6, <1>7, <1>8 DEF Next

-----------------------------------------------------------------------------

(* Where a completion request relies on the parts it read.                 *)
Assembling(c) == pc[c] \in {"assemble", "commit", "write"}

(* Nobody comes to rely on another part set in this step ...               *)
KeepsAssembly ==
    \A c \in Completers : Assembling(c)' =>
        /\ Assembling(c)
        /\ sess'[c] = sess[c] /\ sess[c] \in Sessions
        /\ frozen'[c] = frozen[c]

(* ... nor comes to own a session, nor sees a row appear in its own.       *)
KeepsOwned ==
    \A c \in Completers : Assembling(c) /\ sess'[c] = sess[c] /\ Owns(c)' =>
        /\ Owns(c)
        /\ \A n \in PartNumbers :
              rows'[sess[c]][n] \in {None, rows[sess[c]][n]}

(* Then no part is late.                                                   *)
LEMMA NoneLate ==
    ASSUME NoLateParts, KeepsAssembly, KeepsOwned
    PROVE  NoLateParts'
  BY DEF NoLateParts, KeepsAssembly, KeepsOwned, Assembling

(* Moving on or answering elsewhere does not start an assembly.            *)
LEMMA LeavesAssembly ==
    ASSUME ProcTypes, Known, NEW p \in Procs,
           \/ Finish(p)
           \/ Goto(p, "discard") \/ Goto(p, "stream") \/ Goto(p, "drop")
           \/ Goto(p, "freeze")
           \/ AfterRecovery(p)
    PROVE  KeepsAssembly
<1> USE Facts DEF ProcTypes, KeepsAssembly, Assembling
<1>1. \A q \in Procs : Assembling(q) => sess[q] \in Sessions
  BY DEF Known
<1>2. CASE Finish(p)
  BY <1>1, <1>2 DEF Finish
<1>3. ASSUME NEW l \in {"discard", "stream", "drop", "freeze"}, Goto(p, l)
      PROVE  KeepsAssembly
  BY <1>1, <1>3 DEF Goto
<1>4. CASE AfterRecovery(p) /\ ~Finish(p)
  BY <1>1, <1>4 DEF AfterRecovery
<1> QED
  BY <1>2, <1>3, <1>4

(* Parts enter a session that is UPLOADING only; its part set is read      *)
(* after the claim took it out of UPLOADING.                               *)
LEMMA NoLatePartsStep ==
    ASSUME TypeInv, NoLateParts, [Next]_vars
    PROVE  NoLateParts'
<1> USE Facts, NoneLate DEF userVars, rowVars, partVars, storeVars, procVars
<1>0. /\ ProcTypes /\ Known /\ PartTypes /\ RowTypes
      /\ \A c \in Completers : Assembling(c) => sess[c] \in Sessions
      /\ \A p \in Procs : pc[p] \notin {"idle", "done"} => sess[p] \in Sessions
  BY DEF TypeInv, TypeOK, Known, Assembling
<1>a. UNCHANGED procVars => KeepsAssembly
  BY <1>0 DEF KeepsAssembly, Assembling
<1>b. UNCHANGED <<status, token, rows>> => KeepsOwned
  BY DEF KeepsOwned, Owns
<1>1. CASE UNCHANGED vars
  BY <1>1, <1>a, <1>b DEF vars
<1>2. CASE AccountStep
  BY <1>2, <1>a, <1>b DEF AccountStep, Suspend, Reactivate, OthersMove, SwitchPlan
<1>3. ASSUME NEW s \in Sessions, SessionStep(s) PROVE NoLateParts'
  <2>1. KeepsAssembly
    BY <1>3, <1>a
    DEF SessionStep, CreateSession, AbortSession, ExpireSession, Release,
        PurgeChunks, SweepChunks, LeaseLapses, SessionExpires, LoseChunk
  <2>2. CASE CreateSession(s)
    BY <1>0, <2>1, <2>2
    DEF CreateSession, KeepsOwned, Owns, RowTypes
  <2>3. ASSUME NEW st \in {"ABORTED", "EXPIRED"}, Release(s, st)
        PROVE  NoLateParts'
    BY <1>0, <2>1, <2>3
    DEF Release, MayRelease, Settle, KeepsOwned, Owns, RowTypes
  <2>4. CASE ~CreateSession(s) /\ ~AbortSession(s) /\ ~ExpireSession(s)
    BY <1>3, <1>b, <2>1, <2>4
    DEF SessionStep, PurgeChunks, SweepChunks, LeaseLapses, SessionExpires,
        LoseChunk
  <2> QED
    BY <2>2, <2>3, <2>4 DEF AbortSession, ExpireSession
<1>4. ASSUME NEW w \in Writers, PutStep(w) PROVE NoLateParts'
  <2>1. KeepsAssembly
    <3>1. CASE \A c \in Completers :
                  pc'[c] = pc[c] /\ sess'[c] = sess[c] /\ frozen'[c] = frozen[c]
      BY <1>0, <3>1 DEF KeepsAssembly, Assembling
    <3>2. CASE \E s \in Sessions, n \in PartNumbers : PutStart(w, s, n)
      BY <1>0, <3>1, <3>2 DEF PutStart, ProcTypes
    <3>3. ASSUME Finish(w) \/ \E l \in Labels : Goto(w, l)
          PROVE  KeepsAssembly
      BY <1>0, <3>1, <3>3 DEF Finish, Goto, ProcTypes
    <3> QED
      BY <1>4, <3>2, <3>3
      DEF PutStep, PutRepair, PutStream, PutInsert, PutDiscard, Labels
  <2>2. KeepsOwned
    <3>1. CASE PutRepair(w)
      <4>1. \/ rows' = [rows EXCEPT ![sess[w]][part[w]] = None]
            \/ rows' = rows
        BY <3>1 DEF PutRepair
      <4>2. UNCHANGED <<status, token>>
        BY <3>1 DEF PutRepair
      <4>3. \A s \in Sessions, n \in PartNumbers :
               rows'[s][n] \in {None, rows[s][n]}
        BY <1>0, <4>1 DEF PartTypes
      <4> QED
        BY <1>0, <4>2, <4>3 DEF KeepsOwned, Owns
    <3>2. CASE PutInsert(w)
      BY <1>0, <3>2
      DEF PutInsert, InsertAdmits, AcceptsParts, KeepsOwned, Owns, PartTypes
    <3>3. CASE ~PutRepair(w) /\ ~PutInsert(w)
      BY <1>4, <1>b, <3>3 DEF PutStep, PutStart, PutStream, PutDiscard
    <3> QED
      BY <3>1, <3>2, <3>3
  <2> QED
    BY <2>1, <2>2
<1>5. ASSUME NEW w \in Sweepers, NEW s \in Sessions, SweepPick(w, s)
      PROVE  NoLateParts'
  <2>1. KeepsAssembly
    BY <1>0, <1>5 DEF SweepPick, KeepsAssembly, Assembling, ProcTypes
  <2> QED
    BY <1>5, <1>b, <2>1 DEF SweepPick
<1>6. ASSUME NEW p \in Completers \cup Sweepers, RecoverStep(p)
      PROVE  NoLateParts'
  <2>1. KeepsAssembly
    <3>1. CASE AfterRecovery(p) \/ Finish(p)
      BY <1>0, <3>1, LeavesAssembly
    <3>2. CASE RecoverRead(p) /\ ~AfterRecovery(p)
      BY <1>0, <3>2 DEF RecoverRead, KeepsAssembly, Assembling, ProcTypes
    <3> QED
      BY <1>6, <3>1, <3>2 DEF RecoverStep, RecoverRevert, RecoverExpire
  <2>2. KeepsOwned
    <3>1. ASSUME NEW st \in {"UPLOADING", "EXPIRED"}, Settle(sess[p], st),
                 sess[p] \in Sessions, UNCHANGED rows
          PROVE  KeepsOwned
      BY <1>0, <3>1 DEF Settle, KeepsOwned, Owns, RowTypes
    <3> QED
      BY <1>0, <1>6, <1>b, <3>1
      DEF RecoverStep, RecoverRead, RecoverRevert, RecoverExpire
  <2> QED
    BY <2>1, <2>2
<1>7. ASSUME NEW c \in Completers, CompleteStep(c) PROVE NoLateParts'
  <2>1. CASE CommitLock(c)
    BY <1>0, <1>b, <2>1
    DEF CommitLock, Goto, KeepsAssembly, Assembling, ProcTypes
  <2>2. CASE CommitWrite(c)
    <3>1. KeepsAssembly
      BY <1>0, <2>2, LeavesAssembly
      DEF CommitWrite, AfterCommit, Goto, KeepsAssembly, Assembling, ProcTypes
    <3>2. KeepsOwned
      BY <1>0, <2>2 DEF CommitWrite, Settle, KeepsOwned, Owns, RowTypes
    <3> QED
      BY <3>1, <3>2
  <2>3. CASE \E s \in Sessions : CompleteLoad(c, s)
    BY <1>0, <1>b, <2>3 DEF CompleteLoad, KeepsAssembly, Assembling, ProcTypes
  <2>4. CASE CompleteReload(c)
    <3>1. KeepsAssembly
      BY <1>0, <2>4, LeavesAssembly
      DEF CompleteReload, Goto, KeepsAssembly, Assembling, ProcTypes
    <3> QED
      BY <1>b, <2>4, <3>1 DEF CompleteReload
  <2>5. CASE Claim(c)
    <3>1. KeepsAssembly
      BY <1>0, <2>5, LeavesAssembly DEF Claim
    <3>2. KeepsOwned
      BY <1>0, <2>5
      DEF Claim, AcceptsParts, KeepsOwned, KeepsAssembly, Assembling, Owns,
          RowTypes, Goto, Finish, ProcTypes
    <3> QED
      BY <3>1, <3>2
  <2>6. CASE ReadFrozen(c)
    BY <1>0, <2>6
    DEF ReadFrozen, NoLateParts, Owns, Assembling, ProcTypes, PartTypes
  <2>7. CASE Heartbeat(c)
    BY <1>a, <1>b, <2>7 DEF Heartbeat
  <2>8. CASE AssemblePart(c) \/ AssembleMissing(c) \/ AssembleAbort(c) \/ Undo(c)
    <3>1. KeepsAssembly
      BY <1>0, <1>a, <2>8
      DEF AssemblePart, AssembleMissing, AssembleAbort, Undo, Goto,
          KeepsAssembly, Assembling, ProcTypes
    <3> QED
      BY <1>b, <2>8, <3>1 DEF AssemblePart, AssembleMissing, AssembleAbort, Undo
  <2>9. CASE GiveBack(c)
    <3>1. KeepsAssembly
      BY <1>0, <2>9, LeavesAssembly DEF GiveBack, AfterGiveBack
    <3>2. KeepsOwned
      <4>1. CASE UNCHANGED <<status, token>>
        BY <1>b, <2>9, <4>1 DEF GiveBack
      <4>2. CASE Settle(sess[c], "UPLOADING")
        BY <1>0, <2>9, <4>2 DEF GiveBack, Settle, KeepsOwned, Owns, RowTypes
      <4> QED
        BY <2>9, <4>1, <4>2 DEF GiveBack
    <3> QED
      BY <3>1, <3>2
  <2>10. CASE DropMissingRow(c)
    <3>1. KeepsAssembly
      BY <1>0, <2>10, LeavesAssembly DEF DropMissingRow
    <3>2. KeepsOwned
      BY <1>0, <2>10 DEF DropMissingRow, KeepsOwned, Owns, PartTypes
    <3> QED
      BY <3>1, <3>2
  <2> QED
    BY <1>7, <2>1, <2>2, <2>3, <2>4, <2>5, <2>6, <2>7, <2>8, <2>9, <2>10
    DEF CompleteStep
<1>8. ASSUME NEW p \in Procs, Crash(p) PROVE NoLateParts'
  BY <1>0, <1>8, <1>b, LeavesAssembly DEF Crash
<1> QED
  BY <1>1, <1>2, <1>3, <1>4, <1>5, <1>6, <1>7, <1>8 DEF Next

-----------------------------------------------------------------------------

(* What LiveCompletionIsKept says of one step.                             *)
LiveStep ==
    \A s \in Sessions :
        status[s] = "COMPLETING" /\ lease[s] = "live" /\ status'[s] # "COMPLETING"
            => pc[token[s]] \in {"write", "giveBack"}

(* Every way out of COMPLETING tests the token or the lease.               *)
LEMMA LiveKept ==
    ASSUME TypeInv, [Next]_vars
    PROVE  LiveStep
<1> USE DEF LiveStep, TypeInv, TypeOK, RowTypes, Settle,
            userVars, rowVars, partVars, storeVars
<1>1. CASE UNCHANGED vars
  BY <1>1 DEF vars
<1>2. CASE AccountStep
  BY <1>2 DEF AccountStep, Suspend, Reactivate, OthersMove, SwitchPlan
<1>3. ASSUME NEW s \in Sessions, SessionStep(s) PROVE LiveStep
  BY <1>3
  DEF SessionStep, CreateSession, AbortSession, ExpireSession, Release,
      MayRelease, PurgeChunks, SweepChunks, LeaseLapses, SessionExpires, LoseChunk
<1>4. ASSUME NEW w \in Writers, PutStep(w) PROVE LiveStep
  BY <1>4
  DEF PutStep, PutStart, PutRepair, PutStream, PutInsert, PutDiscard
<1>5. ASSUME NEW w \in Sweepers, NEW s \in Sessions, SweepPick(w, s)
      PROVE  LiveStep
  BY <1>5 DEF SweepPick
<1>6. ASSUME NEW p \in Completers \cup Sweepers, RecoverStep(p)
      PROVE  LiveStep
  BY <1>6
  DEF RecoverStep, RecoverRead, RecoverRevert, RecoverExpire, StillStale, Stale
<1>7. ASSUME NEW c \in Completers, CompleteStep(c) PROVE LiveStep
  <2>1. CASE CommitWrite(c)
    BY <2>1 DEF CommitWrite, Owns
  <2>2. CASE GiveBack(c)
    BY <2>2 DEF GiveBack, Owns
  <2>3. CASE Claim(c)
    BY <2>3 DEF Claim
  <2>4. CASE ~CommitWrite(c) /\ ~GiveBack(c) /\ ~Claim(c)
    BY <1>7, <2>4
    DEF CompleteStep, CompleteLoad, CompleteReload, ReadFrozen, Heartbeat,
        AssemblePart, AssembleMissing, AssembleAbort, CommitLock, Undo,
        DropMissingRow
  <2> QED
    BY <2>1, <2>2, <2>3, <2>4
<1>8. ASSUME NEW p \in Procs, Crash(p) PROVE LiveStep
  BY <1>8 DEF Crash
<1> QED
  BY <1>1, <1>2, <1>3, <1>4, <1>5, <1>6, <1>7, <1>8 DEF Next

(* What SuspendedGainsNothing says of one step.                            *)
SuspendedStep ==
    account = "SUSPENDED" =>
        /\ files' = files
        /\ used' <= used /\ reserved' <= reserved
        /\ \A s \in Sessions :
              /\ Open(s)' => Open(s)
              /\ \A n \in PartNumbers : rows'[s][n] \in {None, rows[s][n]}

(* A commit in flight is the hard case: it holds the User row, so the      *)
(* account it found active is still active.                                *)
LEMMA SuspendedGains ==
    ASSUME TypeInv, LP!LedgerInv, WriterOwns, [Next]_vars
    PROVE  SuspendedStep
<1> SUFFICES ASSUME account = "SUSPENDED" PROVE SuspendedStep
  BY DEF SuspendedStep
<1> USE Facts DEF SuspendedStep, Open, OpenStatus, TypeInv, TypeOK, RowTypes,
      PartTypes, UserTypes, Settle, userVars, rowVars, partVars, storeVars
<1>1. CASE UNCHANGED vars
  BY <1>1 DEF vars
<1>2. CASE AccountStep
  <2>1. CASE OthersMove
    BY <2>1, OthersTypes DEF OthersMove
  <2>2. CASE ~OthersMove
    BY <1>2, <2>2 DEF AccountStep, Suspend, Reactivate, SwitchPlan
  <2> QED
    BY <2>1, <2>2
<1>3. ASSUME NEW s \in Sessions, SessionStep(s) PROVE SuspendedStep
  BY <1>3
  DEF SessionStep, CreateSession, AbortSession, ExpireSession, Release, Released,
      MayRelease, PurgeChunks, SweepChunks, LeaseLapses, SessionExpires, LoseChunk
<1>4. ASSUME NEW w \in Writers, PutStep(w) PROVE SuspendedStep
  <2>1. CASE PutRepair(w)
    <3>1. \/ rows' = [rows EXCEPT ![sess[w]][part[w]] = None]
          \/ rows' = rows
      BY <2>1 DEF PutRepair
    <3>2. UNCHANGED <<userVars, rowVars, files>>
      BY <2>1 DEF PutRepair
    <3> QED
      BY <3>1, <3>2
  <2>2. CASE ~PutRepair(w)
    BY <1>4, <2>2
    DEF PutStep, PutStart, PutStream, PutInsert, InsertAdmits, PutDiscard
  <2> QED
    BY <2>1, <2>2
<1>5. ASSUME NEW w \in Sweepers, NEW s \in Sessions, SweepPick(w, s)
      PROVE  SuspendedStep
  BY <1>5 DEF SweepPick
<1>6. ASSUME NEW p \in Completers \cup Sweepers, RecoverStep(p)
      PROVE  SuspendedStep
  <2>1. pc[p] \in {"revert", "expire"} => sess[p] \in Sessions
    BY DEF Known
  <2>2. CASE RecoverRead(p)
    BY <2>2 DEF RecoverRead
  <2>3. CASE RecoverRevert(p)
    BY <2>1, <2>3 DEF RecoverRevert, StillStale, Stale
  <2>4. CASE RecoverExpire(p)
    BY <2>1, <2>4 DEF RecoverExpire, StillStale, Stale, Released
  <2> QED
    BY <1>6, <2>2, <2>3, <2>4 DEF RecoverStep
<1>7. ASSUME NEW c \in Completers, CompleteStep(c) PROVE SuspendedStep
  <2>1. CASE CommitWrite(c)
    BY <2>1 DEF CommitWrite, WriterOwns, Chargeable
  <2>2. CASE Claim(c)
    BY <2>2 DEF Claim, AcceptsParts
  <2>3. CASE GiveBack(c)
    BY <2>3 DEF GiveBack, Owns
  <2>4. CASE DropMissingRow(c)
    BY <2>4 DEF DropMissingRow
  <2>5. CASE ~CommitWrite(c) /\ ~GiveBack(c) /\ ~Claim(c) /\ ~DropMissingRow(c)
    BY <1>7, <2>5
    DEF CompleteStep, CompleteLoad, CompleteReload, ReadFrozen, Heartbeat,
        AssemblePart, AssembleMissing, AssembleAbort, CommitLock, Undo
  <2> QED
    BY <2>1, <2>2, <2>3, <2>4, <2>5
<1>8. ASSUME NEW p \in Procs, Crash(p) PROVE SuspendedStep
  BY <1>8 DEF Crash
<1> QED
  BY <1>1, <1>2, <1>3, <1>4, <1>5, <1>6, <1>7, <1>8 DEF Next

-----------------------------------------------------------------------------

(* A request that reached its commit has written every part, and one that  *)
(* published keeps its object.                                             *)
Stored ==
    \A c \in Completers :
        /\ pc[c] \in {"commit", "write"} => written[c] = PartCount
        /\ c \in files => pc[c] = "done" /\ written[c] = PartCount

(* If no acknowledgement is lost, no published object is deleted.          *)
LEMMA StoredStep ==
    ASSUME AckMayBeLost = FALSE, TypeInv, Stored, [Next]_vars
    PROVE  Stored'
<1> USE Facts
    DEF TypeInv, TypeOK, ProcTypes, StoreTypes, Stored,
        Goto, Finish, userVars, rowVars, partVars, storeVars, procVars
<1>1. CASE UNCHANGED vars
  BY <1>1 DEF vars
<1>2. CASE AccountStep
  BY <1>2 DEF AccountStep, Suspend, Reactivate, OthersMove, SwitchPlan
<1>3. ASSUME NEW s \in Sessions, SessionStep(s) PROVE Stored'
  BY <1>3
  DEF SessionStep, CreateSession, AbortSession, ExpireSession, Release,
      PurgeChunks, SweepChunks, LeaseLapses, SessionExpires, LoseChunk
<1>4. ASSUME NEW w \in Writers, PutStep(w) PROVE Stored'
  BY <1>4
  DEF PutStep, PutStart, PutRepair, PutStream, PutInsert, PutDiscard
<1>5. ASSUME NEW w \in Sweepers, NEW s \in Sessions, SweepPick(w, s)
      PROVE  Stored'
  BY <1>5 DEF SweepPick
<1>6. ASSUME NEW p \in Completers \cup Sweepers, RecoverStep(p)
      PROVE  Stored'
  BY <1>6
  DEF RecoverStep, RecoverRead, RecoverRevert, RecoverExpire, AfterRecovery
<1>7. ASSUME NEW c \in Completers, CompleteStep(c) PROVE Stored'
  <2>1. CASE CommitLock(c) \/ CommitWrite(c)
    BY <2>1 DEF CommitLock, CommitWrite, AfterCommit
  <2>2. CASE \E s \in Sessions : CompleteLoad(c, s)
    BY <2>2 DEF CompleteLoad
  <2>3. CASE CompleteReload(c) \/ Claim(c)
    BY <2>3 DEF CompleteReload, Claim
  <2>4. CASE ReadFrozen(c) \/ Heartbeat(c)
    BY <2>4 DEF ReadFrozen, Heartbeat
  <2>5. CASE AssemblePart(c)
    BY <2>5 DEF AssemblePart
  <2>6. CASE AssembleMissing(c) \/ AssembleAbort(c) \/ Undo(c)
    BY <2>6 DEF AssembleMissing, AssembleAbort, Undo
  <2>7. CASE GiveBack(c) \/ DropMissingRow(c)
    BY <2>7 DEF GiveBack, AfterGiveBack, DropMissingRow
  <2> QED
    BY <1>7, <2>1, <2>2, <2>3, <2>4, <2>5, <2>6, <2>7 DEF CompleteStep
<1>8. ASSUME NEW p \in Procs, Crash(p) PROVE Stored'
  BY <1>8 DEF Crash
<1> QED
  BY <1>1, <1>2, <1>3, <1>4, <1>5, <1>6, <1>7, <1>8 DEF Next

-----------------------------------------------------------------------------

(* The inductive invariant of the fencing.                                 *)
FenceInv ==
    /\ UploadInv /\ LockHeld /\ WriterOwns /\ Published
    /\ OneFilePerSession /\ NoLateParts

(* Nothing is claimed, locked or published at the start.                   *)
LEMMA FenceInit == Init => FenceInv
<1> SUFFICES ASSUME Init PROVE FenceInv
  OBVIOUS
<1>1. UploadInv
  BY UploadInit
<1>2. LockHeld /\ WriterOwns /\ Published /\ NoLateParts
  BY Facts DEF Init, LockHeld, Critical, WriterOwns, Published, NoLateParts
<1>3. OneFilePerSession
  BY DEF Init, OneFilePerSession
<1> QED
  BY <1>1, <1>2, <1>3 DEF FenceInv

(* Every step keeps all of it.                                             *)
LEMMA FenceStep == FenceInv /\ [Next]_vars => FenceInv'
  BY UploadStep, LockStep, OwnerStep, PublishedStep, OneFileStep,
     NoLatePartsStep DEF FenceInv, UploadInv

(* It holds throughout.                                                    *)
LEMMA FenceHolds == Spec => []FenceInv
  BY FenceInit, FenceStep, PTL DEF Spec

(* A completed session has one file of its own, and no other session has   *)
(* one, whatever zombies, retries and lost acknowledgements do.            *)
THEOREM UploadOneFilePerSession == Spec => []OneFilePerSession
<1>1. FenceInv => OneFilePerSession
  BY DEF FenceInv
<1> QED
  BY <1>1, FenceHolds, PTL

(* No part enters the set that an owner of the session has read.           *)
THEOREM UploadNoLateParts == Spec => []NoLateParts
<1>1. FenceInv => NoLateParts
  BY DEF FenceInv
<1> QED
  BY <1>1, FenceHolds, PTL

(* A commit that got the User row finds the account active, the session    *)
(* its own, and the reservation there and within the plan.                 *)
THEOREM UploadCommitCannotFail == Spec => []CommitCannotFail
<1>1. FenceInv => CommitCannotFail
  <2> SUFFICES ASSUME FenceInv, NEW c \in Completers, pc[c] = "write"
               PROVE  Owns(c) /\ Chargeable(Size[sess[c]])
    BY DEF CommitCannotFail
  <2>1. account = "ACTIVE" /\ Owns(c)
    BY DEF FenceInv, WriterOwns
  <2>2. sess[c] \in Sessions
    BY Facts DEF FenceInv, UploadInv, TypeInv, Known
  <2>3. Size[sess[c]] <= reserved
    BY <2>1, <2>2, HeldBytes DEF FenceInv, UploadInv, Owns, Open, OpenStatus
  <2>4. used + reserved <= limit
    BY DEF FenceInv, UploadInv, LP!LedgerInv, LP!WithinLimit
  <2>5. Size[sess[c]] \in Nat /\ reserved \in Nat
    BY <2>2, Facts DEF FenceInv, UploadInv, TypeInv, TypeOK, UserTypes
  <2> QED
    BY <2>1, <2>3, <2>4, <2>5 DEF Chargeable
<1> QED
  BY <1>1, FenceHolds, PTL

(* Only its own request ends a completion whose lease is in the future.    *)
THEOREM UploadLiveCompletionIsKept == Spec => LiveCompletionIsKept
<1>1. FenceInv /\ [Next]_vars => LiveStep
  BY LiveKept DEF FenceInv, UploadInv
<1> QED
  BY <1>1, FenceHolds, PTL DEF Spec, LiveCompletionIsKept, LiveStep

(* A suspended account gains nothing, requests in flight included.         *)
THEOREM UploadSuspendedGainsNothing == Spec => SuspendedGainsNothing
<1>1. FenceInv /\ [Next]_vars => SuspendedStep
  BY SuspendedGains DEF FenceInv, UploadInv
<1> QED
  BY <1>1, FenceHolds, PTL DEF Spec, SuspendedGainsNothing, SuspendedStep

(* A file row names an object that is there with all its parts, as long as *)
(* no acknowledgement of a commit is lost.                                 *)
THEOREM UploadFilesHaveBytes == AckMayBeLost = FALSE /\ Spec => []FilesHaveBytes
<1> SUFFICES ASSUME AckMayBeLost = FALSE PROVE Spec => []FilesHaveBytes
  OBVIOUS
<1>1. Init => Stored
  BY Facts DEF Init, Stored
<1>2. UploadInv /\ Stored /\ [Next]_vars => Stored'
  BY StoredStep DEF UploadInv
<1>3. FenceInv => UploadInv
  BY DEF FenceInv
<1>4. UploadInv /\ Stored => FilesHaveBytes
  BY DEF UploadInv, TypeInv, TypeOK, StoreTypes, Stored, FilesHaveBytes
<1> QED
  BY <1>1, <1>2, <1>3, <1>4, FenceHolds, PTL DEF Spec

-----------------------------------------------------------------------------

(* The chunk of a writer is named by some part row.                        *)
InRows(w) == \E s \in Sessions, n \in PartNumbers : rows[s][n] = w

(* A writer that is not done is named by no row and works on a session     *)
(* that exists; a session that does not exist has no parts; a chunk to be  *)
(* inserted is in storage.                                                 *)
PartsSettled ==
    /\ \A w \in Writers : InRows(w) => pc[w] = "done"
    /\ \A w \in Writers : pc[w] \in {"repair", "stream", "insert", "discard"} =>
          status[sess[w]] # "NONE"
    /\ \A s \in Sessions, n \in PartNumbers :
          status[s] = "NONE" => rows[s][n] = None
    /\ \A w \in Writers : pc[w] = "insert" /\ Open(sess[w]) =>
          w \in chunks[sess[w]] \cup Fragile

(* The inductive invariant of the parts.                                   *)
PartsInv == PartsSettled /\ OpenPartsHaveBytes

(* A step that touches no writer, adds no row, and removes chunks of       *)
(* sessions that are not open, or fragile ones, only.                      *)
QuietParts ==
    /\ \A w \in Writers : pc'[w] = pc[w] /\ sess'[w] = sess[w]
    /\ \A s \in Sessions, n \in PartNumbers : rows'[s][n] \in {None, rows[s][n]}
    /\ \A s \in Sessions : status'[s] = "NONE" <=> status[s] = "NONE"
    /\ \A s \in Sessions :
          Open(s)' => Open(s) /\ chunks[s] \subseteq chunks'[s] \cup Fragile

(* Such a step keeps it.                                                   *)
LEMMA QuietKeeps ==
    ASSUME TypeInv, PartsInv, QuietParts
    PROVE  PartsInv'
<1>1. \A w \in Writers : pc[w] \notin {"idle", "done"} => sess[w] \in Sessions
  BY Facts DEF TypeInv, Known
<1>2. PartsSettled'
  BY <1>1, Facts DEF PartsInv, PartsSettled, QuietParts, InRows
<1>3. OpenPartsHaveBytes'
  BY DEF PartsInv, OpenPartsHaveBytes, QuietParts
<1> QED
  BY <1>2, <1>3 DEF PartsInv

(* All steps are such, but those of writers and the creation of a session. *)
LEMMA QuietSteps ==
    ASSUME TypeInv, [Next]_vars, AckMayBeLost = FALSE,
           ~\E s \in Sessions : CreateSession(s),
           ~\E w \in Writers : PutStep(w) \/ Crash(w)
    PROVE  QuietParts
<1> USE Facts DEF TypeInv, TypeOK, RowTypes, PartTypes, Settle, QuietParts, Open,
      OpenStatus, userVars, rowVars, partVars, storeVars, procVars
<1>1. CASE UNCHANGED vars
  BY <1>1 DEF vars
<1>2. CASE AccountStep
  BY <1>2 DEF AccountStep, Suspend, Reactivate, OthersMove, SwitchPlan
<1>3. ASSUME NEW s \in Sessions, SessionStep(s) PROVE QuietParts
  <2>1. ASSUME NEW st \in {"ABORTED", "EXPIRED"}, Release(s, st)
        PROVE  QuietParts
    BY <2>1 DEF Release, MayRelease
  <2>2. CASE PurgeChunks(s)
    BY <2>2 DEF PurgeChunks, MayPurge, Finished, Terminal
  <2>3. CASE LeaseLapses(s) \/ SessionExpires(s)
    BY <2>3 DEF LeaseLapses, SessionExpires
  <2>4. ASSUME NEW w \in Writers, LoseChunk(s, w) PROVE QuietParts
    BY <2>4 DEF LoseChunk
  <2> QED
    BY <1>3, <2>1, <2>2, <2>3, <2>4
    DEF SessionStep, AbortSession, ExpireSession, SweepChunks
<1>4. ASSUME NEW w \in Sweepers, NEW s \in Sessions, SweepPick(w, s)
      PROVE  QuietParts
  BY <1>4 DEF SweepPick, ProcTypes
<1>5. /\ \A p \in Completers \cup Sweepers :
            Finish(p) \/ AfterRecovery(p) \/ (\E l \in Labels : Goto(p, l))
              => \A w \in Writers : pc'[w] = pc[w] /\ sess'[w] = sess[w]
      /\ \A p \in Procs : pc[p] \notin {"idle", "done"} => sess[p] \in Sessions
  BY DEF Finish, AfterRecovery, Goto, ProcTypes, Known
<1>6. ASSUME NEW p \in Completers \cup Sweepers, RecoverStep(p)
      PROVE  QuietParts
  <2>1. CASE RecoverRead(p)
    <3>1. \A w \in Writers : pc'[w] = pc[w] /\ sess'[w] = sess[w]
      BY <1>5, <2>1 DEF RecoverRead, ProcTypes
    <3> QED
      BY <2>1, <3>1 DEF RecoverRead
  <2>2. CASE RecoverRevert(p)
    BY <1>5, <2>2 DEF RecoverRevert, StillStale, Stale
  <2>3. CASE RecoverExpire(p)
    BY <1>5, <2>3 DEF RecoverExpire, StillStale, Stale
  <2> QED
    BY <1>6, <2>1, <2>2, <2>3 DEF RecoverStep
<1>7. ASSUME NEW c \in Completers, CompleteStep(c) PROVE QuietParts
  <2>1. \A w \in Writers : pc'[w] = pc[w] /\ sess'[w] = sess[w]
    <3>1. CASE Finish(c) \/ \E l \in Labels : Goto(c, l)
      BY <1>5, <3>1
    <3>2. CASE \E s \in Sessions : CompleteLoad(c, s)
      BY <3>2 DEF CompleteLoad, ProcTypes
    <3>3. CASE ReadFrozen(c) \/ AssembleMissing(c)
      BY <3>3 DEF ReadFrozen, AssembleMissing, ProcTypes
    <3>4. CASE UNCHANGED procVars
      BY <3>4
    <3> QED
      BY <1>7, <3>1, <3>2, <3>3, <3>4
      DEF CompleteStep, CompleteReload, Claim, Heartbeat, AssemblePart,
          AssembleAbort, CommitLock, CommitWrite, AfterCommit, Undo, GiveBack,
          AfterGiveBack, DropMissingRow, Labels
  <2>2. CASE Claim(c)
    BY <1>5, <2>1, <2>2 DEF Claim, AcceptsParts
  <2>3. CASE CommitWrite(c)
    BY <1>5, <2>1, <2>3 DEF CommitWrite, Owns
  <2>4. CASE GiveBack(c)
    BY <1>5, <2>1, <2>4 DEF GiveBack, Owns
  <2>5. CASE DropMissingRow(c)
    BY <1>5, <2>1, <2>5 DEF DropMissingRow
  <2>6. CASE ~Claim(c) /\ ~CommitWrite(c) /\ ~GiveBack(c) /\ ~DropMissingRow(c)
    BY <1>7, <2>1, <2>6
    DEF CompleteStep, CompleteLoad, CompleteReload, ReadFrozen, Heartbeat,
        AssemblePart, AssembleMissing, AssembleAbort, CommitLock, Undo
  <2> QED
    BY <2>2, <2>3, <2>4, <2>5, <2>6
<1>8. ASSUME NEW p \in Completers \cup Sweepers, Crash(p) PROVE QuietParts
  BY <1>5, <1>8 DEF Crash
<1> QED
  BY <1>1, <1>2, <1>3, <1>4, <1>6, <1>7, <1>8 DEF Next

(* A new session has no parts.                                             *)
LEMMA CreateKeeps ==
    ASSUME TypeInv, PartsInv, NEW s \in Sessions, CreateSession(s),
           AckMayBeLost = FALSE
    PROVE  PartsInv'
<1>1. /\ \A w \in Writers : pc[w] \notin {"idle", "done"} => sess[w] \in Sessions
      /\ \A t \in Sessions \ {s} : status'[t] = status[t]
      /\ status[s] = "NONE" /\ status'[s] = "UPLOADING"
      /\ UNCHANGED <<rows, chunks, pc, sess>>
  BY Facts
  DEF CreateSession, storeVars, procVars, TypeInv, TypeOK, RowTypes, Known
<1>2. PartsSettled'
  BY <1>1 DEF PartsInv, PartsSettled, InRows, Open, OpenStatus
<1>3. OpenPartsHaveBytes'
  BY <1>1 DEF PartsInv, PartsSettled, OpenPartsHaveBytes, Open, OpenStatus
<1> QED
  BY <1>2, <1>3 DEF PartsInv

(* What the step of a writer does to rows, chunks and itself, as far as    *)
(* the invariant can tell.                                                 *)
WriterMoves(w) ==
    /\ UNCHANGED status
    /\ \A v \in Writers \ {w} : pc'[v] = pc[v] /\ sess'[v] = sess[v]
    /\ \A t \in Sessions, n \in PartNumbers :
          \/ rows'[t][n] \in {None, rows[t][n]}
          \/ /\ rows'[t][n] = w /\ pc'[w] = "done" /\ status[t] # "NONE"
             /\ w \in chunks'[t] \cup Fragile
    /\ \A t \in Sessions :
          \/ chunks[t] \subseteq chunks'[t]
          \/ ~InRows(w) /\ rows' = rows /\ pc'[w] = "done"
             /\ chunks[t] \subseteq chunks'[t] \cup {w}
    /\ \/ pc'[w] = "done"
       \/ /\ pc[w] \in {"repair", "stream", "insert"} /\ sess'[w] = sess[w]
          /\ pc'[w] \in {"stream", "insert", "discard"}
          /\ rows'= rows \/ pc'[w] = "stream"
          /\ pc'[w] = "insert" => w \in chunks'[sess[w]]

(* Such a step keeps it too.                                               *)
LEMMA MovesKeep ==
    ASSUME TypeInv, PartsInv, NEW w \in Writers, WriterMoves(w)
    PROVE  PartsInv'
<1>1. \A v \in Writers : pc[v] \notin {"idle", "done"} => sess[v] \in Sessions
  BY Facts DEF TypeInv, Known
<1>2. w # None
  BY Facts
<1>3. ASSUME NEW v \in Writers, InRows(v)' PROVE pc'[v] = "done"
  <2>1. PICK t \in Sessions, n \in PartNumbers : rows'[t][n] = v
    BY <1>3 DEF InRows
  <2>2. CASE rows[t][n] = v
    <3>1. pc[v] = "done"
      BY <2>2 DEF PartsInv, PartsSettled, InRows
    <3> QED
      BY <3>1 DEF WriterMoves
  <2>3. CASE rows[t][n] # v
    BY <1>2, <2>1, <2>3, Facts DEF WriterMoves
  <2> QED
    BY <2>2, <2>3
<1>4. ASSUME NEW v \in Writers, pc'[v] \in {"repair", "stream", "insert", "discard"}
      PROVE  status'[sess'[v]] # "NONE"
  BY <1>4 DEF PartsInv, PartsSettled, WriterMoves
<1>5. ASSUME NEW s \in Sessions, NEW n \in PartNumbers, status'[s] = "NONE"
      PROVE  rows'[s][n] = None
  BY <1>5 DEF PartsInv, PartsSettled, WriterMoves
<1>6. ASSUME NEW v \in Writers, pc'[v] = "insert", Open(sess[v])'
      PROVE  v \in chunks'[sess'[v]] \cup Fragile
  <2>1. CASE v = w
    BY <1>6, <2>1 DEF WriterMoves
  <2>2. CASE v # w
    <3>1. pc[v] = "insert" /\ sess'[v] = sess[v] /\ sess[v] \in Sessions
      BY <1>1, <1>6, <2>2 DEF WriterMoves
    <3>2. v \in chunks[sess[v]] \cup Fragile
      BY <1>6, <3>1 DEF PartsInv, PartsSettled, WriterMoves, Open
    <3> QED
      BY <2>2, <3>1, <3>2 DEF WriterMoves
  <2> QED
    BY <2>1, <2>2
<1>7. OpenPartsHaveBytes'
  BY <1>2 DEF PartsInv, WriterMoves, OpenPartsHaveBytes, Open, InRows
<1>8. PartsSettled'
  BY <1>3, <1>4, <1>5, <1>6 DEF PartsSettled
<1> QED
  BY <1>7, <1>8 DEF PartsInv

(* What one rewritten part row looks like afterwards.                      *)
LEMMA RowChanged ==
    ASSUME PartTypes, NEW u \in Sessions, NEW i \in PartNumbers, NEW x,
           rows' = [rows EXCEPT ![u][i] = x]
    PROVE  \A t \in Sessions, m \in PartNumbers :
              rows'[t][m] = IF t = u /\ m = i THEN x ELSE rows[t][m]
<1>1. /\ rows'[u] = [rows[u] EXCEPT ![i] = x]
      /\ \A t \in Sessions \ {u} : rows'[t] = rows[t]
  BY DEF PartTypes
<1>2. rows[u] \in [PartNumbers -> Names]
  BY DEF PartTypes
<1> QED
  BY <1>1, <1>2

(* Every step of a writer, its death included, is such a step.             *)
LEMMA WriterKeeps ==
    ASSUME AckMayBeLost = FALSE, TypeInv, PartsInv,
           NEW w \in Writers, PutStep(w) \/ Crash(w)
    PROVE  PartsInv'
<1> USE Facts DEF userVars, rowVars, partVars, storeVars, procVars
<1>1. /\ pc[w] \notin {"idle", "done"} => sess[w] \in Sessions
      /\ part[w] \in PartNumbers
      /\ Finish(w) => pc'[w] = "done"
      /\ \A l \in Labels : Goto(w, l) => pc'[w] = l /\ sess'[w] = sess[w]
      /\ Finish(w) \/ (\E l \in Labels : Goto(w, l)) =>
            \A v \in Writers \ {w} : pc'[v] = pc[v] /\ sess'[v] = sess[v]
      /\ {"stream", "insert", "discard"} \subseteq Labels
  BY DEF TypeInv, TypeOK, Known, ProcTypes, Finish, Goto, Labels
<1>p. PartTypes
  BY DEF TypeInv, TypeOK
<1>2. ASSUME NEW t \in Sessions, NEW n \in PartNumbers, PutStart(w, t, n)
      PROVE  PartsInv'
  BY <1>2
  DEF PutStart, AcceptsParts, TypeInv, TypeOK, ProcTypes, Known, PartsInv,
      PartsSettled, OpenPartsHaveBytes, InRows, Open, OpenStatus
<1>3. CASE PutRepair(w)
  <2>1. \A t \in Sessions, n \in PartNumbers : rows'[t][n] \in {None, rows[t][n]}
    <3>1. sess[w] \in Sessions
      BY <1>1, <1>3 DEF PutRepair
    <3>2. CASE rows' = [rows EXCEPT ![sess[w]][part[w]] = None]
      BY <1>1, <1>p, <3>1, <3>2, RowChanged
    <3>3. CASE rows' = rows
      BY <3>3
    <3> QED
      BY <1>3, <3>2, <3>3 DEF PutRepair
  <2>2. WriterMoves(w)
    BY <1>1, <1>3, <2>1 DEF PutRepair, WriterMoves
  <2> QED
    BY <2>2, MovesKeep
<1>4. CASE PutStream(w)
  <2>1. /\ \A t \in Sessions : chunks[t] \subseteq chunks'[t]
        /\ UNCHANGED <<status, rows>>
        /\ \/ pc'[w] = "done"
           \/ pc'[w] = "insert" /\ sess'[w] = sess[w] /\ w \in chunks'[sess[w]]
    BY <1>1, <1>p, <1>4 DEF PutStream, PartTypes
  <2>2. WriterMoves(w)
    BY <1>1, <1>4, <2>1 DEF PutStream, WriterMoves
  <2> QED
    BY <2>2, MovesKeep
<1>5. CASE PutInsert(w)
  <2>1. CASE ~InsertAdmits(w)
    BY <1>1, <1>5, <2>1, MovesKeep DEF PutInsert, WriterMoves
  <2>2. CASE InsertAdmits(w)
    <3>1. w \in chunks[sess[w]] \cup Fragile
      BY <1>5, <2>2
      DEF PutInsert, InsertAdmits, AcceptsParts, PartsInv, PartsSettled, Open,
          OpenStatus
    <3> QED
      <4>1. /\ \A t \in Sessions, n \in PartNumbers :
                  \/ rows'[t][n] = rows[t][n]
                  \/ rows'[t][n] = w /\ t = sess[w]
            /\ UNCHANGED <<status, chunks>> /\ status[sess[w]] = "UPLOADING"
            /\ pc'[w] = "done"
        <5>1. /\ sess[w] \in Sessions
              /\ rows' = [rows EXCEPT ![sess[w]][part[w]] = w]
              /\ UNCHANGED <<status, chunks>> /\ status[sess[w]] = "UPLOADING"
              /\ pc'[w] = "done"
          BY <1>1, <1>5, <2>2 DEF PutInsert, InsertAdmits, AcceptsParts
        <5> QED
          BY <1>1, <1>p, <5>1, RowChanged
      <4>2. WriterMoves(w)
        BY <1>1, <1>5, <2>2, <3>1, <4>1 DEF PutInsert, WriterMoves
      <4> QED
        BY <4>2, MovesKeep
  <2> QED
    BY <2>1, <2>2
<1>6. CASE PutDiscard(w)
  BY <1>1, <1>p, <1>6, MovesKeep
  DEF PutDiscard, WriterMoves, PartTypes, PartsInv, PartsSettled
<1>7. CASE Crash(w)
  BY <1>1, <1>7, MovesKeep DEF Crash, WriterMoves
<1> QED
  BY <1>2, <1>3, <1>4, <1>5, <1>6, <1>7 DEF PutStep

LEMMA PartsInit == Init => UploadInv /\ PartsInv
<1>1. Init => PartsInv
  BY Facts
  DEF Init, PartsInv, PartsSettled, OpenPartsHaveBytes, InRows, Open,
      OpenStatus, NoParts
<1> QED
  BY <1>1, UploadInit

LEMMA PartsStep ==
    ASSUME AckMayBeLost = FALSE
    PROVE  UploadInv /\ PartsInv /\ [Next]_vars => UploadInv' /\ PartsInv'
  BY UploadStep, QuietSteps, QuietKeeps, CreateKeeps, WriterKeeps DEF UploadInv

(* The bytes of the parts of an open session stay in storage unless the    *)
(* storage loses them, as long as no acknowledgement is lost.              *)
THEOREM UploadOpenPartsHaveBytes ==
    AckMayBeLost = FALSE /\ Spec => []OpenPartsHaveBytes
<1> SUFFICES ASSUME AckMayBeLost = FALSE PROVE Spec => []OpenPartsHaveBytes
  OBVIOUS
<1>1. PartsInv => OpenPartsHaveBytes
  BY DEF PartsInv
<1> QED
  BY <1>1, PartsInit, PartsStep, PTL DEF Spec

-----------------------------------------------------------------------------

(* A name is not in a session's storage and will not be: its writer is     *)
(* done, and nobody else stores under that name.                           *)
Absent(x, s) == x \in Writers /\ pc[x] = "done" /\ x \notin chunks[s]

(* What is about to take a row away, by the name it saw there, knows that  *)
(* the name is absent.                                                     *)
RepairKnows(w) == pc[w] = "repair" => Absent(seen[w], sess[w])

DropKnows(c) ==
    /\ \/ seen[c] = None
       \/ pc[c] \in {"revert", "expire"}
       \/ pc[c] \in {"giveBack", "drop"} /\ Absent(seen[c], sess[c])
    /\ \A n \in PartNumbers :
          frozen[c][n] # None =>
             frozen[c][n] \in Writers /\ pc[frozen[c][n]] = "done"

MissingInv ==
    /\ \A w \in Writers : RepairKnows(w)
    /\ \A c \in Completers : DropKnows(c)

(* Only a writer that streams adds a chunk.                                *)
LEMMA ChunksShrink ==
    ASSUME TypeInv, [Next]_vars, \A w \in Writers : ~PutStream(w)
    PROVE  \A s \in Sessions : chunks'[s] \subseteq chunks[s]
<1> USE DEF TypeInv, TypeOK, PartTypes, userVars, rowVars, partVars, storeVars
<1>1. CASE AccountStep \/ UNCHANGED vars
  BY <1>1
  DEF AccountStep, Suspend, Reactivate, OthersMove, SwitchPlan, vars
<1>2. ASSUME NEW s \in Sessions, SessionStep(s)
      PROVE  \A t \in Sessions : chunks'[t] \subseteq chunks[t]
  BY <1>2
  DEF SessionStep, CreateSession, AbortSession, ExpireSession, Release,
      PurgeChunks, SweepChunks, LeaseLapses, SessionExpires, LoseChunk
<1>3. ASSUME NEW w \in Writers, PutStep(w)
      PROVE  \A t \in Sessions : chunks'[t] \subseteq chunks[t]
  BY <1>3 DEF PutStep, PutStart, PutRepair, PutInsert, PutDiscard
<1>4. ASSUME NEW c \in Completers, CompleteStep(c) PROVE chunks' = chunks
  BY <1>4
  DEF CompleteStep, CompleteLoad, CompleteReload, Claim, ReadFrozen, Heartbeat,
      AssemblePart, AssembleMissing, AssembleAbort, CommitLock, CommitWrite,
      Undo, GiveBack, DropMissingRow
<1>5. ASSUME NEW p \in Completers \cup Sweepers, RecoverStep(p)
      PROVE  chunks' = chunks
  BY <1>5 DEF RecoverStep, RecoverRead, RecoverRevert, RecoverExpire
<1>6. ASSUME NEW p \in Procs, Crash(p) \/ \E s \in Sessions : SweepPick(p, s)
      PROVE  chunks' = chunks
  BY <1>6 DEF Crash, SweepPick
<1> QED
  BY <1>1, <1>2, <1>3, <1>4, <1>5, <1>6 DEF Next, Procs

(* What is absent stays absent.                                            *)
AbsentStays == \A x \in Writers, s \in Sessions : Absent(x, s) => Absent(x, s)'

LEMMA AbsentKept ==
    ASSUME TypeInv, [Next]_vars, AckMayBeLost = FALSE
    PROVE  /\ AbsentStays
           /\ \A x \in Writers : pc[x] = "done" => pc'[x] = "done"
<1> USE Facts
<1>1. ASSUME NEW x \in Writers, pc[x] = "done" PROVE pc'[x] = "done"
  <2>1. ASSUME NEW w \in Writers, PutStep(w) \/ Crash(w)
        PROVE  w # x /\ pc'[x] = pc[x]
    <3>1. w # x
      BY <1>1, <2>1
      DEF PutStep, PutStart, PutRepair, PutStream, PutInsert, PutDiscard, Crash
    <3> QED
      BY <2>1, <3>1
      DEF PutStep, PutStart, PutRepair, PutStream, PutInsert, PutDiscard, Crash,
          Finish, Goto, TypeInv, TypeOK, ProcTypes
  <2>2. CASE \E s \in Sessions : CreateSession(s)
    BY <1>1, <2>2 DEF CreateSession, procVars
  <2> QED
    BY <1>1, <2>1, <2>2, QuietSteps DEF QuietParts
<1>2. ASSUME NEW x \in Writers, NEW s \in Sessions, Absent(x, s)
      PROVE  x \notin chunks'[s]
  <2>1. ASSUME NEW w \in Writers, PutStream(w) PROVE x \notin chunks'[s]
    BY <1>2, <2>1 DEF PutStream, Absent, TypeInv, TypeOK, PartTypes
  <2> QED
    BY <1>2, <2>1, ChunksShrink DEF Absent
<1> QED
  BY <1>1, <1>2 DEF AbsentStays, Absent

(* A process that a step leaves alone knows what it knew.                  *)
LEMMA StillKnows ==
    ASSUME TypeInv, MissingInv, [Next]_vars, AckMayBeLost = FALSE
    PROVE  /\ \A w \in Writers :
                 pc'[w] = pc[w] /\ seen'[w] = seen[w] /\ sess'[w] = sess[w]
                    => RepairKnows(w)'
           /\ \A c \in Completers :
                 (/\ pc'[c] = pc[c] /\ seen'[c] = seen[c]
                  /\ sess'[c] = sess[c] /\ frozen'[c] = frozen[c])
                    => DropKnows(c)'
<1>1. \A p \in Procs : pc[p] \notin {"idle", "done"} => sess[p] \in Sessions
  BY DEF TypeInv, Known
<1>2. AbsentStays /\ \A x \in Writers : pc[x] = "done" => pc'[x] = "done"
  BY AbsentKept
<1>3. ASSUME NEW w \in Writers,
             pc'[w] = pc[w], seen'[w] = seen[w], sess'[w] = sess[w]
      PROVE  RepairKnows(w)'
  <2> SUFFICES ASSUME pc[w] = "repair" PROVE Absent(seen[w], sess[w])'
    BY <1>3 DEF RepairKnows
  <2>1. Absent(seen[w], sess[w]) /\ sess[w] \in Sessions
    BY <1>1, Facts DEF MissingInv, RepairKnows
  <2> QED
    BY <1>2, <1>3, <2>1 DEF AbsentStays, Absent
<1>4. ASSUME NEW c \in Completers
      PROVE  (/\ pc'[c] = pc[c] /\ seen'[c] = seen[c]
              /\ sess'[c] = sess[c] /\ frozen'[c] = frozen[c])
                => DropKnows(c)'
  <2> SUFFICES ASSUME pc'[c] = pc[c], seen'[c] = seen[c],
                      sess'[c] = sess[c], frozen'[c] = frozen[c]
               PROVE  DropKnows(c)'
    OBVIOUS
  <2>1. DropKnows(c)
    BY DEF MissingInv
  <2>2. pc[c] \in {"giveBack", "drop"} /\ Absent(seen[c], sess[c])
           => Absent(seen[c], sess[c])'
    BY <1>1, <1>2, Facts DEF AbsentStays, Absent
  <2> QED
    BY <1>2, <2>1, <2>2 DEF DropKnows
<1> QED
  BY <1>3, <1>4

(* Whoever is at work, the others are left alone.                          *)
Alone(p) ==
    /\ \A w \in Writers \ {p} :
          pc'[w] = pc[w] /\ seen'[w] = seen[w] /\ sess'[w] = sess[w]
    /\ \A c \in Completers \ {p} :
          /\ pc'[c] = pc[c] /\ seen'[c] = seen[c]
          /\ sess'[c] = sess[c] /\ frozen'[c] = frozen[c]

LEMMA MoveAlone ==
    ASSUME TypeInv, NEW p \in Procs
    PROVE  /\ Finish(p) => Alone(p)
           /\ \A l \in Labels : Goto(p, l) => Alone(p)
<1>1. ASSUME Finish(p) PROVE Alone(p)
  BY <1>1 DEF Alone, Finish, TypeInv, TypeOK, ProcTypes
<1>2. ASSUME NEW l \in Labels, Goto(p, l) PROVE Alone(p)
  BY <1>2 DEF Alone, Goto, TypeInv, TypeOK, ProcTypes
<1> QED
  BY <1>1, <1>2

LEMMA StepAlone ==
    ASSUME TypeInv, [Next]_vars
    PROVE  \/ \E w \in Writers : (PutStep(w) \/ Crash(w)) /\ Alone(w)
           \/ \E c \in Completers :
                 (CompleteStep(c) \/ RecoverStep(c) \/ Crash(c)) /\ Alone(c)
           \/ \E w \in Sweepers : Alone(w)
           \/ UNCHANGED procVars
<1> USE Facts DEF TypeInv, TypeOK
<1>1. ASSUME NEW w \in Writers, PutStep(w) PROVE Alone(w)
  <2>1. CASE \E s \in Sessions, n \in PartNumbers : PutStart(w, s, n)
    BY <2>1 DEF PutStart, Alone, ProcTypes
  <2> QED
    BY <1>1, <2>1, MoveAlone
    DEF PutStep, PutRepair, PutStream, PutInsert, PutDiscard, Labels
<1>2. ASSUME NEW p \in Completers \cup Sweepers, RecoverStep(p) PROVE Alone(p)
  <2>1. AfterRecovery(p) => Alone(p)
    BY MoveAlone DEF AfterRecovery, Alone, ProcTypes
  <2>2. CASE RecoverRead(p)
    BY <2>1, <2>2 DEF RecoverRead, Alone, ProcTypes
  <2> QED
    BY <1>2, <2>1, <2>2, MoveAlone DEF RecoverStep, RecoverRevert, RecoverExpire
<1>3. ASSUME NEW c \in Completers, CompleteStep(c) PROVE Alone(c)
  <2>1. CASE \/ \E s \in Sessions : CompleteLoad(c, s)
             \/ ReadFrozen(c) \/ AssembleMissing(c)
    BY <2>1 DEF CompleteLoad, ReadFrozen, AssembleMissing, Alone, ProcTypes
  <2>2. UNCHANGED procVars => Alone(c)
    BY DEF procVars, Alone
  <2> QED
    BY <1>3, <2>1, <2>2, MoveAlone
    DEF CompleteStep, CompleteReload, Claim, Heartbeat, AssemblePart,
        AssembleAbort, CommitLock, CommitWrite, AfterCommit, Undo, GiveBack,
        AfterGiveBack, DropMissingRow, Labels
<1>4. ASSUME NEW p \in Procs, Crash(p) PROVE Alone(p)
  BY <1>4, MoveAlone DEF Crash
<1>5. ASSUME NEW w \in Sweepers, NEW s \in Sessions, SweepPick(w, s)
      PROVE  Alone(w)
  BY <1>5 DEF SweepPick, Alone, ProcTypes
<1>6. CASE AccountStep \/ UNCHANGED vars
  BY <1>6
  DEF AccountStep, Suspend, Reactivate, OthersMove, SwitchPlan, vars
<1>7. ASSUME NEW s \in Sessions, SessionStep(s) PROVE UNCHANGED procVars
  BY <1>7
  DEF SessionStep, CreateSession, AbortSession, ExpireSession, Release,
      PurgeChunks, SweepChunks, LeaseLapses, SessionExpires, LoseChunk
<1> QED
  BY <1>1, <1>2, <1>3, <1>4, <1>5, <1>6, <1>7 DEF Next, Procs

LEMMA MissingStep ==
    ASSUME TypeInv, PartsInv, MissingInv, [Next]_vars, AckMayBeLost = FALSE
    PROVE  MissingInv'
<1> USE Facts
<1>1. ASSUME NEW p, Alone(p), p \notin Writers \cup Completers PROVE MissingInv'
  BY <1>1, StillKnows DEF Alone, MissingInv
<1>2. ASSUME NEW w \in Writers, PutStep(w) \/ Crash(w), Alone(w)
      PROVE  MissingInv'
  <2>1. RepairKnows(w)'
    <3>1. ASSUME NEW s \in Sessions, NEW n \in PartNumbers, PutStart(w, s, n)
          PROVE  RepairKnows(w)'
      <4>1. /\ pc'[w] = "repair" => rows[s][n] \in Writers
            /\ seen'[w] = rows[s][n] /\ sess'[w] = s
            /\ rows[s][n] \notin chunks[s] /\ UNCHANGED chunks
        BY <3>1
        DEF PutStart, TypeInv, TypeOK, PartTypes, ProcTypes, Names, partVars
      <4>2. rows[s][n] \in Writers =>
               pc[rows[s][n]] = "done" /\ pc'[rows[s][n]] = "done"
        BY AbsentKept DEF PartsInv, PartsSettled, InRows
      <4> QED
        BY <4>1, <4>2 DEF RepairKnows, Absent
    <3>2. CASE PutRepair(w) \/ PutStream(w) \/ PutInsert(w) \/ PutDiscard(w)
               \/ Crash(w)
      <4>1. pc'[w] # "repair"
        BY <3>2
        DEF PutRepair, PutStream, PutInsert, PutDiscard, Crash, Finish, Goto,
            TypeInv, TypeOK, ProcTypes
      <4> QED
        BY <4>1 DEF RepairKnows
    <3> QED
      BY <1>2, <3>1, <3>2 DEF PutStep
  <2>2. /\ \A v \in Writers \ {w} : RepairKnows(v)'
        /\ \A c \in Completers : DropKnows(c)'
    BY <1>2, StillKnows DEF Alone
  <2> QED
    BY <2>1, <2>2 DEF MissingInv
<1>3. ASSUME NEW c \in Completers, CompleteStep(c) \/ RecoverStep(c) \/ Crash(c),
             Alone(c)
      PROVE  MissingInv'
  <2>1. ASSUME Finish(c) PROVE DropKnows(c)'
    BY <2>1 DEF Finish, DropKnows, NoParts, TypeInv, TypeOK, ProcTypes
  <2>2. /\ DropKnows(c)
        /\ \A x \in Writers : pc[x] = "done" => pc'[x] = "done"
        /\ pc[c] \notin {"idle", "done"} => sess[c] \in Sessions
    BY AbsentKept DEF MissingInv, TypeInv, Known
  <2>3. ASSUME UNCHANGED frozen, seen'[c] = None PROVE DropKnows(c)'
    BY <2>2, <2>3 DEF DropKnows
  <2>4. ASSUME NEW l \in Labels, Goto(c, l),
               pc[c] \notin {"revert", "expire", "giveBack", "drop"}
        PROVE  DropKnows(c)'
    BY <2>2, <2>3, <2>4 DEF Goto, DropKnows
  <2>5. ASSUME Crash(c) PROVE DropKnows(c)'
    BY <2>1, <2>5 DEF Crash
  <2>6. ASSUME RecoverStep(c) PROVE DropKnows(c)'
    <3>1. AfterRecovery(c) => DropKnows(c)'
      BY <2>3 DEF AfterRecovery, TypeInv, TypeOK, ProcTypes
    <3>2. CASE /\ pc' = [pc EXCEPT ![c] = IF expired[sess[c]] THEN "expire" ELSE "revert"]
               /\ UNCHANGED frozen
      BY <2>2, <3>2 DEF DropKnows, TypeInv, TypeOK, ProcTypes
    <3> QED
      BY <2>1, <2>6, <3>1, <3>2
      DEF RecoverStep, RecoverRead, RecoverRevert, RecoverExpire
  <2>7. ASSUME CompleteStep(c) PROVE DropKnows(c)'
    <3>1. CASE \E s \in Sessions : CompleteLoad(c, s)
      BY <2>2, <2>3, <3>1 DEF CompleteLoad, DropKnows
    <3>2. CASE ReadFrozen(c)
      <4>1. seen'[c] = None /\ frozen'[c] = rows[sess[c]] /\ sess[c] \in Sessions
        BY <2>2, <3>2 DEF ReadFrozen, DropKnows, TypeInv, TypeOK, ProcTypes
      <4>2. \A n \in PartNumbers : rows[sess[c]][n] # None =>
               /\ rows[sess[c]][n] \in Writers
               /\ pc[rows[sess[c]][n]] = "done"
        BY <4>1 DEF PartsInv, PartsSettled, InRows, TypeInv, TypeOK, PartTypes, Names
      <4> QED
        BY <2>2, <4>1, <4>2 DEF DropKnows
    <3>3. CASE AssembleMissing(c)
      <4> DEFINE n == Appended(c)
      <4>1. /\ seen'[c] = frozen[c][n] /\ pc'[c] = "giveBack"
            /\ sess[c] \in Sessions
            /\ UNCHANGED <<frozen, sess, chunks>> /\ frozen[c][n] \notin chunks[sess[c]]
        BY <2>2, <3>3 DEF AssembleMissing, partVars, TypeInv, TypeOK, ProcTypes
      <4>2. n \in PartNumbers
        BY <3>3
        DEF AssembleMissing, Appended, TypeInv, TypeOK, StoreTypes, Assembly
      <4>3. seen'[c] = None \/ Absent(seen[c], sess[c])'
        BY <2>2, <4>1, <4>2 DEF DropKnows, Absent
      <4> QED
        BY <2>2, <4>1, <4>3 DEF DropKnows
    <3>4. CASE UNCHANGED procVars
      BY <3>4, StillKnows DEF procVars
    <3>5. CASE GiveBack(c)
      <4>1. CASE Goto(c, "drop")
        <5>1. /\ pc'[c] = "drop" /\ seen' = seen /\ sess' = sess /\ frozen' = frozen
              /\ pc[c] = "giveBack" /\ UNCHANGED chunks
          BY <3>5, <4>1 DEF GiveBack, Goto, partVars, TypeInv, TypeOK, ProcTypes
        <5> QED
          BY <2>2, <5>1 DEF DropKnows, Absent
      <4> QED
        BY <2>1, <3>5, <4>1 DEF GiveBack, AfterGiveBack
    <3>6. CASE /\ pc[c] \notin {"revert", "expire", "giveBack", "drop"}
               /\ \E l \in Labels : Goto(c, l)
      BY <2>4, <3>6
    <3> QED
      BY <2>1, <2>7, <3>1, <3>2, <3>3, <3>4, <3>5, <3>6
      DEF CompleteStep, CompleteReload, Claim, Heartbeat, AssemblePart,
          AssembleAbort, CommitLock, CommitWrite, AfterCommit, Undo,
          DropMissingRow, Labels
  <2>8. /\ \A w \in Writers : RepairKnows(w)'
        /\ \A d \in Completers \ {c} : DropKnows(d)'
    BY <1>3, StillKnows DEF Alone
  <2> QED
    BY <1>3, <2>5, <2>6, <2>7, <2>8 DEF MissingInv
<1>4. CASE UNCHANGED procVars
  BY <1>4, StillKnows DEF procVars, MissingInv
<1> QED
  BY <1>1, <1>2, <1>3, <1>4, StepAlone

(* Parts of an open session that have their bytes keep them, and their     *)
(* rows.                                                                   *)
KeepsAccepted ==
    \A s \in Sessions, n \in PartNumbers :
        Open(s) /\ Open(s)' /\ rows[s][n] \in chunks[s]
           => /\ rows'[s][n] = rows[s][n]
              /\ rows[s][n] \in chunks'[s] \cup Fragile

(* Another row than the one that is rewritten.                             *)
LEMMA OtherRows ==
    ASSUME PartTypes, NEW s \in Sessions, NEW n \in PartNumbers,
           NEW u \in Sessions, NEW i \in PartNumbers, NEW x,
           rows' = [rows EXCEPT ![u][i] = x], ~(u = s /\ i = n)
    PROVE  rows'[s][n] = rows[s][n]
  BY RowChanged

LEMMA AcceptedKept ==
    ASSUME TypeInv, PartsInv, MissingInv, [Next]_vars, AckMayBeLost = FALSE
    PROVE  KeepsAccepted
<1> SUFFICES ASSUME NEW s \in Sessions, NEW n \in PartNumbers,
                    Open(s), Open(s)', rows[s][n] \in chunks[s]
             PROVE  /\ rows'[s][n] = rows[s][n]
                    /\ rows[s][n] \in chunks'[s] \cup Fragile
  BY DEF KeepsAccepted
<1> USE Facts
<1>1. rows[s][n] \in Writers /\ pc[rows[s][n]] = "done"
  BY DEF TypeInv, TypeOK, PartTypes, PartsInv, PartsSettled, InRows
<1>2. rows[s][n] \in chunks'[s] \cup Fragile
  <2>1. CASE \E w \in Writers : PutStep(w) \/ Crash(w)
    BY <1>1, <2>1
    DEF PutStep, PutStart, PutRepair, PutStream, PutInsert, PutDiscard, Crash,
        partVars, TypeInv, TypeOK, PartTypes
  <2>2. CASE \E t \in Sessions : CreateSession(t)
    BY <2>2 DEF CreateSession
  <2> QED
    BY <2>1, <2>2, QuietSteps DEF QuietParts
<1>3. rows'[s][n] = rows[s][n]
  <2>1. ASSUME NEW w \in Writers, PutStep(w) PROVE rows'[s][n] = rows[s][n]
    <3>1. /\ pc[w] \in {"repair", "insert"} => sess[w] \in Sessions
          /\ part[w] \in PartNumbers
      BY DEF TypeInv, TypeOK, Known, ProcTypes
    <3>p. PartTypes
      BY DEF TypeInv, TypeOK
    <3>2. CASE PutRepair(w)
      <4>1. ~(sess[w] = s /\ part[w] = n /\ rows[s][n] = seen[w])
        BY <3>2 DEF PutRepair, MissingInv, RepairKnows, Absent
      <4>2. CASE rows' = rows
        BY <4>2
      <4>3. CASE /\ rows[sess[w]][part[w]] = seen[w]
                 /\ rows' = [rows EXCEPT ![sess[w]][part[w]] = None]
        <5>1. sess[w] \in Sessions
          BY <3>1, <3>2 DEF PutRepair
        <5> QED
          BY <3>1, <3>p, <4>1, <4>3, <5>1, OtherRows
      <4> QED
        BY <3>2, <4>2, <4>3 DEF PutRepair
    <3>3. CASE PutInsert(w)
      <4>1. CASE InsertAdmits(w)
        <5>1. /\ sess[w] \in Sessions /\ rows[sess[w]][part[w]] = None
              /\ rows' = [rows EXCEPT ![sess[w]][part[w]] = w]
          BY <3>1, <3>3, <4>1 DEF PutInsert, InsertAdmits
        <5>2. ~(sess[w] = s /\ part[w] = n)
          BY <1>1, <5>1
        <5> QED
          BY <3>1, <3>p, <5>1, <5>2, OtherRows
      <4> QED
        BY <3>3, <4>1 DEF PutInsert
    <3> QED
      BY <2>1, <3>2, <3>3 DEF PutStep, PutStart, PutStream, PutDiscard, partVars
  <2>2. ASSUME NEW c \in Completers, DropMissingRow(c)
        PROVE  rows'[s][n] = rows[s][n]
    <3>1. ~(sess[c] = s /\ DropsRow(c, n))
      BY <1>1, <2>2
      DEF DropMissingRow, DropsRow, MissingInv, DropKnows, Absent
    <3> QED
      BY <2>2, <3>1 DEF DropMissingRow, TypeInv, TypeOK, PartTypes
  <2>3. ASSUME NEW c \in Completers, CompleteStep(c), ~DropMissingRow(c)
        PROVE  rows' = rows
    BY <2>3
    DEF CompleteStep, CompleteLoad, CompleteReload, Claim, ReadFrozen, Heartbeat,
        AssemblePart, AssembleMissing, AssembleAbort, CommitLock, CommitWrite,
        Undo, GiveBack, partVars
  <2>4. ASSUME NEW p \in Completers \cup Sweepers, RecoverStep(p)
        PROVE  rows' = rows
    BY <2>4 DEF RecoverStep, RecoverRead, RecoverRevert, RecoverExpire, partVars
  <2>5. ASSUME NEW p \in Procs, Crash(p) \/ \E t \in Sessions : SweepPick(p, t)
        PROVE  rows' = rows
    BY <2>5 DEF Crash, SweepPick, partVars
  <2>6. CASE AccountStep \/ UNCHANGED vars
    BY <2>6
    DEF AccountStep, Suspend, Reactivate, OthersMove, SwitchPlan, vars, partVars
  <2>7. ASSUME NEW t \in Sessions, SessionStep(t) PROVE rows' = rows
    BY <2>7
    DEF SessionStep, CreateSession, AbortSession, ExpireSession, Release,
        PurgeChunks, SweepChunks, LeaseLapses, SessionExpires, LoseChunk, partVars
  <2> QED
    BY <2>1, <2>2, <2>3, <2>4, <2>5, <2>6, <2>7 DEF Next, Procs
<1> QED
  BY <1>2, <1>3

(* As long as no acknowledgement is lost, no repair, however late, takes a *)
(* part with its bytes out of an open session.                             *)
THEOREM UploadAcceptedPartsStay ==
    AckMayBeLost = FALSE /\ Spec => AcceptedPartsStay
<1> SUFFICES ASSUME AckMayBeLost = FALSE PROVE Spec => AcceptedPartsStay
  OBVIOUS
<1>1. Init => MissingInv
  BY Facts DEF Init, MissingInv, RepairKnows, DropKnows, NoParts, Procs
<1>2. UploadInv /\ PartsInv /\ MissingInv /\ [Next]_vars => MissingInv'
  BY MissingStep DEF UploadInv
<1>3. UploadInv /\ PartsInv /\ MissingInv /\ [Next]_vars => [KeepsAccepted]_vars
  BY AcceptedKept DEF UploadInv
<1> QED
  BY <1>1, <1>2, <1>3, PartsInit, PartsStep, PTL
  DEF Spec, AcceptedPartsStay, KeepsAccepted

=============================================================================
