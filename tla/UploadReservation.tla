------------------------- MODULE UploadReservation -------------------------
(***************************************************************************)
(* One-shot uploads of one account: POST /files/upload over                *)
(* lib/upload-reservation.js, and the deletion of the files they become.   *)
(*                                                                         *)
(* An upload that declares its size reserves the bytes in a durable row    *)
(* before it reads the body.  A heartbeat renews the row's lease; the      *)
(* commit, the request's own cleanup and the sweepers of all replicas      *)
(* compete to move the row out of PENDING.  An upload that declares        *)
(* nothing is admitted when it commits.                                    *)
(*                                                                         *)
(* One action is one transaction or one statement: every transaction here  *)
(* locks the User row and makes its decision after that.  A request is     *)
(* named by its upload, and so are its row, object and file.               *)
(***************************************************************************)
EXTENDS Integers, FiniteSets

CONSTANTS
    Uploads,        \* the requests
    Declared,       \* those that carry x-upload-size
    Others,         \* the account's upload sessions and their files
    Size,           \* Size[u]: the bytes of upload u, or of other u
    Limits,         \* storageLimit of the plans of the catalogue
    Unsure,         \* requests whose transactions may apply unacknowledged
    Sweepers        \* replicas running reconcileExpiredReservations

ASSUME ReservationAssumption ==
    /\ IsFiniteSet(Uploads) /\ IsFiniteSet(Others)
    /\ Uploads \cap Others = {}
    /\ Declared \subseteq Uploads
    /\ Unsure \subseteq Uploads
    /\ Size \in [Uploads \cup Others -> Nat \ {0}]
    /\ Limits \subseteq Nat

VARIABLES
    account,    \* User.status
    limit,      \* storageLimit of the user's plan
    reserved,   \* User.reservedUploadBytes
    used,       \* User.storageUsed
    other,      \* how far each of Others is in the life of its bytes
    state,      \* UploadReservation.state; "NONE" before the row exists
    lease,      \* leaseUntil: none, in the future, in the past
    file,       \* status of the File row; "NONE" before it exists
    stored,     \* uploads whose complete object is in storage
    pc,         \* where each request is
    listed,     \* ids a sweeper has read and has not tried yet
    stale       \* rows whose leaseUntil is before the sweeper's cutoff

quotaVars == <<account, limit, reserved, used, other>>
sweepVars == <<listed, stale>>
vars == <<quotaVars, state, lease, file, stored, pc, sweepVars>>

States == {"NONE", "PENDING", "COMMITTED", "RELEASED"}

(* The heartbeat runs from the reservation to the release; a renewal that  *)
(* has been sent may still land while the release runs.                    *)
Beating == {"stream", "commit", "discard", "release"}
Labels == {"idle", "done"} \cup Beating

Init ==
    /\ account = "ACTIVE"
    /\ limit \in Limits
    /\ reserved = 0
    /\ used = 0
    /\ other = [o \in Others |-> "none"]
    /\ state = [u \in Uploads |-> "NONE"]
    /\ lease = [u \in Uploads |-> "none"]
    /\ file = [u \in Uploads |-> "NONE"]
    /\ stored = {}
    /\ pc = [u \in Uploads |-> "idle"]
    /\ listed = [w \in Sweepers |-> {}]
    /\ stale = [w \in Sweepers |-> {}]

-----------------------------------------------------------------------------
(* Helpers.                                                                *)

Goto(u, l) == pc' = [pc EXCEPT ![u] = l]

(* Fault: the admission test forgets what other uploads hold.              *)
FitsForgettingReserved(b) == used + b <= limit

Fits(b) == used + reserved + b <= limit

(* Counters after GREATEST(counter - bytes, 0).                            *)
Less(counter, b) == IF counter >= b THEN counter - b ELSE 0

(* The predicate of commitUploadReservation.                               *)
Convertible(u) == reserved >= Size[u] /\ used + reserved <= limit

(* Fault: the commit trusts the account it read before the body.           *)
AdmittedThen(u) ==
    IF u \in Declared
    THEN state[u] = "PENDING" /\ Convertible(u)
    ELSE Fits(Size[u])

(* What the commit needs once it holds the User row.                       *)
Admitted(u) == account = "ACTIVE" /\ AdmittedThen(u)

(* Where cleanup ends: a request that holds no reservation has none to     *)
(* give back.                                                              *)
AfterDiscard(u) == IF u \in Declared THEN "release" ELSE "done"

(* The row is released and its bytes return, if it is still PENDING.       *)
ReleaseRow(u) ==
    /\ state[u] = "PENDING"
    /\ state' = [state EXCEPT ![u] = "RELEASED"]
    /\ reserved' = Less(reserved, Size[u])
    /\ UNCHANGED <<account, limit, used, other>>

-----------------------------------------------------------------------------
(* The account, moved by other requests.                                   *)

Suspend ==
    /\ account = "ACTIVE"
    /\ account' = "SUSPENDED"
    /\ UNCHANGED <<limit, reserved, used, other, state, lease, file, stored, pc,
                   sweepVars>>

Reactivate ==
    /\ account = "SUSPENDED"
    /\ account' = "ACTIVE"
    /\ UNCHANGED <<limit, reserved, used, other, state, lease, file, stored, pc,
                   sweepVars>>

SwitchPlan(l) ==
    /\ used + reserved <= l
    /\ limit' = l
    /\ UNCHANGED <<account, reserved, used, other, state, lease, file, stored, pc,
                   sweepVars>>

(* Upload sessions and deletions move the same counters, as the ledger     *)
(* allows.                                                                 *)
Rest == INSTANCE QuotaLedger WITH Items <- Others, phase <- other

OthersMove ==
    /\ \E o \in Others :
          \/ account = "ACTIVE" /\ (Rest!Hold(o) \/ Rest!Charge(o))
          \/ Rest!Return(o) \/ Rest!Refund(o)
    /\ UNCHANGED <<account, state, lease, file, stored, pc, sweepVars>>

-----------------------------------------------------------------------------
(* The request.                                                            *)

(* createReservation: the row and the counter move together.  A request    *)
(* that does not learn of it fails, and nobody renews the lease.           *)
Reserve(u) ==
    /\ pc[u] = "idle" /\ u \in Declared
    /\ account = "ACTIVE"
    /\ Fits(Size[u])
    /\ reserved' = reserved + Size[u]
    /\ state' = [state EXCEPT ![u] = "PENDING"]
    /\ lease' = [lease EXCEPT ![u] = "live"]
    /\ Goto(u, "stream") \/ (u \in Unsure /\ Goto(u, "done"))
    /\ UNCHANGED <<account, limit, used, other, file, stored, sweepVars>>

(* Without x-upload-size nothing is held across the stream.                *)
StartUndeclared(u) ==
    /\ pc[u] = "idle" /\ u \notin Declared
    /\ Goto(u, "stream")
    /\ UNCHANGED <<quotaVars, state, lease, file, stored, sweepVars>>

(* Fault: nothing stops the heartbeat of a request that failed.            *)
RenewUnstopped(u) ==
    /\ pc[u] # "idle"
    /\ state[u] = "PENDING"
    /\ lease' = [lease EXCEPT ![u] = "live"]
    /\ stale' = [w \in Sweepers |-> stale[w] \ {u}]
    /\ UNCHANGED <<quotaVars, state, file, stored, pc, listed>>

Renew(u) ==
    /\ pc[u] \in Beating
    /\ state[u] = "PENDING"
    /\ lease' = [lease EXCEPT ![u] = "live"]
    /\ stale' = [w \in Sweepers |-> stale[w] \ {u}]
    /\ UNCHANGED <<quotaVars, state, file, stored, pc, listed>>

(* Fault: a body that stopped early is committed like a whole one.         *)
StreamUnchecked(u) ==
    /\ pc[u] = "stream"
    /\ stored' \in {stored, stored \cup {u}}
    /\ Goto(u, "commit")
    /\ UNCHANGED <<quotaVars, state, lease, file, sweepVars>>

(* The body reaches storage; or it fails, is cut off, has another length   *)
(* than declared or is not there at all, and what was stored is removed.   *)
Stream(u) ==
    /\ pc[u] = "stream"
    /\ \/ stored' = stored \cup {u} /\ Goto(u, "commit")
       \/ Goto(u, AfterDiscard(u)) /\ UNCHANGED stored
    /\ UNCHANGED <<quotaVars, state, lease, file, sweepVars>>

(* The bytes are charged: converted from the reservation, or admitted now. *)
Charge(u) ==
    /\ used' = used + Size[u]
    /\ IF u \in Declared
       THEN /\ state' = [state EXCEPT ![u] = "COMMITTED"]
            /\ reserved' = reserved - Size[u]
       ELSE UNCHANGED <<state, reserved>>
    /\ UNCHANGED <<account, limit, other>>

(* One transaction: the reservation or the admission, the File row, the    *)
(* link and the audit event.                                               *)
Commit(u) ==
    /\ pc[u] = "commit"
    /\ Admitted(u)
    /\ Charge(u)
    /\ file' = [file EXCEPT ![u] = "ACTIVE"]
    /\ Goto(u, "done") \/ (u \in Unsure /\ Goto(u, "discard"))
    /\ UNCHANGED <<lease, stored, sweepVars>>

(* Any error rolls the transaction back: no admission, a conflict, an      *)
(* audit event that cannot be written.                                     *)
CommitFails(u) ==
    /\ pc[u] = "commit"
    /\ Goto(u, "discard")
    /\ UNCHANGED <<quotaVars, state, lease, file, stored, sweepVars>>

Discard(u) ==
    /\ pc[u] = "discard"
    /\ stored' = stored \ {u}
    /\ Goto(u, AfterDiscard(u))
    /\ UNCHANGED <<quotaVars, state, lease, file, sweepVars>>

(* Fault: the counter is given back whatever has become of the row.        *)
ReleaseOwnUnfenced(u) ==
    /\ pc[u] = "release"
    /\ state' = [state EXCEPT ![u] = IF @ = "PENDING" THEN "RELEASED" ELSE @]
    /\ reserved' = reserved - Size[u]
    /\ Goto(u, "done")
    /\ UNCHANGED <<account, limit, used, other, lease, file, stored, sweepVars>>

(* The request's own release; its failure is ignored, and the row is left  *)
(* to the sweepers.                                                        *)
ReleaseOwn(u) ==
    /\ pc[u] = "release"
    /\ ReleaseRow(u) \/ UNCHANGED <<quotaVars, state>>
    /\ Goto(u, "done")
    /\ UNCHANGED <<lease, file, stored, sweepVars>>

(* DELETE /files/:id, once: the refund is part of the statement that finds *)
(* the file ACTIVE.  The status of the account is not looked at.           *)
DeleteFile(u) ==
    /\ file[u] = "ACTIVE"
    /\ file' = [file EXCEPT ![u] = "DELETED"]
    /\ used' = Less(used, Size[u])
    /\ UNCHANGED <<account, limit, reserved, other, state, lease, stored, pc,
                   sweepVars>>

(* The outbox removes the bytes of a deleted file.                         *)
RemoveBytes(u) ==
    /\ file[u] = "DELETED" /\ u \in stored
    /\ stored' = stored \ {u}
    /\ UNCHANGED <<quotaVars, state, lease, file, pc, sweepVars>>

-----------------------------------------------------------------------------
(* The sweepers.                                                           *)

Lapsed == {u \in Uploads : state[u] = "PENDING" /\ lease[u] = "lapsed"}

(* The candidates are read once, with the cutoff of their release.         *)
SweepList(w) ==
    /\ listed[w] = {} /\ Lapsed # {}
    /\ listed' = [listed EXCEPT ![w] = Lapsed]
    /\ stale' = [stale EXCEPT ![w] = Lapsed]
    /\ UNCHANGED <<quotaVars, state, lease, file, stored, pc>>

(* Fault: the release trusts the list.                                     *)
SweepMayReleaseListed(w, u) == u \in listed[w]

SweepMayRelease(w, u) == u \in listed[w] /\ u \in stale[w]

Tried(w, u) == listed' = [listed EXCEPT ![w] = @ \ {u}]

SweepRelease(w, u) ==
    /\ SweepMayRelease(w, u)
    /\ ReleaseRow(u)
    /\ Tried(w, u)
    /\ UNCHANGED <<lease, file, stored, pc, stale>>

(* The row has changed since, or the transaction failed, or the sweeper    *)
(* died: the next sweep looks again.                                       *)
SweepSkip(w, u) ==
    /\ u \in listed[w]
    /\ Tried(w, u)
    /\ UNCHANGED <<quotaVars, state, lease, file, stored, pc, stale>>

-----------------------------------------------------------------------------

LeaseLapses(u) ==
    /\ lease[u] = "live"
    /\ lease' = [lease EXCEPT ![u] = "lapsed"]
    /\ UNCHANGED <<quotaVars, state, file, stored, pc, sweepVars>>

(* The process dies with the request, wherever it is.                      *)
Crash(u) ==
    /\ pc[u] \in Beating
    /\ Goto(u, "done")
    /\ UNCHANGED <<quotaVars, state, lease, file, stored, sweepVars>>

(* What the request does on its own.                                       *)
Step(u) ==
    \/ Stream(u)
    \/ Commit(u)
    \/ CommitFails(u)
    \/ Discard(u)
    \/ ReleaseOwn(u)

Next ==
    \/ Suspend \/ Reactivate \/ OthersMove
    \/ \E l \in Limits : SwitchPlan(l)
    \/ \E u \in Uploads :
          \/ Reserve(u) \/ StartUndeclared(u) \/ Step(u) \/ Renew(u)
          \/ DeleteFile(u) \/ RemoveBytes(u) \/ LeaseLapses(u) \/ Crash(u)
    \/ \E w \in Sweepers :
          \/ SweepList(w)
          \/ \E u \in Uploads : SweepRelease(w, u) \/ SweepSkip(w, u)

Spec == Init /\ [][Next]_vars

(* Time passes, a request that does not die goes on, and a sweep runs every*)
(* five minutes: it may fail, not every time.                              *)
Fairness ==
    /\ \A u \in Declared : WF_vars(Step(u)) /\ WF_vars(LeaseLapses(u))
    /\ \A w \in Sweepers :
          /\ WF_vars(SweepList(w))
          /\ \A u \in Declared :
                SF_vars(SweepRelease(w, u)) /\ WF_vars(SweepSkip(w, u))

FairSpec == Spec /\ Fairness

-----------------------------------------------------------------------------
(* Properties.                                                             *)

(* Types: the rows, the counters, the requests and what the sweepers know. *)
TypeOK ==
    /\ account \in {"ACTIVE", "SUSPENDED"}
    /\ limit \in Limits
    /\ reserved \in Nat
    /\ used \in Nat
    /\ other \in [Others -> Rest!Phases]
    /\ state \in [Uploads -> States]
    /\ lease \in [Uploads -> {"none", "live", "lapsed"}]
    /\ file \in [Uploads -> {"NONE", "ACTIVE", "DELETED"}]
    /\ stored \subseteq Uploads
    /\ pc \in [Uploads -> Labels]
    /\ listed \in [Sweepers -> SUBSET Uploads]
    /\ stale \in [Sweepers -> SUBSET Uploads]

(* An upload's bytes are held by its PENDING row, charged while its file is*)
(* ACTIVE, and returned by the release or the deletion.                    *)
PhaseOf(u) ==
    CASE file[u] = "ACTIVE" -> "charged"
      [] file[u] = "DELETED" \/ state[u] = "RELEASED" -> "returned"
      [] state[u] = "PENDING" -> "held"
      [] OTHER -> "none"

Phase(i) == IF i \in Uploads THEN PhaseOf(i) ELSE other[i]

Ledger == INSTANCE QuotaLedger WITH
    Items <- Uploads \cup Others,
    phase <- [i \in Uploads \cup Others |-> Phase(i)]

(* Uploads, their cleanup, the sweepers of all replicas and deletions move *)
(* the two counters only as the ledger allows: each upload is charged or   *)
(* returned once, whoever gets there first.                                *)
KeepsLedger == Ledger!Spec

(* A file that has not been deleted has its bytes, unless the commit may   *)
(* apply without its request learning of it: that request deletes them.    *)
FilesHaveBytes ==
    \A u \in Uploads \ Unsure : file[u] = "ACTIVE" => u \in stored

(* A sweep never releases a reservation whose lease is in the future, even *)
(* one it read as lapsed: only the upload's own cleanup does.              *)
LiveUploadIsKept ==
    [][\A u \in Uploads :
          (state[u] = "PENDING" /\ state'[u] = "RELEASED" /\ lease[u] = "live")
             => pc[u] = "release"]_vars

(* While an account is suspended no file appears, nothing is reserved and  *)
(* nothing is charged, whatever was in flight.                             *)
SuspendedGainsNothing ==
    [][account # "ACTIVE" =>
          /\ used' <= used
          /\ reserved' <= reserved
          /\ \A u \in Uploads : file[u] = "NONE" => file'[u] = "NONE"]_vars

(* A reservation does not hold bytes for ever: crashes, failed releases and*)
(* lost acknowledgements end in the commit or in one release.              *)
ReservationsEnd == \A u \in Declared : []<>(state[u] # "PENDING")

=============================================================================
