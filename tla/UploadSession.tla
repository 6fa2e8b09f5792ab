--------------------------- MODULE UploadSession ---------------------------
(***************************************************************************)
(* Resumable uploads of one account: routes/upload.routes.js over          *)
(* lib/upload-session.js, with the quota statements of lib/quota.js.       *)
(*                                                                         *)
(* A session reserves its bytes when it is created, collects parts, is     *)
(* claimed by one completion request at a time under a lease and a token,  *)
(* and ends COMPLETED, ABORTED or EXPIRED.  Requests, the sweepers of the  *)
(* replicas, suspensions and plan changes interleave at every await; any   *)
(* process may die there.                                                  *)
(*                                                                         *)
(* One action is one statement or one transaction.  Two transactions read, *)
(* then write with a decision in between (the commit, the recovery of a    *)
(* stale completion): each is two actions, and userLock is the User row    *)
(* they keep locked meanwhile.  Statements that do not take that lock (the *)
(* heartbeat, the claim, the relinquish) may run in between.               *)
(*                                                                         *)
(* A request is named by its process, and so are the objects it stores: a  *)
(* chunk by the writer that streamed it, a final object and a completion   *)
(* token by the completion request that made them (all are fresh UUIDs).   *)
(***************************************************************************)
EXTENDS Integers, FiniteSets

CONSTANTS
    Sessions,       \* upload sessions the client may create
    Completers,     \* POST /upload-sessions/:id/complete requests
    Writers,        \* PUT /upload-sessions/:id/parts/:n requests
    Sweepers,       \* replicas running cleanupUploadSessions
    PartCount,      \* parts of a session
    Others,         \* the account's one-shot uploads and their files
    Size,           \* Size[s]: expectedSize of session s, bytes of other s
    Limits,         \* storageLimit of the plans of the catalogue
    Fragile,        \* writers whose chunk the storage may lose
    AckMayBeLost,   \* whether a commit may apply and yet report an error
    SweepBatch,     \* finished sessions one sweep looks at (take: 100)
    Rank,           \* the order in which the database scans the sessions
    None            \* no process, no session

Procs == Completers \cup Writers \cup Sweepers
PartNumbers == 0 .. (PartCount - 1)

ASSUME UploadAssumption ==
    /\ IsFiniteSet(Sessions) /\ IsFiniteSet(Others)
    /\ Sessions \cap Others = {}
    /\ Size \in [Sessions \cup Others -> Nat \ {0}]
    /\ Limits \subseteq Nat
    /\ PartCount \in Nat \ {0}
    /\ Fragile \subseteq Writers
    /\ AckMayBeLost \in BOOLEAN
    /\ SweepBatch \in Nat
    /\ Rank \in [Sessions -> Nat]
    /\ None \notin Procs \cup Sessions
    /\ Completers \cap Writers = {}
    /\ (Completers \cup Writers) \cap Sweepers = {}

VARIABLES
    account,    \* User.status
    limit,      \* storageLimit of the user's plan
    reserved,   \* User.reservedUploadBytes
    used,       \* User.storageUsed
    userLock,   \* the process whose transaction holds the User row
    other,      \* how far each of Others is in the life of its bytes
    status,     \* UploadSession.status; "NONE" before the row exists
    token,      \* UploadSession.completionToken
    lease,      \* completionLeaseUntil: none, in the future, in the past
    expired,    \* expiresAt is in the past
    fileId,     \* UploadSession.fileId
    rows,       \* UploadPart: rows[s][n] is the storedName of part n
    chunks,     \* chunk objects in the session's directory
    purged,     \* the session's chunk directory has been removed
    files,      \* ACTIVE File rows, by storedName
    written,    \* parts in the final object of a completer; Gone if none
    pc,         \* where each process is
    sess,       \* the session it works on
    part,       \* the part number a writer stores
    seen,       \* the name or token it read and will compare with
    frozen      \* the part set a completer read after its claim

userVars == <<account, limit, reserved, used, userLock, other>>
rowVars == <<status, token, lease, expired, fileId>>
partVars == <<rows, chunks, purged>>
storeVars == <<files, written>>
procVars == <<pc, sess, part, seen, frozen>>
vars == <<userVars, rowVars, partVars, storeVars, procVars>>

OpenStatus == {"UPLOADING", "COMPLETING"}
Terminal == {"COMPLETED", "ABORTED", "EXPIRED"}
Statuses == {"NONE"} \cup OpenStatus \cup Terminal

Open(s) == status[s] \in OpenStatus

(* What a part row can name, and the part set of a new session.            *)
Names == Writers \cup {None}
NoParts == [n \in PartNumbers |-> None]
Gone == -1

Labels == {"idle", "stream", "repair", "insert", "discard",
           "recover", "revert", "expire", "reload",
           "claim", "freeze", "assemble", "commit", "write",
           "undo", "giveBack", "drop", "done"}
Init ==
    /\ account = "ACTIVE"
    /\ limit \in Limits
    /\ reserved = 0
    /\ used = 0
    /\ userLock = None
    /\ other = [o \in Others |-> "none"]
    /\ status = [s \in Sessions |-> "NONE"]
    /\ token = [s \in Sessions |-> None]
    /\ lease = [s \in Sessions |-> "none"]
    /\ expired = [s \in Sessions |-> FALSE]
    /\ fileId = [s \in Sessions |-> None]
    /\ rows = [s \in Sessions |-> NoParts]
    /\ chunks = [s \in Sessions |-> {}]
    /\ purged = [s \in Sessions |-> FALSE]
    /\ files = {}
    /\ written = [c \in Completers |-> Gone]
    /\ pc = [p \in Procs |-> "idle"]
    /\ sess = [p \in Procs |-> None]
    /\ part = [w \in Writers |-> 0]
    /\ seen = [p \in Procs |-> None]
    /\ frozen = [c \in Completers |-> NoParts]

-----------------------------------------------------------------------------
(* Helpers.                                                                *)

(* A statement on the User row waits while another transaction locks it.   *)
LockFree == userLock = None

Goto(p, l) ==
    /\ pc' = [pc EXCEPT ![p] = l]
    /\ UNCHANGED <<sess, part, seen, frozen>>

(* The process answers its request (a sweeper: its candidate) and keeps    *)
(* nothing.                                                                *)
Finish(p) ==
    /\ pc' = [pc EXCEPT ![p] = IF p \in Sweepers THEN "idle" ELSE "done"]
    /\ sess' = [sess EXCEPT ![p] = None]
    /\ seen' = [seen EXCEPT ![p] = None]
    /\ part' = [w \in Writers |-> IF w = p THEN 0 ELSE part[w]]
    /\ frozen' = [c \in Completers |-> IF c = p THEN NoParts ELSE frozen[c]]

(* reservedUploadBytes after GREATEST(reserved - bytes, 0).                *)
Released(b) == IF reserved >= b THEN reserved - b ELSE 0

(* Fault: the admission test forgets what open sessions hold.              *)
FitsForgettingReserved(b, l) == used + b <= l

Fits(b, l) == used + reserved + b <= l

AllParts(parts) == \A n \in PartNumbers : parts[n] # None

(* The fence: the session is COMPLETING under this request's token.        *)
Owns(c) == status[sess[c]] = "COMPLETING" /\ token[sess[c]] = c

(* A release finds the row as it was loaded: UPLOADING.                    *)
MayRelease(s) == status[s] = "UPLOADING"

(* Parts and claims are admitted while the session is open for writes.     *)
AcceptsParts(s) == status[s] = "UPLOADING" /\ ~expired[s]

Stale(s) == status[s] = "COMPLETING" /\ lease[s] = "lapsed"

(* Fault: the lease read at the start of the transaction is trusted.       *)
StaleWhenRead(p) == status[sess[p]] = "COMPLETING" /\ token[sess[p]] = seen[p]

(* The compare-and-set of a recovery: same token, lease still lapsed.      *)
StillStale(p) == Stale(sess[p]) /\ token[sess[p]] = seen[p]

(* The row leaves COMPLETING or UPLOADING for st, its token and lease      *)
(* cleared.                                                                *)
Settle(s, st) ==
    /\ status' = [status EXCEPT ![s] = st]
    /\ token' = [token EXCEPT ![s] = None]
    /\ lease' = [lease EXCEPT ![s] = "none"]

-----------------------------------------------------------------------------
(* The account, moved by other requests.                                   *)

Suspend ==
    /\ LockFree /\ account = "ACTIVE"
    /\ account' = "SUSPENDED"
    /\ UNCHANGED <<limit, reserved, used, userLock, other,
                   rowVars, partVars, storeVars, procVars>>

Reactivate ==
    /\ LockFree /\ account = "SUSPENDED"
    /\ account' = "ACTIVE"
    /\ UNCHANGED <<limit, reserved, used, userLock, other,
                   rowVars, partVars, storeVars, procVars>>

(* Fault: a plan is tested against what is used only.                      *)
PlanHoldsUsed(l) == used <= l

PlanHolds(l) == Fits(0, l)

(* A subscription moves an ACTIVE account, a billing downgrade any account;*)
(* both only to a plan that holds what is used and reserved.               *)
SwitchPlan(l) ==
    /\ LockFree
    /\ PlanHolds(l)
    /\ limit' = l
    /\ UNCHANGED <<account, reserved, used, userLock, other,
                   rowVars, partVars, storeVars, procVars>>

(* One-shot uploads and deletions move the same counters, as the ledger    *)
(* allows.                                                                 *)
Rest == INSTANCE QuotaLedger WITH Items <- Others, phase <- other

OthersMove ==
    /\ LockFree
    /\ \E o \in Others :
          \/ /\ account = "ACTIVE"
             /\ Rest!Hold(o) \/ Rest!Charge(o) \/ Rest!ChargeDirectly(o)
          \/ Rest!Return(o) \/ Rest!Refund(o)
    /\ UNCHANGED <<account, userLock, rowVars, partVars, storeVars, procVars>>

-----------------------------------------------------------------------------
(* Creating, aborting and expiring a session.                              *)

(* The session's directory is made first.  A request whose commit seems to *)
(* fail removes it again, though the session may be there.                 *)
CreateSession(s) ==
    /\ status[s] = "NONE"
    /\ LockFree /\ account = "ACTIVE"
    /\ Fits(Size[s], limit)
    /\ reserved' = reserved + Size[s]
    /\ status' = [status EXCEPT ![s] = "UPLOADING"]
    /\ \E gone \in {FALSE, AckMayBeLost} : purged' = [purged EXCEPT ![s] = gone]
    /\ UNCHANGED <<account, limit, used, userLock, other, token, lease, expired,
                   fileId, rows, chunks, storeVars, procVars>>

(* Fault: the bytes are given back whether or not the row was still        *)
(* UPLOADING.                                                              *)
ReleaseAlways(s, st) ==
    /\ LockFree
    /\ status[s] # "NONE"
    /\ Settle(s, IF MayRelease(s) THEN st ELSE status[s])
    /\ reserved' = reserved - Size[s]
    /\ UNCHANGED <<account, limit, used, userLock, other, expired, fileId,
                   partVars, storeVars, procVars>>

(* releaseSession: the row leaves UPLOADING for st and its bytes return.   *)
Release(s, st) ==
    /\ LockFree
    /\ MayRelease(s)
    /\ Settle(s, st)
    /\ reserved' = Released(Size[s])
    /\ UNCHANGED <<account, limit, used, userLock, other, expired, fileId,
                   partVars, storeVars, procVars>>

AbortSession(s) == Release(s, "ABORTED")

(* Any request that loads an expired session, or the sweep.                *)
ExpireSession(s) == expired[s] /\ Release(s, "EXPIRED")

Finished(s) == status[s] \in Terminal

MayPurge(s) == Finished(s)

(* The chunk directory of a finished session is removed by the request     *)
(* that finished it, unless it died first ...                              *)
PurgeChunks(s) ==
    /\ MayPurge(s) /\ ~purged[s]
    /\ purged' = [purged EXCEPT ![s] = TRUE]
    /\ chunks' = [chunks EXCEPT ![s] = {}]
    /\ UNCHANGED <<userVars, rowVars, rows, storeVars, procVars>>

(* Fault: the sweep leaves expired sessions to the request that met them.  *)
SweptUnlessExpired(s) == status[s] \in {"COMPLETED", "ABORTED"}

(* ... and by every later sweep whose query returns the session.  The query*)
(* has a limit and no order, and nothing records that a directory is gone: *)
(* the sessions scanned first come back each time.                         *)
Swept(s) ==
    /\ Finished(s)
    /\ Cardinality({t \in Sessions : Finished(t) /\ Rank[t] < Rank[s]})
           < SweepBatch

SweepChunks(s) == Swept(s) /\ PurgeChunks(s)

-----------------------------------------------------------------------------
(* PUT .../parts/:n.                                                       *)

(* The request is admitted, and finds no row for the part, or a row whose  *)
(* object is gone: the row is then deleted by a statement that takes its   *)
(* snapshot of the session here, or later.                                 *)
PutStart(w, s, n) ==
    /\ pc[w] = "idle"
    /\ AcceptsParts(s)
    /\ rows[s][n] \notin chunks[s]
    /\ pc' = [pc EXCEPT ![w] = IF rows[s][n] = None THEN "stream" ELSE "repair"]
    /\ sess' = [sess EXCEPT ![w] = s]
    /\ part' = [part EXCEPT ![w] = n]
    /\ seen' = [seen EXCEPT ![w] = rows[s][n]]
    /\ UNCHANGED <<userVars, rowVars, partVars, storeVars, frozen>>

PutRepair(w) ==
    LET s == sess[w]
    IN  /\ pc[w] = "repair"
        /\ \/ /\ rows[s][part[w]] = seen[w]
              /\ rows' = [rows EXCEPT ![s][part[w]] = None]
              /\ Goto(w, "stream")
           \/ /\ rows[s][part[w]] # seen[w] \/ status[s] # "UPLOADING"
              /\ Finish(w)
              /\ UNCHANGED rows
        /\ UNCHANGED <<userVars, rowVars, chunks, purged, storeVars>>

(* The body reaches the session's directory; a body that fails, or whose   *)
(* size or checksum is wrong, leaves nothing.                              *)
PutStream(w) ==
    /\ pc[w] = "stream"
    /\ \/ /\ ~purged[sess[w]]
          /\ chunks' = [chunks EXCEPT ![sess[w]] = @ \cup {w}]
          /\ Goto(w, "insert")
       \/ Finish(w) /\ UNCHANGED chunks
    /\ UNCHANGED <<userVars, rowVars, rows, purged, storeVars>>

(* Fault: the session is not read again under its lock.                    *)
InsertUnfenced(w) ==
    account = "ACTIVE" /\ rows[sess[w]][part[w]] = None

(* Fault: the account is not read again under its lock.                    *)
InsertForAnyone(w) ==
    AcceptsParts(sess[w]) /\ rows[sess[w]][part[w]] = None

(* insertPartIfOpen admits the part: the account is ACTIVE, the session    *)
(* still accepts parts, and no other row has the part's number.            *)
InsertAdmits(w) ==
    /\ account = "ACTIVE"
    /\ AcceptsParts(sess[w])
    /\ rows[sess[w]][part[w]] = None

(* Any error, the loss of the acknowledgement included, deletes the bytes. *)
PutInsert(w) ==
    /\ pc[w] = "insert"
    /\ LockFree
    /\ \/ /\ InsertAdmits(w)
          /\ rows' = [rows EXCEPT ![sess[w]][part[w]] = w]
          /\ Finish(w) \/ (AckMayBeLost /\ Goto(w, "discard"))
       \/ /\ ~InsertAdmits(w)
          /\ Goto(w, "discard")
          /\ UNCHANGED rows
    /\ UNCHANGED <<userVars, rowVars, chunks, purged, storeVars>>

(* A rejected part's bytes are deleted.                                    *)
PutDiscard(w) ==
    /\ pc[w] = "discard"
    /\ chunks' = [chunks EXCEPT ![sess[w]] = @ \ {w}]
    /\ Finish(w)
    /\ UNCHANGED <<userVars, rowVars, rows, purged, storeVars>>

-----------------------------------------------------------------------------
(* Recovery of a stale completion, by a sweeper or by a completion request *)
(* that finds the lease of the previous completer lapsed.                  *)

(* Fault: only completions that can be resumed are recovered.              *)
SweepPickUnexpired(w, s) ==
    /\ pc[w] = "idle"
    /\ Stale(s) /\ ~expired[s]
    /\ pc' = [pc EXCEPT ![w] = "recover"]
    /\ sess' = [sess EXCEPT ![w] = s]
    /\ UNCHANGED <<userVars, rowVars, partVars, storeVars, part, seen, frozen>>

SweepPick(w, s) ==
    /\ pc[w] = "idle"
    /\ Stale(s)
    /\ pc' = [pc EXCEPT ![w] = "recover"]
    /\ sess' = [sess EXCEPT ![w] = s]
    /\ UNCHANGED <<userVars, rowVars, partVars, storeVars, part, seen, frozen>>

(* What follows a recovery that did not expire the session: a completion   *)
(* request loads it again, a sweeper takes its next candidate.             *)
AfterRecovery(p) ==
    IF p \in Completers
    THEN /\ pc' = [pc EXCEPT ![p] = "reload"]
         /\ seen' = [seen EXCEPT ![p] = None]
         /\ UNCHANGED <<sess, part, frozen>>
    ELSE Finish(p)

(* The transaction locks the user, reads the row and decides.              *)
RecoverRead(p) ==
    LET s == sess[p]
    IN  /\ pc[p] = "recover"
        /\ LockFree
        /\ \/ /\ Stale(s)
              /\ userLock' = p
              /\ pc' = [pc EXCEPT ![p] = IF expired[s] THEN "expire" ELSE "revert"]
              /\ seen' = [seen EXCEPT ![p] = token[s]]
              /\ UNCHANGED <<sess, part, frozen>>
           \/ /\ ~Stale(s)
              /\ AfterRecovery(p)
              /\ UNCHANGED userLock
        /\ UNCHANGED <<account, limit, reserved, used, other,
                       rowVars, partVars, storeVars>>

RecoverRevert(p) ==
    /\ pc[p] = "revert"
    /\ \/ StillStale(p) /\ Settle(sess[p], "UPLOADING")
       \/ ~StillStale(p) /\ UNCHANGED <<status, token, lease>>
    /\ userLock' = None
    /\ AfterRecovery(p)
    /\ UNCHANGED <<account, limit, reserved, used, other, expired, fileId,
                   partVars, storeVars>>

RecoverExpire(p) ==
    /\ pc[p] = "expire"
    /\ \/ /\ StillStale(p)
          /\ Settle(sess[p], "EXPIRED")
          /\ reserved' = Released(Size[sess[p]])
          /\ Finish(p)
       \/ /\ ~StillStale(p)
          /\ AfterRecovery(p)
          /\ UNCHANGED <<status, token, lease, reserved>>
    /\ userLock' = None
    /\ UNCHANGED <<account, limit, used, other, expired, fileId,
                   partVars, storeVars>>

-----------------------------------------------------------------------------
(* POST .../complete.                                                      *)

MayClaim(s) == AcceptsParts(s) /\ AllParts(rows[s])

(* The request loads the session and goes on, to recover a stale           *)
(* completion or to claim the session.  A request that only answers (409,  *)
(* 410, the replay of a completed upload) changes nothing.                 *)
CompleteLoad(c, s) ==
    /\ pc[c] = "idle"
    /\ \/ Stale(s) /\ pc' = [pc EXCEPT ![c] = "recover"]
       \/ MayClaim(s) /\ pc' = [pc EXCEPT ![c] = "claim"]
    /\ sess' = [sess EXCEPT ![c] = s]
    /\ UNCHANGED <<userVars, rowVars, partVars, storeVars, part, seen, frozen>>

CompleteReload(c) ==
    /\ pc[c] = "reload"
    /\ \/ MayClaim(sess[c]) /\ Goto(c, "claim")
       \/ ~MayClaim(sess[c]) /\ Finish(c)
    /\ UNCHANGED <<userVars, rowVars, partVars, storeVars>>

(* claimCompletion: a compare-and-set on UPLOADING and unexpired.          *)
Claim(c) ==
    LET s == sess[c]
    IN  /\ pc[c] = "claim"
        /\ \/ /\ AcceptsParts(s)
              /\ status' = [status EXCEPT ![s] = "COMPLETING"]
              /\ token' = [token EXCEPT ![s] = c]
              /\ lease' = [lease EXCEPT ![s] = "live"]
              /\ Goto(c, "freeze")
           \/ /\ ~AcceptsParts(s)
              /\ Finish(c)
              /\ UNCHANGED <<status, token, lease>>
        /\ UNCHANGED <<userVars, expired, fileId, partVars, storeVars>>

(* The part set is read again now that no part can be added.               *)
ReadFrozen(c) ==
    LET s == sess[c]
    IN  /\ pc[c] = "freeze"
        /\ pc' = [pc EXCEPT ![c] =
                     IF AllParts(rows[s]) THEN "assemble" ELSE "giveBack"]
        /\ frozen' = [frozen EXCEPT ![c] = rows[s]]
        /\ UNCHANGED <<userVars, rowVars, partVars, storeVars, sess, part, seen>>

(* While its request assembles and commits, the heartbeat renews the       *)
(* lease: renewCompletionLease does not touch the User row.                *)
Heartbeat(c) ==
    /\ pc[c] \in {"assemble", "commit", "write"}
    /\ Owns(c)
    /\ lease[sess[c]] = "lapsed"
    /\ lease' = [lease EXCEPT ![sess[c]] = "live"]
    /\ UNCHANGED <<userVars, status, token, expired, fileId,
                   partVars, storeVars, procVars>>

(* The first part creates the final object.                                *)
Appended(c) == IF written[c] = Gone THEN 0 ELSE written[c]

(* One part is appended.  After the last one the object either is what     *)
(* the client announced, or its size or checksum differ and it is deleted. *)
AssemblePart(c) ==
    LET n == Appended(c)
    IN  /\ pc[c] = "assemble"
        /\ frozen[c][n] \in chunks[sess[c]]
        /\ written' = [written EXCEPT ![c] = n + 1]
        /\ \/ n + 1 < PartCount /\ UNCHANGED procVars
           \/ n + 1 = PartCount /\ (Goto(c, "commit") \/ Goto(c, "undo"))
        /\ UNCHANGED <<userVars, rowVars, partVars, files>>

(* The object of the next part is missing: what was written is removed and *)
(* the row of that part is deleted after the session is given back.        *)
AssembleMissing(c) ==
    LET n == Appended(c)
    IN  /\ pc[c] = "assemble"
        /\ frozen[c][n] \notin chunks[sess[c]]
        /\ written' = [written EXCEPT ![c] = Gone]
        /\ pc' = [pc EXCEPT ![c] = "giveBack"]
        /\ seen' = [seen EXCEPT ![c] = frozen[c][n]]
        /\ UNCHANGED <<userVars, rowVars, partVars, files, sess, part, frozen>>

(* The server shuts down, or the storage fails.                            *)
AssembleAbort(c) ==
    /\ pc[c] = "assemble"
    /\ written' = [written EXCEPT ![c] = Gone]
    /\ Goto(c, "giveBack")
    /\ UNCHANGED <<userVars, rowVars, partVars, files>>

(* The commit locks the user, requires an ACTIVE account and ownership of  *)
(* the session; otherwise it is over before it wrote anything.             *)
CommitLock(c) ==
    /\ pc[c] = "commit"
    /\ LockFree
    /\ \/ /\ account = "ACTIVE" /\ Owns(c)
          /\ userLock' = c
          /\ Goto(c, "write")
       \/ /\ ~(account = "ACTIVE" /\ Owns(c))
          /\ Goto(c, "undo")
          /\ UNCHANGED userLock
    /\ UNCHANGED <<account, limit, reserved, used, other,
                   rowVars, partVars, storeVars>>

(* commitUploadReservation finds the reservation and room in the plan.     *)
Chargeable(b) ==
    account = "ACTIVE" /\ reserved >= b /\ used + reserved <= limit

(* Fault: the object is deleted on every way out of the commit.            *)
AfterCommitCleansUp(c) == Goto(c, "undo")

(* The request has published its object; if the acknowledgement of the     *)
(* commit is lost, it takes it for a failure.                              *)
AfterCommit(c) == Finish(c) \/ (AckMayBeLost /\ Goto(c, "undo"))

(* The commit writes: reserved bytes become used, the File row appears,    *)
(* the session is COMPLETED.  Or a check or the database fails, and all of *)
(* it is undone.  (A conflict that is retried is a commit that started     *)
(* later.)                                                                 *)
CommitWrite(c) ==
    LET s == sess[c]
    IN  /\ pc[c] = "write"
        /\ userLock' = None
        /\ \/ /\ Chargeable(Size[s]) /\ Owns(c) /\ fileId[s] = None
              /\ reserved' = reserved - Size[s]
              /\ used' = used + Size[s]
              /\ files' = files \cup {c}
              /\ fileId' = [fileId EXCEPT ![s] = c]
              /\ Settle(s, "COMPLETED")
              /\ AfterCommit(c)
           \/ /\ Goto(c, "undo")
              /\ UNCHANGED <<reserved, used, files, fileId, status, token, lease>>
        /\ UNCHANGED <<account, limit, other, expired, partVars, written>>

(* The final object is deleted, then the session is given back.            *)
Undo(c) ==
    /\ pc[c] = "undo"
    /\ written' = [written EXCEPT ![c] = Gone]
    /\ Goto(c, "giveBack")
    /\ UNCHANGED <<userVars, rowVars, partVars, files>>

AfterGiveBack(c) == IF seen[c] = None THEN Finish(c) ELSE Goto(c, "drop")

(* Fault: the session is given back without the fence.                     *)
GiveBackUnfenced(c) ==
    /\ pc[c] = "giveBack"
    /\ Settle(sess[c], "UPLOADING")
    /\ AfterGiveBack(c)
    /\ UNCHANGED <<userVars, expired, fileId, partVars, storeVars>>

(* relinquishCompletion, fenced on the token; its failure is ignored.      *)
GiveBack(c) ==
    /\ pc[c] = "giveBack"
    /\ \/ Owns(c) /\ Settle(sess[c], "UPLOADING")
       \/ UNCHANGED <<status, token, lease>>
    /\ AfterGiveBack(c)
    /\ UNCHANGED <<userVars, expired, fileId, partVars, storeVars>>

(* Fault: the row of the part's number goes, whatever it names by now.     *)
DropsNumber(c, n) == seen[c] # None /\ frozen[c][n] = seen[c]

(* Only the row that names the missing object goes.                        *)
DropsRow(c, n) == rows[sess[c]][n] = seen[c] /\ frozen[c][n] = seen[c]

DropMissingRow(c) ==
    /\ pc[c] = "drop"
    /\ rows' = [rows EXCEPT ![sess[c]] =
                   [n \in PartNumbers |-> IF DropsRow(c, n) THEN None ELSE @[n]]]
    /\ Finish(c)
    /\ UNCHANGED <<userVars, rowVars, chunks, purged, storeVars>>

-----------------------------------------------------------------------------
(* Time, storage and crashes.                                              *)

LeaseLapses(s) ==
    /\ lease[s] = "live"
    /\ lease' = [lease EXCEPT ![s] = "lapsed"]
    /\ UNCHANGED <<userVars, status, token, expired, fileId,
                   partVars, storeVars, procVars>>

SessionExpires(s) ==
    /\ Open(s) /\ ~expired[s]
    /\ expired' = [expired EXCEPT ![s] = TRUE]
    /\ UNCHANGED <<userVars, status, token, lease, fileId,
                   partVars, storeVars, procVars>>

LoseChunk(s, w) ==
    /\ w \in chunks[s] \cap Fragile
    /\ chunks' = [chunks EXCEPT ![s] = @ \ {w}]
    /\ UNCHANGED <<userVars, rowVars, rows, purged, storeVars, procVars>>

(* A process dies; the database rolls its transaction back.                *)
Crash(p) ==
    /\ pc[p] \notin {"idle", "done"}
    /\ Finish(p)
    /\ userLock' = IF userLock = p THEN None ELSE userLock
    /\ UNCHANGED <<account, limit, reserved, used, other,
                   rowVars, partVars, storeVars>>

-----------------------------------------------------------------------------

AccountStep ==
    Suspend \/ Reactivate \/ OthersMove \/ \E l \in Limits : SwitchPlan(l)

SessionStep(s) ==
    \/ CreateSession(s) \/ AbortSession(s) \/ ExpireSession(s)
    \/ PurgeChunks(s) \/ SweepChunks(s) \/ LeaseLapses(s) \/ SessionExpires(s)
    \/ \E w \in Writers : LoseChunk(s, w)

PutStep(w) ==
    \/ \E s \in Sessions, n \in PartNumbers : PutStart(w, s, n)
    \/ PutRepair(w) \/ PutStream(w) \/ PutInsert(w) \/ PutDiscard(w)

RecoverStep(p) == RecoverRead(p) \/ RecoverRevert(p) \/ RecoverExpire(p)

CompleteStep(c) ==
    \/ \E s \in Sessions : CompleteLoad(c, s)
    \/ CompleteReload(c) \/ Claim(c) \/ ReadFrozen(c) \/ Heartbeat(c)
    \/ AssemblePart(c) \/ AssembleMissing(c) \/ AssembleAbort(c)
    \/ CommitLock(c) \/ CommitWrite(c) \/ Undo(c) \/ GiveBack(c)
    \/ DropMissingRow(c)

Next ==
    \/ AccountStep
    \/ \E s \in Sessions : SessionStep(s)
    \/ \E w \in Writers : PutStep(w)
    \/ \E c \in Completers : CompleteStep(c)
    \/ \E w \in Sweepers, s \in Sessions : SweepPick(w, s)
    \/ \E p \in Completers \cup Sweepers : RecoverStep(p)
    \/ \E p \in Procs : Crash(p)

Spec == Init /\ [][Next]_vars

(* What a completion request does on its own, without waiting for a lock.  *)
Progress(c) ==
    \/ CompleteReload(c) \/ Claim(c) \/ ReadFrozen(c)
    \/ RecoverRevert(c) \/ RecoverExpire(c)
    \/ AssemblePart(c) \/ AssembleMissing(c) \/ AssembleAbort(c)
    \/ CommitWrite(c) \/ Undo(c) \/ GiveBack(c)

(* What the scheduling justifies.  Time passes: leases lapse, sessions     *)
(* expire.  A request that does not die takes its next step.  A sweep runs *)
(* every five minutes on every replica: it may die, not at the same step   *)
(* every time.  Waiting for the User row is first come, first served, so a *)
(* transaction that waits again and again is let in.                       *)
Fairness ==
    /\ \A s \in Sessions :
          /\ WF_vars(LeaseLapses(s)) /\ WF_vars(SessionExpires(s))
          /\ WF_vars(SweepChunks(s)) /\ SF_vars(ExpireSession(s))
    /\ \A w \in Sweepers :
          /\ WF_vars(\E s \in Sessions : SweepPick(w, s))
          /\ SF_vars(RecoverRead(w))
          /\ SF_vars(RecoverRevert(w) \/ RecoverExpire(w))
    /\ \A c \in Completers : WF_vars(Progress(c)) /\ SF_vars(CommitLock(c))

FairSpec == Spec /\ Fairness

-----------------------------------------------------------------------------
(* Properties.                                                             *)

(* Every row, counter, lock and program counter stays in its type: the     *)
(* counters of the account never become negative, a lock is held by a      *)
(* request or a sweeper, and a request appends no part the session has not.*)
UserTypes ==
    /\ account \in {"ACTIVE", "SUSPENDED"}
    /\ limit \in Limits
    /\ reserved \in Nat
    /\ used \in Nat
    /\ userLock \in Completers \cup Sweepers \cup {None}
    /\ other \in [Others -> Rest!Phases]

RowTypes ==
    /\ status \in [Sessions -> Statuses]
    /\ token \in [Sessions -> Completers \cup {None}]
    /\ lease \in [Sessions -> {"none", "live", "lapsed"}]
    /\ expired \in [Sessions -> BOOLEAN]
    /\ fileId \in [Sessions -> Completers \cup {None}]

PartTypes ==
    /\ rows \in [Sessions -> [PartNumbers -> Names]]
    /\ chunks \in [Sessions -> SUBSET Writers]
    /\ purged \in [Sessions -> BOOLEAN]

StoreTypes ==
    /\ files \in SUBSET Completers
    /\ written \in [Completers -> {Gone} \cup 0 .. PartCount]

ProcTypes ==
    /\ pc \in [Procs -> Labels]
    /\ sess \in [Procs -> Sessions \cup {None}]
    /\ part \in [Writers -> PartNumbers]
    /\ seen \in [Procs -> Completers \cup Writers \cup {None}]
    /\ frozen \in [Completers -> [PartNumbers -> Names]]

TypeOK == UserTypes /\ RowTypes /\ PartTypes /\ StoreTypes /\ ProcTypes

(* A session as the ledger sees it.                                        *)
PhaseOf(s) ==
    CASE status[s] = "NONE" -> "none"
      [] Open(s) -> "held"
      [] status[s] = "COMPLETED" -> "charged"
      [] status[s] \in {"ABORTED", "EXPIRED"} -> "returned"

Phase(i) == IF i \in Sessions THEN PhaseOf(i) ELSE other[i]

Ledger == INSTANCE QuotaLedger WITH
    Items <- Sessions \cup Others,
    phase <- [i \in Sessions \cup Others |-> Phase(i)]

(* Every step of every handler, sweep, crash and retry moves the counters  *)
(* of the account as the ledger allows: the bytes of a session are held    *)
(* once, and then charged once or returned once.                           *)
KeepsLedger == Ledger!Spec

(* reservedUploadBytes is exactly the bytes of the open sessions and       *)
(* storageUsed those of the completed ones.                                *)
CountersExact == Ledger!CountersExact

(* Sessions and files correspond: a COMPLETED session has one file, of its *)
(* own, and no other session has one, whatever zombies and retries did.    *)
OneFilePerSession ==
    /\ \A s \in Sessions : status[s] = "COMPLETED" <=> fileId[s] # None
    /\ files = {fileId[s] : s \in {t \in Sessions : status[t] = "COMPLETED"}}
    /\ \A s, t \in Sessions : fileId[s] # None /\ fileId[s] = fileId[t] => s = t

(* A file row names an object that is in storage with all its parts.       *)
FilesHaveBytes == \A c \in files : written[c] = PartCount

(* A commit that got the User row cannot fail any more: the account is     *)
(* active, the session its own, the reservation still there and within the *)
(* plan, so UPLOAD_RESERVATION_INVALID never reaches a client.             *)
CommitCannotFail ==
    \A c \in Completers : pc[c] = "write" => Owns(c) /\ Chargeable(Size[sess[c]])

(* While a completer owns the session, no part appears or changes under    *)
(* the set it read.                                                        *)
NoLateParts ==
    \A c \in Completers :
        pc[c] \in {"assemble", "commit", "write"} /\ Owns(c) =>
            \A n \in PartNumbers : rows[sess[c]][n] \in {None, frozen[c][n]}

(* The bytes of the parts of an open session stay in storage, unless the   *)
(* storage itself loses them.                                              *)
OpenPartsHaveBytes ==
    \A s \in Sessions : Open(s) =>
        \A n \in PartNumbers :
            rows[s][n] # None => rows[s][n] \in chunks[s] \cup Fragile

(* A part that was accepted and whose bytes are in storage stays in its    *)
(* open session, row and bytes: the repairs of missing parts, by requests  *)
(* that store a part and by completions, take away only what is missing,   *)
(* however late they come.  (If commits report errors that they did not    *)
(* have, a part that was accepted is discarded: AckMayBeLost.)             *)
AcceptedPartsStay ==
    [][\A s \in Sessions, n \in PartNumbers :
          Open(s) /\ Open(s)' /\ rows[s][n] \in chunks[s]
             => /\ rows'[s][n] = rows[s][n]
                /\ rows[s][n] \in chunks'[s] \cup Fragile]_vars

(* A completion whose lease is in the future is ended by its own request   *)
(* only: a heartbeat always wins against a recovery that had seen the      *)
(* lease lapsed.                                                           *)
LiveCompletionIsKept ==
    [][\A s \in Sessions :
          status[s] = "COMPLETING" /\ lease[s] = "live" /\ status'[s] # "COMPLETING"
              => pc[token[s]] \in {"write", "giveBack"}]_vars

(* A suspended account gains nothing, from requests that were already in   *)
(* flight included: no session, part, file, reserved or used byte.         *)
SuspendedGainsNothing ==
    [][account = "SUSPENDED" =>
          /\ files' = files
          /\ used' <= used /\ reserved' <= reserved
          /\ \A s \in Sessions :
                /\ Open(s)' => Open(s)
                /\ \A n \in PartNumbers : rows'[s][n] \in {None, rows[s][n]}]_vars

(* Bytes are not reserved for ever: whatever requests die, every session   *)
(* that reserved bytes ends, and gives them back or becomes a file.        *)
NothingHeldForever == \A s \in Sessions : Open(s) ~> Finished(s)

(* The chunks of a finished session are removed, by the request that       *)
(* finished it or, after a crash, by the sweep of finished sessions.       *)
ChunksRemoved == \A s \in Sessions : Finished(s) ~> chunks[s] = {}

=============================================================================
