# VaultBox API: a TLA+ model

TLA+ modules, TLC configurations and TLAPS proofs kept beside the code of
`vaultbox-api`. File and line references are to the repository.

## 1. The system

VaultBox is a Fastify service over PostgreSQL, local storage and optional
Redis. Several replicas run the same code; what they share is the database and
the storage. There is no in-memory state that correctness rests on, except
the admission queues and the hashing pool of a replica. The account (`User`) row holds two
counters, `storageUsed` and `reservedUploadBytes`; most of the difficulty is
in moving them exactly once.

| Component | State | Operations | Correct when |
| --- | --- | --- | --- |
| Quota ledger (`lib/quota.js`, `lib/file-delete.js`) | the two counters, the plan | reserve, commit, release, refund, switch plan | counters equal the bytes they stand for; used + reserved fit the plan |
| Resumable sessions (`lib/upload-session.js`, `routes/upload.routes.js`) | `UploadSession`, `UploadPart`, chunks, final objects | create, PUT part, repair, claim, heartbeat, assemble, commit, give back, abort, expire, recover, sweep | one file per session, one charge or one return, frozen part set, bytes behind every row, every session ends |
| One-shot uploads (`lib/upload-reservation.js`, `routes/file.routes.js`) | `UploadReservation`, object | reserve, renew, stream, commit, release, reconcile | PENDING left once; file rows have bytes |
| File deletion (`lib/file-deletion.js`) | `FileDeletion` jobs | enqueue, claim, settle, dead-letter, requeue, prune | refunded once; bytes eventually gone or the job DEAD; a late worker changes nothing |
| Idempotency (`lib/idempotency.js`) | `IdempotencyKey`, gate queue | replay, acquire, lock, claim, execute, prune | at most once per key and lifetime (not beside the pruner, section 4); slots not lost; no owner starves another |
| Accounts (`lib/account.js`, `middleware/auth.js`, auth and admin routes) | `status`, `role`, `authVersion` | login, suspend, reactivate, delete, revoke | a token from before a change is dead after it |
| Downloads (`lib/download-session.js`, download routes) | `DownloadToken` | issue, first use, revoke | one start event; nothing issued past a revocation |
| Entitlements (`lib/entitlements.js`, plan and billing routes) | `PlanEntitlement`, `BillingEvent` | grant, revoke, switch | an event applies once; a paid plan needs an entitlement |
| Throttling (`lib/throttle.js`, `lib/bounded-ttl-map.js`) | Redis and PostgreSQL counters, hold-down | check, degrade, prune | a limit holds across replicas; not modelled |
| Password pool (`lib/password-hasher.js`) | workers, queue | submit, pump, lose a worker, close | every request answered; bounded |
| Pure arithmetic (`lib/range.js`, `lib/pagination.js`, part geometry) | none | parse | equals its definition; not modelled |
| Folders and listings (folder, user and file routes) | `Folder` | create, list, rename, remove | a retried creation happens once; removal keeps the files |
| Audit, cache, metrics, HTTP shell, configuration | | | not modelled, see section 7 |

**How they interact.** A handler runs statements and transactions against
PostgreSQL and awaits each. Transactions that create usage lock the `User` row
first and require the account to be ACTIVE; those that give resources back
lock it and do not. The heartbeat, the claim and the relinquish of a session
lock only the session row. A sweep every five minutes on every replica expires
sessions, recovers stale completions and releases lapsed reservations.

**What is hard.** Anything may happen between two awaits: a lease lapses, the
account is suspended, another replica recovers the work, the process dies. A
commit may apply and its acknowledgement be lost. Storage and database do not
commit together. A login reads the account and signs its token much later. An
event may be delivered twice, late or out of order. The full list, with lines, is "hazards" in `PROJECT.json`.

## 2. Modules

| Module | Models |
| --- | --- |
| `QuotaLedger` | abstract: what every path that moves the counters promises |
| `UploadSession` | resumable sessions; refines `QuotaLedger` |
| `UploadReservation` | one-shot uploads and the deletion of their files; refines `QuotaLedger` |
| `FileDeletion` | the outbox that removes the bytes of deleted files |
| `IdempotencyGate` | the admission gate of one process, as a value |
| `Idempotency` | idempotent requests over the gates of several replicas |
| `PasswordHasher` | the pool of hashing workers, as a value |
| `AccountSessions` | one account: logins over that pool, changes, requests, download sessions |
| `Entitlements` | the plan of one user under billing events |
| `MC...` | the instances of each for TLC |
| `QuotaLedgerProofs` | the ledger's safety |
| `UploadSessionProofs` | every safety property of the sessions, and their refinement |
| `UploadReservationProofs` | every safety property of one-shot uploads, and their refinement |
| `FileDeletionProofs` | every safety property of the outbox |
| `IdempotencyProofs` | one execution per lifetime, true answers; the slots and the order of the gates |
| `AccountSessionsProofs` | no credential from before a change, one start per download; the pool loses no call |
| `EntitlementsProofs` | entitlements follow the events, paid plans are paid for |
| `SequenceProofs` | queues in which nobody stands twice, and induction over the numbers |

The modules meet where the code does. Both kinds of upload refine one ledger,
over the same counters of the `User` row, and neither has the row to itself: each
has `Others`, the uploads of the other kind, which move the counters
between any two of its steps by steps of the ledger (`OthersMove`), subject to
the row's lock and to the account's status as in the code. That is all the
other kind ever does to the row, as it refines the ledger too, so what is shown
of one beside `Others` is shown of it beside the other. The deletion of a
session's file is a step of `Others` in `UploadReservation` and no action of
`UploadSession`, where no step depends on the file of a completed session.
`Idempotency` is built on `IdempotencyGate`, `AccountSessions` on
`PasswordHasher`. The plan limit that `SwitchPlan` of the upload modules moves is
what `Entitlements` governs; the deletions of `UploadReservation` feed
`FileDeletion`.

**`QuotaLedger`.** An item is a session, a one-shot upload, or the file either
becomes. It is held, then charged or returned; a charged item may be refunded.
`Hold` is `reservePendingUploadQuota`, `Charge` is `commitUploadReservation`,
`ChargeDirectly` is `reserveUploadQuota`, `Return` is
`releaseUploadReservation`, `Refund` is `softDeleteFileWithQuota`, `SwitchPlan`
is the predicate common to `switchPlanIfFits` and `switchPlanIfEntitled`. The
code clamps a release at zero; the ledger does not, so an implementation that
refines it shows that the clamp never acts.

**`UploadSession`.** One action is one statement or one transaction, with these
exceptions and abstractions:

- Two transactions read, decide and write: the completion commit
  (`CommitLock`, `CommitWrite`) and the recovery of a stale completion
  (`RecoverRead`, then `RecoverRevert` or `RecoverExpire`). Between the two
  steps `userLock` names the process that holds the `User` row; statements that
  lock it wait, the heartbeat and the claim do not. A transaction retried after
  a conflict is one that started later.
- The reads a request makes before its first write are one step (`PutStart`,
  `CompleteLoad`). Requests that only answer (replays, 4xx) change nothing and
  are left out. A repair's `DELETE` takes its snapshot of the session at
  `PutStart` or later.
- Time is two flags: `lease` (none, live, lapsed) and `expired`.
- A request is named by its process, and so are what it creates: chunks by
  their writer, objects and tokens by their completer (all are fresh UUIDs).
- A chunk is present or not; a final object counts the parts it holds. A wrong
  size or checksum is a choice after the last part.
- `Fragile` writers store chunks that the storage may lose. `AckMayBeLost` lets
  a transaction apply while its caller sees an error. `Crash` ends any request
  at any step, its transaction rolled back.
- `SUSPENDED` stands for every status but ACTIVE. COMPLETING rows without a
  lease (from before leases existed) are not modelled.

**`UploadReservation`.** One action is one transaction or one statement; each
transaction locks the `User` row first and decides after that. A request, its
row, object and file have one name. `lease` is as above; `stale` is what a
sweeper's cutoff knows, so that a renewal between its `SELECT` and its release
is seen. `Unsure` requests may fail although their transaction applied: the
reservation then belongs to nobody, the commit is followed by the deletion of
the bytes (`file.routes.js:234`). A heartbeat renews until its request is over.
`DeleteFile` is the ledger's `Refund`.

**`FileDeletion`.** One action is one statement. `tasks` are claims in
progress, of no worker in particular: a sweep does not wait for the last one.
A worker may die, stall past its lease, or lose its settlement, and the storage
may fail before or after removing the object. `AttemptBound` and
`RequeueBound` are bounds of the model. `serial`, `round`, `claims` and
`requeued` are history.

**`Idempotency`.** A gate's methods run to their end, so they are functions from
a gate to the next. `Reach` is where the load balancer may send a request.
The claim of a record is made with the advisory lock held and nobody sees it
before the commit, so it is the decision of `Lock`; what is written is written
by `Execute`. `NOW()` is the time a transaction began: `after` are those
that began after the expiry. Pruning is two steps, as a `DELETE` that waits for a
row lock is: it lists the expired rows (`PruneList`), and later removes the rows
it listed by their ids, whatever they hold by then (`PruneDelete`), or fails
(`PruneFail`); `doomed` are the rows listed. It waits for a take-over in
progress, and here not for its hour of grace. `current` and `lost` are history:
what a key's lifetime has seen. An
account that is not active is a `Fail`. `reply` is the answer given in the last
step. `Slow` owners' requests may hang anywhere, for ever.

**`AccountSessions` and `PasswordHasher`.** The pool is a value as a gate is;
`Workers` bounds the workers ever made. A worker that dies raises two events,
of which the second only pumps. `refused` stands for busy, a mismatch and a
failure. A worker that hangs without dying is not modelled. Every change of the
account is one `UPDATE`; creation of a download session holds a share lock on
the row and `revokeSessions` holds the row, so each is one action. `SUSPENDED`
stands for `DELETED` too, `over` for revoked and expired sessions; the
downloaded file is one that stays. A `GET` that is refused or finds `usedAt` set
changes nothing and is left out. `revokeSessions` has no route: it is the
exported operation. An administrator's own request in flight while it is
demoted, and reads of a profile, are not modelled. `MaxVersion` and `Creators`
are bounds.

**`Entitlements`.** Every transaction takes the user's row first and is one
action. An event is its payload; `delivered` is the history of first
deliveries. Events carry no order of their own, so a revocation that overtakes
its grant leaves the grant in force, and no sweeper downgrades a user whose
entitlement lapses (`docs/DEPLOYMENT.md:230`): `excuse` remembers why a plan is
held unpaid. `NOW()` is the time a transaction began; a lapse while a
subscription waits for the user's row is taken as seen by it. Demo mode is
`SwitchPlan` of the ledger.

Operators whose comment begins with "Fault:" are not part of the
specification. Each is a definition as a plausible mistake would have it, and
the mutants of `PROJECT.json` put it in place of the right one to show that a
property notices.

## 3. Properties and runs

| Run | Instance | Checks |
| --- | --- | --- |
| `quota_ledger` | 3 items of sizes 2, 1, 1, plans of 2, 3, 5 bytes | `TypeOK`, `CountersExact`, `WithinLimit` |
| `upload_fencing` | 1 session of 2 parts, 2 completers, 3 writers (1 fragile), 1 sweeper | `TypeOK`, `OneFilePerSession`, `NoLateParts`, `AcceptedPartsStay`, `LiveCompletionIsKept`, `SuspendedGainsNothing` |
| `upload_accounting` | 2 sessions of sizes 1 and 2 and another upload of size 1, plans of 2 and 3 bytes, 2 completers, 1 writer, 1 sweeper | `CountersExact`, `FilesHaveBytes`, `CommitCannotFail`, `KeepsLedger` |
| `upload_recovery` | 1 session, 2 completers, 1 fragile writer, 1 sweeper, acknowledgements may be lost, `FairSpec` | `OneFilePerSession`, `NothingHeldForever`, `ChunksRemoved` |
| `upload_reservation` | 3 one-shot uploads of sizes 1, 2, 2, of which 2 declared and 1 unsure, beside an upload session of size 2, a plan of 3 bytes, 1 sweeper, `FairSpec` | `TypeOK`, `FilesHaveBytes`, `KeepsLedger`, `LiveUploadIsKept`, `SuspendedGainsNothing`, `ReservationsEnd` |
| `file_deletion` | 1 file, at most 2 attempts, 3 claims, 1 requeue, `FairSpec` | `TypeOK`, `LeftoverBytesAreQueued`, `LateWorkersChangeNothing`, `LiveClaimIsKept`, `JobsEnd` |
| `idempotency` | 5 requests of 2 accounts under 2 keys on 2 replicas; 2 slots, 1 per owner, 2 waiters, 1 per owner; one account slow; one key expires; `FairSpec` | `TypeOK`, `SlotsExact`, `NobodyWaitsInVain`, `OnceUnlessPruned`, `AnswersAreTrue`, `OthersAreServed` |
| `account_sessions` | 1 registration and 2 logins over 1 worker (2 ever), 1 waiter; 2 requests of which 1 creates a download session, 2 `GET`s, 2 changes, `FairSpec` | `CallsAreHeld`, `NoStaleLogin`, `NoStaleDownload`, `OneStartPerSession`, `LoginsAreAnswered` |
| `entitlements` | 3 plans, 1 of them paid; 6 payloads under 5 ids | `EntitlementsFollowDeliveries`, `PaidPlanIsPaidFor` |
| `upload_chunk_sweep` | 2 sessions, a sweep that looks at 1, `FairSpec` | `ChunksRemoved` is violated |
| `file_deletion_requeue` | as `file_deletion` | `OnlyNewestClaimSettles` is violated |
| `idempotency_prune` | as `idempotency`, without fairness | `OncePerLifetime` is violated |

`CountersExact` says that `reservedUploadBytes` and `storageUsed` are exactly
the bytes of what is open and of what has become a file, `Others` included.
`KeepsLedger` says more: that every step is a step of the ledger, so bytes are never returned and then
charged, nor moved twice in opposite directions. `CommitCannotFail` says that
once a commit owns the session under the `User` lock none of its remaining
checks can fail, so the error path for an invalid reservation is unreachable.
`LiveCompletionIsKept` is the compare-and-set of the recovery: the lease it read
as lapsed may have been renewed. `LiveUploadIsKept` says the same of a sweep that
releases a reservation, `LiveClaimIsKept` of the housekeeping that parks a job.
`LateWorkersChangeNothing` relates a settlement to the history of claims, not to
the attempt number the code compares; a settlement is any change of the job's
status, due time or lease as a worker ends, so a failure that only puts the job back to wait
counts too. `AcceptedPartsStay` is about the two repairs of missing parts, one by
a request that stores the part, one by a completion that has already given the
session back: however late they come, they take away only what is missing.
`OnceUnlessPruned` is what remains of at-most-once (section 4). `NobodyWaitsInVain` and
`OthersAreServed` are the two halves of fair admission: no owner's waiters block
another's, and none waits for ever. `NoStaleLogin` and `NoStaleDownload` hold
against every later reactivation too: a version is never used twice.

**Bounds.** Two completers are a stalled one and its successor, the shape of
every zombie; either may be recovered by the other or by a sweeper, so both
orders occur. Three writers for two parts allow one part to be uploaded, lost,
repaired and uploaded again while the other is there. Two sessions of
different sizes under a plan that holds only one make a wrong amount or a
wrong session visible. A session can be claimed as often as there are
completers; requests are not reused.

For one-shot uploads, three of two sizes beside a session under a limit of three bytes
make an admission that forgets the others fail, and an undeclared upload compete
with declared ones. With one plan a change of plan is a stutter there; plans
differ in `upload_accounting`, where a plan that holds one session and not
both is reached from one that holds both. Two jobs of the outbox meet only in statements that act on every
row alike, so one file is enough; with at most two attempts the first failure is
retried and the second is final, and the third claim is one past the limit. Of
the five idempotent requests three are of one account, one of them with another
body, so that one runs, one waits and one is refused at the same gate or they
meet at the advisory lock from two; the fourth and fifth are those the first
account must not hold up. One worker and one waiter, with three callers, make
the pool run, queue and refuse; two changes of the account are a suspension and
its reactivation, or a logout everywhere between them. The billing events are
two grants (one that ends), three revocations with each kind of fallback, and a
grant under the id of a revocation.

**Fairness.** `FairSpec` of `UploadSession` assumes that time passes
(`LeaseLapses`, `SessionExpires`), that the sweeps run (`setInterval` on every
replica, started in `server.js`), that a request that does not die takes its
next step, and that waiting for the `User` row is first come, first served.
Strong fairness of the sweeper's recovery steps says that a sweeper does not die
at the same step every time. Clients owe nothing: no fairness is assumed of
creating, uploading, completing or aborting. `UploadReservation` assumes the
same of its requests and sweeps; the heartbeat may stop at any time. In
`FileDeletion` nothing is assumed of the workers, each of which may stall for
ever: time passes, sweeps claim, and the statement that parks jobs does not
fail every time (strong fairness). In `Idempotency` the requests of owners that
are not slow go on, each transaction ends at the latest by its own timeout, and
no waiter's timer is relied on. In `AccountSessions` workers answer what they are
given and handlers go on; again no timer is relied on, so that a lost call
would show.

## 4. What the violations show

`idempotency_prune`: `pruneExpiredIdempotencyKeys` tests the expiry only in the
sub-select that lists ids (`idempotency.js:269-274`). When a request is taking over one
of those records, the `DELETE` waits for its transaction, checks again only the
id, which the take-over keeps, and removes the record just made. The next retry
of the key executes it again: two folders within one lifetime, contrary to
`idempotency.js:178`. It needs a request of a key that expired over an hour ago
to be in its transaction while the sweep runs. `OnceUnlessPruned` is what still
holds: without that step once, with it twice at most. Answers stay true.

`file_deletion_requeue`: `requeueDeadFileDeletions` sets `attempts` to 0. The
attempt number that fences a settlement then comes round again, and a worker
that stalled before the requeue settles the job over a newer worker's live claim,
contrary to the comment at `file-deletion.js:57` and to `docs/DEPLOYMENT.md:127`.
In TLC's trace the late worker marks the job `DONE`; in longer ones it puts it back
to wait, over the newer claim's lease and due time, or parks it early. No bytes are
forgotten (`LeftoverBytesAreQueued` holds, requeues included).

`upload_chunk_sweep`: `cleanupUploadSessions` asks for 100 finished sessions
without an order, and nothing marks a session whose directory is gone. With
more finished sessions than that, the same ones may return each time, and
chunks left by a crash are not removed, contrary to `docs/UPLOADS.md:148`.

Not a run: a completer that finds a part's bytes missing gives the session back
and then deletes the row by name, whatever the session's status
(`upload.routes.js:461`, `470`), so a row may still disappear after another
completion has claimed the session. The row's bytes are gone in any case; what
matters is that nothing else goes, which is `AcceptedPartsStay`.

## 5. Proofs

Every safety property of the passing runs is proved for all values of the
constants. Assumed are the named assumptions on the constants of each module,
which say only what the code makes of them.

**The ledger.** `QuotaLedgerProofs` proves `LedgerSafe`: `Spec` implies always
`TypeOK`, `CountersExact` and `WithinLimit`, for any finite set of items, any
sizes and any plans; `LedgerTypeOK` and `LedgerWithinLimit` are its parts. The
conjunction of the three is inductive as it stands. The sum of sizes is the
cardinality of a set with one element per byte, so the proof needs no recursion:
lemmas say what adding and removing one item does to it.

**Resumable sessions.**
The constants of `UploadSession` are assumed only to be what the code makes
them (`UploadAssumption`): finitely many sessions and other uploads of positive
size, at least one part, distinct kinds of process. Its theorems hold for any number of requests,
replicas and parts, with crashes, lost chunks and, unless said otherwise, lost
acknowledgements:

| Theorem | Rests on |
| --- | --- |
| `TypeCorrect` | `UploadInv`; its part `TypeInv`: a working process has a session (`Known`), and an assembly has not passed the last part (`Assembly`). `TypeOK` alone is not inductive: a handler would index the sessions by `None`, and a return of `Others` could take a counter below zero |
| `UploadKeepsLedger` | `UploadInv`: `TypeInv` and the ledger's invariant read on the account |
| `UploadCountersExact`, `UploadWithinLimit` | `UploadInv` |
| `UploadOneFilePerSession` | `FenceInv`; its part `Published`: a request that published is past its commit |
| `UploadNoLateParts` | inductive with `TypeInv` |
| `UploadCommitCannotFail` | `FenceInv`; its parts `LockHeld` and `WriterOwns`, and `UploadInv` for the reservation |
| `UploadLiveCompletionIsKept` | `TypeInv`, for one step |
| `UploadSuspendedGainsNothing` | `WriterOwns`, for the commit in flight, and `UploadInv` |
| `UploadFilesHaveBytes` | `Stored`, when no acknowledgement is lost |
| `UploadOpenPartsHaveBytes` | `PartsInv`: a writer is named by a row only when it is done; when no acknowledgement is lost |
| `UploadAcceptedPartsStay` | `MissingInv`: a name that a writer or a completer has found missing is not among the chunks and does not come back; and `PartsInv`; when no acknowledgement is lost |

*The refinement.* `PhaseOf` maps a session's status to the phase of a ledger
item; `Phase` reads the phase of an item of `Others` as it is. Each handler's
step is shown to be one ledger step or none: creation is
`Hold`, an abort, expiry or recovery of an expired session is `Return`, the
commit is `Charge`, all else stutters. A return needs the clamp of
`releaseUploadReservation` not to act, that is, the bytes of an open session to
be in the counter; that is the ledger's own `CountersExact` (`HeldBytes`). So the
ledger's invariant and the mapping are carried together: `UploadInv` gives the
ledger step, and the ledger's lemma `LedgerStep` gives its invariant after it.

*The fencing.* `LockHeld` says that two transactions that keep the `User` row
never overlap. With it `WriterOwns` is inductive: between the two steps of a
commit nobody else can commit or recover, a heartbeat changes nothing that
matters, and a relinquish by an earlier completer fails on the token.

The three theorems about bytes assume `AckMayBeLost = FALSE` because the code does
not promise them otherwise: a commit that applied and reported an error is
followed by the deletion of the object (hazards in `PROJECT.json`).

**One-shot uploads** (`UploadReservationProofs`). `RowInv` is inductive: types;
`Lives`, which ties a row to its request and its file (a file exists only after
the commit, a `COMMITTED` row and a file only together); `Stored`, that a request
commits only a whole object and that one whose transactions are acknowledged is
done once its file is there; and `StaleIsLapsed`, that what a sweeper holds for
lapsed is lapsed, because a renewal takes the row out of its hands.

| Theorem | Rests on |
| --- | --- |
| `ReservationTypeOK` | `ReservationInv`, for the counters beside `Others` |
| `ReservationFilesHaveBytes` | `Stored` |
| `ReservationLiveUploadIsKept` | `StaleIsLapsed` |
| `ReservationSuspendedGainsNothing` | types, for one step |
| `ReservationKeepsLedger` | `ReservationInv`: `RowInv` with the ledger's invariant, as for the sessions; a commit is `Charge` or `ChargeDirectly`, a deletion is `Refund` |
| `ReservationCountersExact`, `ReservationWithinLimit` | `ReservationInv` |

**Deletions** (`FileDeletionProofs`). `JobInv`: types; `GoneIsGone`, that what a
worker knows to be gone stays gone; and `Counted`, that within a round attempts
and claims are counted together, so that equal attempt numbers mean the same
claim. A requeue starts a new round, of which `Counted` says nothing for older
claims: that is the violation of section 4. `NewestSettles` turns a task that ends
with any change of its job into a settlement that passed the fence. `DeletionLeftoverBytesAreQueued`,
`DeletionLateWorkersChangeNothing` and `DeletionLiveClaimIsKept` follow.

**Idempotent requests** (`IdempotencyProofs`). For what is executed, nothing is
asked of the gates: whoever they admit, the lock and the claim decide. `Locks` says that a transaction past its
lock holds it; `Lifetimes`, that a transaction which may take over began after the
expiry, that a key about to be executed has no fresh record, that what was done since the last
expiry is one operation on a fresh record, or nothing, unless the pruner removed
a fresh record since (`lost`), and then one operation without a record or two
with one, and that no row the pruner has listed is of a key that lost its
record (it lists expired rows, so a fresh one goes once a lifetime at most);
`Made`, that a record is of a request that made its folder. From them come
`IdempotencyOnceUnlessPruned` and `IdempotencyAnswersAreTrue`.

*The gates.* `SlotInv`: the queues name nobody twice and the counters are those of
holders and waiters (`Orders`); a slot is held exactly while its request is
between the gate and its release, a place exactly while it waits (`Placed`); and
no waiter could run (`Busy`).

| Theorem | Says, for any limits, queues and number of owners |
| --- | --- |
| `IdempotencySlotsExact` | the counters are exact, the limits kept |
| `IdempotencyNobodyWaitsInVain` | no waiter could run |
| `IdempotencyWaitersAreOwed` | behind every waiter another request of its process holds a slot, so no queue is left without a scan to come |
| `IdempotencyInOrder` | requests of one owner enter in the order they came, whatever other owners do and whoever gives up; in the run an owner has one waiter, so only the proof reaches this |

A release scans the queue once, by a fold. Its proof is over the trace of the
fold: the gate after each of the queue's first n places (`Inductive` of
`SequenceProofs` is the induction, from the library's theorem on minimal
elements, which takes no operator). After place n every waiter of the
first n could not run then; slots only fill during a scan, so it cannot run at
the end. A waiter that is skipped is over its owner's cap, and stays so.

**Accounts** (`AccountSessionsProofs`). `LoginInv`: what a login has read (`Read`),
what it signs (`Signing`), and that a reading from before a change is behind the
version for good (`Behind`), give `SessionsNoStaleLogin` for any number of logins
and any pool. `DownloadInv` adds what a request carries (`Visiting`) and that the
requests a change cut off cannot pass the share lock (`Cut`), for
`SessionsNoStaleDownload`. `SessionsOneStart` needs only that the mark and the
event appear together. `PoolInv` says that a call whose promise is open is in one
place (`Sound`: with one worker, or once in the queue), that the limits are kept
and nobody waits beside a worker that is free or could be made (`Used`);
`SessionsCallsAreHeld` follows for any number of callers and workers. The pool's
`pump` is a fold too, and proved as the scan of a gate is: it stops where no
worker is left or nobody waits.

**Entitlements** (`EntitlementsProofs`). `Followed`: the processed events are the
ids delivered, and the active grants are those the order of deliveries leaves
in force. `GrantedAppend` says what one more delivery does to them. With it
`FollowDeliveries` and `PaidPlans` are inductive.

**Only model-checked.** Liveness under fairness, which is out of the prover's
reach: `NothingHeldForever`, `ChunksRemoved`, `ReservationsEnd`, `JobsEnd`,
`OthersAreServed`, `LoginsAreAnswered`; and the three violations. `OthersAreServed`
and `LoginsAreAnswered` rest on facts that are proved: waiters are owed a scan and
are served in order, no call of the pool is lost.

## 6. What could follow

1. `RowLocks`: the order in which transactions take the `User` row and the rows
   below it, as an argument that no cycle forms.
2. An administrator's request in flight while it is demoted.
3. The bounded map and the degraded modes of the throttle.

## 7. Not modelled

- *Lock waits.* A transaction is one action, or holds its locks between named
  ones, in the code's order. A deadlock between two lock orders cannot appear in
  these models.
- *Throttling.* Counters over windows of time in Redis, PostgreSQL or memory. What
  it promises is a rate, approximate while stores change over; without real time
  a model would not tell its states apart.
- *Ranges, pagination, part geometry.* Pure functions of a few numbers, tested at
  their boundaries in the repository.
- *Storage adapter.* Only what the upload and deletion paths see of it: an object
  is there or not, and an operation may fail before or after its effect. Path
  safety is a predicate on strings.
- *Audit.* Its rows are written in the transaction of the change they record and
  have no interleaving of their own; that the transaction fails when the row
  cannot be written is part of `CommitFails`, `Fail` and `RecordFails`.
- *Folders beyond their idempotent creation, listings, profiles.* A rename is one
  statement, a removal one transaction, a listing only reads. An upload whose
  folder is removed before its commit is a `CommitFails`.
- *Cache, metrics, formatting, HTTP shell, configuration, scripts.* They keep no
  state a promise rests on.
