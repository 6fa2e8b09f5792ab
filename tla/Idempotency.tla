---------------------------- MODULE Idempotency ----------------------------
(***************************************************************************)
(* POST /folders with an Idempotency-Key: runIdempotent and                *)
(* pruneExpiredIdempotencyKeys of lib/idempotency.js, over the gates of    *)
(* several replicas.                                                       *)
(*                                                                         *)
(* A request reads the record of its key, passes its replica's gate, opens *)
(* a transaction, takes the key's advisory lock, claims the record or      *)
(* finds it taken, and creates the folder and stores the response in the   *)
(* same transaction.  Until that commits, nobody else sees anything of it; *)
(* so the mutation, the stored response and the commit are one action, and *)
(* the claim is the decision that precedes it.  A retry of the client is   *)
(* another request with the same key and body.                             *)
(***************************************************************************)
EXTENDS IdempotencyGate

CONSTANTS
    Replicas,
    Reach,      \* Reach[r]: the replicas a request may be sent to
    Keys,       \* identities: owner, operation and key
    KeyOf,      \* KeyOf[r]
    BodyOf,     \* BodyOf[r]: the fingerprint of the payload
    Aging,      \* bound: keys whose records expire
    Slow,       \* owners whose requests may hang anywhere, for ever
    Nobody      \* no request, no replica

ASSUME IdempotencyAssumption ==
    /\ Reach \in [Requests -> SUBSET Replicas]
    /\ KeyOf \in [Requests -> Keys]
    /\ \A q, r \in Requests : KeyOf[q] = KeyOf[r] => OwnerOf[q] = OwnerOf[r]
    /\ Aging \subseteq Keys
    /\ Slow \subseteq Owners
    /\ Nobody \notin Requests

VARIABLES
    gate,       \* the gate of each replica
    pc,         \* where each request is
    at,         \* the replica that serves it
    reply,      \* what a request is told in this step, with whose result
    record,     \* the request whose result the committed record of a key is
    expired,    \* whether that record has expired
    after,      \* transactions that began after the record had expired
    locked,     \* who holds the advisory lock of a key
    folders,    \* requests whose folder exists
    doomed,     \* keys whose row a running DELETE of the pruner has listed
    current,    \* history: folders made since the key's record last expired
    lost        \* history: keys whose fresh record was pruned since then

prune == <<doomed, lost>>
dbVars == <<record, expired, after, locked, folders, current, prune>>
vars == <<gate, pc, at, reply, dbVars>>

(* A transaction is open from "lock" to the commit; a slot is held from    *)
(* "begin" until it is released.                                           *)
InTransaction == {"lock", "read", "execute"}
Holding == {"begin", "leave"} \cup InTransaction
Labels == {"idle", "acquire", "queued", "done"} \cup Holding

Silence == [to |-> Nobody, kind |-> "none", of |-> Nobody]

Init ==
    /\ gate = [p \in Replicas |-> EmptyGate]
    /\ pc = [r \in Requests |-> "idle"]
    /\ at = [r \in Requests |-> Nobody]
    /\ reply = Silence
    /\ record = [k \in Keys |-> Nobody]
    /\ expired = [k \in Keys |-> FALSE]
    /\ after = {}
    /\ locked = [k \in Keys |-> Nobody]
    /\ folders = {}
    /\ current = [k \in Keys |-> {}]
    /\ doomed = {}
    /\ lost = {}

-----------------------------------------------------------------------------
(* Helpers.                                                                *)

Goto(r, l) == pc' = [pc EXCEPT ![r] = l] /\ UNCHANGED at

(* The request is answered.                                                *)
Forget(r) == at' = [at EXCEPT ![r] = Nobody]
Finish(r) == pc' = [pc EXCEPT ![r] = "done"] /\ Forget(r)

Tell(r, k, q) == reply' = [to |-> r, kind |-> k, of |-> q]

(* The transaction ends: the advisory lock goes with it.                   *)
EndTransaction(r) ==
    /\ locked' = [k \in Keys |-> IF locked[k] = r THEN Nobody ELSE locked[k]]
    /\ after' = after \ {r}

(* Fault: the fingerprints are not compared.                               *)
AnswerFromAny(r, q) == Tell(r, "replayed", q)

(* A record answers a request: with its own result, or with 422 when the   *)
(* fingerprints differ.                                                    *)
AnswerFrom(r, q) ==
    IF BodyOf[q] = BodyOf[r] THEN Tell(r, "replayed", q)
                             ELSE Tell(r, "mismatch", Nobody)

Gate(r) == gate[at[r]]
SetGate(r, g) == gate' = [gate EXCEPT ![at[r]] = g]

(* A holder of this replica's gate with the request's own tag.             *)
IdenticalRunning(r) == \E q \in Gate(r).holders : KeyOf[q] = KeyOf[r]

-----------------------------------------------------------------------------
(* The fast path: a committed record that has not expired is replayed by a *)
(* plain read.                                                             *)
Lookup(r) ==
    LET q == record[KeyOf[r]]
    IN  /\ pc[r] = "idle"
        /\ \/ /\ q # Nobody /\ ~expired[KeyOf[r]]
              /\ AnswerFrom(r, q)
              /\ Goto(r, "done")
           \/ /\ q = Nobody \/ expired[KeyOf[r]]
              /\ pc' = [pc EXCEPT ![r] = "acquire"]
              /\ \E p \in Reach[r] : at' = [at EXCEPT ![r] = p]
              /\ reply' = Silence
        /\ UNCHANGED <<gate, dbVars>>

(* The gate: at once, after a wait, or not at all.                         *)
Acquire(r) ==
    /\ pc[r] = "acquire"
    /\ \/ /\ CanRun(Gate(r), r)
          /\ SetGate(r, Started(Gate(r), r))
          /\ Goto(r, "begin") /\ reply' = Silence
       \/ /\ ~CanRun(Gate(r), r) /\ Full(Gate(r), r)
          /\ Tell(r, "busy", Nobody)
          /\ Finish(r) /\ UNCHANGED gate
       \/ /\ ~CanRun(Gate(r), r) /\ ~Full(Gate(r), r)
          /\ SetGate(r, Enqueued(Gate(r), r))
          /\ Goto(r, "queued") /\ reply' = Silence
    /\ UNCHANGED dbVars

(* The timer of a waiter.                                                  *)
QueueTimeout(r) ==
    /\ pc[r] = "queued"
    /\ SetGate(r, GivesUp(Gate(r), r))
    /\ Tell(r, IF IdenticalRunning(r) THEN "inProgress" ELSE "busy", Nobody)
    /\ Finish(r)
    /\ UNCHANGED dbVars

(* NOW() is the time the transaction began: a record that expires later is *)
(* not expired for it.                                                     *)
Begin(r) ==
    /\ pc[r] = "begin"
    /\ after' = IF expired[KeyOf[r]] THEN after \cup {r} ELSE after
    /\ Goto(r, "lock")
    /\ reply' = Silence
    /\ UNCHANGED <<gate, record, expired, locked, folders, current, prune>>

(* Fault: the claim takes over any record, expired or not.                 *)
ClaimsAny(r) == TRUE

(* INSERT ... ON CONFLICT DO UPDATE WHERE expiresAt < NOW().               *)
Claims(r) == record[KeyOf[r]] = Nobody \/ r \in after

(* The advisory lock, and with it the claim: only time can come between    *)
(* the two, and the claim reads the time of Begin.                         *)
Lock(r) ==
    /\ pc[r] = "lock"
    /\ locked[KeyOf[r]] = Nobody
    /\ locked' = [locked EXCEPT ![KeyOf[r]] = r]
    /\ Goto(r, IF Claims(r) THEN "execute" ELSE "read")
    /\ reply' = Silence
    /\ UNCHANGED <<gate, record, expired, after, folders, current, prune>>

(* The only wait the lock timeout bounds.                                  *)
LockTimeout(r) ==
    /\ pc[r] = "lock"
    /\ locked[KeyOf[r]] # Nobody
    /\ Tell(r, "inProgress", Nobody)
    /\ EndTransaction(r)
    /\ Goto(r, "leave")
    /\ UNCHANGED <<gate, record, expired, folders, current, prune>>

(* The claim met a record: it is replayed, or has been pruned meanwhile    *)
(* (an error the client may retry).                                        *)
Read(r) ==
    LET q == record[KeyOf[r]]
    IN  /\ pc[r] = "read"
        /\ IF q = Nobody THEN Tell(r, "failed", Nobody) ELSE AnswerFrom(r, q)
        /\ EndTransaction(r)
        /\ Goto(r, "leave")
        /\ UNCHANGED <<gate, record, expired, folders, current, prune>>

(* Fault: the record is written after the commit of the folder, which a    *)
(* failure leaves without one.                                             *)
ExecuteThenRecord(r) ==
    /\ pc[r] = "execute"
    /\ folders' = folders \cup {r}
    /\ current' = [current EXCEPT ![KeyOf[r]] = @ \cup {r}]
    /\ \/ /\ record' = [record EXCEPT ![KeyOf[r]] = r]
          /\ expired' = [expired EXCEPT ![KeyOf[r]] = FALSE]
          /\ Tell(r, "executed", r)
       \/ UNCHANGED <<record, expired>> /\ Tell(r, "failed", Nobody)
    /\ EndTransaction(r)
    /\ Goto(r, "leave")
    /\ UNCHANGED <<gate, prune>>

(* The folder, the record and its response commit together.  The request   *)
(* may see an error all the same.  The record is new for whoever waits.    *)
Execute(r) ==
    /\ pc[r] = "execute"
    /\ folders' = folders \cup {r}
    /\ current' = [current EXCEPT ![KeyOf[r]] = @ \cup {r}]
    /\ record' = [record EXCEPT ![KeyOf[r]] = r]
    /\ expired' = [expired EXCEPT ![KeyOf[r]] = FALSE]
    /\ Tell(r, "executed", r) \/ Tell(r, "failed", Nobody)
    /\ locked' = [locked EXCEPT ![KeyOf[r]] = Nobody]
    /\ after' = {q \in after : KeyOf[q] # KeyOf[r]}
    /\ Goto(r, "leave")
    /\ UNCHANGED <<gate, prune>>

(* Fault: the advisory lock belongs to the connection, and outlives the    *)
(* transaction that failed.                                                *)
FailKeepingLock(r) ==
    /\ pc[r] \in {"begin"} \cup InTransaction
    /\ Tell(r, "failed", Nobody)
    /\ after' = after \ {r}
    /\ Goto(r, "leave")
    /\ UNCHANGED <<gate, record, expired, locked, folders, current, prune>>

(* Any error rolls the transaction back: the account is not ACTIVE, a      *)
(* conflict, a timeout, a lost connection.                                 *)
Fail(r) ==
    /\ pc[r] \in {"begin"} \cup InTransaction
    /\ Tell(r, "failed", Nobody)
    /\ EndTransaction(r)
    /\ Goto(r, "leave")
    /\ UNCHANGED <<gate, record, expired, folders, current, prune>>

(* The waiters that hold a slot now go on; their timers are cleared.       *)
Ends(r, g) ==
    /\ SetGate(r, g)
    /\ pc' = [q \in Requests |->
                 IF q = r THEN "done"
                 ELSE IF pc[q] = "queued" /\ q \in g.holders THEN "begin" ELSE pc[q]]
    /\ Forget(r)

(* Fault: the slot is given back on success only.                          *)
LeaveOnSuccess(r) ==
    /\ pc[r] = "leave"
    /\ Ends(r, IF r \in folders THEN Released(Gate(r), r) ELSE Gate(r))
    /\ reply' = Silence
    /\ UNCHANGED dbVars

(* finally: the slot is given back and the next waiters start.             *)
Leave(r) ==
    /\ pc[r] = "leave"
    /\ Ends(r, Released(Gate(r), r))
    /\ reply' = Silence
    /\ UNCHANGED dbVars

-----------------------------------------------------------------------------
(* Time, pruning, crashes.                                                 *)

Expire(k) ==
    /\ k \in Aging
    /\ record[k] # Nobody /\ ~expired[k]
    /\ expired' = [expired EXCEPT ![k] = TRUE]
    /\ current' = [current EXCEPT ![k] = {}]
    /\ lost' = lost \ {k}
    /\ reply' = Silence
    /\ UNCHANGED <<gate, pc, at, record, after, locked, folders, doomed>>

(* The pruner's DELETE lists the ids of expired records in a sub-select.   *)
(* It waits an hour after the expiry; here it need not.                    *)
PruneList(k) ==
    /\ expired[k] /\ k \notin doomed
    /\ doomed' = doomed \cup {k}
    /\ reply' = Silence
    /\ UNCHANGED <<gate, pc, at, record, expired, after, locked, folders,
                   current, lost>>

(* It then removes the rows it listed.  It waits for a take-over, which    *)
(* locks the row, and checks again only the id, which a take-over keeps:   *)
(* the record may be fresh by now.  (PostgreSQL holds the row for "read"   *)
(* too; the code does not count on that.)                                  *)
PruneDelete(k) ==
    /\ k \in doomed
    /\ \A r \in Requests : KeyOf[r] = k => pc[r] # "execute"
    /\ record' = [record EXCEPT ![k] = Nobody]
    /\ expired' = [expired EXCEPT ![k] = FALSE]
    /\ after' = {q \in after : KeyOf[q] # k}
    /\ doomed' = doomed \ {k}
    /\ lost' = IF expired[k] THEN lost ELSE lost \cup {k}
    /\ reply' = Silence
    /\ UNCHANGED <<gate, pc, at, locked, folders, current>>

(* The statement fails, or its replica dies: the row stays.                *)
PruneFail(k) ==
    /\ k \in doomed
    /\ doomed' = doomed \ {k}
    /\ reply' = Silence
    /\ UNCHANGED <<gate, pc, at, record, expired, after, locked, folders,
                   current, lost>>

(* A replica dies: its gate is empty when it starts again, its requests    *)
(* get no answer, their transactions are rolled back.                      *)
Crash(p) ==
    /\ \E r \in Requests : at[r] = p
    /\ gate' = [gate EXCEPT ![p] = EmptyGate]
    /\ pc' = [r \in Requests |->
                 IF at[r] = p THEN "done" ELSE pc[r]]
    /\ at' = [r \in Requests |-> IF at[r] = p THEN Nobody ELSE at[r]]
    /\ locked' = [k \in Keys |->
                     IF locked[k] # Nobody /\ at[locked[k]] = p
                     THEN Nobody ELSE locked[k]]
    /\ after' = {r \in after : at[r] # p}
    /\ reply' = Silence
    /\ UNCHANGED <<record, expired, folders, current, prune>>

Transact(r) ==
    Begin(r) \/ Lock(r) \/ Read(r) \/ Execute(r) \/ Fail(r)

Next ==
    \/ \E r \in Requests :
          \/ Lookup(r) \/ Acquire(r) \/ QueueTimeout(r)
          \/ Transact(r) \/ LockTimeout(r) \/ Leave(r)
    \/ \E k \in Keys :
          Expire(k) \/ PruneList(k) \/ PruneDelete(k) \/ PruneFail(k)
    \/ \E p \in Replicas : Crash(p)

Spec == Init /\ [][Next]_vars

(* A request goes on by itself, and a transaction that waits for no lock is*)
(* ended by its own timeout at the latest.  Nothing is asked of the        *)
(* requests of slow owners, and no waiter's timer is relied on.            *)
Advance(r) == Lookup(r) \/ Acquire(r) \/ Transact(r) \/ Leave(r)

Fairness == \A r \in Requests : OwnerOf[r] \notin Slow => WF_vars(Advance(r))

FairSpec == Spec /\ Fairness

-----------------------------------------------------------------------------
(* Properties.                                                             *)

(* Types: requests, records and locks; a lock is held inside a transaction.*)
TypeOK ==
    /\ pc \in [Requests -> Labels]
    /\ reply \in [to : Requests \cup {Nobody},
                 kind : {"none", "executed", "replayed", "mismatch", "busy",
                         "inProgress", "failed"},
                 of : Requests \cup {Nobody}]
    /\ at \in [Requests -> Replicas \cup {Nobody}]
    /\ record \in [Keys -> Requests \cup {Nobody}]
    /\ expired \in [Keys -> BOOLEAN]
    /\ after \subseteq {r \in Requests : pc[r] \in InTransaction}
    /\ locked \in [Keys -> Requests \cup {Nobody}]
    /\ \A k \in Keys : locked[k] # Nobody =>
          KeyOf[locked[k]] = k /\ pc[locked[k]] \in {"read", "execute"}
    /\ folders \subseteq Requests
    /\ current \in [Keys -> SUBSET Requests]
    /\ doomed \subseteq {k \in Keys : record[k] # Nobody}
    /\ lost \subseteq Keys

(* The slots and places of each gate are held by requests that are in      *)
(* their transactions or waiting, and are counted right, through timeouts, *)
(* failures and crashes.                                                   *)
SlotsExact ==
    \A p \in Replicas :
        /\ Exact(gate[p])
        /\ \A r \in gate[p].holders : at[r] = p /\ pc[r] \in Holding
        /\ \A r \in ToSet(gate[p].queue) : at[r] = p /\ pc[r] = "queued"

(* A request waits at a gate only while its owner or the process is at its *)
(* limit: another owner's waiters never stand in its way.                  *)
NobodyWaitsInVain == \A p \in Replicas : Busy(gate[p])

(* What the comment of runIdempotent promises: the operation of a key is   *)
(* performed at most once until its record expires.  It does not hold: a   *)
(* DELETE that listed the last record removes the one that replaced it.    *)
OncePerLifetime == \A k \in Keys : Cardinality(current[k]) <= 1

(* What holds: on whatever replicas the requests of a key run, however they*)
(* fail and whenever it expires and is pruned, its operation is performed  *)
(* once in a lifetime, or twice when the pruner removed the fresh record   *)
(* in between, which it does once at most.                                 *)
OnceUnlessPruned ==
    \A k \in Keys :
        Cardinality(current[k]) <= (IF k \in lost THEN 2 ELSE 1)

(* What a request is told is true: a replay is the result of a request     *)
(* with the same key and body whose folder exists, and a request that was  *)
(* refused or replayed did nothing.                                        *)
AnswersAreTrue ==
    LET r == reply.to q == reply.of
    IN  /\ reply.kind = "executed" => r \in folders
        /\ reply.kind = "replayed" =>
              /\ q \in folders /\ r \notin folders
              /\ KeyOf[q] = KeyOf[r] /\ BodyOf[q] = BodyOf[r]
        /\ reply.kind \in {"mismatch", "busy", "inProgress"} => r \notin folders

(* One owner's hanging requests and their duplicates do not keep another   *)
(* owner's waiting: they all end, without the help of a timer.             *)
OthersAreServed ==
    []<>(\A r \in Requests :
            OwnerOf[r] \notin Slow => pc[r] \in {"idle", "done"})

=============================================================================
