-------------------------- MODULE IdempotencyGate --------------------------
(***************************************************************************)
(* The admission gate of lib/idempotency.js (createGate): how many         *)
(* idempotent transactions of one process, and of one owner in it, may     *)
(* hold a database connection, and who waits in what order.                *)
(*                                                                         *)
(* A gate is a value, as it is one object in the code; a call of acquire,  *)
(* of the function it returns, or of a waiter's timer maps it to the next. *)
(* JavaScript runs each of them to its end.                                *)
(***************************************************************************)
EXTENDS Integers, Sequences, FiniteSets, SequencesExt

CONSTANTS
    Requests,           \* the callers
    Owners,             \* the accounts they belong to
    OwnerOf,            \* OwnerOf[r]
    Concurrency,        \* holders in one process
    PerOwner,           \* holders of one owner
    MaxQueue,           \* waiters in one process
    MaxQueuePerOwner    \* waiters of one owner

ASSUME GateAssumption ==
    /\ IsFiniteSet(Requests)
    /\ OwnerOf \in [Requests -> Owners]
    /\ Concurrency \in Nat \ {0} /\ PerOwner \in Nat \ {0}
    /\ MaxQueue \in Nat /\ MaxQueuePerOwner \in Nat

(* The counters of the code, the queue, and the callers that hold a slot   *)
(* (whose release has not been called).                                    *)
EmptyGate ==
    [active |-> 0, activeBy |-> [o \in Owners |-> 0],
     queue |-> <<>>, queuedBy |-> [o \in Owners |-> 0], holders |-> {}]

(* Fault: one owner may take every slot.                                   *)
CanRunAnyOwner(g, r) == g.active < Concurrency

CanRun(g, r) ==
    g.active < Concurrency /\ g.activeBy[OwnerOf[r]] < PerOwner

Started(g, r) ==
    [g EXCEPT !.active = @ + 1, !.activeBy[OwnerOf[r]] = @ + 1,
              !.holders = @ \cup {r}]

Full(g, r) ==
    \/ Len(g.queue) >= MaxQueue
    \/ g.queuedBy[OwnerOf[r]] >= MaxQueuePerOwner

Enqueued(g, r) ==
    [g EXCEPT !.queue = Append(@, r), !.queuedBy[OwnerOf[r]] = @ + 1]

(* Fault: a waiter that gives up is counted off and stays in the queue.    *)
DequeuedByCount(g, r) == [g EXCEPT !.queuedBy[OwnerOf[r]] = @ - 1]

Dequeued(g, r) ==
    [g EXCEPT !.queue = RemoveFirst(@, r), !.queuedBy[OwnerOf[r]] = @ - 1]

(* Fault: the scan stops at a waiter whose owner is at its cap.            *)
AdmitHead(g, r) ==
    IF CanRun(g, r) /\ Head(g.queue) = r THEN Started(Dequeued(g, r), r) ELSE g

Admit(g, r) == IF CanRun(g, r) THEN Started(Dequeued(g, r), r) ELSE g

(* next(): the queue is scanned in order, and everyone who may run starts. *)
Scan(g) == FoldLeft(Admit, g, g.queue)

Released(g, r) ==
    Scan([g EXCEPT !.active = @ - 1, !.activeBy[OwnerOf[r]] = @ - 1,
                   !.holders = @ \ {r}])

(* A waiter whose timer fires gives up its place.                          *)
GivesUp(g, r) == Dequeued(g, r)

-----------------------------------------------------------------------------
(* What a gate promises.                                                   *)

Of(S, o) == {r \in S : OwnerOf[r] = o}

(* The counters are exactly the holders and the waiters, and within their  *)
(* limits: no slot is lost and none is given twice.                        *)
Exact(g) ==
    /\ g.active = Cardinality(g.holders)
    /\ g.active <= Concurrency
    /\ Len(g.queue) <= MaxQueue
    /\ ToSet(g.queue) \cap g.holders = {}
    /\ Cardinality(ToSet(g.queue)) = Len(g.queue)
    /\ \A o \in Owners :
          /\ g.activeBy[o] = Cardinality(Of(g.holders, o))
          /\ g.activeBy[o] <= PerOwner
          /\ g.queuedBy[o] = Cardinality(Of(ToSet(g.queue), o))
          /\ g.queuedBy[o] <= MaxQueuePerOwner

(* Nobody waits who could run.                                             *)
Busy(g) == \A r \in ToSet(g.queue) : ~CanRun(g, r)

=============================================================================
