-------------------------- MODULE PasswordHasher --------------------------
(***************************************************************************)
(* The pool of worker threads of lib/password-hasher.js: at most Size      *)
(* comparisons at a time, at most MaxQueue callers waiting, each until its *)
(* timer fires, workers made when needed and replaced when they die.       *)
(*                                                                         *)
(* A pool is a value; a call of submit or close, an event of a worker, or  *)
(* a timer maps it to the next.  JavaScript runs each of them to its end.  *)
(***************************************************************************)
EXTENDS Integers, Sequences, FiniteSets, SequencesExt

CONSTANTS
    Tasks,      \* the calls of compare and hash, one per request
    Workers,    \* bound: the workers ever made
    Size,       \* concurrency
    MaxQueue,
    Idle        \* no task

ASSUME HasherAssumption ==
    /\ Idle \notin Tasks
    /\ Size \in Nat \ {0} /\ MaxQueue \in Nat
    /\ IsFiniteSet(Workers) /\ Cardinality(Workers) >= Size

(* The task of each live worker, the queue, the tasks whose timer is set,  *)
(* how each promise was settled, and the workers made so far.              *)
EmptyPool ==
    [task |-> <<>>, queue |-> <<>>, timed |-> {}, closed |-> FALSE,
     answer |-> [t \in Tasks |-> "none"], made |-> {}]

Live(p) == DOMAIN p.task
Running(p) == {p.task[w] : w \in Live(p)} \ {Idle}
Waiting(p) == ToSet(p.queue)

HasSlot(p) ==
    \/ \E w \in Live(p) : p.task[w] = Idle
    \/ Cardinality(Live(p)) < Size

(* idleSlot: a free worker if there is one, else a new one.                *)
WithSlot(p) ==
    IF \E w \in Live(p) : p.task[w] = Idle THEN p
    ELSE LET w == CHOOSE w \in Workers : w \notin p.made
         IN  [p EXCEPT !.made = @ \cup {w},
                       !.task = [v \in Live(p) \cup {w} |->
                                    IF v = w THEN Idle ELSE p.task[v]]]

StartHead(p) ==
    LET q == WithSlot(p)
        w == CHOOSE w \in Live(q) : q.task[w] = Idle
        t == Head(q.queue)
    IN  [q EXCEPT !.task[w] = t, !.queue = Tail(@), !.timed = @ \ {t}]

Pump(p) ==
    FoldLeft(LAMBDA q, t : IF ~q.closed /\ HasSlot(q) THEN StartHead(q) ELSE q,
             p, p.queue)

Settle(p, ts, a) ==
    [p EXCEPT !.answer = [t \in Tasks |-> IF t \in ts THEN a ELSE @[t]]]

Submit(p, t) ==
    IF p.closed \/ (~HasSlot(p) /\ Len(p.queue) >= MaxQueue)
    THEN Settle(p, {t}, "refused")
    ELSE Pump([(IF HasSlot(p) THEN WithSlot(p) ELSE p) EXCEPT
                 !.queue = Append(@, t),
                 !.timed = IF HasSlot(p) THEN @ ELSE @ \cup {t}])

(* The timer of a waiting call fires.                                      *)
TimedOut(p, t) ==
    Settle([p EXCEPT !.queue = RemoveFirst(@, t), !.timed = @ \ {t}],
           {t}, "refused")

(* Faults: a handler that frees a worker and forgets who waits; one that   *)
(* forgets the task of the worker that died.                               *)
AnsweredUnpumped(p, w, a) ==
    Settle([p EXCEPT !.task[w] = Idle], {p.task[w]}, a)
LostUnsettled(p, w) ==
    Pump([p EXCEPT !.task = [v \in Live(p) \ {w} |-> @[v]]])

(* A worker's message: w has a task.                                       *)
Answered(p, w, a) ==
    Pump(Settle([p EXCEPT !.task[w] = Idle], {p.task[w]}, a))

(* A worker dies, idle or at work.  Its second event (exit after error)    *)
(* finds the slot gone and only pumps, which changes nothing more.         *)
Lost(p, w) ==
    Pump(Settle([p EXCEPT !.task = [v \in Live(p) \ {w} |-> @[v]]],
                {p.task[w]} \ {Idle}, "refused"))

Closed(p) ==
    Settle([p EXCEPT !.closed = TRUE, !.queue = <<>>, !.timed = {},
                     !.task = <<>>],
           Waiting(p) \cup Running(p), "refused")

(* The caller has taken the answer.  A busy pool, a comparison that does   *)
(* not match and one that fails are all "refused".                         *)
Taken(p, t) == Settle(p, {t}, "none")

(* Nobody waits beside a worker that is free or could be made; each        *)
(* waiting call has its timer; workers and waiting calls are limited.      *)
Used(p) ==
    /\ p.queue # <<>> => ~HasSlot(p)
    /\ Waiting(p) = p.timed
    /\ Cardinality(Live(p)) <= Size
    /\ Len(p.queue) <= MaxQueue
=============================================================================
