---------------------------- MODULE FileDeletion ----------------------------
(***************************************************************************)
(* The removal of deleted files' bytes: lib/file-deletion.js, the queue    *)
(* that softDeleteFileWithQuota feeds.                                     *)
(*                                                                         *)
(* A job is claimed under a lease, which counts an attempt; the worker     *)
(* asks the storage to delete the object and then settles the job, if the  *)
(* row still carries the attempt it claimed.  Jobs that fail too often, or *)
(* whose workers die too often, are parked as DEAD, and an operator may    *)
(* put them back with their attempts at zero.                              *)
(*                                                                         *)
(* One action is one statement.  A task is what one claim set in motion;   *)
(* tasks belong to no worker in particular, since a sweep starts without   *)
(* waiting for the last one and any of them may outlive its lease.         *)
(***************************************************************************)
EXTENDS Integers, FiniteSets

CONSTANTS
    Files,          \* files of the account
    MaxAttempts,    \* attempts after which a failure is final
    Batch,          \* jobs that one sweep claims
    AttemptBound,   \* bound: a job is not claimed past this attempt
    RequeueBound    \* bound: how often the operator requeues a job

ASSUME DeletionAssumption ==
    /\ IsFiniteSet(Files)
    /\ MaxAttempts \in Nat \ {0}
    /\ Batch \in Nat \ {0}
    /\ AttemptBound \in Nat
    /\ RequeueBound \in Nat

VARIABLES
    file,       \* File.status
    stored,     \* files whose object is in storage
    status,     \* FileDeletion.status; "NONE" when there is no row
    attempts,   \* FileDeletion.attempts
    due,        \* nextAttemptAt is not in the future
    lease,      \* lockedUntil: none, in the future, in the past
    tasks,      \* claims whose workers have not finished
    requeued,   \* history: how often the job was put back
    claims      \* history: how often the job was claimed

jobVars == <<status, attempts, due, lease>>
history == <<requeued, claims>>
vars == <<file, stored, jobVars, tasks, history>>

Statuses == {"NONE", "PENDING", "DONE", "DEAD"}
Stages == {"claimed", "gone", "failed"}

(* A task knows its job and the attempt it claimed; round and serial are   *)
(* history: the requeue it belongs to and its place among all claims.      *)
Task(f, s) == [file |-> f, attempt |-> attempts[f] + 1, stage |-> s,
               round |-> requeued[f], serial |-> claims[f] + 1]

Init ==
    /\ file = [f \in Files |-> "ACTIVE"]
    /\ stored = Files
    /\ status = [f \in Files |-> "NONE"]
    /\ attempts = [f \in Files |-> 0]
    /\ due = [f \in Files |-> FALSE]
    /\ lease = [f \in Files |-> "none"]
    /\ tasks = {}
    /\ requeued = [f \in Files |-> 0]
    /\ claims = [f \in Files |-> 0]

-----------------------------------------------------------------------------
(* The job is queued by the statement that deletes the file.               *)
DeleteFile(f) ==
    /\ file[f] = "ACTIVE"
    /\ file' = [file EXCEPT ![f] = "DELETED"]
    /\ status' = [status EXCEPT ![f] = "PENDING"]
    /\ due' = [due EXCEPT ![f] = TRUE]
    /\ UNCHANGED <<stored, attempts, lease, tasks, history>>

Claimable(f) ==
    /\ status[f] = "PENDING" /\ due[f] /\ lease[f] # "live"
    /\ attempts[f] < AttemptBound

(* One sweep, or the DELETE request for its own file: attempts are counted *)
(* when the jobs are claimed, not when they fail.  The claim itself does   *)
(* not look at MaxAttempts.                                                *)
Claim(S) ==
    /\ S # {} /\ Cardinality(S) <= Batch
    /\ \A f \in S : Claimable(f)
    /\ attempts' = [f \in Files |-> IF f \in S THEN attempts[f] + 1 ELSE attempts[f]]
    /\ lease' = [f \in Files |-> IF f \in S THEN "live" ELSE lease[f]]
    /\ claims' = [f \in Files |-> IF f \in S THEN claims[f] + 1 ELSE claims[f]]
    /\ tasks' = tasks \cup {Task(f, "claimed") : f \in S}
    /\ UNCHANGED <<file, stored, status, due, requeued>>

(* The storage deletes the object, finds it gone, or fails, before or      *)
(* after it was removed.                                                   *)
DeleteObject(t) ==
    /\ t.stage = "claimed"
    /\ \/ /\ stored' = stored \ {t.file}
          /\ \E s \in {"gone", "failed"} :
                tasks' = (tasks \ {t}) \cup {[t EXCEPT !.stage = s]}
       \/ /\ tasks' = (tasks \ {t}) \cup {[t EXCEPT !.stage = "failed"]}
          /\ UNCHANGED stored
    /\ UNCHANGED <<file, jobVars, history>>

(* Fault: any worker settles a job that is still pending.                  *)
MaySettleUnfenced(t) == status[t.file] = "PENDING"

(* The compare-and-set of a settlement.                                    *)
MaySettle(t) == status[t.file] = "PENDING" /\ attempts[t.file] = t.attempt

Settle(t, st, isDue) ==
    /\ tasks' = tasks \ {t}
    /\ \/ /\ MaySettle(t)
          /\ status' = [status EXCEPT ![t.file] = st]
          /\ due' = [due EXCEPT ![t.file] = isDue]
          /\ lease' = [lease EXCEPT ![t.file] = "none"]
       \/ ~MaySettle(t) /\ UNCHANGED <<status, due, lease>>
    /\ UNCHANGED <<file, stored, attempts, history>>

SettleDone(t) == t.stage = "gone" /\ Settle(t, "DONE", due[t.file])

(* Fault: the last failure counts as the end of the job.                   *)
SettleFailedAsDone(t) ==
    /\ t.stage = "failed"
    /\ Settle(t, IF t.attempt >= MaxAttempts THEN "DONE" ELSE "PENDING", FALSE)

(* A failure is retried after a pause, or is the last one.                 *)
SettleFailed(t) ==
    /\ t.stage = "failed"
    /\ Settle(t, IF t.attempt >= MaxAttempts THEN "DEAD" ELSE "PENDING", FALSE)

(* The worker dies, or its settlement fails: the job keeps its lease.      *)
Lost(t) ==
    /\ tasks' = tasks \ {t}
    /\ UNCHANGED <<file, stored, jobVars, history>>

(* Fault: a job that has used its attempts is parked while a worker may    *)
(* still be at it.                                                         *)
ExhaustedOrRunning(f) ==
    /\ status[f] = "PENDING" /\ attempts[f] >= MaxAttempts
    /\ lease[f] # "none"

(* Fault: exhausted jobs whose workers died are left pending.              *)
ExhaustedNever(f) == FALSE

Exhausted(f) ==
    /\ status[f] = "PENDING" /\ attempts[f] >= MaxAttempts
    /\ lease[f] = "lapsed"

(* Fault: parking a job leaves it locked.                                  *)
DeadLetterKeepingLock ==
    /\ \E f \in Files : Exhausted(f)
    /\ status' = [f \in Files |-> IF Exhausted(f) THEN "DEAD" ELSE status[f]]
    /\ UNCHANGED <<file, stored, attempts, due, lease, tasks, history>>

(* deadLetterExhaustedFileDeletions, before every sweep; its failure is    *)
(* ignored.                                                                *)
DeadLetter ==
    /\ \E f \in Files : Exhausted(f)
    /\ status' = [f \in Files |-> IF Exhausted(f) THEN "DEAD" ELSE status[f]]
    /\ lease' = [f \in Files |-> IF Exhausted(f) THEN "none" ELSE lease[f]]
    /\ UNCHANGED <<file, stored, attempts, due, tasks, history>>

Dead == {f \in Files : status[f] = "DEAD"}

(* requeueDeadFileDeletions, by an operator: every dead job starts again.  *)
Requeue ==
    /\ Dead # {} /\ \A f \in Dead : requeued[f] < RequeueBound
    /\ status' = [f \in Files |-> IF f \in Dead THEN "PENDING" ELSE status[f]]
    /\ attempts' = [f \in Files |-> IF f \in Dead THEN 0 ELSE attempts[f]]
    /\ due' = [f \in Files |-> due[f] \/ f \in Dead]
    /\ lease' = [f \in Files |-> IF f \in Dead THEN "none" ELSE lease[f]]
    /\ requeued' = [f \in Files |-> requeued[f] + (IF f \in Dead THEN 1 ELSE 0)]
    /\ UNCHANGED <<file, stored, tasks, claims>>

(* Finished rows are removed after some days.                              *)
Prune(f) ==
    /\ status[f] = "DONE"
    /\ status' = [status EXCEPT ![f] = "NONE"]
    /\ UNCHANGED <<file, stored, attempts, due, lease, tasks, history>>

(* Time.                                                                   *)
LeaseLapses(f) ==
    /\ lease[f] = "live"
    /\ lease' = [lease EXCEPT ![f] = "lapsed"]
    /\ UNCHANGED <<file, stored, status, attempts, due, tasks, history>>

BackoffEnds(f) ==
    /\ status[f] = "PENDING" /\ ~due[f]
    /\ due' = [due EXCEPT ![f] = TRUE]
    /\ UNCHANGED <<file, stored, status, attempts, lease, tasks, history>>

Next ==
    \/ \E f \in Files : DeleteFile(f) \/ Prune(f) \/ LeaseLapses(f) \/ BackoffEnds(f)
    \/ \E S \in SUBSET Files : Claim(S)
    \/ \E t \in tasks : DeleteObject(t) \/ SettleDone(t) \/ SettleFailed(t) \/ Lost(t)
    \/ DeadLetter
    \/ Requeue

Spec == Init /\ [][Next]_vars

(* Time passes, and a sweep runs every minute, oldest jobs first; the      *)
(* statement that parks jobs may fail, not every time.  Nothing is asked   *)
(* of the workers: each may stall for ever.                                *)
Fairness ==
    /\ \A f \in Files :
          /\ WF_vars(LeaseLapses(f)) /\ WF_vars(BackoffEnds(f))
          /\ WF_vars(\E S \in SUBSET Files : f \in S /\ Claim(S))
    /\ SF_vars(DeadLetter)

FairSpec == Spec /\ Fairness

-----------------------------------------------------------------------------
(* Properties.                                                             *)

(* Types: jobs, tasks and the two histories; only a pending job is locked, *)
(* and its attempts are claims.                                            *)
TypeOK ==
    /\ file \in [Files -> {"ACTIVE", "DELETED"}]
    /\ stored \subseteq Files
    /\ status \in [Files -> Statuses]
    /\ attempts \in [Files -> Nat]
    /\ due \in [Files -> BOOLEAN]
    /\ lease \in [Files -> {"none", "live", "lapsed"}]
    /\ tasks \subseteq [file : Files, attempt : Nat, stage : Stages,
                        round : Nat, serial : Nat]
    /\ requeued \in [Files -> Nat]
    /\ claims \in [Files -> Nat]
    /\ \A f \in Files :
          /\ attempts[f] <= claims[f]
          /\ status[f] # "PENDING" => lease[f] = "none"

(* The bytes of a deleted file are never forgotten: while they are in      *)
(* storage there is a job for them that is pending or waits for an         *)
(* operator.                                                               *)
LeftoverBytesAreQueued ==
    \A f \in stored : file[f] = "DELETED" => status[f] \in {"PENDING", "DEAD"}

(* A worker ends and takes its job with it: done, parked, or back to wait  *)
(* for another attempt.                                                    *)
Settles(t) ==
    /\ tasks' = tasks \ {t}
    /\ \/ status'[t.file] # status[t.file]
       \/ due'[t.file] # due[t.file]
       \/ lease'[t.file] # lease[t.file]

(* A worker that finishes after another has claimed its job changes        *)
(* nothing of it, neither how it stands nor when it is due nor who has it: *)
(* between two requeues only the newest claim settles a job.               *)
LateWorkersChangeNothing ==
    [][\A t \in tasks :
          Settles(t) /\ t.round = requeued[t.file] => t.serial = claims[t.file]]_vars

(* The same over the whole life of a job.  Requeueing starts the attempts  *)
(* at zero again, so an old claim's number comes back: this is violated.   *)
OnlyNewestClaimSettles ==
    [][\A t \in tasks : Settles(t) => t.serial = claims[t.file]]_vars

(* While the lease of a claim lasts, nothing ends it but a worker that     *)
(* finishes: no housekeeping of a replica, and of the workers since the    *)
(* last requeue only the one whose claim it is.                            *)
LiveClaimIsKept ==
    [][\A f \in Files :
          (lease[f] = "live" /\ lease'[f] = "none") =>
             \E t \in tasks :
                /\ t.file = f /\ tasks' = tasks \ {t}
                /\ t.round = requeued[f] => t.serial = claims[f]]_vars

(* No job is retried for ever: it ends done or parked, though workers die, *)
(* stall, or lose their settlements at any attempt.                        *)
JobsEnd == \A f \in Files : []<>(status[f] # "PENDING")

=============================================================================
