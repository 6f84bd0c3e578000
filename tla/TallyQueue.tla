----------------------------- MODULE TallyQueue -----------------------------
(***************************************************************************)
(* The queue of tally proof jobs (table zkp_tally_jobs and its SQL         *)
(* functions) and the worker processes that drain it                       *)
(* (services/zkpTallyWorkerService.ts).  A poll has at most one job row    *)
(* (poll_id is unique), so a job is named by its poll.                     *)
(*                                                                         *)
(* Each SQL function and each PostgREST request is one atomic step; a      *)
(* worker's cycle is split where it awaits one.  Time is abstracted to two *)
(* booleans per row: due (next_attempt_at <= now()) and expired            *)
(* (locked_at < now() - lock timeout).                                     *)
(***************************************************************************)
EXTENDS Naturals

CONSTANTS Polls, Workers, NoWorker, NoPoll,
          AttemptLimits,   \* the values ZKP_TALLY_WORKER_MAX_ATTEMPTS takes
          MaxRestarts      \* bound: how often worker processes go down

ASSUME NamesAssumption == NoWorker \notin Workers /\ NoPoll \notin Polls
ASSUME LimitsAssumption == AttemptLimits \subseteq Nat \ {0}
ASSUME RestartsAssumption == MaxRestarts \in Nat

VARIABLES
    \* zkp_tally_jobs: one function per column, "absent" before the insert
    status, attempts, maxAttempts, lockedBy, due, expired, errorCode, jobHash,
    \* other tables the worker reads or writes
    proofs,      \* proofs[p]: rows of poll_tally_proofs
    hasOwner,    \* polls.created_by_user_id is not null
    \* worker processes
    pc, task, failure, selected,
    \* history and bound
    claimNo,     \* claimNo[p]: how often p's job was claimed
    token,       \* token[w]: claimNo of the claim w's cycle works for
    restarts

columns == <<status, attempts, maxAttempts, lockedBy, due, expired, errorCode,
             jobHash>>
vars == <<columns, proofs, hasOwner, pc, task, failure, selected, claimNo,
          token, restarts>>

Statuses == {"absent", "pending", "running", "succeeded", "failed"}

\* Error codes, as far as the queue tells them apart: "recoverable" stands
\* for RECOVERABLE_FAILED_JOB_ERROR_CODES, "other" for every other code.
Codes == {"none", "recoverable", "other"}

\* The steps of processNextJob that follow a claim.
CycleSteps == {"loading", "checking", "proving", "submitting", "completing", "failing"}

InCycle(w) == pc[w] \in CycleSteps

Init ==
    /\ status = [p \in Polls |-> "absent"]
    /\ attempts = [p \in Polls |-> 0]
    /\ maxAttempts = [p \in Polls |-> 0]
    /\ lockedBy = [p \in Polls |-> NoWorker]
    /\ due = [p \in Polls |-> FALSE]
    /\ expired = [p \in Polls |-> FALSE]
    /\ errorCode = [p \in Polls |-> "none"]
    /\ jobHash = [p \in Polls |-> FALSE]
    /\ proofs = [p \in Polls |-> 0]
    /\ hasOwner = [p \in Polls |-> TRUE]
    /\ pc = [w \in Workers |-> "down"]
    /\ task = [w \in Workers |-> NoPoll]
    /\ failure = [w \in Workers |-> [code |-> "none", retryable |-> FALSE]]
    /\ selected = [w \in Workers |-> {}]
    /\ claimNo = [p \in Polls |-> 0]
    /\ token = [w \in Workers |-> 0]
    /\ restarts = 0

-----------------------------------------------------------------------------
(* The SQL functions of the queue. *)

\* Mutant: a takeover leaves the lock's first owner in place.
TakeLockIfFree(w, p) ==
    /\ lockedBy' = [lockedBy EXCEPT ![p] = IF @ = NoWorker THEN w ELSE @]
    /\ expired' = [expired EXCEPT ![p] = FALSE]

TakeLock(w, p) ==
    /\ lockedBy' = [lockedBy EXCEPT ![p] = w]
    /\ expired' = [expired EXCEPT ![p] = FALSE]

\* Mutant: the settled row keeps its locked_by.
ReleaseLockKeepingOwner(p) ==
    /\ lockedBy' = lockedBy
    /\ expired' = [expired EXCEPT ![p] = FALSE]

ReleaseLock(p) ==
    /\ lockedBy' = [lockedBy EXCEPT ![p] = NoWorker]
    /\ expired' = [expired EXCEPT ![p] = FALSE]

\* enqueue_zkp_tally_job: insert, or reopen a failed job.  A reopened job
\* keeps its attempts; a pending, running or succeeded one stays as it is.
Enqueue(p) ==
    /\ \E limit \in AttemptLimits :
         maxAttempts' = [maxAttempts EXCEPT ![p] = IF @ > limit THEN @ ELSE limit]
    /\ IF status[p] \in {"absent", "failed"}
         THEN /\ status' = [status EXCEPT ![p] = "pending"]
              /\ ReleaseLock(p)
              /\ due' = [due EXCEPT ![p] = TRUE]
              /\ errorCode' = [errorCode EXCEPT ![p] = "none"]
         ELSE UNCHANGED <<status, lockedBy, due, expired, errorCode>>
    /\ UNCHANGED <<attempts, jobHash, proofs, hasOwner, pc, task, failure,
                   selected, claimNo, token, restarts>>

\* Mutant: the attempts are compared with an off-by-one.
ClaimableOnceMore(p) ==
    /\ \/ status[p] = "pending" /\ due[p]
       \/ status[p] = "running" /\ expired[p]
    /\ attempts[p] <= maxAttempts[p]

\* Mutant: expired locks are not taken over.
ClaimablePending(p) ==
    /\ status[p] = "pending" /\ due[p]
    /\ attempts[p] < maxAttempts[p]

Claimable(p) ==
    /\ \/ status[p] = "pending" /\ due[p]
       \/ status[p] = "running" /\ expired[p]
    /\ attempts[p] < maxAttempts[p]

\* claim_zkp_tally_job: a claimable row becomes running under w's lock and w's
\* cycle starts.  The oldest row comes first, but a row that another statement
\* has locked is skipped, so any claimable row may be the candidate.
Claim(w, p) ==
    /\ pc[w] = "ready"
    /\ Claimable(p)
    /\ status' = [status EXCEPT ![p] = "running"]
    /\ attempts' = [attempts EXCEPT ![p] = @ + 1]
    /\ TakeLock(w, p)
    /\ errorCode' = [errorCode EXCEPT ![p] = "none"]
    /\ pc' = [pc EXCEPT ![w] = "loading"]
    /\ task' = [task EXCEPT ![w] = p]
    /\ claimNo' = [claimNo EXCEPT ![p] = @ + 1]
    /\ token' = [token EXCEPT ![w] = claimNo[p] + 1]
    /\ UNCHANGED <<maxAttempts, due, jobHash, proofs, hasOwner, failure,
                   selected, restarts>>

\* Mutant: the where clause names only the row and its status.
IsRunning(w, p) == status[p] = "running"

\* The where clause shared by complete_ and fail_zkp_tally_job.
HoldsLock(w, p) == status[p] = "running" /\ lockedBy[p] = w

\* w's cycle is over: the loop sleeps and claims again.
EndCycle(w) ==
    /\ pc' = [pc EXCEPT ![w] = "ready"]
    /\ task' = [task EXCEPT ![w] = NoPoll]

\* complete_zkp_tally_job.  When the row is not w's any more no row is
\* updated, the repository throws and the loop drops the cycle.
Complete(w) ==
    LET p == task[w] IN
    /\ pc[w] = "completing"
    /\ IF HoldsLock(w, p)
         THEN /\ status' = [status EXCEPT ![p] = "succeeded"]
              /\ ReleaseLock(p)
              /\ due' = [due EXCEPT ![p] = TRUE]
              /\ errorCode' = [errorCode EXCEPT ![p] = "none"]
              /\ jobHash' = [jobHash EXCEPT ![p] = TRUE]
         ELSE UNCHANGED <<status, lockedBy, due, expired, errorCode, jobHash>>
    /\ EndCycle(w)
    /\ UNCHANGED <<attempts, maxAttempts, proofs, hasOwner, failure,
                   selected, claimNo, token, restarts>>

\* fail_zkp_tally_job: failed when the error is final or the attempts are
\* used up, otherwise pending again after the retry delay.
Fail(w) ==
    LET p == task[w]
        final == ~failure[w].retryable \/ attempts[p] >= maxAttempts[p] IN
    /\ pc[w] = "failing"
    /\ IF HoldsLock(w, p)
         THEN /\ status' = [status EXCEPT ![p] = IF final THEN "failed" ELSE "pending"]
              /\ ReleaseLock(p)
              /\ due' = [due EXCEPT ![p] = final]
              /\ errorCode' = [errorCode EXCEPT ![p] = failure[w].code]
         ELSE UNCHANGED <<status, lockedBy, due, expired, errorCode>>
    /\ EndCycle(w)
    /\ UNCHANGED <<attempts, maxAttempts, jobHash, proofs, hasOwner,
                   failure, selected, claimNo, token, restarts>>
-----------------------------------------------------------------------------
(* The worker's cycle between claim and settlement (processNextJob). *)

workerOnly == <<columns, hasOwner, selected, claimNo, token, restarts>>

GoTo(w, step) == pc' = [pc EXCEPT ![w] = step]

\* The cycle ends in repository.fail with this code.  classifyRetryable
\* retries every recoverable code, and any other whose message looks
\* transient.
FailWith(w, code, transient) ==
    /\ GoTo(w, "failing")
    /\ failure' = [failure EXCEPT ![w] =
                     [code |-> code, retryable |-> code = "recoverable" \/ transient]]

\* The poll is read without the status refresh; POLL_OWNER_MISSING is final.
LoadPoll(w) ==
    /\ pc[w] = "loading"
    /\ IF hasOwner[task[w]]
         THEN GoTo(w, "checking") /\ UNCHANGED failure
         ELSE FailWith(w, "other", FALSE)
    /\ UNCHANGED <<workerOnly, proofs, task>>

\* Mutant: the result of the proof query is not looked at.
CompleteUnchecked(w) ==
    /\ pc[w] = "checking"
    /\ GoTo(w, "completing")
    /\ UNCHANGED <<workerOnly, proofs, task, failure>>

\* A tally proof recorded by an earlier attempt completes the job at once.
CheckExistingProof(w) ==
    /\ pc[w] = "checking"
    /\ GoTo(w, IF proofs[task[w]] > 0 THEN "completing" ELSE "proving")
    /\ UNCHANGED <<workerOnly, proofs, task, failure>>

\* generateProofForPoll: a proof, or any of its failures.
Prove(w) ==
    /\ pc[w] = "proving"
    /\ \/ GoTo(w, "submitting") /\ UNCHANGED failure
       \/ FailWith(w, "recoverable", FALSE)
       \/ \E transient \in BOOLEAN : FailWith(w, "other", transient)
    /\ UNCHANGED <<workerOnly, proofs, task>>

\* submitTallyProof on behalf of the owner read by LoadPoll: POLL_NOT_OWNED
\* when the owner is gone by now; otherwise verified and inserted, or
\* rejected.
SubmitProof(w) ==
    /\ pc[w] = "submitting"
    /\ \/ /\ hasOwner[task[w]]
          /\ proofs' = [proofs EXCEPT ![task[w]] = @ + 1]
          /\ GoTo(w, "completing")
          /\ UNCHANGED failure
       \/ /\ \E transient \in BOOLEAN : FailWith(w, "other", transient)
          /\ UNCHANGED proofs
    /\ UNCHANGED <<workerOnly, task>>

\* Any await of the cycle may throw (the heartbeat, a read, the audit event
\* after the proof was inserted): the loop logs it and the row stays running.
Throw(w) ==
    /\ InCycle(w)
    /\ EndCycle(w)
    /\ UNCHANGED <<workerOnly, proofs, failure>>
-----------------------------------------------------------------------------
(* Worker processes and the rest of the world. *)

Start(w) ==
    /\ pc[w] = "down"
    /\ GoTo(w, "booting")
    /\ UNCHANGED <<workerOnly, proofs, task, failure>>

\* requeueRecoverableFailed, first request: the ids of the failed jobs.
Recoverable(p) ==
    status[p] = "failed" /\ errorCode[p] = "recoverable" /\ ~jobHash[p]

SelectRecoverable(w) ==
    /\ pc[w] = "booting"
    /\ selected' = [selected EXCEPT ![w] = {p \in Polls : Recoverable(p)}]
    /\ GoTo(w, IF \E p \in Polls : Recoverable(p) THEN "requeueing" ELSE "ready")
    /\ UNCHANGED <<columns, proofs, hasOwner, task, failure, claimNo, token, restarts>>

\* Second request: the rows with these ids, whatever their status is now.
Requeue(w) ==
    LET Update(column, value) ==
          [p \in Polls |-> IF p \in selected[w] THEN value ELSE column[p]] IN
    /\ pc[w] = "requeueing"
    /\ status' = Update(status, "pending")
    /\ attempts' = Update(attempts, 0)
    /\ \E limit \in AttemptLimits : maxAttempts' = Update(maxAttempts, limit)
    /\ lockedBy' = Update(lockedBy, NoWorker)
    /\ due' = Update(due, TRUE)
    /\ expired' = Update(expired, FALSE)
    /\ errorCode' = Update(errorCode, "none")
    /\ selected' = [selected EXCEPT ![w] = {}]
    /\ GoTo(w, "ready")
    /\ UNCHANGED <<jobHash, proofs, hasOwner, task, failure, claimNo,
                   token, restarts>>

\* The process stops: a crash at any step, a failed boot, or SIGTERM, which
\* takes effect when the cycle is over.
GoDown(w) ==
    /\ pc[w] # "down"
    /\ restarts < MaxRestarts
    /\ restarts' = restarts + 1
    /\ GoTo(w, "down")
    /\ task' = [task EXCEPT ![w] = NoPoll]
    /\ selected' = [selected EXCEPT ![w] = {}]
    /\ UNCHANGED <<columns, proofs, hasOwner, failure, claimNo, token>>

\* The lock timeout passes, also while the worker is still proving.
LockExpires(p) ==
    /\ status[p] = "running" /\ ~expired[p]
    /\ expired' = [expired EXCEPT ![p] = TRUE]
    /\ UNCHANGED <<status, attempts, maxAttempts, lockedBy, due, errorCode,
                   jobHash, proofs, hasOwner, pc, task, failure,
                   selected, claimNo, token, restarts>>

RetryDelayPasses(p) ==
    /\ status[p] = "pending" /\ ~due[p]
    /\ due' = [due EXCEPT ![p] = TRUE]
    /\ UNCHANGED <<status, attempts, maxAttempts, lockedBy, expired, errorCode,
                   jobHash, proofs, hasOwner, pc, task, failure,
                   selected, claimNo, token, restarts>>

\* Account deletion clears polls.created_by_user_id.
OwnerDeleted(p) ==
    /\ hasOwner[p]
    /\ hasOwner' = [hasOwner EXCEPT ![p] = FALSE]
    /\ UNCHANGED <<columns, proofs, pc, task, failure, selected, claimNo, token,
                   restarts>>

WorkerStep(w) ==
    \/ Start(w) \/ SelectRecoverable(w) \/ Requeue(w)
    \/ \E p \in Polls : Claim(w, p)
    \/ LoadPoll(w) \/ CheckExistingProof(w) \/ Prove(w) \/ SubmitProof(w)
    \/ Complete(w) \/ Fail(w)

TimePasses(p) == LockExpires(p) \/ RetryDelayPasses(p)

Next ==
    \/ \E w \in Workers : WorkerStep(w) \/ Throw(w) \/ GoDown(w)
    \/ \E p \in Polls : Enqueue(p) \/ TimePasses(p) \/ OwnerDeleted(p)

\* A process that is up keeps looping, one that is down is started again by
\* its supervisor, and time passes.
Fairness ==
    /\ \A w \in Workers : WF_vars(WorkerStep(w))
    /\ \A p \in Polls : WF_vars(TimePasses(p))

Spec == Init /\ [][Next]_vars /\ Fairness
-----------------------------------------------------------------------------
(* Properties. *)

RowTypes ==
    /\ status \in [Polls -> Statuses]
    /\ attempts \in [Polls -> Nat]
    /\ maxAttempts \in [Polls -> Nat]
    /\ lockedBy \in [Polls -> Workers \cup {NoWorker}]
    /\ due \in [Polls -> BOOLEAN]
    /\ expired \in [Polls -> BOOLEAN]
    /\ errorCode \in [Polls -> Codes]
    /\ jobHash \in [Polls -> BOOLEAN]
    /\ proofs \in [Polls -> Nat]
    /\ hasOwner \in [Polls -> BOOLEAN]
    /\ claimNo \in [Polls -> Nat]

WorkerTypes ==
    /\ pc \in [Workers -> {"down", "booting", "requeueing", "ready"} \cup CycleSteps]
    /\ task \in [Workers -> Polls \cup {NoPoll}]
    /\ failure \in [Workers -> [code : Codes, retryable : BOOLEAN]]
    /\ selected \in [Workers -> SUBSET Polls]
    /\ token \in [Workers -> Nat]
    /\ restarts \in Nat

RunningIsLocked == \A p \in Polls : lockedBy[p] \in Workers <=> status[p] = "running"

CycleHasTask == \A w \in Workers : task[w] \in Polls <=> InCycle(w)

\* The columns and the workers' variables have their types, exactly the
\* running rows are locked, and exactly the workers in a cycle have a job.
TypeOK == RowTypes /\ WorkerTypes /\ RunningIsLocked /\ CycleHasTask

\* A job reported as succeeded has a recorded tally proof, whichever worker,
\* attempt or takeover completed it: the auto publisher relies on it.
SucceededHasProof ==
    \A p \in Polls : status[p] = "succeeded" => proofs[p] > 0 /\ jobHash[p]

\* A cycle about to complete its job saw or recorded a proof of its poll: what
\* makes SucceededHasProof inductive.
CompletingHasProof ==
    \A w \in Workers : pc[w] = "completing" => proofs[task[w]] > 0

\* Rows are never deleted while a worker works for them or requeues them.
RowsExist ==
    /\ \A w \in Workers : InCycle(w) => status[task[w]] # "absent"
    /\ \A w \in Workers : \A p \in selected[w] : status[p] # "absent"

\* No sequence of claims, failures, reopenings and requeues charges a row
\* more attempts than its limit allows.
AttemptsWithinLimit == \A p \in Polls : attempts[p] <= maxAttempts[p]

\* The where clause of complete_ and fail_zkp_tally_job is a sufficient
\* fencing token: a cycle that passes it works for the latest claim of the
\* row, never for a claim that was taken over or requeued meanwhile.
LockIsLatestClaim ==
    \A w \in Workers :
        InCycle(w) /\ HoldsLock(w, task[w]) => token[w] = claimNo[task[w]]

\* A running job leaves that status through the cycle of its latest claim, or
\* because a starting worker requeues the ids it selected; never through a
\* worker whose lock was taken over.
SettledByLatestClaim ==
    \A p \in Polls :
        status[p] = "running" /\ status'[p] # "running" =>
          \E w \in Workers :
             \/ pc[w] \in {"completing", "failing"} /\ task[w] = p /\ token[w] = claimNo[p]
             \/ pc[w] = "requeueing" /\ p \in selected[w]

OnlyLatestClaimSettles == [][SettledByLatestClaim]_vars

\* A job that still has attempts is not forgotten, whatever crashes, lost
\* locks and errors happen: it succeeds, fails, or uses its attempts up.
ClaimableJobsAreServed ==
    \A p \in Polls :
        (status[p] \in {"pending", "running"} /\ attempts[p] < maxAttempts[p])
          ~> (status[p] \in {"succeeded", "failed"} \/ attempts[p] = maxAttempts[p])

\* The rows and workers implement a lease queue in which a requeue may
\* reopen an item in any phase.
PhaseName(s) ==
    CASE s = "absent" -> "absent"
      [] s = "pending" -> "waiting"
      [] s = "running" -> "leased"
      [] s = "succeeded" -> "done"
      [] s = "failed" -> "dead"

phaseOf == [p \in Polls |-> PhaseName(status[p])]

provenPolls == {p \in Polls : proofs[p] > 0}

Queue ==
    INSTANCE LeaseQueue WITH
        Items <- Polls, Holders <- Workers, Nobody <- NoWorker,
        Reopenable <- {"waiting", "leased", "done", "dead"},
        phase <- phaseOf, lease <- lockedBy, performed <- provenPolls

ImplementsLeaseQueue == Queue!QueueSpec

\* What publishPollAudit answers after an enqueue: "Tally proof generation
\* has been queued."  A pending job is one that a worker can claim, now or
\* after its retry delay.
QueuedJobCanBeClaimed ==
    \A p \in Polls : status[p] = "pending" => attempts[p] < maxAttempts[p]
=============================================================================
