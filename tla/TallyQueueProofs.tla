-------------------------- MODULE TallyQueueProofs --------------------------
(***************************************************************************)
(* The safety properties of TallyQueue for any number of polls and worker  *)
(* processes, any attempt limits and any number of restarts.               *)
(***************************************************************************)
EXTENDS TallyQueue, TLAPS

-----------------------------------------------------------------------------
(* Type correctness, one part of TypeOK at a time. *)

USE DEF InCycle, CycleSteps, GoTo, EndCycle, workerOnly, columns

\* An empty job table and stopped workers have their types.
LEMMA TypeInit == Init => TypeOK
BY NamesAssumption
   DEF Init, TypeOK, RowTypes, WorkerTypes, RunningIsLocked, CycleHasTask, Statuses, Codes

\* Attempt limits are numbers.
LEMMA LimitTypes == AttemptLimits \subseteq Nat
BY LimitsAssumption

\* Every statement on zkp_tally_jobs keeps the columns typed.
LEMMA RowTypesNext ==
    ASSUME TypeOK, [Next]_vars PROVE RowTypes'
<1> USE DEF TypeOK, RowTypes, Statuses
<1>1. ASSUME NEW p \in Polls, Enqueue(p) PROVE RowTypes'
  <2>1. PICK limit \in AttemptLimits :
           maxAttempts' = [maxAttempts EXCEPT ![p] = IF @ > limit THEN @ ELSE limit]
    BY <1>1 DEF Enqueue
  <2>2. maxAttempts' \in [Polls -> Nat]
    BY <2>1, LimitTypes
  <2>3. CASE status[p] \in {"absent", "failed"}
    BY <1>1, <2>2, <2>3 DEF Enqueue, ReleaseLock, Codes
  <2>4. CASE status[p] \notin {"absent", "failed"}
    BY <1>1, <2>2, <2>4 DEF Enqueue
  <2> QED
    BY <2>3, <2>4
<1>2. ASSUME NEW w \in Workers, NEW p \in Polls, Claim(w, p) PROVE RowTypes'
  BY <1>2 DEF Claim, TakeLock, Codes
<1>3. ASSUME NEW w \in Workers, Complete(w) PROVE RowTypes'
  <2>1. CASE HoldsLock(w, task[w])
    BY <1>3, <2>1 DEF Complete, ReleaseLock, Codes
  <2>2. CASE ~HoldsLock(w, task[w])
    BY <1>3, <2>2 DEF Complete
  <2> QED
    BY <2>1, <2>2
<1>4. ASSUME NEW w \in Workers, Fail(w) PROVE RowTypes'
  <2> DEFINE final == ~failure[w].retryable \/ attempts[task[w]] >= maxAttempts[task[w]]
  <2>1. failure[w].code \in Codes /\ final \in BOOLEAN
    BY DEF WorkerTypes
  <2>2. CASE HoldsLock(w, task[w])
    <3>1. /\ status' = [status EXCEPT ![task[w]] = IF final THEN "failed" ELSE "pending"]
          /\ due' = [due EXCEPT ![task[w]] = final]
          /\ errorCode' = [errorCode EXCEPT ![task[w]] = failure[w].code]
      BY <1>4, <2>2 DEF Fail
    <3>2. due' \in [Polls -> BOOLEAN] /\ errorCode' \in [Polls -> Codes]
      BY <2>1, <3>1
    <3>3. status' \in [Polls -> Statuses]
      BY <3>1
    <3> QED
      BY <1>4, <2>2, <3>2, <3>3 DEF Fail, ReleaseLock
  <2>3. CASE ~HoldsLock(w, task[w])
    BY <1>4, <2>3 DEF Fail
  <2> QED
    BY <2>2, <2>3
<1>5. ASSUME NEW w \in Workers,
             \/ LoadPoll(w) \/ CheckExistingProof(w) \/ Prove(w) \/ Throw(w)
             \/ Start(w) \/ SelectRecoverable(w) \/ GoDown(w)
      PROVE  RowTypes'
  BY <1>5 DEF LoadPoll, CheckExistingProof, Prove, Throw, Start, SelectRecoverable, GoDown
<1>6. ASSUME NEW w \in Workers, SubmitProof(w) PROVE RowTypes'
  BY <1>6 DEF SubmitProof
<1>7. ASSUME NEW w \in Workers, Requeue(w) PROVE RowTypes'
  <2>1. PICK limit \in AttemptLimits :
           maxAttempts' = [p \in Polls |-> IF p \in selected[w] THEN limit ELSE maxAttempts[p]]
    BY <1>7 DEF Requeue
  <2>2. maxAttempts' \in [Polls -> Nat]
    BY <2>1, LimitTypes
  <2> QED
    BY <1>7, <2>2 DEF Requeue, Codes
<1>8. ASSUME NEW p \in Polls, TimePasses(p) \/ OwnerDeleted(p) PROVE RowTypes'
  BY <1>8 DEF TimePasses, LockExpires, RetryDelayPasses, OwnerDeleted
<1>9. CASE UNCHANGED vars
  BY <1>9 DEF vars
<1> QED
  BY <1>1, <1>2, <1>3, <1>4, <1>5, <1>6, <1>7, <1>8, <1>9 DEF Next, WorkerStep

\* A cycle that ends in repository.fail keeps the worker's variables typed.
LEMMA FailWithTypes ==
    ASSUME WorkerTypes, NEW w \in Workers, NEW code \in Codes, NEW transient \in BOOLEAN,
           FailWith(w, code, transient)
    PROVE  failure' \in [Workers -> [code : Codes, retryable : BOOLEAN]]
<1> DEFINE r == code = "recoverable" \/ transient
<1>1. [code |-> code, retryable |-> r] \in [code : Codes, retryable : BOOLEAN]
  OBVIOUS
<1>2. failure' = [failure EXCEPT ![w] = [code |-> code, retryable |-> r]]
  BY DEF FailWith
<1> QED
  BY <1>1, <1>2 DEF WorkerTypes

\* The two codes a worker reports are error codes.
LEMMA CodeTypes == {"other", "recoverable"} \subseteq Codes
BY DEF Codes

\* The failing alternatives of LoadPoll, Prove and SubmitProof.
LEMMA FailingTypes ==
    ASSUME TypeOK, NEW w \in Workers, NEW code \in {"other", "recoverable"},
           NEW transient \in BOOLEAN, FailWith(w, code, transient),
           UNCHANGED <<workerOnly, task>>, InCycle(w)
    PROVE  WorkerTypes' /\ CycleHasTask'
<1>1. failure' \in [Workers -> [code : Codes, retryable : BOOLEAN]]
  BY FailWithTypes, CodeTypes DEF TypeOK
<1>2. pc' = [pc EXCEPT ![w] = "failing"]
  BY DEF FailWith
<1> QED
  BY <1>1, <1>2 DEF TypeOK, WorkerTypes, CycleHasTask

\* Every step of a worker keeps the workers' variables typed.
LEMMA WorkerTypesNext ==
    ASSUME TypeOK, [Next]_vars PROVE WorkerTypes' /\ CycleHasTask'
<1> DEFINE Goal == WorkerTypes' /\ CycleHasTask'
<1>1. ASSUME NEW w \in Workers, NEW p \in Polls, Claim(w, p) PROVE Goal
  <2>1. token' \in [Workers -> Nat]
    BY <1>1 DEF TypeOK, RowTypes, WorkerTypes, Claim
  <2>2. task' \in [Workers -> Polls \cup {NoPoll}]
    BY <1>1 DEF TypeOK, WorkerTypes, Claim
  <2>3. WorkerTypes'
    BY <1>1, <2>1, <2>2 DEF TypeOK, WorkerTypes, Claim
  <2>4. CycleHasTask'
    BY <1>1 DEF TypeOK, WorkerTypes, CycleHasTask, Claim
  <2> QED
    BY <2>3, <2>4
<1>2. ASSUME NEW w \in Workers, Complete(w) \/ Fail(w) \/ Throw(w) \/ GoDown(w) PROVE Goal
  <2>1. CASE Complete(w) \/ Fail(w) \/ Throw(w)
    <3>1. UNCHANGED <<failure, selected, token, restarts>> /\ EndCycle(w)
      BY <2>1 DEF Complete, Fail, Throw
    <3> QED
      BY <3>1, NamesAssumption DEF TypeOK, WorkerTypes, CycleHasTask
  <2>2. CASE GoDown(w)
    BY <2>2, NamesAssumption DEF TypeOK, WorkerTypes, CycleHasTask, GoDown
  <2> QED
    BY <1>2, <2>1, <2>2
<1>3. ASSUME NEW w \in Workers,
             CheckExistingProof(w) \/ Start(w) \/ SelectRecoverable(w) \/ Requeue(w)
      PROVE  Goal
  <2>1. CASE CheckExistingProof(w)
    BY <2>1 DEF TypeOK, WorkerTypes, CycleHasTask, CheckExistingProof
  <2>2. CASE Start(w)
    BY <2>2 DEF TypeOK, WorkerTypes, CycleHasTask, Start
  <2>3. CASE SelectRecoverable(w)
    BY <2>3 DEF TypeOK, WorkerTypes, CycleHasTask, SelectRecoverable
  <2>4. CASE Requeue(w)
    BY <2>4 DEF TypeOK, WorkerTypes, CycleHasTask, Requeue
  <2> QED
    BY <1>3, <2>1, <2>2, <2>3, <2>4
<1>4. ASSUME NEW w \in Workers, LoadPoll(w) PROVE Goal
  <2>1. CASE hasOwner[task[w]]
    BY <1>4, <2>1 DEF TypeOK, WorkerTypes, CycleHasTask, LoadPoll
  <2>2. CASE ~hasOwner[task[w]]
    <3>1. FailWith(w, "other", FALSE) /\ UNCHANGED <<workerOnly, task>> /\ InCycle(w)
      BY <1>4, <2>2 DEF LoadPoll
    <3> QED
      BY <3>1, FailingTypes
  <2> QED
    BY <2>1, <2>2
<1>5. ASSUME NEW w \in Workers, Prove(w) PROVE Goal
  <2>1. UNCHANGED <<workerOnly, task>> /\ InCycle(w)
    BY <1>5 DEF Prove
  <2>2. CASE GoTo(w, "submitting") /\ UNCHANGED failure
    BY <2>1, <2>2 DEF TypeOK, WorkerTypes, CycleHasTask
  <2>3. CASE FailWith(w, "recoverable", FALSE)
    BY <2>1, <2>3, FailingTypes
  <2>4. ASSUME NEW transient \in BOOLEAN, FailWith(w, "other", transient) PROVE Goal
    BY <2>1, <2>4, FailingTypes
  <2> QED
    BY <1>5, <2>2, <2>3, <2>4 DEF Prove
<1>6. ASSUME NEW w \in Workers, SubmitProof(w) PROVE Goal
  <2>1. UNCHANGED <<workerOnly, task>> /\ InCycle(w)
    BY <1>6 DEF SubmitProof
  <2>2. CASE GoTo(w, "completing") /\ UNCHANGED failure
    BY <2>1, <2>2 DEF TypeOK, WorkerTypes, CycleHasTask
  <2>3. ASSUME NEW transient \in BOOLEAN, FailWith(w, "other", transient) PROVE Goal
    BY <2>1, <2>3, FailingTypes
  <2> QED
    BY <1>6, <2>2, <2>3 DEF SubmitProof
<1>7. ASSUME NEW p \in Polls, Enqueue(p) \/ TimePasses(p) \/ OwnerDeleted(p) PROVE Goal
  BY <1>7 DEF TypeOK, WorkerTypes, CycleHasTask, Enqueue, TimePasses, LockExpires,
              RetryDelayPasses, OwnerDeleted
<1>8. CASE UNCHANGED vars
  BY <1>8 DEF TypeOK, WorkerTypes, CycleHasTask, vars
<1> QED
  BY <1>1, <1>2, <1>3, <1>4, <1>5, <1>6, <1>7, <1>8 DEF Next, WorkerStep

\* Rows are locked and released together with their status.
LEMMA RunningIsLockedNext ==
    ASSUME TypeOK, [Next]_vars PROVE RunningIsLocked'
<1> USE NamesAssumption DEF TypeOK, RowTypes, RunningIsLocked
<1>1. ASSUME NEW p \in Polls, Enqueue(p) PROVE RunningIsLocked'
  BY <1>1 DEF Enqueue, ReleaseLock
<1>2. ASSUME NEW w \in Workers, NEW p \in Polls, Claim(w, p) PROVE RunningIsLocked'
  BY <1>2 DEF Claim, TakeLock
<1>3. ASSUME NEW w \in Workers, Complete(w) PROVE RunningIsLocked'
  BY <1>3 DEF Complete, ReleaseLock
<1>4. ASSUME NEW w \in Workers, Fail(w) PROVE RunningIsLocked'
  BY <1>4 DEF Fail, ReleaseLock
<1>5. ASSUME NEW w \in Workers, Requeue(w) PROVE RunningIsLocked'
  BY <1>5 DEF Requeue
<1>6. CASE UNCHANGED <<status, lockedBy>>
  BY <1>6
<1> QED
  BY <1>1, <1>2, <1>3, <1>4, <1>5, <1>6
     DEF Next, WorkerStep, LoadPoll, CheckExistingProof, Prove, SubmitProof, Throw,
         Start, SelectRecoverable, GoDown, TimePasses, LockExpires,
         RetryDelayPasses, OwnerDeleted, vars

\* The variables always have their types, exactly the running rows are locked
\* and exactly the workers in a cycle have a job (the columns' constraints of
\* zkp_tally_jobs and the shape of a worker's cycle).
THEOREM TypeCorrect == Spec => []TypeOK
<1>1. TypeOK /\ [Next]_vars => TypeOK'
  BY RowTypesNext, WorkerTypesNext, RunningIsLockedNext DEF TypeOK
<1> QED
  BY TypeInit, <1>1, PTL DEF Spec
-----------------------------------------------------------------------------
(* The safety invariants. *)

\* Proofs are only added, and a cycle reaches "completing" through one.
LEMMA ProofsNext ==
    ASSUME TypeOK, CompletingHasProof, SucceededHasProof, [Next]_vars
    PROVE  CompletingHasProof' /\ SucceededHasProof'
<1> USE DEF TypeOK, RowTypes, WorkerTypes, CycleHasTask
<1> DEFINE Goal == CompletingHasProof' /\ SucceededHasProof'
<1> USE DEF CompletingHasProof, SucceededHasProof
<1>1. ASSUME NEW w \in Workers, Complete(w) PROVE Goal
  <2>1. task[w] \in Polls /\ proofs[task[w]] > 0
    BY <1>1 DEF Complete
  <2>2. CompletingHasProof'
    BY <1>1 DEF Complete
  <2>3. SucceededHasProof'
    BY <1>1, <2>1 DEF Complete
  <2> QED
    BY <2>2, <2>3
<1>2. ASSUME NEW w \in Workers, SubmitProof(w) PROVE Goal
  <2>1. task[w] \in Polls
    BY <1>2 DEF SubmitProof
  <2>2. \A p \in Polls : proofs'[p] \in Nat /\ proofs'[p] >= proofs[p]
    BY <1>2, <2>1 DEF SubmitProof
  <2>3. pc'[w] = "completing" => proofs'[task[w]] > 0
    BY <1>2, <2>1 DEF SubmitProof, FailWith
  <2>4. \A v \in Workers : v # w => pc'[v] = pc[v]
    BY <1>2 DEF SubmitProof, FailWith
  <2>5. UNCHANGED <<status, jobHash, task>>
    BY <1>2 DEF SubmitProof
  <2>6. CompletingHasProof'
    BY <2>2, <2>3, <2>4, <2>5
  <2>7. SucceededHasProof'
    BY <2>2, <2>5
  <2> QED
    BY <2>6, <2>7
<1>3. ASSUME NEW w \in Workers, CheckExistingProof(w) PROVE Goal
  BY <1>3 DEF CheckExistingProof
<1>4. ASSUME NEW w \in Workers, NEW p \in Polls, Claim(w, p) PROVE Goal
  BY <1>4 DEF Claim
<1>5. ASSUME NEW w \in Workers, Fail(w) PROVE Goal
  BY <1>5 DEF Fail
<1>6. ASSUME NEW w \in Workers, Requeue(w) PROVE Goal
  BY <1>6 DEF Requeue
<1>7. ASSUME NEW w \in Workers,
             \/ LoadPoll(w) \/ Prove(w) \/ Throw(w) \/ Start(w) \/ SelectRecoverable(w)
             \/ GoDown(w)
      PROVE  Goal
  <2>1. UNCHANGED <<status, jobHash, proofs>>
    BY <1>7 DEF LoadPoll, Prove, Throw, Start, SelectRecoverable, GoDown
  <2>2. \A v \in Workers : pc'[v] = "completing" => pc[v] = "completing" /\ task'[v] = task[v]
    BY <1>7 DEF LoadPoll, Prove, FailWith, Throw, Start, SelectRecoverable, GoDown
  <2> QED
    BY <2>1, <2>2
<1>8. ASSUME NEW p \in Polls, Enqueue(p) PROVE Goal
  BY <1>8 DEF Enqueue
<1>9. CASE UNCHANGED <<status, jobHash, proofs, pc, task>>
  BY <1>9
<1> QED
  BY <1>1, <1>2, <1>3, <1>4, <1>5, <1>6, <1>7, <1>8, <1>9
     DEF Next, WorkerStep, TimePasses, LockExpires, RetryDelayPasses, OwnerDeleted, vars

\* Only a claim adds an attempt, and it checks the limit first.
LEMMA AttemptsNext ==
    ASSUME TypeOK, AttemptsWithinLimit, [Next]_vars PROVE AttemptsWithinLimit'
<1> USE DEF TypeOK, RowTypes, AttemptsWithinLimit
<1>1. ASSUME NEW p \in Polls, Enqueue(p) PROVE AttemptsWithinLimit'
  <2>1. PICK limit \in AttemptLimits :
           maxAttempts' = [maxAttempts EXCEPT ![p] = IF @ > limit THEN @ ELSE limit]
    BY <1>1 DEF Enqueue
  <2>2. limit \in Nat /\ attempts' = attempts
    BY <1>1, LimitTypes DEF Enqueue
  <2> QED
    BY <2>1, <2>2
<1>2. ASSUME NEW w \in Workers, NEW p \in Polls, Claim(w, p) PROVE AttemptsWithinLimit'
  BY <1>2 DEF Claim, Claimable
<1>3. ASSUME NEW w \in Workers, Requeue(w) PROVE AttemptsWithinLimit'
  <2>1. PICK limit \in AttemptLimits :
           maxAttempts' = [p \in Polls |-> IF p \in selected[w] THEN limit ELSE maxAttempts[p]]
    BY <1>3 DEF Requeue
  <2>2. limit \in Nat
    BY LimitTypes
  <2> QED
    BY <1>3, <2>1, <2>2 DEF Requeue
<1>4. CASE UNCHANGED <<attempts, maxAttempts>>
  BY <1>4
<1> QED
  BY <1>1, <1>2, <1>3, <1>4
     DEF Next, WorkerStep, Complete, Fail, LoadPoll, CheckExistingProof, Prove, SubmitProof,
         Throw, Start, SelectRecoverable, GoDown, TimePasses, LockExpires,
         RetryDelayPasses, OwnerDeleted, vars

\* Only a claim gives a worker the lock of a row, and it hands out the token.
LEMMA LockNext ==
    ASSUME TypeOK, LockIsLatestClaim, [Next]_vars PROVE LockIsLatestClaim'
<1> USE DEF TypeOK, RowTypes, WorkerTypes, CycleHasTask, LockIsLatestClaim, HoldsLock
<1>1. ASSUME NEW w \in Workers, NEW p \in Polls, Claim(w, p) PROVE LockIsLatestClaim'
  <2> SUFFICES ASSUME NEW v \in Workers, InCycle(v)', HoldsLock(v, task[v])'
               PROVE  token'[v] = claimNo'[task'[v]]
    BY DEF HoldsLock
  <2>1. CASE v = w
    BY <1>1, <2>1 DEF Claim
  <2>2. CASE v # w
    <3>1. task'[v] = task[v] /\ pc'[v] = pc[v] /\ token'[v] = token[v]
      BY <1>1, <2>2 DEF Claim
    <3>2. task[v] \in Polls
      BY <3>1
    <3>3. task[v] # p
      BY <1>1, <2>2, <3>1, <3>2 DEF Claim, TakeLock
    <3> QED
      BY <1>1, <3>1, <3>2, <3>3 DEF Claim, TakeLock
  <2> QED
    BY <2>1, <2>2
<1>2. ASSUME UNCHANGED <<claimNo, token>>,
             \A v \in Workers : InCycle(v)' => InCycle(v) /\ task'[v] = task[v],
             \A p \in Polls : status'[p] = "running" =>
                                status[p] = "running" /\ lockedBy'[p] = lockedBy[p]
      PROVE  LockIsLatestClaim'
  BY <1>2
<1>3. ASSUME NEW p \in Polls, Enqueue(p) PROVE LockIsLatestClaim'
  BY <1>2, <1>3 DEF Enqueue, ReleaseLock
<1>4. ASSUME NEW w \in Workers, Complete(w) PROVE LockIsLatestClaim'
  BY <1>2, <1>4 DEF Complete, ReleaseLock
<1>5. ASSUME NEW w \in Workers, Fail(w) PROVE LockIsLatestClaim'
  BY <1>2, <1>5 DEF Fail, ReleaseLock
<1>6. ASSUME NEW w \in Workers,
             \/ LoadPoll(w) \/ CheckExistingProof(w) \/ Prove(w) \/ SubmitProof(w)
             \/ Throw(w) \/ Start(w) \/ SelectRecoverable(w) \/ GoDown(w)
      PROVE  LockIsLatestClaim'
  <2>1. UNCHANGED <<claimNo, token, status, lockedBy>>
    BY <1>6 DEF LoadPoll, CheckExistingProof, Prove, SubmitProof, Throw, Start,
                SelectRecoverable, GoDown
  <2>2. \A v \in Workers : InCycle(v)' => InCycle(v) /\ task'[v] = task[v]
    BY <1>6 DEF LoadPoll, CheckExistingProof, Prove, SubmitProof, FailWith, Throw, Start,
                SelectRecoverable, GoDown
  <2> QED
    BY <1>2, <2>1, <2>2
<1>7. ASSUME NEW w \in Workers, Requeue(w) PROVE LockIsLatestClaim'
  BY <1>2, <1>7 DEF Requeue
<1>8. CASE UNCHANGED <<claimNo, token, status, lockedBy, pc, task>>
  BY <1>8
<1> QED
  BY <1>1, <1>3, <1>4, <1>5, <1>6, <1>7, <1>8
     DEF Next, WorkerStep, TimePasses, LockExpires, RetryDelayPasses, OwnerDeleted, vars

\* No action turns a row back into "absent".
LEMMA RowsNext ==
    ASSUME TypeOK, RowsExist, [Next]_vars PROVE RowsExist'
<1> USE DEF TypeOK, RowTypes, WorkerTypes, CycleHasTask, RowsExist
<1>1. ASSUME \A p \in Polls : status[p] # "absent" => status'[p] # "absent",
             \A v \in Workers : InCycle(v)' => InCycle(v) /\ task'[v] = task[v],
             \A v \in Workers : selected'[v] \subseteq selected[v]
      PROVE  RowsExist'
  BY <1>1
<1>2. ASSUME NEW p \in Polls, Enqueue(p) PROVE RowsExist'
  BY <1>1, <1>2 DEF Enqueue
<1>3. ASSUME NEW w \in Workers, NEW p \in Polls, Claim(w, p) PROVE RowsExist'
  BY <1>3 DEF Claim, Claimable
<1>4. ASSUME NEW w \in Workers, Complete(w) PROVE RowsExist'
  BY <1>1, <1>4 DEF Complete
<1>5. ASSUME NEW w \in Workers, Fail(w) PROVE RowsExist'
  BY <1>1, <1>5 DEF Fail
<1>6. ASSUME NEW w \in Workers, SelectRecoverable(w) PROVE RowsExist'
  BY <1>6 DEF SelectRecoverable, Recoverable
<1>7. ASSUME NEW w \in Workers, Requeue(w) PROVE RowsExist'
  BY <1>1, <1>7 DEF Requeue
<1>8. ASSUME NEW w \in Workers,
             \/ LoadPoll(w) \/ CheckExistingProof(w) \/ Prove(w) \/ SubmitProof(w)
             \/ Throw(w) \/ Start(w) \/ GoDown(w)
      PROVE  RowsExist'
  <2>1. UNCHANGED status /\ \A v \in Workers : selected'[v] \subseteq selected[v]
    BY <1>8 DEF LoadPoll, CheckExistingProof, Prove, SubmitProof, Throw, Start, GoDown
  <2>2. \A v \in Workers : InCycle(v)' => InCycle(v) /\ task'[v] = task[v]
    BY <1>8 DEF LoadPoll, CheckExistingProof, Prove, SubmitProof, FailWith, Throw, Start, GoDown
  <2> QED
    BY <1>1, <2>1, <2>2
<1>9. CASE UNCHANGED <<status, pc, task, selected>>
  BY <1>9
<1> QED
  BY <1>2, <1>3, <1>4, <1>5, <1>6, <1>7, <1>8, <1>9
     DEF Next, WorkerStep, TimePasses, LockExpires, RetryDelayPasses, OwnerDeleted, vars

\* The inductive invariant of the queue.
QueueInv ==
    /\ TypeOK /\ RowsExist /\ CompletingHasProof /\ SucceededHasProof
    /\ AttemptsWithinLimit /\ LockIsLatestClaim

\* The parts above together are inductive.
LEMMA QueueInvariant == Spec => []QueueInv
<1>1. Init => QueueInv
  BY TypeInit DEF Init, QueueInv, RowsExist, CompletingHasProof, SucceededHasProof,
                  AttemptsWithinLimit, LockIsLatestClaim
<1>2. QueueInv /\ [Next]_vars => QueueInv'
  <2>1. TypeOK /\ [Next]_vars => TypeOK'
    BY RowTypesNext, WorkerTypesNext, RunningIsLockedNext DEF TypeOK
  <2> QED
    BY <2>1, RowsNext, ProofsNext, AttemptsNext, LockNext DEF QueueInv
<1> QED
  BY <1>1, <1>2, PTL DEF Spec

\* A job is only ever reported as succeeded when a tally proof of its poll is
\* recorded (complete_zkp_tally_job after submitTallyProof or an earlier one).
THEOREM SucceededJobsHaveProofs == Spec => []SucceededHasProof
BY QueueInvariant, PTL DEF QueueInv

\* The attempts of claim_zkp_tally_job stay within max_attempts, across
\* enqueue's greatest() and the requeue's reset.
THEOREM AttemptsAreBounded == Spec => []AttemptsWithinLimit
BY QueueInvariant, PTL DEF QueueInv

\* (status, locked_by) is a sufficient fencing token for complete_ and
\* fail_zkp_tally_job: whoever passes it works for the latest claim.
THEOREM LockFencesOldClaims == Spec => []LockIsLatestClaim
BY QueueInvariant, PTL DEF QueueInv
-----------------------------------------------------------------------------
(* Action properties: who settles a job, and the lease queue. *)

\* A running job only leaves that status through the cycle of its latest claim,
\* or through the requeue of a starting worker.
THEOREM LatestClaimSettles == Spec => OnlyLatestClaimSettles
<1>1. QueueInv /\ [Next]_vars => [SettledByLatestClaim]_vars
  <2> SUFFICES ASSUME QueueInv, [Next]_vars, NEW p \in Polls,
                      status[p] = "running", status'[p] # "running"
               PROVE  \E w \in Workers :
                        \/ /\ pc[w] \in {"completing", "failing"}
                           /\ task[w] = p /\ token[w] = claimNo[p]
                        \/ pc[w] = "requeueing" /\ p \in selected[w]
    BY DEF SettledByLatestClaim
  <2> USE DEF QueueInv, TypeOK, RowTypes, WorkerTypes, CycleHasTask
  <2>1. ASSUME NEW w \in Workers, Complete(w)
        PROVE  pc[w] = "completing" /\ task[w] = p /\ token[w] = claimNo[p]
    <3>1. pc[w] = "completing" /\ HoldsLock(w, task[w]) /\ task[w] = p
      BY <2>1 DEF Complete
    <3> QED
      BY <3>1 DEF LockIsLatestClaim
  <2>2. ASSUME NEW w \in Workers, Fail(w)
        PROVE  pc[w] = "failing" /\ task[w] = p /\ token[w] = claimNo[p]
    <3>1. pc[w] = "failing" /\ HoldsLock(w, task[w]) /\ task[w] = p
      BY <2>2 DEF Fail
    <3> QED
      BY <3>1 DEF LockIsLatestClaim
  <2>3. ASSUME NEW w \in Workers, Requeue(w)
        PROVE  pc[w] = "requeueing" /\ p \in selected[w]
    BY <2>3 DEF Requeue
  <2>4. ASSUME NEW q \in Polls, Enqueue(q) PROVE FALSE
    BY <2>4 DEF Enqueue
  <2>5. ASSUME NEW w \in Workers, NEW q \in Polls, Claim(w, q) PROVE FALSE
    BY <2>5 DEF Claim
  <2>6. ~UNCHANGED status
    OBVIOUS
  <2> QED
    BY <2>1, <2>2, <2>3, <2>4, <2>5, <2>6
       DEF Next, WorkerStep, LoadPoll, CheckExistingProof, Prove, SubmitProof, Throw,
           Start, SelectRecoverable, GoDown, TimePasses, LockExpires,
           RetryDelayPasses, OwnerDeleted, vars
<1> QED
  BY <1>1, QueueInvariant, PTL DEF Spec, OnlyLatestClaimSettles

\* One row's new status is one item's new phase.
LEMMA PhaseStep ==
    ASSUME RowTypes, NEW p \in Polls, NEW s \in Statuses, status' = [status EXCEPT ![p] = s]
    PROVE  phaseOf' = [phaseOf EXCEPT ![p] = PhaseName(s)]
BY DEF RowTypes, phaseOf

\* The mapped phases are a function on the polls.
LEMMA PhaseFunction == phaseOf = [i \in Polls |-> phaseOf[i]]
BY DEF phaseOf

\* Every step of the queue is a step of the lease queue, or none at all.
LEMMA QueueStep ==
    ASSUME QueueInv, [Next]_vars PROVE [Queue!QueueNext]_(Queue!queueVars)
<1> DEFINE Goal == [Queue!QueueNext]_(Queue!queueVars)
<1> USE DEF QueueInv, TypeOK, RowTypes, WorkerTypes, CycleHasTask
<1>0. ASSUME UNCHANGED <<status, lockedBy, proofs>> PROVE UNCHANGED Queue!queueVars
  BY <1>0 DEF Queue!queueVars, phaseOf, provenPolls
<1>1. ASSUME NEW p \in Polls, Enqueue(p) PROVE Goal
  <2>1. CASE status[p] \in {"absent", "failed"}
    <3>1. phaseOf' = [phaseOf EXCEPT ![p] = "waiting"]
      BY <1>1, <2>1, PhaseStep DEF Enqueue, Statuses, PhaseName
    <3>2. provenPolls' = provenPolls /\ lockedBy' = [lockedBy EXCEPT ![p] = NoWorker]
      BY <1>1, <2>1 DEF Enqueue, ReleaseLock, provenPolls
    <3>3. lockedBy[p] = NoWorker
      BY <2>1 DEF RunningIsLocked
    <3>4. CASE status[p] = "absent"
      <4>1. phaseOf[p] = "absent" /\ lockedBy' = lockedBy
        BY <3>2, <3>3, <3>4 DEF phaseOf, PhaseName
      <4> QED
        BY <3>1, <3>2, <4>1 DEF Queue!Add, Queue!QueueNext
    <3>5. CASE status[p] = "failed"
      <4>1. phaseOf[p] = "dead"
        BY <3>5 DEF phaseOf, PhaseName
      <4>2. /\ phaseOf' = [i \in Polls |-> IF i \in {p} THEN "waiting" ELSE phaseOf[i]]
            /\ lockedBy' = [i \in Polls |-> IF i \in {p} THEN NoWorker ELSE lockedBy[i]]
        BY <3>1, <3>2, PhaseFunction
      <4>3. Queue!Reopen({p})
        BY <3>2, <4>1, <4>2 DEF Queue!Reopen
      <4> QED
        BY <4>3 DEF Queue!QueueNext
    <3> QED
      BY <2>1, <3>4, <3>5
  <2>2. CASE status[p] \notin {"absent", "failed"}
    BY <1>0, <1>1, <2>2 DEF Enqueue
  <2> QED
    BY <2>1, <2>2
<1>2. ASSUME NEW w \in Workers, NEW p \in Polls, Claim(w, p) PROVE Goal
  <2>1. phaseOf' = [phaseOf EXCEPT ![p] = "leased"]
    BY <1>2, PhaseStep DEF Claim, Statuses, PhaseName
  <2>2. phaseOf[p] \in {"waiting", "leased"}
    BY <1>2 DEF Claim, Claimable, phaseOf, PhaseName
  <2>3. provenPolls' = provenPolls
    BY <1>2 DEF Claim, provenPolls
  <2> QED
    BY <1>2, <2>1, <2>2, <2>3 DEF Claim, TakeLock, Queue!Take, Queue!QueueNext
<1>3. ASSUME NEW w \in Workers, Complete(w) PROVE Goal
  <2>1. CASE HoldsLock(w, task[w])
    <3>1. task[w] \in Polls /\ task[w] \in provenPolls
      BY <1>3 DEF Complete, CompletingHasProof, provenPolls
    <3>2. phaseOf[task[w]] = "leased" /\ phaseOf' = [phaseOf EXCEPT ![task[w]] = "done"]
      BY <1>3, <2>1, <3>1, PhaseStep DEF Complete, HoldsLock, Statuses, phaseOf, PhaseName
    <3>3. provenPolls' = provenPolls /\ lockedBy' = [lockedBy EXCEPT ![task[w]] = NoWorker]
      BY <1>3, <2>1 DEF Complete, ReleaseLock, provenPolls
    <3>4. Queue!Settle(task[w], "done")
      BY <3>1, <3>2, <3>3 DEF Queue!Settle
    <3> QED
      BY <3>1, <3>4 DEF Queue!QueueNext
  <2>2. CASE ~HoldsLock(w, task[w])
    BY <1>0, <1>3, <2>2 DEF Complete
  <2> QED
    BY <2>1, <2>2
<1>4. ASSUME NEW w \in Workers, Fail(w) PROVE Goal
  <2>1. CASE HoldsLock(w, task[w])
    <3>1. task[w] \in Polls /\ phaseOf[task[w]] = "leased"
      BY <1>4, <2>1 DEF Fail, HoldsLock, phaseOf, PhaseName
    <3>2. PICK s \in {"failed", "pending"} : status' = [status EXCEPT ![task[w]] = s]
      BY <1>4, <2>1 DEF Fail
    <3>3. phaseOf' = [phaseOf EXCEPT ![task[w]] = PhaseName(s)]
      <4>1. s \in Statuses
        BY DEF Statuses
      <4> QED
        BY <3>1, <3>2, <4>1, PhaseStep
    <3>4. PhaseName(s) \in {"dead", "waiting"}
      BY DEF PhaseName
    <3>5. provenPolls' = provenPolls /\ lockedBy' = [lockedBy EXCEPT ![task[w]] = NoWorker]
      BY <1>4, <2>1 DEF Fail, ReleaseLock, provenPolls
    <3>6. Queue!Settle(task[w], PhaseName(s))
      BY <3>1, <3>3, <3>4, <3>5 DEF Queue!Settle
    <3> QED
      BY <3>1, <3>4, <3>6 DEF Queue!QueueNext
  <2>2. CASE ~HoldsLock(w, task[w])
    BY <1>0, <1>4, <2>2 DEF Fail
  <2> QED
    BY <2>1, <2>2
<1>5. ASSUME NEW w \in Workers, SubmitProof(w) PROVE Goal
  <2>1. task[w] \in Polls /\ UNCHANGED <<status, lockedBy>>
    BY <1>5 DEF SubmitProof
  <2>2. CASE UNCHANGED proofs
    BY <1>0, <2>1, <2>2
  <2>3. CASE proofs' = [proofs EXCEPT ![task[w]] = @ + 1]
    <3>1. provenPolls' = provenPolls \cup {task[w]} /\ phaseOf' = phaseOf
      BY <2>1, <2>3 DEF provenPolls, phaseOf
    <3>2. status[task[w]] # "absent"
      BY <1>5 DEF SubmitProof, RowsExist
    <3>3. phaseOf[task[w]] # "absent"
      BY <2>1, <3>2 DEF phaseOf, PhaseName, Statuses
    <3> QED
      BY <2>1, <3>1, <3>3 DEF Queue!QueueNext, Queue!Perform
  <2> QED
    BY <1>5, <2>2, <2>3 DEF SubmitProof
<1>6. ASSUME NEW w \in Workers, Requeue(w) PROVE Goal
  <2>1. selected[w] \in SUBSET Polls /\ \A p \in selected[w] : status[p] # "absent"
    BY DEF RowsExist
  <2>2. \A p \in selected[w] : phaseOf[p] \in {"waiting", "leased", "done", "dead"}
    BY <2>1 DEF phaseOf, PhaseName, Statuses
  <2>3. phaseOf' = [i \in Polls |-> IF i \in selected[w] THEN "waiting" ELSE phaseOf[i]]
    <3>1. status' = [i \in Polls |-> IF i \in selected[w] THEN "pending" ELSE status[i]]
      BY <1>6 DEF Requeue
    <3>2. PhaseName("pending") = "waiting"
      BY DEF PhaseName
    <3> QED
      BY <3>1, <3>2 DEF phaseOf
  <2>4. Queue!Reopen(selected[w])
    BY <1>6, <2>2, <2>3 DEF Requeue, Queue!Reopen, provenPolls
  <2> QED
    BY <2>1, <2>4 DEF Queue!QueueNext
<1>7. ASSUME NEW w \in Workers,
             \/ LoadPoll(w) \/ CheckExistingProof(w) \/ Prove(w) \/ Throw(w) \/ Start(w)
             \/ SelectRecoverable(w) \/ GoDown(w)
      PROVE  Goal
  BY <1>0, <1>7 DEF LoadPoll, CheckExistingProof, Prove, Throw, Start, SelectRecoverable, GoDown
<1>8. ASSUME NEW p \in Polls, TimePasses(p) \/ OwnerDeleted(p) PROVE Goal
  BY <1>0, <1>8 DEF TimePasses, LockExpires, RetryDelayPasses, OwnerDeleted
<1>9. CASE UNCHANGED vars
  BY <1>0, <1>9 DEF vars
<1> QED
  BY <1>1, <1>2, <1>3, <1>4, <1>5, <1>6, <1>7, <1>8, <1>9 DEF Next, WorkerStep

\* The job table and its workers implement the lease queue: jobs are settled
\* under their lease, done jobs have their proof, and no recorded proof is lost.
THEOREM RefinesLeaseQueue == Spec => ImplementsLeaseQueue
<1>1. Init => Queue!QueueInit
  BY DEF Init, Queue!QueueInit, phaseOf, PhaseName, provenPolls
<1>2. QueueInv /\ [Next]_vars => [Queue!QueueNext]_(Queue!queueVars)
  BY QueueStep
<1> QED
  BY <1>1, <1>2, QueueInvariant, PTL DEF Spec, ImplementsLeaseQueue, Queue!QueueSpec
=============================================================================
