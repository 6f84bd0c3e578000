----------------------------- MODULE PollAudit ------------------------------
(***************************************************************************)
(* One production ZKP poll from its votes to its final result on chain:    *)
(* vote requests (services/pollVotingService.ts), tally provers, calls of  *)
(* publishPollAudit (services/pollPublicAuditService.ts) by the owner and  *)
(* by the auto publisher, the Solana publisher they drive, and the audit   *)
(* program (solana/programs/civicos-audit).                                *)
(*                                                                         *)
(* A handler is split where it awaits a database query or a transaction.   *)
(* A Merkle root is the sequence of votes under it: hashes are injective.  *)
(* An await that fails, a lost answer and a backend restart all end a      *)
(* handler between two steps (Abort, LoseRequest).                         *)
(***************************************************************************)
EXTENDS Naturals, Sequences, FiniteSets, Functions

CONSTANTS
    Requests,        \* vote requests that pass the checks of submitVote
    VoterOf,         \* VoterOf[r]: whose vote (nullifier) request r carries
    Publishers,      \* concurrent calls of publishPollAudit
    Provers,         \* tally worker processes
    Submitters,      \* calls of POST /polls/:id/tally-proof by the owner
    AutoOnClose,     \* result_publication_mode: auto_on_close or creator_managed
    NoResult,        \* nothing announced, no proof, no batch
    BatchSize,       \* PUBLIC_AUDIT_BATCH_LEAF_CAPACITY
    ProverMode,      \* ZKP_TALLY_PROVER_MODE: "worker", "inline" or "disabled"
    MaxFailures      \* bound: how many handlers are cut off

ASSUME ActorsAssumption ==
    /\ Publishers \cap (Provers \cup Submitters) = {}
    /\ Provers \cap Submitters = {}
ASSUME BatchSizeAssumption == BatchSize \in Nat \ {0}
ASSUME ModeAssumption == ProverMode \in {"worker", "inline", "disabled"}
ASSUME FailuresAssumption == MaxFailures \in Nat
ASSUME VoterAssumption == Requests \subseteq DOMAIN VoterOf
ASSUME AutoAssumption == AutoOnClose \in BOOLEAN
ASSUME NoResultAssumption ==
    /\ NoResult \notin Nat /\ NoResult \notin Seq(Requests)
    /\ NoResult \notin [root : Seq(Requests), votes : Seq(Requests), proof : Nat]

VARIABLES
    closed,        \* ends_at has passed: the final result is publishable
    swept,         \* polls.status is "closed" (closeExpiredPolls)
    chainClosed,   \* the cluster's clock has reached the poll account's closes_at
    \* votes
    arrival,       \* the requests in the order of their submittedAt
    vote,          \* vote[r]: progress of request r, finally its answer
    ledger,        \* poll_zk_votes: the requests whose row was inserted, by accepted_at
    voteEvents,    \* vote_accepted events of the audit chain
    batchOf,       \* poll_zk_votes.batch_id
    \* tally
    job,           \* the tally job, as far as publication sees it (see TallyQueue)
    proofs,        \* poll_tally_proofs in created_at order: the votes counted
    \* publication
    rootRow,       \* poll_roots: the root stored for each batch
    rootEvents,    \* poll_root_published_on_chain events
    finalEvents,   \* poll_final_result_published_on_chain events
    \* chain accounts
    chainPoll,     \* the poll account exists
    chainRoots,    \* the roots of the batch accounts, in batch order
    chainFinal,    \* NoResult, or the final result account
    \* handlers
    pc, local,
    failures,
    raced          \* history: the races of handlers that nothing in the code rules out

voteVars == <<arrival, vote, ledger, voteEvents>>
tallyVars == <<job, proofs>>
dbVars == <<batchOf, rootRow, rootEvents, finalEvents>>
chainVars == <<chainPoll, chainRoots, chainFinal>>
clockVars == <<closed, chainClosed>>
vars == <<clockVars, swept, voteVars, tallyVars, dbVars, chainVars, pc, local,
          failures, raced>>

Actors == Publishers \cup Provers \cup Submitters
BatchIds == 1..Cardinality(Requests)

\* What a handler has read so far.
Fresh == [loaded |-> {}, records |-> <<>>, sealed |-> FALSE, proof |-> NoResult,
          plan |-> {}, todo |-> {}, final |-> FALSE]

Init ==
    /\ closed = FALSE /\ chainClosed = FALSE /\ swept = FALSE
    /\ arrival = <<>> /\ ledger = <<>> /\ voteEvents = {}
    /\ vote = [r \in Requests |-> "none"]
    /\ batchOf = [r \in Requests |-> 0]
    /\ job = "none" /\ proofs = <<>>
    /\ rootRow = [i \in BatchIds |-> NoResult]
    /\ rootEvents = {} /\ finalEvents = {}
    /\ chainPoll = FALSE /\ chainRoots = <<>> /\ chainFinal = NoResult
    /\ pc = [a \in Actors |-> "idle"]
    /\ local = [a \in Actors |-> Fresh]
    /\ failures = 0 /\ raced = {}

GoTo(a, step) == pc' = [pc EXCEPT ![a] = step]

\* The handler of a returns: success, rejection or failure.
Return(a) ==
    /\ GoTo(a, IF a \in Submitters THEN "returned" ELSE "idle")
    /\ local' = [local EXCEPT ![a] = Fresh]

\* closeExpiredPolls: the status follows the clock when somebody reads polls.
\* The trigger on polls.status queues a tally job when a vote is on record.
CloseExpired ==
    IF closed /\ ~swept
      THEN /\ swept' = TRUE
           /\ job' = IF AutoOnClose /\ ledger # <<>> /\ job = "none" THEN "queued" ELSE job
      ELSE UNCHANGED <<swept, job>>
-----------------------------------------------------------------------------
(* Votes (pollVotingService.submitVote). *)

InFlight(r) == vote[r] \in {"checked", "inserted"}

\* The handler takes submittedAt and checks the poll's status and window
\* against it, once, before it verifies the proof.
BeginVote(r) ==
    /\ vote[r] = "none"
    /\ CloseExpired
    /\ vote' = [vote EXCEPT ![r] = IF closed THEN "rejected" ELSE "checked"]
    /\ arrival' = IF closed THEN arrival ELSE Append(arrival, r)
    /\ UNCHANGED <<clockVars, ledger, voteEvents, proofs, dbVars, chainVars, pc, local,
                   failures, raced>>

\* The votes on record.
Accepted == Range(ledger)

\* accepted_at is submittedAt, and the records are read in this order: after
\* how many of them a row has its place.
Before(q, r) == \E i, j \in DOMAIN arrival : i < j /\ arrival[i] = q /\ arrival[j] = r
PlacesOf(r) ==
    {k \in 0..Len(ledger) : \A i \in DOMAIN ledger : Before(ledger[i], r) <=> i <= k}
WithRow(r, k) == SubSeq(ledger, 1, k) \o <<r>> \o SubSeq(ledger, k + 1, Len(ledger))

\* A late row: the poll closed meanwhile, or the row goes before rows of a batch
\* that is full.
IsLate(k) == closed \/ k < (Len(ledger) \div BatchSize) * BatchSize

InsertRow(r) ==
    /\ vote' = [vote EXCEPT ![r] = "inserted"]
    /\ \E k \in PlacesOf(r) :
         /\ ledger' = WithRow(r, k)
         /\ raced' = IF IsLate(k) THEN raced \cup {"vote"} ELSE raced

\* Mutant: two requests of a voter both pass the duplicate query.
InsertVoteTwice(r) ==
    /\ vote[r] = "checked"
    /\ InsertRow(r)
    /\ UNCHANGED <<clockVars, swept, arrival, voteEvents, tallyVars, dbVars, chainVars,
                   pc, local, failures>>

\* The duplicate query, and the insert under the unique (poll_id, nullifier).
InsertVote(r) ==
    /\ vote[r] = "checked"
    /\ IF \E q \in Accepted : VoterOf[q] = VoterOf[r]
         THEN vote' = [vote EXCEPT ![r] = "duplicate"] /\ UNCHANGED <<ledger, raced>>
         ELSE InsertRow(r)
    /\ UNCHANGED <<clockVars, swept, arrival, voteEvents, tallyVars, dbVars, chainVars,
                   pc, local, failures>>

\* Mutant: the receipt is sent without waiting for the audit chain.
AnswerAtOnce(r) ==
    /\ vote[r] = "inserted"
    /\ vote' = [vote EXCEPT ![r] = "receipt"]
    /\ UNCHANGED <<clockVars, swept, arrival, ledger, voteEvents, tallyVars, dbVars,
                   chainVars, pc, local, failures, raced>>

\* The vote_accepted event, then the receipt.
AppendVoteAccepted(r) ==
    /\ vote[r] = "inserted"
    /\ voteEvents' = voteEvents \cup {r}
    /\ vote' = [vote EXCEPT ![r] = "receipt"]
    /\ UNCHANGED <<clockVars, swept, arrival, ledger, tallyVars, dbVars, chainVars, pc,
                   local, failures, raced>>

\* The proof is rejected, an await throws, or the backend restarts.
LoseRequest(r) ==
    /\ InFlight(r)
    /\ vote' = [vote EXCEPT ![r] = "lost"]
    /\ UNCHANGED <<clockVars, swept, arrival, ledger, voteEvents, tallyVars, dbVars,
                   chainVars, pc, local, failures, raced>>

\* A stale load: x read its records before a vote that was accepted since, and
\* is about to seal them.
LoadIsStale(x) == "records" \in local[x].loaded /\ local[x].records # ledger

ClosePoll ==
    /\ ~closed
    /\ closed' = TRUE
    /\ raced' = IF \E x \in Publishers : LoadIsStale(x) THEN raced \cup {"load"} ELSE raced
    /\ UNCHANGED <<chainClosed, swept, voteVars, tallyVars, dbVars, chainVars, pc,
                   local, failures>>

\* The cluster's clock may be behind the backend's.
ChainReachesClose ==
    /\ closed /\ ~chainClosed
    /\ chainClosed' = TRUE
    /\ UNCHANGED <<closed, swept, voteVars, tallyVars, dbVars, chainVars, pc, local,
                   failures, raced>>

\* The worker's and the auto publisher's cycles, and any read of a poll.
Sweep ==
    /\ closed /\ ~swept
    /\ CloseExpired
    /\ UNCHANGED <<clockVars, voteVars, proofs, dbVars, chainVars, pc, local, failures, raced>>
-----------------------------------------------------------------------------
(* Tally proofs.  A worker holding the job proves; in inline mode the      *)
(* publishing handler does, between loading and reloading its material;    *)
(* and the owner may submit a proof at any time.                           *)

offTally == <<clockVars, swept, voteVars, dbVars, chainVars, failures>>

\* A job whose poll cannot be tallied is not tried again.
GiveUp(a) ==
    /\ job' = IF a \in Provers /\ job = "queued" THEN "failed" ELSE job
    /\ Return(a)

\* processNextJob: an existing proof of the poll completes the job.
BeginJob(w) ==
    /\ pc[w] = "idle"
    /\ job = "queued"
    /\ GoTo(w, IF proofs = <<>> THEN "reading" ELSE "completing")
    /\ UNCHANGED <<offTally, job, proofs, local, raced>>

BeginSubmission(s) ==
    /\ pc[s] = "idle"
    /\ GoTo(s, "reading")
    /\ UNCHANGED <<offTally, job, proofs, local, raced>>

\* What a tally proof can count: one batch.
Tallyable(records) == records # <<>> /\ Len(records) <= BatchSize

\* generateProofForPoll: the votes the proof will count.
ReadVotes(a) ==
    /\ pc[a] = "reading"
    /\ IF Tallyable(ledger)
         THEN /\ local' = [local EXCEPT ![a].records = ledger]
              /\ GoTo(a, "verifying")
              /\ UNCHANGED job
         ELSE GiveUp(a)
    /\ UNCHANGED <<offTally, proofs, raced>>

\* Mutant: the proof is taken as it is.
VerifyAnyTally(a) ==
    /\ pc[a] = "verifying"
    /\ GoTo(a, "inserting")
    /\ raced' = IF closed THEN raced ELSE raced \cup {"submission"}
    /\ UNCHANGED <<offTally, job, proofs, local>>

\* submitTallyProof: the proof must match the roots and the number of the
\* records accepted by now.  Nobody asks whether the poll is closed.
VerifyTally(a) ==
    /\ pc[a] = "verifying"
    /\ IF ledger = local[a].records
         THEN /\ GoTo(a, "inserting") /\ UNCHANGED <<job, local>>
              /\ raced' = IF closed THEN raced ELSE raced \cup {"submission"}
         ELSE GiveUp(a) /\ UNCHANGED raced
    /\ UNCHANGED <<offTally, proofs>>

InsertTally(a) ==
    /\ pc[a] = "inserting"
    /\ proofs' = Append(proofs, local[a].records)
    /\ \/ a \in Provers /\ GoTo(a, "completing") /\ UNCHANGED local
       \/ a \in Publishers /\ GoTo(a, "reload") /\ UNCHANGED local
       \/ a \in Submitters /\ Return(a)
    /\ UNCHANGED <<offTally, job, raced>>

CompleteJob(w) ==
    /\ pc[w] = "completing"
    /\ job' = "succeeded"
    /\ Return(w)
    /\ UNCHANGED <<offTally, proofs, raced>>
-----------------------------------------------------------------------------
(* publishPollAudit: what it reads, and what it plans to commit. *)

offReads == <<clockVars, voteVars, proofs, dbVars, chainVars, failures, raced>>

OwnerPublishes(x) ==
    /\ pc[x] = "idle"
    /\ CloseExpired
    /\ GoTo(x, "load")
    /\ UNCHANGED <<offReads, local>>

\* The auto publisher's cycle finds a succeeded job of a closed poll without
\* a final result event.
AutoPublish(x) ==
    /\ AutoOnClose
    /\ pc[x] = "idle"
    /\ swept /\ job = "succeeded" /\ finalEvents = {}
    /\ GoTo(x, "load")
    /\ UNCHANGED <<offReads, swept, job, local>>

\* loadPollAuditMaterial runs its queries concurrently.  Here: the records.
LoadRecords(x) ==
    /\ pc[x] \in {"load", "reload"}
    /\ "records" \notin local[x].loaded
    /\ local' = [local EXCEPT ![x].records = ledger, ![x].loaded = @ \cup {"records"}]
    /\ UNCHANGED <<offReads, swept, job, pc>>

LatestProof == IF proofs = <<>> THEN NoResult ELSE Len(proofs)

\* And the latest tally proof.
LoadProof(x) ==
    /\ pc[x] \in {"load", "reload"}
    /\ "proof" \notin local[x].loaded
    /\ local' = [local EXCEPT ![x].proof = LatestProof, ![x].loaded = @ \cup {"proof"}]
    /\ UNCHANGED <<offReads, swept, job, pc>>

\* buildAuditBatches, when both are there: the tail batch is sealed if the
\* poll is closed by now.
BuildBatches(x) ==
    /\ pc[x] \in {"load", "reload"}
    /\ local[x].loaded = {"records", "proof"}
    /\ local' = [local EXCEPT ![x].sealed = closed, ![x].loaded = {}]
    /\ GoTo(x, IF pc[x] = "load" THEN "check" ELSE "roots")
    /\ UNCHANGED <<offReads, swept, job>>

ProofMissing(x) == closed /\ local[x].proof = NoResult

\* Without votes nothing is published; a closed poll without a tally proof is
\* handed to the prover, if there is one.
CheckMaterial(x) ==
    /\ pc[x] = "check"
    /\ \/ /\ local[x].records = <<>> \/ (ProofMissing(x) /\ ProverMode = "disabled")
          /\ Return(x) /\ UNCHANGED job
       \/ /\ local[x].records # <<>> /\ ProofMissing(x) /\ ProverMode = "worker"
          /\ job' = IF job \in {"none", "failed"} THEN "queued" ELSE job
          /\ Return(x)
       \/ /\ local[x].records # <<>> /\ ProofMissing(x) /\ ProverMode = "inline"
          /\ GoTo(x, "reading")
          /\ UNCHANGED <<job, local>>
       \/ /\ local[x].records # <<>> /\ ~ProofMissing(x)
          /\ GoTo(x, "roots")
          /\ UNCHANGED <<job, local>>
    /\ UNCHANGED <<offReads, swept>>

\* segmentProductionAuditRecords: the records at positions (i-1)*BatchSize+1
\* and following.
BatchCount(records) == (Len(records) + BatchSize - 1) \div BatchSize
Batch(records, i) ==
    SubSeq(records, (i - 1) * BatchSize + 1,
           IF i * BatchSize < Len(records) THEN i * BatchSize ELSE Len(records))
LastBatch(records) == Batch(records, BatchCount(records))

\* Mutant: every batch with votes is sealed.
SealedAlways(l, i) == Batch(l.records, i) # <<>>

\* A batch is sealed when it is full, or when the poll was closed.
Sealed(l, i) == Len(Batch(l.records, i)) = BatchSize \/ l.sealed

\* The batches to commit: sealed and without a row.  The final result goes
\* along when the poll is closed, every batch has a row or is planned, and
\* there is a tally proof.
PlanCommits(x) ==
    LET l == local[x]
        missing == {i \in BatchIds : i <= BatchCount(l.records) /\ rootRow[i] = NoResult}
        plan == {i \in missing : Sealed(l, i)} IN
    /\ pc[x] = "roots"
    /\ local' = [local EXCEPT ![x].plan = plan, ![x].todo = plan,
                     ![x].final = closed /\ missing = plan /\ l.proof # NoResult]
    /\ GoTo(x, "findPoll")
    /\ UNCHANGED <<offReads, swept, job>>
-----------------------------------------------------------------------------
(* solanaAuditPublisherService.publishPollAudit and the audit program.     *)
(* Each account is looked up and, when it is missing, created by a         *)
(* transaction; an account that is there already counts as this call's.    *)

offChain == <<clockVars, swept, voteVars, tallyVars, dbVars, failures, raced>>

FindPoll(x) ==
    /\ pc[x] = "findPoll"
    /\ GoTo(x, IF chainPoll THEN "findRoot" ELSE "createPoll")
    /\ UNCHANGED <<offChain, chainVars, local>>

\* create_poll fails when the account was created since the look-up.
CreatePoll(x) ==
    /\ pc[x] = "createPoll"
    /\ chainPoll' = TRUE
    /\ IF chainPoll THEN Return(x) ELSE GoTo(x, "findRoot") /\ UNCHANGED local
    /\ UNCHANGED <<offChain, chainRoots, chainFinal>>

\* Mutant: the event is recorded before the row.
BeginWithEvents(x) ==
    /\ local' = [local EXCEPT ![x].todo = local[x].plan]
    /\ GoTo(x, IF local[x].plan # {} THEN "rootEvent"
               ELSE IF local[x].final THEN "finalEvent" ELSE "respond")

\* All that is left to do is to record what is on chain.
BeginRecording(x) ==
    /\ local' = [local EXCEPT ![x].todo = local[x].plan]
    /\ GoTo(x, IF local[x].plan # {} THEN "insertRoot"
               ELSE IF local[x].final THEN "finalEvent" ELSE "respond")

\* Mutant: an existing account is not recovered but committed again.
FindRootNever(x) ==
    LET l == local[x] IN
    /\ pc[x] = "findRoot"
    /\ \/ /\ l.todo # {}
          /\ GoTo(x, "commit") /\ UNCHANGED local
       \/ /\ l.todo = {} /\ l.final
          /\ GoTo(x, "findFinal") /\ UNCHANGED local
       \/ /\ l.todo = {} /\ ~l.final
          /\ BeginRecording(x)
    /\ UNCHANGED <<offChain, chainVars>>

\* Batches are gone through in their order.
First(S) == {i \in S : \A j \in S : i <= j}

\* The account of the next planned batch: found, missing, or no batch left.
FindRoot(x) ==
    LET l == local[x] IN
    /\ pc[x] = "findRoot"
    /\ \/ \E i \in First(l.todo) : /\ i <= Len(chainRoots)
                                  /\ local' = [local EXCEPT ![x].todo = @ \ {i}]
                                  /\ UNCHANGED pc
       \/ /\ \E i \in First(l.todo) : i > Len(chainRoots)
          /\ GoTo(x, "commit") /\ UNCHANGED local
       \/ /\ l.todo = {} /\ l.final
          /\ GoTo(x, "findFinal") /\ UNCHANGED local
       \/ /\ l.todo = {} /\ ~l.final
          /\ BeginRecording(x)
    /\ UNCHANGED <<offChain, chainVars>>

\* The roots a commit chains from: those of the row or of the planned batch
\* before it.
PreviousRoot(l, i) ==
    IF i = 1 THEN <<>>
    ELSE IF i - 1 \in l.plan THEN Batch(l.records, i - 1)
    ELSE rootRow[i - 1]

LatestChainRoot == IF chainRoots = <<>> THEN <<>> ELSE chainRoots[Len(chainRoots)]

\* commit_roots: the poll account is open, the index is the next one and the
\* previous roots are the latest ones; otherwise publication fails.
CommitRoots(x) ==
    LET l == local[x]
        Valid(i) == /\ chainFinal = NoResult
                    /\ i = Len(chainRoots) + 1
                    /\ PreviousRoot(l, i) = LatestChainRoot IN
    /\ pc[x] = "commit"
    /\ \E i \in First(l.todo) :
         IF Valid(i)
           THEN /\ chainRoots' = Append(chainRoots, Batch(l.records, i))
                /\ local' = [local EXCEPT ![x].todo = @ \ {i}]
                /\ GoTo(x, "findRoot")
           ELSE Return(x) /\ UNCHANGED chainRoots
    /\ UNCHANGED <<offChain, chainPoll, chainFinal>>

FindFinal(x) ==
    /\ pc[x] = "findFinal"
    /\ IF chainFinal # NoResult
         THEN BeginRecording(x)
         ELSE GoTo(x, "finalize") /\ UNCHANGED local
    /\ UNCHANGED <<offChain, chainVars>>

\* The result this call publishes.  Its hash covers the roots, the votes that
\* were counted and the tally proof that counts them.  (And a count of the rows
\* by a query of its own, which differs from the records' only by a late row.)
Result(l) == [root |-> LastBatch(l.records), votes |-> proofs[l.proof], proof |-> l.proof]

\* Mutant: the program does not compare the final roots.
FinalizableAnyhow(l) == chainFinal = NoResult /\ chainClosed

\* finalize_poll requires an open poll account, its closes_at to have passed,
\* and the latest roots.
Finalizable(l) ==
    /\ chainFinal = NoResult
    /\ chainClosed
    /\ LastBatch(l.records) = LatestChainRoot

\* Mutant: a rejected finalize_poll counts as published.
FinalizeUnconfirmed(x) ==
    LET l == local[x] IN
    /\ pc[x] = "finalize"
    /\ chainFinal' = IF Finalizable(l) THEN Result(l) ELSE chainFinal
    /\ BeginRecording(x)
    /\ UNCHANGED <<offChain, chainPoll, chainRoots>>

\* The finalize_poll transaction; when it is rejected, publication fails.
FinalizePoll(x) ==
    LET l == local[x] IN
    /\ pc[x] = "finalize"
    /\ IF Finalizable(l)
         THEN chainFinal' = Result(l) /\ BeginRecording(x)
         ELSE Return(x) /\ UNCHANGED chainFinal
    /\ UNCHANGED <<offChain, chainPoll, chainRoots>>
-----------------------------------------------------------------------------
(* publishPollAudit, after the Solana publisher returned: rows and events. *)

offRecording == <<clockVars, swept, voteVars, tallyVars, chainVars, failures, raced>>

\* insertRoot: (poll_id, batch_id) is unique.
InsertRoot(x) ==
    /\ pc[x] = "insertRoot"
    /\ \E i \in First(local[x].todo) :
         IF rootRow[i] = NoResult
           THEN /\ rootRow' = [rootRow EXCEPT ![i] = Batch(local[x].records, i)]
                /\ GoTo(x, "mark") /\ UNCHANGED local
           ELSE Return(x) /\ UNCHANGED rootRow
    /\ UNCHANGED <<offRecording, batchOf, rootEvents, finalEvents>>

\* Mutant: the batch's number is one too high.
MarkNextBatch(x) ==
    /\ pc[x] = "mark"
    /\ \E i \in First(local[x].todo) :
         batchOf' = [r \in Requests |->
                       IF r \in Range(Batch(local[x].records, i)) THEN i + 1 ELSE batchOf[r]]
    /\ GoTo(x, "rootEvent")
    /\ UNCHANGED <<offRecording, rootRow, rootEvents, finalEvents, local>>

\* markAcceptedAuditRecordsBatch: the batch's records without a batch_id.
MarkBatch(x) ==
    /\ pc[x] = "mark"
    /\ \E i \in First(local[x].todo) :
         LET members == {r \in Range(Batch(local[x].records, i)) : batchOf[r] = 0} IN
         batchOf' = [r \in Requests |-> IF r \in members THEN i ELSE batchOf[r]]
    /\ GoTo(x, "rootEvent")
    /\ UNCHANGED <<offRecording, rootRow, rootEvents, finalEvents, local>>

RecordRootEvent(x) ==
    LET l == local[x] IN
    /\ pc[x] = "rootEvent"
    /\ \E i \in First(l.todo) :
         /\ rootEvents' = rootEvents \cup {[batch |-> i, root |-> Batch(l.records, i)]}
         /\ local' = [local EXCEPT ![x].todo = @ \ {i}]
         /\ GoTo(x, IF l.todo # {i} THEN "insertRoot"
                    ELSE IF l.final THEN "finalEvent" ELSE "respond")
    /\ UNCHANGED <<offRecording, batchOf, rootRow, finalEvents>>

RecordFinalEvent(x) ==
    /\ pc[x] = "finalEvent"
    /\ finalEvents' = finalEvents \cup {Result(local[x])}
    /\ GoTo(x, "respond")
    /\ UNCHANGED <<offRecording, batchOf, rootRow, rootEvents, local>>

Respond(x) ==
    /\ pc[x] = "respond"
    /\ Return(x)
    /\ UNCHANGED <<offRecording, dbVars>>

\* An await of the handler throws, its answer is lost, or its process stops.
Abort(a) ==
    /\ pc[a] \notin {"idle", "returned"}
    /\ failures < MaxFailures
    /\ failures' = failures + 1
    /\ Return(a)
    /\ UNCHANGED <<clockVars, swept, voteVars, tallyVars, dbVars, chainVars, raced>>

VoteStep(r) == BeginVote(r) \/ InsertVote(r) \/ AppendVoteAccepted(r) \/ LoseRequest(r)

TallyStep(a) == ReadVotes(a) \/ VerifyTally(a) \/ InsertTally(a)

PublishStep(x) ==
    \/ LoadRecords(x) \/ LoadProof(x) \/ BuildBatches(x) \/ CheckMaterial(x)
    \/ TallyStep(x) \/ PlanCommits(x)
    \/ FindPoll(x) \/ CreatePoll(x) \/ FindRoot(x) \/ CommitRoots(x)
    \/ FindFinal(x) \/ FinalizePoll(x)
    \/ InsertRoot(x) \/ MarkBatch(x) \/ RecordRootEvent(x) \/ RecordFinalEvent(x)
    \/ Respond(x)

Next ==
    \/ \E r \in Requests : VoteStep(r)
    \/ ClosePoll \/ ChainReachesClose \/ Sweep
    \/ \E w \in Provers : BeginJob(w) \/ TallyStep(w) \/ CompleteJob(w)
    \/ \E s \in Submitters : BeginSubmission(s) \/ TallyStep(s)
    \/ \E x \in Publishers : OwnerPublishes(x) \/ AutoPublish(x) \/ PublishStep(x)
    \/ \E a \in Actors : Abort(a)

\* Running handlers go on, the worker and the auto publisher poll in a loop,
\* and the cluster's clock moves.  Nobody has to vote, close or press Publish.
Fairness ==
    /\ WF_vars(Sweep) /\ WF_vars(ChainReachesClose)
    /\ \A w \in Provers : WF_vars(BeginJob(w) \/ TallyStep(w) \/ CompleteJob(w))
    /\ \A x \in Publishers : WF_vars(AutoPublish(x) \/ PublishStep(x))

Spec == Init /\ [][Next]_vars /\ Fairness
-----------------------------------------------------------------------------
(* Properties. *)

VoteStates == {"none", "checked", "inserted", "receipt", "rejected", "duplicate", "lost"}

TallySteps == {"idle", "reading", "verifying", "inserting", "completing", "returned"}
PublishSteps ==
    {"idle", "load", "check", "reading", "verifying", "inserting", "reload", "roots",
     "findPoll", "createPoll", "findRoot", "commit", "findFinal", "finalize",
     "insertRoot", "mark", "rootEvent", "finalEvent", "respond"}

PcTypes ==
    /\ \A a \in Provers \cup Submitters : pc[a] \in TallySteps
    /\ \A x \in Publishers : pc[x] \in PublishSteps

\* Every variable has its type.
TypeOK ==
    /\ closed \in BOOLEAN /\ chainClosed \in BOOLEAN /\ swept \in BOOLEAN
    /\ arrival \in Seq(Requests)
    /\ vote \in [Requests -> VoteStates]
    /\ ledger \in Seq(Requests) /\ voteEvents \subseteq Requests
    /\ batchOf \in [Requests -> BatchIds \cup {0}]
    /\ job \in {"none", "queued", "failed", "succeeded"}
    /\ proofs \in Seq(Seq(Requests))
    /\ DOMAIN rootRow = BatchIds
    /\ \A i \in BatchIds : rootRow[i] = NoResult \/ rootRow[i] \in Seq(Requests)
    /\ chainPoll \in BOOLEAN
    /\ chainRoots \in Seq(Seq(Requests))
    /\ chainFinal # NoResult => chainFinal.proof \in DOMAIN proofs
    /\ pc \in [Actors -> TallySteps \cup PublishSteps] /\ PcTypes
    /\ failures \in 0..MaxFailures
    /\ raced \subseteq {"vote", "load", "submission"}

\* Nobody has two votes in the ledger.
OneRowPerVoter == \A i, j \in DOMAIN ledger : VoterOf[ledger[i]] = VoterOf[ledger[j]] => i = j

\* Whatever a voter was told stays true, however requests overlap: a vote with a
\* receipt is in the ledger and in the audit chain, a voter told "already voted"
\* has another vote in the ledger, and only that one.
AnswersAreTrue ==
    /\ OneRowPerVoter
    /\ \A r \in Requests :
         /\ vote[r] = "receipt" => r \in Accepted \cap voteEvents
         /\ vote[r] = "duplicate" => \E q \in Accepted : q # r /\ VoterOf[q] = VoterOf[r]

\* The database never runs ahead of the chain, wherever a publication is cut
\* off: a root row has its account, a root event has its row, a final event
\* has the final account.
RowsFollowChain ==
    /\ \A i \in BatchIds : rootRow[i] # NoResult => i <= Len(chainRoots)
    /\ \A e \in rootEvents : rootRow[e.batch] = e.root
    /\ finalEvents # {} => chainFinal # NoResult

\* The result on chain was stored after the poll closed, on a batch that is
\* the last one on chain, with a recorded tally proof.
FinalResultIsLast ==
    chainFinal # NoResult =>
        /\ closed /\ chainClosed
        /\ chainRoots # <<>>
        /\ chainFinal.root = LatestChainRoot
        /\ chainFinal.votes = proofs[chainFinal.proof]

\* A late vote or a stale load can make the batches differ from the ledger.
Disturbed == raced \cap {"vote", "load"} # {}

\* A stored root is the root on chain, also in a row that was repaired from an
\* account which was there already.
RootRowsMatchChain ==
    ~Disturbed => \A i \in BatchIds : rootRow[i] # NoResult => rootRow[i] = chainRoots[i]

\* What is anchored: the batches on chain are those of the ledger, so that an
\* inclusion proof built from the votes leads to the root on chain.
BatchesAreOfLedger ==
    \A i \in DOMAIN chainRoots :
        i <= BatchCount(ledger) /\ Batch(ledger, i) = chainRoots[i]

\* A batch that was anchored is immutable, however requests, publications and
\* submissions overlap.
AnchoredBatchesAreImmutable == ~Disturbed => BatchesAreOfLedger

\* Also when a vote is late (refuted).
LateVotesKeepBatches == raced \subseteq {"vote"} => BatchesAreOfLedger

\* Also when a load is stale (refuted).
StaleLoadsKeepBatches == raced \subseteq {"load"} => BatchesAreOfLedger

\* An announced result is the one on chain; only the tally proof it names may be
\* another one of the same votes, when several were recorded.
AnnouncedResultIsOnChain ==
    raced = {} =>
        \A e \in finalEvents :
            /\ chainFinal # NoResult
            /\ e.root = chainFinal.root /\ e.votes = chainFinal.votes
            /\ Len(proofs) = 1 => e = chainFinal

\* The tally proof of the result counts the votes under its roots.
ProofMatchesRoots == chainFinal # NoResult => chainFinal.root = LastBatch(chainFinal.votes)

\* Also when it was submitted before the poll closed (refuted).
EarlyTalliesMatchRoots == raced \subseteq {"submission"} => ProofMatchesRoots

\* The result counts every vote on record, hence every receipt, one vote per
\* voter, and the votes under its roots.
ResultCountsEveryVote ==
    raced = {} /\ chainFinal # NoResult =>
        LET counted == Range(chainFinal.votes) IN
        /\ counted = Accepted
        /\ Cardinality({VoterOf[r] : r \in counted}) = Len(chainFinal.votes)
        /\ ProofMatchesRoots

\* Votes, closing and the final result implement the poll's promise to its
\* voters, and after a race at least what cannot be taken back.
Promise ==
    INSTANCE Election WITH
        Ballots <- Requests,
        open <- ~closed,
        accepted <- Accepted,
        result <- IF chainFinal = NoResult THEN NoResult ELSE Range(chainFinal.votes)

ImplementsElection ==
    /\ Promise!ElectionInit
    /\ [][Promise!ElectionNext \/ (raced' # {} /\ Promise!Lapse)]_(Promise!electionVars)

\* A closed poll that fits a tally proof and had a vote when it was closed is
\* finalized and its result event recorded, without anybody's help, unless
\* handlers raced.
ClosedPollsAreFinalized ==
    (AutoOnClose /\ closed /\ Len(ledger) \in 1..BatchSize) ~> (finalEvents # {} \/ raced # {})
=============================================================================
