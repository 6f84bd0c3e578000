# A TLA+ model of the iland backend

The backend (Bun, TypeScript, Supabase/Postgres, a Solana program) runs polls in which
votes are zero-knowledge proofs, tallies them with a proof, and anchors the votes and
the result on Solana. Around that it has accounts, an OIDC provider, discussions with
push notifications, human identity verification and a map of poll results.

This directory holds the models of the parts whose difficulty is concurrency, failure
and ordering, the TLC configurations that check them, and the TLAPS proofs. Paths below
are relative to the repository (`src/...` is the TypeScript source, `supabase/` the
migrations, `solana/` the Anchor program).

- [Inventory](#inventory)
- [Plan](#plan)
- [The modules](#the-modules)
- [The runs](#the-runs)
- [Fairness](#fairness)
- [The proofs](#the-proofs)
- [Where code and text disagree](#where-code-and-text-disagree)
- [What is not modelled](#what-is-not-modelled)

## Inventory

All state lives in Postgres tables and in accounts on chain; a backend process keeps
nothing that outlives a request. Components interact through rows: a handler reads,
awaits something, and writes with what it read. Postgres constraints, the `where`
clauses of updates and a few SQL functions are all there is against interleavings.
`PROJECT.json` lists the components with their files.

| Component | State | Operations | What is hard | Correct when |
|---|---|---|---|---|
| Tally job queue (`zkp_tally_jobs`, migration `20260716130000`) | one row per poll: status, attempts, lock, retry time | enqueue, claim, complete, fail, requeue | lock timeouts while the worker still proves, takeovers, attempts at their limit | stale workers cannot settle a job; a succeeded job has its proof; jobs are served |
| Tally worker (`zkpTallyWorkerService.ts`, own process) | its current job | boot requeue, cycle of claim, load, check, prove, submit, settle | crash at any await; several processes | see above |
| Vote submission (`pollVotingService.ts`, `pollEncryptionKeyService.ts`) | `poll_zk_votes`, `votes`, `poll_encryption_keys` | fetch the key, `submitVote`, vote details | the time stamp is taken long before the insert; two requests of one voter; keys made by concurrent first requests; counts read a query at a time; failure between the vote and its audit event | one vote per voter, allowed and countable; receipts and answers are true; votes only while open |
| Closing (`pollStatusService.ts`, `pollRepository.ts`, trigger in `20260716150000`) | `polls.status`, `ends_at` | lazy status update, trigger that enqueues | each component compares with its own clock | nothing is published before the close |
| Tally proofs (`groth16Tally*Service.ts`, `pollEncryptedTallyService.ts`) | `poll_tally_proofs` | generate, verify, insert | verified against records that may change | the proof counts the votes that are anchored |
| Publication (`pollPublicAuditService.ts`, `zkpAutoResultPublisherService.ts`) | `poll_roots`, `poll_audit_events`, `batch_id` | `publishPollAudit`, `submitTallyProof` | a dozen awaits over database and chain, no transaction around them, several callers | rows follow the chain, batches are immutable, the result counts every vote |
| Solana publisher and program (`solanaAuditPublisherService.ts`, `lib.rs`) | poll, root and final accounts | look up or create, commit, finalize | existing accounts are taken over; the cluster has its own clock | roots are chained; one final result on the last roots |
| Audit hash chain (`backendAuditEventRepository.ts`, migration `20260705170000`) | `backend_audit_events`, one chain per stream | append with compare and set, two attempts | concurrent appends, lost answers | chains stay linked, no event twice |
| Credential registry (`credentialRegistryService.ts`, `credentialRootPublisherService.ts`) | `credential_registry`, `credential_roots` | issue an entry, answer with a root and a path, publish roots, revoke at deletion | leaf index and tree come from rows read earlier; one identity in two calls; the publisher stops between anchoring and marking | every accepted root commits to issued entries; an answer can be proved under an accepted root |
| Sessions (`authService.ts`, `requireViewer.ts`) | challenges, sessions, refresh families, assertion counters | login, refresh, logout, list, viewer, deletion | a session and its family are two rows written one after the other; refreshes overlap; reuse detection | what is spent never works again; lineages end together; deletion is final |
| App attestation (`appAttestation.ts`) | `app_attestation_credentials.last_counter` | verify, record | the counter is read, compared and written in separate steps | see sessions |
| OIDC provider (`oidcProviderService.ts`, `routes/idp.ts`) | QR transactions, authorization codes, access tokens, refresh families | poll, approve, deny, preview, exchange, refresh, user info, revoke | approvals, denials, polls and deadlines overlap; single use rests on conditional updates | a transaction yields one code; a code gives tokens once |
| Rate limits (migration `20260701120000`) | buckets | consume, one statement | none | - |
| Notifications (migration `20260826120000`, `notificationDeliveryWorker.ts`) | notifications, installations, deliveries with leases | triggers, claim, send, complete, mark | completion does not look at the lease; a run has several handlers | every delivery ends; a push goes out twice only when something failed |
| Map cache and markers (`pollMapRefreshWorker.ts`, `pollMapCacheRefreshService.ts`, `mapMarkerService.ts`) | queue of pending vote events, cache rows | enqueue, bootstrap, select, rebuild, acknowledge or fail, get markers | votes that arrive during a rebuild; cells of rounded, negative degrees; small areas that merge | queued polls are refreshed; only racing votes can be missing; markers are in their cells and add up; small areas are hidden |
| Human verification (`humanVerification*Service.ts`) | requests, media, reviews | create, upload, complete, decide, register, retain | an approval is checked, used and marked in three steps; storage and rows can differ | a registration spends an approval of its own; a decision is about images that are there; old images go |
| Poll drafts (`pollDraftService.ts`, migration `20260710130000`) | polls, options | create, update, publish, review, close | each in several statements around an awaited moderation | a published poll is what was moderated, and never changes |
| Discussions and moderation (`discussionService.ts`, `adminModerationService.ts`, triggers) | posts, comments, likes, reports, blocks, counters | create, edit, delete, like, report, block, decide, page through comments | an edit is stored by id after its moderation; triggers of overlapping transactions count comments; a page is put together from several queries | what is public was cleared; counts are exact; a reader sees every comment once |
| Accounts (`authAccountBindingService.ts`, `verifiedIdentityBindService.ts`, `viewerProfileService.ts`) | users, identity profiles, verified identities, wallet credentials | register, bind, profile, nickname, home, wallet, deletion | registration writes three rows in three statements; profile updates write back what was read; deletion in between | a person has one user, who is the one answered; badges are backed; chosen names stay |
| Uploaded images (`flagImageService.ts`, `discussionMediaService.ts`) | flags, selections, uploads, objects in storage | sign, store, complete, select, attach, delete | rows are written by id after a read, a moderation or a look at the storage; selection races deletion | what is selected or shown is stored, as announced and its author's; one upload is the image of one post |
| Routing, configuration | none | views and validation | little | see `PROJECT.json` |
| Circuits and proof verification | none | pure cryptography | mathematics, not protocol | a verdict is an outcome, except that a proof made for another poll or key is refused |


`PROJECT.json` lists, under `hazards`, every place where this code could go wrong in a
way a test would hardly reach, with the properties that cover it. What no property
covers yet has a note.

## Plan

The modules came in the order of what the system promises; each step was a module, a
passing run or a focus of one, and then proofs.

1. `TallyQueue` (abstract: `LeaseQueue`), `AuditHashChain` (abstract: `AuditLog`),
   `PollAudit` (abstract: `Election`), which composes votes, closing, tally proofs,
   publication and the chain, because their hazards lie between them.
2. `CredentialRegistry`, `AuthSessions`, `OidcProvider`, `Accounts`, `MediaUploads`: who
   may do what.
3. `PollDrafts`, `Discussions`, `Voting`, `MapMarkers`, `CommentThreads`: what is public.
4. `HumanReview`, `PushDelivery`, `PollMapRefresh`: the workers.

The safety of every module is proved for all values of its constants, except of
`MapMarkers` and `CommentThreads`, of which only the types are: see
[what is only model-checked](#what-is-only-model-checked). Open is liveness, which the
prover does not do, and what [is not modelled](#what-is-not-modelled).

## The modules

| Module | Role |
|---|---|
| `TallyQueue.tla` | job rows, worker processes, time |
| `LeaseQueue.tla` | what a lease-based queue promises |
| `TallyQueueProofs.tla` | theorems about `TallyQueue` |
| `PollAudit.tla` | one poll from its votes to its result on chain |
| `Election.tla` | what a poll promises its voters |
| `PollAuditProofs.tla` | theorems about `PollAudit` |
| `MCPollAudit.tla` | voters, symmetry for TLC |
| `AuditHashChain.tla` | concurrent appends to hash-linked streams |
| `AuditLog.tla` | what the audit trail promises |
| `AuditHashChainProofs.tla` | theorems about `AuditHashChain` |
| `MCAuditHashChain.tla` | streams for TLC |
| `CredentialRegistry.tla` | entries, roots, their publication on chain |
| `AuthSessions.tla` | logins, sessions and refresh families of one user |
| `OidcProvider.tla` | signing in at another site |
| `OneTimeGrant.tla` | what the backend promises of everything that is used once |
| `Discussions.tla` | a post, its comments, likes, reports, blocks and reviewers |
| `PollDrafts.tla` | a poll from its creation to its close |
| `Accounts.tla` | persons, their users and what users keep about themselves |
| `Voting.tla` | a vote from the device to its row, and the counts of the rows |
| `MapMarkers.tla` | what a cached map contains, and what is shown of it or counted on request |
| `MediaUploads.tla` | flags that users share and select, and images of posts |
| `CommentThreads.tla` | a reader pages through comments and replies while they change |
| `AccountServices.tla` | the registry, sessions, sign-ins, accounts and images together, and what users are promised of all of them |
| `ContentServices.tla` | discussions, drafts and voting together |
| `BackendServices.tla` | all ten services: these two, maps and comment pages |
| `DataLemmas.tla` | lemmas about sequences, finite sets and numbers the proofs share |
| `IdentityProofs.tla` | theorems about `OidcProvider`, `AuthSessions` and `CredentialRegistry` |
| `ContentProofs.tla` | theorems about `Discussions`, `PollDrafts`, `Voting`, and the types of `MapMarkers` and `CommentThreads` |
| `AccountProofs.tla` | theorems about `Accounts` and `MediaUploads`, and about the services together |
| `MCServices.tla` | the services, one in focus, for TLC |
| `HumanReview.tla` | human identity verification with its retention worker |
| `PushDelivery.tla` | notifications, installations and deliveries |
| `PollMapRefresh.tla` | votes, the refresh queue and the cached maps |
| `BackgroundWorkers.tla` | these three together |
| `WorkerProofs.tla` | theorems about these three |
| `MCWorkers.tla` | these three, one in focus, for TLC |

Conventions: one action per SQL statement, SQL function, RPC or transaction that a
handler awaits; what the handler computes between two awaits belongs to the action
after which it runs. `pc` says where a handler stands, `local` what it has read. The
operators marked *Mutant* are small bugs that could be written in place of a definition;
each shows that a property notices. The specifications do not use them.

### TallyQueue

The variables `status` to `jobHash` are the columns of `zkp_tally_jobs`, one value per
poll (`poll_id` is unique). `Enqueue`, `Claim`, `Complete` and `Fail` are the four SQL
functions; `SelectRecoverable` and `Requeue` are the two requests of
`requeueRecoverableFailed`. A worker's cycle (`processNextJob`) goes
`loading -> checking -> proving -> submitting -> completing`, or to `failing` from any of
its error branches; `Throw` is an await that throws (the loop swallows it and the row
stays running), `GoDown` a process that stops at any step. Time is two booleans per row:
`due` and `expired`. Both may become true whenever they may in the code, in particular
`LockExpires` while the lock's owner is still at work.

`claimNo` and `token` are history: they number the claims of a row, to state that the
condition `status = 'running' and locked_by = worker` fences stale workers although it
contains no claim number. Worker ids are taken to be distinct (the default id is made of
host and process id).

`Enqueue` may happen in any state, which is more than the trigger and the publish
handler do. The job hash is not part of the lease queue mapping: `performed` is the set
of polls with a tally proof.

### PollAudit

One production poll. `closed` is the moment `ends_at` passes, `swept` the moment somebody
runs `closeExpiredPolls` and the trigger may enqueue the job, `chainClosed` the moment
the cluster's clock gets there.

- Votes: `BeginVote` takes `submittedAt` and checks the poll; `arrival` keeps the order
  of the time stamps. `InsertVote` is the duplicate query and the insert under the unique
  index, `AppendVoteAccepted` the event and the receipt, `LoseRequest` a rejected proof,
  a throw or a restart. `ledger` is the table in `accepted_at` order
  (`WithRow` puts a row at one of its `PlacesOf`).
- Tally: the worker (`BeginJob` ... `CompleteJob`), the publishing handler in inline mode
  and the owner's own submission share `ReadVotes`, `VerifyTally`, `InsertTally`.
- Publication: `LoadRecords` and `LoadProof` are concurrent queries, `BuildBatches`
  decides whether the tail batch is sealed, `CheckMaterial` whether to hand the poll to
  the prover (which may be a worker, the handler itself or nobody: `ProverMode`),
  `PlanCommits` compares with `poll_roots`. `FindPoll` to `FinalizePoll` are
  the Solana publisher together with the program's checks; `InsertRoot`, `MarkBatch`,
  `RecordRootEvent`, `RecordFinalEvent` the rows that follow. `Abort` cuts any handler
  off between two of these.

A Merkle root is the sequence of votes under it; three trees are built from the same
records, so one sequence stands for all three roots. A result is its last root, its tally
proof and the votes that proof counts. `buildResultHash` hashes more: names and counts of
options, which these determine, and the number of rows and the status of the poll, which
are read by queries of their own and differ from what the records say only when a row came
late, as named below. `job` is what publication sees of `TallyQueue`: none, queued, failed
for good (`GiveUp`: a tally that does not fit or does not match is not tried again),
succeeded. A job that is tried again stays queued; attempts that run out are
`TallyQueue`'s subject.

Nothing in the code keeps vote requests, publications and the closing apart, and the model
does not either. `raced` is history: it records which of three races happened.

- `"vote"`: a row is inserted after the poll closed, or before rows of a batch that is
  full (`IsLate`): the request was checked against a `submittedAt` from before its proof
  was verified.
- `"load"`: the poll closes while a publication has read its records and has not yet
  decided whether to seal them, and a vote was accepted in between (`LoadIsStale`).
- `"submission"`: a tally proof passes its verification before the poll closed
  (`VerifyTally`): votes may follow it.

Properties that one of these can break say which (`Disturbed`, or `raced = {}`): there is
no other way to break them. Each race does break something. `poll_audit_late_vote`,
`poll_audit_stale_load` and `poll_audit_early_tally` check the same statements without one
of the exceptions and find the violation. In every other way requests, publications,
provers and submissions overlap as the code lets them: two requests of one voter, votes
and loads that cross without harm, two publications at the same accounts and rows, several
proofs of the same votes.

### AuditHashChain

`chain[s]` are the rows of a stream, `previous[c]` the tail hash a call has read. The hash
of a row is the sequence of events up to it (SHA-256 taken as injective; canonical JSON
payloads are identified with the event). `AppendEvent` is the SQL function when the
compared hash is still the tail, `MissTail` when it is not, `LoseAnswer` when the row is
inserted and the answer is lost, `FailCall` any other error. A caller that passes its own
`previousEventHash` is not modelled: no caller does.

### The services and the workers

In all of them a request is an element of a set of calls with a record
(`issue[c]`, `call[r]`, `oidcCall[c]`, `talk[c]`, `draftCall[c]`, `accountCall[c]`, `votingCall[c]`,
`reviewCall[c]`):
where it stands, what it asks for, what it has read. A call that is cut off takes no
further step. What the calls ask for comes from a set of mixes, one of which `Init`
chooses; the modules themselves leave it open. Hashes, tokens and secrets are numbers
or sets that stand for what they are made of.

`CredentialRegistry`. `registry` holds the entries, `rootRows` the history of roots,
`anchors` the accounts on chain. A tree is its set of leaves and stands for its root.
`FindExisting`, `ListEntries`, `InsertEntry`, `FindAfterConflict`, `ReadActive`,
`ReadLatestRoot` and `SettleRoot` are the queries of `issueCredentialRegistryEntry` in
order, with the conflicts of the unique indexes; `ListUnpublishedRoots`, `AnchorRoot`,
`MarkRootPublished` the script, which may stop between any two of them.

`AuthSessions`. `sessions` and `families` are the two tables, one row each for one login.
What a request revokes is the active lineages in any order of them (`Orders`): the queries
of the code that list several do not say which comes first.
The route actions begin a request with a challenge, token or session; `stale` remembers
whether that was spent already. Revocations are a list of writes (`Lineage`,
`FamilyThenSession`, in the order of the code) which `RevokeNext` carries out one by one,
so that any other request gets in between. `auth_generation` is left out: it only
changes in the transaction that deletes the rows that carry it.

`OidcProvider`. QR transactions, codes, access tokens and families are the four tables;
each conditional update (`Deliverable`, `Consumable`, `Rotatable`) is the `where` clause
of its statement. `DeleteOidcAccount` is the deletion; an approval that is under way then
inserts rows of a user that is gone, which foreign keys (`ReferencesExist`) refuse.

`HumanReview`. `reviews` and `media` are the tables, `media[r][k].stored` the object in
the bucket, `settledOrder` the settled requests by `updated_at`. Registration is in it as
far as it uses the approval: `ValidateApproval`, `EnrolDevice`, `Revalidate`,
`ConsumeApproval`, `AssociateUser`, and the deletion of the images. The worker takes the
requests of its list one by one, and their images one by one. An object that the storage
does not remove is left to a later run (`PassOverMedia`), and a query that throws ends the
run where it is, perhaps after the object is gone and before its row says so
(`AbortCleanup`); the next run starts over. Both lists are limited (`CleanupLimit`, for the
100 of the code), the overdue ones in no particular order. Time is `overdue` for deadlines
and `agedCount` for the retention period.

`PushDelivery`. Triggers insert a notice and its deliveries, `ClaimDeliveries` is the SQL
function that screens and leases, `handlers` the promises of a run: `Send`,
`CompleteDelivery`, `MarkInstallation`, `CatchFailure`. A lease may run out under a
handler that is still at work, and a worker may crash with any number of handlers.

`PollMapRefresh`. `queue` is the table, `cache` the set of votes a cached map counts.
A rebuild reads page after page (`ScanPage`) in the order of random ids, while votes are
inserted. `racingVotes` remembers which of them were inserted meanwhile. A cycle takes the
oldest candidates (`Oldest`, twice: the query is limited, then the cycle), in the order of
the queue.

`Discussions`. Item 0 is the post, item n the n-th comment. Edits and comments wait for
the moderation, which may answer anything; a change of a comment is split where its
trigger has counted and waits for the row of the post (`Counting`), because two
transactions count independently of each other.

`PollDrafts`. `draft` is the row, `draftOptions` its options; a policy is named by the
call that wrote it, a hash is the set of options it is made from. The triggers that
freeze a published poll are guards of `UpdateDraft`, `StoreModerated` and the option
actions: a write they refuse ends the call.

`Accounts`. `users`, `identityOf`, `profiles` and `wallets` are the tables; a person is a
canonical identity key. A registration makes a user, a profile and an identity in three
steps (`InsertUser`, `InsertProfile`, `InsertIdentity`), and whoever comes second at the
unique index leaves a user behind, as in the code. `chosen` and `raced` are history: the
name a user chose last, and the users for whom another profile request was under way.

`Voting`. It begins where `PollAudit` takes a vote for granted: the key of a poll is looked
up by poll, then by key id, then inserted (`FindKeyByPoll`, `FindKeyByKey`, `InsertKey`,
`FindRacedKey`), a device makes a ballot from the key it was answered (`PrepareBallot`),
and `submitVote` checks option, identity, earlier votes, rules, proof and nullifier one
await after the other while rows change (`ChangeVoter`, `Closing`). The two polls that share
a key id are the case the key lookup has to refuse. Legacy polls are in it too. Counting is
by the code: `CountHint`, or probes that double and bisect when the count is missing.

`MapMarkers`. Where `PollMapRefresh` has a set of votes, this module has the cells a
rebuild counts (`AddVote`, with the rounding of the code, in thousandths of a degree), the
markers read from them for cities and for their parents, and the other path, which groups
votes by home, moves groups of fewer than K votes to their country (`MergeUp`) and leaves
out what is small even then. Homes may change between the two queries of that path.

`MCServices` and `MCWorkers` put several components in one run. `focus` is chosen by
`Init`; the component in focus moves, the others stay in an initial state. That loses
nothing: these components share no table, except that `delete_account_for_user` touches
several, and each module has that transaction as a step of its own.

`MediaUploads`. `flag` and `upload` are the rows, `flagFile` and `imageFile` the objects
in the storage, `selected` and `gone` columns of `users`, `posts` the discussion posts.
The client stores a file in a step of its own, at any time after the URL was signed, also
when the row is gone. A flag is deleted in four steps (read, count, row, file) which race
selections and completions; that the row is refused while a user references it is the
foreign key of the migration. A post resolves its upload, is moderated, stored and then
attached, and may fail before each step. Two consequences are worth knowing. A request
that overlaps the deletion of its user's account may still select a flag, which then can
never be deleted. And any number of requests may resolve one upload before one of them
stores its post; the unique index on the image of a post (`ImageMayBeStored`) then makes
the statement of every other one fail, which ends that request with an error
(`AnImageIsOfOnePost`). `untaken` is history: an attachment was lost, or a completion that
had read the row as `signed` set an attached one back to `uploaded`. The upload then looks
usable although a post shows it, so that further requests are moderated for nothing;
`UsableUploadsAreFree` says that there is no other reason for that.

`CommentThreads`. The rows are `thread`, `commentStatus` and `likeCounts`; a comment is its
number, which stands for `created_at` and `id`. `reader` is a client that asks for the
first page, then for every page and every thread a cursor points to. Roots, previews and
orphans are read by separate queries (`ReadRoots`, `ReadPreviews`, `ReadOrphans`), and
comments, likes, decisions, blocks and the post may change between any two of them.
`moved` is history: what changed. `ReadersSeeEverythingOnce` is about all the others. It
says exactly what is hidden for good, too: of a thread whose root the reader has blocked
only the preview is shown, as orphans, and the first page alone has orphans.

## The runs

| Run | Instance | Shows |
|---|---|---|
| `tally_queue` | 1 poll, 2 workers, limit 2 attempts, 1 restart | types, fencing, attempts, proofs of succeeded jobs, the lease queue, and that claimable jobs are served |
| `tally_queue_exhausted` | 1 poll, 1 worker | *violated*: `QueuedJobCanBeClaimed` |
| `poll_audit` | 2 votes, batches of 1, 1 publisher, 1 worker, 1 cut-off handler, auto-publication | types, rows follow the chain, closed polls are finalized |
| `poll_audit_races` | 3 vote requests of 2 voters, batches of 2, 1 publisher, owner's submission, proving disabled | answers stay true and nobody votes twice, the result counts every vote, `Election` is implemented |
| `poll_audit_publishers` | 2 votes in one batch, 2 publishers that prove inline | rows match accounts, anchored batches are immutable, the announced result is the one on chain, the final result is on the last batch with a recorded proof |
| `poll_audit_late_vote` | 2 votes, 1 publisher, 1 worker | *violated*: `LateVotesKeepBatches` |
| `poll_audit_stale_load` | the same | *violated*: `StaleLoadsKeepBatches` |
| `poll_audit_early_tally` | owner's submission | *violated*: `EarlyTalliesMatchRoots` |
| `audit_hash_chain` | 3 calls on one stream, 1 on another, 2 attempts | linked chains, truthful answers, only contention of the stream makes a call give up, `AuditLog` is implemented |
| `services` | issuing: 3 calls on 2 identities, pages of 1; sessions: 3 requests of 5 mixes, 3 devices, limit 1; OIDC: 5 calls of 6 mixes; a discussion with 6 calls of 6 mixes; drafts: 3 calls; accounts: 4 calls of 5 mixes, 3 persons; voting: 4 calls of 6 mixes, 2 production polls that may share a key id, 3 legacy polls, 3 voters; maps: 4 votes, 512 distributions over 4 homes or 4 places, K = 3, pages of 2; images: 6 calls of 5 mixes, one flag, one upload, 2 posts; comment pages: 5 comments, pages and previews of 1, 560 constellations at rest and 8 with 2 changes | roots, answers, stale requests, deletion, lineages, single use, who is answered, badges, names, one allowed and countable vote, true tallies and maps, stored images of one post, every comment once, public content, counts, `OneTimeGrant`, frozen polls |
| `workers` | reviews: 5 calls of 6 mixes, one kind of image, cleanup of 1, failing removals and cut-off runs; pushes: 2 sessions, 2 workers, 2 attempts, 3 changes or troubles; maps: 2 votes, 2 polls or 2 workers, pages of 1, cycles of 2 polls | approvals, `OneTimeGrant`, retention, ends of deliveries, what doubles or loses, refreshed polls |
| `poll_drafts_hash` | 3 calls | *violated*: `HashIsOfTheOptions` |

Why the bounds are enough. *TallyQueue*: jobs of different polls share nothing but the
workers, so one poll shows every conflict about a row; two workers give a takeover and
the return of the stale one; a limit of 2 separates a first, a last and an excess attempt.
The theorems remove all of these bounds. A starting worker requeues at most 25 rows of
the failed ones, which one poll cannot exceed. *PollAudit*: three requests with batches
of two give a full batch, a duplicate vote, a late one and one that goes before rows that
are there; two votes with batches of one give a chain of two batches; two publishers give
every race for a row or an account, and two provers; one cut-off handler at every
possible step is what each recovery path of the code is written for (`MaxFailures`). A
process that ends in the middle of a publication is such a handler; `poll_audit_races`
and `poll_audit_publishers` do without, as the proofs cover any number. Submissions by
the owner are bounded to one per submitter. *AuditHashChain*: with two attempts it takes
two winners to make a third call give up; the second stream shows that it does not
interfere.

`CHECK_DEADLOCK FALSE` is said where a behaviour may end: restarts are bounded, a poll
that was finalized needs nothing more, every append returns.

`ClosedPollsAreFinalized` speaks of polls that fit one tally batch and had a vote on
record when they closed: for larger ones the code has no tally proof (a limit of the
circuit). And unless handlers raced: when the only vote is inserted after the status became
`closed`, the trigger has enqueued nothing and nobody publishes the poll without the owner.

`AnnouncedResultIsOnChain` asks for root and votes of the result on chain, and for the same
result when one tally proof was recorded. Two inline publications that overlap can each
store a proof of the same votes; the second finds the final account and records its own
result hash, which names the other proof. No text of the repository says which proof the
event must name.

## Fairness

`TallyQueue`: weak fairness of each worker's step (a process that is up keeps polling,
one that is down is restarted by its supervisor, `startLoop`) and of time (a lock timeout
or retry delay passes). None for enqueueing, crashing, throwing or account deletion.
`ClaimableJobsAreServed` needs no more, because each crash or throw costs an attempt.

`PollAudit`: weak fairness of the worker, of the auto publisher and of running
publications (timers in `server.ts`; an await returns or throws), of the sweep that
closes expired polls and of the cluster's clock. None for voting, closing, the owner's
requests or failures.

`MCWorkers` (`FocusedFairness`): of the retention worker (`ReviewFairness`), that again and
again one of its hourly runs comes to its end, and that the storage does not refuse to
remove for ever (strong fairness of `EraseMedia`: an image that is tried run after run is
removed in one of them). Without either no image need ever go, in the code as in the model:
runs may be cut off, and removals fail, any number of times in between. Weak fairness of the
push workers and their handlers with the time they wait for (`PushWork`: a claim, the
handlers, the end of a lease, the retry delay; not the crashes and failing calls), of
each map worker's step, and of the time after which a queued poll is due or has cooled
down. All of them are timers started in `server.ts` or scripts. None for requests,
votes, failures or crashes, whose number is bounded. The condition on `focus` keeps the
fairness of components that stand still out of the way.


`AuditHashChain` states no liveness.

## The proofs

`tlapm` checks every theorem from nothing; only the assumptions named in the modules are
used. They say that names of different kinds are different, that limits are positive
numbers, that `StreamOf` and the mixes of calls are functions of the right kind (what the
requests of a client can ask for, one per call), that a review has at least one kind of
image, and that a few sets are finite, as they are in any database: the identities of the
registry, the calls of reviews, the sessions that get pushes, the votes and polls of the
map, and, for the types of the services together, the writers (a hypothesis of
`ServicesAreTyped`).

An argument that several modules share: an answer is about what a request has read, and
rows may have changed since. So each invariant says, for every place where a request can
stand, what of the rows it has read is still true, and the proofs have one lemma per
module that every step keeps it. That part, not the property, is most of the work, and it
is where the reason is found why the code gets away without transactions: rows are never
deleted while something refers to them, statuses only move forward, `where` clauses
compare what was read.

`TallyQueueProofs`, for any polls, workers, limits and restarts:

- `TypeCorrect`: the columns' types, `lockedBy` set exactly in running rows, a job exactly
  in a cycle. One lemma per part.
- The invariant `QueueInv` adds `CompletingHasProof` (a cycle that is about to complete saw
  or inserted a proof), `RowsExist`, `AttemptsWithinLimit` and `LockIsLatestClaim`.
  `SucceededHasProof` alone is not inductive: `Complete` writes `succeeded` without
  looking at proofs, and is right only because of what the cycle did before.
- `SucceededJobsHaveProofs`, `AttemptsAreBounded`, `LockFencesOldClaims` follow;
  `LatestClaimSettles` is the action property, from the same invariant.
- `RefinesLeaseQueue`: `TallyQueue` implements `LeaseQueue` under the mapping of statuses
  to phases, `lockedBy` to `lease` and polls with proofs to `performed`.

`AuditHashChainProofs`, for any calls, streams and number of attempts:

- The invariant `ChainInv` adds to the properties `HashLengths` (a hash is as long as its
  position) and `Knowledge`: what a call that is reading or appending knows about the
  tail, and that each attempt it used up was lost to a row inserted since. The second is
  what makes `ConflictsMeanProgress` inductive.
- `ChainTypes`, `StreamsAreHashChains`, `AppendAnswersTruly`, `ConflictsNeedProgress`, and
  `RefinesAuditLog` for the abstract log.

`ContentProofs`, of `PollDrafts`, for any set of calls:

- The invariant `DraftInv` is `PublishedPollsAreCleared` with what a call is about to
  write (`Prepared`): a call that updates, moderates or inserts has a policy and, where it
  publishes, options, whether it read them or brought them. The property is not inductive
  without it: the update after the moderation publishes what the call remembers, not what
  is in the row.
- `PublishedPollsAreClearedAlways`, and the action property `PublishedPollsAreFrozenAlways`.

`IdentityProofs`, of `CredentialRegistry`, for any identities, secrets, calls, page and list limits:

- The invariant `RegistryInv`: no two entries have one index (`LeavesAreUnique`), whatever
  a call has listed and whatever became a root consists of issued leaves (`ListsAreIssued`,
  `RootsAreIssued`), and a call that goes on has a row of its own (`CallsHaveRows`).
- `RootsCommit` (`RootsCommitToIssuedCredentials`), `AnswersProvable` and
  `SignedRootsAnchored` follow, and with finitely many identities `NextLeafAlwaysFree`
  (`NextLeafIsFree`): unless a query returned fewer entries than are active, or the entry
  with the highest index was revoked, the index after the highest listed one is free.
  `CredentialAnswersAlwaysHold` is all four.

`ContentProofs`, of `Voting`, for any polls, key ids, voters, calls and mixes:

- The invariant `VotingInv`: the key ids and rows are of their types (`KeysOK`), accepted
  votes can be counted (`ZkVotesOK`), and `CallsOK`: the key of a ballot has a row, a call
  past the check of the key holds the key of its poll, and a call that brings a ballot is
  never in the branch of the lookup that lost a race. That branch answers the row of the
  key id without asking whose it is, which would let a vote in that no tally can open; it
  is not reached with a ballot because a ballot exists only once its key's row does.
- `EveryVoteCanBeCountedAlways` follows. It rests on `KeysAssumption`: a production poll
  has a key id.
- `CastInv` is about who votes. A request past the check of the rules has a voter who
  meets them or who changed since (`VoterHolds`), one that answers "accepted" or "already
  voted" has the row of its voter there unless the voter is deleted (`AnswerHolds`), and
  the rows of a voter who is deleted are gone unless a request was under way meanwhile
  (`GoneOrMoved`). That nobody votes twice is inductive by itself, from the nullifier in
  production polls and the unique index in legacy ones.
- `TallyInv` is about counts. `least` and `most` are history: the fewest and the most
  votes a poll had during a request. What a request shows is between them, and so are the
  two ends between which it still probes (`Noted`): the lower end is a number of votes that
  were there when it was looked at, the upper one a number that were not. The doubling and
  the bisection each keep this although every probe sees other rows.
- `VotesAlwaysHold` is all of it.

`PollAuditProofs`, for any requests, voters, handlers, provers, batch size and number of
failures:

- `Types` is `TypeOK` with the types of what handlers hold (`LocalTyped`), and what a
  handler must have at hand where it stands (`Prepared`: a publication that goes to the
  chain has planned its commits, one that finalizes has a proof). `TypeCorrect` follows.
- `Rows` is `RowsFollowChain` with the same of what a handler is about to record
  (`OnChain`): the row of a batch is written after its account exists, the event after the
  row. It needs no assumption on how calls overlap or where they are cut off, and neither
  do `Answers` (`AnswersAreTrue`) and `Closing` (`FinalResultIsLast`).
- The other half is about what is on record when it is anchored. As long as no row was
  late and no load stale, `Anchored` says of every publication how what it has read stands
  to the ledger (`ReadsLedger`: each batch it will find full, or is about to seal, is one of
  the ledger that no later vote changes), and of the chain that each root is such a batch
  (`Anchors`, `Settled`). The step that matters is a row that goes before others: it leaves
  the full batches alone unless it is late (`LedgerKeeps`). `Counted` and `ResultCounted` say
  the same of tally proofs and of whoever holds one, as long as none was verified early:
  every proof counts the whole ledger. `BatchesAreImmutable`, `RowsMatchChain`,
  `AnnouncedResultsAreOnChain` and `ResultsCountEveryVote` follow.
- `VotingImplementsElection` is step by step, too. Until a race each step is one of
  `Election` or a stutter. After one, `Lapse` is what is left, and not nothing: the poll
  stays closed, rows stay, the result stays, and a result counts rows only (`Recorded`).

These theorems are about every behaviour of the specification and have no hypothesis
beyond the assumptions on the constants. Where their statements make an exception it is
for one of the three races of `raced`, which are steps of the model and not excluded from
it.

`ContentProofs`, of `Discussions`, for any writers, calls and comments:

- `Rows`: a call that has counted holds a row until it commits, a comment of its own that
  nobody else sees yet or the comment it decides about, unchanged since; no two calls hold
  one row (`HoldsRow`). Unless another transaction committed since it counted, its count is
  the one there will be when it commits. With `Exact` that makes `CountsAreExactAlways`.
- `Cleared` is about `OnlyClearedContentIsPublic`, which the run composes into
  `OnlyClearedIsPublic`: a content that was rejected is neither public nor waiting for a
  review, and no decision is about a content that is yet to be written. Without the second
  half an edit could bring a text that somebody already approved.
  `PublicContentIsCleared` follows.
- With `PollDrafts`, `PublicIsAlwaysCleared` is the composed `OnlyClearedIsPublic`.
- `Bounds` are the parts of the type invariant that are not types (one report per user and
  item, replies to earlier comments, no more likes than writers); `DiscussionTypesHold`
  needs them, and a finite set of writers.

`IdentityProofs`, of `OidcProvider`, for any calls, transactions, codes and tokens:

- `OidcInv`: the types; what a call relies on where it stands (`HoldsRows`, and
  `HoldsConsent`: an exchange past the lookup of the user relies on a consent that was
  given before the account was deleted); that rows of the new account are told from those
  of the deleted one (`Epochs`); and that a transaction has one code at most (`SingleUse`).
  `OneCallSpendsAToken` adds that the one call that moved a token's row out of its live
  status is the one that goes on with it (`SpentByOne`), `StaleTokensAlwaysFail` that what
  is stale when a call begins stays stale (`StaysStale`). `DeletionEndsAllTokens` and
  `QrTransactionsAreGrants` follow.
- A deletion voids several approved transactions in one statement. The first form of
  `OneTimeGrant` voided one grant at a time, which the instances of the run could not tell
  apart; the step-by-step proof could, and `Void` now takes a set.

`IdentityProofs`, of `AuthSessions`, for any devices, challenges, requests, session limit
and number of tokens:

- `AuthInv`: the types; a token that is not handed out yet is held by one request
  (`TokensAreApart`), and so is a session whose family is not inserted yet
  (`RowsAreApart`). `StaleHold` says how far a request that began with something spent can
  get: up to the statement that compares, and never past it.
- `LineagesEndTogether` is not inductive without `WritesArePaired`, which is about the
  writes that a request has yet to make: whoever is about to revoke a session has its
  family in the same list, before or after it, unless the family has ended already. With
  it, a revoked session with an active family always has a request that is on its way to
  the family, or was cut off there, or the family was inserted by a login that was revoked
  meanwhile.
- `StaleRequestsAlwaysFail`, `LineagesAlwaysEndTogether` and `DeletionEndsSessions` follow;
  with the theorems about `OidcProvider` they make `SignInsAlwaysHold`.

`AccountProofs`, for any persons, nicknames, calls, uploads and posts:

- `AccountInv`: the types, `BadgesAreBacked`, `ChosenNicknamesStay`, `DeletedStayBare` and
  what calls have read (`CallsHold`). `FoundOwner`: the user that a registration or a
  binding goes on with is the owner of the person, for good once there is one.
  `FoundWallet`: the identities and the wallet that an issuance has found are there until
  the account is deleted. `FoundName`: a request that is about to store a generated name
  belongs to a user who has chosen none, or for whom another request was under way.
  `LeftAlone` is what deletion rests on: no
  request of a deleted account is under way unless it was then; what remains is a binding
  by another user who names the same person.
- `MediaInv`: what is active or uploaded was compared with the announcement when the file
  was in its last state (`RowsAreFinal`), a request that is about to mark, attach or remove
  something relies on that (`MediaCallOK`), and two posts never show the upload
  (`ImagesInOrder`, from the unique index alone). For the rest of it, as long as the
  upload was not made usable again (`untaken = {}`), one that a post shows is attached to
  it, or the request that stored the post is about to attach it.
- `AnswersAlwaysNameTheOwner`, `BadgesAreAlwaysBacked`, `DeletedAccountsAlwaysStayBare` and
  `MediaAlwaysHolds` follow. `UsersAreAlwaysShownTheTruth` and `DeletionIsAlwaysFinal`
  compose them with each other and with sessions and tokens, `ServicesAreTyped` the types
  of all ten services.

`WorkerProofs`, of `HumanReview`, for any calls, requests, devices and images:

- `ReviewInv` in three parts. `RowsOK`: a request under review has its images, and
  `settledOrder` holds the settled requests and no others. `ReviewCallsOK`: a creation that
  inserts images has a request of its own whose remaining images have no row yet, a
  completion has verified the images it has left behind *as long as the request is still
  being uploaded*, a registration past the consumption holds a consumed request that no
  other holds. `CleanupOK`: the worker's lists hold requests that were overdue, or settled
  ones. What makes it inductive is `Lasting`, which every step satisfies: requests and
  image rows stay, settled statuses do not change, none returns to the upload, and images
  of a request in upload are not lost. `ApprovalsStayEarnedAndSpentOnce` and, step by step,
  `ReviewsImplementGrants` follow; the last also needs that every request has the call that
  made it (`OwnRequests`), as calls are what the refinement counts its grants by.

`WorkerProofs`, of `PushDelivery`, for any workers, sessions, batch and number of attempts:

- `PushInv` says what a delivery looks like that nothing went wrong with (`Sound`): it has
  one handler at most, whose claim is the latest; in processing it has one and its lease
  holds; it was accepted once at most, and then it is final or its handler has yet to say
  so; pending or waiting for a retry it has no handler, was not accepted and has attempts
  left. `doubted` is the
  set of the others: those that lost a lease, an answer, an update or a worker.
- `DuplicatesAreAlwaysExplained` follows: a delivery that was accepted twice or attempted
  more often than the limit is a doubted one. The limit is worth its half of the property:
  `ClaimDeliveries` takes expired leases again without looking at `attempts`, so a
  delivery whose workers always crash is attempted without end.

`WorkerProofs`, of `PollMapRefresh`, for any workers, votes, polls, page and cycle limits:

- `MapInv`: a cycle has read every vote of its poll up to the last one it read, and at the
  end all of them, except racing ones (`CyclesHold`); a call that is about to enqueue has
  its vote (`CallsHaveVotes`). With this, `OnlyRacingVotesAreForgotten` is inductive, over
  rebuilds of several workers that overlap, fail, restart or bootstrap, and
  `ForgottenVotesRaced` states it.
- `OnlyTroubleEverDoublesOrLoses` is both, `WorkersAreTyped` the types of the three.

### What is only model-checked

- All liveness (`ClaimableJobsAreServed`, `ClosedPollsAreFinalized`, `OldestMediaIsDeleted`,
  `DeliveriesEnd`, `QueuedPollsAreRefreshed`): fairness and ENABLED are out of the prover's
  reach.
- `ReadersSeeTheTruth` (of `MapMarkers` and `CommentThreads`). A map's numbers are sums
  over the votes of a cell, pages are prefixes of sorted rows: both are folds over sets,
  and what a fold returns for every set takes an induction that the library's theorems
  state with an operator as parameter, which the installed provers cannot instantiate.

## Where code and text disagree

Five runs are expected to find a violation; `PROJECT.json` quotes the lines.

1. `tally_queue_exhausted`: a failed job whose attempts are used up and that is enqueued
   again is answered with "has been queued" but can never be claimed.
2. `poll_audit_late_vote`: a vote that was checked before the close and inserted after it
   changes a batch that is already anchored.
3. `poll_audit_stale_load`: a publication that read its records before the close and
   sealed them after it anchors the tail batch without a vote.
4. `poll_audit_early_tally`: a tally proof of an earlier moment is published with the
   final roots.
5. `poll_drafts_hash`: an update that publishes a draft stores the poll with the hash of
   its new options before it replaces the options, which the freeze then refuses: the
   poll stays published with the hash of options it does not have.

The passing runs also name, in the properties themselves, what the code does not rule
out: a push that goes out twice after a trouble (`DuplicatesAreExplained`), a vote the map
forgets because it came during a rebuild (`OnlyRacingVotesAreForgotten`), a family left
active by a login that was revoked meanwhile (`LineagesEndTogether`), an issuance that is
stuck after the last entry was revoked (`NextLeafIsFree`), images the retention worker
never gets to (`OldestMediaIsDeleted`), a count that two transactions overtook
(`CountsAreExact`). No text of the repository says otherwise, so they are hazards, not
findings.


## What is not modelled

Cryptography (proofs, Merkle trees, signatures, attestation certificates) enters as
outcomes and injective abstractions. Legacy polls without proofs are in `Voting`
but not in `PollAudit`. Archiving, closing by
an administrator, fees, RPC details, heartbeats, logging and read-only endpoints are left
out. OIDC rate limiting is one statement per request, and a request it refuses does
nothing. The direct approval of an authorization without a QR transaction is called by no
route. The formats of images, coordinates of areas, the feed of posts, bookmarks and the
rendering of notifications change no state another component reads. Neither does the log of
the reviewers' actions, which is written after the decision and may fail on its own. Two
pairs of queries that follow each other are one step: the look for an earlier vote with the
insert, of which the unique index alone decides (`InsertVote` of `PollAudit`; `Voting` has
them apart), and the post and the reader's blocks with the page of comments (`ReadRoots`; a
block that comes between them shows in the next page). Validation and normalisation of
input, configuration and routing have no protocol state. `PROJECT.json` says for every
component what is left out of it.
