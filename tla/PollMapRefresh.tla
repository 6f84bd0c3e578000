--------------------------- MODULE PollMapRefresh ---------------------------
(***************************************************************************)
(* The cached vote map of a poll: a vote enqueues its poll, and workers    *)
(* rebuild the caches of the queued polls (services/pollMapRefreshWorker,  *)
(* pollMapCacheRefreshService, tables poll_map_refresh_queue and           *)
(* poll_map_marker_cache).                                                 *)
(*                                                                         *)
(* A cache is the set of the votes its markers count.  Votes are numbered  *)
(* in the order of their random ids, which is not the order they arrive    *)
(* in; all of them have a location.  Rows of the queue stand in queueOrder *)
(* by first_enqueued_at, which is never set again.                         *)
(***************************************************************************)
EXTENDS Integers, FiniteSets, Sequences, SequencesExt

CONSTANTS MapPolls,
          NoPoll,
          MapVotes,          \* vote ids
          MapWorkers,        \* backend processes
          VotePageSize,
          PendingVoteThreshold,
          MaxPollsPerCycle,
          MapFaultLimit      \* bound: failing rebuilds and restarts

ASSUME MapVotesAssumption == IsFiniteSet(MapVotes) /\ MapVotes \subseteq Nat \ {0}
ASSUME MapPollsAssumption == IsFiniteSet(MapPolls)
ASSUME NoPollAssumption == NoPoll \notin MapPolls
ASSUME MapConfigAssumption ==
    /\ VotePageSize \in Nat \ {0} /\ PendingVoteThreshold \in Nat \ {0}
    /\ MaxPollsPerCycle \in Nat \ {0}

VARIABLES
    votePoll,     \* the poll a vote was inserted for
    voteCall,     \* what became of its enqueuing: "none", "due", "done", "lost"
    racingVotes,  \* history: votes inserted during a rebuild of their poll
    queue,        \* poll_map_refresh_queue
    queueOrder,
    cache,        \* poll_map_marker_cache; {0} where there is no row
    bootstrap,    \* polls the bootstrap of a worker has left
    mapWorker,    \* a worker's cycle
    mapFaults     \* failing rebuilds and restarts so far

mapVars == <<votePoll, voteCall, racingVotes, queue, queueOrder, cache,
             bootstrap, mapWorker, mapFaults>>

NoCache == {0}

NoQueueRow == [events |-> 0, due |-> FALSE, cooling |-> FALSE]

IdleCycle == [pc |-> "idle", todo |-> <<>>, after |-> 0, seen |-> {}]

\* The first poll to do is rebuilt from nothing.
Rebuild(todo) == [pc |-> "scanning", todo |-> todo, after |-> 0, seen |-> {}]

VotesOf(p) == {v \in MapVotes : votePoll[v] = p}

MapInit ==
    /\ votePoll = [v \in MapVotes |-> NoPoll]
    /\ voteCall = [v \in MapVotes |-> "none"]
    /\ racingVotes = {}
    /\ queue = [p \in MapPolls |-> NoQueueRow]
    /\ queueOrder = <<>>
    /\ cache = [p \in MapPolls |-> NoCache]
    /\ bootstrap = [w \in MapWorkers |-> <<>>]
    /\ mapWorker = [w \in MapWorkers |-> IdleCycle]
    /\ mapFaults = 0

-----------------------------------------------------------------------------
(* Votes *)

Rebuilding(w, p) == mapWorker[w].pc # "idle" /\ Head(mapWorker[w].todo) = p

\* submitVote inserts the vote ...
InsertMapVote(v, p) ==
    /\ votePoll[v] = NoPoll
    /\ votePoll' = [votePoll EXCEPT ![v] = p]
    /\ voteCall' = [voteCall EXCEPT ![v] = "due"]
    /\ racingVotes' = IF \E w \in MapWorkers : Rebuilding(w, p)
                        THEN racingVotes \cup {v} ELSE racingVotes
    /\ UNCHANGED <<queue, queueOrder, cache, bootstrap, mapWorker, mapFaults>>

\* enqueue_poll_map_refresh
Enqueue(p) ==
    /\ queue' = [queue EXCEPT ![p] =
                   [events |-> @.events + 1, due |-> @.due, cooling |-> FALSE]]
    /\ queueOrder' = IF p \in ToSet(queueOrder) THEN queueOrder ELSE Append(queueOrder, p)

\* ... and enqueues its poll; an error is only logged.
EnqueueMapVote(v) ==
    /\ voteCall[v] = "due"
    /\ \/ Enqueue(votePoll[v]) /\ voteCall' = [voteCall EXCEPT ![v] = "done"]
       \/ /\ voteCall' = [voteCall EXCEPT ![v] = "lost"]
          /\ UNCHANGED <<queue, queueOrder>>
    /\ UNCHANGED <<votePoll, racingVotes, cache, bootstrap, mapWorker, mapFaults>>

-----------------------------------------------------------------------------
(* runBootstrapSync, once in a process, beside the cycles *)

\* The polls without a cache; a process starts with it.
StartProcess(w) ==
    /\ mapFaults < MapFaultLimit /\ mapFaults' = mapFaults + 1
    /\ mapWorker' = [mapWorker EXCEPT ![w] = IdleCycle]
    /\ bootstrap' = [bootstrap EXCEPT ![w] =
                       SetToSeq({p \in MapPolls : cache[p] = NoCache})]
    /\ UNCHANGED <<votePoll, voteCall, racingVotes, queue, queueOrder, cache>>

\* A poll that is queued already is passed over; a poll whose enqueuing
\* fails is left.
BootstrapPoll(w) ==
    /\ bootstrap[w] # <<>>
    /\ bootstrap' = [bootstrap EXCEPT ![w] = Tail(@)]
    /\ \/ queue[Head(bootstrap[w])].events = 0 /\ Enqueue(Head(bootstrap[w]))
       \/ UNCHANGED <<queue, queueOrder>>
    /\ UNCHANGED <<votePoll, voteCall, racingVotes, cache, mapWorker, mapFaults>>

-----------------------------------------------------------------------------
(* runCycle *)

\* Mutant: a poll is refreshed only when enough votes have come.
EnoughVotes(p) == ~queue[p].cooling /\ queue[p].events >= PendingVoteThreshold

\* isEligibleCandidate: no failure of late, and enough votes or enough age.
IsEligibleCandidate(p) ==
    /\ ~queue[p].cooling
    /\ queue[p].events >= PendingVoteThreshold \/ queue[p].due

\* Positions in the order of the queue
Oldest(positions, n) ==
    {k \in positions : Cardinality({j \in positions : j < k}) < n}

\* The oldest queued polls are listed, then the eligible ones are selected.
Selected ==
    LET queued == {k \in DOMAIN queueOrder : queue[queueOrder[k]].events > 0}
        listed == Oldest(queued, 5 * MaxPollsPerCycle)
    IN  Oldest({k \in listed : IsEligibleCandidate(queueOrder[k])}, MaxPollsPerCycle)

\* A cycle goes through the selected polls, the oldest first.
StartCycle(w) ==
    /\ mapWorker[w].pc = "idle" /\ Selected # {}
    /\ \E turn \in [1..Cardinality(Selected) -> Selected] :
         /\ \A i, j \in DOMAIN turn : i < j => turn[i] < turn[j]
         /\ mapWorker' = [mapWorker EXCEPT ![w] =
                            Rebuild([i \in DOMAIN turn |-> queueOrder[turn[i]]])]
    /\ UNCHANGED <<votePoll, voteCall, racingVotes, queue, queueOrder, cache,
                   bootstrap, mapFaults>>

\* The ids after the last one read, a page of them.
NextPage(w) ==
    LET rest == {v \in VotesOf(Head(mapWorker[w].todo)) : v > mapWorker[w].after}
    IN  {v \in rest : Cardinality({u \in rest : u < v}) < VotePageSize}

\* Mutant: the scan ends with the first page that is not full.
LastPageGuess(w) == Cardinality(NextPage(w)) <= VotePageSize

LastPage(w) == NextPage(w) = {}

\* rebuildPollMapCache reads page after page, until one is empty.
ScanPage(w) ==
    /\ mapWorker[w].pc = "scanning"
    /\ LET page == NextPage(w)
       IN  mapWorker' = [mapWorker EXCEPT ![w] =
             [pc    |-> IF LastPage(w) THEN "saving" ELSE "scanning",
              todo  |-> @.todo,
              after |-> IF page = {} THEN @.after
                        ELSE CHOOSE v \in page : \A u \in page : u <= v,
              seen  |-> @.seen \cup page]]
    /\ UNCHANGED <<votePoll, voteCall, racingVotes, queue, queueOrder, cache,
                   bootstrap, mapFaults>>

\* upsertCacheRow, whatever is there.
SaveCache(w) ==
    /\ mapWorker[w].pc = "saving"
    /\ cache' = [cache EXCEPT ![Head(mapWorker[w].todo)] = mapWorker[w].seen]
    /\ mapWorker' = [mapWorker EXCEPT ![w].pc = "acking"]
    /\ UNCHANGED <<votePoll, voteCall, racingVotes, queue, queueOrder, bootstrap, mapFaults>>

\* Mutant: the accumulator of one poll is not emptied for the next.
NextPollKeepsSeen(w) ==
    mapWorker' = [mapWorker EXCEPT ![w] =
      IF Len(@.todo) = 1 THEN IdleCycle
      ELSE [@ EXCEPT !.pc = "scanning", !.after = 0, !.todo = Tail(@)]]

NextPoll(w) ==
    mapWorker' = [mapWorker EXCEPT ![w] =
      IF Len(@.todo) = 1 THEN IdleCycle
      ELSE Rebuild(Tail(@.todo))]

\* ackPoll forgets all events, the ones that came during the rebuild too.
AckPoll(w) ==
    /\ mapWorker[w].pc = "acking"
    /\ queue' = [queue EXCEPT ![Head(mapWorker[w].todo)] =
                   [events |-> 0, due |-> @.due, cooling |-> FALSE]]
    /\ NextPoll(w)
    /\ UNCHANGED <<votePoll, voteCall, racingVotes, queueOrder, cache, bootstrap, mapFaults>>

\* Any of these steps may throw.
FailRebuild(w) ==
    /\ mapWorker[w].pc \in {"scanning", "saving", "acking"}
    /\ mapFaults < MapFaultLimit /\ mapFaults' = mapFaults + 1
    /\ mapWorker' = [mapWorker EXCEPT ![w].pc = "failing"]
    /\ UNCHANGED <<votePoll, voteCall, racingVotes, queue, queueOrder, cache, bootstrap>>

\* Mutant: a failed poll leaves the queue.
Dropped(row) == [row EXCEPT !.events = 0]

Cooled(row) == [row EXCEPT !.cooling = TRUE]

\* failPoll, which may fail as well.
FailPoll(w) ==
    /\ mapWorker[w].pc = "failing"
    /\ queue' \in {queue, [queue EXCEPT ![Head(mapWorker[w].todo)] = Cooled(@)]}
    /\ NextPoll(w)
    /\ UNCHANGED <<votePoll, voteCall, racingVotes, queueOrder, cache, bootstrap, mapFaults>>

-----------------------------------------------------------------------------
\* maxQueueAgeMs since first_enqueued_at
QueueAges(p) ==
    /\ p \in ToSet(queueOrder) /\ ~queue[p].due
    /\ queue' = [queue EXCEPT ![p].due = TRUE]
    /\ UNCHANGED <<votePoll, voteCall, racingVotes, queueOrder, cache, bootstrap,
                   mapWorker, mapFaults>>

\* failureRetryCooldownMs since the failure
CoolDown(p) ==
    /\ queue[p].cooling
    /\ queue' = [queue EXCEPT ![p].cooling = FALSE]
    /\ UNCHANGED <<votePoll, voteCall, racingVotes, queueOrder, cache, bootstrap,
                   mapWorker, mapFaults>>

MapWorkerStep(w) ==
    StartCycle(w) \/ ScanPage(w) \/ SaveCache(w) \/ AckPoll(w) \/ FailPoll(w)

MapTime == \E p \in MapPolls : QueueAges(p) \/ CoolDown(p)

MapNext ==
    \/ \E v \in MapVotes : EnqueueMapVote(v) \/ \E p \in MapPolls : InsertMapVote(v, p)
    \/ \E w \in MapWorkers :
         StartProcess(w) \/ BootstrapPoll(w) \/ MapWorkerStep(w) \/ FailRebuild(w)
    \/ MapTime

MapFairness ==
    /\ \A w \in MapWorkers : WF_mapVars(MapWorkerStep(w))
    /\ WF_mapVars(MapTime)

MapSpec == MapInit /\ [][MapNext]_mapVars /\ MapFairness

-----------------------------------------------------------------------------
\* The types of the variables.
MapTypeOK ==
    /\ votePoll \in [MapVotes -> MapPolls \cup {NoPoll}]
    /\ voteCall \in [MapVotes -> {"none", "due", "done", "lost"}]
    /\ racingVotes \subseteq MapVotes
    /\ queue \in [MapPolls -> [events : Nat, due : BOOLEAN, cooling : BOOLEAN]]
    /\ queueOrder \in Seq(MapPolls)
    /\ DOMAIN cache = MapPolls
    /\ \A p \in MapPolls : cache[p] = NoCache \/ cache[p] \subseteq VotesOf(p)
    /\ mapWorker \in [MapWorkers ->
         [pc : {"idle", "scanning", "saving", "acking", "failing"},
          todo : Seq(MapPolls), after : Nat, seen : SUBSET MapVotes]]
    /\ \A w \in MapWorkers : mapWorker[w].pc # "idle" => mapWorker[w].todo # <<>>
    /\ bootstrap \in [MapWorkers -> Seq(MapPolls)]

\* The map leaves a vote out only while its poll is queued, or when the
\* vote's own enqueuing was lost, or when it was inserted while a rebuild of
\* its poll was under way: failures, restarts and a second worker alone
\* never lose one.
OnlyRacingVotesAreForgotten ==
    \A v \in MapVotes : votePoll[v] # NoPoll /\ v \notin cache[votePoll[v]] =>
        \/ queue[votePoll[v]].events > 0
        \/ voteCall[v] \in {"due", "lost"}
        \/ v \in racingVotes

\* A queued poll is refreshed in the end, through failures, cool-downs,
\* restarts and polls before it.
QueuedPollsAreRefreshed ==
    \A p \in MapPolls : queue[p].events > 0 ~> queue[p].events = 0
=============================================================================
