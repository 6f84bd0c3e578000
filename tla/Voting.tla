------------------------------- MODULE Voting -------------------------------
(***************************************************************************)
(* A vote from the voter's device to its row, and the tallies that count   *)
(* the rows: services/pollVotingService with the poll's encryption key     *)
(* (pollEncryptionKeyService), the checks of the proof                     *)
(* (groth16ProofVerifierService, voteProofVerifierService) and the counts  *)
(* of voteRepository and pollEncryptedTallyService.                        *)
(*                                                                         *)
(* A ballot is what a device makes from a key it was answered: an          *)
(* encrypted vote and a proof for one poll.  Its nullifier stands for the  *)
(* voter and that poll.  A call is split where it awaits the database.     *)
(* Encoding, credential roots (CredentialRegistry), audit events and what  *)
(* follows a vote (PollAudit, PollMapRefresh) are left out.                *)
(***************************************************************************)
EXTENDS Integers, FiniteSets

CONSTANTS ZkPolls,       \* production polls, with secret ballots
          DevPolls,      \* legacy polls, on backends that still allow them
          Rules,         \* [poll -> what it asks for: "identity", "area", "land"]
          KeyIds,        \* [production poll -> id of its key], the choices
          NoPoll,
          Voters,
          PollChoices,   \* the options of a poll
          Unbound,       \* voters without an identity at first
          VotingCalls,   \* bound: the calls of a behaviour
          VotingMixes    \* what they are: operation, poll, voter and argument

ASSUME KeysAssumption ==
    /\ \A ids \in KeyIds : \A p \in ZkPolls : ids[p] # NoPoll
    /\ NoPoll \notin ZkPolls
ASSUME RulesAssumption ==
    /\ \A p \in ZkPolls : "identity" \in Rules[p]
    /\ \A p \in ZkPolls \cup DevPolls : Rules[p] \subseteq {"identity", "area", "land"}
\* What a voter sends again is of the same voter.
ASSUME VotingMixesAssumption == \A mix \in VotingMixes : \A c \in VotingCalls :
    /\ mix[c][2] \in ZkPolls \cup DevPolls /\ mix[c][3] \in Voters
    /\ mix[c][1] = "change" => mix[c][4] \in {"identity", "area", "land"}
    /\ mix[c][1] = "again" => \A d \in VotingCalls : mix[c][4] = d => mix[d][3] = mix[c][3]

VARIABLES
    keyId,       \* polls.poll_encryption_key_id
    keyOwner,    \* poll_encryption_keys: the poll of a key id, NoPoll for no row
    zkVotes,     \* poll_zk_votes
    votes,       \* votes, of legacy polls
    voters,      \* what the rows of a voter say
    closed,      \* polls that no longer are active
    votingCall,  \* votingCall[c]: the state of call c
    reading      \* reading[c]: what call c counts, and the history of it

votingRows == <<keyId, keyOwner, zkVotes, votes, voters, closed>>
votingVars == <<votingRows, votingCall, reading>>

AllPolls == ZkPolls \cup DevPolls
KeyNames == UNION {{ids[p] : p \in ZkPolls} : ids \in KeyIds}

NoBallot == [poll |-> NoPoll, voter |-> 0, key |-> NoPoll, option |-> NoPoll]
MakeBallot(call, key) ==
    [poll |-> call.poll, voter |-> call.voter, key |-> key, option |-> call.arg]

Deciding(ask) == [op |-> ask[1], poll |-> ask[2], voter |-> ask[3], arg |-> ask[4],
                  pc |-> "idle", ballot |-> NoBallot, land |-> FALSE,
                  moved |-> FALSE, fit |-> TRUE]

Targets(p) == {"total"} \cup IF p \in ZkPolls THEN {"decrypted"} ELSE PollChoices

NotShown == -1
Unread(p) == [shown |-> [t \in Targets(p) |-> NotShown], least |-> [t \in Targets(p) |-> 0],
              most |-> [t \in Targets(p) |-> 0], at |-> "total", lower |-> 0, upper |-> 0,
              key |-> "unread", loaded |-> NotShown]

\* Voters are at home in the area and the land that polls ask for.
VotingInit ==
    /\ keyId \in KeyIds
    /\ keyOwner = [k \in KeyNames |-> NoPoll]
    /\ zkVotes = {} /\ votes = {} /\ closed = {}
    /\ voters = [u \in Voters |-> [active |-> TRUE, has |-> {"area", "land"} \cup
                                     IF u \in Unbound THEN {} ELSE {"identity"}]]
    /\ \E mix \in VotingMixes :
         /\ votingCall = [c \in VotingCalls |-> Deciding(mix[c])]
         /\ reading = [c \in VotingCalls |-> Unread(mix[c][2])]

-----------------------------------------------------------------------------
PcIs(c, pc) == votingCall[c].pc = pc
OpIs(c, op) == votingCall[c].op = op
PollOf(c) == votingCall[c].poll
VoterOf(c) == votingCall[c].voter
BallotOf(c) == votingCall[c].ballot
IsZk(c) == PollOf(c) \in ZkPolls
Asks(c, part) == part \in Rules[PollOf(c)]
Has(u, part) == part \in voters[u].has
Running(c) == votingCall[c].pc \notin {"idle", "ok", "already", "rejected", "failed"}

Step(c, pc) == votingCall' = [votingCall EXCEPT ![c].pc = pc]
Check(c, passed, next) == Step(c, IF passed THEN next ELSE "rejected")
Reads == UNCHANGED <<votingRows, reading>>

Size(p, t) == Cardinality(IF p \in ZkPolls THEN {v \in zkVotes : v.poll = p}
                          ELSE {v \in votes : v.poll = p /\ t \in {"total", v.option}})

Lesser(m, n) == IF m < n THEN m ELSE n
Greater(m, n) == IF m < n THEN n ELSE m

\* The history of the calls that count, at every change of the votes.
Witnessed ==
    reading' = [c \in VotingCalls |->
        IF ~(OpIs(c, "details") /\ Running(c)) THEN reading[c]
        ELSE [reading[c] EXCEPT
                !.least = [t \in Targets(PollOf(c)) |-> Lesser(@[t], Size(PollOf(c), t)')],
                !.most = [t \in Targets(PollOf(c)) |-> Greater(@[t], Size(PollOf(c), t)')]]]

-----------------------------------------------------------------------------
(* The poll's key: for a device that has no ballot yet, and for its vote. *)

\* A device with a key makes the ballot; a vote goes on if the key is its.
KeyAnswered(c, key) ==
    IF BallotOf(c) = NoBallot
      THEN votingCall' = [votingCall EXCEPT ![c].pc = "ready",
                                            ![c].ballot = MakeBallot(votingCall[c], key)]
      ELSE Check(c, BallotOf(c).key = key, "proof")

FetchKey(c) ==
    /\ OpIs(c, "vote") /\ PcIs(c, "idle") /\ IsZk(c)
    /\ Step(c, "byPoll") /\ Reads

FindKeyByPoll(c) ==
    /\ PcIs(c, "byPoll")
    /\ Check(c, \A k \in KeyNames : keyOwner[k] = PollOf(c) => k = keyId[PollOf(c)], "byKey")
    /\ Reads

\* Mutant: a key may serve several polls.
AnyOwner(owner, p) == TRUE

IsKeyOf(owner, p) == owner = p

FindKeyByKey(c) ==
    /\ PcIs(c, "byKey")
    /\ LET key == keyId[PollOf(c)]
       IN  CASE keyOwner[key] = NoPoll               -> Step(c, "insertKey")
             [] IsKeyOf(keyOwner[key], PollOf(c))    -> KeyAnswered(c, key)
             [] OTHER                                -> Step(c, "rejected")
    /\ Reads

\* The key id is unique, and so is the poll.
InsertKey(c) ==
    /\ PcIs(c, "insertKey")
    /\ LET key == keyId[PollOf(c)]
       IN  IF keyOwner[key] = NoPoll /\ \A k \in KeyNames : keyOwner[k] # PollOf(c)
             THEN keyOwner' = [keyOwner EXCEPT ![key] = PollOf(c)] /\ KeyAnswered(c, key)
             ELSE Step(c, "racedKey") /\ UNCHANGED keyOwner
    /\ UNCHANGED <<keyId, zkVotes, votes, voters, closed, reading>>

\* Here nobody asks whose the key is.
FindRacedKey(c) ==
    /\ PcIs(c, "racedKey")
    /\ LET key == keyId[PollOf(c)]
       IN  IF keyOwner[key] = NoPoll THEN Step(c, "rejected") ELSE KeyAnswered(c, key)
    /\ Reads

-----------------------------------------------------------------------------
(* submitVote *)

\* A legacy ballot needs no key; a request that is sent again has the ballot
\* of another call, whatever poll it is sent to.
PrepareBallot(c) ==
    /\ PcIs(c, "idle")
    /\ \/ /\ OpIs(c, "vote") /\ ~IsZk(c)
          /\ votingCall' = [votingCall EXCEPT ![c].pc = "ready",
                                ![c].ballot = MakeBallot(votingCall[c], NoPoll)]
       \/ /\ OpIs(c, "again")
          /\ \E d \in VotingCalls :
               /\ d = votingCall[c].arg /\ BallotOf(d) # NoBallot
               /\ votingCall' = [votingCall EXCEPT ![c].pc = "ready",
                                                   ![c].ballot = BallotOf(d)]
    /\ Reads

\* The viewer's row comes with the session.
Submit(c) ==
    /\ PcIs(c, "ready")
    /\ votingCall' = [votingCall EXCEPT ![c].pc = IF voters[VoterOf(c)].active
                                                    THEN "poll" ELSE "rejected",
                                        ![c].land = Has(VoterOf(c), "land")]
    /\ Reads

LoadPoll(c) ==
    /\ PcIs(c, "poll")
    /\ Check(c, PollOf(c) \notin closed, IF IsZk(c) THEN "identity" ELSE "option")
    /\ Reads

FindOption(c) ==
    /\ PcIs(c, "option")
    /\ Check(c, BallotOf(c).option \in PollChoices, IF Asks(c, "identity") THEN "identity"
                                                                       ELSE "existing")
    /\ Reads

FindIdentity(c) ==
    /\ PcIs(c, "identity")
    /\ Check(c, Has(VoterOf(c), "identity"), IF IsZk(c) THEN "profile" ELSE "existing")
    /\ Reads

HasVoted(c) == \E v \in votes : v.poll = PollOf(c) /\ v.voter = VoterOf(c)

FindExistingVote(c) ==
    /\ PcIs(c, "existing")
    /\ Step(c, IF HasVoted(c) THEN "already" ELSE "profile")
    /\ Reads

\* Mutant: the home area is read and not compared.
NoAreaRule(c) == Asks(c, "land") => votingCall[c].land

\* The profile is read now, the land came with the session.
MeetsRules(c) ==
    /\ Asks(c, "area") => Has(VoterOf(c), "area")
    /\ Asks(c, "land") => votingCall[c].land

\* The encrypted vote names the key of the poll.
NamesKeyOfPoll(c) == BallotOf(c).key = keyId[PollOf(c)]

LoadIdentityProfile(c) ==
    /\ PcIs(c, "profile")
    /\ IF IsZk(c)
         THEN Check(c, MeetsRules(c) /\ NamesKeyOfPoll(c), "byPoll")
         ELSE Check(c, MeetsRules(c), IF Asks(c, "identity") THEN "proof" ELSE "insert")
    /\ Reads

\* Mutant: the proof may be for another poll.
AnyProof(c) == TRUE

ProofFits(c) == BallotOf(c).poll = PollOf(c)

\* The proof may also be rejected because the verifier or the lookup of its
\* root fails.
VerifyGroth16Proof(c) ==
    /\ PcIs(c, "proof") /\ IsZk(c)
    /\ Check(c, ProofFits(c), "nullifier") \/ Step(c, "rejected")
    /\ Reads

\* A legacy proof is only compared.
VerifyLegacyProof(c) ==
    /\ PcIs(c, "proof") /\ ~IsZk(c)
    /\ Check(c, BallotOf(c).poll = PollOf(c), "nullifier")
    /\ Reads

Nullifier(ballot) == <<ballot.poll, ballot.voter>>

NullifierSpent(c) == \E v \in zkVotes :
    v.poll = PollOf(c) /\ Nullifier(v.ballot) = Nullifier(BallotOf(c))

FindNullifier(c) ==
    /\ PcIs(c, "nullifier")
    /\ Step(c, IF NullifierSpent(c) \/ HasVoted(c) THEN "already" ELSE "insert")
    /\ Reads

\* Mutant: the row is inserted whatever there is.
NoUniqueNullifier(c) == TRUE

\* unique (poll_id, nullifier)
MayInsertZkVote(c) == ~NullifierSpent(c)

Recorded(c, pc) == votingCall' =
    [votingCall EXCEPT ![c].pc = pc, ![c].fit = Rules[PollOf(c)] \subseteq voters[VoterOf(c)].has]

\* The audit event after the row may fail, and the request with it.
InsertZkVote(c) ==
    /\ PcIs(c, "insert") /\ IsZk(c)
    /\ IF MayInsertZkVote(c)
         THEN /\ zkVotes' = zkVotes \cup {[poll |-> PollOf(c), ballot |-> BallotOf(c), by |-> c]}
              /\ Recorded(c, "ok") \/ Recorded(c, "failed")
         ELSE Step(c, "already") /\ UNCHANGED zkVotes
    /\ UNCHANGED <<keyId, keyOwner, votes, voters, closed>>
    /\ Witnessed

\* Unique by user, by identity and by nullifier, which all are the voter's.
InsertDevVote(c) ==
    /\ PcIs(c, "insert") /\ ~IsZk(c)
    /\ IF HasVoted(c)
         THEN Step(c, "already") /\ UNCHANGED votes
         ELSE /\ votes' = votes \cup {[poll |-> PollOf(c), voter |-> VoterOf(c),
                                       option |-> BallotOf(c).option]}
              /\ Recorded(c, "ok")
    /\ UNCHANGED <<keyId, keyOwner, zkVotes, voters, closed>>
    /\ Witnessed

-----------------------------------------------------------------------------
(* getPollDetails *)

ReadDetails(c) ==
    /\ OpIs(c, "details") /\ PcIs(c, "idle")
    /\ Step(c, "count")
    /\ reading' = [reading EXCEPT ![c].least = [t \in Targets(PollOf(c)) |-> Size(PollOf(c), t)],
                                  ![c].most = [t \in Targets(PollOf(c)) |-> Size(PollOf(c), t)]]
    /\ UNCHANGED votingRows

\* Mutant: offsets are taken to begin with one.
HasThatMany(c, offset) == Size(PollOf(c), reading[c].at) >= offset

HasVoteAt(c, offset) == Size(PollOf(c), reading[c].at) > offset

Totalled(c) == reading[c].shown["total"] # NotShown

Show(c, t, n) ==
    /\ reading' = [reading EXCEPT ![c].shown[t] = n]
    /\ Step(c, IF \A other \in Targets(PollOf(c)) \ {t} : reading[c].shown[other] # NotShown
               THEN "ok" ELSE "count")

\* The exact count is a hint; the total of a legacy poll comes before its
\* options, whose counts overlap but share nothing.
CountHint(c) ==
    /\ PcIs(c, "count") /\ UNCHANGED votingRows
    /\ \E t \in Targets(PollOf(c)) \ {"decrypted"} :
         /\ reading[c].shown[t] = NotShown
         /\ t # "total" => Totalled(c)
         /\ LET hint == Size(PollOf(c), t)
            IN  IF hint = 0 \/ IsZk(c) THEN Show(c, t, hint)
                ELSE /\ reading' = [reading EXCEPT ![c].at = t, ![c].lower = hint,
                                                   ![c].upper = Greater(hint + 1, 2 * hint)]
                     /\ Step(c, "probe")

ProbeHint(c) ==
    /\ PcIs(c, "probe") /\ UNCHANGED votingRows
    /\ IF HasVoteAt(c, reading[c].lower)
         THEN Step(c, "double") /\ UNCHANGED reading
         ELSE Show(c, reading[c].at, reading[c].lower)

Double(c) ==
    /\ PcIs(c, "double") /\ UNCHANGED votingRows
    /\ IF HasVoteAt(c, reading[c].upper)
         THEN /\ reading' = [reading EXCEPT ![c].lower = reading[c].upper, ![c].upper = 2 * @]
              /\ UNCHANGED votingCall
         ELSE Step(c, "bisect") /\ UNCHANGED reading

Bisect(c) ==
    /\ PcIs(c, "bisect") /\ UNCHANGED votingRows
    /\ LET lower == reading[c].lower
           upper == reading[c].upper
           middle == (lower + upper) \div 2
       IN  IF lower + 1 < upper
             THEN /\ reading' = IF HasVoteAt(c, middle)
                                  THEN [reading EXCEPT ![c].lower = middle]
                                  ELSE [reading EXCEPT ![c].upper = middle]
                  /\ UNCHANGED votingCall
             ELSE Show(c, reading[c].at, lower + 1)

\* The accepted votes that the key of the poll decrypts; the poll is part of
\* what is authenticated.
Opens(v) == v.ballot.poll = v.poll /\ v.ballot.key = keyId[v.poll]

Decryptable(p) == {v \in zkVotes : v.poll = p /\ Opens(v)}

\* After the total, getProvisionalTally reads the key and the votes at once,
\* in either order.
LoadTallyKey(c) ==
    /\ PcIs(c, "count") /\ IsZk(c) /\ Totalled(c) /\ reading[c].key = "unread"
    /\ reading' = [reading EXCEPT ![c].key = IF keyOwner[keyId[PollOf(c)]] = PollOf(c)
                                               THEN "found" ELSE "none"]
    /\ UNCHANGED <<votingRows, votingCall>>

LoadTallyVotes(c) ==
    /\ PcIs(c, "count") /\ IsZk(c) /\ Totalled(c) /\ reading[c].loaded = NotShown
    /\ reading' = [reading EXCEPT ![c].loaded = Cardinality(Decryptable(PollOf(c)))]
    /\ UNCHANGED <<votingRows, votingCall>>

CountDecrypted(c) ==
    /\ PcIs(c, "count") /\ IsZk(c) /\ reading[c].shown["decrypted"] = NotShown
    /\ reading[c].key # "unread" /\ reading[c].loaded # NotShown
    /\ Show(c, "decrypted", IF reading[c].key = "found" THEN reading[c].loaded ELSE 0)
    /\ UNCHANGED votingRows

-----------------------------------------------------------------------------
(* What changes under the voters *)

Closing(c) ==
    /\ OpIs(c, "close") /\ PcIs(c, "idle")
    /\ closed' = closed \cup {PollOf(c)} /\ Step(c, "ok")
    /\ UNCHANGED <<keyId, keyOwner, zkVotes, votes, voters, reading>>

\* Marks the calls of a voter that are under way.
Moving(c, u) ==
    votingCall' = [d \in VotingCalls |->
        IF d = c THEN [votingCall[d] EXCEPT !.pc = "ok"]
        ELSE [votingCall[d] EXCEPT !.moved = @ \/ (VoterOf(d) = u /\ Running(d))]]

\* A new home, another land, or an identity that is bound
ChangeVoter(c) ==
    /\ OpIs(c, "change") /\ PcIs(c, "idle")
    /\ LET part == votingCall[c].arg
           u    == VoterOf(c)
       IN  voters' = [voters EXCEPT ![u].has =
                        IF part \in @ /\ part # "identity" THEN @ \ {part} ELSE @ \cup {part}]
    /\ Moving(c, VoterOf(c))
    /\ UNCHANGED <<keyId, keyOwner, zkVotes, votes, closed, reading>>

\* delete_account_for_user deletes legacy votes and the profile.
DeleteVoter(c) ==
    /\ OpIs(c, "delete") /\ PcIs(c, "idle")
    /\ voters' = [voters EXCEPT ![VoterOf(c)] = [active |-> FALSE, has |-> @.has \cap {"identity"}]]
    /\ votes' = {v \in votes : v.voter # VoterOf(c)}
    /\ Moving(c, VoterOf(c)) /\ Witnessed
    /\ UNCHANGED <<keyId, keyOwner, zkVotes, closed>>

VotingNext == \E c \in VotingCalls :
    \/ FetchKey(c) \/ FindKeyByPoll(c) \/ FindKeyByKey(c) \/ InsertKey(c) \/ FindRacedKey(c)
    \/ PrepareBallot(c) \/ Submit(c) \/ LoadPoll(c) \/ FindOption(c) \/ FindIdentity(c)
    \/ FindExistingVote(c) \/ LoadIdentityProfile(c)
    \/ VerifyGroth16Proof(c) \/ VerifyLegacyProof(c) \/ FindNullifier(c) \/ InsertZkVote(c) \/ InsertDevVote(c)
    \/ ReadDetails(c) \/ CountHint(c) \/ ProbeHint(c) \/ Double(c) \/ Bisect(c)
    \/ LoadTallyKey(c) \/ LoadTallyVotes(c) \/ CountDecrypted(c)
    \/ Closing(c) \/ ChangeVoter(c) \/ DeleteVoter(c)

VotingSpec == VotingInit /\ [][VotingNext]_votingVars

-----------------------------------------------------------------------------
\* The types of the variables.
VotingTypeOK ==
    /\ keyId \in KeyIds
    /\ keyOwner \in [KeyNames -> ZkPolls \cup {NoPoll}]
    /\ \A v \in zkVotes : v.poll \in ZkPolls /\ v.by \in VotingCalls
    /\ votes \subseteq [poll : DevPolls, voter : Voters, option : PollChoices]
    /\ voters \in [Voters -> [active : BOOLEAN, has : SUBSET {"identity", "area", "land"}]]
    /\ closed \subseteq AllPolls
    /\ DOMAIN votingCall = VotingCalls /\ DOMAIN reading = VotingCalls

\* Every vote of a production poll can be counted: it was made for the poll,
\* under the key that the tally will find for it, although requests race to
\* create keys, polls may share the id of one, and whoever loses the race is
\* answered a key without asking whose it is.
EveryVoteCanBeCounted ==
    \A v \in zkVotes : /\ v.ballot.poll = v.poll
                       /\ v.ballot.key = keyId[v.poll]
                       /\ keyOwner[keyId[v.poll]] = v.poll

\* Nobody has two votes in a poll, whatever is sent twice or at once.
NobodyVotesTwice ==
    /\ \A v, w \in zkVotes : v.poll = w.poll /\ v.ballot.voter = w.ballot.voter => v = w
    /\ \A v, w \in votes : v.poll = w.poll /\ v.voter = w.voter => v = w

\* Who votes meets the rules of the poll when the row is inserted, unless
\* something about the voter changed during the request.
VotersAreEligible ==
    \A c \in VotingCalls : votingCall[c].fit \/ votingCall[c].moved

HasVote(c) ==
    \/ \E v \in votes : v.poll = PollOf(c) /\ v.voter = VoterOf(c)
    \/ \E v \in zkVotes : v.poll = PollOf(c) /\ v.ballot.voter = VoterOf(c)

CastingVote(c) == OpIs(c, "vote") \/ OpIs(c, "again")

\* Who is told that a vote counts or has been cast before has one, unless
\* the account is gone; an account that is gone has no vote in a legacy
\* poll, unless a request was under way.
AnswersOnVotesHold ==
    \A c \in VotingCalls :
        /\ CastingVote(c) /\ votingCall[c].pc \in {"ok", "already"}
             => HasVote(c) \/ ~voters[VoterOf(c)].active
        /\ ~voters[VoterOf(c)].active
             => \/ \A v \in votes : v.voter # VoterOf(c)
                \/ \E d \in VotingCalls : VoterOf(d) = VoterOf(c) /\ votingCall[d].moved

\* Each number of a tally is one the poll had during the request, although
\* the counts are taken one by one and probed while votes come and go.
TalliesAreOfTheMoment ==
    \A c \in VotingCalls : \A t \in Targets(PollOf(c)) :
        LET n == reading[c].shown[t]
        IN  n # NotShown => reading[c].least[t] <= n /\ n <= reading[c].most[t]
=============================================================================
