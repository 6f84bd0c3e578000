--------------------------- MODULE ContentServices ---------------------------
(***************************************************************************)
(* What the users of the backend make: discussions, polls and votes.  The  *)
(* components share no table that one of them changes and another reads,   *)
(* so that what is promised here holds of them side by side.               *)
(***************************************************************************)
EXTENDS Discussions, PollDrafts, Voting

\* What is public on the platform, a discussion or a poll, has been allowed.
OnlyClearedIsPublic == OnlyClearedContentIsPublic /\ PublishedPollsAreCleared

\* A vote is one, was allowed, is answered truthfully and can be counted,
\* and a tally counts what there was at a moment of the request.
VotesHold == EveryVoteCanBeCounted /\ NobodyVotesTwice /\ VotersAreEligible
          /\ AnswersOnVotesHold /\ TalliesAreOfTheMoment
=============================================================================
