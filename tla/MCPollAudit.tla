----------------------------- MODULE MCPollAudit -----------------------------
(* Instances of PollAudit for TLC. *)
EXTENDS PollAudit, TLC

CONSTANTS r1, r2, r3

\* Everybody votes once.
ThreeVoters == [r \in Requests |-> r]

\* The third request repeats the first voter's vote.
TwoVoters == [r \in Requests |-> IF r = r3 THEN r1 ELSE r]

\* Requests of different voters are alike, and so are publishing calls.
Alike == Permutations(Requests) \cup Permutations(Publishers)

\* The two requests of one voter are alike.
SameVoterAlike == Permutations({r1, r3})
=============================================================================
