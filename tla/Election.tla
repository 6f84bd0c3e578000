------------------------------ MODULE Election ------------------------------
(***************************************************************************)
(* What a poll of this backend promises its voters: ballots are accepted   *)
(* while it is open, and one result is announced, after it closed, that    *)
(* counts every accepted ballot.                                           *)
(***************************************************************************)
CONSTANTS Ballots, NoResult

VARIABLES open,      \* the poll accepts ballots
          accepted,  \* the ballots on record
          result     \* NoResult, or the ballots the announced result counts

electionVars == <<open, accepted, result>>

ElectionInit == open = TRUE /\ accepted = {} /\ result = NoResult

Cast(b) ==
    /\ open
    /\ accepted' = accepted \cup {b}
    /\ UNCHANGED <<open, result>>

Close ==
    /\ open
    /\ open' = FALSE
    /\ UNCHANGED <<accepted, result>>

Announce ==
    /\ ~open /\ result = NoResult /\ accepted # {}
    /\ result' = accepted
    /\ UNCHANGED <<open, accepted>>

\* What remains of the promise when a ballot comes late or the result misses
\* some: nothing is taken back, and a result counts accepted ballots only.
Lapse ==
    /\ open' => open
    /\ accepted \subseteq accepted'
    /\ result' = result \/ (~open /\ result = NoResult /\ result' \subseteq accepted)

ElectionNext == (\E b \in Ballots : Cast(b)) \/ Close \/ Announce

ElectionSpec == ElectionInit /\ [][ElectionNext]_electionVars
=============================================================================
