-------------------------- MODULE BackgroundWorkers --------------------------
(***************************************************************************)
(* The components with workers of their own: the deletion of a review's    *)
(* media, the delivery of notifications and the refresh of the poll map.   *)
(* They share no table, so that what is promised here holds of them side   *)
(* by side.                                                                *)
(***************************************************************************)
EXTENDS HumanReview, PushDelivery, PollMapRefresh

\* The type invariants of the components.
WorkersTypesOK == ReviewTypeOK /\ PushTypeOK /\ MapTypeOK

\* A push that goes out twice and a vote that is missing on the map are due
\* to a trouble or a race that can be named.
OnlyTroubleDoublesOrLoses == DuplicatesAreExplained /\ OnlyRacingVotesAreForgotten
=============================================================================
