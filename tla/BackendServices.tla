--------------------------- MODULE BackendServices ---------------------------
(***************************************************************************)
(* The request handlers of the backend: what it keeps of persons, what its *)
(* users make, and what the map and the lists of comments show.            *)
(***************************************************************************)
EXTENDS AccountServices, ContentServices, MapMarkers, CommentThreads

\* The type invariants of the components.
ServicesTypesOK ==
    /\ RegistryTypeOK /\ AuthTypeOK /\ OidcTypeOK /\ AccountTypeOK /\ MediaTypeOK
    /\ DiscussionTypeOK /\ DraftTypeOK /\ VotingTypeOK
    /\ MarkerTypeOK /\ CommentsTypeOK

\* What a map shows is what was voted, and who pages through comments sees
\* all of them once.
ReadersSeeTheTruth == MapsAreTrue /\ ReadersSeeEverythingOnce /\ NothingIsShownTwice
=============================================================================
