--------------------------- MODULE AccountServices ---------------------------
(***************************************************************************)
(* What the backend keeps of a person: the account and its identity, the   *)
(* credentials issued for it, its sign-ins in the app and at other sites,  *)
(* and the images it uploads.  No component reads a table of another one,  *)
(* except through the deletion of an account, which each of them models    *)
(* for its own tables: what is promised here holds of the components side  *)
(* by side.                                                                *)
(***************************************************************************)
EXTENDS CredentialRegistry, AuthSessions, OidcProvider, Accounts, MediaUploads

\* The roots that are accepted commit to credentials that were issued, the
\* answers of an issuance can be proved under one of them, a root that is
\* marked as anchored is, and what stops the issuance for good can be named.
CredentialAnswersHold == RootsCommitToIssuedCredentials /\ AnswersAreProvable
                      /\ SignedRootsAreAnchored /\ NextLeafIsFree

\* A sign-in that begins with something spent never succeeds, in the app or
\* at another site, nothing is spent twice, and what belongs to one login
\* ends together.
SignInsHold == StaleRequestsFail /\ LineagesEndTogether /\ StaleTokensFail /\ TokensAreSpentOnce

\* The deletion of an account is final for its sessions and for its tokens
\* at other sites, whatever was under way, and for what its rows say of it.
DeletionIsFinal == NothingOutlivesDeletion /\ NoTokenOutlivesAccount /\ DeletedAccountsStayBare

\* A person has one user, who is the one answered; what a user is shown to
\* be is backed by other rows, and a name that was chosen stays.  What users
\* show of themselves and of their posts as images is stored, theirs and
\* finalised.
UsersAreShownTheTruth == AnswersNameTheOwner /\ BadgesAreBacked /\ ChosenNicknamesStay /\ MediaHolds
=============================================================================
