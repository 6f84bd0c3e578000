------------------------- MODULE CredentialRegistry -------------------------
(***************************************************************************)
(* The registry of ZKP credentials and the history of accepted Merkle      *)
(* roots (services/credentialRegistryService.ts, tables                    *)
(* credential_registry and credential_roots), account deletion as far as   *)
(* it revokes entries, and the script that anchors roots on Solana         *)
(* (services/credentialRootPublisherService.ts).                           *)
(*                                                                         *)
(* One credential schema and one Merkle depth.  A commitment is a pair     *)
(* <<identity, material>>; a tree is the set of its leaves, and stands for *)
(* its root as well, the hash being collision-free.  An issuing call is    *)
(* split where it awaits the database.  A call that is cut off simply      *)
(* takes no further step.                                                  *)
(***************************************************************************)
EXTENDS Integers, FiniteSets, Sequences, SequencesExt

CONSTANTS Identities,      \* verified identities, with their key hash
          Materials,       \* the secrets and claims a device commits to
          IssueCalls,      \* calls of issueCredentialRegistryEntry
          IssueRequests,   \* what the calls ask for: for whom, which material
          PageLimit,       \* rows one query returns at most
          NoCredential,
          PublishCalls,    \* runs of the root publisher
          RootLimit        \* roots one such run takes on, its limit option

ASSUME IdentitiesAssumption == IsFiniteSet(Identities)
ASSUME IssueRequestsAssumption ==
    IssueRequests \subseteq [IssueCalls -> Identities \X Materials]
ASSUME PageLimitAssumption == PageLimit \in Nat \ {0}
ASSUME RootLimitAssumption == RootLimit \in 1..500
ASSUME NoCredentialAssumption ==
    NoCredential \notin [material : Materials, leaf : Nat, revoked : BOOLEAN]

VARIABLES
    credential,    \* credential[i]: row of credential_registry or NoCredential
    rootRows,      \* credential_roots, in the order of created_at
    issue,         \* issue[c]: the state of an issuing call
    anchoredTrees, \* credential root accounts on Solana
    rootPublisher  \* rootPublisher[x]: the rows run x of the script has left

registryVars == <<credential, rootRows, issue, anchoredTrees, rootPublisher>>

Issued == {i \in Identities : credential[i] # NoCredential}

\* A leaf as the tree holds it: its index and its commitment.
LeafOf(i) == [leaf |-> credential[i].leaf, who |-> i,
              material |-> credential[i].material]

\* listActiveByLeafIndex: the first PageLimit rows that are not revoked.
ListActive ==
    LET active == {LeafOf(i) : i \in {j \in Issued : ~credential[j].revoked}}
    IN  {l \in active : Cardinality({m \in active : m.leaf < l.leaf}) < PageLimit}

NextLeafIndex(leaves) == IF leaves = {} THEN 0 ELSE 1 + Max({l.leaf : l \in leaves})

UsedLeafIndices == {credential[i].leaf : i \in Issued}

NoTree == {[leaf |-> -1]}

RegistryInit ==
    /\ credential = [i \in Identities |-> NoCredential]
    /\ rootRows = <<>>
    /\ \E request \in IssueRequests :
         issue = [c \in IssueCalls |->
                    [pc |-> "byKey", who |-> request[c][1],
                     material |-> request[c][2], status |-> "none",
                     listed |-> NoTree, latest |-> -1]]
    /\ anchoredTrees = {}
    /\ rootPublisher = [x \in PublishCalls |-> <<>>]

-----------------------------------------------------------------------------
(* issueCredentialRegistryEntry *)

Caller(c) == issue[c].who
Row(c) == credential[Caller(c)]

\* assertExistingEntryMatchesInput, for a row that exists: the call goes on
\* with that row, or fails.
MatchesInput(c) == ~Row(c).revoked /\ Row(c).material = issue[c].material

GoOnWithExisting(c) ==
    issue' = IF MatchesInput(c)
               THEN [issue EXCEPT ![c].pc = "building", ![c].status = "existing"]
               ELSE [issue EXCEPT ![c].pc = "failed"]

\* Mutant: the row found after a unique violation is not compared with the
\* input.
GoOnWithAny(c) ==
    issue' = [issue EXCEPT ![c].pc = "building", ![c].status = "existing"]

\* The row is looked up by the identity's key hash, then by the identity.
FindExisting(c) ==
    /\ issue[c].pc \in {"byKey", "byIdentity"}
    /\ IF Row(c) # NoCredential
         THEN GoOnWithExisting(c)
         ELSE issue' = [issue EXCEPT ![c].pc =
                          IF @ = "byKey" THEN "byIdentity" ELSE "listing"]
    /\ UNCHANGED <<credential, rootRows, anchoredTrees, rootPublisher>>

ListEntries(c) ==
    /\ issue[c].pc = "listing"
    /\ issue' = [issue EXCEPT ![c].pc = "inserting", ![c].listed = ListActive]
    /\ UNCHANGED <<credential, rootRows, anchoredTrees, rootPublisher>>

\* Mutant: without unique (merkle_depth, leaf_index).
InsertableByIdentity(c) == Row(c) = NoCredential

\* The constraints of the table, revoked rows included.
Insertable(c) ==
    /\ Row(c) = NoCredential
    /\ NextLeafIndex(issue[c].listed) \in Nat \ UsedLeafIndices

InsertEntry(c) ==
    /\ issue[c].pc = "inserting"
    /\ IF Insertable(c)
         THEN /\ credential' = [credential EXCEPT ![Caller(c)] =
                    [material |-> issue[c].material,
                     leaf |-> NextLeafIndex(issue[c].listed),
                     revoked |-> FALSE]]
              /\ issue' = [issue EXCEPT ![c].pc = "building",
                                        ![c].status = "issued",
                                        ![c].listed = NoTree]
         ELSE /\ issue' = [issue EXCEPT ![c].pc = "conflicting",
                                        ![c].listed = NoTree]
              /\ credential' = credential
    /\ UNCHANGED <<rootRows, anchoredTrees, rootPublisher>>

\* After a unique violation the row is looked up again; without one the
\* violation is thrown.
GoOnAfterConflict(c) == GoOnWithExisting(c)

FindAfterConflict(c) ==
    /\ issue[c].pc = "conflicting"
    /\ IF Row(c) = NoCredential
         THEN issue' = [issue EXCEPT ![c].pc = "failed"]
         ELSE GoOnAfterConflict(c)
    /\ UNCHANGED <<credential, rootRows, anchoredTrees, rootPublisher>>

\* buildResultForEntry reads the active entries and the latest root
\* concurrently.
ReadActive(c) ==
    /\ issue[c].pc = "building" /\ issue[c].listed = NoTree
    /\ issue' = [issue EXCEPT ![c].listed = ListActive]
    /\ UNCHANGED <<credential, rootRows, anchoredTrees, rootPublisher>>

ReadLatestRoot(c) ==
    /\ issue[c].pc = "building" /\ issue[c].latest = -1
    /\ issue' = [issue EXCEPT ![c].latest = Len(rootRows)]
    /\ UNCHANGED <<credential, rootRows, anchoredTrees, rootPublisher>>

OwnLeaf(c) == [leaf |-> Row(c).leaf, who |-> Caller(c), material |-> Row(c).material]

RootKnown(tree) == \E k \in DOMAIN rootRows : rootRows[k].tree = tree

\* Mutant: the answer does not require the entry's own path.
SettleWithoutPath(c) ==
    /\ issue[c].pc = "building" /\ issue[c].listed # NoTree /\ issue[c].latest # -1
    /\ rootRows' = IF RootKnown(issue[c].listed) THEN rootRows
                   ELSE Append(rootRows, [tree |-> issue[c].listed,
                                          previous |-> issue[c].latest,
                                          signed |-> FALSE])
    /\ issue' = [issue EXCEPT ![c].pc = "answered"]
    /\ UNCHANGED <<credential, anchoredTrees, rootPublisher>>

\* The entry must be among the leaves read.  A root that is not the latest
\* one read is inserted; roots are unique, so one that is known already
\* makes the call fail.
SettleRoot(c) ==
    /\ issue[c].pc = "building" /\ issue[c].listed # NoTree /\ issue[c].latest # -1
    /\ LET tree  == issue[c].listed
           last  == issue[c].latest
           isLatest == last > 0 /\ rootRows[last].tree = tree
           known == RootKnown(tree)
           fails == OwnLeaf(c) \notin tree \/ (~isLatest /\ known)
       IN  /\ issue' = IF fails
                         THEN [issue EXCEPT ![c].pc = "failed",
                                            ![c].listed = NoTree, ![c].latest = -1]
                         ELSE [issue EXCEPT ![c].pc = "answered", ![c].latest = -1]
           /\ rootRows' = IF fails \/ isLatest THEN rootRows
                          ELSE Append(rootRows, [tree |-> tree, previous |-> last,
                                                 signed |-> FALSE])
    /\ UNCHANGED <<credential, anchoredTrees, rootPublisher>>

-----------------------------------------------------------------------------
(* delete_account_for_user: the identity's entry is revoked and stays. *)
RevokeForDeletion(i) ==
    /\ i \in Issued /\ ~credential[i].revoked
    /\ credential' = [credential EXCEPT ![i].revoked = TRUE]
    /\ UNCHANGED <<rootRows, issue, anchoredTrees, rootPublisher>>

-----------------------------------------------------------------------------
(* publishPendingCredentialRoots, without --dry-run *)

Unsigned == {k \in DOMAIN rootRows : ~rootRows[k].signed}

ListedBefore(j, k) ==
    LET m == Cardinality(rootRows[j].tree)
        n == Cardinality(rootRows[k].tree)
    IN  m < n \/ (m = n /\ j < k)

\* The rows of listUnpublishedRoots: by leaf count, then by age, up to the
\* limit; there is one such list.
FirstUnsigned ==
    LET n == Min({Cardinality(Unsigned), RootLimit})
    IN  {list \in [1..n -> Unsigned] :
           /\ \A i, j \in 1..n : i < j => ListedBefore(list[i], list[j])
           /\ \A i \in 1..n : \A k \in Unsigned \ Range(list) : ListedBefore(list[i], k)}

ListUnpublishedRoots(x) ==
    /\ rootPublisher[x] = <<>> /\ Unsigned # {}
    /\ \E list \in FirstUnsigned :
         rootPublisher' = [rootPublisher EXCEPT ![x] = list]
    /\ UNCHANGED <<credential, rootRows, issue, anchoredTrees>>

\* Mutant: the row is marked before the transaction is confirmed.
SignBeforeAnchoring(x) ==
    /\ rootPublisher[x] # <<>>
    /\ rootRows' = [rootRows EXCEPT ![Head(rootPublisher[x])].signed = TRUE]
    /\ anchoredTrees' = anchoredTrees
    /\ UNCHANGED <<credential, issue, rootPublisher>>

\* publishCredentialRoot: an account that exists already is recovered.
AnchorRoot(x) ==
    /\ rootPublisher[x] # <<>>
    /\ anchoredTrees' = anchoredTrees \cup {rootRows[Head(rootPublisher[x])].tree}
    /\ anchoredTrees' # anchoredTrees
    /\ UNCHANGED <<credential, rootRows, issue, rootPublisher>>

\* markRootPublished
MarkRootPublished(x) ==
    /\ rootPublisher[x] # <<>>
    /\ rootRows[Head(rootPublisher[x])].tree \in anchoredTrees
    /\ rootRows' = [rootRows EXCEPT ![Head(rootPublisher[x])].signed = TRUE]
    /\ rootPublisher' = [rootPublisher EXCEPT ![x] = Tail(@)]
    /\ UNCHANGED <<credential, issue, anchoredTrees>>

\* The script stops: a later run lists what is unsigned.
StopPublishing(x) ==
    /\ rootPublisher[x] # <<>>
    /\ rootPublisher' = [rootPublisher EXCEPT ![x] = <<>>]
    /\ UNCHANGED <<credential, rootRows, issue, anchoredTrees>>

IssueNext ==
    \/ \E c \in IssueCalls :
         \/ FindExisting(c) \/ ListEntries(c) \/ InsertEntry(c)
         \/ FindAfterConflict(c)
         \/ ReadActive(c) \/ ReadLatestRoot(c) \/ SettleRoot(c)
    \/ \E i \in Identities : RevokeForDeletion(i)

PublishNext ==
    \E x \in PublishCalls :
         \/ ListUnpublishedRoots(x) \/ AnchorRoot(x)
         \/ MarkRootPublished(x) \/ StopPublishing(x)

RegistryNext == IssueNext \/ PublishNext

RegistrySpec == RegistryInit /\ [][RegistryNext]_registryVars

-----------------------------------------------------------------------------
Leaves == [leaf : Nat, who : Identities, material : Materials]

IssueSteps == {"byKey", "byIdentity", "listing", "inserting", "conflicting",
               "building", "answered", "failed"}

\* The types of the variables.
RegistryTypeOK ==
    /\ credential \in [Identities ->
         {NoCredential} \cup [material : Materials, leaf : Nat, revoked : BOOLEAN]]
    /\ \A k \in DOMAIN rootRows :
         /\ rootRows[k].tree \subseteq Leaves
         /\ rootRows[k].previous \in 0..(k - 1)
         /\ rootRows[k].signed \in BOOLEAN
    /\ \A c \in IssueCalls :
         /\ issue[c].pc \in IssueSteps
         /\ issue[c].who \in Identities /\ issue[c].material \in Materials
         /\ issue[c].status \in {"none", "issued", "existing"}
         /\ issue[c].listed = NoTree \/ issue[c].listed \subseteq Leaves
         /\ issue[c].latest \in -1..Len(rootRows)
    /\ \A x \in PublishCalls : rootPublisher[x] \in Seq(DOMAIN rootRows)

\* Whatever calls and deletions overlapped, the trees of all roots the vote
\* verifier accepts agree with the registry and with each other: an index
\* belongs to one issued credential for ever, so a proof against an old root
\* is a proof of a credential that was issued.
RootsCommitToIssuedCredentials ==
    \A k \in DOMAIN rootRows : \A l \in rootRows[k].tree :
        /\ l.who \in Issued /\ l = LeafOf(l.who)
        /\ \A n \in DOMAIN rootRows : \A m \in rootRows[n].tree :
             m.leaf = l.leaf => m.who = l.who

\* A call that succeeds did so for its own commitment, and the root it
\* answers is an accepted one under which that commitment has a path: of two
\* racing calls with different secrets for one identity only one succeeds.
AnswersAreProvable ==
    \A c \in IssueCalls : issue[c].pc = "answered" =>
        /\ Row(c).material = issue[c].material
        /\ RootKnown(issue[c].listed)
        /\ OwnLeaf(c) \in issue[c].listed

\* A root row carries a Solana signature only when its account exists,
\* wherever a run of the publisher stopped.
SignedRootsAreAnchored ==
    \A k \in DOMAIN rootRows :
        rootRows[k].signed => rootRows[k].tree \in anchoredTrees

\* The index the next issuance computes is free, so that an identity without
\* an entry can get one, unless the entry issued last was revoked or there
\* are more active entries than a query returns: then no identity can.
NextLeafIsFree ==
    \/ NextLeafIndex(ListActive) \notin UsedLeafIndices
    \/ \E i \in Issued :
         credential[i].revoked /\ \A j \in Issued : credential[j].leaf <= credential[i].leaf
    \/ Cardinality({i \in Issued : ~credential[i].revoked}) > PageLimit
=============================================================================
