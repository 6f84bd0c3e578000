----------------------------- MODULE MCServices -----------------------------
(***************************************************************************)
(* The request handlers of the backend, for TLC: a behaviour is one of the *)
(* component in focus, the others stay at an initial state of theirs.  No  *)
(* component reads a table of another one, except through the deletion of  *)
(* an account, which each of them models for its own tables.               *)
(***************************************************************************)
EXTENDS BackendServices

VARIABLE focus

vars == <<focus, registryVars, authVars, oidcVars, discussionVars, draftVars, accountVars,
          votingVars, markerVars, mediaVars, commentVars>>

-----------------------------------------------------------------------------
\* Two calls of one identity with different secrets
PublishedRequests == {<< <<"i1", "m1">>, <<"i1", "m2">>, <<"i2", "m1">> >>}

\* ... or with the same secret, and more entries than a page has.
IssuedRequests == {<< <<"i1", "m1">>, <<"i1", "m1">>, <<"i2", "m1">> >>}

MCIssueRequests == PublishedRequests \cup IssuedRequests

On(device, kind) == <<kind, device>>

\* Logins of other devices, and what the first device does with a token at
\* the same time.
MCRequestMixes ==
    {<<On("d2", "login"), On("d3", "login"), On("d1", "list")>>,
     <<On("d2", "login"), On("d1", "refresh"), On("d1", "refresh")>>,
     <<On("d2", "login"), On("d1", "refresh"), On("d1", "revoke")>>,
     <<On("d1", "refresh"), On("d1", "refresh"), On("d1", "access")>>,
     <<On("d1", "refresh"), On("d1", "revoke"), On("d1", "access")>>}

MCOidcMixes ==
    {<<"approve", "poll", "exchange", "refresh", "refresh">>,
     <<"approve", "poll", "exchange", "exchange", "userInfo">>,
     <<"approve", "poll", "poll", "deny", "userInfo">>,
     <<"approve", "poll", "exchange", "refresh", "revokeRefresh">>,
     <<"approve", "poll", "exchange", "revokeAccess", "userInfo">>,
     <<"approve", "approve", "deny", "preview", "exchange">>}

\* Edits and reviewers, comments and reviewers, reports, blocks and likes;
\* "u1" writes the post.
Posting(calls) == << <<"createPost", "u1">> >> \o calls

MCDiscussionMixes ==
    {Posting(<< <<"updatePost", "u1">>, <<"approve", "u2">>, <<"reject", "u3">>,
                <<"deletePost", "u1">>, <<"comment", "u2">> >>),
     Posting(<< <<"updatePost", "u1">>, <<"updatePost", "u1">>, <<"reject", "u3">>,
                <<"requestEdit", "u2">>, <<"approve", "u2">> >>),
     Posting(<< <<"comment", "u2">>, <<"comment", "u3">>, <<"reject", "u2">>,
                <<"approve", "u3">>, <<"deletePost", "u1">> >>),
     Posting(<< <<"comment", "u2">>, <<"report", "u3">>, <<"reject", "u2">>,
                <<"block", "u3">>, <<"approve", "u1">> >>),
     Posting(<< <<"block", "u2">>, <<"comment", "u2">>, <<"unblock", "u2">>,
                <<"approve", "u3">>, <<"like", "u3">> >>),
     Posting(<< <<"like", "u2">>, <<"unlike", "u2">>, <<"like", "u3">>,
                <<"like", "u2">>, <<"unlike", "u3">> >>)}

\* Registrations and bindings of one person, requests that name and rename,
\* a wallet that is issued, deletions in between.
MCAccountMixes ==
    {<< <<"register", 0, "i2">>, <<"bind", 2, "i2">>, <<"bind", 2, "i2">>,
        <<"wallet", 2, NoName>> >>,
     << <<"register", 0, "i2">>, <<"register", 0, "i2">>, <<"bind", 2, "i2">>,
        <<"bind", 2, "i3">> >>,
     << <<"profile", 1, NoName>>, <<"nickname", 1, "n1">>, <<"home", 1, NoName>>,
        <<"delete", 1, NoName>> >>,
     << <<"wallet", 1, NoName>>, <<"bind", 2, "i1">>, <<"register", 0, "i1">>,
        <<"delete", 1, NoName>> >>,
     << <<"nickname", 1, "n1">>, <<"nickname", 2, "n1">>, <<"profile", 1, NoName>>,
        <<"profile", 2, NoName>> >>}

\* Production polls that may share a key id, and legacy ones
MCRules == [p \in AllPolls |->
    CASE p = "zk1" -> {"identity", "area"}
      [] p = "zk2" -> {"identity"}
      [] p = "dev" -> {"area", "land"}
      [] p = "id"  -> {"identity"}
      [] OTHER     -> {}]

MCKeyIds == {[zk1 |-> "k1", zk2 |-> "k1"], [zk1 |-> "k1", zk2 |-> "k2"]}

Vote(p, u) == <<"vote", p, u, "yes">>

\* Votes of polls with one key, votes that are sent twice, voters who change
\* or leave meanwhile, a tally that is read while votes arrive.
MCVotingMixes ==
    {<<Vote("zk1", 1), Vote("zk2", 2), <<"again", "zk2", 1, 1>>,
       <<"details", "zk2", 1, NoName>> >>,
     <<Vote("zk1", 1), <<"again", "zk1", 1, 1>>, Vote("zk1", 1),
       <<"change", "zk1", 1, "area">> >>,
     <<Vote("dev", 1), Vote("dev", 1), <<"change", "dev", 1, "land">>,
       <<"change", "dev", 1, "area">> >>,
     <<Vote("id", 3), <<"again", "id", 3, 1>>, <<"change", "id", 3, "identity">>,
       <<"delete", "id", 3, NoName>> >>,
     <<Vote("zk1", 3), <<"change", "zk1", 3, "identity">>, <<"close", "zk1", 1, NoName>>,
       Vote("zk1", 2)>>,
     <<Vote("open", 1), Vote("open", 2), <<"vote", "open", 3, "no">>,
       <<"details", "open", 1, NoName>> >>}

\* Homes in three cities of two countries or nowhere, places on both sides of
\* the borders of cells or nowhere
MCHomes == {NoHome, <<"X", "a">>, <<"X", "b">>, <<"Y", "a">>}
MCPlaces == {<<-1, -97>>, <<-46, 1>>, <<-951, -996>>, NoPlace}
MCDisplayOrder == <<"yes", "no">>
MCOptionIdOrder == <<"no", "yes">>

\* A flag that is completed, selected, deleted and left; an image that is
\* completed twice, and used by posts, edits and a deletion that overlap.
With(op, user, p) == <<op, user, p>>

MCMediaMixes ==
    {<<With("createFlag", 1, "p"), With("completeFlag", 1, "p"), With("completeFlag", 1, "p"),
       With("select", 2, "p"), With("deleteFlag", 1, "p"), With("leave", 2, "p")>>,
     <<With("createFlag", 1, "p"), With("completeFlag", 1, "p"), With("select", 2, "p"),
       With("unselect", 2, "p"), With("deleteFlag", 1, "p"), With("deleteFlag", 2, "p")>>,
     <<With("createImage", 1, "p"), With("completeImage", 1, "p"),
       With("completeImage", 1, "p"), With("post", 1, "p"), With("post", 1, "q"),
       With("leave", 1, "p")>>,
     <<With("createImage", 1, "p"), With("completeImage", 1, "p"),
       With("completeImage", 2, "p"), With("post", 1, "p"), With("edit", 1, "p"),
       With("post", 2, "q")>>,
     <<With("createImage", 1, "p"), With("completeImage", 1, "p"), With("post", 1, "p"),
       With("edit", 1, "p"), With("edit", 1, "p"), With("unpost", 1, "p")>>}

\* Comments 1 to 5 in threads, with or without blocked authors, hidden
\* comments and a like; few of these change while they are read.
FirstThreads == {<<0, 0, 1, 1, 1>>, <<0, 0, 1, 2, 0>>}
AllThreads == FirstThreads \cup {<<0, 0, 0, 0, 0>>, <<0, 0, 1, 2, 1>>, <<0, 1, 1, 1, 0>>}

Comments(threads, shuns, statuses, liked, changes) ==
    [thread : threads, shunned : shuns, status : statuses, likes : liked,
     changes : {changes}]
Each(value, other, few) == {[c \in CommentIds |-> IF c = d THEN other ELSE value] : d \in few}

MCCommentWorlds ==
    Comments(AllThreads, {{}, {1}, {2}, {3}, {4}, {1, 3}, {3, 4}},
             Each("published", "hidden", {0, 1, 2, 4}), Each(0, 1, {0, 1, 2, 3}), 0) \cup
    Comments(FirstThreads, {{}, {3}}, Each("published", "absent", {2, 5}), Each(0, 1, {1}), 2)

World(homes, places) == [v \in PlacedVotes |->
    [option |-> IF v < 3 THEN "no" ELSE "yes", home |-> homes[v], place |-> places[v]]]
Nowhere == [v \in PlacedVotes |-> NoHome]
Together == [v \in PlacedVotes |-> <<-1, -97>>]

MCMarkerWorlds ==
    {World(homes, Together) : homes \in [PlacedVotes -> MCHomes]} \cup
    {World(Nowhere, places) : places \in [PlacedVotes -> MCPlaces]}

-----------------------------------------------------------------------------
\* The initial state of a component that is not in focus.
First(mixes) == CHOOSE mix \in mixes : TRUE

QuietComments == First(MCCommentWorlds)

RegistryAsks(requests) == \E request \in requests : \A c \in IssueCalls :
    issue[c].who = request[c][1] /\ issue[c].material = request[c][2]

MCInit ==
    /\ focus \in {"issuing", "publishing", "sessions", "oidc", "discussion", "drafts", "accounts",
                 "voting", "maps", "media", "threads"}
    /\ RegistryInit
    /\ RegistryAsks(CASE focus = "issuing" -> IssuedRequests
                      [] focus = "publishing" -> PublishedRequests
                      [] OTHER -> {First(MCIssueRequests)})
    /\ AuthInit
    /\ focus = "sessions" \/ \A r \in AuthRequests :
         call[r] = Waiting(First(MCRequestMixes)[r])
    /\ OidcInit
    /\ focus = "oidc" \/ \A c \in OidcCalls :
         oidcCall[c] = Starting(First(MCOidcMixes)[c])
    /\ DiscussionInit
    /\ focus = "discussion" \/ \A c \in DiscussionCalls :
         <<talk[c].op, talk[c].user>> = First(MCDiscussionMixes)[c]
    /\ DraftInit
    /\ AccountInit
    /\ focus = "accounts" \/ \A c \in AccountCalls :
         accountCall[c] = Asking(First(MCAccountMixes)[c])
    /\ VotingInit
    /\ \/ focus = "voting"
       \/ /\ keyId = First(MCKeyIds)
          /\ \A c \in VotingCalls : votingCall[c] = Deciding(First(MCVotingMixes)[c])
    /\ MarkerInit
    /\ focus = "maps" \/ ballots = World(Nowhere, Together)
    /\ MediaInit
    /\ focus = "media" \/ \A c \in MediaCalls :
         mediaCall[c] = Uploading(First(MCMediaMixes)[c])
    /\ CommentsInit
    /\ \/ focus = "threads"
       \/ /\ changesLeft = QuietComments.changes /\ thread = QuietComments.thread
          /\ shunned = QuietComments.shunned /\ commentStatus = QuietComments.status
          /\ likeCounts = QuietComments.likes

MCNext ==
    /\ UNCHANGED focus
    /\ \/ /\ \/ focus = "issuing" /\ IssueNext
             \/ focus = "publishing" /\ RegistryNext
          /\ UNCHANGED <<authVars, oidcVars, discussionVars, draftVars, accountVars,
                         votingVars, markerVars, mediaVars, commentVars>>
       \/ /\ focus = "sessions" /\ AuthNext
          /\ UNCHANGED <<registryVars, oidcVars, discussionVars, draftVars, accountVars,
                         votingVars, markerVars, mediaVars, commentVars>>
       \/ /\ focus = "oidc" /\ OidcNext
          /\ UNCHANGED <<registryVars, authVars, discussionVars, draftVars, accountVars,
                         votingVars, markerVars, mediaVars, commentVars>>
       \/ /\ focus = "discussion" /\ DiscussionNext
          /\ UNCHANGED <<registryVars, authVars, oidcVars, draftVars, accountVars,
                         votingVars, markerVars, mediaVars, commentVars>>
       \/ /\ focus = "drafts" /\ DraftNext
          /\ UNCHANGED <<registryVars, authVars, oidcVars, discussionVars, accountVars,
                         votingVars, markerVars, mediaVars, commentVars>>
       \/ /\ focus = "accounts" /\ AccountNext
          /\ UNCHANGED <<registryVars, authVars, oidcVars, discussionVars, draftVars,
                         votingVars, markerVars, mediaVars, commentVars>>
       \/ /\ focus = "voting" /\ VotingNext
          /\ UNCHANGED <<registryVars, authVars, oidcVars, discussionVars, draftVars,
                         accountVars, markerVars, mediaVars, commentVars>>
       \/ /\ focus = "maps" /\ MarkerNext
          /\ view.pc = "idle" \/ UNCHANGED <<inserted, rebuild>>
          /\ UNCHANGED <<registryVars, authVars, oidcVars, discussionVars, draftVars,
                         accountVars, votingVars, mediaVars, commentVars>>
       \/ /\ focus = "media" /\ MediaNext
          /\ UNCHANGED <<registryVars, authVars, oidcVars, discussionVars, draftVars,
                         accountVars, votingVars, markerVars, commentVars>>
       \/ /\ focus = "threads" /\ CommentsNext
          /\ UNCHANGED <<registryVars, authVars, oidcVars, discussionVars, draftVars,
                         accountVars, votingVars, markerVars, mediaVars>>

MCSpec == MCInit /\ [][MCNext]_vars
=============================================================================
