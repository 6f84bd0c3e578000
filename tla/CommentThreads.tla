--------------------------- MODULE CommentThreads ---------------------------
(***************************************************************************)
(* A reader pages through the comments of a post                           *)
(* (discussionService.listComments and listCommentReplies with the queries *)
(* of discussionRepository and the functions of the migration that adds    *)
(* the threads), while comments are written, moderated and liked.          *)
(*                                                                         *)
(* A comment is its number, which orders comments by creation and breaks   *)
(* ties as the id does.  A page of root comments brings the first replies  *)
(* of each as a preview, and the first page the replies whose root is not  *)
(* published ("orphans").  What follows a preview is paged by itself.      *)
(* Every query of comments is a step.  Not modelled: replies to replies    *)
(* (they belong to the same thread), overlapping recounts of replies (see  *)
(* Discussions), and cursors that are not the service's own.               *)
(***************************************************************************)
EXTENDS Integers, FiniteSets, Sequences, SequencesExt, FiniteSetsExt

CONSTANTS CommentIds,
          CommentWorlds,  \* what there is: see CommentsInit
          ThreadLimit,    \* roots of a page, and orphans
          PreviewLimit,   \* COMMENT_REPLY_PREVIEW_LIMIT
          ReplyLimit      \* replies of a page

ASSUME CommentIdsAssumption == CommentIds \subseteq Nat \ {0}
ASSUME CommentWorldsAssumption == \A world \in CommentWorlds :
    /\ world.thread \in [CommentIds -> CommentIds \cup {0}] /\ world.shunned \subseteq CommentIds
    /\ world.status \in [CommentIds -> {"absent", "published", "hidden"}]
    /\ world.likes \in [CommentIds -> Nat] /\ world.changes \in Nat
ASSUME PageLimitsAssumption == ThreadLimit > 0 /\ PreviewLimit > 0 /\ ReplyLimit > 0

NoRoot == 0
CommentStatuses == {"absent", "published", "hidden"}

VARIABLES
    thread,      \* thread_root_comment_id, NoRoot for a root comment
    shunned,     \* the comments of the author whom the reader may block
    blocking,    \* ... and does
    commentStatus,      \* moderation_status, "absent" before the comment is written
    likeCounts,
    postShown,   \* the post is published
    changesLeft, \* bound: changes during the reading
    moved,       \* history: the comments whose place or visibility changed
    reader

commentVars == <<thread, shunned, blocking, commentStatus, likeCounts, postShown,
                 changesLeft, moved, reader>>

\* cursor: the key of the last root of the page before; roots: the page that
\* is being answered, previews and orphans: what comes with them, waits: the
\* queries for those; tasks: where replies go on; shown: how often a comment
\* was answered.
NewReader == [pc |-> "page", cursor |-> <<>>, blocked |-> {}, roots |-> <<>>,
              next |-> <<>>, counts |-> [c \in CommentIds |-> 0], previews |-> {},
              orphans |-> {}, waits |-> {}, tasks |-> {}, root |-> NoRoot,
              shown |-> [c \in CommentIds |-> 0]]

CommentsInit ==
    /\ \E world \in CommentWorlds :
         /\ thread = world.thread /\ shunned = world.shunned /\ commentStatus = world.status
         /\ likeCounts = world.likes /\ changesLeft = world.changes
    /\ blocking = (shunned # {})
    /\ postShown = TRUE /\ moved = {} /\ reader = NewReader

-----------------------------------------------------------------------------
(* The queries *)

Published == {c \in CommentIds : commentStatus[c] = "published"}
Roots == {c \in Published : thread[c] = NoRoot}
RepliesTo(r) == {c \in Published : thread[c] = r}
Orphans == {c \in Published : thread[c] # NoRoot /\ commentStatus[thread[c]] # "published"}

\* refresh_discussion_comment_reply_metrics
ThreadReplyCount(c) == Cardinality(RepliesTo(c))

\* set_discussion_comment_feed_score: a reply is worth two likes, a like as
\* much as being a comment younger.
FeedScore(c) == c + likeCounts[c] + 2 * ThreadReplyCount(c)

ThreadCursorFor(c) == <<FeedScore(c), c>>

\* Mutant: equal scores are taken for one place.
BelowScore(key, cursor) == cursor = <<>> \/ key[1] < cursor[1]

\* feed_score, created_at and id, all descending
Below(key, cursor) == \/ cursor = <<>>
                      \/ key[1] < cursor[1]
                      \/ key[1] = cursor[1] /\ key[2] < cursor[2]

Upto(seq, limit) == SubSeq(seq, 1, IF Len(seq) < limit THEN Len(seq) ELSE limit)

ByFeedScore(cs) ==
    SetToSortSeq(cs, LAMBDA a, b : Below(ThreadCursorFor(b), ThreadCursorFor(a)))
ByCreation(cs) == SetToSortSeq(cs, LAMBDA a, b : a < b)

\* One more than the page has tells whether there is a next one.
ListPublishedRootComments(limit, cursor) ==
    Upto(ByFeedScore({c \in Roots : Below(ThreadCursorFor(c), cursor)}), limit)

ListPublishedReplies(r, limit, cursor) ==
    Upto(ByCreation({c \in RepliesTo(r) : c > cursor}), limit)

PreviewOf(r) == ToSet(ListPublishedReplies(r, PreviewLimit, 0))

ListOrphans == ToSet(Upto(ByFeedScore(Orphans), ThreadLimit))

-----------------------------------------------------------------------------
(* listComments *)

BlockedComments == IF blocking THEN shunned ELSE {}

\* What is answered to the reader, without what it has blocked.
Seeing(cs) == [c \in CommentIds |->
    reader.shown[c] + (IF c \in cs \ reader.blocked THEN 1 ELSE 0)]

\* Where the reader goes on: the next page, the next thread, or nowhere.
Onward(next, tasks) ==
    IF next # <<>> THEN "page" ELSE IF tasks # {} THEN "replies" ELSE "done"

NothingMore(r) == [r EXCEPT !.pc = Onward(<<>>, r.tasks), !.cursor = <<>>]

commentRows == <<thread, shunned, blocking, commentStatus, likeCounts, postShown,
                 changesLeft, moved>>

BeginPage ==
    /\ reader.pc = "page"
    /\ reader' = IF postShown
                   THEN [reader EXCEPT !.pc = "roots", !.blocked = BlockedComments]
                   ELSE NothingMore(reader)
    /\ UNCHANGED commentRows

ReadRoots ==
    LET rows == ListPublishedRootComments(ThreadLimit + 1, reader.cursor)
        page == Upto(rows, ThreadLimit)
    IN
    /\ reader.pc = "roots"
    /\ reader' = [reader EXCEPT
         !.pc = "queries", !.roots = page,
         !.waits = {"previews"} \cup (IF reader.cursor = <<>> THEN {"orphans"} ELSE {}),
         !.next = IF Len(rows) > ThreadLimit THEN ThreadCursorFor(Last(page)) ELSE <<>>,
         !.counts = [c \in CommentIds |->
                       IF c \in ToSet(page) THEN ThreadReplyCount(c) ELSE 0]]
    /\ UNCHANGED commentRows

\* The two run side by side; only the first page has orphans.
ReadPreviews ==
    /\ reader.pc = "queries" /\ "previews" \in reader.waits
    /\ reader' = [reader EXCEPT !.waits = @ \ {"previews"},
         !.previews = {pair \in ToSet(reader.roots) \X CommentIds : pair[2] \in PreviewOf(pair[1])}]
    /\ UNCHANGED commentRows

ReadOrphans ==
    /\ reader.pc = "queries" /\ "orphans" \in reader.waits
    /\ reader' = [reader EXCEPT !.waits = @ \ {"orphans"}, !.orphans = ListOrphans]
    /\ UNCHANGED commentRows

\* Mutant: the replies go on after the last one that is shown.
AfterVisible(raw) == raw \ reader.blocked

\* ... after the last one of the preview, whoever wrote it.
AfterPreview(raw) == raw

\* The threads of the page whose replies go on: the root is shown, and it
\* counts more replies than the preview has.
Continued ==
    LET Previewed(r) == {c \in CommentIds : <<r, c>> \in reader.previews}
        GoesOn(r) == /\ r \notin reader.blocked
                     /\ AfterPreview(Previewed(r)) # {}
                     /\ reader.counts[r] > Cardinality(Previewed(r))
    IN  {<<r, Max(AfterPreview(Previewed(r)))>> : r \in {q \in ToSet(reader.roots) : GoesOn(q)}}

\* A blocked root is left out, and what its preview shows are orphans.
AnswerPage ==
    LET replies == {pair[2] : pair \in reader.previews}
        tasks == reader.tasks \cup Continued
        once == Seeing(ToSet(reader.roots) \cup replies)
    IN
    /\ reader.pc = "queries" /\ reader.waits = {}
    /\ reader' = [reader EXCEPT
         !.pc = Onward(reader.next, tasks), !.cursor = reader.next, !.tasks = tasks,
         !.shown = [c \in CommentIds |->
                      once[c] + (IF c \in reader.orphans \ reader.blocked THEN 1 ELSE 0)],
         !.roots = <<>>, !.previews = {}, !.orphans = {}, !.next = <<>>, !.blocked = {},
         !.counts = [c \in CommentIds |-> 0]]
    /\ UNCHANGED commentRows

-----------------------------------------------------------------------------
(* listCommentReplies *)

BeginReplies ==
    /\ reader.pc = "replies"
    /\ \E task \in reader.tasks :
         LET rest == [reader EXCEPT !.tasks = @ \ {task}] IN
         reader' = IF /\ postShown /\ commentStatus[task[1]] = "published"
                      /\ task[1] \notin BlockedComments
                     THEN [rest EXCEPT !.pc = "rows", !.root = task[1],
                                       !.cursor = <<task[2]>>, !.blocked = BlockedComments]
                     ELSE NothingMore(rest)
    /\ UNCHANGED commentRows

AnswerReplies ==
    LET rows == ListPublishedReplies(reader.root, ReplyLimit + 1, reader.cursor[1])
        page == Upto(rows, ReplyLimit)
        tasks == IF Len(rows) > ReplyLimit
                   THEN reader.tasks \cup {<<reader.root, Last(page)>>} ELSE reader.tasks
    IN
    /\ reader.pc = "rows"
    /\ reader' = [reader EXCEPT
         !.pc = Onward(<<>>, tasks), !.tasks = tasks, !.shown = Seeing(ToSet(page)),
         !.root = NoRoot, !.cursor = <<>>, !.blocked = {}]
    /\ UNCHANGED commentRows

-----------------------------------------------------------------------------
(* What others do meanwhile, and the reader on another device *)

Changes(cs) ==
    /\ reader.pc # "done" /\ changesLeft > 0
    /\ changesLeft' = changesLeft - 1
    /\ moved' = moved \cup cs
    /\ UNCHANGED <<thread, shunned, reader>>

\* A comment is written or moderated: the count and score of its root follow.
ChangeStatus(c, from, to) ==
    /\ commentStatus[c] \in from
    /\ thread[c] # NoRoot => commentStatus[thread[c]] # "absent"
    /\ commentStatus' = [commentStatus EXCEPT ![c] = to]
    /\ Changes({c, thread[c]} \ {NoRoot})
    /\ UNCHANGED <<blocking, likeCounts, postShown>>

LikeComment(c) ==
    /\ commentStatus[c] = "published"
    /\ \E likes \in {likeCounts[c] + 1, likeCounts[c] - 1} \cap Nat :
         likeCounts' = [likeCounts EXCEPT ![c] = likes]
    /\ Changes({c})
    /\ UNCHANGED <<blocking, commentStatus, postShown>>

BlockOrUnblock ==
    /\ shunned # {}
    /\ blocking' = ~blocking
    /\ Changes(shunned)
    /\ UNCHANGED <<commentStatus, likeCounts, postShown>>

HidePost ==
    /\ postShown /\ postShown' = FALSE
    /\ Changes(CommentIds)
    /\ UNCHANGED <<blocking, commentStatus, likeCounts>>

CommentsNext ==
    \/ BeginPage \/ ReadRoots \/ ReadPreviews \/ ReadOrphans \/ AnswerPage
    \/ BeginReplies \/ AnswerReplies
    \/ BlockOrUnblock \/ HidePost
    \/ \E c \in CommentIds :
         \/ LikeComment(c)
         \/ ChangeStatus(c, {"absent", "hidden"}, "published")
         \/ ChangeStatus(c, {"published"}, "hidden")

CommentsSpec == CommentsInit /\ [][CommentsNext]_commentVars

-----------------------------------------------------------------------------
CommentsTypeOK ==
    /\ thread \in [CommentIds -> CommentIds \cup {NoRoot}]
    /\ shunned \subseteq CommentIds /\ blocking \in BOOLEAN /\ postShown \in BOOLEAN
    /\ commentStatus \in [CommentIds -> CommentStatuses]
    /\ likeCounts \in [CommentIds -> Nat] /\ changesLeft \in Nat
    /\ moved \subseteq CommentIds
    /\ reader.pc \in {"page", "roots", "queries", "replies", "rows", "done"}
    /\ reader.shown \in [CommentIds -> Nat]

\* What the rules let the reader find: roots, the replies of a root it sees,
\* of a blocked root those that come first, and of the other orphans those
\* with the highest score.
Findable(c) ==
    /\ c \in Published \ BlockedComments
    /\ \/ thread[c] = NoRoot
       \/ /\ thread[c] \in Published
          /\ \/ thread[c] \notin BlockedComments
             \/ Cardinality({d \in RepliesTo(thread[c]) : d < c}) < PreviewLimit
       \/ /\ c \in Orphans
          /\ Cardinality({d \in Orphans : Below(ThreadCursorFor(c), ThreadCursorFor(d))})
               < ThreadLimit

\* Who has read on to the end has seen every comment that was to be found
\* exactly once and no other one, whatever else happened, except comments
\* that changed meanwhile, or whose thread did.  Such changes may also add
\* orphans that displace others.
ReadersSeeEverythingOnce == reader.pc = "done" =>
    \A c \in CommentIds \ moved : thread[c] \notin moved =>
        \/ reader.shown[c] = IF Findable(c) THEN 1 ELSE 0
        \/ c \in Orphans /\ moved # {} /\ reader.shown[c] <= 1

\* No answer repeats a comment or shows one that is blocked when it is asked
\* for, unless the comment or its thread changed.
NothingIsShownTwice == \A c \in CommentIds \ moved : thread[c] \notin moved =>
    reader.shown[c] <= 1 /\ (c \in BlockedComments => reader.shown[c] = 0)
=============================================================================
