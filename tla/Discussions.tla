----------------------------- MODULE Discussions -----------------------------
(***************************************************************************)
(* A discussion post with its comments, likes, reports and blocks, and the *)
(* reviewers who decide about them (services/discussionService,            *)
(* adminModerationService, contentModerationService, and the triggers of   *)
(* the discussion tables).                                                 *)
(*                                                                         *)
(* Item 0 is the post, item n the n-th comment.  The content of the post   *)
(* is the number of its version.  The moderation service may answer        *)
(* anything.  A call is split where it awaits that service or the          *)
(* database; a change of a comment is split once more, where its trigger   *)
(* has counted the comments and waits for the row of the post.             *)
(* Not modelled: media, bookmarks, feed scores, the counts of replies and  *)
(* of a comment's likes.                                                   *)
(***************************************************************************)
EXTENDS Integers, FiniteSets, Sequences, SequencesExt

CONSTANTS Writers,
          PostAuthor,
          DiscussionCalls,  \* bound: the calls of a behaviour
          DiscussionMixes   \* what those calls are: operation and user

DecisionOps == {"approve", "reject", "requestEdit"}
DiscussionOps == {"createPost", "updatePost", "deletePost", "comment", "like",
                  "unlike", "report", "block", "unblock"} \cup DecisionOps

ASSUME PostAuthorAssumption == PostAuthor \in Writers
ASSUME DiscussionMixesAssumption ==
    DiscussionMixes \subseteq [DiscussionCalls -> DiscussionOps \X Writers]

VARIABLES
    post,       \* discussion_posts: "none" before it is created, or "deleted"
    comments,   \* discussion_comments
    likes,      \* discussion_post_likes
    reports,    \* discussion_post_reports
    blocks,     \* discussion_user_blocks
    decisions,  \* moderation_review_actions, with the content decided on
    talk        \* talk[c]: the state of call c

discussionVars == <<post, comments, likes, reports, blocks, decisions, talk>>

ModerationStatuses ==
    {"published", "review_required", "needs_edit", "blocked", "moderation_error"}

EditableStatuses == {"review_required", "needs_edit", "moderation_error"}

\* moderatePost and statusForDecision
Verdicts == {"published", "review_required", "blocked", "moderation_error"}

PostExists == post.status \notin {"none", "deleted"}

DiscussionInit ==
    /\ post = [status |-> "none", content |-> 0, verdict |-> "none",
               likeCount |-> 0, commentCount |-> 0, recounted |-> TRUE]
    /\ comments = <<>>
    /\ likes = {} /\ reports = {} /\ blocks = {} /\ decisions = {}
    /\ \E mix \in DiscussionMixes :
         talk = [c \in DiscussionCalls |->
           [pc |-> "idle", op |-> mix[c][1], user |-> mix[c][2], item |-> 0,
            reply |-> 0, reported |-> FALSE, count |-> 0, overtaken |-> FALSE]]

-----------------------------------------------------------------------------
Does(c, op, pc) == talk[c].op = op /\ talk[c].pc = pc

TalkTo(c, pc) == talk' = [talk EXCEPT ![c].pc = pc]

\* A finished call keeps nothing of what it read.
Done(c) == talk' = [talk EXCEPT ![c] = [@ EXCEPT
    !.pc = "done", !.item = 0, !.reply = 0, !.reported = FALSE, !.count = 0,
    !.overtaken = FALSE]]

Blocks(u, author) == <<u, author>> \in blocks

StatusOf(item) == IF item = 0 THEN post.status ELSE comments[item].status

Visible(n) == comments[n].stored /\ comments[n].status = "published"

-----------------------------------------------------------------------------
(* createPost, updatePost, deletePost *)

CreatePost(c) ==
    /\ Does(c, "createPost", "idle") /\ post.status = "none"
    /\ talk[c].user = PostAuthor
    /\ \E verdict \in Verdicts :
         post' = [post EXCEPT !.status = verdict, !.content = 1, !.verdict = verdict]
    /\ Done(c)
    /\ UNCHANGED <<comments, likes, reports, blocks, decisions>>

ReadForEdit(c) ==
    /\ Does(c, "updatePost", "idle") /\ PostExists /\ talk[c].user = PostAuthor
    /\ IF post.status \in EditableStatuses THEN TalkTo(c, "moderating") ELSE Done(c)
    /\ UNCHANGED <<post, comments, likes, reports, blocks, decisions>>

\* Mutant: the edit is stored before it is moderated.
KeptStatus(verdict) == post.status

EditedStatus(verdict) == verdict

\* updatePostById names the post only: a decision taken meanwhile is
\* replaced with the content it was about.
StoreEdit(c) ==
    /\ Does(c, "updatePost", "moderating")
    /\ IF PostExists
         THEN \E verdict \in Verdicts :
              post' = [post EXCEPT !.status = EditedStatus(verdict),
                                   !.content = @ + 1, !.verdict = verdict]
         ELSE UNCHANGED post
    /\ Done(c)
    /\ UNCHANGED <<comments, likes, reports, blocks, decisions>>

ReadForDeletion(c) ==
    /\ Does(c, "deletePost", "idle") /\ PostExists /\ talk[c].user = PostAuthor
    /\ IF post.status # "published" THEN TalkTo(c, "deleting") ELSE Done(c)
    /\ UNCHANGED <<post, comments, likes, reports, blocks, decisions>>

Counting == {c \in DiscussionCalls : talk[c].pc = "counting"}

\* With the post go its comments, likes and reports.
DeletePost(c) ==
    /\ Does(c, "deletePost", "deleting") /\ Counting = {}
    /\ IF PostExists /\ post.status # "published"
         THEN /\ post' = [post EXCEPT !.status = "deleted"]
              /\ comments' = <<>> /\ likes' = {} /\ reports' = {}
         ELSE UNCHANGED <<post, comments, likes, reports>>
    /\ Done(c)
    /\ UNCHANGED <<blocks, decisions>>

-----------------------------------------------------------------------------
(* createComment, and what a change of a comment does to the post's count *)

\* The post and the comment replied to are read before the moderation.
ReadForComment(c) ==
    /\ Does(c, "comment", "idle") /\ PostExists
    /\ IF post.status = "published" /\ ~Blocks(talk[c].user, PostAuthor)
         THEN \E n \in {0} \cup {m \in DOMAIN comments : Visible(m)
                                   /\ ~Blocks(talk[c].user, comments[m].author)} :
              talk' = [talk EXCEPT ![c].pc = "moderating", ![c].reply = n]
         ELSE Done(c)
    /\ UNCHANGED <<post, comments, likes, reports, blocks, decisions>>

\* Mutant: unpublished comments are counted too.
EveryComment(n) == comments[n].stored

Counted(n) == Visible(n)

CountedComments == Cardinality({n \in DOMAIN comments : Counted(n)})

\* The comment is there for its own transaction, whose trigger counts it.
InsertComment(c) ==
    /\ Does(c, "comment", "moderating")
    /\ IF PostExists /\ talk[c].reply \in {0} \cup DOMAIN comments
         THEN \E verdict \in Verdicts :
              /\ comments' = Append(comments, [author |-> talk[c].user,
                    reply |-> talk[c].reply, status |-> verdict,
                    verdict |-> verdict, stored |-> FALSE])
              /\ talk' = [talk EXCEPT ![c] = [@ EXCEPT !.pc = "counting",
                    !.item = Len(comments) + 1,
                    !.count = CountedComments + (IF verdict = "published" THEN 1 ELSE 0)]]
         ELSE Done(c) /\ UNCHANGED comments
    /\ UNCHANGED <<post, likes, reports, blocks, decisions>>

\* refresh_discussion_post_comment_count writes what it has counted; the
\* transactions that have counted already miss this one.
Recount(c) ==
    post' = [post EXCEPT !.commentCount = talk[c].count, !.recounted = ~talk[c].overtaken]

Overtake(c, next) ==
    talk' = [d \in DiscussionCalls |->
        IF d = c THEN next
        ELSE IF d \in Counting THEN [talk[d] EXCEPT !.overtaken = TRUE] ELSE talk[d]]

CommitComment(c) ==
    /\ Does(c, "comment", "counting")
    /\ comments' = [comments EXCEPT ![talk[c].item].stored = TRUE]
    /\ Recount(c)
    /\ Overtake(c, [talk[c] EXCEPT !.pc = "done", !.item = 0, !.reply = 0, !.count = 0,
                                   !.overtaken = FALSE])
    /\ UNCHANGED <<likes, reports, blocks, decisions>>

-----------------------------------------------------------------------------
(* Likes, reports and blocks *)

\* Mutant: a like that is there already is counted again.
LikeAgain(u) == 1

NewLike(u) == IF u \in likes THEN 0 ELSE 1

\* likePost and unlikePost read a published post ...
ReadForLike(c) ==
    /\ talk[c].op \in {"like", "unlike"} /\ talk[c].pc = "idle" /\ PostExists
    /\ IF post.status = "published" THEN TalkTo(c, "liking") ELSE Done(c)
    /\ UNCHANGED <<post, comments, likes, reports, blocks, decisions>>

\* ... and the trigger counts the row inserted or deleted.
LikeDiscussion(c) ==
    /\ Does(c, "like", "liking")
    /\ IF PostExists
         THEN /\ likes' = likes \cup {talk[c].user}
              /\ post' = [post EXCEPT !.likeCount = @ + NewLike(talk[c].user)]
         ELSE UNCHANGED <<likes, post>>
    /\ Done(c)
    /\ UNCHANGED <<comments, reports, blocks, decisions>>

UnlikeDiscussion(c) ==
    /\ Does(c, "unlike", "liking")
    /\ IF talk[c].user \in likes
         THEN /\ likes' = likes \ {talk[c].user}
              /\ post' = [post EXCEPT !.likeCount = IF @ = 0 THEN 0 ELSE @ - 1]
         ELSE UNCHANGED <<likes, post>>
    /\ Done(c)
    /\ UNCHANGED <<comments, reports, blocks, decisions>>

AuthorOf(item) == IF item = 0 THEN PostAuthor ELSE comments[item].author

\* reportPost, reportComment, blockPostAuthor and blockCommentAuthor read a
\* published item; nobody blocks himself.
ReadForReport(c) ==
    /\ talk[c].op \in {"report", "block"} /\ talk[c].pc = "idle" /\ PostExists
    /\ \E item \in {0} \cup {n \in DOMAIN comments : comments[n].stored} :
         IF StatusOf(item) = "published"
              /\ (talk[c].op = "block" => AuthorOf(item) # talk[c].user)
           THEN talk' = [talk EXCEPT ![c].pc = "reporting", ![c].item = item]
           ELSE Done(c)
    /\ UNCHANGED <<post, comments, likes, reports, blocks, decisions>>

ReportOf(item, u) == {r \in reports : r.item = item /\ r.by = u}

\* Mutant: a report that was reviewed is not found.
OpenlyReported(item, u) == \E r \in ReportOf(item, u) : r.status = "open"

\* getReport, and the unique indexes on the reporter of a post or a comment.
Reported(item, u) == ReportOf(item, u) # {}

\* One report for each user and item: a later one is the earlier one again,
\* reviewed or not.
StoreReport(c) ==
    /\ talk[c].op \in {"report", "block"} /\ talk[c].pc = "reporting"
    /\ LET item == talk[c].item
           u == talk[c].user
           there == PostExists /\ item \in {0} \cup DOMAIN comments
       IN  /\ reports' = IF there /\ ~Reported(item, u)
                           THEN reports \cup {[item |-> item, by |-> u, status |-> "open"]}
                           ELSE reports
           /\ IF there /\ talk[c].op = "block" THEN TalkTo(c, "blocking") ELSE Done(c)
    /\ UNCHANGED <<post, comments, likes, blocks, decisions>>

BlockAuthor(c) ==
    /\ Does(c, "block", "blocking")
    /\ blocks' = IF talk[c].item \in {0} \cup DOMAIN comments
                   THEN blocks \cup {<<talk[c].user, AuthorOf(talk[c].item)>>} ELSE blocks
    /\ Done(c)
    /\ UNCHANGED <<post, comments, likes, reports, decisions>>

UnblockAuthor(c) ==
    /\ Does(c, "unblock", "idle") /\ PostExists /\ talk[c].user # PostAuthor
    /\ blocks' = blocks \ {<<talk[c].user, PostAuthor>>}
    /\ Done(c)
    /\ UNCHANGED <<post, comments, likes, reports, decisions>>

-----------------------------------------------------------------------------
(* applyDecision *)

OpenReports(item) == {r \in reports : r.item = item /\ r.status = "open"}

\* An item waits for a review, or is public and reported.
ReadForDecision(c) ==
    /\ talk[c].op \in DecisionOps /\ talk[c].pc = "idle" /\ PostExists
    /\ \E item \in {0} \cup {n \in DOMAIN comments : comments[n].stored} :
         LET reported == StatusOf(item) = "published" /\ OpenReports(item) # {}
         IN  IF StatusOf(item) = "review_required" \/ reported
               THEN talk' = [talk EXCEPT ![c].pc = "deciding", ![c].item = item,
                                         ![c].reported = reported]
               ELSE Done(c)
    /\ UNCHANGED <<post, comments, likes, reports, blocks, decisions>>

\* Mutant: the status is not asked for when it is updated.
AnyStatusMatches(c, status) == TRUE

ReviewStatusMatches(c, status) ==
    status = IF talk[c].reported THEN "published" ELSE "review_required"

StatusFor(op) == CASE op = "approve" -> "published"
                   [] op = "reject" -> "blocked"
                   [] op = "requestEdit" -> "needs_edit"

Decide(c) == decisions' = decisions \cup
    {[item |-> talk[c].item, content |-> IF talk[c].item = 0 THEN post.content ELSE 0,
      action |-> talk[c].op]}

\* The content is what is there by now, seen by the reviewer or not.
DecidePost(c) ==
    /\ talk[c].op \in DecisionOps /\ talk[c].pc = "deciding" /\ talk[c].item = 0
    /\ IF PostExists /\ ReviewStatusMatches(c, post.status)
         THEN /\ post' = [post EXCEPT !.status = StatusFor(talk[c].op)]
              /\ Decide(c)
              /\ IF talk[c].reported THEN TalkTo(c, "marking") ELSE Done(c)
         ELSE Done(c) /\ UNCHANGED <<post, decisions>>
    /\ UNCHANGED <<comments, likes, reports, blocks>>

\* Nobody else updates the row of the comment until its count is written.
Locked(n) == \E c \in Counting : talk[c].item = n

DecideComment(c) ==
    /\ talk[c].op \in DecisionOps /\ talk[c].pc = "deciding" /\ talk[c].item # 0
    /\ ~Locked(talk[c].item)
    /\ LET n == talk[c].item
           others == {m \in DOMAIN comments : Counted(m) /\ m # n}
       IN  IF n \in DOMAIN comments /\ ReviewStatusMatches(c, comments[n].status)
             THEN talk' = [talk EXCEPT ![c].pc = "counting", ![c].count =
                    Cardinality(others) + (IF talk[c].op = "approve" THEN 1 ELSE 0)]
             ELSE Done(c)
    /\ UNCHANGED <<post, comments, likes, reports, blocks, decisions>>

CommitDecision(c) ==
    /\ talk[c].op \in DecisionOps /\ talk[c].pc = "counting"
    /\ comments' = [comments EXCEPT ![talk[c].item].status = StatusFor(talk[c].op)]
    /\ Decide(c)
    /\ Recount(c)
    /\ Overtake(c, [talk[c] EXCEPT !.pc = "marking", !.count = 0, !.overtaken = FALSE])
    /\ UNCHANGED <<likes, reports, blocks>>

\* markOpenPostReportsReviewed and markOpenCommentReportsReviewed take the
\* reports that came after the item was read, too.
MarkReports(c) ==
    /\ talk[c].op \in DecisionOps /\ talk[c].pc = "marking"
    /\ reports' = IF talk[c].reported
         THEN (reports \ OpenReports(talk[c].item)) \cup
              {[r EXCEPT !.status = "reviewed"] : r \in OpenReports(talk[c].item)}
         ELSE reports
    /\ Done(c)
    /\ UNCHANGED <<post, comments, likes, blocks, decisions>>

-----------------------------------------------------------------------------
DiscussionNext == \E c \in DiscussionCalls :
    \/ CreatePost(c) \/ ReadForEdit(c) \/ StoreEdit(c)
    \/ ReadForDeletion(c) \/ DeletePost(c)
    \/ ReadForComment(c) \/ InsertComment(c) \/ CommitComment(c)
    \/ ReadForLike(c) \/ LikeDiscussion(c) \/ UnlikeDiscussion(c)
    \/ ReadForReport(c) \/ StoreReport(c) \/ BlockAuthor(c) \/ UnblockAuthor(c)
    \/ ReadForDecision(c) \/ DecidePost(c) \/ DecideComment(c) \/ CommitDecision(c)
    \/ MarkReports(c)

DiscussionSpec == DiscussionInit /\ [][DiscussionNext]_discussionVars

-----------------------------------------------------------------------------
\* The types of the variables; a user reports an item once at most.
DiscussionTypeOK ==
    /\ post.status \in ModerationStatuses \cup {"none", "deleted"}
    /\ post.content \in Nat /\ post.commentCount \in Nat
    /\ post.likeCount \in 0..Cardinality(Writers)
    /\ \A n \in DOMAIN comments :
         comments[n].status \in ModerationStatuses /\ comments[n].reply \in 0..(n - 1)
    /\ likes \subseteq Writers /\ blocks \subseteq Writers \X Writers
    /\ \A r \in reports : ReportOf(r.item, r.by) = {r}

Decided(item, content, action) ==
    [item |-> item, content |-> content, action |-> action] \in decisions

\* What is public was allowed by the moderation as it is now or approved by
\* a reviewer, and no reviewer has rejected it: not even when an edit, a
\* report and several reviewers overlap.
OnlyClearedContentIsPublic ==
    /\ post.status = "published" =>
         /\ post.verdict = "published" \/ Decided(0, post.content, "approve")
         /\ ~Decided(0, post.content, "reject")
    /\ \A n \in DOMAIN comments : comments[n].status = "published" =>
         /\ comments[n].verdict = "published" \/ Decided(n, 0, "approve")
         /\ ~Decided(n, 0, "reject")

\* The counts of a post are the numbers of its likes and of its public
\* comments; the latter unless the last transaction that counted had been
\* overtaken by another one.
CountsAreExact ==
    PostExists =>
        /\ post.likeCount = Cardinality(likes)
        /\ post.recounted => post.commentCount = Cardinality({n \in DOMAIN comments : Visible(n)})
=============================================================================
