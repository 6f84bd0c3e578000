---------------------------- MODULE ContentProofs ---------------------------
(***************************************************************************)
(* What holds of discussions, polls and votes for any number of writers,   *)
(* polls, voters and calls: the counts of a post are exact as long as no   *)
(* transaction that counted was overtaken, what is public was cleared, a   *)
(* published poll stays as it is, everyone votes once and as allowed, and  *)
(* the tallies that are shown are those of a moment in the request.        *)
(***************************************************************************)
EXTENDS BackendServices, FiniteSetTheorems, SequenceTheorems, TLAPS

-----------------------------------------------------------------------------
(* Discussions: types. *)

PostTypes ==
    [status : ModerationStatuses \cup {"none", "deleted"}, content : Nat,
     verdict : Verdicts \cup {"none"}, likeCount : Nat, commentCount : Nat,
     recounted : BOOLEAN]

CommentTypes ==
    [author : Writers, reply : Nat, status : ModerationStatuses, verdict : Verdicts,
     stored : BOOLEAN]

ReportTypes == [item : Nat, by : Writers, status : {"open", "reviewed"}]

DecisionTypes == [item : Nat, content : Nat, action : DecisionOps]

TalkSteps == {"idle", "moderating", "deleting", "counting", "liking", "reporting",
              "blocking", "deciding", "marking", "done"}

TalkTypes ==
    [pc : TalkSteps, op : DiscussionOps, user : Writers, item : Nat, reply : Nat,
     reported : BOOLEAN, count : Nat, overtaken : BOOLEAN]

TalkTyped == talk \in [DiscussionCalls -> TalkTypes]

RowsTyped ==
    /\ post \in PostTypes
    /\ comments \in Seq(CommentTypes)
    /\ likes \subseteq Writers /\ IsFiniteSet(likes)
    /\ reports \subseteq ReportTypes
    /\ blocks \subseteq Writers \X Writers
    /\ decisions \subseteq DecisionTypes

Types == TalkTyped /\ RowsTyped

\* A step of a call c changes nothing of the others.
Alone(c) == \A d \in DiscussionCalls : d # c => talk'[d] = talk[d]

\* A call keeps its operation and its user.
SameTalk(c) == talk'[c].op = talk[c].op /\ talk'[c].user = talk[c].user

\* A call that is done has no item.
LEMMA DoneCall ==
  ASSUME NEW c \in DiscussionCalls, TalkTyped, Done(c)
  PROVE  TalkTyped' /\ Alone(c) /\ SameTalk(c) /\ talk'[c].pc = "done" /\ talk'[c].item = 0
<1> DEFINE next == [talk[c] EXCEPT !.pc = "done", !.item = 0, !.reply = 0,
                       !.reported = FALSE, !.count = 0, !.overtaken = FALSE]
<1>1. talk[c] \in TalkTypes
  BY DEF TalkTyped
<1>2. next \in TalkTypes /\ next.pc = "done" /\ next.item = 0
      /\ next.op = talk[c].op /\ next.user = talk[c].user
  BY <1>1 DEF TalkTypes, TalkSteps
<1>3. talk' = [talk EXCEPT ![c] = next]
  BY DEF Done
<1> HIDE DEF next
<1> QED BY <1>2, <1>3 DEF TalkTyped, Alone, SameTalk

\* A call that goes on keeps what it has.
LEMMA NextCall ==
  ASSUME NEW c \in DiscussionCalls, TalkTyped, NEW pc \in TalkSteps, TalkTo(c, pc)
  PROVE  /\ TalkTyped' /\ Alone(c) /\ SameTalk(c)
         /\ talk'[c].pc = pc /\ talk'[c].item = talk[c].item
         /\ talk'[c].reported = talk[c].reported
<1> DEFINE next == [talk[c] EXCEPT !.pc = pc]
<1>1. talk[c] \in TalkTypes
  BY DEF TalkTyped
<1>2. next \in TalkTypes /\ next.pc = pc /\ next.item = talk[c].item
      /\ next.op = talk[c].op /\ next.user = talk[c].user
      /\ next.reported = talk[c].reported
  BY <1>1 DEF TalkTypes
<1>3. talk' = [talk EXCEPT ![c] = next]
  BY DEF TalkTo, TalkTyped
<1> HIDE DEF next
<1> QED BY <1>2, <1>3 DEF TalkTyped, Alone, SameTalk

\* The initial state has the types.
LEMMA TypesInit == DiscussionInit => Types
<1> SUFFICES ASSUME DiscussionInit PROVE Types
  OBVIOUS
<1>1. PICK mix \in DiscussionMixes :
        talk = [c \in DiscussionCalls |->
          [pc |-> "idle", op |-> mix[c][1], user |-> mix[c][2], item |-> 0, reply |-> 0,
           reported |-> FALSE, count |-> 0, overtaken |-> FALSE]]
  BY DEF DiscussionInit
<1>2. \A c \in DiscussionCalls : mix[c][1] \in DiscussionOps /\ mix[c][2] \in Writers
  BY DiscussionMixesAssumption
<1>3. TalkTyped
  BY <1>1, <1>2 DEF TalkTyped, TalkTypes, TalkSteps
<1>4. RowsTyped
  BY FS_EmptySet, EmptySeq DEF DiscussionInit, RowsTyped, PostTypes
<1> QED BY <1>3, <1>4 DEF Types

-----------------------------------------------------------------------------
(* Discussions: what a step does to the calls. *)

\* The steps of a call that neither begin nor end the counting of comments.
Ordinary(c) ==
    \/ CreatePost(c) \/ ReadForEdit(c) \/ StoreEdit(c) \/ ReadForDeletion(c) \/ DeletePost(c)
    \/ ReadForComment(c) \/ ReadForLike(c) \/ LikeDiscussion(c) \/ UnlikeDiscussion(c)
    \/ ReadForReport(c) \/ StoreReport(c) \/ BlockAuthor(c) \/ UnblockAuthor(c)
    \/ ReadForDecision(c) \/ DecidePost(c) \/ MarkReports(c)

TalkMoves(c) == TalkTyped' /\ Alone(c) /\ SameTalk(c)

\* Steps that read an item or a comment to reply to keep it.
LEMMA ReadingCall ==
  ASSUME NEW c \in DiscussionCalls, Types,
         ReadForComment(c) \/ ReadForReport(c) \/ ReadForDecision(c)
  PROVE  TalkMoves(c) /\ talk[c].pc = "idle" /\ talk'[c].pc # "counting"
<1>1. talk[c] \in TalkTypes /\ talk \in [DiscussionCalls -> TalkTypes]
  BY DEF Types, TalkTyped
<1>2. DOMAIN comments \subseteq Nat
  BY LenProperties DEF Types, RowsTyped
<1>3. CASE Done(c)
  BY <1>3, DoneCall DEF Types, TalkMoves, ReadForComment, ReadForReport, ReadForDecision, Does
<1>4. CASE ReadForComment(c) /\ ~Done(c)
  <2>1. PICK n \in Nat : talk' = [talk EXCEPT ![c].pc = "moderating", ![c].reply = n]
    BY <1>2, <1>4 DEF ReadForComment
  <2> DEFINE next == [talk[c] EXCEPT !.pc = "moderating", !.reply = n]
  <2>2. next \in TalkTypes /\ next.pc = "moderating"
        /\ next.op = talk[c].op /\ next.user = talk[c].user
    BY <1>1 DEF TalkTypes, TalkSteps
  <2>3. talk' = [talk EXCEPT ![c] = next]
    BY <1>1, <2>1
  <2> HIDE DEF next
  <2> QED BY <1>1, <1>4, <2>2, <2>3
          DEF ReadForComment, Does, TalkMoves, TalkTyped, Alone, SameTalk
<1>5. CASE ReadForReport(c) /\ ~Done(c)
  <2>1. PICK n \in Nat : talk' = [talk EXCEPT ![c].pc = "reporting", ![c].item = n]
    BY <1>2, <1>5 DEF ReadForReport
  <2> DEFINE next == [talk[c] EXCEPT !.pc = "reporting", !.item = n]
  <2>2. next \in TalkTypes /\ next.pc = "reporting"
        /\ next.op = talk[c].op /\ next.user = talk[c].user
    BY <1>1 DEF TalkTypes, TalkSteps
  <2>3. talk' = [talk EXCEPT ![c] = next]
    BY <1>1, <2>1
  <2> HIDE DEF next
  <2> QED BY <1>1, <1>5, <2>2, <2>3 DEF ReadForReport, TalkMoves, TalkTyped, Alone, SameTalk
<1>6. CASE ReadForDecision(c) /\ ~Done(c)
  <2>1. PICK n \in Nat, b \in BOOLEAN :
          talk' = [talk EXCEPT ![c].pc = "deciding", ![c].item = n, ![c].reported = b]
    BY <1>2, <1>6 DEF ReadForDecision
  <2> DEFINE next == [talk[c] EXCEPT !.pc = "deciding", !.item = n, !.reported = b]
  <2>2. next \in TalkTypes /\ next.pc = "deciding"
        /\ next.op = talk[c].op /\ next.user = talk[c].user
    BY <1>1 DEF TalkTypes, TalkSteps
  <2>3. talk' = [talk EXCEPT ![c] = next]
    BY <1>1, <2>1
  <2> HIDE DEF next
  <2> QED BY <1>1, <1>6, <2>2, <2>3 DEF ReadForDecision, TalkMoves, TalkTyped, Alone, SameTalk
<1> QED BY <1>3, <1>4, <1>5, <1>6

\* Nothing but counting is entered or left by the steps that do so.
LEMMA OrdinaryCall ==
  ASSUME NEW c \in DiscussionCalls, Types, Ordinary(c)
  PROVE  TalkMoves(c) /\ talk[c].pc # "counting" /\ talk'[c].pc # "counting"
<1>1. CASE ReadForComment(c) \/ ReadForReport(c) \/ ReadForDecision(c)
  BY <1>1, ReadingCall
<1> DEFINE AfterReading == {"moderating", "deleting", "liking", "blocking", "marking"}
<1>2. ASSUME NEW pc \in AfterReading, TalkTo(c, pc) PROVE TalkMoves(c) /\ talk'[c].pc # "counting"
  BY <1>2, NextCall DEF Types, TalkMoves, TalkSteps
<1>3. ASSUME Done(c) PROVE TalkMoves(c) /\ talk'[c].pc # "counting"
  BY <1>3, DoneCall DEF Types, TalkMoves
<1>4. CASE CreatePost(c) \/ StoreEdit(c) \/ DeletePost(c) \/ LikeDiscussion(c)
           \/ UnlikeDiscussion(c) \/ BlockAuthor(c) \/ UnblockAuthor(c) \/ MarkReports(c)
  BY <1>3, <1>4 DEF CreatePost, StoreEdit, DeletePost, LikeDiscussion, UnlikeDiscussion,
                    BlockAuthor, UnblockAuthor, MarkReports, Does
<1>5. CASE ReadForEdit(c) \/ ReadForDeletion(c) \/ ReadForLike(c) \/ StoreReport(c)
           \/ DecidePost(c)
  <2>1. Done(c) \/ \E pc \in AfterReading : TalkTo(c, pc)
    BY <1>5 DEF ReadForEdit, ReadForDeletion, ReadForLike, StoreReport, DecidePost
  <2>2. talk[c].pc # "counting"
    BY <1>5 DEF ReadForEdit, ReadForDeletion, ReadForLike, StoreReport, DecidePost, Does
  <2> QED BY <1>2, <1>3, <2>1, <2>2
<1> QED BY <1>1, <1>4, <1>5 DEF Ordinary

\* A decision about a comment is counted by the call that takes it.
LEMMA DecidingCall ==
  ASSUME NEW c \in DiscussionCalls, TalkTyped, NEW k \in Nat,
         talk' = [talk EXCEPT ![c].pc = "counting", ![c].count = k]
  PROVE  /\ TalkMoves(c) /\ talk'[c].pc = "counting" /\ talk'[c].item = talk[c].item
         /\ talk'[c].count = k /\ talk'[c].overtaken = talk[c].overtaken
         /\ talk'[c].reported = talk[c].reported
<1> DEFINE next == [talk[c] EXCEPT !.pc = "counting", !.count = k]
<1>1. talk[c] \in TalkTypes
  BY DEF TalkTyped
<1>2. next \in TalkTypes /\ next.pc = "counting" /\ next.item = talk[c].item
      /\ next.count = k /\ next.op = talk[c].op /\ next.user = talk[c].user
      /\ next.overtaken = talk[c].overtaken /\ next.reported = talk[c].reported
  BY <1>1 DEF TalkTypes, TalkSteps
<1>3. talk' = [talk EXCEPT ![c] = next]
  BY DEF TalkTyped
<1> HIDE DEF next
<1> QED BY <1>2, <1>3 DEF TalkTyped, Alone, SameTalk, TalkMoves

\* A transaction that commits overtakes all that have counted.
LEMMA OvertakingCall ==
  ASSUME NEW c \in DiscussionCalls, TalkTyped, NEW next \in TalkTypes,
         next.pc # "counting", Overtake(c, next), c \in Counting
  PROVE  /\ TalkTyped' /\ talk'[c] = next
         /\ Counting' = Counting \ {c}
         /\ \A d \in DiscussionCalls : d # c =>
              /\ talk'[d].op = talk[d].op /\ talk'[d].pc = talk[d].pc
              /\ talk'[d].item = talk[d].item /\ talk'[d].reported = talk[d].reported
              /\ d \in Counting => talk'[d].overtaken
<1>1. ASSUME NEW d \in DiscussionCalls, d # c
      PROVE  /\ talk'[d] \in TalkTypes
             /\ talk'[d].op = talk[d].op /\ talk'[d].pc = talk[d].pc
             /\ talk'[d].item = talk[d].item /\ talk'[d].reported = talk[d].reported
             /\ d \in Counting => talk'[d].overtaken
  <2>1. talk[d] \in TalkTypes
    BY DEF TalkTyped
  <2>2. talk'[d] = IF d \in Counting THEN [talk[d] EXCEPT !.overtaken = TRUE] ELSE talk[d]
    BY <1>1 DEF Overtake
  <2> QED BY <2>1, <2>2 DEF TalkTypes
<1>2. talk'[c] = next
  BY DEF Overtake
<1>3. TalkTyped'
  <2>1. talk' = [d \in DiscussionCalls |-> talk'[d]]
    BY DEF Overtake
  <2>2. \A d \in DiscussionCalls : talk'[d] \in TalkTypes
    BY <1>1, <1>2
  <2> QED BY <2>1, <2>2 DEF TalkTyped
<1>4. Counting' = Counting \ {c}
  BY <1>1, <1>2 DEF Counting
<1> QED BY <1>1, <1>2, <1>3, <1>4

\* What becomes of a call that commits a comment or a decision.
FinishedTalk(c) == [talk[c] EXCEPT !.pc = "done", !.item = 0, !.reply = 0, !.count = 0,
                                   !.overtaken = FALSE]
SettledTalk(c) == [talk[c] EXCEPT !.pc = "marking", !.count = 0, !.overtaken = FALSE]

\* Both have their types and count no more.
LEMMA CommittedCall ==
  ASSUME NEW c \in DiscussionCalls, TalkTyped
  PROVE  /\ FinishedTalk(c) \in TalkTypes /\ FinishedTalk(c).pc = "done"
         /\ SettledTalk(c) \in TalkTypes /\ SettledTalk(c).pc = "marking"
<1>1. talk[c] \in TalkTypes
  BY DEF TalkTyped
<1> QED BY <1>1 DEF FinishedTalk, SettledTalk, TalkTypes, TalkSteps

-----------------------------------------------------------------------------
(* Discussions: comments that are public. *)

Public == {n \in DOMAIN comments : Counted(n)}

\* There are finitely many comments.
LEMMA PublicFinite ==
  ASSUME RowsTyped
  PROVE  IsFiniteSet(DOMAIN comments) /\ IsFiniteSet(Public)
<1>1. Len(comments) \in Nat /\ DOMAIN comments = 1..Len(comments)
  BY LenProperties DEF RowsTyped
<1>2. IsFiniteSet(DOMAIN comments)
  BY <1>1, FS_Interval
<1> QED BY <1>2, FS_Subset DEF Public

\* The number of the public comments but one is a number.
LEMMA OthersCounted ==
  ASSUME RowsTyped, NEW n
  PROVE  /\ IsFiniteSet(Public \ {n}) /\ Cardinality(Public \ {n}) \in Nat
         /\ n \notin Public => Public \ {n} = Public
         /\ Cardinality((Public \ {n}) \cup {n}) = Cardinality(Public \ {n}) + 1
         /\ {m \in DOMAIN comments : Counted(m) /\ m # n} = Public \ {n}
<1>1. IsFiniteSet(Public \ {n})
  BY PublicFinite, FS_Subset
<1>2. Cardinality((Public \ {n}) \cup {n}) = Cardinality(Public \ {n}) + 1
  BY <1>1, FS_AddElement
<1> QED BY <1>1, <1>2, FS_CardinalityType DEF Public

\* A comment that is added is the last one, and the others stay.
LEMMA CommentAdded ==
  ASSUME RowsTyped, NEW e \in CommentTypes, comments' = Append(comments, e)
  PROVE  /\ comments' \in Seq(CommentTypes)
         /\ DOMAIN comments' = DOMAIN comments \cup {Len(comments) + 1}
         /\ Len(comments) + 1 \in Nat \ {0} /\ Len(comments) + 1 \notin DOMAIN comments
         /\ comments'[Len(comments) + 1] = e
         /\ \A n \in DOMAIN comments : comments'[n] = comments[n]
<1>1. Len(comments) \in Nat /\ DOMAIN comments = 1..Len(comments)
  BY LenProperties DEF RowsTyped
<1>2. comments' \in Seq(CommentTypes) /\ Len(comments') = Len(comments) + 1
      /\ comments'[Len(comments) + 1] = e
      /\ \A n \in 1..Len(comments) : comments'[n] = comments[n]
  BY AppendProperties DEF RowsTyped
<1>3. DOMAIN comments' = 1..(Len(comments) + 1)
  BY <1>2, LenProperties
<1> QED BY <1>1, <1>2, <1>3

\* A comment that is changed stays where it is, and so do the others.
LEMMA CommentChanged ==
  ASSUME RowsTyped, NEW n \in DOMAIN comments, NEW e \in CommentTypes,
         comments' = [comments EXCEPT ![n] = e]
  PROVE  /\ comments' \in Seq(CommentTypes) /\ DOMAIN comments' = DOMAIN comments
         /\ comments'[n] = e
         /\ \A m \in DOMAIN comments : m # n => comments'[m] = comments[m]
<1>1. DOMAIN comments = 1..Len(comments)
  BY LenProperties DEF RowsTyped
<1>2. comments' \in Seq(CommentTypes) /\ Len(comments') = Len(comments)
      /\ \A m \in 1..Len(comments) : comments'[m] = IF m = n THEN e ELSE comments[m]
  BY <1>1, ExceptSeq DEF RowsTyped
<1>3. DOMAIN comments' = 1..Len(comments')
  BY <1>2, LenProperties
<1> QED BY <1>1, <1>2, <1>3

\* Comments are of their type.
LEMMA CommentTyped ==
  ASSUME RowsTyped, NEW n \in DOMAIN comments
  PROVE  comments[n] \in CommentTypes /\ n \in Nat \ {0}
  BY LenProperties, ElementOfSeq DEF RowsTyped

-----------------------------------------------------------------------------
(* Discussions: the counts. *)

\* Whether the comment that a call counts will be public when it commits.
WillBePublic(c) ==
    IF talk[c].op = "comment" THEN comments[talk[c].item].status = "published"
                              ELSE talk[c].op = "approve"

\* A call that has counted holds a row: a comment of its own that nobody else
\* sees yet, or one that is as it was when the decision was taken.  Unless it
\* was overtaken, its count is the one there will be.
HoldsRow(c) ==
    LET n == talk[c].item IN
    /\ n \in DOMAIN comments
    /\ \/ talk[c].op = "comment" /\ ~comments[n].stored
       \/ /\ talk[c].op \in DecisionOps /\ comments[n].stored
          /\ ReviewStatusMatches(c, comments[n].status)
    /\ ~talk[c].overtaken =>
         talk[c].count = Cardinality(Public \ {n}) + (IF WillBePublic(c) THEN 1 ELSE 0)

Rows ==
    /\ \A c \in Counting : HoldsRow(c)
    /\ \A c, d \in Counting : talk[c].item = talk[d].item => c = d
    /\ \A n \in DOMAIN comments : ~comments[n].stored => Locked(n)

Exact ==
    post.status # "deleted" =>
        /\ post.likeCount = Cardinality(likes)
        /\ post.recounted => post.commentCount = Cardinality(Public)

\* A step of one call that counts nothing leaves the counts of the others.
LEMMA OrdinaryRows ==
  ASSUME NEW c \in DiscussionCalls, Types, Rows, UNCHANGED comments, Alone(c),
         talk[c].pc # "counting", talk'[c].pc # "counting"
  PROVE  Rows'
<1>1. Counting' = Counting /\ \A d \in Counting : d # c /\ talk'[d] = talk[d]
  BY DEF Counting, Alone
<1>2. Public' = Public
  BY DEF Public, Counted, Visible
<1>3. ASSUME NEW d \in Counting PROVE HoldsRow(d)'
  <2>1. HoldsRow(d) /\ talk'[d] = talk[d]
    BY <1>1 DEF Rows
  <2> QED BY <1>2, <2>1 DEF HoldsRow, WillBePublic, ReviewStatusMatches
<1> QED BY <1>1, <1>3 DEF Rows, Locked

\* A comment is inserted.
LEMMA InsertRows ==
  ASSUME NEW c \in DiscussionCalls, Types, Rows, Exact, InsertComment(c)
  PROVE  Types' /\ Rows' /\ Exact'
<1>1. CASE Done(c) /\ UNCHANGED comments
  <2>1. UNCHANGED <<post, likes, reports, blocks, decisions>> /\ talk[c].pc # "counting"
    BY DEF InsertComment, Does
  <2>2. TalkTyped' /\ Alone(c) /\ talk'[c].pc = "done"
    BY <1>1, DoneCall DEF Types
  <2>3. Rows'
    BY <1>1, <2>1, <2>2, OrdinaryRows
  <2> QED BY <1>1, <2>1, <2>2, <2>3 DEF Types, RowsTyped, Exact, Public, Counted, Visible
<1>2. CASE ~(Done(c) /\ UNCHANGED comments)
  <2> PICK n : n = Len(comments) + 1
    OBVIOUS
  <2>1. /\ PostExists /\ talk[c].op = "comment" /\ talk[c].pc = "moderating"
        /\ UNCHANGED <<post, likes, reports, blocks, decisions>>
    BY <1>2 DEF InsertComment, Does
  <2>2. PICK verdict \in Verdicts :
          /\ comments' = Append(comments, [author |-> talk[c].user, reply |-> talk[c].reply,
                           status |-> verdict, verdict |-> verdict, stored |-> FALSE])
          /\ talk' = [talk EXCEPT ![c] = [@ EXCEPT !.pc = "counting", !.item = n,
                !.count = CountedComments + (IF verdict = "published" THEN 1 ELSE 0)]]
    BY <1>2 DEF InsertComment
  <2> PICK k : k = CountedComments + (IF verdict = "published" THEN 1 ELSE 0)
    OBVIOUS
  <2> DEFINE e == [author |-> talk[c].user, reply |-> talk[c].reply,
                   status |-> verdict, verdict |-> verdict, stored |-> FALSE]
  <2>3. e \in CommentTypes /\ ~e.stored /\ e.status = verdict
    BY DEF Types, TalkTyped, TalkTypes, CommentTypes, Verdicts, ModerationStatuses
  <2> HIDE DEF e
  <2>4. /\ comments' \in Seq(CommentTypes) /\ DOMAIN comments' = DOMAIN comments \cup {n}
        /\ n \in Nat \ {0} /\ n \notin DOMAIN comments /\ comments'[n] = e
        /\ \A m \in DOMAIN comments : comments'[m] = comments[m]
    BY <2>2, <2>3, CommentAdded DEF Types, e
  <2>5. CountedComments = Cardinality(Public) /\ Cardinality(Public) \in Nat
    BY PublicFinite, FS_CardinalityType DEF Types, CountedComments, Public
  <2>6. k \in Nat /\ k = Cardinality(Public) + (IF verdict = "published" THEN 1 ELSE 0)
    BY <2>5
  <2>7. talk' = [talk EXCEPT ![c] = [@ EXCEPT !.pc = "counting", !.item = n, !.count = k]]
    BY <2>2
  <2>8. /\ TalkMoves(c) /\ talk'[c].pc = "counting" /\ talk'[c].item = n /\ talk'[c].count = k
    <3>1. TalkTyped /\ n \in Nat /\ k \in Nat
      BY <2>4, <2>6 DEF Types
    <3> DEFINE next == [talk[c] EXCEPT !.pc = "counting", !.item = n, !.count = k]
    <3>2. /\ next \in TalkTypes /\ next.pc = "counting" /\ next.item = n /\ next.count = k
          /\ next.op = talk[c].op /\ next.user = talk[c].user
      <4>1. talk[c] \in TalkTypes
        BY <3>1 DEF TalkTyped
      <4> QED BY <3>1, <4>1 DEF TalkTypes, TalkSteps
    <3>3. talk' = [talk EXCEPT ![c] = next]
      BY <2>7
    <3> HIDE DEF next
    <3> QED BY <3>1, <3>2, <3>3 DEF TalkMoves, TalkTyped, Alone, SameTalk
  <2>9. Public' = Public /\ n \notin Public
    BY <2>3, <2>4 DEF Public, Counted, Visible
  <2>10. Counting' = Counting \cup {c} /\ c \notin Counting
         /\ \A d \in Counting : talk'[d] = talk[d]
    BY <2>1, <2>8 DEF Counting, TalkMoves, Alone
  <2>11. ASSUME NEW d \in Counting PROVE HoldsRow(d)' /\ talk'[d].item # n
    <3>1. HoldsRow(d) /\ talk'[d] = talk[d]
      BY <2>10 DEF Rows
    <3> QED BY <2>4, <2>9, <3>1 DEF HoldsRow, WillBePublic, ReviewStatusMatches
  <2>12. HoldsRow(c)'
    <3>1. talk'[c].op = "comment"
      BY <2>1, <2>8 DEF TalkMoves, SameTalk
    <3>2. Public' \ {n} = Public
      BY <2>9
    <3> QED BY <2>3, <2>4, <2>6, <2>8, <3>1, <3>2 DEF HoldsRow, WillBePublic
  <2>13. \A m \in DOMAIN comments' : ~comments'[m].stored => Locked(m)'
    <3>1. Locked(n)'
      BY <2>8, <2>10 DEF Locked
    <3>2. ASSUME NEW m \in DOMAIN comments, ~comments'[m].stored PROVE Locked(m)'
      <4>1. PICK d \in Counting : talk[d].item = m
        BY <2>4, <3>2 DEF Rows, Locked
      <4> QED BY <2>10, <4>1 DEF Locked
    <3> QED BY <2>4, <3>1, <3>2
  <2>14. Rows'
    BY <2>8, <2>10, <2>11, <2>12, <2>13 DEF Rows
  <2>15. Types'
    BY <2>1, <2>4, <2>8 DEF Types, RowsTyped, TalkMoves
  <2> QED BY <2>1, <2>9, <2>14, <2>15 DEF Exact
<1> QED BY <1>1, <1>2

\* A reviewer decides about a comment nobody else is counting.
LEMMA DecideRows ==
  ASSUME NEW c \in DiscussionCalls, Types, Rows, DecideComment(c)
  PROVE  TalkMoves(c) /\ Rows'
<1>1. /\ UNCHANGED <<post, comments, likes, reports, blocks, decisions>>
      /\ talk[c].op \in DecisionOps /\ talk[c].pc = "deciding" /\ ~Locked(talk[c].item)
  BY DEF DecideComment
<1>2. CASE Done(c)
  BY <1>1, <1>2, DoneCall, OrdinaryRows DEF Types, TalkMoves
<1>3. CASE ~Done(c)
  <2> PICK n : n = talk[c].item
    OBVIOUS
  <2> PICK k : k = Cardinality({m \in DOMAIN comments : Counted(m) /\ m # n})
                     + (IF talk[c].op = "approve" THEN 1 ELSE 0)
    OBVIOUS
  <2>1. /\ n \in DOMAIN comments /\ ReviewStatusMatches(c, comments[n].status)
        /\ talk' = [talk EXCEPT ![c].pc = "counting", ![c].count = k]
    BY <1>3 DEF DecideComment
  <2>2. k \in Nat
        /\ k = Cardinality(Public \ {n}) + (IF talk[c].op = "approve" THEN 1 ELSE 0)
    <3>1. Cardinality(Public \ {n}) \in Nat
          /\ {m \in DOMAIN comments : Counted(m) /\ m # n} = Public \ {n}
      BY OthersCounted DEF Types
    <3> QED BY <3>1
  <2>3. /\ TalkMoves(c) /\ talk'[c].pc = "counting" /\ talk'[c].item = n /\ talk'[c].count = k
        /\ talk'[c].reported = talk[c].reported
    BY <2>1, <2>2, DecidingCall DEF Types
  <2>4. comments[n].stored
    BY <1>1, <2>1, CommentTyped DEF Rows, Types, CommentTypes
  <2>5. Public' = Public
    BY <1>1 DEF Public, Counted, Visible
  <2>6. Counting' = Counting \cup {c} /\ c \notin Counting
        /\ \A d \in Counting : talk'[d] = talk[d]
    BY <1>1, <2>3 DEF Counting, TalkMoves, Alone
  <2>7. ASSUME NEW d \in Counting PROVE HoldsRow(d)' /\ talk'[d].item # n
    <3>1. HoldsRow(d) /\ talk'[d] = talk[d]
      BY <2>6 DEF Rows
    <3>2. talk[d].item # n
      BY <1>1 DEF Locked
    <3> QED BY <1>1, <2>5, <3>1, <3>2 DEF HoldsRow, WillBePublic, ReviewStatusMatches
  <2>8. HoldsRow(c)'
    <3>1. talk'[c].op = talk[c].op /\ talk[c].op # "comment"
      BY <1>1, <2>3 DEF TalkMoves, SameTalk, DecisionOps
    <3> QED BY <1>1, <2>1, <2>2, <2>3, <2>4, <2>5, <3>1
            DEF HoldsRow, WillBePublic, ReviewStatusMatches
  <2>9. \A m \in DOMAIN comments' : ~comments'[m].stored => Locked(m)'
    BY <1>1, <2>6 DEF Rows, Locked
  <2> QED BY <2>3, <2>6, <2>7, <2>8, <2>9 DEF Rows
<1> QED BY <1>2, <1>3

\* A commit publishes what its call has counted, and the other calls are
\* overtaken by it.
LEMMA CommitRows ==
  ASSUME NEW c \in Counting, Types, Rows,
         NEW e \in CommentTypes, e.stored, (e.status = "published") <=> WillBePublic(c),
         comments' = [comments EXCEPT ![talk[c].item] = e], Recount(c),
         NEW next \in TalkTypes, next.pc # "counting", Overtake(c, next)
  PROVE  /\ TalkTyped' /\ comments' \in Seq(CommentTypes)
         /\ post' \in PostTypes /\ post'.status = post.status /\ Rows'
         /\ post'.likeCount = post.likeCount /\ post'.content = post.content
         /\ post'.verdict = post.verdict
         /\ post'.recounted => post'.commentCount = Cardinality(Public')
         /\ DOMAIN comments' = DOMAIN comments /\ comments'[talk[c].item] = e
         /\ \A m \in DOMAIN comments : m # talk[c].item => comments'[m] = comments[m]
<1> DEFINE n == talk[c].item
<1>1. c \in DiscussionCalls /\ HoldsRow(c) /\ n \in DOMAIN comments
  BY DEF Rows, Counting, HoldsRow
<1>2. /\ comments' \in Seq(CommentTypes) /\ DOMAIN comments' = DOMAIN comments
      /\ comments'[n] = e
      /\ \A m \in DOMAIN comments : m # n => comments'[m] = comments[m]
  BY <1>1, CommentChanged DEF Types
<1> HIDE DEF n
<1>3. /\ TalkTyped' /\ Counting' = Counting \ {c}
      /\ \A d \in Counting : d # c =>
           /\ talk'[d].op = talk[d].op /\ talk'[d].item = talk[d].item
           /\ talk'[d].reported = talk[d].reported /\ talk'[d].overtaken
  BY <1>1, OvertakingCall DEF Types, Counting
<1>4. Public' = IF WillBePublic(c) THEN (Public \ {n}) \cup {n} ELSE Public \ {n}
  BY <1>1, <1>2 DEF Public, Counted, Visible
<1>5. ~talk[c].overtaken => talk[c].count = Cardinality(Public')
  <2>1. ~talk[c].overtaken => talk[c].count =
          Cardinality(Public \ {n}) + (IF WillBePublic(c) THEN 1 ELSE 0)
    BY <1>1 DEF HoldsRow, n
  <2>2. Cardinality(Public \ {n}) \in Nat
        /\ Cardinality((Public \ {n}) \cup {n}) = Cardinality(Public \ {n}) + 1
    BY OthersCounted DEF Types
  <2> QED BY <1>4, <2>1, <2>2
<1>6. /\ post' \in PostTypes /\ post'.status = post.status
      /\ post'.likeCount = post.likeCount /\ post'.content = post.content
      /\ post'.verdict = post.verdict
      /\ post'.commentCount = talk[c].count /\ post'.recounted = ~talk[c].overtaken
  <2>1. talk[c].count \in Nat /\ talk[c].overtaken \in BOOLEAN
    BY <1>1 DEF Types, TalkTyped, TalkTypes
  <2> QED BY <2>1 DEF Recount, Types, RowsTyped, PostTypes
<1>7. ASSUME NEW d \in Counting, d # c PROVE HoldsRow(d)'
  <2>1. HoldsRow(d) /\ talk[d].item # n
    BY <1>7 DEF Rows, n
  <2>2. talk'[d].op = talk[d].op /\ talk'[d].item = talk[d].item
        /\ talk'[d].reported = talk[d].reported /\ talk'[d].overtaken
    BY <1>3, <1>7
  <2>3. comments'[talk[d].item] = comments[talk[d].item]
    BY <1>2, <2>1 DEF HoldsRow
  <2> QED BY <1>2, <2>1, <2>2, <2>3 DEF HoldsRow, ReviewStatusMatches
<1>8. \A m \in DOMAIN comments' : ~comments'[m].stored => Locked(m)'
  <2>1. ASSUME NEW m \in DOMAIN comments, ~comments'[m].stored PROVE Locked(m)'
    <3>1. m # n
      BY <1>2, <2>1
    <3>2. PICK d \in Counting : talk[d].item = m
      BY <1>2, <2>1, <3>1 DEF Rows, Locked
    <3> QED BY <1>3, <3>1, <3>2 DEF Locked, n
  <2> QED BY <1>2, <2>1
<1>9. Rows'
  <2>1. \A a, b \in Counting' : talk'[a].item = talk'[b].item => a = b
    BY <1>3 DEF Rows
  <2> QED BY <1>3, <1>7, <1>8, <2>1 DEF Rows
<1> QED BY <1>2, <1>3, <1>5, <1>6, <1>9 DEF n

\* A decision makes a comment public exactly when it approves it.
LEMMA Approving ==
  ASSUME NEW op \in DecisionOps
  PROVE  StatusFor(op) \in ModerationStatuses /\ (StatusFor(op) = "published" <=> op = "approve")
  BY DEF StatusFor, DecisionOps, ModerationStatuses

\* A comment that was inserted is committed.
LEMMA CommitCommentRows ==
  ASSUME NEW c \in DiscussionCalls, Types, Rows, Exact, CommitComment(c)
  PROVE  /\ Types' /\ Rows' /\ Exact'
         /\ post'.status = post.status /\ post'.content = post.content
         /\ post'.verdict = post.verdict /\ DOMAIN comments' = DOMAIN comments
         /\ \A m \in DOMAIN comments : comments'[m].status = comments[m].status
                                       /\ comments'[m].verdict = comments[m].verdict
                                       /\ comments'[m].reply = comments[m].reply
<1> DEFINE n == talk[c].item
           e == [comments[n] EXCEPT !.stored = TRUE]
<1>1. /\ c \in Counting /\ talk[c].op = "comment" /\ Recount(c)
      /\ Overtake(c, FinishedTalk(c)) /\ comments' = [comments EXCEPT ![n].stored = TRUE]
      /\ UNCHANGED <<likes, reports, blocks, decisions>>
  BY DEF CommitComment, Does, Counting, FinishedTalk
<1>2. n \in DOMAIN comments /\ comments[n] \in CommentTypes
  BY <1>1, CommentTyped DEF Rows, HoldsRow, Types
<1>3. e \in CommentTypes /\ e.stored /\ e.status = comments[n].status
      /\ e.verdict = comments[n].verdict /\ e.reply = comments[n].reply
  BY <1>2 DEF CommentTypes
<1>4. comments' = [comments EXCEPT ![n] = e]
  BY <1>1, <1>2
<1>5. (e.status = "published") <=> WillBePublic(c)
  BY <1>1, <1>3 DEF WillBePublic
<1>6. FinishedTalk(c) \in TalkTypes /\ FinishedTalk(c).pc # "counting"
  BY CommittedCall DEF Types
<1> HIDE DEF e
<1>7. /\ TalkTyped' /\ comments' \in Seq(CommentTypes)
      /\ post' \in PostTypes /\ post'.status = post.status /\ Rows'
      /\ post'.likeCount = post.likeCount /\ post'.content = post.content
      /\ post'.verdict = post.verdict
      /\ post'.recounted => post'.commentCount = Cardinality(Public')
      /\ DOMAIN comments' = DOMAIN comments /\ comments'[n] = e
      /\ \A m \in DOMAIN comments : m # n => comments'[m] = comments[m]
  BY <1>1, <1>3, <1>4, <1>5, <1>6, CommitRows
<1>8. Types'
  BY <1>1, <1>7 DEF Types, RowsTyped
<1>9. Exact'
  BY <1>1, <1>7 DEF Exact
<1> QED BY <1>3, <1>7, <1>8, <1>9

\* A decision about a comment is committed.
LEMMA CommitDecisionRows ==
  ASSUME NEW c \in DiscussionCalls, Types, Rows, Exact, CommitDecision(c)
  PROVE  /\ Types' /\ Rows' /\ Exact'
         /\ post'.status = post.status /\ post'.content = post.content
         /\ post'.verdict = post.verdict /\ DOMAIN comments' = DOMAIN comments
         /\ \A m \in DOMAIN comments : comments'[m].verdict = comments[m].verdict
                                       /\ comments'[m].reply = comments[m].reply
         /\ comments'[talk[c].item].status = StatusFor(talk[c].op)
         /\ \A m \in DOMAIN comments : m # talk[c].item => comments'[m] = comments[m]
<1> DEFINE n == talk[c].item
           e == [comments[n] EXCEPT !.status = StatusFor(talk[c].op)]
<1>1. /\ c \in Counting /\ talk[c].op \in DecisionOps /\ Recount(c)
      /\ Overtake(c, SettledTalk(c))
      /\ comments' = [comments EXCEPT ![n].status = StatusFor(talk[c].op)]
      /\ UNCHANGED <<likes, reports, blocks>> /\ Decide(c)
  BY DEF CommitDecision, Counting, SettledTalk
<1>2. n \in DOMAIN comments /\ comments[n] \in CommentTypes /\ comments[n].stored
  BY <1>1, CommentTyped DEF Rows, HoldsRow, Types, DecisionOps
<1>3. e \in CommentTypes /\ e.stored /\ e.status = StatusFor(talk[c].op)
      /\ e.verdict = comments[n].verdict /\ e.reply = comments[n].reply
  BY <1>1, <1>2, Approving DEF CommentTypes
<1>4. comments' = [comments EXCEPT ![n] = e]
  BY <1>1, <1>2
<1>5. (e.status = "published") <=> WillBePublic(c)
  BY <1>1, <1>3, Approving DEF WillBePublic, DecisionOps
<1>6. SettledTalk(c) \in TalkTypes /\ SettledTalk(c).pc # "counting"
  BY CommittedCall DEF Types
<1> HIDE DEF e
<1>7. /\ TalkTyped' /\ comments' \in Seq(CommentTypes)
      /\ post' \in PostTypes /\ post'.status = post.status /\ Rows'
      /\ post'.likeCount = post.likeCount /\ post'.content = post.content
      /\ post'.verdict = post.verdict
      /\ post'.recounted => post'.commentCount = Cardinality(Public')
      /\ DOMAIN comments' = DOMAIN comments /\ comments'[n] = e
      /\ \A m \in DOMAIN comments : m # n => comments'[m] = comments[m]
  BY <1>1, <1>3, <1>4, <1>5, <1>6, CommitRows
<1>8. decisions' \subseteq DecisionTypes
  <2>1. n \in Nat
    BY <1>2, CommentTyped DEF Types
  <2> QED BY <1>1, <2>1 DEF Decide, Types, RowsTyped, PostTypes, DecisionTypes
<1>9. Types'
  BY <1>1, <1>7, <1>8 DEF Types, RowsTyped
<1>10. Exact'
  BY <1>1, <1>7 DEF Exact
<1> QED BY <1>3, <1>7, <1>9, <1>10

-----------------------------------------------------------------------------
(* Discussions: the steps that do not count comments. *)

\* What such a step leaves of the comments.
LEMMA OrdinaryTypes ==
  ASSUME NEW c \in DiscussionCalls, Types, Ordinary(c)
  PROVE  Types'
<1>1. TalkTyped'
  BY OrdinaryCall DEF TalkMoves
<1> USE DEF Types, RowsTyped
<1>2. talk[c] \in TalkTypes
  BY DEF TalkTyped
<1>3. CASE CreatePost(c)
  <2>1. PICK verdict \in Verdicts :
          post' = [post EXCEPT !.status = verdict, !.content = 1, !.verdict = verdict]
    BY <1>3 DEF CreatePost
  <2>2. post' \in PostTypes
    BY <2>1 DEF PostTypes, Verdicts, ModerationStatuses
  <2> QED BY <1>1, <1>3, <2>2 DEF CreatePost
<1>4. CASE ReadForEdit(c) \/ ReadForDeletion(c) \/ ReadForComment(c) \/ ReadForLike(c)
           \/ ReadForReport(c) \/ ReadForDecision(c)
  BY <1>1, <1>4 DEF ReadForEdit, ReadForDeletion, ReadForComment, ReadForLike,
                    ReadForReport, ReadForDecision
<1>5. CASE StoreEdit(c)
  <2>1. UNCHANGED post \/ \E verdict \in Verdicts :
          post' = [post EXCEPT !.status = verdict, !.content = @ + 1, !.verdict = verdict]
    BY <1>5 DEF StoreEdit, EditedStatus
  <2>2. ASSUME NEW verdict \in Verdicts,
               post' = [post EXCEPT !.status = verdict, !.content = @ + 1, !.verdict = verdict]
        PROVE  post' \in PostTypes
    <3>1. PICK n \in Nat : n = post.content + 1
      BY DEF PostTypes
    <3>2. post' = [post EXCEPT !.status = verdict, !.content = n, !.verdict = verdict]
      BY <2>2, <3>1
    <3> QED BY <3>2 DEF PostTypes, Verdicts, ModerationStatuses
  <2> QED BY <1>1, <1>5, <2>1, <2>2 DEF StoreEdit
<1>6. CASE DeletePost(c)
  <2>1. post' \in PostTypes
    BY <1>6 DEF DeletePost, PostTypes
  <2>2. comments' \in Seq(CommentTypes)
    BY <1>6, EmptySeq DEF DeletePost
  <2>3. likes' \subseteq Writers /\ IsFiniteSet(likes') /\ reports' \subseteq ReportTypes
    BY <1>6, FS_EmptySet DEF DeletePost
  <2> QED BY <1>1, <1>6, <2>1, <2>2, <2>3 DEF DeletePost
<1>7. CASE LikeDiscussion(c)
  <2>1. /\ UNCHANGED <<comments, reports, blocks, decisions>>
        /\ likes' \in {likes, likes \cup {talk[c].user}}
    BY <1>7 DEF LikeDiscussion
  <2>2. likes' \subseteq Writers /\ IsFiniteSet(likes')
    BY <1>2, <2>1, FS_AddElement DEF TalkTypes
  <2>3. post' \in PostTypes
    BY <1>7 DEF LikeDiscussion, NewLike, PostTypes
  <2> QED BY <1>1, <2>1, <2>2, <2>3
<1>8. CASE UnlikeDiscussion(c)
  <2>1. /\ UNCHANGED <<comments, reports, blocks, decisions>>
        /\ likes' \in {likes, likes \ {talk[c].user}}
    BY <1>8 DEF UnlikeDiscussion
  <2>2. likes' \subseteq Writers /\ IsFiniteSet(likes')
    <3>1. IsFiniteSet(likes \ {talk[c].user})
      BY FS_RemoveElement
    <3> QED BY <2>1, <3>1
  <2>3. post' \in PostTypes
    BY <1>8 DEF UnlikeDiscussion, PostTypes
  <2> QED BY <1>1, <2>1, <2>2, <2>3
<1>9. CASE StoreReport(c)
  BY <1>1, <1>2, <1>9 DEF StoreReport, ReportTypes, TalkTypes
<1>10. CASE BlockAuthor(c)
  <2>1. UNCHANGED <<post, comments, likes, reports, decisions>>
    BY <1>10 DEF BlockAuthor
  <2>2. talk[c].item \in {0} \cup DOMAIN comments => AuthorOf(talk[c].item) \in Writers
    BY PostAuthorAssumption, CommentTyped DEF AuthorOf, CommentTypes
  <2>3. talk[c].user \in Writers
    BY <1>2 DEF TalkTypes
  <2> QED BY <1>1, <1>10, <2>1, <2>2, <2>3 DEF BlockAuthor
<1>11. CASE UnblockAuthor(c)
  BY <1>1, <1>11 DEF UnblockAuthor
<1>12. CASE DecidePost(c)
  <2>1. talk[c].op \in DecisionOps /\ talk[c].item \in Nat
        /\ UNCHANGED <<comments, likes, reports, blocks>>
    BY <1>2, <1>12 DEF DecidePost, TalkTypes
  <2>2. post' \in PostTypes /\ decisions' \subseteq DecisionTypes
    BY <1>12, <2>1, Approving DEF DecidePost, Decide, PostTypes, DecisionTypes
  <2> QED BY <1>1, <2>1, <2>2
<1>13. CASE MarkReports(c)
  BY <1>1, <1>13 DEF MarkReports, ReportTypes, OpenReports
<1> QED BY <1>3, <1>4, <1>5, <1>6, <1>7, <1>8, <1>9, <1>10, <1>11, <1>12, <1>13 DEF Ordinary

\* Such a step keeps the counts.
LEMMA OrdinaryCounts ==
  ASSUME NEW c \in DiscussionCalls, Types, Rows, Exact, Ordinary(c)
  PROVE  Rows' /\ Exact'
<1>1. TalkMoves(c) /\ talk[c].pc # "counting" /\ talk'[c].pc # "counting"
  BY OrdinaryCall
<1>2. UNCHANGED comments => Rows'
  BY <1>1, OrdinaryRows DEF TalkMoves
<1>3. UNCHANGED comments => Public' = Public
  BY DEF Public, Counted, Visible
<1>4. post \in PostTypes /\ likes \subseteq Writers /\ IsFiniteSet(likes)
      /\ Cardinality(likes) \in Nat
  BY FS_CardinalityType DEF Types, RowsTyped
<1>5. CASE DeletePost(c)
  <2>1. CASE UNCHANGED <<post, comments, likes, reports>>
    BY <1>2, <1>3, <2>1 DEF Exact
  <2>2. CASE post' = [post EXCEPT !.status = "deleted"] /\ comments' = <<>>
    <3>1. Exact'
      BY <1>4, <2>2 DEF Exact, PostTypes
    <3>2. Counting' = {}
      BY <1>1, <1>5 DEF DeletePost, Counting, TalkMoves, Alone
    <3>3. DOMAIN comments' = {}
      BY <2>2
    <3> QED BY <3>1, <3>2, <3>3 DEF Rows
  <2> QED BY <1>5, <2>1, <2>2 DEF DeletePost
<1>6. CASE CreatePost(c) \/ StoreEdit(c) \/ DecidePost(c)
  <2>1. UNCHANGED <<comments, likes>>
    BY <1>6 DEF CreatePost, StoreEdit, DecidePost
  <2>2. /\ post'.likeCount = post.likeCount /\ post'.recounted = post.recounted
        /\ post'.commentCount = post.commentCount
        /\ post.status # "deleted" \/ UNCHANGED post
    BY <1>4, <1>6 DEF CreatePost, StoreEdit, DecidePost, PostTypes, PostExists
  <2> QED BY <1>2, <1>3, <2>1, <2>2 DEF Exact
<1>7. CASE LikeDiscussion(c)
  <2>1. UNCHANGED comments
    BY <1>7 DEF LikeDiscussion
  <2>2. CASE UNCHANGED <<likes, post>>
    BY <1>2, <1>3, <2>1, <2>2 DEF Exact
  <2>3. CASE /\ likes' = likes \cup {talk[c].user}
             /\ post' = [post EXCEPT !.likeCount = @ + NewLike(talk[c].user)]
    <3>1. Cardinality(likes') = Cardinality(likes) + NewLike(talk[c].user)
      <4>1. Cardinality(likes \cup {talk[c].user}) =
              IF talk[c].user \in likes THEN Cardinality(likes) ELSE Cardinality(likes) + 1
        BY <1>4, FS_AddElement
      <4> QED BY <1>4, <2>3, <4>1 DEF NewLike
    <3>2. post'.status = post.status /\ post'.likeCount = post.likeCount + NewLike(talk[c].user)
          /\ post'.recounted = post.recounted /\ post'.commentCount = post.commentCount
      BY <1>4, <2>3 DEF PostTypes
    <3> QED BY <1>2, <1>3, <2>1, <3>1, <3>2 DEF Exact
  <2> QED BY <1>7, <2>2, <2>3 DEF LikeDiscussion
<1>8. CASE UnlikeDiscussion(c)
  <2>1. UNCHANGED comments
    BY <1>8 DEF UnlikeDiscussion
  <2>2. CASE UNCHANGED <<likes, post>>
    BY <1>2, <1>3, <2>1, <2>2 DEF Exact
  <2>3. CASE /\ talk[c].user \in likes /\ likes' = likes \ {talk[c].user}
             /\ post' = [post EXCEPT !.likeCount = IF @ = 0 THEN 0 ELSE @ - 1]
    <3>1. Cardinality(likes') = Cardinality(likes) - 1 /\ Cardinality(likes') \in Nat
      BY <1>4, <2>3, FS_RemoveElement, FS_CardinalityType
    <3>2. post'.status = post.status
          /\ post'.likeCount = (IF post.likeCount = 0 THEN 0 ELSE post.likeCount - 1)
          /\ post'.recounted = post.recounted /\ post'.commentCount = post.commentCount
      BY <1>4, <2>3 DEF PostTypes
    <3> QED BY <1>2, <1>3, <1>4, <2>1, <3>1, <3>2 DEF Exact
  <2> QED BY <1>8, <2>2, <2>3 DEF UnlikeDiscussion
<1>9. CASE ReadForEdit(c) \/ ReadForDeletion(c) \/ ReadForComment(c) \/ ReadForLike(c)
           \/ ReadForReport(c) \/ ReadForDecision(c) \/ StoreReport(c) \/ BlockAuthor(c)
           \/ UnblockAuthor(c) \/ MarkReports(c)
  <2>1. UNCHANGED <<post, comments, likes>>
    BY <1>9 DEF ReadForEdit, ReadForDeletion, ReadForComment, ReadForLike, ReadForReport,
                ReadForDecision, StoreReport, BlockAuthor, UnblockAuthor, MarkReports
  <2> QED BY <1>2, <1>3, <2>1 DEF Exact
<1> QED BY <1>5, <1>6, <1>7, <1>8, <1>9 DEF Ordinary

\* The initial counts are exact.
LEMMA CountsInit == DiscussionInit => Rows /\ Exact
<1> SUFFICES ASSUME DiscussionInit PROVE Rows /\ Exact
  OBVIOUS
<1>1. Counting = {}
  BY DEF DiscussionInit, Counting
<1>2. DOMAIN comments = {} /\ Public = {}
  BY DEF DiscussionInit, Public
<1> QED BY <1>1, <1>2, FS_EmptySet DEF DiscussionInit, Rows, Exact

\* Every step keeps the types and the counts.
LEMMA CountsNext ==
  Types /\ Rows /\ Exact /\ [DiscussionNext]_discussionVars => Types' /\ Rows' /\ Exact'
<1> SUFFICES ASSUME Types, Rows, Exact, [DiscussionNext]_discussionVars
             PROVE  Types' /\ Rows' /\ Exact'
  OBVIOUS
<1>1. CASE UNCHANGED discussionVars
  <2>1. Types'
    BY <1>1 DEF discussionVars, Types, TalkTyped, RowsTyped
  <2>2. Public' = Public /\ Counting' = Counting
    BY <1>1 DEF discussionVars, Public, Counted, Visible, Counting
  <2>3. Rows'
    BY <1>1, <2>2 DEF discussionVars, Rows, HoldsRow, WillBePublic, ReviewStatusMatches, Locked
  <2> QED BY <1>1, <2>1, <2>2, <2>3 DEF discussionVars, Exact
<1>2. ASSUME NEW c \in DiscussionCalls, Ordinary(c) PROVE Types' /\ Rows' /\ Exact'
  BY <1>2, OrdinaryTypes, OrdinaryCounts
<1>3. ASSUME NEW c \in DiscussionCalls, InsertComment(c) PROVE Types' /\ Rows' /\ Exact'
  BY <1>3, InsertRows
<1>4. ASSUME NEW c \in DiscussionCalls, CommitComment(c) PROVE Types' /\ Rows' /\ Exact'
  BY <1>4, CommitCommentRows
<1>5. ASSUME NEW c \in DiscussionCalls, DecideComment(c) PROVE Types' /\ Rows' /\ Exact'
  <2>1. TalkMoves(c) /\ Rows' /\ UNCHANGED <<post, comments, likes, reports, blocks, decisions>>
    BY <1>5, DecideRows DEF DecideComment
  <2>2. Public' = Public
    BY <2>1 DEF Public, Counted, Visible
  <2> QED BY <2>1, <2>2 DEF TalkMoves, Types, RowsTyped, Exact
<1>6. ASSUME NEW c \in DiscussionCalls, CommitDecision(c) PROVE Types' /\ Rows' /\ Exact'
  BY <1>6, CommitDecisionRows
<1> QED BY <1>1, <1>2, <1>3, <1>4, <1>5, <1>6 DEF DiscussionNext, Ordinary

\* The counts of a post are the numbers of its likes and of its public
\* comments, unless the last transaction that counted had been overtaken.
THEOREM CountsAreExactAlways == DiscussionSpec => []CountsAreExact
<1>1. Types /\ Rows /\ Exact => CountsAreExact
  BY DEF Exact, CountsAreExact, PostExists, Public, Counted
<1> QED BY <1>1, TypesInit, CountsInit, CountsNext, PTL DEF DiscussionSpec

-----------------------------------------------------------------------------
(* Discussions: what is public was cleared. *)

\* A content that was rejected is not public and does not wait for a review,
\* and the content of a post is newer than the decisions on others.
PostCleared ==
    /\ post.status = "none" => post.content = 0
    /\ \A d \in decisions : d.item = 0 => d.content <= post.content
    /\ Decided(0, post.content, "reject") => post.status \notin {"published", "review_required"}
    /\ post.status = "published" =>
         post.verdict = "published" \/ Decided(0, post.content, "approve")

\* The same of comments; decisions are about comments that are there.
CommentsCleared ==
    /\ \A d \in decisions : d.item # 0 => d.item \in DOMAIN comments \/ post.status = "deleted"
    /\ \A n \in DOMAIN comments :
         /\ Decided(n, 0, "reject") => comments[n].status \notin {"published", "review_required"}
         /\ comments[n].status = "published" =>
              comments[n].verdict = "published" \/ Decided(n, 0, "approve")

Cleared == PostCleared /\ CommentsCleared

\* A decision on record is one of the earlier ones or the one a call takes.
LEMMA DecisionAdded ==
  ASSUME NEW c \in DiscussionCalls, Decide(c), NEW n, NEW content, NEW action
  PROVE  Decided(n, content, action)' <=>
           \/ Decided(n, content, action)
           \/ /\ n = talk[c].item /\ action = talk[c].op
              /\ content = IF talk[c].item = 0 THEN post.content ELSE 0
  BY DEF Decide, Decided

\* Steps that neither edit, review nor decide.
LEMMA ClearedStays ==
  ASSUME Cleared, UNCHANGED decisions, DOMAIN comments' = DOMAIN comments,
         \A n \in DOMAIN comments : /\ comments'[n].status = comments[n].status
                                    /\ comments'[n].verdict = comments[n].verdict,
         post'.status = post.status, post'.content = post.content,
         post'.verdict = post.verdict
  PROVE  Cleared'
  BY DEF Cleared, PostCleared, CommentsCleared, Decided

\* What is stored by the author or decided by a reviewer is cleared.
LEMMA OrdinaryCleared ==
  ASSUME NEW c \in DiscussionCalls, Types, Cleared, Ordinary(c)
  PROVE  Cleared'
<1>1. /\ post \in PostTypes /\ decisions \subseteq DecisionTypes
      /\ 0 \notin DOMAIN comments
  BY LenProperties DEF Types, RowsTyped
<1>2. ASSUME UNCHANGED <<comments, decisions>>,
             post'.status \in {post.status, "deleted"} PROVE CommentsCleared'
  BY <1>2 DEF Cleared, CommentsCleared, Decided
<1>3. ASSUME UNCHANGED decisions, post'.content = post.content + 1,
             post'.status # "none", post'.status = post'.verdict
      PROVE  PostCleared'
  <2>1. post'.content \in Nat /\ post.content < post'.content
    BY <1>1, <1>3 DEF PostTypes
  <2>2. ASSUME NEW d \in decisions, d.item = 0 PROVE d.content < post'.content
    <3>1. d.content \in Nat /\ post.content \in Nat /\ d.content <= post.content
      BY <1>1, <2>2 DEF Cleared, PostCleared, DecisionTypes, PostTypes
    <3> QED BY <2>1, <3>1
  <2>3. \A d \in decisions : d.item = 0 => d.content <= post'.content
    <3>1. \A d \in decisions : d.content \in Nat
      BY <1>1 DEF DecisionTypes
    <3> QED BY <2>1, <2>2, <3>1
  <2>4. \A action : [item |-> 0, content |-> post'.content, action |-> action] \notin decisions
    BY <2>1, <2>2
  <2> QED BY <1>3, <2>3, <2>4 DEF PostCleared, Decided
<1>4. CASE CreatePost(c)
  <2>1. PICK verdict \in Verdicts :
          post' = [post EXCEPT !.status = verdict, !.content = 1, !.verdict = verdict]
    BY <1>4 DEF CreatePost
  <2>2. post'.status = verdict /\ post'.verdict = verdict /\ post'.content = post.content + 1
        /\ verdict # "none"
    <3>1. post.content = 0
      BY <1>4 DEF CreatePost, Cleared, PostCleared
    <3> QED BY <1>1, <2>1, <3>1 DEF PostTypes, Verdicts
  <2>3. CommentsCleared'
    BY <1>4 DEF CreatePost, Cleared, CommentsCleared, Decided
  <2> QED BY <1>3, <1>4, <2>2, <2>3 DEF CreatePost, Cleared
<1>5. CASE StoreEdit(c)
  <2>1. CASE UNCHANGED post
    BY <1>5, <2>1, ClearedStays DEF StoreEdit
  <2>2. CASE PostExists /\ ~UNCHANGED post
    <3>1. PICK verdict \in Verdicts :
            post' = [post EXCEPT !.status = verdict, !.content = @ + 1, !.verdict = verdict]
      BY <1>5, <2>2 DEF StoreEdit, EditedStatus
    <3>2. post'.status = verdict /\ post'.verdict = verdict
          /\ post'.content = post.content + 1 /\ verdict # "none"
      BY <1>1, <3>1 DEF PostTypes, Verdicts
    <3>3. CommentsCleared'
      BY <1>5, <2>2 DEF StoreEdit, PostExists, Cleared, CommentsCleared, Decided
    <3> QED BY <1>3, <1>5, <3>2, <3>3 DEF StoreEdit, Cleared
  <2> QED BY <1>5, <2>1, <2>2 DEF StoreEdit
<1>6. CASE DeletePost(c)
  <2>1. CASE UNCHANGED <<post, comments>>
    BY <1>6, <2>1, ClearedStays DEF DeletePost
  <2>2. CASE post' = [post EXCEPT !.status = "deleted"] /\ comments' = <<>>
    <3>1. post'.status = "deleted" /\ post'.content = post.content /\ DOMAIN comments' = {}
      BY <1>1, <2>2 DEF PostTypes
    <3> QED BY <1>6, <3>1 DEF DeletePost, Cleared, PostCleared, CommentsCleared
  <2> QED BY <1>6, <2>1, <2>2 DEF DeletePost
<1>7. CASE DecidePost(c)
  <2>1. CASE UNCHANGED <<post, decisions>>
    BY <1>7, <2>1, ClearedStays DEF DecidePost
  <2>2. CASE ~UNCHANGED <<post, decisions>>
    <3>1. /\ PostExists /\ ReviewStatusMatches(c, post.status) /\ talk[c].item = 0
          /\ post' = [post EXCEPT !.status = StatusFor(talk[c].op)] /\ Decide(c)
          /\ talk[c].op \in DecisionOps /\ UNCHANGED comments
      BY <1>7, <2>2 DEF DecidePost
    <3>2. post'.status = StatusFor(talk[c].op) /\ post'.content = post.content
          /\ post'.verdict = post.verdict /\ post'.content \in Nat
      BY <1>1, <3>1 DEF PostTypes
    <3>3. ~Decided(0, post.content, "reject")
      BY <3>1 DEF ReviewStatusMatches, Cleared, PostCleared
    <3>4. \A action : Decided(0, post.content, action)' <=>
                        Decided(0, post.content, action) \/ action = talk[c].op
      <4> SUFFICES ASSUME NEW action
                   PROVE  Decided(0, post.content, action)' <=>
                            Decided(0, post.content, action) \/ action = talk[c].op
        OBVIOUS
      <4>1. PICK v : v = post.content
        OBVIOUS
      <4>2. Decided(0, v, action)' <=> Decided(0, v, action) \/ action = talk[c].op
        BY <3>1, <4>1, DecisionAdded
      <4> QED BY <3>2, <4>1, <4>2 DEF Decided
    <3>5. \A n \in DOMAIN comments : \A action :
            Decided(n, 0, action)' <=> Decided(n, 0, action)
      BY <1>1, <3>1, DecisionAdded
    <3>6. CommentsCleared'
      <4>1. \A d \in decisions' :
              d.item # 0 => d.item \in DOMAIN comments' \/ post'.status = "deleted"
        BY <3>1 DEF Decide, Cleared, CommentsCleared, PostExists
      <4> QED BY <3>1, <3>5, <4>1 DEF Cleared, CommentsCleared
    <3>7. PostCleared'
      <4>1. \A d \in decisions' : d.item = 0 => d.content <= post'.content
        BY <3>1, <3>2 DEF Decide, Cleared, PostCleared
      <4>2. CASE talk[c].op = "approve"
        BY <3>2, <3>3, <3>4, <4>1, <4>2 DEF PostCleared, StatusFor, Decided
      <4>3. CASE talk[c].op \in {"reject", "requestEdit"}
        <5>1. post'.status \in {"blocked", "needs_edit"}
          BY <3>2, <4>3 DEF StatusFor
        <5> QED BY <4>1, <5>1 DEF PostCleared
      <4> QED BY <3>1, <4>2, <4>3 DEF DecisionOps
    <3> QED BY <3>6, <3>7 DEF Cleared
  <2> QED BY <2>1, <2>2
<1>8. CASE LikeDiscussion(c) \/ UnlikeDiscussion(c)
  <2>1. UNCHANGED <<comments, decisions>>
    BY <1>8 DEF LikeDiscussion, UnlikeDiscussion
  <2>2. post'.status = post.status /\ post'.content = post.content
        /\ post'.verdict = post.verdict
    BY <1>1, <1>8 DEF LikeDiscussion, UnlikeDiscussion, PostTypes
  <2> QED BY <2>1, <2>2, ClearedStays
<1>9. CASE ReadForEdit(c) \/ ReadForDeletion(c) \/ ReadForComment(c) \/ ReadForLike(c)
           \/ ReadForReport(c) \/ ReadForDecision(c) \/ StoreReport(c) \/ BlockAuthor(c)
           \/ UnblockAuthor(c) \/ MarkReports(c)
  <2>1. UNCHANGED <<post, comments, decisions>>
    BY <1>9 DEF ReadForEdit, ReadForDeletion, ReadForComment, ReadForLike, ReadForReport,
                ReadForDecision, StoreReport, BlockAuthor, UnblockAuthor, MarkReports
  <2> QED BY <2>1, ClearedStays
<1> QED BY <1>4, <1>5, <1>6, <1>7, <1>8, <1>9 DEF Ordinary

\* A new comment is public when the moderation allows it.
LEMMA InsertCleared ==
  ASSUME NEW c \in DiscussionCalls, Types, Cleared, InsertComment(c)
  PROVE  Cleared'
<1>1. UNCHANGED <<post, decisions>>
  BY DEF InsertComment
<1>2. CASE UNCHANGED comments
  BY <1>1, <1>2, ClearedStays
<1>3. CASE ~UNCHANGED comments
  <2>1. PICK verdict \in Verdicts :
          comments' = Append(comments, [author |-> talk[c].user, reply |-> talk[c].reply,
                           status |-> verdict, verdict |-> verdict, stored |-> FALSE])
    BY <1>3 DEF InsertComment
  <2> DEFINE e == [author |-> talk[c].user, reply |-> talk[c].reply,
                   status |-> verdict, verdict |-> verdict, stored |-> FALSE]
  <2>2. e \in CommentTypes /\ e.status = e.verdict
    BY DEF Types, TalkTyped, TalkTypes, CommentTypes, Verdicts, ModerationStatuses
  <2> HIDE DEF e
  <2> PICK n : n = Len(comments) + 1
    OBVIOUS
  <2>3. /\ DOMAIN comments' = DOMAIN comments \cup {n} /\ n \in Nat \ {0}
        /\ n \notin DOMAIN comments /\ comments'[n] = e
        /\ \A m \in DOMAIN comments : comments'[m] = comments[m]
    BY <2>1, <2>2, CommentAdded DEF Types, e
  <2>4. ~Decided(n, 0, "reject")
    <3>1. PostExists
      BY <1>3 DEF InsertComment
    <3> QED BY <2>3, <3>1 DEF Decided, Cleared, CommentsCleared, PostExists
  <2> QED BY <1>1, <2>2, <2>3, <2>4
          DEF Cleared, PostCleared, CommentsCleared, Decided
<1> QED BY <1>2, <1>3

\* A decision clears the comment it is about, or takes it away.
LEMMA DecisionCleared ==
  ASSUME NEW c \in DiscussionCalls, Types, Rows, Exact, Cleared, CommitDecision(c)
  PROVE  Cleared'
<1> PICK n : n = talk[c].item
  OBVIOUS
<1>1. /\ c \in Counting /\ talk[c].op \in DecisionOps /\ Decide(c)
  BY DEF CommitDecision, Counting
<1>2. /\ n \in DOMAIN comments /\ n # 0 /\ ReviewStatusMatches(c, comments[n].status)
  BY <1>1, CommentTyped DEF Rows, HoldsRow, Types, DecisionOps
<1>3. /\ post'.status = post.status /\ post'.content = post.content
      /\ post'.verdict = post.verdict /\ DOMAIN comments' = DOMAIN comments
      /\ \A m \in DOMAIN comments : comments'[m].verdict = comments[m].verdict
      /\ comments'[n].status = StatusFor(talk[c].op)
      /\ \A m \in DOMAIN comments : m # n => comments'[m] = comments[m]
  BY CommitDecisionRows
<1>4. ~Decided(n, 0, "reject")
  BY <1>2 DEF ReviewStatusMatches, Cleared, CommentsCleared
<1>5. \A m, content, action : Decided(m, content, action)' <=>
        Decided(m, content, action) \/ (m = n /\ content = 0 /\ action = talk[c].op)
  BY <1>1, <1>2, DecisionAdded
<1>6. PostCleared'
  <2>1. \A d \in decisions' : d.item = 0 => d.content <= post.content
    BY <1>1, <1>2 DEF Decide, Cleared, PostCleared
  <2>2. \A action : Decided(0, post.content, action)' <=> Decided(0, post.content, action)
    <3> PICK v : v = post.content
      OBVIOUS
    <3>1. \A action : Decided(0, v, action)' <=> Decided(0, v, action)
      BY <1>2, <1>5
    <3> QED BY <1>3, <3>1 DEF Decided
  <2> QED BY <1>3, <2>1, <2>2 DEF Cleared, PostCleared
<1>7. ASSUME NEW m \in DOMAIN comments
      PROVE  /\ Decided(m, 0, "reject")' =>
                  comments'[m].status \notin {"published", "review_required"}
             /\ comments'[m].status = "published" =>
                  comments'[m].verdict = "published" \/ Decided(m, 0, "approve")'
  <2>1. CASE m = n
    BY <1>1, <1>3, <1>4, <1>5, <2>1 DEF StatusFor, DecisionOps
  <2>2. CASE m # n
    BY <1>3, <1>5, <2>2 DEF Cleared, CommentsCleared
  <2> QED BY <2>1, <2>2
<1>8. \A d \in decisions' : d.item # 0 => d.item \in DOMAIN comments' \/ post'.status = "deleted"
  BY <1>1, <1>2, <1>3 DEF Decide, Cleared, CommentsCleared
<1> QED BY <1>3, <1>6, <1>7, <1>8 DEF Cleared, CommentsCleared

\* Every step keeps what is public cleared.
LEMMA ClearedNext ==
  ASSUME Types, Rows, Exact, Cleared, [DiscussionNext]_discussionVars
  PROVE  Cleared'
<1>1. CASE UNCHANGED discussionVars
  BY <1>1, ClearedStays DEF discussionVars
<1>2. ASSUME NEW c \in DiscussionCalls, Ordinary(c) PROVE Cleared'
  BY <1>2, OrdinaryCleared
<1>3. ASSUME NEW c \in DiscussionCalls, InsertComment(c) PROVE Cleared'
  BY <1>3, InsertCleared
<1>4. ASSUME NEW c \in DiscussionCalls, CommitComment(c) PROVE Cleared'
  <2>1. UNCHANGED decisions
    BY <1>4 DEF CommitComment
  <2> QED BY <1>4, <2>1, CommitCommentRows, ClearedStays
<1>5. ASSUME NEW c \in DiscussionCalls, DecideComment(c) PROVE Cleared'
  <2>1. UNCHANGED <<post, comments, decisions>>
    BY <1>5 DEF DecideComment
  <2> QED BY <2>1, ClearedStays
<1>6. ASSUME NEW c \in DiscussionCalls, CommitDecision(c) PROVE Cleared'
  BY <1>6, DecisionCleared
<1> QED BY <1>1, <1>2, <1>3, <1>4, <1>5, <1>6 DEF DiscussionNext, Ordinary

\* Nothing is public at first.
LEMMA ClearedInit == DiscussionInit => Cleared
  BY DEF DiscussionInit, Cleared, PostCleared, CommentsCleared, Decided

\* What is public was allowed by the moderation as it is now or approved by a
\* reviewer, and no reviewer has rejected it, however edits, reports and
\* reviewers overlap.
THEOREM PublicContentIsCleared == DiscussionSpec => []OnlyClearedContentIsPublic
<1>1. Cleared => OnlyClearedContentIsPublic
  BY DEF Cleared, PostCleared, CommentsCleared, OnlyClearedContentIsPublic
<1> QED
  BY <1>1, TypesInit, CountsInit, ClearedInit, CountsNext, ClearedNext, PTL DEF DiscussionSpec

-----------------------------------------------------------------------------
(* Discussions: the type invariant. *)

OneReport == \A r, s \in reports : r.item = s.item /\ r.by = s.by => r = s

RepliesBelow == \A n \in DOMAIN comments : comments[n].reply \in 0..(n - 1)

LikesBelow == post.likeCount <= Cardinality(Writers)

Bounds == OneReport /\ RepliesBelow /\ LikesBelow

\* A report that is stored is the only one of its user and item, and one that
\* was reviewed is the same report.
LEMMA ReportsNext ==
  ASSUME Types, OneReport, DiscussionNext
  PROVE  OneReport'
<1>1. PICK d \in DiscussionCalls :
        \/ UNCHANGED reports \/ reports' = {}
        \/ StoreReport(d) \/ MarkReports(d)
  BY DEF DiscussionNext, CreatePost, ReadForEdit, StoreEdit, ReadForDeletion, DeletePost,
         ReadForComment, InsertComment, CommitComment, ReadForLike, LikeDiscussion,
         UnlikeDiscussion, ReadForReport, BlockAuthor, UnblockAuthor, ReadForDecision,
         DecidePost, DecideComment, CommitDecision
<1>2. CASE UNCHANGED reports \/ reports' = {}
  BY <1>2 DEF OneReport
<1>3. CASE StoreReport(d)
  BY <1>3 DEF StoreReport, Reported, ReportOf, OneReport
<1>4. CASE MarkReports(d)
  <2>1. ASSUME NEW r \in reports' PROVE
          \E o \in reports : /\ r.item = o.item /\ r.by = o.by
                             /\ r = o \/ r = [o EXCEPT !.status = "reviewed"]
                             /\ o \in OpenReports(talk[d].item) /\ talk[d].reported => r # o
                             /\ ~(o \in OpenReports(talk[d].item) /\ talk[d].reported) => r = o
    BY <1>4, <2>1 DEF MarkReports, OpenReports, Types, RowsTyped, ReportTypes
  <2> QED BY <2>1 DEF OneReport
<1> QED BY <1>1, <1>2, <1>3, <1>4

\* Whoever replies, replies to an earlier comment.
LEMMA RepliesNext ==
  ASSUME Types, Rows, Exact, RepliesBelow, DiscussionNext
  PROVE  RepliesBelow'
<1>1. ASSUME NEW c \in DiscussionCalls, InsertComment(c) PROVE RepliesBelow'
  <2>1. CASE UNCHANGED comments
    BY <2>1 DEF RepliesBelow
  <2>2. CASE ~UNCHANGED comments
    <3>1. PICK verdict \in Verdicts :
            comments' = Append(comments, [author |-> talk[c].user, reply |-> talk[c].reply,
                             status |-> verdict, verdict |-> verdict, stored |-> FALSE])
      BY <1>1, <2>2 DEF InsertComment
    <3> DEFINE e == [author |-> talk[c].user, reply |-> talk[c].reply,
                     status |-> verdict, verdict |-> verdict, stored |-> FALSE]
    <3>2. e \in CommentTypes /\ e.reply = talk[c].reply
      BY DEF Types, TalkTyped, TalkTypes, CommentTypes, Verdicts, ModerationStatuses
    <3> HIDE DEF e
    <3> PICK n : n = Len(comments) + 1
      OBVIOUS
    <3>3. /\ DOMAIN comments' = DOMAIN comments \cup {n} /\ comments'[n] = e
          /\ \A m \in DOMAIN comments : comments'[m] = comments[m]
      BY <3>1, <3>2, CommentAdded DEF Types, e
    <3>4. talk[c].reply \in 0..(n - 1)
      <4>1. DOMAIN comments = 1..Len(comments) /\ Len(comments) \in Nat
        BY LenProperties DEF Types, RowsTyped
      <4>2. talk[c].reply \in {0} \cup DOMAIN comments
        BY <1>1, <2>2 DEF InsertComment
      <4> QED BY <4>1, <4>2
    <3> QED BY <3>2, <3>3, <3>4 DEF RepliesBelow
  <2> QED BY <2>1, <2>2
<1>2. ASSUME NEW c \in DiscussionCalls, CommitComment(c) PROVE RepliesBelow'
  BY <1>2, CommitCommentRows DEF RepliesBelow
<1>3. ASSUME NEW c \in DiscussionCalls, CommitDecision(c) PROVE RepliesBelow'
  BY <1>3, CommitDecisionRows DEF RepliesBelow
<1>4. CASE UNCHANGED comments
  BY <1>4 DEF RepliesBelow
<1>5. CASE comments' = <<>>
  BY <1>5 DEF RepliesBelow
<1> QED
  BY <1>1, <1>2, <1>3, <1>4, <1>5
  DEF DiscussionNext, CreatePost, ReadForEdit, StoreEdit, ReadForDeletion, DeletePost,
      ReadForComment, ReadForLike, LikeDiscussion, UnlikeDiscussion, ReadForReport,
      StoreReport, BlockAuthor, UnblockAuthor, ReadForDecision, DecidePost, DecideComment,
      MarkReports

\* There are no more likes than writers.
LEMMA LikesNext ==
  ASSUME IsFiniteSet(Writers), Types, Rows, Exact, LikesBelow, DiscussionNext
  PROVE  LikesBelow'
<1>1. post'.status # "deleted" => LikesBelow'
  <2>1. Types' /\ Exact'
    BY CountsNext
  <2>2. Cardinality(likes') <= Cardinality(Writers)
    BY <2>1, FS_Subset DEF Types, RowsTyped
  <2> QED BY <2>1, <2>2 DEF Exact, LikesBelow
<1>2. post \in PostTypes
  BY DEF Types, RowsTyped
<1>3. post'.status = "deleted" => post'.likeCount <= post.likeCount
  <2> SUFFICES ASSUME post'.status = "deleted" PROVE post'.likeCount <= post.likeCount
    OBVIOUS
  <2>1. PICK c \in DiscussionCalls :
          \/ post'.likeCount = post.likeCount
          \/ UnlikeDiscussion(c)
    <3>1. ASSUME NEW c \in DiscussionCalls, CommitComment(c) \/ CommitDecision(c)
          PROVE  post'.likeCount = post.likeCount
      BY <1>2, <3>1 DEF CommitComment, CommitDecision, Recount, PostTypes
    <3>2. ASSUME NEW c \in DiscussionCalls, CreatePost(c) \/ StoreEdit(c) \/ DeletePost(c)
                                            \/ DecidePost(c)
          PROVE  post'.likeCount = post.likeCount
      BY <1>2, <3>2 DEF CreatePost, StoreEdit, DeletePost, DecidePost, PostTypes
    <3>3. ASSUME NEW c \in DiscussionCalls, LikeDiscussion(c)
          PROVE  post'.likeCount = post.likeCount
      BY <1>2, <3>3 DEF LikeDiscussion, PostTypes, PostExists
    <3> QED BY <3>1, <3>2, <3>3 DEF DiscussionNext, ReadForEdit, ReadForDeletion,
               ReadForComment, InsertComment, ReadForLike, ReadForReport, StoreReport,
               BlockAuthor, UnblockAuthor, ReadForDecision, DecideComment, MarkReports
  <2>2. CASE UnlikeDiscussion(c)
    BY <1>2, <2>2 DEF UnlikeDiscussion, PostTypes
  <2> QED BY <1>2, <2>1, <2>2 DEF PostTypes
<1>4. Cardinality(Writers) \in Nat /\ post.likeCount \in Nat
  BY <1>2, FS_CardinalityType DEF PostTypes
<1>5. post'.likeCount \in Nat
  BY CountsNext DEF Types, RowsTyped, PostTypes
<1> QED BY <1>1, <1>3, <1>4, <1>5 DEF LikesBelow

\* The variables keep their types, a user reports an item once at most, and
\* replies go to earlier comments.
THEOREM DiscussionTypesHold ==
  ASSUME IsFiniteSet(Writers)
  PROVE  DiscussionSpec => []DiscussionTypeOK
<1>1. DiscussionInit => Bounds
  BY FS_CardinalityType DEF DiscussionInit, Bounds, OneReport, RepliesBelow, LikesBelow
<1>2. Types /\ Rows /\ Exact /\ Bounds /\ [DiscussionNext]_discussionVars => Bounds'
  <2> SUFFICES ASSUME Types, Rows, Exact, Bounds, [DiscussionNext]_discussionVars
               PROVE  Bounds'
    OBVIOUS
  <2>1. CASE DiscussionNext
    BY <2>1, ReportsNext, RepliesNext, LikesNext DEF Bounds
  <2>2. CASE UNCHANGED discussionVars
    BY <2>2 DEF discussionVars, Bounds, OneReport, RepliesBelow, LikesBelow
  <2> QED BY <2>1, <2>2
<1>3. Types /\ Bounds => DiscussionTypeOK
  <2> SUFFICES ASSUME Types, Bounds PROVE DiscussionTypeOK
    OBVIOUS
  <2>1. Cardinality(Writers) \in Nat
    BY FS_CardinalityType
  <2>2. \A r \in reports : ReportOf(r.item, r.by) = {r}
    BY DEF Bounds, OneReport, ReportOf
  <2>3. \A n \in DOMAIN comments : comments[n].status \in ModerationStatuses
    BY CommentTyped DEF Types, CommentTypes
  <2>4. \A n \in DOMAIN comments : comments[n].reply \in 0..(n - 1)
    BY DEF Bounds, RepliesBelow
  <2>5. /\ post.status \in ModerationStatuses \cup {"none", "deleted"}
        /\ post.content \in Nat /\ post.commentCount \in Nat /\ post.likeCount \in Nat
        /\ post.likeCount <= Cardinality(Writers)
        /\ likes \subseteq Writers /\ blocks \subseteq Writers \X Writers
    BY DEF Types, RowsTyped, PostTypes, Bounds, LikesBelow
  <2>6. post.likeCount \in 0..Cardinality(Writers)
    BY <2>1, <2>5
  <2> QED BY <2>2, <2>3, <2>4, <2>5, <2>6 DEF DiscussionTypeOK
<1> QED BY <1>1, <1>2, <1>3, TypesInit, CountsInit, CountsNext, PTL DEF DiscussionSpec

-----------------------------------------------------------------------------
(* PollDrafts: types and what is known of a call. *)

RowStatuses == {"none", "draft", "active", "closed"}

Moderations == {"none", "draft", "moderation_pending"} \cup ModerationOutcomes \cup ReviewOutcomes

DraftRows == [status : RowStatuses, policy : DraftCalls \cup {NoContent},
              hash : SUBSET DraftCalls, moderation : Moderations]

CallRecords ==
    [pc : {"idle", "inserting", "reading", "updating", "moderating", "deleting", "done"},
     op : DraftOps \cup {"none"}, status : {"none", "draft", "active"},
     row : DraftCalls \cup {NoContent}, options : SUBSET DraftCalls,
     unread : SUBSET {"row", "options", "editable"}]

\* What a call is about to write is a policy with options: it has read the
\* row, or brings its own.
Prepared(r) ==
    /\ r.pc \in {"updating", "moderating"} => r.row \in DraftCalls
    /\ r.pc = "reading" /\ "row" \notin r.unread => r.row \in DraftCalls
    /\ r.pc = "moderating" => r.options # {}
    /\ r.pc = "inserting" /\ r.op = "create" => r.row \in DraftCalls /\ r.options # {}
    /\ r.pc \in {"updating", "deleting"} => r.op = "update"

GoodCalls == {r \in CallRecords : Prepared(r)}

\* The inductive invariant.
DraftInv ==
    /\ draft \in DraftRows
    /\ draftOptions \subseteq DraftCalls
    /\ draftCall \in [DraftCalls -> GoodCalls]
    /\ cleared \subseteq [policy : DraftCalls, hash : SUBSET DraftCalls]
    /\ draft.status # "none" => draft.policy \in DraftCalls
    /\ \A c \in DraftCalls : draftCall[c].pc = "reading" => draft.status # "none"
    /\ PublishedPollsAreCleared

-----------------------------------------------------------------------------
USE DraftCallsAssumption DEF NoContent

\* Before a call and after it there is nothing to write.
LEMMA RestingCalls == IdleCall \in GoodCalls /\ FinishedCall \in GoodCalls
BY DEF IdleCall, FinishedCall, GoodCalls, CallRecords, Prepared, DraftOps

LEMMA DraftInvInit == DraftInit => DraftInv
BY RestingCalls DEF DraftInit, DraftInv, DraftRows, RowStatuses, Moderations,
                    PublishedPollsAreCleared, IsPublished, IdleCall

\* updateById writes the row it is given or ends the call, and a published
\* poll stays published, with its policy and its hash.
LEMMA UpdateKeepsInv ==
    ASSUME DraftInv, NEW c \in DraftCalls, NEW row \in DraftRows, NEW next \in GoodCalls,
           UpdateById(c, row, next), UNCHANGED draftOptions,
           row.status \in {"draft", "active"}, row.policy \in DraftCalls,
           next.pc # "reading",
           cleared \subseteq cleared',
           cleared' \subseteq [policy : DraftCalls, hash : SUBSET DraftCalls],
           row.status = "active" =>
             /\ [policy |-> row.policy, hash |-> row.hash] \in cleared'
             /\ row.moderation = "published"
    PROVE  DraftInv'
<1>1. CASE PollMayBecome(row)
  <2>1. draft' = row /\ draftCall' = [draftCall EXCEPT ![c] = next]
    BY <1>1 DEF UpdateById
  <2>2. draftCall' \in [DraftCalls -> GoodCalls]
    BY <2>1 DEF DraftInv
  <2>3. PublishedPollsAreCleared'
    BY <2>1 DEF PublishedPollsAreCleared, IsPublished
  <2> QED
    BY <2>1, <2>2, <2>3 DEF DraftInv
<1>2. CASE ~PollMayBecome(row)
  <2>1. draft' = draft /\ draftCall' = [draftCall EXCEPT ![c] = FinishedCall]
    BY <1>2 DEF UpdateById
  <2>2. draftCall' \in [DraftCalls -> GoodCalls]
    BY <2>1, RestingCalls DEF DraftInv
  <2>3. PublishedPollsAreCleared'
    BY <2>1 DEF DraftInv, PublishedPollsAreCleared, IsPublished
  <2>4. FinishedCall.pc # "reading"
    BY DEF FinishedCall, IdleCall
  <2> QED
    BY <2>1, <2>2, <2>3, <2>4 DEF DraftInv
<1> QED
  BY <1>1, <1>2

\* A step of a call that leaves the row alone keeps the invariant.
LEMMA CallStepKeepsInv ==
    ASSUME DraftInv, NEW c \in DraftCalls, NEW r \in GoodCalls,
           draftCall' = [draftCall EXCEPT ![c] = r],
           r.pc = "reading" => draft.status # "none",
           UNCHANGED <<draft, cleared>>, draftOptions' \subseteq DraftCalls
    PROVE  DraftInv'
<1>1. draftCall' \in [DraftCalls -> GoodCalls]
  BY DEF DraftInv
<1>2. PublishedPollsAreCleared'
  BY DEF DraftInv, PublishedPollsAreCleared, IsPublished
<1> QED
  BY <1>1, <1>2 DEF DraftInv

\* A call that ends without a change to the row keeps the invariant.
LEMMA EndKeepsInv ==
    ASSUME DraftInv, NEW c \in DraftCalls,
           draftCall' = [draftCall EXCEPT ![c] = FinishedCall],
           UNCHANGED <<draft, cleared>>, draftOptions' \subseteq DraftCalls
    PROVE  DraftInv'
<1>1. FinishedCall \in GoodCalls /\ FinishedCall.pc # "reading"
  BY RestingCalls DEF FinishedCall, IdleCall
<1> QED
  BY <1>1, CallStepKeepsInv

\* Every step keeps the invariant, the moderation's answer and the triggers
\* being what stands before a publication.
LEMMA DraftInvNext == DraftInv /\ [DraftNext]_draftVars => DraftInv'
<1> SUFFICES ASSUME DraftInv, [DraftNext]_draftVars PROVE DraftInv'
  OBVIOUS
<1>0. \A c \in DraftCalls : draftCall[c] \in CallRecords /\ Prepared(draftCall[c])
  BY DEF DraftInv, GoodCalls
<1> USE DEF GoodCalls, CallRecords, Prepared
<1>1. ASSUME NEW c \in DraftCalls, StageDraft(c) PROVE DraftInv'
  <2>1. PICK status \in {"draft", "active"} :
          /\ draft' = [status |-> "draft", policy |-> c, hash |-> {c},
                       moderation |-> IF status = "draft" THEN "draft" ELSE "moderation_pending"]
          /\ draftCall' = [draftCall EXCEPT ![c] = [IdleCall EXCEPT
               !.pc = "inserting", !.op = "create", !.status = status, !.row = c, !.options = {c}]]
    BY <1>1 DEF StageDraft
  <2> DEFINE r == [IdleCall EXCEPT
               !.pc = "inserting", !.op = "create", !.status = status, !.row = c, !.options = {c}]
  <2>2. r \in GoodCalls
    BY DEF IdleCall, DraftOps
  <2>3. draft' \in DraftRows /\ draft'.policy \in DraftCalls /\ draft'.status = "draft"
    BY <2>1 DEF DraftRows, RowStatuses, Moderations
  <2>4. draftCall' \in [DraftCalls -> GoodCalls]
    BY <2>1, <2>2 DEF DraftInv
  <2> QED
    BY <1>1, <2>3, <2>4 DEF StageDraft, DraftInv, PublishedPollsAreCleared, IsPublished
<1>2. ASSUME NEW c \in DraftCalls, InsertOptions(c) PROVE DraftInv'
  <2>1. AfterInsert(c) \in GoodCalls /\ AfterInsert(c).pc # "reading"
    <3>1. CASE draftCall[c].op = "create" /\ draftCall[c].status = "active"
      BY <1>0, <1>2, <3>1 DEF AfterInsert, InsertOptions
    <3>2. CASE ~(draftCall[c].op = "create" /\ draftCall[c].status = "active")
      BY <3>2, RestingCalls DEF AfterInsert, FinishedCall, IdleCall
    <3> QED
      BY <3>1, <3>2
  <2>2. UNCHANGED <<draft, cleared>> /\ draftOptions' \subseteq DraftCalls
    BY <1>0, <1>2 DEF InsertOptions, DraftInv
  <2>3. CASE draftCall' = [draftCall EXCEPT ![c] = AfterInsert(c)]
    BY <2>1, <2>2, <2>3, CallStepKeepsInv
  <2>4. CASE draftCall' = [draftCall EXCEPT ![c] = FinishedCall]
    BY <2>2, <2>4, EndKeepsInv
  <2> QED
    BY <1>2, <2>3, <2>4 DEF InsertOptions
<1>3. ASSUME NEW c \in DraftCalls, StartEdit(c) PROVE DraftInv'
  <2>1. PICK op \in {"update", "publish"} :
          draftCall' = [draftCall EXCEPT ![c] = [IdleCall EXCEPT
             !.pc = "reading", !.op = op, !.unread = {"row", "options", "editable"}]]
    BY <1>3 DEF StartEdit
  <2> DEFINE r == [IdleCall EXCEPT
             !.pc = "reading", !.op = op, !.unread = {"row", "options", "editable"}]
  <2>2. r \in GoodCalls
    BY DEF IdleCall, DraftOps
  <2>3. UNCHANGED <<draft, cleared>> /\ draftOptions' \subseteq DraftCalls
        /\ draft.status # "none"
    BY <1>3 DEF StartEdit, DraftInv
  <2> HIDE DEF r
  <2> QED
    BY <2>1, <2>2, <2>3, CallStepKeepsInv DEF r
<1>4. ASSUME NEW c \in DraftCalls, ReadForDraft(c) PROVE DraftInv'
  <2>1. PICK what \in draftCall[c].unread :
         LET read == [draftCall[c] EXCEPT !.unread = @ \ {what}]
         IN  draftCall' = [draftCall EXCEPT ![c] =
               CASE what = "row"      -> [read EXCEPT !.row = draft.policy]
                 [] what = "options"  -> [read EXCEPT !.options = draftOptions]
                 [] what = "editable" ->
                      IF draft.status = "draft" THEN read ELSE FinishedCall]
    BY <1>4 DEF ReadForDraft
  <2> DEFINE read == [draftCall[c] EXCEPT !.unread = @ \ {what}]
  <2>2. /\ draftCall[c] \in CallRecords /\ Prepared(draftCall[c])
        /\ draftCall[c].pc = "reading" /\ draft.status # "none" /\ draft.policy \in DraftCalls
        /\ UNCHANGED <<draft, cleared>> /\ draftOptions' \subseteq DraftCalls
        /\ draftOptions \subseteq DraftCalls
    BY <1>0, <1>4 DEF ReadForDraft, DraftInv
  <2>3. CASE what = "row"
    <3> DEFINE r == [read EXCEPT !.row = draft.policy]
    <3>1. draftCall' = [draftCall EXCEPT ![c] = r]
      BY <2>1, <2>3
    <3>2. r \in GoodCalls
      BY <2>2
    <3> QED
      BY <2>2, <3>1, <3>2, CallStepKeepsInv
  <2>4. CASE what = "options"
    <3> DEFINE r == [read EXCEPT !.options = draftOptions]
    <3>1. draftCall' = [draftCall EXCEPT ![c] = r]
      BY <2>1, <2>4
    <3>2. r \in GoodCalls
      BY <2>2, <2>4
    <3> QED
      BY <2>2, <3>1, <3>2, CallStepKeepsInv
  <2>5. CASE what = "editable" /\ draft.status = "draft"
    <3>1. draftCall' = [draftCall EXCEPT ![c] = read]
      BY <2>1, <2>5
    <3>2. read \in GoodCalls
      BY <2>2, <2>5
    <3> QED
      BY <2>2, <3>1, <3>2, CallStepKeepsInv
  <2>6. CASE what = "editable" /\ draft.status # "draft"
    BY <2>1, <2>2, <2>6, EndKeepsInv
  <2> QED
    BY <2>2, <2>3, <2>4, <2>5, <2>6
<1>5. ASSUME NEW c \in DraftCalls, PrepareUpdate(c) PROVE DraftInv'
  <2>1. PICK status \in {"draft", "active"},
          options \in (SUBSET (draftCall[c].options \cup {c})) \ {{}} :
         draftCall' = [draftCall EXCEPT ![c] = [@ EXCEPT
             !.pc = IF status = "draft" THEN "updating" ELSE "moderating",
             !.status = status, !.row = c, !.options = options]]
    BY <1>5 DEF PrepareUpdate
  <2> DEFINE r == [draftCall[c] EXCEPT
             !.pc = IF status = "draft" THEN "updating" ELSE "moderating",
             !.status = status, !.row = c, !.options = options]
  <2>2. options \subseteq DraftCalls /\ options # {} /\ draftCall[c].op = "update"
    BY <1>0, <1>5 DEF PrepareUpdate
  <2>3. r \in GoodCalls /\ r.pc # "reading"
    <3>1. draftCall[c] \in CallRecords
      BY <1>0
    <3>2. r \in CallRecords
      BY <2>2, <3>1
    <3>3. /\ r.pc \in {"updating", "moderating"} /\ r.row = c
          /\ r.options = options /\ r.op = "update"
      BY <2>2, <3>1
    <3> HIDE DEF r
    <3> QED
      BY <2>2, <3>2, <3>3
  <2>4. UNCHANGED <<draft, cleared>> /\ draftOptions' \subseteq DraftCalls
    BY <1>5 DEF PrepareUpdate, DraftInv
  <2>5. draftCall' = [draftCall EXCEPT ![c] = r]
    BY <2>1
  <2> HIDE DEF r
  <2> QED
    BY <2>3, <2>4, <2>5, CallStepKeepsInv
<1>6. ASSUME NEW c \in DraftCalls, UpdateDraft(c) PROVE DraftInv'
  <2> DEFINE row == RowOf(c, "draft", "draft")
             next == [draftCall[c] EXCEPT !.pc = "deleting"]
  <2>1. next \in GoodCalls /\ next.pc # "reading"
    BY <1>0, <1>6 DEF UpdateDraft
  <2>2. row \in DraftRows /\ row.status = "draft" /\ row.policy \in DraftCalls
    BY <1>0, <1>6 DEF UpdateDraft, RowOf, Payload, DraftRows, RowStatuses, Moderations
  <2>3. UpdateById(c, row, next) /\ UNCHANGED <<draftOptions, cleared>>
    BY <1>6 DEF UpdateDraft
  <2>4. cleared \subseteq cleared' /\ cleared' \subseteq [policy : DraftCalls, hash : SUBSET DraftCalls]
    BY <2>3 DEF DraftInv
  <2> HIDE DEF row, next
  <2> QED
    BY <2>1, <2>2, <2>3, <2>4, UpdateKeepsInv
<1>7. ASSUME NEW c \in DraftCalls, StagePublication(c) PROVE DraftInv'
  <2> DEFINE row == RowOf(c, "draft", "moderation_pending")
             next == [draftCall[c] EXCEPT !.pc = "moderating", !.status = "active"]
  <2>1. UNCHANGED <<draftOptions, cleared>>
    BY <1>7 DEF StagePublication
  <2>2. CASE draftCall[c].options = {}
    <3>1. draftCall' = [draftCall EXCEPT ![c] = FinishedCall] /\ UNCHANGED draft
      BY <1>7, <2>2 DEF StagePublication
    <3> QED
      BY <2>1, <3>1, EndKeepsInv DEF DraftInv
  <2>3. CASE draftCall[c].options # {}
    <3>1. next \in GoodCalls /\ next.pc # "reading"
      <4>1. draftCall[c] \in CallRecords /\ draftCall[c].row \in DraftCalls
        BY <1>0, <1>7 DEF StagePublication, AllRead
      <4>2. next \in CallRecords
        BY <4>1
      <4>3. /\ next.pc = "moderating" /\ next.row = draftCall[c].row
            /\ next.options = draftCall[c].options
        BY <4>1
      <4> HIDE DEF next
      <4> QED
        BY <2>3, <4>1, <4>2, <4>3
    <3>2. row \in DraftRows /\ row.status = "draft" /\ row.policy \in DraftCalls
      BY <1>0, <1>7 DEF StagePublication, AllRead, RowOf, Payload, DraftRows, RowStatuses, Moderations
    <3>3. UpdateById(c, row, next)
      BY <1>7, <2>3 DEF StagePublication
    <3>4. cleared \subseteq cleared' /\ cleared' \subseteq [policy : DraftCalls, hash : SUBSET DraftCalls]
      BY <2>1 DEF DraftInv
    <3> HIDE DEF row, next
    <3> QED
      BY <2>1, <3>1, <3>2, <3>3, <3>4, UpdateKeepsInv
  <2> QED
    BY <2>2, <2>3
<1>8. ASSUME NEW c \in DraftCalls, StoreModerated(c) PROVE DraftInv'
  <2>1. PICK outcome \in ModerationOutcomes :
         /\ UpdateById(c, RowOf(c, StatusAfter(outcome), outcome),
              IF draftCall[c].op = "update" THEN [draftCall[c] EXCEPT !.pc = "deleting"]
              ELSE FinishedCall)
         /\ cleared' = IF outcome = "published" THEN cleared \cup {Payload(c)} ELSE cleared
    BY <1>8 DEF StoreModerated
  <2> DEFINE row == RowOf(c, StatusAfter(outcome), outcome)
             next == IF draftCall[c].op = "update" THEN [draftCall[c] EXCEPT !.pc = "deleting"]
                     ELSE FinishedCall
  <2>2. draftCall[c].row \in DraftCalls /\ draftCall[c].options \subseteq DraftCalls
    BY <1>0, <1>8 DEF StoreModerated
  <2>3. next \in GoodCalls /\ next.pc # "reading"
    <3>1. CASE draftCall[c].op = "update"
      BY <1>0, <3>1
    <3>2. CASE draftCall[c].op # "update"
      BY <3>2, RestingCalls DEF FinishedCall, IdleCall
    <3> QED
      BY <3>1, <3>2
  <2>4. /\ row \in DraftRows /\ row.status \in {"draft", "active"} /\ row.policy \in DraftCalls
        /\ row.moderation = outcome
        /\ [policy |-> row.policy, hash |-> row.hash] = Payload(c)
        /\ row.status = "active" => outcome = "published"
    BY <2>2 DEF RowOf, StatusAfter, Payload, DraftRows, RowStatuses, Moderations
  <2>5. Payload(c) \in [policy : DraftCalls, hash : SUBSET DraftCalls]
    BY <2>2 DEF Payload
  <2>6. cleared \subseteq cleared' /\ cleared' \subseteq [policy : DraftCalls, hash : SUBSET DraftCalls]
    BY <2>1, <2>5 DEF DraftInv
  <2>7. row.status = "active" =>
             /\ [policy |-> row.policy, hash |-> row.hash] \in cleared'
             /\ row.moderation = "published"
    BY <2>1, <2>4
  <2>8. UpdateById(c, row, next) /\ UNCHANGED draftOptions
    BY <1>8, <2>1 DEF StoreModerated
  <2> HIDE DEF row, next
  <2> QED
    BY <2>3, <2>4, <2>6, <2>7, <2>8, UpdateKeepsInv
<1>9. ASSUME NEW c \in DraftCalls, DeleteOptions(c) PROVE DraftInv'
  <2>1. UNCHANGED <<draft, cleared>> /\ draftOptions' \subseteq DraftCalls
    BY <1>9 DEF DeleteOptions, DraftInv
  <2>2. CASE draftCall' = [draftCall EXCEPT ![c].pc = "inserting"]
    <3> DEFINE r == [draftCall[c] EXCEPT !.pc = "inserting"]
    <3>1. r \in GoodCalls /\ r.pc # "reading"
      BY <1>0, <1>9 DEF DeleteOptions
    <3>2. draftCall' = [draftCall EXCEPT ![c] = r]
      BY <2>2
    <3> HIDE DEF r
    <3> QED
      BY <2>1, <3>1, <3>2, CallStepKeepsInv
  <2>3. CASE draftCall' = [draftCall EXCEPT ![c] = FinishedCall]
    BY <2>1, <2>3, EndKeepsInv
  <2> QED
    BY <1>9, <2>2, <2>3 DEF DeleteOptions
<1>10. CASE ReviewPoll
  <2>1. PICK outcome \in ReviewOutcomes : draft' = [draft EXCEPT !.moderation = outcome]
    BY <1>10 DEF ReviewPoll
  <2>2. draft' \in DraftRows /\ draft'.status = draft.status /\ draft'.policy = draft.policy
    BY <2>1 DEF DraftInv, DraftRows, Moderations
  <2>3. ~IsPublished
    BY <1>10 DEF ReviewPoll, DraftInv, PublishedPollsAreCleared
  <2>4. ~IsPublished'
    BY <2>2, <2>3 DEF IsPublished
  <2> QED
    BY <1>10, <2>2, <2>4 DEF ReviewPoll, DraftInv, PublishedPollsAreCleared
<1>11. CASE ClosePoll
  <2>1. /\ draft' = [draft EXCEPT !.status = "closed"] /\ draft.status = "active"
        /\ UNCHANGED <<draftOptions, draftCall, cleared>>
    BY <1>11 DEF ClosePoll
  <2>2. /\ draft' \in DraftRows /\ draft'.policy = draft.policy /\ draft'.hash = draft.hash
        /\ draft'.moderation = draft.moderation
    BY <2>1 DEF DraftInv, DraftRows, RowStatuses
  <2> QED
    BY <2>1, <2>2 DEF DraftInv, PublishedPollsAreCleared, IsPublished
<1>12. CASE UNCHANGED draftVars
  BY <1>12 DEF draftVars, DraftInv, PublishedPollsAreCleared, IsPublished
<1> QED
  BY <1>1, <1>2, <1>3, <1>4, <1>5, <1>6, <1>7, <1>8, <1>9, <1>10, <1>11, <1>12 DEF DraftNext

\* The inductive invariant holds of every reachable state.
LEMMA DraftInvariant == DraftSpec => []DraftInv
BY DraftInvInit, DraftInvNext, PTL DEF DraftSpec

-----------------------------------------------------------------------------
\* The types of the variables.
THEOREM DraftTypeCorrect == DraftSpec => []DraftTypeOK
<1>1. DraftInv => DraftTypeOK
  BY DEF DraftInv, DraftTypeOK, DraftRows, RowStatuses, GoodCalls, CallRecords, Prepared
<1> QED
  BY <1>1, DraftInvariant, PTL

\* A published poll is one the moderation has allowed, with its options:
\* whatever other calls and reviewers do between the answer of the
\* moderation and the update that publishes.
THEOREM PublishedPollsAreClearedAlways == DraftSpec => []PublishedPollsAreCleared
<1>1. DraftInv => PublishedPollsAreCleared
  BY DEF DraftInv
<1> QED
  BY <1>1, DraftInvariant, PTL

\* The policy, the hash and the options of a published poll never change,
\* and it is never a draft again.
THEOREM PublishedPollsAreFrozenAlways == DraftSpec => PublishedPollsAreFrozen
<1> DEFINE Frozen == /\ IsPublished'
                     /\ draft'.policy = draft.policy /\ draft'.hash = draft.hash
                     /\ draftOptions' = draftOptions
<1>1. ASSUME DraftInv, [DraftNext]_draftVars, IsPublished PROVE Frozen
  <2>0. draft.status \in {"active", "closed"} /\ draft.status # "draft" /\ draft \in DraftRows
    BY <1>1 DEF IsPublished, DraftInv
  <2>1. ASSUME NEW c \in DraftCalls, NEW row, NEW next, UpdateById(c, row, next),
               row.status \in {"draft", "active"}, UNCHANGED draftOptions
        PROVE  Frozen
    BY <2>0, <2>1, <1>1 DEF UpdateById, PollMayBecome, IsPublished
  <2>2. ASSUME NEW c \in DraftCalls, UpdateDraft(c) \/ StagePublication(c) \/ StoreModerated(c)
        PROVE  Frozen
    <3>1. RowOf(c, "draft", "draft").status = "draft"
          /\ RowOf(c, "draft", "moderation_pending").status = "draft"
      BY DEF RowOf
    <3>2. \A outcome : RowOf(c, StatusAfter(outcome), outcome).status \in {"draft", "active"}
      BY DEF RowOf, StatusAfter
    <3>3. CASE UpdateDraft(c)
      BY <2>1, <3>1, <3>3 DEF UpdateDraft
    <3>4. CASE StagePublication(c)
      <4>1. CASE UNCHANGED draft
        BY <1>1, <3>4, <4>1 DEF StagePublication, IsPublished
      <4>2. CASE UpdateById(c, RowOf(c, "draft", "moderation_pending"),
                         [draftCall[c] EXCEPT !.pc = "moderating", !.status = "active"])
        BY <2>1, <3>1, <3>4, <4>2 DEF StagePublication
      <4> QED
        BY <3>4, <4>1, <4>2 DEF StagePublication
    <3>5. CASE StoreModerated(c)
      BY <2>1, <3>2, <3>5 DEF StoreModerated
    <3> QED
      BY <2>2, <3>3, <3>4, <3>5
  <2>3. ASSUME NEW c \in DraftCalls, InsertOptions(c) \/ DeleteOptions(c) PROVE Frozen
    BY <1>1, <2>0, <2>3 DEF InsertOptions, DeleteOptions, OptionsMayChange, IsPublished
  <2>4. ASSUME NEW c \in DraftCalls, StartEdit(c) \/ ReadForDraft(c) \/ PrepareUpdate(c)
        PROVE  Frozen
    BY <1>1, <2>4 DEF StartEdit, ReadForDraft, PrepareUpdate, IsPublished
  <2>5. ASSUME NEW c \in DraftCalls, StageDraft(c) PROVE Frozen
    BY <2>0, <2>5 DEF StageDraft
  <2>6. CASE ReviewPoll
    <3>1. PICK outcome \in ReviewOutcomes : draft' = [draft EXCEPT !.moderation = outcome]
      BY <2>6 DEF ReviewPoll
    <3> QED
      BY <1>1, <2>0, <2>6, <3>1 DEF ReviewPoll, IsPublished, DraftRows
  <2>7. CASE ClosePoll
    BY <2>0, <2>7 DEF ClosePoll, IsPublished, DraftRows
  <2>8. CASE UNCHANGED draftVars
    BY <1>1, <2>8 DEF draftVars, IsPublished
  <2> QED
    BY <1>1, <2>2, <2>3, <2>4, <2>5, <2>6, <2>7, <2>8 DEF DraftNext
<1>2. DraftInv /\ [DraftNext]_draftVars => [IsPublished => Frozen]_draftVars
  BY <1>1
<1> QED
  BY <1>2, DraftInvariant, PTL DEF DraftSpec, PublishedPollsAreFrozen

-----------------------------------------------------------------------------
(* Voting: the calls. *)

LookupPcs == {"byPoll", "byKey", "insertKey", "racedKey"}
AcceptedPcs == {"proof", "nullifier", "insert"}

(* What is known of a call r when polls have the key ids ids, and keys have *)
(* the polls owner.                                                         *)

IsCall(r) == r = [op |-> r.op, poll |-> r.poll, voter |-> r.voter, arg |-> r.arg,
                  pc |-> r.pc, ballot |-> r.ballot, land |-> r.land,
                  moved |-> r.moved, fit |-> r.fit]

BallotHasKey(r, owner) ==
    /\ r.pc = "idle" => r.ballot = NoBallot
    /\ r.ballot.key # NoPoll => r.ballot.key \in KeyNames /\ owner[r.ballot.key] # NoPoll

LookupOK(r, ids) == r.pc \in LookupPcs =>
    /\ r.poll \in ZkPolls
    /\ r.ballot # NoBallot => r.pc \in {"byPoll", "byKey"} /\ r.ballot.key = ids[r.poll]

AcceptedOK(r, owner, ids) == r.pc \in AcceptedPcs /\ r.poll \in ZkPolls =>
    /\ r.ballot.key = ids[r.poll] /\ owner[ids[r.poll]] = r.poll
    /\ r.pc # "proof" => r.ballot.poll = r.poll

VotingCallOK(r, owner, ids) ==
    IsCall(r) /\ BallotHasKey(r, owner) /\ LookupOK(r, ids) /\ AcceptedOK(r, owner, ids)

KeysOK(owner, ids) == ids \in KeyIds /\ owner \in [KeyNames -> ZkPolls \cup {NoPoll}]

VotingCallsOK == /\ votingCall = [c \in VotingCalls |-> votingCall[c]]
                 /\ \A c \in VotingCalls : VotingCallOK(votingCall[c], keyOwner, keyId)

ZkVotesOK == /\ \A v \in zkVotes : v.poll \in ZkPolls
             /\ EveryVoteCanBeCounted

\* The inductive invariant.
VotingInv == KeysOK(keyOwner, keyId) /\ VotingCallsOK /\ ZkVotesOK

\* A row of a key that is there stays as it is.
KeysStay(owner, later) == \A k \in KeyNames : owner[k] # NoPoll => later[k] = owner[k]

-----------------------------------------------------------------------------
\* Every production poll has a key id, which is one.
LEMMA KeyOfPoll ==
    ASSUME NEW ids \in KeyIds, NEW p \in ZkPolls
    PROVE  ids[p] \in KeyNames /\ ids[p] # NoPoll /\ p # NoPoll
BY KeysAssumption DEF KeyNames

LEMMA VotingInvInit == VotingInit => VotingInv
<1> SUFFICES ASSUME VotingInit PROVE VotingInv
  OBVIOUS
<1>1. KeysOK(keyOwner, keyId)
  BY DEF VotingInit, KeysOK
<1>2. PICK mix \in VotingMixes : votingCall = [c \in VotingCalls |-> Deciding(mix[c])]
  BY DEF VotingInit
<1>3. ASSUME NEW c \in VotingCalls PROVE VotingCallOK(votingCall[c], keyOwner, keyId)
  <2>1. votingCall[c] = Deciding(mix[c])
    BY <1>2
  <2> QED
    BY <2>1 DEF Deciding, VotingCallOK, IsCall, BallotHasKey, LookupOK, AcceptedOK, LookupPcs,
                AcceptedPcs, NoBallot
<1>4. VotingCallsOK
  BY <1>2, <1>3 DEF VotingCallsOK
<1>5. ZkVotesOK
  BY DEF VotingInit, ZkVotesOK, EveryVoteCanBeCounted
<1> QED
  BY <1>1, <1>4, <1>5 DEF VotingInv

\* What is known of a call stays known while keys are added.
LEMMA VotingCallStays ==
    ASSUME NEW owner, NEW later, NEW ids, KeysOK(owner, ids), KeysStay(owner, later),
           NEW r, VotingCallOK(r, owner, ids)
    PROVE  VotingCallOK(r, later, ids)
<1>1. BallotHasKey(r, later)
  BY DEF VotingCallOK, BallotHasKey, KeysStay
<1>2. AcceptedOK(r, later, ids)
  BY KeyOfPoll DEF VotingCallOK, AcceptedOK, KeysStay, KeysOK
<1> QED
  BY <1>1, <1>2 DEF VotingCallOK

\* A step of one call that stores no vote keeps the invariant if it leaves
\* the call in order.
LEMMA CallStep ==
    ASSUME VotingInv, KeysStay(keyOwner, keyOwner'), KeysOK(keyOwner', keyId),
           UNCHANGED <<keyId, zkVotes>>, NEW c \in VotingCalls, NEW r,
           votingCall' = [votingCall EXCEPT ![c] = r], VotingCallOK(r, keyOwner', keyId)
    PROVE  VotingInv'
<1>1. ASSUME NEW d \in VotingCalls PROVE VotingCallOK(votingCall'[d], keyOwner', keyId)
  BY VotingCallStays DEF VotingInv, VotingCallsOK
<1>2. VotingCallsOK'
  BY <1>1 DEF VotingInv, VotingCallsOK
<1>3. ZkVotesOK'
  BY KeyOfPoll DEF VotingInv, ZkVotesOK, EveryVoteCanBeCounted, KeysStay, KeysOK
<1> QED
  BY <1>2, <1>3 DEF VotingInv

-----------------------------------------------------------------------------
(* Voting: steps that only move one call on *)

VotingAt(c, pc) == [votingCall[c] EXCEPT !.pc = pc]

\* A call that goes on to where what is known of it allows.
LEMMA StepOn ==
    ASSUME VotingInv, UNCHANGED <<keyId, keyOwner, zkVotes>>, NEW c \in VotingCalls, NEW pc,
           Step(c, pc), pc # "idle", LookupOK(VotingAt(c, pc), keyId),
           AcceptedOK(VotingAt(c, pc), keyOwner, keyId)
    PROVE  VotingInv'
<1>1. VotingCallOK(votingCall[c], keyOwner, keyId)
  BY DEF VotingInv, VotingCallsOK
<1>2. IsCall(VotingAt(c, pc)) /\ BallotHasKey(VotingAt(c, pc), keyOwner)
  BY <1>1 DEF VotingCallOK, IsCall, BallotHasKey, VotingAt
<1>3. VotingCallOK(VotingAt(c, pc), keyOwner, keyId)
  BY <1>2 DEF VotingCallOK
<1>4. votingCall' = [votingCall EXCEPT ![c] = VotingAt(c, pc)]
  BY DEF Step, VotingAt
<1>5. KeysStay(keyOwner, keyOwner') /\ KeysOK(keyOwner', keyId)
  BY DEF KeysStay, KeysOK, VotingInv
<1> QED
  BY <1>3, <1>4, <1>5, CallStep

-----------------------------------------------------------------------------
(* Voting: steps that only change calls, and where to none of the places above *)

ElsewhereInVoting(pc) == pc \notin LookupPcs \cup AcceptedPcs \cup {"idle"}

Kin(r, q) == /\ IsCall(q) /\ q.poll = r.poll /\ q.ballot = r.ballot
             /\ q.pc = r.pc \/ ElsewhereInVoting(q.pc)

\* Such a step keeps the invariant, for any number of calls.
LEMMA KinStep ==
    ASSUME VotingInv, UNCHANGED <<keyId, keyOwner, zkVotes>>,
           votingCall' = [c \in VotingCalls |-> votingCall'[c]],
           \A c \in VotingCalls : Kin(votingCall[c], votingCall'[c])
    PROVE  VotingInv'
<1>1. ASSUME NEW c \in VotingCalls PROVE VotingCallOK(votingCall'[c], keyOwner, keyId)
  <2>1. VotingCallOK(votingCall[c], keyOwner, keyId) /\ Kin(votingCall[c], votingCall'[c])
    BY DEF VotingInv, VotingCallsOK
  <2> QED
    BY <2>1 DEF Kin, ElsewhereInVoting, VotingCallOK, BallotHasKey, LookupOK, AcceptedOK
<1>2. VotingCallsOK'
  BY <1>1 DEF VotingCallsOK
<1>3. ZkVotesOK'
  BY DEF VotingInv, ZkVotesOK, EveryVoteCanBeCounted
<1> QED
  BY <1>2, <1>3 DEF VotingInv

\* One call goes elsewhere.
LEMMA StepElsewhere ==
    ASSUME VotingInv, UNCHANGED <<keyId, keyOwner, zkVotes>>, NEW c \in VotingCalls, NEW pc,
           Step(c, pc), ElsewhereInVoting(pc)
    PROVE  VotingInv'
<1>1. LookupOK(VotingAt(c, pc), keyId) /\ AcceptedOK(VotingAt(c, pc), keyOwner, keyId)
  <2>1. VotingAt(c, pc).pc = pc
    BY DEF VotingInv, VotingCallsOK, VotingCallOK, IsCall, VotingAt
  <2> QED
    BY <2>1 DEF ElsewhereInVoting, LookupOK, AcceptedOK
<1> QED
  BY <1>1, StepOn DEF ElsewhereInVoting

\* One call goes elsewhere and takes notes.
LEMMA RecordsKept ==
    ASSUME VotingInv, NEW c \in VotingCalls, NEW pc, NEW fit, NEW land, ElsewhereInVoting(pc),
           UNCHANGED <<keyId, keyOwner, zkVotes>>,
           \/ votingCall' = [votingCall EXCEPT ![c].pc = pc, ![c].fit = fit]
           \/ votingCall' = [votingCall EXCEPT ![c].pc = pc, ![c].land = land]
    PROVE  VotingInv'
<1>1. ASSUME NEW d \in VotingCalls PROVE Kin(votingCall[d], votingCall'[d])
  <2>1. IsCall(votingCall[d])
    BY DEF VotingInv, VotingCallsOK, VotingCallOK
  <2> QED
    BY <2>1 DEF VotingInv, VotingCallsOK, IsCall, Kin
<1>2. votingCall' = [d \in VotingCalls |-> votingCall'[d]]
  BY DEF VotingInv, VotingCallsOK
<1> QED
  BY <1>1, <1>2, KinStep

\* Calls of a voter that changes are marked.
LEMMA MovingKeeps ==
    ASSUME VotingInv, NEW c \in VotingCalls, NEW u, Moving(c, u),
           UNCHANGED <<keyId, keyOwner, zkVotes>>
    PROVE  VotingInv'
<1>1. ASSUME NEW d \in VotingCalls PROVE Kin(votingCall[d], votingCall'[d])
  <2>1. IsCall(votingCall[d])
    BY DEF VotingInv, VotingCallsOK, VotingCallOK
  <2>2. CASE d = c
    BY <2>1, <2>2 DEF Moving, IsCall, Kin, ElsewhereInVoting, LookupPcs, AcceptedPcs
  <2>3. CASE d # c
    BY <2>1, <2>3 DEF Moving, IsCall, Kin
  <2> QED
    BY <2>2, <2>3
<1>2. votingCall' = [d \in VotingCalls |-> votingCall'[d]]
  BY DEF Moving
<1> QED
  BY <1>1, <1>2, KinStep

-----------------------------------------------------------------------------
(* Voting: the key of a poll *)

\* Who is answered the key of a poll makes a ballot with it, or goes on if
\* the key is the one of the ballot; then it is the poll's.
LEMMA AnswerKept ==
    ASSUME VotingInv, KeysStay(keyOwner, keyOwner'), KeysOK(keyOwner', keyId),
           UNCHANGED <<keyId, zkVotes>>, NEW c \in VotingCalls, IsZk(c),
           KeyAnswered(c, keyId[PollOf(c)]), keyOwner'[keyId[PollOf(c)]] # NoPoll,
           BallotOf(c) # NoBallot => keyOwner'[keyId[PollOf(c)]] = PollOf(c)
    PROVE  VotingInv'
<1> DEFINE key == keyId[PollOf(c)]
<1>1. VotingCallOK(votingCall[c], keyOwner', keyId)
  BY VotingCallStays DEF VotingInv, VotingCallsOK
<1>2. key \in KeyNames
  BY KeyOfPoll DEF VotingInv, KeysOK, IsZk
<1>3. CASE BallotOf(c) = NoBallot
  <2> DEFINE ballot == MakeBallot(votingCall[c], key)
  <2>0. ballot.key = key
    BY DEF MakeBallot
  <2> DEFINE r == [votingCall[c] EXCEPT !.pc = "ready", !.ballot = ballot]
  <2> HIDE DEF ballot
  <2>1. IsCall(r) /\ r.pc = "ready" /\ r.ballot = ballot
    <3>1. IsCall(votingCall[c])
      BY <1>1 DEF VotingCallOK
    <3> HIDE DEF r
    <3>2. r = [votingCall[c] EXCEPT !.pc = "ready", !.ballot = ballot]
      BY DEF r
    <3> QED
      BY <3>1, <3>2 DEF IsCall
  <2>2. VotingCallOK(r, keyOwner', keyId)
    BY <1>2, <2>0, <2>1 DEF VotingCallOK, BallotHasKey, LookupOK, AcceptedOK, LookupPcs, AcceptedPcs
  <2>3. votingCall' = [votingCall EXCEPT ![c] = r]
    BY <1>3 DEF KeyAnswered, ballot
  <2> QED
    BY <2>2, <2>3, CallStep
<1>4. CASE BallotOf(c) # NoBallot
  <2> DEFINE pc == IF BallotOf(c).key = key THEN "proof" ELSE "rejected"
  <2>1. VotingAt(c, pc) = [votingCall[c] EXCEPT !.pc = pc] /\ IsCall(VotingAt(c, pc))
    BY <1>1 DEF VotingCallOK, IsCall, VotingAt
  <2>2. /\ VotingAt(c, pc).pc = pc /\ VotingAt(c, pc).ballot = BallotOf(c)
        /\ VotingAt(c, pc).poll = PollOf(c)
    BY <1>1 DEF VotingCallOK, IsCall, VotingAt, BallotOf, PollOf
  <2>3. BallotHasKey(VotingAt(c, pc), keyOwner')
    BY <1>1, <2>2 DEF VotingCallOK, BallotHasKey, BallotOf
  <2>4. LookupOK(VotingAt(c, pc), keyId) /\ AcceptedOK(VotingAt(c, pc), keyOwner', keyId)
    BY <1>4, <2>2 DEF LookupOK, AcceptedOK, LookupPcs, AcceptedPcs
  <2>5. votingCall' = [votingCall EXCEPT ![c] = VotingAt(c, pc)]
    BY <1>4 DEF KeyAnswered, Check, Step, VotingAt
  <2>6. VotingCallOK(VotingAt(c, pc), keyOwner', keyId)
    BY <2>1, <2>3, <2>4 DEF VotingCallOK
  <2> QED
    BY <2>5, <2>6, CallStep
<1> QED
  BY <1>3, <1>4

LEMMA KeyLookupsKeep ==
    ASSUME VotingInv, NEW c \in VotingCalls,
           FetchKey(c) \/ FindKeyByPoll(c) \/ FindKeyByKey(c) \/ InsertKey(c) \/ FindRacedKey(c)
    PROVE  VotingInv'
<1> DEFINE key == keyId[PollOf(c)]
<1>0. /\ VotingCallOK(votingCall[c], keyOwner, keyId) /\ KeysOK(keyOwner, keyId)
      /\ KeysStay(keyOwner, keyOwner)
  BY DEF VotingInv, VotingCallsOK, KeysStay
<1>1. \A pc : VotingAt(c, pc).pc = pc /\ VotingAt(c, pc).ballot = BallotOf(c) /\ VotingAt(c, pc).poll = PollOf(c)
  BY <1>0 DEF VotingCallOK, IsCall, VotingAt, BallotOf, PollOf
<1>2. PcIs(c, "byPoll") \/ PcIs(c, "byKey") \/ PcIs(c, "insertKey") \/ PcIs(c, "racedKey")
        => /\ IsZk(c) /\ key \in KeyNames /\ key # NoPoll /\ PollOf(c) # NoPoll
           /\ BallotOf(c) # NoBallot => /\ PcIs(c, "byPoll") \/ PcIs(c, "byKey")
                                        /\ BallotOf(c).key = key /\ keyOwner[key] # NoPoll
  BY <1>0, KeyOfPoll DEF VotingCallOK, LookupOK, BallotHasKey, LookupPcs, PcIs, IsZk, PollOf, BallotOf,
                         KeysOK
<1>3. CASE FetchKey(c)
  <2>1. BallotOf(c) = NoBallot /\ PollOf(c) \in ZkPolls
    BY <1>0, <1>3 DEF FetchKey, PcIs, VotingCallOK, BallotHasKey, BallotOf, IsZk
  <2>2. LookupOK(VotingAt(c, "byPoll"), keyId) /\ AcceptedOK(VotingAt(c, "byPoll"), keyOwner, keyId)
    BY <1>1, <2>1 DEF LookupOK, AcceptedOK, AcceptedPcs
  <2> QED
    BY <1>3, <2>2, StepOn DEF FetchKey, Reads, votingRows
<1>4. CASE FindKeyByPoll(c)
  <2> DEFINE pc == IF \A k \in KeyNames : keyOwner[k] = PollOf(c) => k = key
                     THEN "byKey" ELSE "rejected"
  <2>1. PcIs(c, "byPoll") /\ Step(c, pc) /\ UNCHANGED <<keyId, keyOwner, zkVotes>>
    BY <1>4 DEF FindKeyByPoll, Check, Reads, votingRows
  <2>2. LookupOK(VotingAt(c, pc), keyId) /\ AcceptedOK(VotingAt(c, pc), keyOwner, keyId)
    BY <1>1, <1>2, <2>1 DEF LookupOK, AcceptedOK, AcceptedPcs, LookupPcs, IsZk
  <2> QED
    BY <2>1, <2>2, StepOn
<1>5. CASE FindKeyByKey(c)
  <2>0. PcIs(c, "byKey") /\ UNCHANGED <<keyId, keyOwner, zkVotes>>
    BY <1>5 DEF FindKeyByKey, Reads, votingRows
  <2>1. CASE keyOwner[key] = NoPoll
    <3>1. Step(c, "insertKey")
      BY <1>2, <1>5, <2>0, <2>1 DEF FindKeyByKey, IsKeyOf
    <3>2. LookupOK(VotingAt(c, "insertKey"), keyId) /\ AcceptedOK(VotingAt(c, "insertKey"), keyOwner, keyId)
      BY <1>1, <1>2, <2>0, <2>1 DEF LookupOK, AcceptedOK, AcceptedPcs, IsZk
    <3> QED
      BY <2>0, <3>1, <3>2, StepOn
  <2>2. CASE keyOwner[key] # NoPoll /\ IsKeyOf(keyOwner[key], PollOf(c))
    <3>1. KeyAnswered(c, key) /\ keyOwner[key] = PollOf(c)
      BY <1>5, <2>2 DEF FindKeyByKey, IsKeyOf
    <3> QED
      BY <1>0, <1>2, <2>0, <2>2, <3>1, AnswerKept
  <2>3. CASE keyOwner[key] # NoPoll /\ ~IsKeyOf(keyOwner[key], PollOf(c))
    <3>1. Step(c, "rejected") /\ ElsewhereInVoting("rejected")
      BY <1>5, <2>3 DEF FindKeyByKey, ElsewhereInVoting, LookupPcs, AcceptedPcs
    <3> QED
      BY <2>0, <3>1, StepElsewhere
  <2> QED
    BY <2>1, <2>2, <2>3
<1>6. CASE InsertKey(c)
  <2>0. PcIs(c, "insertKey") /\ UNCHANGED <<keyId, zkVotes>> /\ IsZk(c) /\ BallotOf(c) = NoBallot
    BY <1>2, <1>6 DEF InsertKey, PcIs
  <2>1. CASE keyOwner[key] = NoPoll /\ \A k \in KeyNames : keyOwner[k] # PollOf(c)
    <3>1. keyOwner' = [keyOwner EXCEPT ![key] = PollOf(c)] /\ KeyAnswered(c, key)
      BY <1>6, <2>1 DEF InsertKey
    <3>2. KeysStay(keyOwner, keyOwner') /\ KeysOK(keyOwner', keyId) /\ keyOwner'[key] # NoPoll
      BY <1>0, <1>2, <2>0, <2>1, <3>1 DEF KeysStay, KeysOK, IsZk
    <3> QED
      BY <2>0, <3>1, <3>2, AnswerKept
  <2>2. CASE ~(keyOwner[key] = NoPoll /\ \A k \in KeyNames : keyOwner[k] # PollOf(c))
    <3>1. Step(c, "racedKey") /\ UNCHANGED keyOwner
      BY <1>6, <2>2 DEF InsertKey
    <3>2. LookupOK(VotingAt(c, "racedKey"), keyId) /\ AcceptedOK(VotingAt(c, "racedKey"), keyOwner, keyId)
      BY <1>1, <2>0 DEF LookupOK, AcceptedOK, AcceptedPcs, IsZk
    <3> QED
      BY <2>0, <3>1, <3>2, StepOn
  <2> QED
    BY <2>1, <2>2
<1>7. CASE FindRacedKey(c)
  <2>0. PcIs(c, "racedKey") /\ UNCHANGED <<keyId, keyOwner, zkVotes>>
    BY <1>7 DEF FindRacedKey, Reads, votingRows
  <2>1. CASE keyOwner[key] = NoPoll
    <3>1. Step(c, "rejected") /\ ElsewhereInVoting("rejected")
      BY <1>7, <2>1 DEF FindRacedKey, ElsewhereInVoting, LookupPcs, AcceptedPcs
    <3> QED
      BY <2>0, <3>1, StepElsewhere
  <2>2. CASE keyOwner[key] # NoPoll
    <3>1. KeyAnswered(c, key) /\ IsZk(c) /\ BallotOf(c) = NoBallot
      BY <1>2, <1>7, <2>0, <2>2 DEF FindRacedKey, PcIs
    <3> QED
      BY <1>0, <2>0, <2>2, <3>1, AnswerKept
  <2> QED
    BY <2>1, <2>2
<1> QED
  BY <1>3, <1>4, <1>5, <1>6, <1>7

-----------------------------------------------------------------------------
(* Voting: the vote *)

\* A ballot is made for a legacy poll, or taken from another call.
LEMMA PrepareBallotKeeps ==
    ASSUME VotingInv, NEW c \in VotingCalls, PrepareBallot(c)
    PROVE  VotingInv'
<1>0. /\ \A d \in VotingCalls : VotingCallOK(votingCall[d], keyOwner, keyId)
      /\ KeysStay(keyOwner, keyOwner') /\ KeysOK(keyOwner', keyId)
      /\ UNCHANGED <<keyId, keyOwner, zkVotes>>
  BY DEF VotingInv, VotingCallsOK, KeysStay, PrepareBallot, Reads, votingRows
<1>1. ASSUME NEW ballot, ballot.key # NoPoll => ballot.key \in KeyNames /\ keyOwner[ballot.key] # NoPoll,
             votingCall' = [votingCall EXCEPT ![c].pc = "ready", ![c].ballot = ballot]
      PROVE  VotingInv'
  <2> DEFINE r == [votingCall[c] EXCEPT !.pc = "ready", !.ballot = ballot]
  <2>1. IsCall(r) /\ r.pc = "ready" /\ r.ballot = ballot
    <3>1. IsCall(votingCall[c])
      BY <1>0 DEF VotingCallOK
    <3> HIDE DEF r
    <3>2. r = [votingCall[c] EXCEPT !.pc = "ready", !.ballot = ballot]
      BY DEF r
    <3> QED
      BY <3>1, <3>2 DEF IsCall
  <2>2. VotingCallOK(r, keyOwner', keyId)
    BY <1>0, <1>1, <2>1 DEF VotingCallOK, BallotHasKey, LookupOK, AcceptedOK, LookupPcs, AcceptedPcs
  <2>3. votingCall' = [votingCall EXCEPT ![c] = r]
    BY <1>1
  <2> QED
    BY <1>0, <2>2, <2>3, CallStep
<1>2. CASE OpIs(c, "vote")
  <2>1. votingCall' = [votingCall EXCEPT ![c].pc = "ready",
                                         ![c].ballot = MakeBallot(votingCall[c], NoPoll)]
    BY <1>2 DEF PrepareBallot, OpIs
  <2>2. MakeBallot(votingCall[c], NoPoll).key = NoPoll
    BY DEF MakeBallot
  <2> QED
    BY <1>1, <2>1, <2>2
<1>3. CASE ~OpIs(c, "vote")
  <2>1. PICK d \in VotingCalls : votingCall' = [votingCall EXCEPT ![c].pc = "ready",
                                                                ![c].ballot = BallotOf(d)]
    BY <1>3 DEF PrepareBallot
  <2> QED
    BY <1>0, <1>1, <2>1 DEF VotingCallOK, BallotHasKey, BallotOf
<1> QED
  BY <1>2, <1>3

\* The encrypted vote of a production poll goes on with the key of the poll.
LEMMA LoadIdentityProfileKeeps ==
    ASSUME VotingInv, NEW c \in VotingCalls, LoadIdentityProfile(c)
    PROVE  VotingInv'
<1>0. /\ VotingCallOK(votingCall[c], keyOwner, keyId)
      /\ UNCHANGED <<keyId, keyOwner, zkVotes>>
  BY DEF VotingInv, VotingCallsOK, LoadIdentityProfile, Reads, votingRows
<1>1. \A pc : VotingAt(c, pc).pc = pc /\ VotingAt(c, pc).ballot = BallotOf(c) /\ VotingAt(c, pc).poll = PollOf(c)
  BY <1>0 DEF VotingCallOK, IsCall, VotingAt, BallotOf, PollOf
<1>2. PICK pc : /\ Step(c, pc)
                /\ \/ pc = "rejected"
                   \/ pc = "byPoll" /\ IsZk(c) /\ BallotOf(c).key = keyId[PollOf(c)]
                   \/ pc \in {"proof", "insert"} /\ ~IsZk(c)
  BY DEF LoadIdentityProfile, Check, NamesKeyOfPoll
<1>3. LookupOK(VotingAt(c, pc), keyId) /\ AcceptedOK(VotingAt(c, pc), keyOwner, keyId)
  BY <1>1, <1>2 DEF LookupOK, AcceptedOK, LookupPcs, AcceptedPcs, IsZk
<1> QED
  BY <1>0, <1>2, <1>3, StepOn

\* An accepted proof is one for the poll.
LEMMA VerifyProofKeeps ==
    ASSUME VotingInv, NEW c \in VotingCalls, VerifyGroth16Proof(c) \/ VerifyLegacyProof(c)
    PROVE  VotingInv'
<1>0. /\ VotingCallOK(votingCall[c], keyOwner, keyId) /\ votingCall[c].pc = "proof"
      /\ UNCHANGED <<keyId, keyOwner, zkVotes>>
  BY DEF VotingInv, VotingCallsOK, VerifyGroth16Proof, VerifyLegacyProof, PcIs, Reads, votingRows
<1>1. \A pc : VotingAt(c, pc).pc = pc /\ VotingAt(c, pc).ballot = BallotOf(c) /\ VotingAt(c, pc).poll = PollOf(c)
  BY <1>0 DEF VotingCallOK, IsCall, VotingAt, BallotOf, PollOf
<1>2. \/ Step(c, "rejected")
      \/ Step(c, "nullifier") /\ BallotOf(c).poll = PollOf(c)
  <2>1. Check(c, ProofFits(c), "nullifier") \/ Step(c, "rejected")
    BY DEF VerifyGroth16Proof, VerifyLegacyProof, ProofFits
  <2> QED
    BY <2>1 DEF Check, ProofFits
<1>3. PICK pc : /\ Step(c, pc)
                /\ pc = "rejected" \/ (pc = "nullifier" /\ BallotOf(c).poll = PollOf(c))
  BY <1>2
<1>4. LookupOK(VotingAt(c, pc), keyId) /\ AcceptedOK(VotingAt(c, pc), keyOwner, keyId)
  BY <1>0, <1>1, <1>3 DEF VotingCallOK, LookupOK, AcceptedOK, LookupPcs, AcceptedPcs, BallotOf, PollOf
<1> QED
  BY <1>0, <1>3, <1>4, StepOn

LEMMA FindNullifierKeeps ==
    ASSUME VotingInv, NEW c \in VotingCalls, FindNullifier(c)
    PROVE  VotingInv'
<1>0. /\ VotingCallOK(votingCall[c], keyOwner, keyId) /\ votingCall[c].pc = "nullifier"
      /\ UNCHANGED <<keyId, keyOwner, zkVotes>>
  BY DEF VotingInv, VotingCallsOK, FindNullifier, PcIs, Reads, votingRows
<1>1. \A pc : VotingAt(c, pc).pc = pc /\ VotingAt(c, pc).ballot = BallotOf(c) /\ VotingAt(c, pc).poll = PollOf(c)
  BY <1>0 DEF VotingCallOK, IsCall, VotingAt, BallotOf, PollOf
<1>2. PICK pc \in {"already", "insert"} : Step(c, pc)
  BY DEF FindNullifier
<1>3. LookupOK(VotingAt(c, pc), keyId) /\ AcceptedOK(VotingAt(c, pc), keyOwner, keyId)
  BY <1>0, <1>1, <1>2 DEF VotingCallOK, LookupOK, AcceptedOK, LookupPcs, AcceptedPcs, BallotOf, PollOf
<1> QED
  BY <1>0, <1>2, <1>3, StepOn

\* The vote that is inserted is one that can be counted.
LEMMA InsertZkVoteKeeps ==
    ASSUME VotingInv, NEW c \in VotingCalls, InsertZkVote(c)
    PROVE  VotingInv'
<1>0. /\ VotingCallOK(votingCall[c], keyOwner, keyId) /\ votingCall[c].pc = "insert"
      /\ UNCHANGED <<keyId, keyOwner>> /\ PollOf(c) \in ZkPolls
      /\ ElsewhereInVoting("ok") /\ ElsewhereInVoting("failed") /\ ElsewhereInVoting("already")
  BY DEF VotingInv, VotingCallsOK, InsertZkVote, PcIs, IsZk, ElsewhereInVoting, LookupPcs, AcceptedPcs
<1>1. CASE MayInsertZkVote(c)
  <2> DEFINE vote == [poll |-> PollOf(c), ballot |-> BallotOf(c), by |-> c]
             fits == Rules[PollOf(c)] \subseteq voters[VoterOf(c)].has
  <2>1. zkVotes' = zkVotes \cup {vote}
    BY <1>1 DEF InsertZkVote
  <2>2. PICK pc \in {"ok", "failed"} :
            votingCall' = [votingCall EXCEPT ![c].pc = pc, ![c].fit = fits]
    BY <1>1 DEF InsertZkVote, Recorded
  <2>3. ASSUME NEW d \in VotingCalls PROVE VotingCallOK(votingCall'[d], keyOwner, keyId)
    <3>1. VotingCallOK(votingCall[d], keyOwner, keyId)
      BY DEF VotingInv, VotingCallsOK
    <3>2. CASE d # c
      BY <2>2, <3>1, <3>2 DEF VotingInv, VotingCallsOK
    <3>3. CASE d = c
      <4> DEFINE r == [votingCall[c] EXCEPT !.pc = pc, !.fit = fits]
      <4>1. IsCall(r) /\ r.pc = pc /\ r.ballot = votingCall[c].ballot
        <5>1. IsCall(votingCall[c])
          BY <1>0 DEF VotingCallOK
        <5> HIDE DEF r, fits
        <5>2. r = [votingCall[c] EXCEPT !.pc = pc, !.fit = fits]
          BY DEF r
        <5> QED
          BY <5>1, <5>2 DEF IsCall
      <4>2. VotingCallOK(r, keyOwner, keyId)
        BY <1>0, <2>2, <4>1 DEF VotingCallOK, BallotHasKey, LookupOK, AcceptedOK, ElsewhereInVoting
      <4>3. votingCall'[c] = r
        BY <2>2 DEF VotingInv, VotingCallsOK
      <4> QED
        BY <3>3, <4>2, <4>3
    <3> QED
      BY <3>2, <3>3
  <2>4. VotingCallsOK'
    BY <1>0, <2>2, <2>3 DEF VotingInv, VotingCallsOK
  <2>5. /\ vote.poll \in ZkPolls /\ vote.ballot.poll = vote.poll
        /\ vote.ballot.key = keyId[vote.poll] /\ keyOwner[keyId[vote.poll]] = vote.poll
    BY <1>0 DEF VotingCallOK, AcceptedOK, AcceptedPcs, PollOf, BallotOf
  <2>6. ZkVotesOK'
    BY <1>0, <2>1, <2>5 DEF VotingInv, ZkVotesOK, EveryVoteCanBeCounted
  <2> QED
    BY <1>0, <2>4, <2>6 DEF VotingInv
<1>2. CASE ~MayInsertZkVote(c)
  <2>1. Step(c, "already") /\ UNCHANGED zkVotes
    BY <1>2 DEF InsertZkVote
  <2> QED
    BY <1>0, <2>1, StepElsewhere
<1> QED
  BY <1>1, <1>2

\* The checks of a vote before the key of its poll
LEMMA ChecksKeep ==
    ASSUME VotingInv, NEW c \in VotingCalls,
           \/ Submit(c) \/ LoadPoll(c) \/ FindOption(c) \/ FindIdentity(c) \/ FindExistingVote(c)
    PROVE  VotingInv'
<1>1. UNCHANGED <<keyId, keyOwner, zkVotes>>
  BY DEF Submit, LoadPoll, FindOption, FindIdentity, FindExistingVote, Reads, votingRows
<1>2. \A pc \in {"poll", "option", "identity", "existing", "profile", "already", "rejected"} :
        ElsewhereInVoting(pc)
  BY DEF ElsewhereInVoting, LookupPcs, AcceptedPcs
<1>3. CASE Submit(c)
  <2>1. PICK pc \in {"poll", "rejected"} :
            votingCall' = [votingCall EXCEPT ![c].pc = pc, ![c].land = Has(VoterOf(c), "land")]
    BY <1>3 DEF Submit
  <2> QED
    BY <1>1, <1>2, <2>1, RecordsKept
<1>4. CASE LoadPoll(c) \/ FindOption(c) \/ FindIdentity(c) \/ FindExistingVote(c)
  <2>1. PICK pc \in {"poll", "option", "identity", "existing", "profile", "already", "rejected"} :
            Step(c, pc)
    BY <1>4 DEF LoadPoll, FindOption, FindIdentity, FindExistingVote, Check
  <2> QED
    BY <1>1, <1>2, <2>1, StepElsewhere
<1> QED
  BY <1>3, <1>4

\* A legacy vote, which is not among those of production polls
LEMMA InsertDevVoteKeeps ==
    ASSUME VotingInv, NEW c \in VotingCalls, InsertDevVote(c)
    PROVE  VotingInv'
<1>1. UNCHANGED <<keyId, keyOwner, zkVotes>> /\ ElsewhereInVoting("ok") /\ ElsewhereInVoting("already")
  BY DEF InsertDevVote, ElsewhereInVoting, LookupPcs, AcceptedPcs
<1>2. CASE HasVoted(c)
  <2>1. Step(c, "already")
    BY <1>2 DEF InsertDevVote
  <2> QED
    BY <1>1, <2>1, StepElsewhere
<1>3. CASE ~HasVoted(c)
  <2>1. votingCall' = [votingCall EXCEPT ![c].pc = "ok",
                            ![c].fit = Rules[PollOf(c)] \subseteq voters[VoterOf(c)].has]
    BY <1>3 DEF InsertDevVote, Recorded
  <2> QED
    BY <1>1, <2>1, RecordsKept
<1> QED
  BY <1>2, <1>3

\* What counts the votes changes none.
LEMMA DetailsKeep ==
    ASSUME VotingInv, NEW c \in VotingCalls,
           \/ ReadDetails(c) \/ CountHint(c) \/ ProbeHint(c) \/ Double(c) \/ Bisect(c)
           \/ LoadTallyKey(c) \/ LoadTallyVotes(c) \/ CountDecrypted(c)
    PROVE  VotingInv'
<1> DEFINE Pcs == {"count", "probe", "double", "bisect", "ok"}
<1>1. UNCHANGED <<keyId, keyOwner, zkVotes>>
  BY DEF ReadDetails, CountHint, ProbeHint, Double, Bisect, LoadTallyKey, LoadTallyVotes,
         CountDecrypted, votingRows
<1>2. \A pc \in Pcs : ElsewhereInVoting(pc)
  BY DEF ElsewhereInVoting, LookupPcs, AcceptedPcs
<1>3. ASSUME NEW t, NEW n, Show(c, t, n) PROVE \E pc \in Pcs : Step(c, pc)
  BY <1>3 DEF Show
<1>4. UNCHANGED votingCall \/ \E pc \in Pcs : Step(c, pc)
  <2>1. CASE ReadDetails(c)
    BY <2>1 DEF ReadDetails
  <2>2. CASE CountHint(c)
    BY <1>3, <2>2 DEF CountHint
  <2>3. CASE ProbeHint(c)
    BY <1>3, <2>3 DEF ProbeHint
  <2>4. CASE Double(c)
    BY <2>4 DEF Double
  <2>5. CASE Bisect(c)
    BY <1>3, <2>5 DEF Bisect
  <2>6. CASE LoadTallyKey(c) \/ LoadTallyVotes(c)
    BY <2>6 DEF LoadTallyKey, LoadTallyVotes
  <2>7. CASE CountDecrypted(c)
    BY <1>3, <2>7 DEF CountDecrypted
  <2> QED
    BY <2>1, <2>2, <2>3, <2>4, <2>5, <2>6, <2>7
<1>5. CASE UNCHANGED votingCall
  BY <1>1, <1>5 DEF VotingInv, VotingCallsOK, ZkVotesOK, EveryVoteCanBeCounted
<1>6. CASE \E pc \in Pcs : Step(c, pc)
  BY <1>1, <1>2, <1>6, StepElsewhere
<1> QED
  BY <1>4, <1>5, <1>6

\* Polls that close and voters that change take no vote away.
LEMMA ChangesKeep ==
    ASSUME VotingInv, NEW c \in VotingCalls, Closing(c) \/ ChangeVoter(c) \/ DeleteVoter(c)
    PROVE  VotingInv'
<1>1. UNCHANGED <<keyId, keyOwner, zkVotes>>
  BY DEF Closing, ChangeVoter, DeleteVoter
<1>2. CASE Closing(c)
  <2>1. Step(c, "ok") /\ ElsewhereInVoting("ok")
    BY <1>2 DEF Closing, ElsewhereInVoting, LookupPcs, AcceptedPcs
  <2> QED
    BY <1>1, <2>1, StepElsewhere
<1>3. CASE ChangeVoter(c) \/ DeleteVoter(c)
  <2>1. Moving(c, VoterOf(c))
    BY <1>3 DEF ChangeVoter, DeleteVoter
  <2> QED
    BY <1>1, <2>1, MovingKeeps
<1> QED
  BY <1>2, <1>3

-----------------------------------------------------------------------------
LEMMA VotingInvStep == VotingInv /\ [VotingNext]_votingVars => VotingInv'
<1> SUFFICES ASSUME VotingInv, [VotingNext]_votingVars PROVE VotingInv'
  OBVIOUS
<1>1. CASE VotingNext
  <2> PICK c \in VotingCalls :
        \/ FetchKey(c) \/ FindKeyByPoll(c) \/ FindKeyByKey(c) \/ InsertKey(c) \/ FindRacedKey(c)
        \/ PrepareBallot(c) \/ Submit(c) \/ LoadPoll(c) \/ FindOption(c) \/ FindIdentity(c)
        \/ FindExistingVote(c) \/ LoadIdentityProfile(c)
        \/ VerifyGroth16Proof(c) \/ VerifyLegacyProof(c) \/ FindNullifier(c) \/ InsertZkVote(c) \/ InsertDevVote(c)
        \/ ReadDetails(c) \/ CountHint(c) \/ ProbeHint(c) \/ Double(c) \/ Bisect(c)
        \/ LoadTallyKey(c) \/ LoadTallyVotes(c) \/ CountDecrypted(c)
        \/ Closing(c) \/ ChangeVoter(c) \/ DeleteVoter(c)
    BY <1>1 DEF VotingNext
  <2> QED
    BY KeyLookupsKeep, PrepareBallotKeeps, ChecksKeep, LoadIdentityProfileKeeps, VerifyProofKeeps,
       FindNullifierKeeps, InsertZkVoteKeeps, InsertDevVoteKeeps, DetailsKeep, ChangesKeep
<1>2. CASE UNCHANGED votingVars
  BY <1>2 DEF votingVars, votingRows, VotingInv, VotingCallsOK, ZkVotesOK, EveryVoteCanBeCounted
<1> QED
  BY <1>1, <1>2

\* Every vote of a production poll was made for the poll and under the key
\* that its tally will find, in any number of requests that race for keys.
THEOREM EveryVoteCanBeCountedAlways == VotingSpec => []EveryVoteCanBeCounted
<1>1. VotingInv => EveryVoteCanBeCounted
  BY DEF VotingInv, ZkVotesOK
<1> QED
  BY VotingInvInit, VotingInvStep, <1>1, PTL DEF VotingSpec

-----------------------------------------------------------------------------
(* Voting: what a vote goes by. *)

Parts == {"identity", "area", "land"}
CountPcs == {"count", "probe", "double", "bisect"}
EndPcs == {"ok", "already", "rejected", "failed"}
InRequest(r) == r.pc \notin {"idle"} \cup EndPcs

\* A request that knows the rules are met, and one that knows the account is
Judged(r) == \/ r.pc \in AcceptedPcs
             \/ r.pc \in LookupPcs /\ r.ballot # NoBallot
Submitted(r) == r.pc \in {"poll", "option", "identity", "existing", "profile"} \/ Judged(r)

VotingCallFits(r) ==
    /\ IsCall(r) /\ r.poll \in AllPolls /\ r.voter \in Voters
    /\ r.land \in BOOLEAN /\ r.moved \in BOOLEAN /\ r.fit \in BOOLEAN
    /\ r.op = "change" => r.arg \in Parts
    /\ r.pc = "idle" => ~r.land
    /\ r.pc \in CountPcs => r.op = "details"
    /\ r.ballot # NoBallot => r.ballot.voter = r.voter
    /\ r.pc \in {"option", "existing"} => r.poll \notin ZkPolls
    /\ r.poll \notin ZkPolls /\ r.pc \in {"identity", "existing", "profile"} \cup AcceptedPcs
         => r.ballot.option \in PollChoices

\* What a request has found of its voter is so still, unless the voter moved.
VoterHolds(r) ==
    /\ r.fit \/ r.moved
    /\ Submitted(r) => r.moved \/ voters[r.voter].active
    /\ InRequest(r) /\ ~r.moved =>
              /\ r.land => "land" \in voters[r.voter].has
              /\ r.pc \in {"existing", "profile"} /\ "identity" \in Rules[r.poll]
                   => "identity" \in voters[r.voter].has
              /\ Judged(r) => Rules[r.poll] \subseteq voters[r.voter].has

Cast(p, u) == \/ \E v \in votes : v.poll = p /\ v.voter = u
              \/ \E v \in zkVotes : v.poll = p /\ v.ballot.voter = u

AnswerHolds(r) == r.op \in {"vote", "again"} /\ r.pc \in {"ok", "already"}
    => Cast(r.poll, r.voter) \/ ~voters[r.voter].active

CastOK(r) == VotingCallFits(r) /\ VoterHolds(r) /\ AnswerHolds(r)

Resent == \A c, d \in VotingCalls : votingCall[c].op = "again" /\ votingCall[c].arg = d
                                    => votingCall[d].voter = votingCall[c].voter

GoneOrMoved == \A u \in Voters : ~voters[u].active =>
    \/ \A v \in votes : v.voter # u
    \/ \E d \in VotingCalls : votingCall[d].voter = u /\ votingCall[d].moved

CastTypes ==
    /\ votes \subseteq [poll : DevPolls, voter : Voters, option : PollChoices]
    /\ voters \in [Voters -> [active : BOOLEAN, has : SUBSET Parts]]
    /\ closed \subseteq AllPolls
    /\ \A v \in zkVotes : v.by \in VotingCalls

CastInv ==
    /\ VotingInv /\ CastTypes /\ Resent /\ GoneOrMoved /\ NobodyVotesTwice
    /\ \A c \in VotingCalls : CastOK(votingCall[c])

-----------------------------------------------------------------------------
Goes(q, r, pc) ==
    /\ IsCall(q) /\ q.op = r.op /\ q.poll = r.poll /\ q.voter = r.voter /\ q.arg = r.arg
    /\ q.pc = pc /\ q.moved = r.moved

SameVotes == UNCHANGED <<zkVotes, votes, voters, closed>>

LEMMA CastCallOf ==
    ASSUME CastInv, NEW c \in VotingCalls, NEW r, r = votingCall[c]
    PROVE  /\ CastOK(r) /\ VotingCallFits(r) /\ IsCall(r) /\ VotingCallOK(r, keyOwner, keyId)
           /\ votingCall = [d \in VotingCalls |-> votingCall[d]]
  BY DEF CastInv, CastOK, VotingCallFits, VotingInv, VotingCallsOK

\* A request that only moves on, while no vote and no voter changes.
LEMMA CastStep ==
    ASSUME CastInv, VotingInv', NEW c \in VotingCalls, NEW q, SameVotes,
           votingCall' = [votingCall EXCEPT ![c] = q],
           Goes(q, votingCall[c], q.pc), CastOK(q)
    PROVE  CastInv'
  <1>1. /\ votingCall'[c] = q /\ \A d \in VotingCalls \ {c} : votingCall'[d] = votingCall[d]
    BY CastCallOf
  <1>2. \A d \in VotingCalls : /\ votingCall'[d].op = votingCall[d].op
                               /\ votingCall'[d].arg = votingCall[d].arg
                               /\ votingCall'[d].voter = votingCall[d].voter
                               /\ votingCall'[d].moved = votingCall[d].moved
    BY <1>1 DEF Goes
  <1>3. Resent'  BY <1>2 DEF CastInv, Resent
  <1>4. GoneOrMoved'  BY <1>2 DEF CastInv, GoneOrMoved, SameVotes
  <1>5. NobodyVotesTwice' /\ CastTypes'
    BY DEF CastInv, NobodyVotesTwice, CastTypes, SameVotes
  <1>6. ASSUME NEW d \in VotingCalls
        PROVE  CastOK(votingCall[d])'
    <2>1. PICK r : r = votingCall'[d]  OBVIOUS
    <2>2. CastOK(r)  BY <1>1, <2>1 DEF CastInv
    <2>3. CastOK(r)'
      BY <2>2 DEF CastOK, VotingCallFits, VoterHolds, AnswerHolds, Cast, SameVotes
    <2> QED  BY <2>1, <2>3
  <1> QED  BY <1>3, <1>4, <1>5, <1>6 DEF CastInv

MayGo(r, pc) == \A q : Goes(q, r, pc) /\ q.ballot = r.ballot /\ q.land = r.land /\ q.fit = r.fit
                       => CastOK(q)

LEMMA CastGoes ==
    ASSUME CastInv, VotingInv', NEW c \in VotingCalls, NEW r, r = votingCall[c], NEW pc,
           Step(c, pc), SameVotes, MayGo(r, pc)
    PROVE  CastInv'
  <1>1. IsCall(r)  BY CastCallOf
  <1>2. PICK q : q = [r EXCEPT !.pc = pc]  OBVIOUS
  <1>3. Goes(q, r, pc) /\ q.ballot = r.ballot /\ q.land = r.land /\ q.fit = r.fit /\ q.pc = pc
    BY <1>1, <1>2 DEF IsCall, Goes
  <1>4. votingCall' = [votingCall EXCEPT ![c] = q]  BY <1>2 DEF Step
  <1> QED  BY <1>3, <1>4, CastStep DEF MayGo

\* A request that is rejected has nothing to hold but what it is about.
LEMMA MayEnd ==
    ASSUME NEW r, CastOK(r), NEW pc \in {"rejected", "failed"}
    PROVE  MayGo(r, pc)
  BY DEF MayGo, Goes, CastOK, VotingCallFits, VoterHolds, AnswerHolds, Judged, Submitted, InRequest, EndPcs,
         CountPcs, AcceptedPcs, LookupPcs

\* A step between the places of a request, with what it found
LEMMA MayProceed ==
    ASSUME NEW r, CastOK(r), NEW pc,
           \/ r.pc = "idle" /\ pc = "byPoll" /\ r.ballot = NoBallot
           \/ r.pc \in LookupPcs /\ pc \in LookupPcs
           \/ r.pc \in LookupPcs /\ pc = "proof" /\ r.ballot # NoBallot /\ r.poll \in ZkPolls
           \/ r.pc = "poll" /\ pc = "option" /\ r.poll \notin ZkPolls
           \/ r.pc = "poll" /\ pc = "identity" /\ r.poll \in ZkPolls
           \/ /\ r.pc = "option" /\ pc = "existing" /\ r.poll \notin ZkPolls
              /\ "identity" \notin Rules[r.poll] /\ r.ballot.option \in PollChoices
           \/ r.pc = "option" /\ pc = "identity" /\ r.ballot.option \in PollChoices
           \/ /\ r.pc = "existing" /\ pc = "profile"
           \/ r.pc = "proof" /\ pc = "nullifier"
           \/ r.pc = "nullifier" /\ pc = "insert"
    PROVE  MayGo(r, pc)
  BY DEF MayGo, Goes, CastOK, VotingCallFits, VoterHolds, AnswerHolds, Judged, Submitted, InRequest, EndPcs,
         CountPcs, AcceptedPcs, LookupPcs, NoBallot

LEMMA CastKeyAnswered ==
    ASSUME CastInv, VotingInv', NEW c \in VotingCalls, NEW r, r = votingCall[c],
           r.pc \in LookupPcs, NEW key, KeyAnswered(c, key), SameVotes
    PROVE  CastInv'
  <1>1. CastOK(r) /\ IsCall(r) /\ r.poll \in ZkPolls
    BY CastCallOf DEF VotingCallOK, LookupOK
  <1>2. CASE r.ballot = NoBallot
    <2>1. PICK ballot : ballot = MakeBallot(r, key)  OBVIOUS
    <2>2. PICK q : q = [r EXCEPT !.pc = "ready", !.ballot = ballot]  OBVIOUS
    <2>3. votingCall' = [votingCall EXCEPT ![c] = q]
      BY <1>2, <2>1, <2>2 DEF KeyAnswered, BallotOf
    <2>4. /\ Goes(q, r, "ready") /\ q.ballot = ballot /\ q.land = r.land /\ q.fit = r.fit
          /\ q.pc = "ready"
      BY <1>1, <2>2 DEF IsCall, Goes
    <2>5. ballot.voter = r.voter  BY <2>1 DEF MakeBallot
    <2>6. CastOK(q)
      BY <1>1, <2>4, <2>5
         DEF Goes, CastOK, VotingCallFits, VoterHolds, AnswerHolds, Judged, Submitted, InRequest, EndPcs,
             CountPcs, AcceptedPcs, LookupPcs
    <2> QED  BY <2>3, <2>4, <2>6, CastStep
  <1>3. CASE r.ballot # NoBallot
    <2>1. Step(c, "proof") \/ Step(c, "rejected")
      BY <1>3 DEF KeyAnswered, BallotOf, Check
    <2>2. MayGo(r, "proof") /\ MayGo(r, "rejected")
      BY <1>1, <1>3, MayProceed, MayEnd
    <2> QED  BY <2>1, <2>2, CastGoes
  <1> QED  BY <1>2, <1>3

LEMMA CastLookups ==
    ASSUME CastInv, VotingInv', NEW c \in VotingCalls,
           FetchKey(c) \/ FindKeyByPoll(c) \/ FindKeyByKey(c) \/ InsertKey(c) \/ FindRacedKey(c)
    PROVE  CastInv'
  <1>1. PICK r : r = votingCall[c]  OBVIOUS
  <1>2. CastOK(r) /\ (r.pc = "idle" => r.ballot = NoBallot)
    BY <1>1, CastCallOf DEF VotingCallOK, BallotHasKey
  <1>3. SameVotes
    BY DEF FetchKey, FindKeyByPoll, FindKeyByKey, InsertKey, FindRacedKey, Reads, votingRows,
           SameVotes
  <1>4. \A pc \in LookupPcs : r.pc \in LookupPcs => MayGo(r, pc)
    BY <1>2, MayProceed
  <1>5. MayGo(r, "rejected")  BY <1>2, MayEnd
  <1>6. ASSUME r.pc \in LookupPcs, NEW pc \in LookupPcs \cup {"rejected"}, Step(c, pc)
        PROVE  CastInv'
    BY <1>1, <1>3, <1>4, <1>5, <1>6, CastGoes
  <1>7. ASSUME r.pc \in LookupPcs, NEW key, KeyAnswered(c, key)
        PROVE  CastInv'
    BY <1>1, <1>3, <1>7, CastKeyAnswered
  <1>8. CASE FetchKey(c)
    <2>1. Step(c, "byPoll") /\ r.pc = "idle"  BY <1>1, <1>8 DEF FetchKey, PcIs
    <2>2. MayGo(r, "byPoll")  BY <1>2, <2>1, MayProceed
    <2> QED  BY <1>1, <1>3, <2>1, <2>2, CastGoes
  <1>9. CASE FindKeyByPoll(c)
    <2>1. r.pc \in LookupPcs /\ (Step(c, "byKey") \/ Step(c, "rejected"))
      BY <1>1, <1>9 DEF FindKeyByPoll, PcIs, Check, LookupPcs
    <2> QED  BY <1>6, <2>1 DEF LookupPcs
  <1>10. CASE FindKeyByKey(c)
    <2>1. r.pc \in LookupPcs  BY <1>1, <1>10 DEF FindKeyByKey, PcIs, LookupPcs
    <2>2. /\ keyId[PollOf(c)] \in KeyNames /\ keyId[PollOf(c)] # NoPoll /\ PollOf(c) # NoPoll
      BY <1>1, <2>1, CastCallOf, KeyOfPoll DEF CastInv, VotingInv, KeysOK, VotingCallOK, LookupOK, PollOf
    <2>3. \/ Step(c, "insertKey") \/ Step(c, "rejected")
          \/ KeyAnswered(c, keyId[PollOf(c)])
      BY <1>10, <2>2 DEF FindKeyByKey, IsKeyOf
    <2> QED  BY <1>6, <1>7, <2>1, <2>3 DEF LookupPcs
  <1>11. CASE InsertKey(c)
    <2>1. r.pc \in LookupPcs /\ (Step(c, "racedKey") \/ KeyAnswered(c, keyId[PollOf(c)]))
      BY <1>1, <1>11 DEF InsertKey, PcIs, LookupPcs
    <2> QED  BY <1>6, <1>7, <2>1 DEF LookupPcs
  <1>12. CASE FindRacedKey(c)
    <2>1. r.pc \in LookupPcs /\ (Step(c, "rejected") \/ KeyAnswered(c, keyId[PollOf(c)]))
      BY <1>1, <1>12 DEF FindRacedKey, PcIs, LookupPcs
    <2> QED  BY <1>6, <1>7, <2>1 DEF LookupPcs
  <1> QED  BY <1>8, <1>9, <1>10, <1>11, <1>12

\* A ballot of a device is of its voter, and so is one that is sent again.
LEMMA CastPrepared ==
    ASSUME CastInv, VotingInv', NEW c \in VotingCalls, PrepareBallot(c)
    PROVE  CastInv'
  <1>1. PICK r : r = votingCall[c]  OBVIOUS
  <1>2. CastOK(r) /\ IsCall(r) /\ r.pc = "idle" /\ SameVotes
    BY <1>1, CastCallOf DEF PrepareBallot, PcIs, Reads, votingRows, SameVotes
  <1>3. PICK ballot : /\ votingCall' = [votingCall EXCEPT ![c].pc = "ready", ![c].ballot = ballot]
                      /\ ballot # NoBallot => ballot.voter = r.voter
    <2>1. CASE OpIs(c, "vote")
      <3>1. votingCall' = [votingCall EXCEPT ![c].pc = "ready",
                                             ![c].ballot = MakeBallot(votingCall[c], NoPoll)]
        BY <2>1 DEF PrepareBallot, OpIs
      <3>2. MakeBallot(votingCall[c], NoPoll).voter = r.voter  BY <1>1 DEF MakeBallot
      <3> QED  BY <3>1, <3>2
    <2>2. CASE OpIs(c, "again")
      <3>1. PICK d \in VotingCalls : /\ d = r.arg /\ BallotOf(d) # NoBallot
                                     /\ votingCall' = [votingCall EXCEPT ![c].pc = "ready",
                                                                     ![c].ballot = BallotOf(d)]
        BY <1>1, <2>2 DEF PrepareBallot, OpIs
      <3>2. votingCall[d].voter = r.voter
        BY <1>1, <2>2, <3>1 DEF CastInv, Resent, OpIs
      <3>3. BallotOf(d).voter = votingCall[d].voter
        BY <3>1 DEF CastInv, CastOK, VotingCallFits, BallotOf
      <3> QED  BY <3>1, <3>2, <3>3
    <2> QED  BY <2>1, <2>2 DEF PrepareBallot
  <1>4. PICK q : q = [r EXCEPT !.pc = "ready", !.ballot = ballot]  OBVIOUS
  <1>5. votingCall' = [votingCall EXCEPT ![c] = q]  BY <1>1, <1>3, <1>4
  <1>6. /\ Goes(q, r, "ready") /\ q.ballot = ballot /\ q.land = r.land /\ q.fit = r.fit
        /\ q.pc = "ready"
    BY <1>2, <1>4 DEF IsCall, Goes
  <1>7. CastOK(q)
    BY <1>2, <1>3, <1>6
       DEF Goes, CastOK, VotingCallFits, VoterHolds, AnswerHolds, Judged, Submitted, InRequest, EndPcs,
           CountPcs, AcceptedPcs, LookupPcs
  <1> QED  BY <1>1, <1>2, <1>5, <1>6, <1>7, CastStep

LEMMA CastSubmitted ==
    ASSUME CastInv, VotingInv', NEW c \in VotingCalls, Submit(c)
    PROVE  CastInv'
  <1>1. PICK r : r = votingCall[c]  OBVIOUS
  <1>2. CastOK(r) /\ IsCall(r) /\ r.pc = "ready" /\ SameVotes
    BY <1>1, CastCallOf DEF Submit, PcIs, Reads, votingRows, SameVotes
  <1>3. PICK pc : pc = IF voters[r.voter].active THEN "poll" ELSE "rejected"  OBVIOUS
  <1>4. PICK land : land = ("land" \in voters[r.voter].has) /\ land \in BOOLEAN
    <2>1. ("land" \in voters[r.voter].has) \in BOOLEAN  OBVIOUS
    <2> QED  BY <2>1, Zenon
  <1>5. PICK q : q = [r EXCEPT !.pc = pc, !.land = land]  OBVIOUS
  <1>6. votingCall' = [votingCall EXCEPT ![c] = q]
    BY <1>1, <1>3, <1>4, <1>5 DEF Submit, Has, VoterOf
  <1>7. Goes(q, r, pc) /\ q.ballot = r.ballot /\ q.land = land /\ q.fit = r.fit /\ q.pc = pc
    BY <1>2, <1>5 DEF IsCall, Goes
  <1>8. CastOK(q)
    BY <1>2, <1>3, <1>4, <1>7
       DEF Goes, CastOK, VotingCallFits, VoterHolds, AnswerHolds, Judged, Submitted, InRequest, EndPcs,
           CountPcs, AcceptedPcs, LookupPcs
  <1> QED  BY <1>1, <1>2, <1>6, <1>7, <1>8, CastStep

LEMMA CastChecks ==
    ASSUME CastInv, VotingInv', NEW c \in VotingCalls,
           \/ LoadPoll(c) \/ FindOption(c) \/ FindIdentity(c) \/ FindExistingVote(c)
    PROVE  CastInv'
  <1>1. PICK r : r = votingCall[c]  OBVIOUS
  <1>2. CastOK(r) /\ IsCall(r) /\ SameVotes /\ PollOf(c) = r.poll /\ VoterOf(c) = r.voter
        /\ BallotOf(c) = r.ballot
    BY <1>1, CastCallOf
       DEF LoadPoll, FindOption, FindIdentity, FindExistingVote, Reads, votingRows, SameVotes,
           PollOf, VoterOf, BallotOf
  <1>3. MayGo(r, "rejected")  BY <1>2, MayEnd
  <1>4. ASSUME NEW pc, Step(c, pc), MayGo(r, pc) PROVE CastInv'
    BY <1>1, <1>2, <1>4, CastGoes
  <1>5. CASE LoadPoll(c)
    <2>1. PICK pc \in {"identity", "option", "rejected"} :
            /\ Step(c, pc) /\ r.pc = "poll"
            /\ (pc = "identity" => r.poll \in ZkPolls) /\ (pc = "option" => r.poll \notin ZkPolls)
      BY <1>1, <1>2, <1>5 DEF LoadPoll, PcIs, Check, IsZk
    <2>2. MayGo(r, pc)  BY <1>2, <1>3, <2>1, MayProceed
    <2> QED  BY <1>4, <2>1, <2>2
  <1>6. CASE FindOption(c)
    <2>1. r.pc = "option" /\ r.poll \notin ZkPolls
      BY <1>1, <1>2, <1>6 DEF FindOption, PcIs, CastOK, VotingCallFits
    <2>2. PICK pc \in {"identity", "existing", "rejected"} :
            /\ Step(c, pc)
            /\ pc # "rejected" => r.ballot.option \in PollChoices
            /\ pc = "existing" => "identity" \notin Rules[r.poll]
      BY <1>2, <1>6 DEF FindOption, Check, Asks
    <2>3. MayGo(r, pc)  BY <1>2, <1>3, <2>1, <2>2, MayProceed
    <2> QED  BY <1>4, <2>2, <2>3
  <1>7. CASE FindIdentity(c)
    <2>1. r.pc = "identity"  BY <1>1, <1>7 DEF FindIdentity, PcIs
    <2>2. PICK pc \in {"profile", "existing", "rejected"} :
            /\ Step(c, pc)
            /\ pc # "rejected" => "identity" \in voters[r.voter].has
            /\ pc = "existing" => r.poll \notin ZkPolls
            /\ pc = "profile" => r.poll \in ZkPolls
      BY <1>2, <1>7 DEF FindIdentity, Check, Has, IsZk
    <2>3. MayGo(r, pc)
      BY <1>2, <1>3, <2>1, <2>2
         DEF MayGo, Goes, CastOK, VotingCallFits, VoterHolds, AnswerHolds, Judged, Submitted, InRequest,
             EndPcs, CountPcs, AcceptedPcs, LookupPcs
    <2> QED  BY <1>4, <2>2, <2>3
  <1>8. CASE FindExistingVote(c)
    <2>1. r.pc = "existing"  BY <1>1, <1>8 DEF FindExistingVote, PcIs
    <2>2. PICK pc \in {"profile", "already"} :
            Step(c, pc) /\ (pc = "already" => Cast(r.poll, r.voter))
      BY <1>2, <1>8 DEF FindExistingVote, HasVoted, Cast
    <2>3. MayGo(r, pc)
      BY <1>2, <2>1, <2>2
         DEF MayGo, Goes, CastOK, VotingCallFits, VoterHolds, AnswerHolds, Judged, Submitted, InRequest,
             EndPcs, CountPcs, AcceptedPcs, LookupPcs
    <2> QED  BY <1>4, <2>2, <2>3
  <1> QED  BY <1>5, <1>6, <1>7, <1>8

\* Here a request has met all rules of the poll.
LEMMA CastJudged ==
    ASSUME CastInv, VotingInv', NEW c \in VotingCalls, LoadIdentityProfile(c)
    PROVE  CastInv'
  <1>1. PICK r : r = votingCall[c]  OBVIOUS
  <1>2. CastOK(r) /\ IsCall(r) /\ SameVotes /\ PollOf(c) = r.poll /\ VoterOf(c) = r.voter
        /\ BallotOf(c) = r.ballot /\ r.pc = "profile"
    BY <1>1, CastCallOf
       DEF LoadIdentityProfile, PcIs, Reads, votingRows, SameVotes, PollOf, VoterOf, BallotOf
  <1>3. PICK pc \in {"byPoll", "proof", "insert", "rejected"} :
          /\ Step(c, pc) /\ (pc # "rejected" => MeetsRules(c))
          /\ pc \in {"proof", "insert"} => r.poll \notin ZkPolls
          /\ pc = "byPoll" => r.poll \in ZkPolls /\ r.ballot.key = keyId[r.poll]
    BY <1>2 DEF LoadIdentityProfile, Check, NamesKeyOfPoll, IsZk
  <1>4. CASE pc = "rejected"
    BY <1>1, <1>2, <1>3, <1>4, MayEnd, CastGoes
  <1>5. CASE pc # "rejected"
    <2>1. ~r.moved => Rules[r.poll] \subseteq voters[r.voter].has
      <3>1. ~r.moved => /\ r.land => "land" \in voters[r.voter].has
                        /\ "identity" \in Rules[r.poll] => "identity" \in voters[r.voter].has
        BY <1>2 DEF CastOK, VoterHolds, InRequest, EndPcs
      <3>2. /\ "area" \in Rules[r.poll] => "area" \in voters[r.voter].has
            /\ "land" \in Rules[r.poll] => r.land
        BY <1>1, <1>2, <1>3, <1>5 DEF MeetsRules, Asks, Has
      <3>3. Rules[r.poll] \subseteq Parts
        BY <1>2, RulesAssumption DEF CastOK, VotingCallFits, AllPolls, Parts
      <3> QED  BY <3>1, <3>2, <3>3 DEF Parts
    <2>2. r.moved \/ voters[r.voter].active
      BY <1>2 DEF CastOK, VoterHolds, Submitted
    <2>3. MayGo(r, pc)
      BY <1>2, <1>3, <1>5, <2>1, <2>2
         DEF MayGo, Goes, CastOK, VotingCallFits, VoterHolds, AnswerHolds, Judged, Submitted, InRequest,
             EndPcs, CountPcs, AcceptedPcs, LookupPcs
    <2> QED  BY <1>1, <1>2, <1>3, <2>3, CastGoes
  <1> QED  BY <1>4, <1>5

LEMMA CastProved ==
    ASSUME CastInv, VotingInv', NEW c \in VotingCalls,
           VerifyGroth16Proof(c) \/ VerifyLegacyProof(c)
    PROVE  CastInv'
  <1>1. PICK r : r = votingCall[c]  OBVIOUS
  <1>2. CastOK(r) /\ SameVotes /\ r.pc = "proof"
    BY <1>1, CastCallOf
       DEF VerifyGroth16Proof, VerifyLegacyProof, PcIs, Reads, votingRows, SameVotes
  <1>3. Step(c, "nullifier") \/ Step(c, "rejected")
    BY DEF VerifyGroth16Proof, VerifyLegacyProof, Check
  <1>4. MayGo(r, "nullifier") /\ MayGo(r, "rejected")
    BY <1>2, MayProceed, MayEnd
  <1> QED  BY <1>1, <1>2, <1>3, <1>4, CastGoes

\* A nullifier that is spent is one of the voter's.
LEMMA SpentIsCast ==
    ASSUME CastInv, NEW c \in VotingCalls, NEW r, r = votingCall[c],
           r.pc \in {"nullifier", "insert"}, NullifierSpent(c)
    PROVE  Cast(r.poll, r.voter)
  <1>1. PICK v \in zkVotes : v.poll = r.poll /\ Nullifier(v.ballot) = Nullifier(r.ballot)
    BY DEF NullifierSpent, PollOf, BallotOf
  <1>2. r.poll \in ZkPolls
    BY <1>1 DEF CastInv, VotingInv, ZkVotesOK
  <1>3. r.ballot.key = keyId[r.poll] /\ keyId[r.poll] # NoPoll
    BY <1>2, KeyOfPoll, CastCallOf
       DEF CastInv, VotingInv, KeysOK, VotingCallOK, AcceptedOK, AcceptedPcs
  <1>4. r.ballot # NoBallot  BY <1>3 DEF NoBallot
  <1>5. r.ballot.voter = r.voter  BY <1>4, CastCallOf DEF VotingCallFits
  <1>6. v.ballot.voter = r.ballot.voter  BY <1>1 DEF Nullifier
  <1> QED  BY <1>1, <1>5, <1>6 DEF Cast

LEMMA CastNullified ==
    ASSUME CastInv, VotingInv', NEW c \in VotingCalls, FindNullifier(c)
    PROVE  CastInv'
  <1>1. PICK r : r = votingCall[c]  OBVIOUS
  <1>2. CastOK(r) /\ SameVotes /\ r.pc = "nullifier"
    BY <1>1, CastCallOf DEF FindNullifier, PcIs, Reads, votingRows, SameVotes
  <1>3. PICK pc \in {"already", "insert"} :
          Step(c, pc) /\ (pc = "already" => NullifierSpent(c) \/ HasVoted(c))
    BY DEF FindNullifier
  <1>4. pc = "already" => Cast(r.poll, r.voter)
    BY <1>1, <1>2, <1>3, SpentIsCast DEF HasVoted, Cast, PollOf, VoterOf
  <1>5. MayGo(r, pc)
    BY <1>2, <1>3, <1>4
       DEF MayGo, Goes, CastOK, VotingCallFits, VoterHolds, AnswerHolds, Judged, Submitted, InRequest,
           EndPcs, CountPcs, AcceptedPcs, LookupPcs
  <1> QED  BY <1>1, <1>2, <1>3, <1>5, CastGoes

-----------------------------------------------------------------------------
(* Voting: the votes *)

\* A vote more: what is known of the other requests stays, and so does what
\* is known of the voters.
LEMMA VoteAdded ==
    ASSUME CastInv, VotingInv', NEW c \in VotingCalls, NEW q,
           zkVotes \subseteq zkVotes', votes \subseteq votes', UNCHANGED <<voters, closed>>,
           CastTypes', NobodyVotesTwice',
           votingCall' = [votingCall EXCEPT ![c] = q],
           Goes(q, votingCall[c], q.pc), VotingCallFits(q), VoterHolds(q), AnswerHolds(q)',
           \A v \in votes' \ votes :
               v.voter = votingCall[c].voter /\ (votingCall[c].moved \/ voters[v.voter].active)
    PROVE  CastInv'
  <1>1. /\ votingCall'[c] = q /\ \A d \in VotingCalls \ {c} : votingCall'[d] = votingCall[d]
    BY CastCallOf
  <1>2. \A d \in VotingCalls : /\ votingCall'[d].op = votingCall[d].op
                               /\ votingCall'[d].arg = votingCall[d].arg
                               /\ votingCall'[d].voter = votingCall[d].voter
                               /\ votingCall'[d].moved = votingCall[d].moved
    BY <1>1 DEF Goes
  <1>3. Resent'  BY <1>2 DEF CastInv, Resent
  <1>4. GoneOrMoved'
    <2> SUFFICES ASSUME NEW u \in Voters, ~voters[u].active,
                        NEW v \in votes', v.voter = u
                 PROVE  \E d \in VotingCalls : votingCall'[d].voter = u /\ votingCall'[d].moved
      BY DEF GoneOrMoved
    <2>1. CASE v \in votes
      BY <1>2, <2>1 DEF CastInv, GoneOrMoved
    <2>2. CASE v \notin votes
      BY <1>2, <2>2
    <2> QED  BY <2>1, <2>2
  <1>5. ASSUME NEW d \in VotingCalls
        PROVE  CastOK(votingCall[d])'
    <2>1. PICK r : r = votingCall'[d]  OBVIOUS
    <2>2. CASE d = c
      <3>1. r = q  BY <1>1, <2>1, <2>2
      <3>2. VotingCallFits(r)' /\ VoterHolds(r)'  BY <3>1 DEF VotingCallFits, VoterHolds
      <3>3. AnswerHolds(r)'  BY <3>1
      <3> QED  BY <2>1, <3>2, <3>3 DEF CastOK
    <2>3. CASE d # c
      <3>1. CastOK(r)  BY <1>1, <2>1, <2>3 DEF CastInv
      <3>2. CastOK(r)'
        BY <3>1 DEF CastOK, VotingCallFits, VoterHolds, AnswerHolds, Cast
      <3> QED  BY <2>1, <3>2
    <2> QED  BY <2>2, <2>3
  <1> QED  BY <1>3, <1>4, <1>5 DEF CastInv

\* What is noted of a voter when the vote is stored
LEMMA FitsWhenRecorded ==
    ASSUME CastInv, NEW c \in VotingCalls, NEW r, r = votingCall[c], r.pc = "insert",
           NEW pc \in EndPcs, Recorded(c, pc)
    PROVE  \E q : /\ votingCall' = [votingCall EXCEPT ![c] = q] /\ Goes(q, r, pc) /\ q.pc = pc
                  /\ VotingCallFits(q) /\ VoterHolds(q) /\ q.ballot = r.ballot
  <1>1. CastOK(r) /\ IsCall(r)  BY CastCallOf
  <1>2. PICK fit : fit = (Rules[r.poll] \subseteq voters[r.voter].has) /\ fit \in BOOLEAN
    <2>1. (Rules[r.poll] \subseteq voters[r.voter].has) \in BOOLEAN  OBVIOUS
    <2> QED  BY <2>1, Zenon
  <1>3. PICK q : q = [r EXCEPT !.pc = pc, !.fit = fit]  OBVIOUS
  <1>4. votingCall' = [votingCall EXCEPT ![c] = q]
    BY <1>2, <1>3 DEF Recorded, PollOf, VoterOf
  <1>5. Goes(q, r, pc) /\ q.ballot = r.ballot /\ q.land = r.land /\ q.fit = fit /\ q.pc = pc
    BY <1>1, <1>3 DEF IsCall, Goes
  <1>6. fit \/ r.moved
    BY <1>1, <1>2 DEF CastOK, VoterHolds, Judged, AcceptedPcs, InRequest, EndPcs
  <1>7. VotingCallFits(q) /\ VoterHolds(q)
    BY <1>1, <1>2, <1>5, <1>6
       DEF Goes, CastOK, VotingCallFits, VoterHolds, Judged, Submitted, InRequest, EndPcs, CountPcs,
           AcceptedPcs, LookupPcs
  <1> QED  BY <1>4, <1>5, <1>7

LEMMA CastInserted ==
    ASSUME CastInv, VotingInv', NEW c \in VotingCalls, InsertZkVote(c)
    PROVE  CastInv'
  <1>1. PICK r : r = votingCall[c]  OBVIOUS
  <1>2. CastOK(r) /\ r.pc = "insert" /\ r.poll \in ZkPolls
        /\ UNCHANGED <<votes, voters, closed>>
        /\ PollOf(c) = r.poll /\ VoterOf(c) = r.voter /\ BallotOf(c) = r.ballot
    BY <1>1, CastCallOf DEF InsertZkVote, PcIs, IsZk, PollOf, VoterOf, BallotOf
  <1>3. CASE ~MayInsertZkVote(c)
    <2>1. Step(c, "already") /\ SameVotes
      BY <1>2, <1>3 DEF InsertZkVote, SameVotes
    <2>2. Cast(r.poll, r.voter)
      BY <1>1, <1>2, <1>3, SpentIsCast DEF MayInsertZkVote
    <2>3. MayGo(r, "already")
      BY <1>2, <2>2
         DEF MayGo, Goes, CastOK, VotingCallFits, VoterHolds, AnswerHolds, Judged, Submitted, InRequest,
             EndPcs, CountPcs, AcceptedPcs, LookupPcs
    <2> QED  BY <1>1, <2>1, <2>3, CastGoes
  <1>4. CASE MayInsertZkVote(c)
    <2>1. PICK w : w = [poll |-> r.poll, ballot |-> r.ballot, by |-> c]  OBVIOUS
    <2>2. PICK pc \in {"ok", "failed"} : Recorded(c, pc)
      BY <1>4 DEF InsertZkVote
    <2>3. zkVotes' = zkVotes \cup {w}
      BY <1>2, <1>4, <2>1 DEF InsertZkVote
    <2>4. PICK q : /\ votingCall' = [votingCall EXCEPT ![c] = q] /\ Goes(q, r, pc) /\ q.pc = pc
                   /\ VotingCallFits(q) /\ VoterHolds(q) /\ q.ballot = r.ballot
      BY <1>1, <1>2, <2>2, FitsWhenRecorded DEF EndPcs
    <2>5. /\ r.ballot.poll = r.poll /\ r.ballot.voter = r.voter
      <3>1. r.ballot.key = keyId[r.poll] /\ keyId[r.poll] # NoPoll /\ r.ballot.poll = r.poll
        BY <1>1, <1>2, KeyOfPoll, CastCallOf
           DEF CastInv, VotingInv, KeysOK, VotingCallOK, AcceptedOK, AcceptedPcs
      <3>2. r.ballot # NoBallot  BY <3>1 DEF NoBallot
      <3> QED  BY <1>2, <3>1, <3>2 DEF CastOK, VotingCallFits
    <2>6. w.poll = r.poll /\ w.ballot = r.ballot /\ w.by = c  BY <2>1
    <2>7. \A v \in zkVotes : ~(v.poll = r.poll /\ v.ballot.voter = r.voter)
      <3> SUFFICES ASSUME NEW v \in zkVotes, v.poll = r.poll, v.ballot.voter = r.voter
                   PROVE  FALSE
        OBVIOUS
      <3>1. v.ballot.poll = v.poll  BY DEF CastInv, VotingInv, ZkVotesOK, EveryVoteCanBeCounted
      <3>2. Nullifier(v.ballot) = Nullifier(r.ballot)  BY <2>5, <3>1 DEF Nullifier
      <3> QED  BY <1>2, <1>4, <3>2 DEF MayInsertZkVote, NullifierSpent
    <2>8. NobodyVotesTwice'
      BY <1>2, <2>3, <2>5, <2>6, <2>7 DEF CastInv, NobodyVotesTwice
    <2>9. CastTypes'  BY <1>2, <2>3, <2>6 DEF CastInv, CastTypes
    <2>10. AnswerHolds(q)'
      BY <2>3, <2>4, <2>5, <2>6 DEF AnswerHolds, Cast, Goes
    <2>11. zkVotes \subseteq zkVotes' /\ votes \subseteq votes' /\ votes' \ votes = {}
      BY <1>2, <2>3
    <2> QED  BY <1>1, <1>2, <2>4, <2>8, <2>9, <2>10, <2>11, VoteAdded
  <1> QED  BY <1>3, <1>4

LEMMA CastInsertedDev ==
    ASSUME CastInv, VotingInv', NEW c \in VotingCalls, InsertDevVote(c)
    PROVE  CastInv'
  <1>1. PICK r : r = votingCall[c]  OBVIOUS
  <1>2. CastOK(r) /\ r.pc = "insert" /\ r.poll \notin ZkPolls
        /\ UNCHANGED <<zkVotes, voters, closed>>
        /\ PollOf(c) = r.poll /\ VoterOf(c) = r.voter /\ BallotOf(c) = r.ballot
    BY <1>1, CastCallOf DEF InsertDevVote, PcIs, IsZk, PollOf, VoterOf, BallotOf
  <1>3. CASE HasVoted(c)
    <2>1. Step(c, "already") /\ SameVotes
      BY <1>2, <1>3 DEF InsertDevVote, SameVotes
    <2>2. Cast(r.poll, r.voter)
      BY <1>2, <1>3 DEF HasVoted, Cast
    <2>3. MayGo(r, "already")
      BY <1>2, <2>2
         DEF MayGo, Goes, CastOK, VotingCallFits, VoterHolds, AnswerHolds, Judged, Submitted, InRequest,
             EndPcs, CountPcs, AcceptedPcs, LookupPcs
    <2> QED  BY <1>1, <2>1, <2>3, CastGoes
  <1>4. CASE ~HasVoted(c)
    <2>1. PICK w : w = [poll |-> r.poll, voter |-> r.voter, option |-> r.ballot.option]  OBVIOUS
    <2>2. Recorded(c, "ok") /\ votes' = votes \cup {w}
      BY <1>2, <1>4, <2>1 DEF InsertDevVote
    <2>3. PICK q : /\ votingCall' = [votingCall EXCEPT ![c] = q] /\ Goes(q, r, "ok") /\ q.pc = "ok"
                   /\ VotingCallFits(q) /\ VoterHolds(q) /\ q.ballot = r.ballot
      BY <1>1, <1>2, <2>2, FitsWhenRecorded DEF EndPcs
    <2>4. w \in [poll : DevPolls, voter : Voters, option : PollChoices]
      BY <1>2, <2>1 DEF CastOK, VotingCallFits, AllPolls, AcceptedPcs
    <2>5. w.poll = r.poll /\ w.voter = r.voter  BY <2>1
    <2>6. \A v \in votes : ~(v.poll = r.poll /\ v.voter = r.voter)
      BY <1>2, <1>4 DEF HasVoted
    <2>7. NobodyVotesTwice'
      BY <1>2, <2>2, <2>5, <2>6 DEF CastInv, NobodyVotesTwice
    <2>8. CastTypes'  BY <1>2, <2>2, <2>4 DEF CastInv, CastTypes
    <2>9. AnswerHolds(q)'
      BY <2>2, <2>3, <2>5 DEF AnswerHolds, Cast, Goes
    <2>10. r.moved \/ voters[r.voter].active
      BY <1>2 DEF CastOK, VoterHolds, Submitted, Judged, AcceptedPcs
    <2> QED  BY <1>1, <1>2, <2>2, <2>3, <2>5, <2>7, <2>8, <2>9, <2>10, VoteAdded
  <1> QED  BY <1>3, <1>4

-----------------------------------------------------------------------------
(* Voting: tallies, and what changes under the voters *)

DetailSteps(c) ==
    \/ ReadDetails(c) \/ CountHint(c) \/ ProbeHint(c) \/ Double(c) \/ Bisect(c)
    \/ LoadTallyKey(c) \/ LoadTallyVotes(c) \/ CountDecrypted(c)

\* A request for a tally is about nothing but its counts.
LEMMA CastDetails ==
    ASSUME CastInv, VotingInv', NEW c \in VotingCalls, DetailSteps(c)
    PROVE  CastInv'
  <1> DEFINE Pcs == CountPcs \cup {"ok"}
  <1>1. PICK r : r = votingCall[c]  OBVIOUS
  <1>2. SameVotes
    BY DEF DetailSteps, ReadDetails, CountHint, ProbeHint, Double, Bisect, LoadTallyKey,
           LoadTallyVotes, CountDecrypted, votingRows, SameVotes
  <1>3. ASSUME NEW t, NEW n, Show(c, t, n) PROVE \E pc \in Pcs : Step(c, pc)
    BY <1>3 DEF Show, CountPcs
  <1>4. UNCHANGED votingCall \/ \E pc \in Pcs : Step(c, pc)
    <2>1. CASE ReadDetails(c)  BY <2>1 DEF ReadDetails, CountPcs
    <2>2. CASE CountHint(c)  BY <1>3, <2>2 DEF CountHint, CountPcs
    <2>3. CASE ProbeHint(c)  BY <1>3, <2>3 DEF ProbeHint, CountPcs
    <2>4. CASE Double(c)  BY <2>4 DEF Double, CountPcs
    <2>5. CASE Bisect(c)  BY <1>3, <2>5 DEF Bisect
    <2>6. CASE LoadTallyKey(c) \/ LoadTallyVotes(c)
      BY <2>6 DEF LoadTallyKey, LoadTallyVotes
    <2>7. CASE CountDecrypted(c)  BY <1>3, <2>7 DEF CountDecrypted
    <2> QED  BY <2>1, <2>2, <2>3, <2>4, <2>5, <2>6, <2>7 DEF DetailSteps
  <1>5. CastOK(r) /\ r.op = "details" /\ r.pc \in {"idle"} \cup CountPcs
    BY <1>1, CastCallOf
       DEF DetailSteps, ReadDetails, CountHint, ProbeHint, Double, Bisect, LoadTallyKey,
           LoadTallyVotes, CountDecrypted, PcIs, OpIs, CountPcs, CastOK, VotingCallFits
  <1>6. ASSUME NEW pc \in Pcs PROVE MayGo(r, pc)
    BY <1>5
       DEF MayGo, Goes, CastOK, VotingCallFits, VoterHolds, AnswerHolds, Judged, Submitted, InRequest,
           EndPcs, CountPcs, AcceptedPcs, LookupPcs
  <1>7. CASE UNCHANGED votingCall
    BY <1>2, <1>7
       DEF CastInv, CastTypes, Resent, GoneOrMoved, NobodyVotesTwice, CastOK, VotingCallFits,
           VoterHolds, AnswerHolds, Cast, SameVotes
  <1>8. CASE \E pc \in Pcs : Step(c, pc)
    BY <1>1, <1>2, <1>6, <1>8, CastGoes
  <1> QED  BY <1>4, <1>7, <1>8

LEMMA CastClosing ==
    ASSUME CastInv, VotingInv', NEW c \in VotingCalls, Closing(c)
    PROVE  CastInv'
  <1>1. PICK r : r = votingCall[c]  OBVIOUS
  <1>2. CastOK(r) /\ IsCall(r) /\ r.op = "close"
    BY <1>1, CastCallOf DEF Closing, OpIs
  <1>3. PICK q : q = [r EXCEPT !.pc = "ok"]  OBVIOUS
  <1>4. /\ Goes(q, r, "ok") /\ q.ballot = r.ballot /\ q.land = r.land /\ q.fit = r.fit
        /\ q.pc = "ok"
    BY <1>2, <1>3 DEF IsCall, Goes
  <1>5. votingCall' = [votingCall EXCEPT ![c] = q]
    BY <1>1, <1>3 DEF Closing, Step
  <1>6. VotingCallFits(q) /\ VoterHolds(q) /\ AnswerHolds(q)'
    BY <1>2, <1>4
       DEF Goes, CastOK, VotingCallFits, VoterHolds, AnswerHolds, Judged, Submitted, InRequest, EndPcs,
           CountPcs, AcceptedPcs, LookupPcs
  <1>7. UNCHANGED <<zkVotes, votes, voters>> /\ closed' = closed \cup {r.poll}
    BY <1>1 DEF Closing, PollOf
  <1>8. closed' \subseteq AllPolls
    BY <1>2, <1>7 DEF CastInv, CastTypes, CastOK, VotingCallFits
  <1>9. CastTypes' /\ NobodyVotesTwice'
    BY <1>7, <1>8 DEF CastInv, CastTypes, NobodyVotesTwice
  <1>10. /\ votingCall'[c] = q /\ \A d \in VotingCalls \ {c} : votingCall'[d] = votingCall[d]
    BY <1>5, CastCallOf
  <1>11. \A d \in VotingCalls : /\ votingCall'[d].op = votingCall[d].op
                                /\ votingCall'[d].arg = votingCall[d].arg
                                /\ votingCall'[d].voter = votingCall[d].voter
                                /\ votingCall'[d].moved = votingCall[d].moved
    BY <1>1, <1>4, <1>10 DEF Goes
  <1>12. Resent'  BY <1>11 DEF CastInv, Resent
  <1>13. GoneOrMoved'  BY <1>7, <1>11 DEF CastInv, GoneOrMoved
  <1>14. ASSUME NEW d \in VotingCalls PROVE CastOK(votingCall[d])'
    <2>1. PICK p : p = votingCall'[d]  OBVIOUS
    <2>2. VotingCallFits(p) /\ VoterHolds(p) /\ (AnswerHolds(p) \/ AnswerHolds(p)')
      BY <1>6, <1>10, <2>1 DEF CastInv, CastOK
    <2>3. VotingCallFits(p)' /\ VoterHolds(p)' /\ AnswerHolds(p)'
      BY <1>7, <2>2 DEF VotingCallFits, VoterHolds, AnswerHolds, Cast
    <2> QED  BY <2>1, <2>3 DEF CastOK
  <1> QED  BY <1>9, <1>12, <1>13, <1>14 DEF CastInv

\* A voter that changes, and whose votes go with the account
LEMMA VoterMoved ==
    ASSUME CastInv, VotingInv', NEW c \in VotingCalls, NEW r, r = votingCall[c],
           r.op \notin {"vote", "again"}, NEW u \in Voters, Moving(c, u),
           voters' \in [Voters -> [active : BOOLEAN, has : SUBSET Parts]],
           \A w \in Voters \ {u} : voters'[w] = voters[w],
           UNCHANGED <<zkVotes, closed>>, votes' \subseteq votes,
           \A v \in votes : v.voter # u => v \in votes',
           \/ votes' = votes /\ voters'[u].active = voters[u].active
           \/ ~voters'[u].active /\ \A v \in votes' : v.voter # u
    PROVE  CastInv'
  <1>1. ASSUME NEW d \in VotingCalls, d # c
        PROVE  \E mark \in BOOLEAN :
                  /\ votingCall'[d] = [votingCall[d] EXCEPT !.moved = mark]
                  /\ mark = (votingCall[d].moved \/ (votingCall[d].voter = u /\ InRequest(votingCall[d])))
    <2>1. (votingCall[d].moved \/ (votingCall[d].voter = u /\ InRequest(votingCall[d]))) \in BOOLEAN
      OBVIOUS
    <2>2. PICK mark \in BOOLEAN :
            mark = (votingCall[d].moved \/ (votingCall[d].voter = u /\ InRequest(votingCall[d])))
      BY <2>1, Zenon
    <2>3. Running(d) = InRequest(votingCall[d])  BY DEF Running, InRequest, EndPcs
    <2>4. votingCall'[d] = [votingCall[d] EXCEPT !.moved =
                              (votingCall[d].moved \/ (VoterOf(d) = u /\ Running(d)))]
      BY <1>1 DEF Moving
    <2>5. votingCall'[d] = [votingCall[d] EXCEPT !.moved = mark]
      BY <2>2, <2>3, <2>4 DEF VoterOf
    <2> QED  BY <2>2, <2>5
  <1>2. ASSUME NEW d \in VotingCalls, d # c
        PROVE  \E q :
                  /\ q = votingCall'[d] /\ IsCall(q)
                  /\ q.op = votingCall[d].op /\ q.poll = votingCall[d].poll
                  /\ q.voter = votingCall[d].voter /\ q.arg = votingCall[d].arg
                  /\ q.pc = votingCall[d].pc /\ q.ballot = votingCall[d].ballot
                  /\ q.land = votingCall[d].land /\ q.fit = votingCall[d].fit
                  /\ q.moved \in BOOLEAN /\ (votingCall[d].moved => q.moved)
                  /\ votingCall[d].voter = u /\ InRequest(votingCall[d]) => q.moved
    <2>1. PICK p : p = votingCall[d]  OBVIOUS
    <2>2. IsCall(p)  BY <2>1, CastCallOf
    <2>0. PICK q : q = votingCall'[d]  OBVIOUS
    <2>3. PICK mark \in BOOLEAN : /\ q = [p EXCEPT !.moved = mark]
                                 /\ mark = (p.moved \/ (p.voter = u /\ InRequest(p)))
      BY <1>1, <1>2, <2>0, <2>1
    <2>4. /\ IsCall(q) /\ q.op = p.op /\ q.poll = p.poll /\ q.voter = p.voter /\ q.arg = p.arg
          /\ q.pc = p.pc /\ q.ballot = p.ballot /\ q.land = p.land /\ q.fit = p.fit
          /\ q.moved = mark
      BY <2>2, <2>3 DEF IsCall
    <2> QED  BY <2>0, <2>1, <2>3, <2>4
  <1>3. PICK s : s = votingCall'[c]  OBVIOUS
  <1>4. /\ IsCall(s) /\ s.op = r.op /\ s.poll = r.poll /\ s.voter = r.voter /\ s.arg = r.arg
        /\ s.pc = "ok" /\ s.ballot = r.ballot /\ s.land = r.land /\ s.fit = r.fit
        /\ s.moved = r.moved
    <2>1. IsCall(r)  BY CastCallOf
    <2>2. s = [r EXCEPT !.pc = "ok"]  BY <1>3 DEF Moving
    <2> QED  BY <2>1, <2>2 DEF IsCall
  <1>5. \A d \in VotingCalls : /\ votingCall'[d].op = votingCall[d].op
                               /\ votingCall'[d].arg = votingCall[d].arg
                               /\ votingCall'[d].voter = votingCall[d].voter
                               /\ votingCall[d].moved => votingCall'[d].moved
    BY <1>2, <1>3, <1>4
  <1>6. Resent'  BY <1>5 DEF CastInv, Resent
  <1>7. GoneOrMoved'
    <2> SUFFICES ASSUME NEW w \in Voters, ~voters'[w].active,
                        NEW v \in votes', v.voter = w
                 PROVE  \E d \in VotingCalls : votingCall'[d].voter = w /\ votingCall'[d].moved
      BY DEF GoneOrMoved
    <2>1. ~voters[w].active
      BY DEF CastInv, CastTypes
    <2>2. PICK d \in VotingCalls : votingCall[d].voter = w /\ votingCall[d].moved
      BY <2>1 DEF CastInv, GoneOrMoved
    <2> QED  BY <1>5, <2>2
  <1>8. NobodyVotesTwice' /\ CastTypes'
    BY DEF CastInv, NobodyVotesTwice, CastTypes
  <1>9. CastOK(s)'
    <2>1. CastOK(r)  BY CastCallOf
    <2> QED
      BY <1>4, <2>1
         DEF CastOK, VotingCallFits, VoterHolds, AnswerHolds, Judged, Submitted, InRequest, EndPcs,
             CountPcs, AcceptedPcs, LookupPcs
  <1>10. ASSUME NEW d \in VotingCalls, d # c PROVE CastOK(votingCall[d])'
    <2>1. PICK p : p = votingCall[d]  OBVIOUS
    <2>2. CastOK(p)  BY <2>1, CastCallOf
    <2>3. PICK q : /\ q = votingCall'[d] /\ IsCall(q)
                   /\ q.op = p.op /\ q.poll = p.poll /\ q.voter = p.voter /\ q.arg = p.arg
                   /\ q.pc = p.pc /\ q.ballot = p.ballot /\ q.land = p.land /\ q.fit = p.fit
                   /\ q.moved \in BOOLEAN /\ (p.moved => q.moved)
                   /\ p.voter = u /\ InRequest(p) => q.moved
      BY <1>2, <1>10, <2>1
    <2>4. VotingCallFits(q)'  BY <2>2, <2>3 DEF CastOK, VotingCallFits
    <2>5. VoterHolds(q)'
      <3>1. CASE q.voter = u
        BY <2>2, <2>3, <3>1
           DEF CastOK, VoterHolds, Judged, Submitted, InRequest, EndPcs, AcceptedPcs, LookupPcs
      <3>2. CASE q.voter # u
        <4>1. voters'[q.voter] = voters[q.voter]
          BY <2>2, <2>3, <3>2 DEF CastOK, VotingCallFits
        <4> QED
          BY <2>2, <2>3, <4>1 DEF CastOK, VoterHolds, Judged, Submitted, InRequest
      <3> QED  BY <3>1, <3>2
    <2>6. AnswerHolds(q)'
      <3> SUFFICES ASSUME q.op \in {"vote", "again"}, q.pc \in {"ok", "already"}, voters'[q.voter].active
                   PROVE  Cast(q.poll, q.voter)'
        BY DEF AnswerHolds
      <3>1. voters[q.voter].active
        BY <2>2, <2>3 DEF CastOK, VotingCallFits
      <3>2. Cast(q.poll, q.voter)  BY <2>2, <2>3, <3>1 DEF CastOK, AnswerHolds
      <3> QED  BY <2>2, <2>3, <3>2 DEF Cast
    <2> QED  BY <2>3, <2>4, <2>5, <2>6 DEF CastOK
  <1> QED  BY <1>3, <1>6, <1>7, <1>8, <1>9, <1>10 DEF CastInv

LEMMA CastMoves ==
    ASSUME CastInv, VotingInv', NEW c \in VotingCalls, ChangeVoter(c) \/ DeleteVoter(c)
    PROVE  CastInv'
  <1>1. PICK r : r = votingCall[c]  OBVIOUS
  <1>2. PICK u : u = r.voter  OBVIOUS
  <1>3. u \in Voters /\ VoterOf(c) = u /\ (r.op = "change" => r.arg \in Parts)
    BY <1>1, <1>2, CastCallOf DEF CastOK, VotingCallFits, VoterOf
  <1>4. voters \in [Voters -> [active : BOOLEAN, has : SUBSET Parts]]
    BY DEF CastInv, CastTypes
  <1>5. CASE ChangeVoter(c)
    <2>1. r.op = "change" /\ Moving(c, u) /\ UNCHANGED <<zkVotes, votes, closed>>
      BY <1>1, <1>3, <1>5 DEF ChangeVoter, OpIs
    <2>2. PICK has : /\ has \subseteq Parts /\ voters' = [voters EXCEPT ![u].has = has]
      <3>1. PICK part : part = r.arg /\ part \in Parts  BY <1>3, <2>1
      <3>2. PICK old : old = voters[u].has /\ old \subseteq Parts  BY <1>3, <1>4
      <3>3. PICK has : has = IF part \in old /\ part # "identity" THEN old \ {part} ELSE old \cup {part}
        OBVIOUS
      <3>4. has \subseteq Parts  BY <3>1, <3>2, <3>3
      <3>5. voters' = [voters EXCEPT ![u].has = has]
        BY <1>1, <1>3, <1>5, <3>1, <3>2, <3>3 DEF ChangeVoter
      <3> QED  BY <3>4, <3>5
    <2>3. /\ voters' \in [Voters -> [active : BOOLEAN, has : SUBSET Parts]]
          /\ \A w \in Voters \ {u} : voters'[w] = voters[w]
          /\ voters'[u].active = voters[u].active
      <3>1. PICK row : row = [voters[u] EXCEPT !.has = has]  OBVIOUS
      <3>2. row \in [active : BOOLEAN, has : SUBSET Parts] /\ row.active = voters[u].active
        BY <1>3, <1>4, <2>2, <3>1
      <3>3. voters' = [voters EXCEPT ![u] = row]  BY <2>2, <3>1
      <3> QED  BY <1>3, <1>4, <3>2, <3>3
    <2> QED  BY <1>1, <1>3, <2>1, <2>3, VoterMoved
  <1>6. CASE DeleteVoter(c)
    <2>1. /\ r.op = "delete" /\ Moving(c, u) /\ UNCHANGED <<zkVotes, closed>>
          /\ votes' = {v \in votes : v.voter # u}
      BY <1>1, <1>3, <1>6 DEF DeleteVoter, OpIs
    <2>2. PICK row : row = [active |-> FALSE, has |-> voters[u].has \cap {"identity"}]  OBVIOUS
    <2>3. voters' = [voters EXCEPT ![u] = row]
      BY <1>3, <1>6, <2>2 DEF DeleteVoter
    <2>4. row \in [active : BOOLEAN, has : SUBSET Parts] /\ ~row.active
      BY <2>2 DEF Parts
    <2>5. /\ voters' \in [Voters -> [active : BOOLEAN, has : SUBSET Parts]]
          /\ \A w \in Voters \ {u} : voters'[w] = voters[w]
          /\ ~voters'[u].active
      BY <1>3, <1>4, <2>3, <2>4
    <2> QED  BY <1>1, <1>3, <2>1, <2>5, VoterMoved
  <1> QED  BY <1>5, <1>6

-----------------------------------------------------------------------------
LEMMA CastInvInit == VotingInit => CastInv
  <1> SUFFICES ASSUME VotingInit PROVE CastInv  OBVIOUS
  <1>1. VotingInv  BY VotingInvInit
  <1>2. PICK mix \in VotingMixes : votingCall = [c \in VotingCalls |-> Deciding(mix[c])]
    BY DEF VotingInit
  <1>3. \A c \in VotingCalls : votingCall[c] = Deciding(mix[c])  BY <1>2
  <1>4. /\ zkVotes = {} /\ votes = {} /\ closed = {}
        /\ voters = [u \in Voters |-> [active |-> TRUE, has |-> {"area", "land"} \cup
                                         IF u \in Unbound THEN {} ELSE {"identity"}]]
    BY DEF VotingInit
  <1>5. CastTypes /\ NobodyVotesTwice
    <2>1. \A u \in Voters : voters[u] \in [active : BOOLEAN, has : SUBSET Parts]
      BY <1>4 DEF Parts
    <2>2. voters \in [Voters -> [active : BOOLEAN, has : SUBSET Parts]]
      BY <1>4, <2>1
    <2> QED  BY <1>4, <2>2 DEF CastTypes, NobodyVotesTwice
  <1>6. GoneOrMoved  BY <1>4 DEF GoneOrMoved
  <1>7. Resent
    <2> SUFFICES ASSUME NEW c \in VotingCalls, NEW d \in VotingCalls,
                        votingCall[c].op = "again", votingCall[c].arg = d
                 PROVE  votingCall[d].voter = votingCall[c].voter
      BY DEF Resent
    <2>0. \A e \in VotingCalls : /\ votingCall[e].op = mix[e][1]
                                 /\ votingCall[e].voter = mix[e][3]
                                 /\ votingCall[e].arg = mix[e][4]
      <3> TAKE e \in VotingCalls
      <3>1. PICK r : r = Deciding(mix[e])  OBVIOUS
      <3>2. r.op = mix[e][1] /\ r.voter = mix[e][3] /\ r.arg = mix[e][4]
        BY <3>1 DEF Deciding
      <3>3. r = votingCall[e]  BY <1>3, <3>1
      <3> QED  BY <3>2, <3>3
    <2>1. mix[c][1] = "again" /\ mix[c][4] = d  BY <2>0
    <2>2. mix[d][3] = mix[c][3]  BY <2>1, VotingMixesAssumption
    <2> QED  BY <2>0, <2>2
  <1>8. ASSUME NEW c \in VotingCalls PROVE CastOK(votingCall[c])
    <2>1. PICK r : r = votingCall[c]  OBVIOUS
    <2>2. r = Deciding(mix[c])  BY <1>3, <2>1
    <2>3. /\ r.op = mix[c][1] /\ r.poll = mix[c][2] /\ r.voter = mix[c][3] /\ r.arg = mix[c][4]
          /\ r.pc = "idle" /\ r.ballot = NoBallot /\ r.land = FALSE /\ r.moved = FALSE
          /\ r.fit = TRUE
      BY <2>2 DEF Deciding
    <2>4. IsCall(r)  BY <1>1, <2>1, <2>2 DEF Deciding, IsCall
    <2>5. /\ r.poll \in AllPolls /\ r.voter \in Voters
          /\ r.op = "change" => r.arg \in Parts
      BY <2>3, VotingMixesAssumption DEF AllPolls, Parts
    <2>6. VotingCallFits(r)
      BY <2>3, <2>4, <2>5 DEF VotingCallFits, CountPcs, AcceptedPcs
    <2>7. VoterHolds(r) /\ AnswerHolds(r)
      BY <2>3 DEF VoterHolds, AnswerHolds, Judged, Submitted, InRequest, AcceptedPcs, LookupPcs
    <2> QED  BY <2>1, <2>6, <2>7 DEF CastOK
  <1> QED  BY <1>1, <1>5, <1>6, <1>7, <1>8 DEF CastInv

LEMMA CastInvStep == CastInv /\ [VotingNext]_votingVars => CastInv'
  <1> SUFFICES ASSUME CastInv, [VotingNext]_votingVars PROVE CastInv'  OBVIOUS
  <1>0. VotingInv'  BY VotingInvStep DEF CastInv
  <1>1. CASE VotingNext
    <2> PICK c \in VotingCalls :
          \/ FetchKey(c) \/ FindKeyByPoll(c) \/ FindKeyByKey(c) \/ InsertKey(c) \/ FindRacedKey(c)
          \/ PrepareBallot(c) \/ Submit(c) \/ LoadPoll(c) \/ FindOption(c) \/ FindIdentity(c)
          \/ FindExistingVote(c) \/ LoadIdentityProfile(c)
          \/ VerifyGroth16Proof(c) \/ VerifyLegacyProof(c) \/ FindNullifier(c) \/ InsertZkVote(c) \/ InsertDevVote(c)
          \/ DetailSteps(c) \/ Closing(c) \/ ChangeVoter(c) \/ DeleteVoter(c)
      BY <1>1 DEF VotingNext, DetailSteps
    <2> QED
      BY <1>0, CastLookups, CastPrepared, CastSubmitted, CastChecks, CastJudged, CastProved,
         CastNullified, CastInserted, CastInsertedDev, CastDetails, CastClosing, CastMoves
  <1>2. CASE UNCHANGED votingVars
    BY <1>0, <1>2
       DEF votingVars, votingRows, CastInv, CastTypes, Resent, GoneOrMoved, NobodyVotesTwice,
           CastOK, VotingCallFits, VoterHolds, AnswerHolds, Cast
  <1> QED  BY <1>1, <1>2

LEMMA CastInvHolds == VotingSpec => []CastInv
  BY CastInvInit, CastInvStep, PTL DEF VotingSpec

\* Nobody has two votes in a poll, whatever is sent twice or at once.
THEOREM NobodyEverVotesTwice == VotingSpec => []NobodyVotesTwice
<1>1. CastInv => NobodyVotesTwice  BY DEF CastInv
<1> QED  BY <1>1, CastInvHolds, PTL

\* Every vote that is stored met the rules of its poll when it was, unless the
\* voter changed while the request ran.
THEOREM VotersAreAlwaysEligible == VotingSpec => []VotersAreEligible
<1>1. CastInv => VotersAreEligible
  BY DEF CastInv, CastOK, VoterHolds, VotersAreEligible
<1> QED  BY <1>1, CastInvHolds, PTL

\* An answer that a vote counts or was cast before is true of every account
\* that is there, and an account that is gone leaves no legacy vote, unless
\* a request was under way.
THEOREM AnswersOnVotesAlwaysHold == VotingSpec => []AnswersOnVotesHold
<1>1. CastInv => AnswersOnVotesHold
  <2> SUFFICES ASSUME CastInv, NEW c \in VotingCalls
               PROVE  /\ CastingVote(c) /\ votingCall[c].pc \in {"ok", "already"}
                           => HasVote(c) \/ ~voters[VoterOf(c)].active
                      /\ ~voters[VoterOf(c)].active
                           => \/ \A v \in votes : v.voter # VoterOf(c)
                              \/ \E d \in VotingCalls : VoterOf(d) = VoterOf(c) /\ votingCall[d].moved
    BY DEF AnswersOnVotesHold
  <2>1. CastOK(votingCall[c]) /\ GoneOrMoved  BY DEF CastInv
  <2>2. VoterOf(c) \in Voters  BY <2>1 DEF CastOK, VotingCallFits, VoterOf
  <2>3. CastingVote(c) /\ votingCall[c].pc \in {"ok", "already"}
          => HasVote(c) \/ ~voters[VoterOf(c)].active
    BY <2>1 DEF CastOK, AnswerHolds, Cast, HasVote, CastingVote, OpIs, PollOf, VoterOf
  <2>4. ~voters[VoterOf(c)].active
          => \/ \A v \in votes : v.voter # VoterOf(c)
             \/ \E d \in VotingCalls : VoterOf(d) = VoterOf(c) /\ votingCall[d].moved
    BY <2>1, <2>2 DEF GoneOrMoved, VoterOf
  <2> QED  BY <2>3, <2>4
<1> QED  BY <1>1, CastInvHolds, PTL

-----------------------------------------------------------------------------
(* Voting: the requests for tallies. *)

ReadingTypes(p) ==
    [shown : [Targets(p) -> Int], least : [Targets(p) -> Nat], most : [Targets(p) -> Nat],
     at : Targets(p), lower : Nat, upper : Nat, key : {"unread", "found", "none"}, loaded : Int]

Within(g, t, n) == g.least[t] <= n /\ n <= g.most[t]

\* What request g of poll p holds at pc: what it shows is within what the
\* poll had, and so are the ends between which it still looks.
Noted(g, p, pc) ==
    /\ g \in ReadingTypes(p)
    /\ \A t \in Targets(p) : g.shown[t] # NotShown => Within(g, t, g.shown[t])
    /\ pc = "idle" => /\ \A t \in Targets(p) : g.shown[t] = NotShown
                      /\ g.loaded = NotShown /\ g.key = "unread"
    /\ pc = "probe" => Within(g, g.at, g.lower) /\ g.lower < g.upper
    /\ pc = "double" => g.lower + 1 <= g.most[g.at] /\ g.lower < g.upper
    /\ pc = "bisect" => /\ g.lower + 1 <= g.most[g.at] /\ g.lower < g.upper
                        /\ g.least[g.at] <= g.upper
    /\ p \in ZkPolls => /\ g.loaded # NotShown => Within(g, "decrypted", g.loaded)
                        /\ g.key = "none" => g.least["decrypted"] <= 0

Sees(r, g) == r.op = "details" /\ InRequest(r) => \A t \in Targets(r.poll) : Within(g, t, Size(r.poll, t))

TallyInv ==
    /\ CastInv /\ IsFiniteSet(votes) /\ IsFiniteSet(zkVotes)
    /\ reading = [c \in VotingCalls |-> reading[c]]
    /\ \A c \in VotingCalls : /\ Noted(reading[c], votingCall[c].poll, votingCall[c].pc)
                              /\ Sees(votingCall[c], reading[c])

-----------------------------------------------------------------------------
\* A count of finitely many votes is a number.
LEMMA SizeIsNat ==
    ASSUME IsFiniteSet(votes), IsFiniteSet(zkVotes), NEW p, NEW t
    PROVE  Size(p, t) \in Nat
  <1>1. PICK S : S = IF p \in ZkPolls THEN {v \in zkVotes : v.poll = p}
                     ELSE {v \in votes : v.poll = p /\ t \in {"total", v.option}}
    OBVIOUS
  <1>2. S \subseteq zkVotes \/ S \subseteq votes  BY <1>1
  <1>3. IsFiniteSet(S)  BY <1>2, FS_Subset
  <1>4. Cardinality(S) \in Nat  BY <1>3, FS_CardinalityType
  <1> QED  BY <1>1, <1>4 DEF Size

\* The same, of the votes after a step
LEMMA LaterSizeIsNat ==
    ASSUME IsFiniteSet(votes'), IsFiniteSet(zkVotes'), NEW p, NEW t
    PROVE  Size(p, t)' \in Nat
  <1>1. PICK S : S = IF p \in ZkPolls THEN {v \in zkVotes' : v.poll = p}
                     ELSE {v \in votes' : v.poll = p /\ t \in {"total", v.option}}
    OBVIOUS
  <1>2. S \subseteq zkVotes' \/ S \subseteq votes'  BY <1>1
  <1>3. IsFiniteSet(S)  BY <1>2, FS_Subset
  <1>4. Cardinality(S) \in Nat  BY <1>3, FS_CardinalityType
  <1> QED  BY <1>1, <1>4 DEF Size

\* A step of a request that may be about its counts, while no vote changes
LEMMA ReadTallyStep ==
    ASSUME TallyInv, CastInv', UNCHANGED <<votes, zkVotes>>, NEW c \in VotingCalls,
           NEW r, r = votingCall[c], NEW pc,
           (UNCHANGED votingCall /\ pc = r.pc) \/ Step(c, pc),
           NEW g, reading' = [reading EXCEPT ![c] = g], Noted(g, r.poll, pc),
           r.op = "details" => \A t \in Targets(r.poll) : Within(g, t, Size(r.poll, t))
    PROVE  TallyInv'
  <1>1. IsCall(r) /\ votingCall = [d \in VotingCalls |-> votingCall[d]]
    BY CastCallOf DEF TallyInv
  <1>2. /\ votingCall'[c].op = r.op /\ votingCall'[c].poll = r.poll /\ votingCall'[c].pc = pc
        /\ \A d \in VotingCalls \ {c} : votingCall'[d] = votingCall[d]
    <2>1. CASE UNCHANGED votingCall /\ pc = r.pc  BY <2>1
    <2>2. CASE Step(c, pc)
      <3>1. PICK q : q = [r EXCEPT !.pc = pc]  OBVIOUS
      <3>2. q.op = r.op /\ q.poll = r.poll /\ q.pc = pc  BY <1>1, <3>1 DEF IsCall
      <3>3. votingCall' = [votingCall EXCEPT ![c] = q]  BY <2>2, <3>1 DEF Step
      <3> QED  BY <1>1, <3>2, <3>3
    <2> QED  BY <2>1, <2>2
  <1>3. /\ reading'[c] = g /\ \A d \in VotingCalls \ {c} : reading'[d] = reading[d]
        /\ reading' = [d \in VotingCalls |-> reading'[d]]
    BY DEF TallyInv
  <1>4. \A p, t : Size(p, t)' = Size(p, t)  BY DEF Size
  <1>5. ASSUME NEW d \in VotingCalls
        PROVE  /\ Noted(reading[d], votingCall[d].poll, votingCall[d].pc)'
               /\ Sees(votingCall[d], reading[d])'
    <2>1. CASE d = c
      <3>1. PICK q : q = votingCall'[c]  OBVIOUS
      <3>2. Sees(q, g)'  BY <1>2, <1>4, <3>1 DEF Sees
      <3> QED  BY <1>2, <1>3, <2>1, <3>1, <3>2
    <2>2. CASE d # c
      <3>1. PICK q, h : q = votingCall[d] /\ h = reading[d]  OBVIOUS
      <3>2. Noted(h, q.poll, q.pc) /\ Sees(q, h)  BY <3>1 DEF TallyInv
      <3>3. Sees(q, h)'  BY <1>4, <3>2 DEF Sees
      <3> QED  BY <1>2, <1>3, <2>2, <3>1, <3>2, <3>3
    <2> QED  BY <2>1, <2>2
  <1> QED  BY <1>3, <1>5 DEF TallyInv

\* A step that no request for a tally takes, while no vote changes
Aside == \A d \in VotingCalls :
    /\ votingCall'[d].op = votingCall[d].op /\ votingCall'[d].poll = votingCall[d].poll
    /\ \/ votingCall'[d].pc = votingCall[d].pc
       \/ votingCall'[d].pc \notin CountPcs \cup {"idle"}
    /\ votingCall[d].op = "details" /\ InRequest(votingCall'[d]) => InRequest(votingCall[d])

LEMMA AsideNoted ==
    ASSUME NEW g, NEW p, NEW pc, Noted(g, p, pc), NEW later,
           later = pc \/ later \notin CountPcs \cup {"idle"}
    PROVE  Noted(g, p, later)
  BY DEF Noted, CountPcs

LEMMA AsideStep ==
    ASSUME TallyInv, CastInv', UNCHANGED <<votes, zkVotes, reading>>, Aside
    PROVE  TallyInv'
  <1>1. \A p, t : Size(p, t)' = Size(p, t)  BY DEF Size
  <1>2. ASSUME NEW d \in VotingCalls
        PROVE  /\ Noted(reading[d], votingCall[d].poll, votingCall[d].pc)'
               /\ Sees(votingCall[d], reading[d])'
    <2>1. PICK q, h, r : q = votingCall[d] /\ h = reading[d] /\ r = votingCall'[d]  OBVIOUS
    <2>2. Noted(h, q.poll, q.pc) /\ Sees(q, h)  BY <2>1 DEF TallyInv
    <2>3. /\ r.op = q.op /\ r.poll = q.poll
          /\ r.pc = q.pc \/ r.pc \notin CountPcs \cup {"idle"}
          /\ q.op = "details" /\ InRequest(r) => InRequest(q)
      BY <2>1 DEF Aside
    <2>4. Noted(h, r.poll, r.pc)  BY <2>2, <2>3, AsideNoted
    <2>5. InRequest(r)' = InRequest(r)  BY DEF InRequest
    <2>6. Sees(r, h)'  BY <1>1, <2>2, <2>3, <2>5 DEF Sees
    <2> QED  BY <2>1, <2>4, <2>6
  <1> QED  BY <1>2 DEF TallyInv

\* Where votes come and go, those who count them have that noted.
LEMMA WitnessedStep ==
    ASSUME TallyInv, CastInv', IsFiniteSet(votes'), IsFiniteSet(zkVotes'), Witnessed, Aside
    PROVE  TallyInv'
  <1>1. ASSUME NEW d \in VotingCalls
        PROVE  /\ Noted(reading[d], votingCall[d].poll, votingCall[d].pc)'
               /\ Sees(votingCall[d], reading[d])'
    <2>1. PICK q, g, r, p : q = votingCall[d] /\ g = reading[d] /\ r = votingCall'[d] /\ p = q.poll
      OBVIOUS
    <2>2. Noted(g, p, q.pc)  BY <2>1 DEF TallyInv
    <2>3. /\ r.op = q.op /\ r.poll = p
          /\ r.pc = q.pc \/ r.pc \notin CountPcs \cup {"idle"}
          /\ q.op = "details" /\ InRequest(r) => InRequest(q)
      BY <2>1 DEF Aside
    <2>4. (OpIs(d, "details") /\ Running(d)) <=> (q.op = "details" /\ InRequest(q))
      BY <2>1 DEF OpIs, Running, InRequest, EndPcs
    <2>5. CASE ~(q.op = "details" /\ InRequest(q))
      <3>1. reading'[d] = g  BY <2>1, <2>4, <2>5 DEF Witnessed
      <3>2. Noted(g, p, r.pc)  BY <2>2, <2>3, AsideNoted
      <3>3. InRequest(r)' = InRequest(r)  BY DEF InRequest
      <3>4. Sees(r, g)'  BY <2>3, <2>5, <3>3 DEF Sees
      <3> QED  BY <2>1, <2>3, <3>1, <3>2, <3>4
    <2>6. CASE q.op = "details" /\ InRequest(q)
      <3>1. PICK n : n = [t \in Targets(p) |-> Size(p, t)']  OBVIOUS
      <3>2. n \in [Targets(p) -> Nat]
        <4>1. \A t \in Targets(p) : Size(p, t)' \in Nat  BY LaterSizeIsNat
        <4> QED  BY <3>1, <4>1
      <3>3. PICK least : least = [t \in Targets(p) |-> Lesser(g.least[t], n[t])]  OBVIOUS
      <3>4. PICK most : most = [t \in Targets(p) |-> Greater(g.most[t], n[t])]  OBVIOUS
      <3>5. PICK h : h = [g EXCEPT !.least = least, !.most = most]  OBVIOUS
      <3>6. reading'[d] = h
        <4>1. \A t \in Targets(p) : Size(PollOf(d), t)' = n[t]
          <5>1. PollOf(d)' = p  BY <2>1, <2>3 DEF PollOf
          <5> QED  BY <3>1, <5>1 DEF Size
        <4>2. PollOf(d) = p  BY <2>1 DEF PollOf
        <4>3. reading'[d] =
               [reading[d] EXCEPT
                 !.least = [t \in Targets(PollOf(d)) |-> Lesser(@[t], Size(PollOf(d), t)')],
                 !.most = [t \in Targets(PollOf(d)) |-> Greater(@[t], Size(PollOf(d), t)')]]
          BY <2>4, <2>6 DEF Witnessed
        <4>4. [t \in Targets(PollOf(d)) |-> Lesser(g.least[t], Size(PollOf(d), t)')] = least
          BY <3>3, <4>1, <4>2
        <4>5. [t \in Targets(PollOf(d)) |-> Greater(g.most[t], Size(PollOf(d), t)')] = most
          BY <3>4, <4>1, <4>2
        <4> QED  BY <2>1, <3>5, <4>3, <4>4, <4>5
      <3>7. g \in ReadingTypes(p)  BY <2>2 DEF Noted
      <3>8. \A t \in Targets(p) :
              /\ least[t] \in Nat /\ least[t] <= g.least[t] /\ least[t] <= n[t]
              /\ most[t] \in Nat /\ g.most[t] <= most[t] /\ n[t] <= most[t]
        BY <3>2, <3>3, <3>4, <3>7 DEF ReadingTypes, Lesser, Greater
      <3>9. least \in [Targets(p) -> Nat] /\ most \in [Targets(p) -> Nat]
        BY <3>3, <3>4, <3>8
      <3>10. /\ h \in ReadingTypes(p) /\ h.least = least /\ h.most = most
             /\ h.shown = g.shown /\ h.at = g.at /\ h.lower = g.lower /\ h.upper = g.upper
             /\ h.key = g.key /\ h.loaded = g.loaded
        BY <3>5, <3>7, <3>9 DEF ReadingTypes
      <3>11. /\ g.shown \in [Targets(p) -> Int] /\ g.least \in [Targets(p) -> Nat]
             /\ g.most \in [Targets(p) -> Nat] /\ g.at \in Targets(p) /\ g.lower \in Nat
             /\ g.upper \in Nat /\ g.loaded \in Int /\ NotShown \in Int
        BY <3>7 DEF ReadingTypes, NotShown
      <3>12. \A t \in Targets(p), m \in Int : Within(g, t, m) => Within(h, t, m)
        BY <3>8, <3>10, <3>11 DEF Within
      <3>13. Noted(h, p, q.pc)
        <4>1. \A t \in Targets(p) : h.shown[t] # NotShown => Within(h, t, h.shown[t])
          BY <2>2, <3>10, <3>11, <3>12 DEF Noted
        <4>2. q.pc # "idle"  BY <2>6 DEF InRequest
        <4>3. q.pc = "probe" => Within(h, h.at, h.lower) /\ h.lower < h.upper
          BY <2>2, <3>10, <3>11, <3>12 DEF Noted
        <4>4. \A m \in Nat : /\ m <= g.most[g.at] => m <= most[g.at]
                             /\ g.least[g.at] <= m => least[g.at] <= m
          BY <3>8, <3>11
        <4>5. q.pc = "double" => h.lower + 1 <= h.most[h.at] /\ h.lower < h.upper
          BY <2>2, <3>10, <3>11, <4>4 DEF Noted
        <4>6. q.pc = "bisect" => /\ h.lower + 1 <= h.most[h.at] /\ h.lower < h.upper
                                 /\ h.least[h.at] <= h.upper
          BY <2>2, <3>10, <3>11, <4>4 DEF Noted
        <4>7. p \in ZkPolls => /\ h.loaded # NotShown => Within(h, "decrypted", h.loaded)
                               /\ h.key = "none" => h.least["decrypted"] <= 0
          <5> SUFFICES ASSUME p \in ZkPolls
                       PROVE  /\ h.loaded # NotShown => Within(h, "decrypted", h.loaded)
                              /\ h.key = "none" => h.least["decrypted"] <= 0
            OBVIOUS
          <5>1. "decrypted" \in Targets(p)  BY DEF Targets
          <5>2. least["decrypted"] <= g.least["decrypted"] /\ least["decrypted"] \in Nat
                /\ g.least["decrypted"] \in Nat
            BY <3>8, <3>11, <5>1
          <5>3. h.loaded # NotShown => Within(h, "decrypted", h.loaded)
            BY <2>2, <3>10, <3>11, <3>12, <5>1 DEF Noted
          <5>4. h.key = "none" => h.least["decrypted"] <= 0
            BY <2>2, <3>10, <5>2 DEF Noted
          <5> QED  BY <5>3, <5>4
        <4> QED  BY <3>10, <4>1, <4>2, <4>3, <4>5, <4>6, <4>7 DEF Noted
      <3>14. Noted(h, p, r.pc)  BY <2>3, <3>13, AsideNoted
      <3>15. \A t \in Targets(p) : Within(h, t, n[t])
        BY <3>2, <3>8, <3>10 DEF Within
      <3>16. Sees(r, h)'
        BY <2>3, <3>1, <3>15 DEF Sees, Within
      <3> QED  BY <2>1, <2>3, <3>6, <3>14, <3>16
    <2> QED  BY <2>5, <2>6
  <1>2. reading' = [d \in VotingCalls |-> reading'[d]]
    BY DEF Witnessed
  <1> QED  BY <1>1, <1>2 DEF TallyInv

-----------------------------------------------------------------------------
(* Voting: the steps of a tally *)

LEMMA TallyCallOf ==
    ASSUME TallyInv, NEW c \in VotingCalls, NEW r, r = votingCall[c], NEW g, g = reading[c]
    PROVE  /\ CastOK(r) /\ IsCall(r) /\ Noted(g, r.poll, r.pc) /\ Sees(r, g)
           /\ PollOf(c) = r.poll /\ (IsZk(c) <=> r.poll \in ZkPolls)
           /\ g \in ReadingTypes(r.poll)
           /\ \A t \in Targets(r.poll) : Size(r.poll, t) \in Nat
  <1>1. CastOK(r) /\ IsCall(r)  BY CastCallOf DEF TallyInv
  <1>2. Noted(g, r.poll, r.pc) /\ Sees(r, g)  BY DEF TallyInv
  <1>3. \A t \in Targets(r.poll) : Size(r.poll, t) \in Nat  BY SizeIsNat DEF TallyInv
  <1> QED  BY <1>1, <1>2, <1>3 DEF PollOf, IsZk, Noted

\* A request that counts has seen the poll's votes come and go.
LEMMA CountingSees ==
    ASSUME TallyInv, NEW c \in VotingCalls, NEW r, r = votingCall[c], NEW g, g = reading[c],
           r.pc \in CountPcs
    PROVE  /\ r.op = "details" /\ \A t \in Targets(r.poll) : Within(g, t, Size(r.poll, t))
           /\ "total" \in Targets(r.poll) /\ (r.poll \in ZkPolls => "decrypted" \in Targets(r.poll))
  <1>1. CastOK(r) /\ Sees(r, g)  BY TallyCallOf
  <1> QED  BY <1>1 DEF CastOK, VotingCallFits, Sees, InRequest, CountPcs, EndPcs, Targets

\* A number that the poll had may be shown.
LEMMA ShowStep ==
    ASSUME TallyInv, CastInv', UNCHANGED votingRows, NEW c \in VotingCalls,
           NEW r, r = votingCall[c], NEW g, g = reading[c], r.pc \in CountPcs,
           NEW t \in Targets(r.poll), NEW n \in Int, Within(g, t, n), Show(c, t, n)
    PROVE  TallyInv'
  <1>1. Noted(g, r.poll, r.pc) /\ g \in ReadingTypes(r.poll)  BY TallyCallOf
  <1>2. /\ r.op = "details" /\ \A u \in Targets(r.poll) : Within(g, u, Size(r.poll, u))
    BY CountingSees
  <1>3. PICK pc \in {"ok", "count"} : Step(c, pc)  BY DEF Show
  <1>4. PICK h : h = [g EXCEPT !.shown = [@ EXCEPT ![t] = n]]  OBVIOUS
  <1>5. reading' = [reading EXCEPT ![c] = h]  BY <1>4 DEF Show
  <1>6. PICK shown : shown = [g.shown EXCEPT ![t] = n]  OBVIOUS
  <1>7. g.shown \in [Targets(r.poll) -> Int]  BY <1>1 DEF ReadingTypes
  <1>8. shown \in [Targets(r.poll) -> Int] /\ shown[t] = n
        /\ \A u \in Targets(r.poll) \ {t} : shown[u] = g.shown[u]
    BY <1>6, <1>7
  <1>9. h = [g EXCEPT !.shown = shown]  BY <1>4, <1>6
  <1>10. /\ h \in ReadingTypes(r.poll) /\ h.shown = shown /\ h.least = g.least
         /\ h.most = g.most /\ h.loaded = g.loaded /\ h.key = g.key
    BY <1>1, <1>8, <1>9 DEF ReadingTypes
  <1>11. \A u, m : Within(g, u, m) => Within(h, u, m)  BY <1>10 DEF Within
  <1>12. Noted(h, r.poll, pc)
    <2>1. \A u \in Targets(r.poll) : h.shown[u] # NotShown => Within(h, u, h.shown[u])
      BY <1>1, <1>8, <1>10, <1>11 DEF Noted
    <2>2. r.poll \in ZkPolls => /\ h.loaded # NotShown => Within(h, "decrypted", h.loaded)
                                /\ h.key = "none" => h.least["decrypted"] <= 0
      BY <1>1, <1>10, <1>11 DEF Noted
    <2> QED  BY <1>3, <1>10, <2>1, <2>2 DEF Noted
  <1>13. \A u \in Targets(r.poll) : Within(h, u, Size(r.poll, u))
    BY <1>2, <1>11
  <1>14. UNCHANGED <<votes, zkVotes>>  BY DEF votingRows
  <1> QED  BY <1>3, <1>5, <1>12, <1>13, <1>14, ReadTallyStep

LEMMA DetailsRead ==
    ASSUME TallyInv, CastInv', NEW c \in VotingCalls, ReadDetails(c)
    PROVE  TallyInv'
  <1>1. PICK r, g, p : r = votingCall[c] /\ g = reading[c] /\ p = r.poll  OBVIOUS
  <1>2. /\ CastOK(r) /\ Noted(g, p, r.pc) /\ g \in ReadingTypes(p) /\ PollOf(c) = p
        /\ \A t \in Targets(p) : Size(p, t) \in Nat
    BY <1>1, TallyCallOf
  <1>3. r.pc = "idle" /\ Step(c, "count") /\ UNCHANGED <<votes, zkVotes>>
    BY <1>1 DEF ReadDetails, PcIs, votingRows
  <1>4. PICK n : n = [t \in Targets(p) |-> Size(p, t)]  OBVIOUS
  <1>5. n \in [Targets(p) -> Nat]  BY <1>2, <1>4
  <1>6. PICK h : h = [g EXCEPT !.least = n, !.most = n]  OBVIOUS
  <1>7. reading' = [reading EXCEPT ![c] = h]
    BY <1>1, <1>2, <1>4, <1>6 DEF ReadDetails
  <1>8. /\ h \in ReadingTypes(p) /\ h.least = n /\ h.most = n /\ h.shown = g.shown
        /\ h.loaded = g.loaded /\ h.key = g.key
    BY <1>2, <1>5, <1>6 DEF ReadingTypes
  <1>9. \A t \in Targets(p) : Within(h, t, Size(p, t))
    BY <1>2, <1>4, <1>8 DEF Within
  <1>10. Noted(h, p, "count")
    BY <1>2, <1>3, <1>8 DEF Noted
  <1> QED  BY <1>1, <1>3, <1>7, <1>9, <1>10, ReadTallyStep

LEMMA CountsHinted ==
    ASSUME TallyInv, CastInv', NEW c \in VotingCalls, CountHint(c)
    PROVE  TallyInv'
  <1>1. PICK r, g, p : r = votingCall[c] /\ g = reading[c] /\ p = r.poll  OBVIOUS
  <1>2. /\ CastOK(r) /\ Noted(g, p, r.pc) /\ g \in ReadingTypes(p) /\ PollOf(c) = p
        /\ \A t \in Targets(p) : Size(p, t) \in Nat
    BY <1>1, TallyCallOf
  <1>3. r.pc = "count" /\ r.pc \in CountPcs /\ UNCHANGED votingRows
    BY <1>1 DEF CountHint, PcIs, CountPcs
  <1>4. r.op = "details" /\ \A t \in Targets(p) : Within(g, t, Size(p, t))
    BY <1>1, <1>3, CountingSees
  <1>5. PICK t \in Targets(p) :
          \/ Show(c, t, Size(p, t))
          \/ /\ Size(p, t) # 0 /\ Step(c, "probe")
             /\ reading' = [reading EXCEPT ![c].at = t, ![c].lower = Size(p, t),
                                           ![c].upper = Greater(Size(p, t) + 1, 2 * Size(p, t))]
    BY <1>2 DEF CountHint
  <1>6. PICK n \in Nat : n = Size(p, t)  BY <1>2, <1>5
  <1>7. CASE Show(c, t, n)
    BY <1>1, <1>3, <1>4, <1>5, <1>6, <1>7, ShowStep
  <1>8. CASE ~Show(c, t, n)
    <2>1. PICK upper : upper = Greater(n + 1, 2 * n)  OBVIOUS
    <2>2. upper \in Nat /\ n < upper  BY <1>6, <2>1 DEF Greater
    <2>3. PICK h : h = [g EXCEPT !.at = t, !.lower = n, !.upper = upper]  OBVIOUS
    <2>4. reading' = [reading EXCEPT ![c] = h] /\ Step(c, "probe")
      BY <1>1, <1>5, <1>6, <1>8, <2>1, <2>3
    <2>5. /\ h \in ReadingTypes(p) /\ h.at = t /\ h.lower = n /\ h.upper = upper
          /\ h.least = g.least /\ h.most = g.most /\ h.shown = g.shown
          /\ h.loaded = g.loaded /\ h.key = g.key
      BY <1>2, <1>5, <1>6, <2>2, <2>3 DEF ReadingTypes
    <2>6. \A u, m : Within(g, u, m) => Within(h, u, m)  BY <2>5 DEF Within
    <2>7. Noted(h, p, "probe")
      <3>1. \A u \in Targets(p) : h.shown[u] # NotShown => Within(h, u, h.shown[u])
        BY <1>2, <2>5, <2>6 DEF Noted
      <3>2. p \in ZkPolls => /\ h.loaded # NotShown => Within(h, "decrypted", h.loaded)
                             /\ h.key = "none" => h.least["decrypted"] <= 0
        BY <1>2, <2>5, <2>6 DEF Noted
      <3>3. Within(h, h.at, h.lower) /\ h.lower < h.upper
        BY <1>4, <1>6, <2>2, <2>5, <2>6
      <3> QED  BY <2>5, <3>1, <3>2, <3>3 DEF Noted
    <2>8. \A u \in Targets(p) : Within(h, u, Size(p, u))  BY <1>4, <2>6
    <2>9. UNCHANGED <<votes, zkVotes>>  BY <1>3 DEF votingRows
    <2> QED  BY <1>1, <2>4, <2>7, <2>8, <2>9, ReadTallyStep
  <1> QED  BY <1>7, <1>8

LEMMA CountsProbed ==
    ASSUME TallyInv, CastInv', NEW c \in VotingCalls, ProbeHint(c)
    PROVE  TallyInv'
  <1>1. PICK r, g, p : r = votingCall[c] /\ g = reading[c] /\ p = r.poll  OBVIOUS
  <1>2. /\ CastOK(r) /\ Noted(g, p, r.pc) /\ g \in ReadingTypes(p) /\ PollOf(c) = p
        /\ \A t \in Targets(p) : Size(p, t) \in Nat
    BY <1>1, TallyCallOf
  <1>3. /\ r.pc = "probe" /\ r.pc \in CountPcs /\ UNCHANGED votingRows
        /\ UNCHANGED <<votes, zkVotes>>
    BY <1>1 DEF ProbeHint, PcIs, CountPcs, votingRows
  <1>4. r.op = "details" /\ \A t \in Targets(p) : Within(g, t, Size(p, t))
    BY <1>1, <1>3, CountingSees
  <1>5. /\ g.at \in Targets(p) /\ g.lower \in Nat /\ g.upper \in Nat
        /\ g.most \in [Targets(p) -> Nat]
        /\ Within(g, g.at, g.lower) /\ g.lower < g.upper
    BY <1>2, <1>3 DEF Noted, ReadingTypes
  <1>6. CASE ~HasVoteAt(c, g.lower)
    <2>1. Show(c, g.at, g.lower)  BY <1>1, <1>6 DEF ProbeHint
    <2> QED  BY <1>1, <1>3, <1>5, <2>1, ShowStep
  <1>7. CASE HasVoteAt(c, g.lower)
    <2>1. Step(c, "double") /\ UNCHANGED reading  BY <1>1, <1>7 DEF ProbeHint
    <2>2. reading' = [reading EXCEPT ![c] = g]  BY <1>1, <2>1 DEF TallyInv
    <2>3. g.lower + 1 <= g.most[g.at]
      <3>1. PICK n \in Nat : n = Size(p, g.at)  BY <1>2, <1>5
      <3>2. n > g.lower /\ n <= g.most[g.at]
        BY <1>1, <1>2, <1>4, <1>5, <1>7, <3>1 DEF HasVoteAt, Within
      <3> QED  BY <1>5, <3>1, <3>2
    <2>4. Noted(g, p, "double")  BY <1>2, <1>5, <2>3 DEF Noted
    <2> QED  BY <1>1, <1>3, <1>4, <2>1, <2>2, <2>4, ReadTallyStep
  <1> QED  BY <1>6, <1>7

\* A request that only moves the ends between which it looks keeps its notes.
SameNotes(h, g) ==
    /\ h.at = g.at /\ h.least = g.least /\ h.most = g.most /\ h.shown = g.shown
    /\ h.loaded = g.loaded /\ h.key = g.key

LEMMA EndsMoved ==
    ASSUME NEW g, NEW p, NEW pc, Noted(g, p, pc), NEW h, h \in ReadingTypes(p), SameNotes(h, g)
    PROVE  (\A u, m : Within(g, u, m) => Within(h, u, m)) /\ Noted(h, p, "count")
  <1>1. \A u, m : Within(g, u, m) => Within(h, u, m)  BY DEF Within, SameNotes
  <1> QED  BY <1>1 DEF Noted, SameNotes

LEMMA CountsDoubled ==
    ASSUME TallyInv, CastInv', NEW c \in VotingCalls, Double(c)
    PROVE  TallyInv'
  <1>1. PICK r, g, p : r = votingCall[c] /\ g = reading[c] /\ p = r.poll  OBVIOUS
  <1>2. /\ CastOK(r) /\ Noted(g, p, r.pc) /\ g \in ReadingTypes(p) /\ PollOf(c) = p
        /\ \A t \in Targets(p) : Size(p, t) \in Nat
    BY <1>1, TallyCallOf
  <1>3. /\ r.pc = "double" /\ r.pc \in CountPcs /\ UNCHANGED <<votes, zkVotes>>
    BY <1>1 DEF Double, PcIs, CountPcs, votingRows
  <1>4. r.op = "details" /\ \A t \in Targets(p) : Within(g, t, Size(p, t))
    BY <1>1, <1>3, CountingSees
  <1>5. /\ g.at \in Targets(p) /\ g.lower \in Nat /\ g.upper \in Nat
        /\ g.most \in [Targets(p) -> Nat] /\ g.least \in [Targets(p) -> Nat]
        /\ g.lower + 1 <= g.most[g.at] /\ g.lower < g.upper
    BY <1>2, <1>3 DEF Noted, ReadingTypes
  <1>6. PICK n \in Nat : /\ n = Size(p, g.at) /\ n <= g.most[g.at] /\ g.least[g.at] <= n
    BY <1>2, <1>4, <1>5 DEF Within
  <1>7. HasVoteAt(c, g.upper) <=> n > g.upper
    BY <1>1, <1>2, <1>6 DEF HasVoteAt
  <1>8. CASE n > g.upper
    <2>1. PICK h : h = [g EXCEPT !.lower = g.upper, !.upper = 2 * g.upper]  OBVIOUS
    <2>2. reading' = [reading EXCEPT ![c] = h] /\ UNCHANGED votingCall
      BY <1>1, <1>7, <1>8, <2>1 DEF Double
    <2>3. 2 * g.upper \in Nat /\ g.upper < 2 * g.upper /\ g.upper + 1 <= g.most[g.at]
      BY <1>5, <1>6, <1>8
    <2>4. /\ h \in ReadingTypes(p) /\ SameNotes(h, g) /\ h.lower = g.upper /\ h.upper = 2 * g.upper
          /\ \A u, m : Within(g, u, m) => Within(h, u, m)
          /\ Noted(h, p, "count")
      <3>1. h \in ReadingTypes(p) /\ SameNotes(h, g) /\ h.lower = g.upper /\ h.upper = 2 * g.upper
        BY <1>2, <1>5, <2>1, <2>3 DEF ReadingTypes, SameNotes
      <3> QED  BY <1>2, <3>1, EndsMoved
    <2>5. Noted(h, p, "double")  BY <2>3, <2>4 DEF Noted, SameNotes
    <2> QED  BY <1>1, <1>3, <1>4, <2>2, <2>4, <2>5, ReadTallyStep
  <1>9. CASE ~(n > g.upper)
    <2>1. Step(c, "bisect") /\ UNCHANGED reading  BY <1>1, <1>7, <1>9 DEF Double
    <2>2. reading' = [reading EXCEPT ![c] = g]  BY <1>1, <2>1 DEF TallyInv
    <2>3. g.least[g.at] <= g.upper  BY <1>5, <1>6, <1>9
    <2>4. Noted(g, p, "bisect")  BY <1>2, <1>5, <2>3 DEF Noted
    <2> QED  BY <1>1, <1>3, <1>4, <2>1, <2>2, <2>4, ReadTallyStep
  <1> QED  BY <1>8, <1>9

LEMMA CountsBisected ==
    ASSUME TallyInv, CastInv', NEW c \in VotingCalls, Bisect(c)
    PROVE  TallyInv'
  <1>1. PICK r, g, p : r = votingCall[c] /\ g = reading[c] /\ p = r.poll  OBVIOUS
  <1>2. /\ CastOK(r) /\ Noted(g, p, r.pc) /\ g \in ReadingTypes(p) /\ PollOf(c) = p
        /\ \A t \in Targets(p) : Size(p, t) \in Nat
    BY <1>1, TallyCallOf
  <1>3. /\ r.pc = "bisect" /\ r.pc \in CountPcs /\ UNCHANGED votingRows
        /\ UNCHANGED <<votes, zkVotes>>
    BY <1>1 DEF Bisect, PcIs, CountPcs, votingRows
  <1>4. r.op = "details" /\ \A t \in Targets(p) : Within(g, t, Size(p, t))
    BY <1>1, <1>3, CountingSees
  <1>5. /\ g.at \in Targets(p) /\ g.lower \in Nat /\ g.upper \in Nat
        /\ g.most \in [Targets(p) -> Nat] /\ g.least \in [Targets(p) -> Nat]
        /\ g.lower + 1 <= g.most[g.at] /\ g.lower < g.upper /\ g.least[g.at] <= g.upper
    BY <1>2, <1>3 DEF Noted, ReadingTypes
  <1>6. PICK n \in Nat : /\ n = Size(p, g.at) /\ n <= g.most[g.at] /\ g.least[g.at] <= n
    BY <1>2, <1>4, <1>5 DEF Within
  <1>7. PICK middle : middle = (g.lower + g.upper) \div 2  OBVIOUS
  <1>8. HasVoteAt(c, middle) <=> n > middle
    BY <1>1, <1>2, <1>6 DEF HasVoteAt
  <1>9. CASE g.lower + 1 < g.upper
    <2>1. middle \in Nat /\ g.lower < middle /\ middle < g.upper
      BY <1>5, <1>7, <1>9
    <2>2. UNCHANGED votingCall
      BY <1>1, <1>9 DEF Bisect
    <2>3. CASE n > middle
      <3>1. PICK h : h = [g EXCEPT !.lower = middle, !.upper = g.upper]  OBVIOUS
      <3>2. h = [g EXCEPT !.lower = middle]  BY <1>2, <3>1 DEF ReadingTypes
      <3>3. reading' = [reading EXCEPT ![c] = h]
        BY <1>1, <1>7, <1>8, <1>9, <2>3, <3>2 DEF Bisect
      <3>4. /\ h \in ReadingTypes(p) /\ SameNotes(h, g) /\ h.lower = middle /\ h.upper = g.upper
            /\ \A u, m : Within(g, u, m) => Within(h, u, m)
            /\ Noted(h, p, "count")
        <4>1. h \in ReadingTypes(p) /\ SameNotes(h, g) /\ h.lower = middle /\ h.upper = g.upper
          BY <1>2, <1>5, <2>1, <3>1 DEF ReadingTypes, SameNotes
        <4> QED  BY <1>2, <4>1, EndsMoved
      <3>5. middle + 1 <= g.most[g.at]  BY <1>5, <1>6, <2>1, <2>3
      <3>6. Noted(h, p, "bisect")  BY <1>5, <2>1, <3>4, <3>5 DEF Noted, SameNotes
      <3> QED  BY <1>1, <1>3, <1>4, <2>2, <3>3, <3>4, <3>6, ReadTallyStep
    <2>4. CASE ~(n > middle)
      <3>1. PICK h : h = [g EXCEPT !.lower = g.lower, !.upper = middle]  OBVIOUS
      <3>2. h = [g EXCEPT !.upper = middle]  BY <1>2, <3>1 DEF ReadingTypes
      <3>3. reading' = [reading EXCEPT ![c] = h]
        BY <1>1, <1>7, <1>8, <1>9, <2>4, <3>2 DEF Bisect
      <3>4. /\ h \in ReadingTypes(p) /\ SameNotes(h, g) /\ h.lower = g.lower /\ h.upper = middle
            /\ \A u, m : Within(g, u, m) => Within(h, u, m)
            /\ Noted(h, p, "count")
        <4>1. h \in ReadingTypes(p) /\ SameNotes(h, g) /\ h.lower = g.lower /\ h.upper = middle
          BY <1>2, <1>5, <2>1, <3>1 DEF ReadingTypes, SameNotes
        <4> QED  BY <1>2, <4>1, EndsMoved
      <3>5. g.least[g.at] <= middle  BY <1>5, <1>6, <2>1, <2>4
      <3>6. Noted(h, p, "bisect")  BY <1>5, <2>1, <3>4, <3>5 DEF Noted, SameNotes
      <3> QED  BY <1>1, <1>3, <1>4, <2>2, <3>3, <3>4, <3>6, ReadTallyStep
    <2> QED  BY <2>3, <2>4
  <1>10. CASE ~(g.lower + 1 < g.upper)
    <2>1. Show(c, g.at, g.lower + 1)  BY <1>1, <1>10 DEF Bisect
    <2>2. g.lower + 1 \in Int /\ Within(g, g.at, g.lower + 1)
      <3>1. g.lower + 1 = g.upper  BY <1>5, <1>10
      <3> QED  BY <1>5, <3>1 DEF Within
    <2> QED  BY <1>1, <1>3, <1>5, <2>1, <2>2, ShowStep
  <1> QED  BY <1>9, <1>10

\* The votes that are loaded are those the poll has, all of which its key
\* decrypts; where there is no key there is no vote.
LEMMA TallyLoaded ==
    ASSUME TallyInv, CastInv', NEW c \in VotingCalls, LoadTallyKey(c) \/ LoadTallyVotes(c)
    PROVE  TallyInv'
  <1>1. PICK r, g, p : r = votingCall[c] /\ g = reading[c] /\ p = r.poll  OBVIOUS
  <1>2. /\ CastOK(r) /\ Noted(g, p, r.pc) /\ g \in ReadingTypes(p) /\ PollOf(c) = p
        /\ \A t \in Targets(p) : Size(p, t) \in Nat
    BY <1>1, TallyCallOf
  <1>3. /\ r.pc = "count" /\ r.pc \in CountPcs /\ UNCHANGED <<votes, zkVotes, votingCall>>
        /\ p \in ZkPolls
    BY <1>1, <1>2 DEF LoadTallyKey, LoadTallyVotes, PcIs, CountPcs, votingRows, IsZk
  <1>4. /\ r.op = "details" /\ \A t \in Targets(p) : Within(g, t, Size(p, t))
        /\ "decrypted" \in Targets(p)
    BY <1>1, <1>3, CountingSees
  <1>5. PICK n \in Nat : n = Size(p, "decrypted") /\ Within(g, "decrypted", n)
    BY <1>2, <1>4
  <1>6. EveryVoteCanBeCounted  BY DEF TallyInv, CastInv, VotingInv, ZkVotesOK
  <1>7. ASSUME NEW key \in {"unread", "found", "none"}, NEW loaded \in Int,
               key # "none" \/ g.least["decrypted"] <= 0,
               loaded # NotShown => Within(g, "decrypted", loaded),
               NEW h, h \in ReadingTypes(p), h.least = g.least, h.most = g.most,
               h.shown = g.shown, h.loaded = loaded, h.key = key,
               reading' = [reading EXCEPT ![c] = h]
        PROVE  TallyInv'
    <2>2. \A u, m : Within(g, u, m) => Within(h, u, m)  BY <1>7 DEF Within
    <2>3. Noted(h, p, "count")
      <3>1. \A u \in Targets(p) : h.shown[u] # NotShown => Within(h, u, h.shown[u])
        BY <1>2, <1>7, <2>2 DEF Noted
      <3>2. /\ h.loaded # NotShown => Within(h, "decrypted", h.loaded)
            /\ h.key = "none" => h.least["decrypted"] <= 0
        BY <1>7, <2>2
      <3> QED  BY <1>7, <3>1, <3>2 DEF Noted
    <2>4. \A u \in Targets(p) : Within(h, u, Size(p, u))  BY <1>4, <2>2
    <2> QED  BY <1>1, <1>3, <1>7, <2>3, <2>4, ReadTallyStep
  <1>8. /\ g.key \in {"unread", "found", "none"} /\ g.loaded \in Int
        /\ g.least \in [Targets(p) -> Nat]
        /\ g.key # "none" \/ g.least["decrypted"] <= 0
        /\ g.loaded # NotShown => Within(g, "decrypted", g.loaded)
    BY <1>2, <1>3 DEF Noted, ReadingTypes
  <1>9. CASE LoadTallyKey(c)
    <2>1. PICK key \in {"found", "none"} :
            /\ reading' = [reading EXCEPT ![c].key = key]
            /\ key = "none" => keyOwner[keyId[p]] # p
      BY <1>2, <1>9 DEF LoadTallyKey
    <2>2. key = "none" => n = 0
      <3> SUFFICES ASSUME key = "none" PROVE n = 0  OBVIOUS
      <3>1. {v \in zkVotes : v.poll = p} = {}
        BY <1>6, <2>1 DEF EveryVoteCanBeCounted
      <3> QED  BY <1>3, <1>5, <3>1, FS_EmptySet DEF Size
    <2>3. key # "none" \/ g.least["decrypted"] <= 0  BY <1>5, <2>2 DEF Within
    <2>4. PICK h : h = [g EXCEPT !.key = key]  OBVIOUS
    <2>5. /\ h \in ReadingTypes(p) /\ h.least = g.least /\ h.most = g.most
          /\ h.shown = g.shown /\ h.loaded = g.loaded /\ h.key = key
      BY <1>2, <2>1, <2>4 DEF ReadingTypes
    <2>6. reading' = [reading EXCEPT ![c] = h]  BY <1>1, <2>1, <2>4
    <2> QED  BY <1>7, <1>8, <2>1, <2>3, <2>5, <2>6
  <1>10. CASE LoadTallyVotes(c)
    <2>1. Decryptable(p) = {v \in zkVotes : v.poll = p}
      BY <1>6 DEF Decryptable, Opens, EveryVoteCanBeCounted
    <2>2. Cardinality(Decryptable(p)) = n  BY <1>3, <1>5, <2>1 DEF Size
    <2>3. reading' = [reading EXCEPT ![c].loaded = n]
      BY <1>2, <1>10, <2>2 DEF LoadTallyVotes
    <2>4. PICK h : h = [g EXCEPT !.loaded = n]  OBVIOUS
    <2>5. /\ h \in ReadingTypes(p) /\ h.least = g.least /\ h.most = g.most
          /\ h.shown = g.shown /\ h.loaded = n /\ h.key = g.key
      BY <1>2, <1>5, <2>4 DEF ReadingTypes
    <2>6. reading' = [reading EXCEPT ![c] = h]  BY <1>1, <2>3, <2>4
    <2>7. PICK key \in {"unread", "found", "none"} : key = g.key  BY <1>8
    <2>8. n \in Int /\ (n # NotShown => Within(g, "decrypted", n))
          /\ (key # "none" \/ g.least["decrypted"] <= 0)
      BY <1>5, <1>8, <2>7
    <2>9. h \in ReadingTypes(p) /\ h.least = g.least /\ h.most = g.most
          /\ h.shown = g.shown /\ h.loaded = n /\ h.key = key
      BY <2>5, <2>7
    <2> HIDE DEF ReadingTypes
    <2> QED  BY <1>7, <2>6, <2>8, <2>9
  <1> QED  BY <1>9, <1>10

LEMMA TallyDecrypted ==
    ASSUME TallyInv, CastInv', NEW c \in VotingCalls, CountDecrypted(c)
    PROVE  TallyInv'
  <1>1. PICK r, g, p : r = votingCall[c] /\ g = reading[c] /\ p = r.poll  OBVIOUS
  <1>2. /\ CastOK(r) /\ Noted(g, p, r.pc) /\ g \in ReadingTypes(p) /\ PollOf(c) = p
    BY <1>1, TallyCallOf
  <1>3. /\ r.pc \in CountPcs /\ UNCHANGED votingRows /\ p \in ZkPolls
        /\ g.key # "unread" /\ g.loaded # NotShown
        /\ Show(c, "decrypted", IF g.key = "found" THEN g.loaded ELSE 0)
    BY <1>1, <1>2 DEF CountDecrypted, PcIs, CountPcs, IsZk
  <1>4. "decrypted" \in Targets(p)  BY <1>1, <1>3, CountingSees
  <1>5. PICK n : n = IF g.key = "found" THEN g.loaded ELSE 0  OBVIOUS
  <1>6. n \in Int /\ Within(g, "decrypted", n)
    BY <1>2, <1>3, <1>4, <1>5 DEF Noted, ReadingTypes, Within
  <1> QED  BY <1>1, <1>3, <1>4, <1>5, <1>6, ShowStep

-----------------------------------------------------------------------------
(* Voting: all other steps *)

OtherPcs == LookupPcs \cup AcceptedPcs \cup EndPcs
              \cup {"ready", "poll", "option", "identity", "existing", "profile"}

\* The ways in which a request that counts nothing goes on
Proceeds(c, pc) ==
    \/ Step(c, pc)
    \/ \E ballot : votingCall' = [votingCall EXCEPT ![c].pc = pc, ![c].ballot = ballot]
    \/ \E land : votingCall' = [votingCall EXCEPT ![c].pc = pc, ![c].land = land]
    \/ \E fit : votingCall' = [votingCall EXCEPT ![c].pc = pc, ![c].fit = fit]

LEMMA ProceedsAside ==
    ASSUME TallyInv, NEW c \in VotingCalls, NEW r, r = votingCall[c],
           NEW pc \in OtherPcs, Proceeds(c, pc),
           r.op = "details" => InRequest(r) \/ pc \in EndPcs
    PROVE  Aside
  <1>1. IsCall(r) /\ votingCall = [d \in VotingCalls |-> votingCall[d]]
    BY CastCallOf DEF TallyInv
  <1>2. PICK q : /\ votingCall' = [votingCall EXCEPT ![c] = q]
                 /\ q.op = r.op /\ q.poll = r.poll /\ q.pc = pc
    <2>1. CASE Step(c, pc)
      <3>1. PICK q : q = [r EXCEPT !.pc = pc]  OBVIOUS
      <3>2. q.op = r.op /\ q.poll = r.poll /\ q.pc = pc  BY <1>1, <3>1 DEF IsCall
      <3>3. votingCall' = [votingCall EXCEPT ![c] = q]  BY <2>1, <3>1 DEF Step
      <3> QED  BY <3>2, <3>3
    <2>2. ASSUME NEW ballot,
                 votingCall' = [votingCall EXCEPT ![c].pc = pc, ![c].ballot = ballot]
          PROVE  \E q : /\ votingCall' = [votingCall EXCEPT ![c] = q]
                        /\ q.op = r.op /\ q.poll = r.poll /\ q.pc = pc
      <3>1. PICK q : q = [r EXCEPT !.pc = pc, !.ballot = ballot]  OBVIOUS
      <3>2. q.op = r.op /\ q.poll = r.poll /\ q.pc = pc  BY <1>1, <3>1 DEF IsCall
      <3>3. votingCall' = [votingCall EXCEPT ![c] = q]  BY <2>2, <3>1
      <3> QED  BY <3>2, <3>3
    <2>3. ASSUME NEW land,
                 votingCall' = [votingCall EXCEPT ![c].pc = pc, ![c].land = land]
          PROVE  \E q : /\ votingCall' = [votingCall EXCEPT ![c] = q]
                        /\ q.op = r.op /\ q.poll = r.poll /\ q.pc = pc
      <3>1. PICK q : q = [r EXCEPT !.pc = pc, !.land = land]  OBVIOUS
      <3>2. q.op = r.op /\ q.poll = r.poll /\ q.pc = pc  BY <1>1, <3>1 DEF IsCall
      <3>3. votingCall' = [votingCall EXCEPT ![c] = q]  BY <2>3, <3>1
      <3> QED  BY <3>2, <3>3
    <2>4. ASSUME NEW fit,
                 votingCall' = [votingCall EXCEPT ![c].pc = pc, ![c].fit = fit]
          PROVE  \E q : /\ votingCall' = [votingCall EXCEPT ![c] = q]
                        /\ q.op = r.op /\ q.poll = r.poll /\ q.pc = pc
      <3>1. PICK q : q = [r EXCEPT !.pc = pc, !.fit = fit]  OBVIOUS
      <3>2. q.op = r.op /\ q.poll = r.poll /\ q.pc = pc  BY <1>1, <3>1 DEF IsCall
      <3>3. votingCall' = [votingCall EXCEPT ![c] = q]  BY <2>4, <3>1
      <3> QED  BY <3>2, <3>3
    <2> QED  BY <2>1, <2>2, <2>3, <2>4 DEF Proceeds
  <1>3. votingCall'[c] = q /\ \A d \in VotingCalls \ {c} : votingCall'[d] = votingCall[d]
    BY <1>1, <1>2
  <1>4. pc \notin CountPcs \cup {"idle"}
    BY DEF OtherPcs, CountPcs, LookupPcs, AcceptedPcs, EndPcs
  <1>5. r.op = "details" /\ InRequest(q) => InRequest(r)  BY <1>2 DEF InRequest
  <1> QED  BY <1>2, <1>3, <1>4, <1>5 DEF Aside

\* The steps of a vote and of its key
VoteSteps(c) ==
    \/ FetchKey(c) \/ FindKeyByPoll(c) \/ FindKeyByKey(c) \/ InsertKey(c) \/ FindRacedKey(c)
    \/ PrepareBallot(c) \/ Submit(c) \/ LoadPoll(c) \/ FindOption(c) \/ FindIdentity(c)
    \/ FindExistingVote(c) \/ LoadIdentityProfile(c)
    \/ VerifyGroth16Proof(c) \/ VerifyLegacyProof(c) \/ FindNullifier(c)
    \/ InsertZkVote(c) \/ InsertDevVote(c)

LEMMA VoteProceeds ==
    ASSUME TallyInv, NEW c \in VotingCalls, VoteSteps(c)
    PROVE  Aside
  <1>1. PICK r : r = votingCall[c]  OBVIOUS
  <1>2. ASSUME NEW key, KeyAnswered(c, key)
        PROVE  \E pc \in OtherPcs : Proceeds(c, pc)
    <2>1. CASE BallotOf(c) = NoBallot
      <3>1. PICK ballot : ballot = MakeBallot(votingCall[c], key)  OBVIOUS
      <3>2. votingCall' = [votingCall EXCEPT ![c].pc = "ready", ![c].ballot = ballot]
        BY <1>2, <2>1, <3>1 DEF KeyAnswered
      <3> QED  BY <3>2 DEF Proceeds, OtherPcs
    <2>2. CASE BallotOf(c) # NoBallot
      BY <1>2, <2>2 DEF KeyAnswered, Check, Proceeds, OtherPcs, AcceptedPcs, EndPcs
    <2> QED  BY <2>1, <2>2
  <1>3. ASSUME r.pc = "idle" => r.op # "details",
               \E pc \in OtherPcs : Proceeds(c, pc), r.pc \notin EndPcs
        PROVE  Aside
    <2>1. r.op = "details" => InRequest(r)  BY <1>3 DEF InRequest
    <2> QED  BY <1>1, <1>3, <2>1, ProceedsAside
  <1>4. CASE FetchKey(c)
    <2>1. r.op = "vote" /\ r.pc = "idle" /\ Proceeds(c, "byPoll") /\ "byPoll" \in OtherPcs
      BY <1>1, <1>4 DEF FetchKey, OpIs, PcIs, Proceeds, OtherPcs, LookupPcs
    <2> QED  BY <1>3, <2>1 DEF EndPcs
  <1>5. CASE FindKeyByPoll(c) \/ FindKeyByKey(c) \/ InsertKey(c) \/ FindRacedKey(c)
    <2>1. r.pc \in LookupPcs
      BY <1>1, <1>5 DEF FindKeyByPoll, FindKeyByKey, InsertKey, FindRacedKey, PcIs, LookupPcs
    <2>2. r.pc \notin EndPcs /\ r.pc # "idle"  BY <2>1 DEF LookupPcs, EndPcs
    <2>3. \A pc \in LookupPcs \cup {"rejected"} : Step(c, pc) => pc \in OtherPcs /\ Proceeds(c, pc)
      BY DEF OtherPcs, EndPcs, Proceeds
    <2>4. \/ \E pc \in LookupPcs \cup {"rejected"} : Step(c, pc)
          \/ \E key : KeyAnswered(c, key)
      <3>1. CASE FindKeyByPoll(c)  BY <3>1 DEF FindKeyByPoll, Check, LookupPcs
      <3>2. CASE FindKeyByKey(c)
        <4>1. /\ keyId[PollOf(c)] \in KeyNames /\ keyId[PollOf(c)] # NoPoll /\ PollOf(c) # NoPoll
          BY <1>1, <2>1, CastCallOf, KeyOfPoll
             DEF TallyInv, CastInv, VotingInv, KeysOK, VotingCallOK, LookupOK, PollOf
        <4> QED  BY <3>2, <4>1 DEF FindKeyByKey, IsKeyOf, LookupPcs
      <3>3. CASE InsertKey(c)  BY <3>3 DEF InsertKey, LookupPcs
      <3>4. CASE FindRacedKey(c)  BY <3>4 DEF FindRacedKey, LookupPcs
      <3> QED  BY <1>5, <3>1, <3>2, <3>3, <3>4
    <2>5. \E pc \in OtherPcs : Proceeds(c, pc)  BY <1>2, <2>3, <2>4
    <2> QED  BY <1>3, <2>2, <2>5
  <1>6. CASE PrepareBallot(c)
    <2>1. r.op \in {"vote", "again"} /\ r.pc = "idle"
      BY <1>1, <1>6 DEF PrepareBallot, OpIs, PcIs
    <2>2. PICK ballot : votingCall' = [votingCall EXCEPT ![c].pc = "ready", ![c].ballot = ballot]
      BY <1>6 DEF PrepareBallot
    <2>3. Proceeds(c, "ready") /\ "ready" \in OtherPcs  BY <2>2 DEF Proceeds, OtherPcs
    <2> QED  BY <1>3, <2>1, <2>3 DEF EndPcs
  <1>7. CASE Submit(c)
    <2>1. r.pc = "ready"  BY <1>1, <1>7 DEF Submit, PcIs
    <2>2. PICK pc \in {"poll", "rejected"} : \E land :
            votingCall' = [votingCall EXCEPT ![c].pc = pc, ![c].land = land]
      <3>1. PICK pc : pc = IF voters[VoterOf(c)].active THEN "poll" ELSE "rejected"  OBVIOUS
      <3>2. PICK land : land = Has(VoterOf(c), "land")  OBVIOUS
      <3>3. votingCall' = [votingCall EXCEPT ![c].pc = pc, ![c].land = land]
        BY <1>7, <3>1, <3>2 DEF Submit
      <3> QED  BY <3>1, <3>3
    <2>3. Proceeds(c, pc) /\ pc \in OtherPcs  BY <2>2 DEF Proceeds, OtherPcs, EndPcs
    <2> QED  BY <1>3, <2>1, <2>3 DEF EndPcs
  <1>8. CASE \/ LoadPoll(c) \/ FindOption(c) \/ FindIdentity(c) \/ FindExistingVote(c)
             \/ LoadIdentityProfile(c) \/ VerifyGroth16Proof(c) \/ VerifyLegacyProof(c)
             \/ FindNullifier(c)
    <2>1. r.pc \in {"poll", "option", "identity", "existing", "profile", "proof", "nullifier"}
      BY <1>1, <1>8
         DEF LoadPoll, FindOption, FindIdentity, FindExistingVote, LoadIdentityProfile,
             VerifyGroth16Proof, VerifyLegacyProof, FindNullifier, PcIs
    <2>2. PICK pc \in OtherPcs : Step(c, pc)
      BY <1>8
         DEF LoadPoll, FindOption, FindIdentity, FindExistingVote, LoadIdentityProfile,
             VerifyGroth16Proof, VerifyLegacyProof, FindNullifier, Check, OtherPcs, EndPcs,
             AcceptedPcs, LookupPcs
    <2> QED  BY <1>3, <2>1, <2>2 DEF EndPcs, Proceeds
  <1>9. CASE InsertZkVote(c) \/ InsertDevVote(c)
    <2>1. r.pc = "insert"
      BY <1>1, <1>9 DEF InsertZkVote, InsertDevVote, PcIs
    <2>2. PICK pc \in {"ok", "failed", "already"} : Step(c, pc) \/ Recorded(c, pc)
      BY <1>9 DEF InsertZkVote, InsertDevVote
    <2>3. Proceeds(c, pc) /\ pc \in OtherPcs
      <3>1. PICK fit : fit = (Rules[PollOf(c)] \subseteq voters[VoterOf(c)].has)  OBVIOUS
      <3>2. Recorded(c, pc) => votingCall' = [votingCall EXCEPT ![c].pc = pc, ![c].fit = fit]
        BY <3>1 DEF Recorded
      <3> QED  BY <2>2, <3>2 DEF Proceeds, OtherPcs, EndPcs
    <2> QED  BY <1>3, <2>1, <2>3 DEF EndPcs
  <1> QED  BY <1>4, <1>5, <1>6, <1>7, <1>8, <1>9 DEF VoteSteps

\* Who moves ends the own request and marks those of the voter.
LEMMA MovingAside ==
    ASSUME TallyInv, NEW c \in VotingCalls, NEW u, Moving(c, u)
    PROVE  Aside
  <1> SUFFICES ASSUME NEW d \in VotingCalls
               PROVE  /\ votingCall'[d].op = votingCall[d].op
                      /\ votingCall'[d].poll = votingCall[d].poll
                      /\ \/ votingCall'[d].pc = votingCall[d].pc
                         \/ votingCall'[d].pc \notin CountPcs \cup {"idle"}
                      /\ votingCall[d].op = "details" /\ InRequest(votingCall'[d]) => InRequest(votingCall[d])
    BY DEF Aside
  <1>1. PICK r, q : r = votingCall[d] /\ q = votingCall'[d]  OBVIOUS
  <1>2. IsCall(r)  BY <1>1, CastCallOf DEF TallyInv
  <1>3. CASE d = c
    <2>1. q = [r EXCEPT !.pc = "ok"]  BY <1>1, <1>3 DEF Moving
    <2>2. q.op = r.op /\ q.poll = r.poll /\ q.pc = "ok"  BY <1>2, <2>1 DEF IsCall
    <2> QED  BY <1>1, <2>2 DEF InRequest, EndPcs, CountPcs
  <1>4. CASE d # c
    <2>1. PICK mark : mark = (r.moved \/ (VoterOf(d) = u /\ Running(d)))  OBVIOUS
    <2>2. q = [r EXCEPT !.moved = mark]  BY <1>1, <1>4, <2>1 DEF Moving
    <2>3. q.op = r.op /\ q.poll = r.poll /\ q.pc = r.pc  BY <1>2, <2>2 DEF IsCall
    <2> QED  BY <1>1, <2>3 DEF InRequest
  <1> QED  BY <1>3, <1>4

LEMMA TallyInvInit == VotingInit => TallyInv
  <1> SUFFICES ASSUME VotingInit PROVE TallyInv  OBVIOUS
  <1>1. CastInv  BY CastInvInit
  <1>2. IsFiniteSet(votes) /\ IsFiniteSet(zkVotes)  BY FS_EmptySet DEF VotingInit
  <1>3. PICK mix \in VotingMixes :
          /\ votingCall = [c \in VotingCalls |-> Deciding(mix[c])]
          /\ reading = [c \in VotingCalls |-> Unread(mix[c][2])]
    BY DEF VotingInit
  <1>4. ASSUME NEW c \in VotingCalls
        PROVE  /\ Noted(reading[c], votingCall[c].poll, votingCall[c].pc)
               /\ Sees(votingCall[c], reading[c])
    <2>1. PICK r, g, p : r = votingCall[c] /\ g = reading[c] /\ p = r.poll  OBVIOUS
    <2>2. r = Deciding(mix[c]) /\ g = Unread(mix[c][2])  BY <1>3, <2>1
    <2>3. p = mix[c][2] /\ r.pc = "idle"  BY <2>1, <2>2 DEF Deciding
    <2>4. /\ g = [shown |-> [t \in Targets(p) |-> NotShown], least |-> [t \in Targets(p) |-> 0],
                  most |-> [t \in Targets(p) |-> 0], at |-> "total", lower |-> 0, upper |-> 0,
                  key |-> "unread", loaded |-> NotShown]
      BY <2>2, <2>3 DEF Unread
    <2>5. "total" \in Targets(p) /\ NotShown \in Int  BY DEF Targets, NotShown
    <2>6. PICK shown, zero : /\ shown = [t \in Targets(p) |-> NotShown]
                             /\ zero = [t \in Targets(p) |-> 0]
      OBVIOUS
    <2>7. shown \in [Targets(p) -> Int] /\ zero \in [Targets(p) -> Nat]  BY <2>5, <2>6
    <2>8. g = [shown |-> shown, least |-> zero, most |-> zero, at |-> "total", lower |-> 0,
               upper |-> 0, key |-> "unread", loaded |-> NotShown]
      BY <2>4, <2>6
    <2>9. g \in ReadingTypes(p) /\ g.shown = shown /\ g.loaded = NotShown /\ g.key = "unread"
      BY <2>5, <2>7, <2>8 DEF ReadingTypes
    <2>10. \A t \in Targets(p) : g.shown[t] = NotShown  BY <2>6, <2>9
    <2>11. Noted(g, p, r.pc)  BY <2>3, <2>9, <2>10 DEF Noted
    <2>12. Sees(r, g)  BY <2>3 DEF Sees, InRequest
    <2> QED  BY <2>1, <2>11, <2>12
  <1>5. reading = [c \in VotingCalls |-> reading[c]]  BY <1>3
  <1> QED  BY <1>1, <1>2, <1>4, <1>5 DEF TallyInv

LEMMA TallyInvStep == TallyInv /\ [VotingNext]_votingVars => TallyInv'
  <1> SUFFICES ASSUME TallyInv, [VotingNext]_votingVars PROVE TallyInv'  OBVIOUS
  <1>0. CastInv'  BY CastInvStep DEF TallyInv
  <1>1. CASE VotingNext
    <2> PICK c \in VotingCalls : VoteSteps(c) \/ DetailSteps(c) \/ Closing(c) \/ ChangeVoter(c)
                                 \/ DeleteVoter(c)
      BY <1>1 DEF VotingNext, VoteSteps, DetailSteps
    <2>1. CASE VoteSteps(c)
      <3>1. Aside  BY <2>1, VoteProceeds
      <3>2. CASE InsertZkVote(c)
        <4>1. IsFiniteSet(zkVotes') /\ IsFiniteSet(votes') /\ Witnessed
          <5>1. PICK b : zkVotes' = zkVotes \/ zkVotes' = zkVotes \cup {b}
            BY <3>2 DEF InsertZkVote
          <5>2. IsFiniteSet(zkVotes) /\ IsFiniteSet(votes)  BY DEF TallyInv
          <5>3. IsFiniteSet(zkVotes')  BY <5>1, <5>2, FS_AddElement
          <5> QED  BY <3>2, <5>2, <5>3 DEF InsertZkVote
        <4> QED  BY <1>0, <3>1, <4>1, WitnessedStep
      <3>3. CASE InsertDevVote(c)
        <4>1. IsFiniteSet(zkVotes') /\ IsFiniteSet(votes') /\ Witnessed
          <5>1. PICK b : votes' = votes \/ votes' = votes \cup {b}
            BY <3>3 DEF InsertDevVote
          <5>2. IsFiniteSet(zkVotes) /\ IsFiniteSet(votes)  BY DEF TallyInv
          <5>3. IsFiniteSet(votes')  BY <5>1, <5>2, FS_AddElement
          <5> QED  BY <3>3, <5>2, <5>3 DEF InsertDevVote
        <4> QED  BY <1>0, <3>1, <4>1, WitnessedStep
      <3>4. CASE ~InsertZkVote(c) /\ ~InsertDevVote(c)
        <4>1. UNCHANGED <<votes, zkVotes, reading>>
          BY <2>1, <3>4
             DEF VoteSteps, FetchKey, FindKeyByPoll, FindKeyByKey, InsertKey, FindRacedKey,
                 PrepareBallot, Submit, LoadPoll, FindOption, FindIdentity, FindExistingVote,
                 LoadIdentityProfile, VerifyGroth16Proof, VerifyLegacyProof, FindNullifier,
                 Reads, votingRows
        <4> QED  BY <1>0, <3>1, <4>1, AsideStep
      <3> QED  BY <3>2, <3>3, <3>4
    <2>2. CASE DetailSteps(c)
      BY <1>0, <2>2, DetailsRead, CountsHinted, CountsProbed, CountsDoubled, CountsBisected,
         TallyLoaded, TallyDecrypted DEF DetailSteps
    <2>3. CASE Closing(c)
      <3>1. Step(c, "ok") /\ UNCHANGED <<votes, zkVotes, reading>>  BY <2>3 DEF Closing
      <3>2. Aside  BY <3>1, ProceedsAside DEF Proceeds, OtherPcs, EndPcs
      <3> QED  BY <1>0, <3>1, <3>2, AsideStep
    <2>4. CASE ChangeVoter(c)
      <3>1. Moving(c, VoterOf(c)) /\ UNCHANGED <<votes, zkVotes, reading>>
        BY <2>4 DEF ChangeVoter
      <3> QED  BY <1>0, <3>1, MovingAside, AsideStep
    <2>5. CASE DeleteVoter(c)
      <3>1. /\ Moving(c, VoterOf(c)) /\ Witnessed /\ UNCHANGED zkVotes
            /\ votes' \subseteq votes
        BY <2>5 DEF DeleteVoter
      <3>2. IsFiniteSet(votes') /\ IsFiniteSet(zkVotes')  BY <3>1, FS_Subset DEF TallyInv
      <3> QED  BY <1>0, <3>1, <3>2, MovingAside, WitnessedStep
    <2> QED  BY <2>1, <2>2, <2>3, <2>4, <2>5
  <1>2. CASE UNCHANGED votingVars
    <2>1. UNCHANGED <<votes, zkVotes, votingCall, reading>>
      BY <1>2 DEF votingVars, votingRows
    <2>2. Aside  BY <2>1 DEF Aside
    <2> QED  BY <1>0, <2>1, <2>2, AsideStep
  <1> QED  BY <1>1, <1>2

\* Each number of a tally is one the poll had while it was counted, in any
\* interleaving with votes that come and accounts that go.
THEOREM TalliesAreAlwaysOfTheMoment == VotingSpec => []TalliesAreOfTheMoment
<1>1. TallyInv => TalliesAreOfTheMoment
  <2> SUFFICES ASSUME TallyInv, NEW c \in VotingCalls, NEW t \in Targets(PollOf(c)),
                      reading[c].shown[t] # NotShown
               PROVE  /\ reading[c].least[t] <= reading[c].shown[t]
                      /\ reading[c].shown[t] <= reading[c].most[t]
    BY DEF TalliesAreOfTheMoment
  <2>1. Noted(reading[c], PollOf(c), votingCall[c].pc)  BY DEF TallyInv, PollOf
  <2> QED  BY <2>1 DEF Noted, Within
<1> QED  BY <1>1, TallyInvInit, TallyInvStep, PTL DEF VotingSpec

\* Whatever the requests, the rows keep their types.
THEOREM VotingIsTyped == VotingSpec => []VotingTypeOK
<1>1. TallyInv => VotingTypeOK
  BY DEF TallyInv, CastInv, VotingInv, KeysOK, VotingCallsOK, ZkVotesOK, CastTypes, VotingTypeOK, Parts
<1> QED  BY <1>1, TallyInvInit, TallyInvStep, PTL DEF VotingSpec

-----------------------------------------------------------------------------
(* MapMarkers: types. *)

MarkerTypes ==
    /\ MarkerTypeOK
    /\ DOMAIN rebuild = {"pc", "after", "buckets", "seen"}
    /\ DOMAIN view = {"pc", "path", "level", "seen", "homes", "markers"}

\* Who reads the map has seen votes that there are.
LEMMA MarkersKeepTypes == MarkerTypes /\ [MarkerNext]_markerVars => MarkerTypes'
<1> SUFFICES ASSUME MarkerTypes, [MarkerNext]_markerVars PROVE MarkerTypes'
  OBVIOUS
<1>1. /\ DOMAIN ballots = PlacedVotes /\ inserted \subseteq PlacedVotes
      /\ rebuild.pc \in {"idle", "scanning", "saving"} /\ rebuild.seen \subseteq inserted
      /\ markerCache.there \in BOOLEAN /\ markerCache.seen \subseteq inserted
      /\ view.pc \in {"idle", "profiles", "ok"} /\ view.seen \subseteq inserted
      /\ DOMAIN rebuild = {"pc", "after", "buckets", "seen"}
      /\ DOMAIN view = {"pc", "path", "level", "seen", "homes", "markers"}
  BY DEF MarkerTypes, MarkerTypeOK
<1>2. CASE UNCHANGED markerVars
  BY <1>2 DEF markerVars, MarkerTypes, MarkerTypeOK
<1>3. CASE InsertPlacedVote
  BY <1>1, <1>3, PlacedVotesAssumption DEF InsertPlacedVote, MarkerTypes, MarkerTypeOK
<1>4. CASE MoveHome(LatestVote)
  BY <1>1, <1>4 DEF MoveHome, MarkerTypes, MarkerTypeOK
<1>5. CASE StartMarkers
  BY <1>1, <1>5 DEF StartMarkers, NotRebuilding, MarkerTypes, MarkerTypeOK
<1>6. CASE ScanMarkers
  <2>1. PICK page, buckets, after :
          /\ page \subseteq inserted
          /\ rebuild' = IF page = {} THEN [rebuild EXCEPT !.pc = "saving"]
                        ELSE [rebuild EXCEPT !.buckets = buckets, !.after = after,
                                             !.seen = rebuild.seen \cup page]
          /\ UNCHANGED <<ballots, inserted, markerCache, view>>
    <3> DEFINE rest == {v \in inserted : ballots[v].place # NoPlace /\ v > rebuild.after}
               page == {v \in rest : Cardinality({u \in rest : u < v}) < MarkerPageSize}
               buckets == FoldSet(LAMBDA v, filled : AddVote(filled, v), rebuild.buckets, page)
               after == CHOOSE v \in page : \A u \in page : u <= v
    <3>1. /\ rebuild' = IF page = {} THEN [rebuild EXCEPT !.pc = "saving"]
                        ELSE [rebuild EXCEPT !.buckets = buckets, !.after = after,
                                             !.seen = rebuild.seen \cup page]
          /\ UNCHANGED <<ballots, inserted, markerCache, view>>
      BY <1>6, Zenon DEF ScanMarkers
    <3>2. page \subseteq inserted
      OBVIOUS
    <3> HIDE DEF page, buckets, after
    <3> QED BY <3>1, <3>2
  <2>2. /\ rebuild'.pc \in {"idle", "scanning", "saving"} /\ rebuild'.seen \subseteq inserted
        /\ DOMAIN rebuild' = {"pc", "after", "buckets", "seen"}
    BY <1>1, <2>1
  <2> QED BY <1>1, <2>1, <2>2 DEF MarkerTypes, MarkerTypeOK
<1>7. CASE SaveMarkers
  BY <1>1, <1>7 DEF SaveMarkers, NotRebuilding, MarkerTypes, MarkerTypeOK
<1>8. ASSUME NEW level \in {"city", "country"}, GetCachedMarkers(level) PROVE MarkerTypes'
  <2>1. PICK markers : view' = [view EXCEPT !.pc = "ok", !.level = level,
                                            !.seen = markerCache.seen, !.markers = markers]
    BY <1>8 DEF GetCachedMarkers
  <2>2. UNCHANGED <<ballots, inserted, rebuild, markerCache>>
    BY <1>8 DEF GetCachedMarkers
  <2>3. /\ view'.pc = "ok" /\ view'.seen = markerCache.seen
        /\ DOMAIN view' = {"pc", "path", "level", "seen", "homes", "markers"}
    BY <1>1, <2>1
  <2> QED BY <1>1, <2>2, <2>3 DEF MarkerTypes, MarkerTypeOK
<1>9. ASSUME NEW level \in {"city", "country"}, LoadValidVotes(level) PROVE MarkerTypes'
  BY <1>1, <1>9 DEF LoadValidVotes, MarkerTypes, MarkerTypeOK
<1>10. CASE LoadHomes
  <2>1. PICK homes, markers :
          view' = [view EXCEPT !.pc = "ok", !.homes = homes, !.markers = markers]
    BY <1>10 DEF LoadHomes
  <2>2. UNCHANGED <<ballots, inserted, rebuild, markerCache>>
    BY <1>10 DEF LoadHomes
  <2>3. /\ view'.pc = "ok" /\ view'.seen = view.seen
        /\ DOMAIN view' = {"pc", "path", "level", "seen", "homes", "markers"}
    BY <1>1, <2>1
  <2> QED BY <1>1, <2>2, <2>3 DEF MarkerTypes, MarkerTypeOK
<1> QED
  BY <1>2, <1>3, <1>4, <1>5, <1>6, <1>7, <1>8, <1>9, <1>10 DEF MarkerNext

\* The votes, the cache and what a reader of the map holds have their types,
\* of any number of votes and of any worlds.
THEOREM MarkersAreTyped == MarkerSpec => []MarkerTypeOK
<1>1. MarkerInit => MarkerTypes
  BY MarkerWorldsAssumption DEF MarkerInit, MarkerTypes, MarkerTypeOK, NotRebuilding, NoRow, NotViewing
<1>2. MarkerTypes => MarkerTypeOK
  BY DEF MarkerTypes
<1> QED BY <1>1, <1>2, MarkersKeepTypes, PTL DEF MarkerSpec

-----------------------------------------------------------------------------
(* CommentThreads: types. *)

ReaderFields == {"pc", "cursor", "blocked", "roots", "next", "counts", "previews", "orphans",
                 "waits", "tasks", "root", "shown"}

ReaderTypes == CommentsTypeOK /\ DOMAIN reader = ReaderFields

\* What a step of the reader may do to its types
LEMMA ReaderStepKeepsTypes ==
  ASSUME ReaderTypes, UNCHANGED commentRows, DOMAIN reader' = ReaderFields,
         reader'.pc \in {"page", "roots", "queries", "replies", "rows", "done"},
         reader'.shown \in [CommentIds -> Nat]
  PROVE  ReaderTypes'
  BY DEF ReaderTypes, CommentsTypeOK, commentRows

LEMMA SeeingCounts ==
  ASSUME ReaderTypes, NEW cs
  PROVE  Seeing(cs) \in [CommentIds -> Nat]
  BY DEF ReaderTypes, CommentsTypeOK, Seeing

LEMMA CommentsKeepTypes == ReaderTypes /\ [CommentsNext]_commentVars => ReaderTypes'
<1> SUFFICES ASSUME ReaderTypes, [CommentsNext]_commentVars PROVE ReaderTypes'
  OBVIOUS
<1>1. /\ DOMAIN reader = ReaderFields /\ reader.shown \in [CommentIds -> Nat]
      /\ reader.pc \in {"page", "roots", "queries", "replies", "rows", "done"}
      /\ thread \in [CommentIds -> CommentIds \cup {NoRoot}]
      /\ shunned \subseteq CommentIds /\ blocking \in BOOLEAN /\ postShown \in BOOLEAN
      /\ commentStatus \in [CommentIds -> CommentStatuses]
      /\ likeCounts \in [CommentIds -> Nat] /\ changesLeft \in Nat
      /\ moved \subseteq CommentIds
  BY DEF ReaderTypes, CommentsTypeOK
<1>2. CASE UNCHANGED commentVars
  BY <1>2 DEF commentVars, ReaderTypes, CommentsTypeOK
<1>3. \A next, tasks : Onward(next, tasks) \in {"page", "replies", "done"}
  BY DEF Onward
<1>4. CASE BeginPage
  <2>1. CASE postShown
    <3>1. DOMAIN reader' = ReaderFields /\ reader'.pc = "roots" /\ reader'.shown = reader.shown
      BY <1>1, <1>4, <2>1 DEF BeginPage, ReaderFields
    <3> QED BY <1>1, <1>4, <3>1, ReaderStepKeepsTypes DEF BeginPage
  <2>2. CASE ~postShown
    <3>1. reader' = NothingMore(reader)
      BY <1>4, <2>2 DEF BeginPage
    <3>2. /\ DOMAIN reader' = ReaderFields /\ reader'.pc = Onward(<<>>, reader.tasks)
          /\ reader'.shown = reader.shown
      BY <1>1, <3>1 DEF NothingMore, ReaderFields
    <3> QED BY <1>1, <1>3, <1>4, <3>2, ReaderStepKeepsTypes DEF BeginPage
  <2> QED BY <2>1, <2>2
<1>5. CASE ReadRoots
  <2>1. PICK roots, waits, next, counts :
          /\ reader' = [reader EXCEPT !.pc = "queries", !.roots = roots, !.waits = waits,
                                      !.next = next, !.counts = counts]
          /\ UNCHANGED commentRows
    BY <1>5 DEF ReadRoots
  <2>2. DOMAIN reader' = ReaderFields /\ reader'.pc = "queries" /\ reader'.shown = reader.shown
    BY <1>1, <2>1 DEF ReaderFields
  <2> QED BY <1>1, <2>1, <2>2, ReaderStepKeepsTypes
<1>6. CASE ReadPreviews
  <2>1. PICK waits, previews :
          /\ reader' = [reader EXCEPT !.waits = waits, !.previews = previews]
          /\ UNCHANGED commentRows
    BY <1>6 DEF ReadPreviews
  <2>2. DOMAIN reader' = ReaderFields /\ reader'.pc = reader.pc /\ reader'.shown = reader.shown
    BY <1>1, <2>1 DEF ReaderFields
  <2> QED BY <1>1, <2>1, <2>2, ReaderStepKeepsTypes
<1>7. CASE ReadOrphans
  <2>1. PICK waits, orphans :
          /\ reader' = [reader EXCEPT !.waits = waits, !.orphans = orphans]
          /\ UNCHANGED commentRows
    BY <1>7 DEF ReadOrphans
  <2>2. DOMAIN reader' = ReaderFields /\ reader'.pc = reader.pc /\ reader'.shown = reader.shown
    BY <1>1, <2>1 DEF ReaderFields
  <2> QED BY <1>1, <2>1, <2>2, ReaderStepKeepsTypes
<1>8. CASE AnswerPage
  <2>1. PICK cs, tasks, pc, cursor, counts, shown :
          /\ shown = [c \in CommentIds |->
                        Seeing(cs)[c] + (IF c \in reader.orphans \ reader.blocked THEN 1 ELSE 0)]
          /\ pc = Onward(reader.next, tasks)
          /\ reader' = [reader EXCEPT !.pc = pc, !.cursor = cursor, !.tasks = tasks,
                          !.shown = shown, !.roots = <<>>, !.previews = {}, !.orphans = {},
                          !.next = <<>>, !.blocked = {}, !.counts = counts]
          /\ UNCHANGED commentRows
    BY <1>8 DEF AnswerPage
  <2>2. Seeing(cs) \in [CommentIds -> Nat]
    BY SeeingCounts
  <2>3. shown \in [CommentIds -> Nat]
    BY <2>1, <2>2
  <2>4. DOMAIN reader' = ReaderFields /\ reader'.pc = pc /\ reader'.shown = shown
    BY <1>1, <2>1 DEF ReaderFields
  <2> QED BY <1>3, <2>1, <2>3, <2>4, ReaderStepKeepsTypes
<1>9. CASE BeginReplies
  <2>1. PICK task \in reader.tasks :
           LET rest == [reader EXCEPT !.tasks = @ \ {task}] IN
           reader' = IF /\ postShown /\ commentStatus[task[1]] = "published"
                        /\ task[1] \notin BlockedComments
                       THEN [rest EXCEPT !.pc = "rows", !.root = task[1],
                                         !.cursor = <<task[2]>>, !.blocked = BlockedComments]
                       ELSE NothingMore(rest)
    BY <1>9 DEF BeginReplies
  <2>2. PICK rest : rest = [reader EXCEPT !.tasks = reader.tasks \ {task}]
    OBVIOUS
  <2>3. DOMAIN rest = ReaderFields /\ rest.shown = reader.shown
    BY <1>1, <2>2 DEF ReaderFields
  <2>4. PICK cursor, blocked :
          \/ reader' = [rest EXCEPT !.pc = "rows", !.root = task[1],
                                    !.cursor = cursor, !.blocked = blocked]
          \/ reader' = NothingMore(rest)
    BY <2>1, <2>2
  <2>5. /\ DOMAIN reader' = ReaderFields /\ reader'.shown = reader.shown
        /\ \/ reader'.pc = "rows"
           \/ reader'.pc = Onward(<<>>, rest.tasks)
    BY <2>3, <2>4 DEF NothingMore, ReaderFields
  <2> QED BY <1>1, <1>3, <1>9, <2>5, ReaderStepKeepsTypes DEF BeginReplies
<1>10. CASE AnswerReplies
  <2>1. PICK cs, tasks, pc, shown :
          /\ shown = Seeing(cs) /\ pc = Onward(<<>>, tasks)
          /\ reader' = [reader EXCEPT !.pc = pc, !.tasks = tasks, !.shown = shown,
                                      !.root = NoRoot, !.cursor = <<>>, !.blocked = {}]
          /\ UNCHANGED commentRows
    BY <1>10 DEF AnswerReplies
  <2>2. shown \in [CommentIds -> Nat]
    BY <2>1, SeeingCounts
  <2>3. DOMAIN reader' = ReaderFields /\ reader'.pc = pc /\ reader'.shown = shown
    BY <1>1, <2>1 DEF ReaderFields
  <2> QED BY <1>3, <2>1, <2>2, <2>3, ReaderStepKeepsTypes
<1>11. ASSUME NEW cs, Changes(cs), cs \subseteq CommentIds, blocking' \in BOOLEAN,
              postShown' \in BOOLEAN, commentStatus' \in [CommentIds -> CommentStatuses],
              likeCounts' \in [CommentIds -> Nat]
       PROVE  ReaderTypes'
  BY <1>1, <1>11 DEF Changes, ReaderTypes, CommentsTypeOK
<1>12. CASE BlockOrUnblock
  <2>1. Changes(shunned) /\ blocking' = ~blocking /\ UNCHANGED <<commentStatus, likeCounts, postShown>>
    BY <1>12 DEF BlockOrUnblock
  <2>2. blocking' \in BOOLEAN
    BY <2>1
  <2> QED BY <1>1, <1>11, <2>1, <2>2
<1>13. CASE HidePost
  BY <1>1, <1>11, <1>13 DEF HidePost
<1>14. ASSUME NEW c \in CommentIds, LikeComment(c) PROVE ReaderTypes'
  <2>1. PICK count \in Nat : likeCounts' = [likeCounts EXCEPT ![c] = count]
    BY <1>14 DEF LikeComment
  <2>2. Changes({c}) /\ UNCHANGED <<blocking, commentStatus, postShown>>
    BY <1>14 DEF LikeComment
  <2>3. likeCounts' \in [CommentIds -> Nat]
    BY <1>1, <2>1
  <2> QED BY <1>1, <1>11, <2>2, <2>3
<1>15. ASSUME NEW c \in CommentIds, NEW from, NEW to \in CommentStatuses, ChangeStatus(c, from, to)
       PROVE  ReaderTypes'
  <2>1. {c, thread[c]} \ {NoRoot} \subseteq CommentIds
    BY <1>1
  <2>2. /\ Changes({c, thread[c]} \ {NoRoot}) /\ UNCHANGED <<blocking, likeCounts, postShown>>
        /\ commentStatus' = [commentStatus EXCEPT ![c] = to]
    BY <1>15 DEF ChangeStatus
  <2>3. commentStatus' \in [CommentIds -> CommentStatuses]
    BY <1>1, <2>2
  <2> QED BY <1>1, <1>11, <2>1, <2>2, <2>3
<1>16. "published" \in CommentStatuses /\ "hidden" \in CommentStatuses
  BY DEF CommentStatuses
<1> QED
  BY <1>2, <1>4, <1>5, <1>6, <1>7, <1>8, <1>9, <1>10, <1>12, <1>13, <1>14, <1>15, <1>16
  DEF CommentsNext

\* The comments and what their reader holds have their types, of any number
\* of comments, threads and pages.
THEOREM CommentsAreTyped == CommentsSpec => []CommentsTypeOK
<1>1. CommentsInit => ReaderTypes
  <2> SUFFICES ASSUME CommentsInit PROVE ReaderTypes
    OBVIOUS
  <2>1. PICK world \in CommentWorlds :
           /\ thread = world.thread /\ shunned = world.shunned /\ commentStatus = world.status
           /\ likeCounts = world.likes /\ changesLeft = world.changes
    BY DEF CommentsInit
  <2>2. /\ thread \in [CommentIds -> CommentIds \cup {NoRoot}] /\ shunned \subseteq CommentIds
        /\ commentStatus \in [CommentIds -> CommentStatuses]
        /\ likeCounts \in [CommentIds -> Nat] /\ changesLeft \in Nat
    BY <2>1, CommentWorldsAssumption DEF NoRoot, CommentStatuses
  <2>3. blocking \in BOOLEAN
    BY DEF CommentsInit
  <2> QED
    BY <2>2, <2>3 DEF CommentsInit, ReaderTypes, CommentsTypeOK, NewReader, ReaderFields
<1>2. ReaderTypes => CommentsTypeOK
  BY DEF ReaderTypes
<1> QED BY <1>1, <1>2, CommentsKeepTypes, PTL DEF CommentsSpec

-----------------------------------------------------------------------------
(* What is promised of content and of votes. *)

\* Nothing is public that was not allowed, of any number of discussions,
\* polls, edits, reviews and moderations under way.
THEOREM PublicIsAlwaysCleared == DiscussionSpec /\ DraftSpec => []OnlyClearedIsPublic
<1>1. OnlyClearedContentIsPublic /\ PublishedPollsAreCleared => OnlyClearedIsPublic
  BY DEF OnlyClearedIsPublic
<1> QED BY <1>1, PublicContentIsCleared, PublishedPollsAreClearedAlways, PTL

\* Of any number of polls that share key ids and of voters who vote at once,
\* again, and while they change or leave.
THEOREM VotesAlwaysHold == VotingSpec => []VotesHold
<1>1. /\ EveryVoteCanBeCounted /\ NobodyVotesTwice /\ VotersAreEligible
      /\ AnswersOnVotesHold /\ TalliesAreOfTheMoment
      => VotesHold
  BY DEF VotesHold
<1> QED
  BY <1>1, EveryVoteCanBeCountedAlways, NobodyEverVotesTwice, VotersAreAlwaysEligible,
     AnswersOnVotesAlwaysHold, TalliesAreAlwaysOfTheMoment, PTL
=============================================================================
