---------------------------- MODULE MediaUploads ----------------------------
(***************************************************************************)
(* Images that users upload: a flag they share and select                  *)
(* (services/flagImageService, viewerProfileService.updateSelectedFlagImage*)
(* and the flag_images table), and an image of a discussion post           *)
(* (services/discussionMediaService and the posts of discussionService).   *)
(*                                                                         *)
(* One flag and one image.  An upload is a row that is signed first, a     *)
(* file the client stores by itself, and a request that finds the file to  *)
(* be what was announced ("good", otherwise "other") and completes the     *)
(* row.  A call is split where it awaits the database, the storage or the  *)
(* moderation.                                                             *)
(* Not modelled: the signed read URLs, images that are given as a URL, and *)
(* a post's moderation status: no post of this model is published yet, so  *)
(* that its author may edit and delete it.                                 *)
(***************************************************************************)
EXTENDS Integers, FiniteSets

CONSTANTS MediaUsers,
          MediaPosts,
          MediaCalls,  \* bound: the calls of a behaviour
          MediaMixes   \* what those calls are: operation, user and post

FlagOps == {"createFlag", "completeFlag", "deleteFlag", "select", "unselect"}
ImageOps == {"createImage", "completeImage", "post", "edit", "unpost"}

ASSUME MediaMixesAssumption == MediaMixes \subseteq
    [MediaCalls -> (FlagOps \cup ImageOps \cup {"leave"}) \X MediaUsers \X MediaPosts]

VARIABLES
    flag,       \* the row of flag_images
    flagFile,   \* the file of the flag in the storage
    selected,   \* the users whose selected_flag_image_id is the flag
    gone,       \* the users whose account is deleted
    upload,     \* the row of discussion_media_uploads
    imageFile,  \* its file
    posts,      \* the discussion posts
    untaken,    \* history: why an image in use may be offered again
    mediaCall   \* mediaCall[c]: the state of call c

flagVars == <<flag, flagFile, selected>>
imageVars == <<upload, imageFile, posts, untaken>>
mediaVars == <<flagVars, gone, imageVars, mediaCall>>

Nobody == 0
NoPost == "none"

\* What the checks of its type, size and dimensions find out about a file.
Files == {"none", "good", "other"}

\* shows: the call's post shows the image; uses: it names the upload for it;
\* overtaken (history): its user was deleted meanwhile.
Uploading(ask) == [pc |-> "idle", op |-> ask[1], user |-> ask[2], post |-> ask[3],
                   shows |-> FALSE, uses |-> FALSE, overtaken |-> FALSE]

MediaInit ==
    /\ flag = [status |-> "none", creator |-> Nobody]
    /\ upload = [status |-> "none", owner |-> Nobody, attachedTo |-> NoPost]
    /\ flagFile = "none" /\ imageFile = "none"
    /\ selected = {} /\ gone = {}
    /\ posts = [p \in MediaPosts |-> [status |-> "none", author |-> Nobody, shows |-> FALSE]]
    /\ untaken = {}
    /\ \E mix \in MediaMixes : mediaCall = [c \in MediaCalls |-> Uploading(mix[c])]

-----------------------------------------------------------------------------
MediaAt(c, op, pc) == mediaCall[c].op = op /\ mediaCall[c].pc = pc

\* requireViewer, and what the first reads of a request find out about its
\* user: a deleted user has no session and no identity.
MediaBegins(c, op) == MediaAt(c, op, "idle") /\ mediaCall[c].user \notin gone

\* A finished call keeps nothing of what it read.
MediaGoTo(c, pc) == mediaCall' = [mediaCall EXCEPT ![c].pc = pc,
    ![c].shows = @ /\ pc # "done", ![c].uses = @ /\ pc # "done"]

FlagRowExists == flag.status \in {"signed", "active"}
UploadRowExists == upload.status \in {"signed", "uploaded", "attached"}

Refuse(c) ==
    /\ mediaCall[c].pc = "idle" /\ mediaCall[c].user \in gone
    /\ MediaGoTo(c, "done")
    /\ UNCHANGED <<flagVars, gone, imageVars>>

\* A client stores a file under a URL that was signed for it; nothing there
\* is ever overwritten, and a deleted row does not revoke the URL.
StoreFlagFile ==
    /\ flag.status # "none" /\ flagFile = "none"
    /\ flagFile' \in {"good", "other"}
    /\ UNCHANGED <<flag, selected, gone, mediaCall, imageVars>>

StoreImageFile ==
    /\ upload.status # "none" /\ imageFile = "none"
    /\ imageFile' \in {"good", "other"}
    /\ UNCHANGED <<flagVars, gone, upload, posts, untaken, mediaCall>>

-----------------------------------------------------------------------------
(* createUpload, completeUpload and deleteImage of the flag *)

CreateFlag(c) ==
    /\ MediaBegins(c, "createFlag")
    /\ \/ /\ flag.status = "none"
          /\ flag' = [status |-> "signed", creator |-> mediaCall[c].user]
       \/ UNCHANGED flag
    /\ MediaGoTo(c, "done")
    /\ UNCHANGED <<flagFile, selected, gone, imageVars>>

IsCreator(c) == flag.creator = mediaCall[c].user

ReadFlagForCompletion(c) ==
    /\ MediaBegins(c, "completeFlag")
    /\ MediaGoTo(c, IF flag.status = "signed" /\ IsCreator(c) THEN "checking" ELSE "done")
    /\ UNCHANGED <<flagVars, gone, imageVars>>

\* The storage may fail to give its information or the file.
CheckFlagFile(c) ==
    /\ MediaAt(c, "completeFlag", "checking")
    /\ \/ flagFile = "good" /\ MediaGoTo(c, "marking")
       \/ MediaGoTo(c, "done")
    /\ UNCHANGED <<flagVars, gone, imageVars>>

MarkActive(c) ==
    /\ MediaAt(c, "completeFlag", "marking")
    /\ flag' = IF FlagRowExists THEN [flag EXCEPT !.status = "active"] ELSE flag
    /\ MediaGoTo(c, "done")
    /\ UNCHANGED <<flagFile, selected, gone, imageVars>>

ReadFlagForDeletion(c) ==
    /\ MediaBegins(c, "deleteFlag")
    /\ MediaGoTo(c, IF flag.status = "active" /\ IsCreator(c) THEN "counting" ELSE "done")
    /\ UNCHANGED <<flagVars, gone, imageVars>>

CountSelections(c) ==
    /\ MediaAt(c, "deleteFlag", "counting")
    /\ MediaGoTo(c, IF selected = {} THEN "deleting" ELSE "done")
    /\ UNCHANGED <<flagVars, gone, imageVars>>

\* Mutant: users do not reference the flag.
NotCounted == TRUE

\* users_selected_flag_image_id_fkey, on delete restrict
Unreferenced == selected = {}

DeleteFlagRow(c) ==
    /\ MediaAt(c, "deleteFlag", "deleting")
    /\ IF FlagRowExists /\ Unreferenced
         THEN flag' = [flag EXCEPT !.status = "deleted"] /\ MediaGoTo(c, "removing")
         ELSE UNCHANGED flag /\ MediaGoTo(c, "done")
    /\ UNCHANGED <<flagFile, selected, gone, imageVars>>

\* A failure to remove the file is not answered.
RemoveFlagFile(c) ==
    /\ MediaAt(c, "deleteFlag", "removing")
    /\ flagFile' \in {flagFile, "none"}
    /\ MediaGoTo(c, "done")
    /\ UNCHANGED <<flag, selected, gone, imageVars>>

-----------------------------------------------------------------------------
(* updateSelectedFlagImage *)

ReadFlagForSelection(c) ==
    /\ MediaBegins(c, "select")
    /\ MediaGoTo(c, IF flag.status = "active" THEN "selecting" ELSE "done")
    /\ UNCHANGED <<flagVars, gone, imageVars>>

\* The reference is refused when the row is gone; nothing asks whether the
\* user is.
SelectFlag(c) ==
    /\ MediaAt(c, "select", "selecting")
    /\ selected' = IF FlagRowExists THEN selected \cup {mediaCall[c].user} ELSE selected
    /\ MediaGoTo(c, "done")
    /\ UNCHANGED <<flag, flagFile, gone, imageVars>>

UnselectFlag(c) ==
    /\ MediaBegins(c, "unselect")
    /\ selected' = selected \ {mediaCall[c].user}
    /\ MediaGoTo(c, "done")
    /\ UNCHANGED <<flag, flagFile, gone, imageVars>>

-----------------------------------------------------------------------------
(* createImageUpload and completeImageUpload *)

CreateImage(c) ==
    /\ MediaBegins(c, "createImage")
    /\ \/ /\ upload.status = "none"
          /\ upload' = [upload EXCEPT !.status = "signed", !.owner = mediaCall[c].user]
       \/ UNCHANGED upload
    /\ MediaGoTo(c, "done")
    /\ UNCHANGED <<flagVars, gone, imageFile, posts, untaken>>

IsOwnedUpload(c) == UploadRowExists /\ upload.owner = mediaCall[c].user

\* An upload that is completed already is answered as it is.
ReadForCompletion(c) ==
    /\ MediaBegins(c, "completeImage")
    /\ MediaGoTo(c, IF IsOwnedUpload(c) /\ upload.status = "signed" THEN "checking" ELSE "done")
    /\ UNCHANGED <<flagVars, gone, imageVars>>

CheckImageFile(c) ==
    /\ MediaAt(c, "completeImage", "checking")
    /\ \/ imageFile = "good" /\ MediaGoTo(c, "marking")
       \/ MediaGoTo(c, "done")
    /\ UNCHANGED <<flagVars, gone, imageVars>>

\* The row is named by its id alone: an upload that was attached meanwhile
\* is "uploaded" again.
MarkUploadCompleted(c) ==
    /\ MediaAt(c, "completeImage", "marking")
    /\ upload' = IF UploadRowExists THEN [upload EXCEPT !.status = "uploaded"] ELSE upload
    /\ untaken' = untaken \cup (IF upload.status = "attached" THEN {"reset"} ELSE {})
    /\ MediaGoTo(c, "done")
    /\ UNCHANGED <<flagVars, gone, imageFile, posts>>

-----------------------------------------------------------------------------
(* createPost, updatePost and deletePost, as far as the image goes *)

\* Mutant: an upload that was not finalised will do.
AnyOwnUpload(c) == IsOwnedUpload(c)

\* Mutant: so will another user's.
AnyUploaded(c) == upload.status = "uploaded"

\* resolveUploadedImageForModeration
IsResolved(c) == IsOwnedUpload(c) /\ upload.status = "uploaded"

Resolve(c) ==
    IF IsResolved(c)
      THEN mediaCall' = [mediaCall EXCEPT ![c].pc = "moderating", ![c].shows = TRUE,
                                          ![c].uses = TRUE]
      ELSE MediaGoTo(c, "done")

ReadForPost(c) ==
    /\ MediaBegins(c, "post") /\ posts[mediaCall[c].post].status = "none"
    /\ Resolve(c)
    /\ UNCHANGED <<flagVars, gone, imageVars>>

IsOwnPost(c) == LET p == posts[mediaCall[c].post] IN
    p.status = "stored" /\ p.author = mediaCall[c].user

\* An edit has the upload as its image, keeps the one it read, or has none.
ReadForImageEdit(c) ==
    /\ MediaBegins(c, "edit")
    /\ \/ IsOwnPost(c) /\ Resolve(c)
       \/ /\ IsOwnPost(c)
          /\ \E shows \in {posts[mediaCall[c].post].shows, FALSE} :
               mediaCall' = [mediaCall EXCEPT ![c].pc = "moderating", ![c].shows = shows]
       \/ ~IsOwnPost(c) /\ MediaGoTo(c, "done")
    /\ UNCHANGED <<flagVars, gone, imageVars>>

\* Mutant: the index is not unique.
AnyImageMayBeStored(call) == TRUE

\* discussion_posts_image_storage_path_idx: no two posts have one image.
ImageMayBeStored(call) ==
    call.shows => ~\E p \in MediaPosts \ {call.post} : posts[p].shows

\* insertPost or updatePostById: a post is new, or is there to be updated; an
\* image of another post makes the statement fail, which is thrown.
StorePost(c) ==
    LET call == mediaCall[c] IN
    /\ call.op \in {"post", "edit"} /\ call.pc = "moderating"
    /\ IF /\ posts[call.post].status = IF call.op = "post" THEN "none" ELSE "stored"
          /\ ImageMayBeStored(call)
         THEN /\ posts' = [posts EXCEPT ![call.post] =
                             [status |-> "stored", author |-> call.user, shows |-> call.shows]]
              /\ MediaGoTo(c, IF call.uses THEN "attaching" ELSE "done")
         ELSE UNCHANGED posts /\ MediaGoTo(c, "done")
    /\ UNCHANGED <<flagVars, gone, upload, imageFile, untaken>>

\* The input is invalid, or the moderation or the database fails.
FailPost(c) ==
    /\ mediaCall[c].op \in {"post", "edit"} /\ mediaCall[c].pc = "moderating"
    /\ MediaGoTo(c, "done")
    /\ UNCHANGED <<flagVars, gone, imageVars>>

ReadForAttachment(c) ==
    /\ mediaCall[c].pc = "attaching"
    /\ MediaGoTo(c, IF IsResolved(c) THEN "writing" ELSE "done")
    /\ UNCHANGED <<flagVars, gone, imageVars>>

\* Mutant: the post is noted, the status is left.
NotedUpload(p) == [upload EXCEPT !.attachedTo = p]

AttachedUpload(p) == [upload EXCEPT !.status = "attached", !.attachedTo = p]

\* attached_post_id refers to a post: one that was deleted meanwhile is
\* refused.
AttachUploadToPost(c) ==
    /\ mediaCall[c].pc = "writing"
    /\ upload' = IF UploadRowExists /\ posts[mediaCall[c].post].status = "stored"
                   THEN AttachedUpload(mediaCall[c].post) ELSE upload
    /\ MediaGoTo(c, "done")
    /\ UNCHANGED <<flagVars, gone, imageFile, posts, untaken>>

\* The process ends, or the database fails, when the post is stored and its
\* image is not attached.
LoseAttachment(c) ==
    /\ mediaCall[c].pc \in {"attaching", "writing"}
    /\ untaken' = untaken \cup {"unattached"}
    /\ MediaGoTo(c, "done")
    /\ UNCHANGED <<flagVars, gone, upload, imageFile, posts>>

\* attached_post_id, on delete set null
Detached(ps) == IF upload.attachedTo \in ps
                  THEN [upload EXCEPT !.attachedTo = NoPost] ELSE upload

\* deletePostById names the author and the status once more, so that its read
\* beforehand decides nothing.
DeletePostWithImage(c) ==
    /\ MediaBegins(c, "unpost")
    /\ IF IsOwnPost(c)
         THEN /\ posts' = [posts EXCEPT ![mediaCall[c].post].status = "deleted",
                                        ![mediaCall[c].post].shows = FALSE]
              /\ upload' = Detached({mediaCall[c].post})
         ELSE UNCHANGED <<posts, upload>>
    /\ MediaGoTo(c, "done")
    /\ UNCHANGED <<flagVars, gone, imageFile, untaken>>

-----------------------------------------------------------------------------
\* Mutant: a disabled user keeps the flag.
KeptSelections(u) == selected

\* clear_disabled_user_flag_selection
ClearedSelections(u) == selected \ {u}

\* delete_account_for_user: posts and uploads go, the files stay.
LeaveWithMedia(c) ==
    LET u == mediaCall[c].user
        own == {p \in MediaPosts : posts[p].status = "stored" /\ posts[p].author = u}
    IN
    /\ MediaBegins(c, "leave")
    /\ gone' = gone \cup {u}
    /\ selected' = ClearedSelections(u)
    /\ posts' = [p \in MediaPosts |->
         IF p \in own THEN [posts[p] EXCEPT !.status = "deleted", !.shows = FALSE] ELSE posts[p]]
    /\ upload' = IF IsOwnedUpload(c)
                   THEN [upload EXCEPT !.status = "deleted", !.attachedTo = NoPost]
                   ELSE Detached(own)
    /\ mediaCall' = [b \in MediaCalls |->
         IF b = c THEN [mediaCall[b] EXCEPT !.pc = "done"]
         ELSE [mediaCall[b] EXCEPT !.overtaken =
                 @ \/ (mediaCall[b].user = u /\ mediaCall[b].pc \notin {"idle", "done"})]]
    /\ UNCHANGED <<flag, flagFile, imageFile, untaken>>

MediaNext ==
    \/ StoreFlagFile \/ StoreImageFile
    \/ \E c \in MediaCalls :
         \/ Refuse(c) \/ LeaveWithMedia(c)
         \/ CreateFlag(c) \/ ReadFlagForCompletion(c) \/ CheckFlagFile(c) \/ MarkActive(c)
         \/ ReadFlagForDeletion(c) \/ CountSelections(c) \/ DeleteFlagRow(c)
         \/ RemoveFlagFile(c)
         \/ ReadFlagForSelection(c) \/ SelectFlag(c) \/ UnselectFlag(c)
         \/ CreateImage(c) \/ ReadForCompletion(c) \/ CheckImageFile(c)
         \/ MarkUploadCompleted(c)
         \/ ReadForPost(c) \/ ReadForImageEdit(c) \/ StorePost(c) \/ FailPost(c)
         \/ ReadForAttachment(c) \/ AttachUploadToPost(c) \/ LoseAttachment(c)
         \/ DeletePostWithImage(c)

MediaSpec == MediaInit /\ [][MediaNext]_mediaVars

-----------------------------------------------------------------------------
MediaTypeOK ==
    /\ flag \in [status : {"none", "signed", "active", "deleted"},
                 creator : MediaUsers \cup {Nobody}]
    /\ upload \in [status : {"none", "signed", "uploaded", "attached", "deleted"},
                   owner : MediaUsers \cup {Nobody}, attachedTo : MediaPosts \cup {NoPost}]
    /\ flagFile \in Files /\ imageFile \in Files
    /\ selected \subseteq MediaUsers /\ gone \subseteq MediaUsers
    /\ posts \in [MediaPosts -> [status : {"none", "stored", "deleted"},
                                 author : MediaUsers \cup {Nobody}, shows : BOOLEAN]]
    /\ untaken \subseteq {"reset", "unattached"}
    /\ DOMAIN mediaCall = MediaCalls

\* A flag that someone has selected can be shown: its row is active and its
\* file is stored and is what was announced, although deletion, selection and
\* completion overlap.
SelectedFlagsAreStored == selected # {} => flag.status = "active" /\ flagFile = "good"

\* A deleted user has a flag selected only when the request that selected it
\* was under way at the deletion.  (It has no way to give the flag up, so that
\* its creator can never delete it.)
LeaversSelectNothing == \A u \in selected \cap gone : \E c \in MediaCalls :
    mediaCall[c].op = "select" /\ mediaCall[c].user = u /\ mediaCall[c].overtaken

\* The image of a post is one its author uploaded, and the file was found to
\* be what was announced.
ShownImagesAreFinal == \A p \in MediaPosts : posts[p].shows =>
    posts[p].author = upload.owner /\ imageFile = "good"

\* One upload is never the image of two posts, however many requests resolved
\* it before one of them stored its post.
AnImageIsOfOnePost == Cardinality({p \in MediaPosts : posts[p].shows}) <= 1

\* An upload that can be named for another post is the image of none, unless
\* the request that stored the post has yet to attach it.  What breaks this is
\* named: an attachment was lost, or a completion that had read the row before
\* the post was stored made the upload usable again.  (Every later use of it
\* is moderated and then fails.)
UsableUploadsAreFree == untaken = {} /\ upload.status = "uploaded" =>
    \A p \in MediaPosts : posts[p].shows => \E c \in MediaCalls :
        mediaCall[c].uses /\ mediaCall[c].post = p /\ mediaCall[c].pc \in {"attaching", "writing"}

MediaHolds == SelectedFlagsAreStored /\ LeaversSelectNothing /\ ShownImagesAreFinal
           /\ AnImageIsOfOnePost /\ UsableUploadsAreFree
=============================================================================
