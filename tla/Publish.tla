------------------------------ MODULE Publish -------------------------------
(***************************************************************************)
(* Writing a post: the AddPost screen, the picture picker, uploadPostImage *)
(* and uploadPost of SocialAppCubit up to the add of the post.  From the   *)
(* add on, uploadPost is an upload call of module Feed.                    *)
(*                                                                         *)
(* The picked file and the URL of the last upload are fields of the cubit, *)
(* shared by every post: a second Post can be tapped, and another picture  *)
(* picked, while the first post's picture is on its way, and neither field *)
(* is reset when a post is done.                                           *)
(***************************************************************************)
EXTENDS Naturals, Sequences, FiniteSets

CONSTANTS
  Files,     \* picture files, also the URLs they get
  Avatar,    \* the picture of getUser
  Posts,     \* slots for uploadPost calls in flight together
  Nil,       \* null
  MaxPosts   \* bound on the posts added

ASSUME PicturesAssumption == Nil \notin Files \cup {Avatar} /\ Avatar \notin Files
ASSUME MaxPostsAssumption == MaxPosts \in Nat

VARIABLES
  getUser,       \* whether SocialAppCubit.getUser has been read
  screen,        \* "main", or "addPost" on top of it
  postImage,     \* the picked file, shown on AddPost
  postImageUrl,  \* the URL of the last picture uploaded
  post,          \* calls of uploadPost
  added          \* what the posts of this process were added with, in order

vars == <<getUser, screen, postImage, postImageUrl, post, added>>

-----------------------------------------------------------------------------
\* A call waits for the upload of its file, if there is one.
Post == [at : {"idle", "uploading"}, file : Files \cup {Nil}]

\* The picture a post shows; and, for the properties, the one on the screen at
\* the tap, if any, and whether its upload failed.
Added == [picture : Files \cup {Avatar}, tapped : Files \cup {Nil}, failed : BOOLEAN]

TypeOK ==
  /\ getUser \in BOOLEAN
  /\ screen \in {"main", "addPost"}
  /\ postImage \in Files \cup {Nil}
  /\ postImageUrl \in Files \cup {Nil}
  /\ post \in [Posts -> Post]
  /\ \A c \in Posts : post[c].at = "idle" <=> post[c].file = Nil
  /\ added \in Seq(Added)

IdlePost == [at |-> "idle", file |-> Nil]

Init ==
  /\ getUser = FALSE /\ screen = "main"
  /\ postImage = Nil /\ postImageUrl = Nil
  /\ post = [c \in Posts |-> IdlePost]
  /\ added = <<>>

-----------------------------------------------------------------------------
(* The screen.                                                             *)

\* getUserData's answer.
UserRead ==
  /\ ~getUser /\ getUser' = TRUE
  /\ UNCHANGED <<screen, postImage, postImageUrl, post, added>>

\* The second tab: MainScreen's listener pushes AddPost, the tab stays.
OpenAddPost ==
  /\ screen = "main" /\ screen' = "addPost"
  /\ UNCHANGED <<getUser, postImage, postImageUrl, post, added>>

CloseAddPost ==
  /\ screen = "addPost" /\ screen' = "main"
  /\ UNCHANGED <<getUser, postImage, postImageUrl, post, added>>

\* AddPost shows getUser's name and picture, and the picker only with them.
BodyBuilt == screen = "addPost" /\ getUser

Pick(f) ==
  /\ BodyBuilt
  /\ postImage' = f
  /\ UNCHANGED <<getUser, screen, postImageUrl, post, added>>

\* changePostUrlValue(null): the file is dropped, the URL of an earlier one not.
Cancel ==
  /\ BodyBuilt /\ postImage # Nil
  /\ postImage' = Nil
  /\ UNCHANGED <<getUser, screen, postImageUrl, post, added>>

-----------------------------------------------------------------------------
(* uploadPost.                                                             *)

\* Mutant: the picked file stands in for the URL.
PictureOfPick(url) ==
  IF postImage # Nil THEN postImage ELSE IF url # Nil THEN url ELSE Avatar

\* postImageUrl ?? getUser.image
Picture(url) == IF url # Nil THEN url ELSE Avatar

\* The post is built with the URL as it is now, and added.
AddPost(c, url, tapped, failed) ==
  /\ added' = Append(added, [picture |-> Picture(url), tapped |-> tapped, failed |-> failed])
  /\ post' = [post EXCEPT ![c] = IdlePost]

Room == Len(added) + Cardinality({c \in Posts : post[c].at = "uploading"}) < MaxPosts

\* Post is tapped without a picture: there is nothing to wait for.
PostPlain(c) ==
  /\ screen = "addPost" /\ getUser /\ post[c].at = "idle" /\ Room
  /\ postImage = Nil
  /\ AddPost(c, postImageUrl, Nil, FALSE)
  /\ UNCHANGED <<getUser, screen, postImage, postImageUrl>>

\* Mutant: the URL is set before the upload.
PostPictureUrlFirst(c) ==
  /\ screen = "addPost" /\ post[c].at = "idle" /\ Room
  /\ postImage # Nil
  /\ post' = [post EXCEPT ![c] = [at |-> "uploading", file |-> postImage]]
  /\ postImageUrl' = postImage
  /\ UNCHANGED <<getUser, screen, postImage, added>>

\* Post is tapped with a picture: putFile is given the file there is now.
PostPicture(c) ==
  /\ screen = "addPost" /\ post[c].at = "idle" /\ Room
  /\ postImage # Nil
  /\ post' = [post EXCEPT ![c] = [at |-> "uploading", file |-> postImage]]
  /\ UNCHANGED <<getUser, screen, postImage, postImageUrl, added>>

\* The upload's URL is stored and read again before any other call can run.
Uploaded(c) ==
  /\ post[c].at = "uploading"
  /\ postImageUrl' = post[c].file
  /\ AddPost(c, post[c].file, post[c].file, FALSE)
  /\ UNCHANGED <<getUser, screen, postImage>>

\* putFile or getDownloadURL fails: printed, and the post goes out all the same.
UploadFails(c) ==
  /\ post[c].at = "uploading"
  /\ AddPost(c, postImageUrl, post[c].file, TRUE)
  /\ UNCHANGED <<getUser, screen, postImage, postImageUrl>>

-----------------------------------------------------------------------------
Restart ==
  /\ getUser' = FALSE /\ screen' = "main"
  /\ postImage' = Nil /\ postImageUrl' = Nil
  /\ post' = [c \in Posts |-> IdlePost]
  /\ added' = <<>>

Next ==
  \/ UserRead \/ OpenAddPost \/ CloseAddPost \/ Cancel
  \/ \E f \in Files : Pick(f)
  \/ \E c \in Posts : PostPlain(c) \/ PostPicture(c) \/ Uploaded(c) \/ UploadFails(c)
  \/ Restart

Spec == Init /\ [][Next]_vars

-----------------------------------------------------------------------------
(* Properties.                                                             *)

\* A post whose upload succeeded carries the picture that was on the screen when
\* Post was tapped, whatever was picked, posted or cancelled meanwhile
\* (social_app_cubit.dart:153-177).
PostHasItsPicture ==
  \A k \in DOMAIN added :
    added[k].tapped # Nil /\ ~added[k].failed => added[k].picture = added[k].tapped

\* Any other post carries the author's picture or one of a post before it: the
\* URL of an earlier post is all it can be mistaken for.
OtherwiseEarlierPicture ==
  \A k \in DOMAIN added :
    \/ added[k].picture \in {Avatar, added[k].tapped}
    \/ \E j \in 1 .. k - 1 : added[j].picture = added[k].picture /\ ~added[j].failed

-----------------------------------------------------------------------------
(* The inductive invariant; PublishProofs proves that it is one.            *)

\* The URL that is kept is that of a post that was added with its own picture.
UrlOfEarlierPost ==
  postImageUrl # Nil =>
    \E j \in DOMAIN added : added[j].picture = postImageUrl /\ ~added[j].failed

IInv == TypeOK /\ PostHasItsPicture /\ OtherwiseEarlierPicture /\ UrlOfEarlierPost
=============================================================================
