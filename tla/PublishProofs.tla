--------------------------- MODULE PublishProofs ----------------------------
(* The pictures of posts, for any files, calls in flight and posts added.    *)
EXTENDS Publish, TLAPS

\* The URL left by an earlier upload, or the author's picture where none is.
LEMMA PictureType ==
  ASSUME NEW url \in Files \cup {Nil}
  PROVE  /\ Picture(url) \in Files \cup {Avatar}
         /\ url # Nil => Picture(url) = url
         /\ url = Nil => Picture(url) = Avatar
BY DEF Picture

\* AddPost puts one record at the end and ends the call.
LEMMA AddPostEffect ==
  ASSUME TypeOK, NEW c \in Posts, NEW url \in Files \cup {Nil},
         NEW tapped \in Files \cup {Nil}, NEW failed \in BOOLEAN,
         AddPost(c, url, tapped, failed)
  PROVE  /\ added' \in Seq(Added)
         /\ DOMAIN added' = DOMAIN added \cup {Len(added) + 1}
         /\ \A k \in DOMAIN added : added'[k] = added[k]
         /\ added'[Len(added) + 1] =
              [picture |-> Picture(url), tapped |-> tapped, failed |-> failed]
         /\ DOMAIN added = 1 .. Len(added) /\ Len(added) \in Nat
         /\ post' \in [Posts -> Post]
         /\ \A d \in Posts : post'[d].at = "idle" <=> post'[d].file = Nil
<1> DEFINE e == [picture |-> Picture(url), tapped |-> tapped, failed |-> failed]
<1>1. e \in Added
  BY PictureType DEF Added
<1>2. added' = Append(added, e) /\ added \in Seq(Added)
  BY DEF AddPost, TypeOK
<1>3. IdlePost \in Post /\ IdlePost.at = "idle" /\ IdlePost.file = Nil
  BY DEF IdlePost, Post
<1>4. post' = [post EXCEPT ![c] = IdlePost]
  BY DEF AddPost
<1>5. /\ post' \in [Posts -> Post]
      /\ \A d \in Posts : post'[d].at = "idle" <=> post'[d].file = Nil
  BY <1>3, <1>4 DEF TypeOK
<1> HIDE DEF e
<1>6. QED
  BY <1>1, <1>2, <1>5 DEF e

-----------------------------------------------------------------------------
\* Types hold at first and are kept by each action.
LEMMA InitInv == Init => IInv
<1> SUFFICES ASSUME Init PROVE IInv
  OBVIOUS
<1>1. added \in Seq(Added) /\ DOMAIN added = {}
  BY DEF Init
<1>2. TypeOK
  BY <1>1 DEF Init, TypeOK, IdlePost, Post
<1>3. PostHasItsPicture /\ OtherwiseEarlierPicture /\ UrlOfEarlierPost
  BY <1>1 DEF Init, PostHasItsPicture, OtherwiseEarlierPicture, UrlOfEarlierPost
<1>4. QED
  BY <1>2, <1>3 DEF IInv

\* An addition by the rule `url, else the avatar' keeps the invariant when the
\* URL is the call's own upload, or the kept one.
LEMMA AddKeepsInv ==
  ASSUME IInv, NEW c \in Posts, NEW url \in Files \cup {Nil},
         NEW tapped \in Files \cup {Nil}, NEW failed \in BOOLEAN,
         AddPost(c, url, tapped, failed),
         postImageUrl' = url,
         tapped # Nil /\ ~failed => tapped = url,
         url # postImageUrl => tapped = url /\ ~failed,
         UNCHANGED <<getUser, screen, postImage>>
  PROVE  IInv'
<1> DEFINE n == Len(added) + 1
<1>1. TypeOK
  BY DEF IInv
<1>2. /\ added' \in Seq(Added)
      /\ DOMAIN added' = DOMAIN added \cup {n}
      /\ \A k \in DOMAIN added : added'[k] = added[k]
      /\ added'[n] = [picture |-> Picture(url), tapped |-> tapped, failed |-> failed]
      /\ DOMAIN added = 1 .. Len(added) /\ Len(added) \in Nat
      /\ post' \in [Posts -> Post]
      /\ \A d \in Posts : post'[d].at = "idle" <=> post'[d].file = Nil
  BY <1>1, AddPostEffect
<1> HIDE DEF n
<1>3. TypeOK'
  BY <1>1, <1>2 DEF TypeOK
<1>4. PostHasItsPicture'
  BY <1>2, PictureType DEF IInv, PostHasItsPicture
<1>5. OtherwiseEarlierPicture'
  <2> SUFFICES ASSUME NEW k \in DOMAIN added'
               PROVE  \/ added'[k].picture \in {Avatar, added'[k].tapped}
                      \/ \E j \in 1 .. k - 1 :
                            added'[j].picture = added'[k].picture /\ ~added'[j].failed
    BY DEF OtherwiseEarlierPicture
  <2>1. CASE k \in DOMAIN added
    <3>1. \A j \in 1 .. k - 1 : added'[j] = added[j]
      BY <1>2, <2>1
    <3>2. \/ added[k].picture \in {Avatar, added[k].tapped}
          \/ \E j \in 1 .. k - 1 : added[j].picture = added[k].picture /\ ~added[j].failed
      BY <2>1 DEF IInv, OtherwiseEarlierPicture
    <3>3. QED
      BY <1>2, <2>1, <3>1, <3>2
  <2>2. CASE k = n
    <3>1. CASE url = Nil \/ tapped = url
      BY <1>2, <2>2, <3>1, PictureType
    <3>2. CASE url # Nil /\ tapped # url
      <4>1. postImageUrl = url
        BY <3>2
      <4>2. PICK j \in DOMAIN added : added[j].picture = postImageUrl /\ ~added[j].failed
        BY <3>2, <4>1 DEF IInv, UrlOfEarlierPost
      <4>3. j \in 1 .. k - 1
        BY <1>2, <2>2, <4>2 DEF n
      <4>4. added'[j].picture = added'[k].picture /\ ~added'[j].failed
        BY <1>2, <2>2, <3>2, <4>1, <4>2, PictureType
      <4>5. QED
        BY <4>3, <4>4
    <3>3. QED
      BY <3>1, <3>2
  <2>3. QED
    BY <1>2, <2>1, <2>2
<1>6. UrlOfEarlierPost'
  <2>1. CASE url = postImageUrl
    BY <1>2, <2>1 DEF IInv, UrlOfEarlierPost
  <2>2. CASE url # postImageUrl
    BY <1>2, <2>2, PictureType DEF UrlOfEarlierPost
  <2>3. QED
    BY <2>1, <2>2
<1>7. QED
  BY <1>3, <1>4, <1>5, <1>6 DEF IInv

\* Every other step leaves the posts alone.
LEMMA NextInv == IInv /\ [Next]_vars => IInv'
<1> SUFFICES ASSUME IInv, [Next]_vars PROVE IInv'
  OBVIOUS
<1> USE DEF IInv
<1>1. ASSUME UNCHANGED <<added, postImageUrl>>, TypeOK' PROVE IInv'
  BY <1>1 DEF PostHasItsPicture, OtherwiseEarlierPicture, UrlOfEarlierPost
<1>2. CASE UserRead \/ OpenAddPost \/ CloseAddPost \/ Cancel
  BY <1>1, <1>2 DEF UserRead, OpenAddPost, CloseAddPost, Cancel, TypeOK
<1>3. ASSUME NEW f \in Files, Pick(f) PROVE IInv'
  BY <1>1, <1>3 DEF Pick, TypeOK
<1>4. ASSUME NEW c \in Posts, PostPlain(c) PROVE IInv'
  <2>1. /\ AddPost(c, postImageUrl, Nil, FALSE)
        /\ UNCHANGED <<getUser, screen, postImage, postImageUrl>>
        /\ postImageUrl \in Files \cup {Nil}
    BY <1>4 DEF PostPlain, TypeOK
  <2>2. QED
    BY <2>1, AddKeepsInv
<1>5. ASSUME NEW c \in Posts, PostPicture(c) PROVE IInv'
  <2>1. TypeOK'
    BY <1>5, PicturesAssumption DEF PostPicture, TypeOK, Post
  <2>2. QED
    BY <1>1, <1>5, <2>1 DEF PostPicture
<1>6. ASSUME NEW c \in Posts, Uploaded(c) PROVE IInv'
  <2>1. post[c].file \in Files
    BY <1>6 DEF Uploaded, TypeOK, Post
  <2>2. /\ AddPost(c, post[c].file, post[c].file, FALSE)
        /\ postImageUrl' = post[c].file
        /\ UNCHANGED <<getUser, screen, postImage>>
    BY <1>6 DEF Uploaded
  <2>3. QED
    BY <2>1, <2>2, AddKeepsInv, PicturesAssumption
<1>7. ASSUME NEW c \in Posts, UploadFails(c) PROVE IInv'
  <2>1. /\ AddPost(c, postImageUrl, post[c].file, TRUE)
        /\ UNCHANGED <<getUser, screen, postImage, postImageUrl>>
        /\ postImageUrl \in Files \cup {Nil}
        /\ post[c].file \in Files \cup {Nil}
    BY <1>7 DEF UploadFails, TypeOK, Post
  <2>2. QED
    BY <2>1, AddKeepsInv
<1>8. CASE Restart
  <2>1. added' \in Seq(Added) /\ DOMAIN added' = {}
    BY <1>8 DEF Restart
  <2>2. TypeOK'
    BY <1>8, <2>1 DEF Restart, TypeOK, IdlePost, Post
  <2>3. QED
    BY <1>8, <2>1, <2>2
       DEF Restart, PostHasItsPicture, OtherwiseEarlierPicture, UrlOfEarlierPost
<1>9. CASE UNCHANGED vars
  BY <1>1, <1>9 DEF vars, TypeOK
<1>10. QED
  BY <1>2, <1>3, <1>4, <1>5, <1>6, <1>7, <1>8, <1>9 DEF Next

-----------------------------------------------------------------------------
\* The invariant holds in every state of the composer.
THEOREM InvariantHolds == Spec => []IInv
BY InitInv, NextInv, PTL DEF Spec

\* The composer's fields and calls keep their types (social_app_cubit.dart:153-190).
THEOREM TypeCorrect == Spec => []TypeOK
<1>1. IInv => TypeOK
  BY DEF IInv
<1>2. QED
  BY <1>1, InvariantHolds, PTL

\* A post whose upload succeeded carries the picture shown when Post was tapped,
\* for any number of posts in flight (uploadPostImage and uploadPost).
THEOREM PostsHaveTheirPictures == Spec => []PostHasItsPicture
<1>1. IInv => PostHasItsPicture
  BY DEF IInv
<1>2. QED
  BY <1>1, InvariantHolds, PTL

\* Any other post carries its author's picture or that of an earlier post, since
\* postImageUrl is only ever the URL of a post that was added with it.
THEOREM OthersHaveEarlierPictures == Spec => []OtherwiseEarlierPicture
<1>1. IInv => OtherwiseEarlierPicture
  BY DEF IInv
<1>2. QED
  BY <1>1, InvariantHolds, PTL
=============================================================================
