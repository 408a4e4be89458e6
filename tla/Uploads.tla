------------------------------- MODULE Uploads -------------------------------
(***************************************************************************)
(* Pictures: the gallery of one vehicle (the portfolio of a detailer is    *)
(* the same protocol with another cap) and the avatar of one user.  The    *)
(* bytes are in a bucket, the rows that show them in the database: a       *)
(* client asks for an upload URL, writes the object, and confirms it.  The *)
(* service touches the bucket inside the transaction, which is committed   *)
(* after it returns.                                                       *)
(***************************************************************************)
EXTENDS Integers, FiniteSets

CONSTANTS GalleryKeys, AvatarKeys,   \* s3 keys, each made for one upload URL
          PhotoIds,                  \* rows of vehicle_photos
          Uploaders,                 \* confirm and delete requests
          MAX_PHOTOS_PER_VEHICLE,
          NoKey

ASSUME UploadsAssumption ==
  /\ MAX_PHOTOS_PER_VEHICLE \in Nat /\ IsFiniteSet(PhotoIds)
  /\ NoKey \notin GalleryKeys \union AvatarKeys

VARIABLES signed,       \* keys a client has an upload URL for
          objects,      \* keys of the bucket's objects
          photos,       \* the key each photo row shows
          avatar,       \* users.avatar_s3_key
          uploadTxn,    \* the open transactions
          twice,        \* keys confirmed again while a row or a request had them
          undone,       \* keys whose object went in a transaction that rolled back
          crowded       \* two confirmations of photos were open at one time

uploadVars == <<signed, objects, photos, avatar, uploadTxn, twice, undone, crowded>>

NoUpload == [op |-> "idle", key |-> NoKey, was |-> NoKey]

UploadInit ==
  /\ signed = {} /\ objects = {}
  /\ photos = [i \in PhotoIds |-> NoKey] /\ avatar = NoKey
  /\ uploadTxn = [c \in Uploaders |-> NoUpload]
  /\ twice = {} /\ undone = {} /\ crowded = FALSE

Shown == { i \in PhotoIds : photos[i] # NoKey }
Open(c, op) == { d \in Uploaders \ {c} : uploadTxn[d].op = op }

\* Somebody shows k already, or is about to.
Taken(c, k) ==
  \/ avatar = k \/ \E i \in Shown : photos[i] = k
  \/ \E d \in Uploaders \ {c} : uploadTxn[d].key = k

\* delete_object: best effort, a failure is logged.
Dropped(k) == {objects, objects \ {k}}

-----------------------------------------------------------------------------

\* prepare_upload checks the cap, and writes nothing.
PrepareUpload(k) ==
  /\ k \notin signed
  /\ k \in GalleryKeys => Cardinality(Shown) < MAX_PHOTOS_PER_VEHICLE
  /\ signed' = signed \union {k}
  /\ UNCHANGED <<objects, photos, avatar, uploadTxn, twice, undone, crowded>>

\* The signed URL: type and size are checked, the time is not.
PutObject(k) ==
  /\ k \in signed
  /\ objects' = objects \union {k}
  /\ UNCHANGED <<signed, photos, avatar, uploadTxn, twice, undone, crowded>>

\* confirm_upload finds the object of a key ...
FindPhoto(c, k) ==
  /\ uploadTxn[c] = NoUpload /\ k \in objects
  /\ twice' = IF Taken(c, k) THEN twice \union {k} ELSE twice
  /\ uploadTxn' = [uploadTxn EXCEPT ![c] = [op |-> "found", key |-> k, was |-> NoKey]]
  /\ UNCHANGED <<signed, objects, photos, avatar, undone, crowded>>

InsertPhoto(c) ==
  /\ uploadTxn' = [uploadTxn EXCEPT ![c] = [op |-> "insert", key |-> uploadTxn[c].key, was |-> NoKey]]
  /\ crowded' = (crowded \/ Open(c, "insert") # {})
  /\ UNCHANGED objects

\* Variant: the cap of prepare_upload is relied upon.
ConfirmUncounted(c) ==
  /\ uploadTxn[c].op = "found" /\ InsertPhoto(c)
  /\ UNCHANGED <<signed, photos, avatar, twice, undone>>

\* ... and counts again ("race window") before the INSERT.  At the cap the object
\* is deleted, whoever shows it.
ConfirmPhoto(c) ==
  /\ uploadTxn[c].op = "found"
  /\ \/ Cardinality(Shown) < MAX_PHOTOS_PER_VEHICLE /\ InsertPhoto(c)
     \/ /\ Cardinality(Shown) >= MAX_PHOTOS_PER_VEHICLE
        /\ objects' = objects \ {uploadTxn[c].key}
        /\ uploadTxn' = [uploadTxn EXCEPT ![c] = NoUpload]
        /\ UNCHANGED crowded
  /\ UNCHANGED <<signed, photos, avatar, twice, undone>>

\* DELETE, flushed, and then the object.
DeletePhoto(c, i) ==
  /\ uploadTxn[c] = NoUpload /\ i \in Shown
  /\ \A d \in Open(c, "delete") : uploadTxn[d].was # i
  /\ uploadTxn' = [uploadTxn EXCEPT ![c] = [op |-> "delete", key |-> photos[i], was |-> i]]
  /\ objects' \in Dropped(photos[i])
  /\ UNCHANGED <<signed, photos, avatar, twice, undone, crowded>>

\* confirm_upload of an avatar: the previous object goes before the UPDATE.
ConfirmAvatar(c, k) ==
  /\ uploadTxn[c] = NoUpload /\ k \in objects
  /\ twice' = IF Taken(c, k) THEN twice \union {k} ELSE twice
  /\ uploadTxn' = [uploadTxn EXCEPT ![c] = [op |-> "avatar", key |-> k, was |-> avatar]]
  /\ objects' \in IF avatar # k THEN Dropped(avatar) ELSE {objects}
  /\ UNCHANGED <<signed, photos, avatar, undone, crowded>>

DeleteAvatar(c) ==
  /\ uploadTxn[c] = NoUpload /\ avatar # NoKey
  /\ uploadTxn' = [uploadTxn EXCEPT ![c] = [op |-> "avatar", key |-> NoKey, was |-> avatar]]
  /\ objects' \in Dropped(avatar)
  /\ UNCHANGED <<signed, photos, avatar, twice, undone, crowded>>

CommitUpload(c) ==
  LET u == uploadTxn[c]
  IN /\ \/ /\ u.op = "insert"
           /\ \E i \in PhotoIds \ Shown : photos' = [photos EXCEPT ![i] = u.key]
           /\ UNCHANGED avatar
        \/ u.op = "delete" /\ photos' = [photos EXCEPT ![u.was] = NoKey] /\ UNCHANGED avatar
        \/ u.op = "avatar" /\ avatar' = (IF u.key = u.was THEN avatar ELSE u.key)
                           /\ UNCHANGED photos
     /\ uploadTxn' = [uploadTxn EXCEPT ![c] = NoUpload]
     /\ UNCHANGED <<signed, objects, twice, undone, crowded>>

\* The rows come back, the object does not.
AbortUpload(c) ==
  LET u == uploadTxn[c]
  IN /\ u # NoUpload
     /\ undone' = IF u.op \in {"found", "insert"} THEN undone
                  ELSE undone \union {IF u.op = "delete" THEN u.key ELSE u.was}
     /\ uploadTxn' = [uploadTxn EXCEPT ![c] = NoUpload]
     /\ UNCHANGED <<signed, objects, photos, avatar, twice, crowded>>

UploadNext ==
  \/ \E k \in GalleryKeys \union AvatarKeys : PrepareUpload(k) \/ PutObject(k)
  \/ \E c \in Uploaders :
       \/ \E k \in GalleryKeys : FindPhoto(c, k)
       \/ \E i \in PhotoIds : DeletePhoto(c, i)
       \/ \E k \in AvatarKeys : ConfirmAvatar(c, k)
       \/ ConfirmPhoto(c) \/ DeleteAvatar(c) \/ CommitUpload(c) \/ AbortUpload(c)

UploadSpec == UploadInit /\ [][UploadNext]_uploadVars

-----------------------------------------------------------------------------
(* Properties *)

\* Keys that an open transaction is taking away.
Leaving == { IF uploadTxn[c].op = "delete" THEN uploadTxn[c].key ELSE uploadTxn[c].was :
             c \in Uploaders }

\* What a profile shows has its bytes, whatever was replaced, deleted or lost on
\* the way, unless it is being replaced, its key was confirmed twice, or a
\* transaction that had already deleted the object rolled back; and the gallery
\* keeps its cap unless two confirmations ran at one time.
PicturesHaveBytes ==
  /\ \A k \in { photos[i] : i \in Shown } \union ({avatar} \ {NoKey}) :
       k \in objects \union Leaving \union twice \union undone
  /\ crowded \/ Cardinality(Shown) <= MAX_PHOTOS_PER_VEHICLE

-----------------------------------------------------------------------------
(* The inductive invariant behind it *)

ObjectKeys == GalleryKeys \union AvatarKeys

UploadTypes ==
  /\ photos \in [PhotoIds -> ObjectKeys \union {NoKey}] /\ avatar \in ObjectKeys \union {NoKey}
  /\ uploadTxn \in [Uploaders -> [op : {"idle", "found", "insert", "delete", "avatar"},
                                  key : ObjectKeys \union {NoKey},
                                  was : ObjectKeys \union {NoKey} \union PhotoIds]]
  /\ \A c \in Uploaders : uploadTxn[c].op = "idle" => uploadTxn[c] = NoUpload

\* The transaction will show its key.
Brings(c) == uploadTxn[c].op \in {"found", "insert", "avatar"} /\ uploadTxn[c].key # NoKey

\* A key that is about to be shown has its object, and is nobody else's.
BroughtOnce(c) ==
  Brings(c) =>
    \/ uploadTxn[c].key \in twice
    \/ /\ uploadTxn[c].key \in objects /\ avatar # uploadTxn[c].key
       /\ \A i \in PhotoIds : photos[i] # uploadTxn[c].key
       /\ \A d \in Uploaders \ {c} : Brings(d) => uploadTxn[d].key # uploadTxn[c].key

\* A photo's key is shown once, and its object goes with the row.
PhotoKept(i) ==
  photos[i] # NoKey =>
    \/ photos[i] \in twice
    \/ /\ avatar # photos[i] /\ \A j \in PhotoIds \ {i} : photos[j] # photos[i]
       /\ \/ photos[i] \in objects \union undone
          \/ \E c \in Uploaders : uploadTxn[c].op = "delete" /\ uploadTxn[c].was = i

AvatarKept ==
  avatar # NoKey =>
    \/ avatar \in twice \union objects \union undone
    \/ \E c \in Uploaders : uploadTxn[c].op = "avatar" /\ uploadTxn[c].was = avatar

\* What a transaction takes away is what the row shows.
Taking(c) ==
  /\ uploadTxn[c].op \in {"found", "insert"} => uploadTxn[c].key # NoKey
  /\ uploadTxn[c].op = "delete" =>
       /\ uploadTxn[c].was \in PhotoIds /\ uploadTxn[c].key # NoKey
       /\ photos[uploadTxn[c].was] = uploadTxn[c].key
       /\ \A d \in Uploaders \ {c} : uploadTxn[d].op = "delete" => uploadTxn[d].was # uploadTxn[c].was
  /\ uploadTxn[c].op = "avatar" => uploadTxn[c].key # uploadTxn[c].was \/ uploadTxn[c].key \in twice

\* One confirmation at a time, and room for its photo.
Capped ==
  /\ Cardinality(Shown) <= MAX_PHOTOS_PER_VEHICLE
  /\ \A c \in Uploaders : uploadTxn[c].op = "insert" =>
       /\ Cardinality(Shown) < MAX_PHOTOS_PER_VEHICLE
       /\ \A d \in Uploaders \ {c} : uploadTxn[d].op # "insert"

UploadInv ==
  /\ UploadTypes
  /\ \A c \in Uploaders : BroughtOnce(c) /\ Taking(c)
  /\ \A i \in PhotoIds : PhotoKept(i)
  /\ AvatarKept
  /\ ~ crowded => Capped

=============================================================================
