------------------------------ MODULE PublicMedia ------------------------------
(***************************************************************************)
(* The public copies of one content (public-media.service.ts): the hook    *)
(* after the publication copies the rendition and the thumbnail to the     *)
(* public bucket, the hook after the archiving removes them and purges the *)
(* edge, and the playback answer of feed.service.ts prefers what is on     *)
(* record as copied.  Neither hook is retried, either may be cut off by a  *)
(* restart, which may also bring new settings.                             *)
(***************************************************************************)
EXTENDS Naturals, Sequences, FiniteSets, Functions

CONSTANTS
  Ready,                 \* the ready renditions of the generation by label, newest first
  Heights,               \* the values MEDIA_RENDITION_HEIGHT takes, as labels
  Bucket,                \* MEDIA_PUBLIC_BUCKET, each served under a base URL of its own
  Nowhere,               \* a column that is null
  MaxDeploys             \* bound on the restarts

VARIABLES
  contentStatus,
  settings,              \* the environment of the running process
  objects,               \* what is in the public buckets: <<bucket, asset>>
  record,                \* media_assets.public_bucket of every asset
  syncing,               \* syncPublishedCopies: the assets to do, and the one copied
  removing,              \* removePublishedCopies
  edge,                  \* the URLs the edge holds: <<bucket, asset>>
  trouble,               \* what has gone wrong with the removal
  deploys

publicVars ==
  <<contentStatus, settings, objects, record, syncing, removing, edge, trouble, deploys>>

Asset == Range(Ready) \union {"thumbnail"}
Settings == [height : Heights, bucket : Bucket, serving : BOOLEAN]

\* selectReadyRendition: the preferred label, or else the newest.
SelectRendition(height) == IF height \in Range(Ready) THEN height ELSE Head(Ready)

\* What is copied and removed.
SelectPublicAssets == <<SelectRendition(settings.height), "thumbnail">>

\* publicUrlForAsset: a URL only for a copy on record in today's bucket.
PublicUrl(a) ==
  IF settings.serving /\ record[a] = settings.bucket THEN <<settings.bucket, a>> ELSE <<>>

\* getPlayback: the URLs it answers, empty for those it signs.
Playback ==
  IF contentStatus = "published"
    THEN {PublicUrl(SelectRendition(settings.height)), PublicUrl("thumbnail")}
    ELSE {}

noRemoval == [pc |-> "none", targets |-> {}, urls |-> {}]

\* The hop to published is committed, then its hook runs.
Publish ==
  /\ contentStatus = "distributing"
  /\ contentStatus' = "published"
  /\ syncing' = [todo |-> IF settings.serving THEN SelectPublicAssets ELSE <<>>, copied |-> FALSE]
  /\ UNCHANGED <<settings, objects, record, removing, edge, trouble, deploys>>

\* An asset is copied; one that fails is passed over.
Copy ==
  /\ syncing.todo # <<>> /\ ~ syncing.copied
  /\ \/ /\ objects' = objects \union {<<settings.bucket, Head(syncing.todo)>>}
        /\ syncing' = [syncing EXCEPT !.copied = TRUE]
     \/ /\ syncing' = [syncing EXCEPT !.todo = Tail(@)]
        /\ UNCHANGED objects
  /\ UNCHANGED <<contentStatus, settings, record, removing, edge, trouble, deploys>>

\* Only then is it put on record, if the update succeeds.
RecordCopy ==
  /\ syncing.copied
  /\ \/ record' = [record EXCEPT ![Head(syncing.todo)] = settings.bucket]
     \/ UNCHANGED record
  /\ syncing' = [todo |-> Tail(syncing.todo), copied |-> FALSE]
  /\ UNCHANGED <<contentStatus, settings, objects, removing, edge, trouble, deploys>>

\* The hop to archived; the copying may still be under way.
Archive ==
  /\ contentStatus = "published"
  /\ contentStatus' = "archived"
  /\ removing' = [noRemoval EXCEPT !.pc = "select"]
  /\ trouble' = IF syncing.todo # <<>> THEN trouble \union {"overtaken"} ELSE trouble
  /\ UNCHANGED <<settings, objects, record, syncing, edge, deploys>>

\* publicRefFor: the bucket on record, or else today's.
PublicRef(a) == <<IF record[a] = Nowhere THEN settings.bucket ELSE record[a], a>>

\* The faulty version for the mutant checks: only what is on record.
RemovalTargets_Recorded ==
  {PublicRef(a) : a \in {b \in Range(SelectPublicAssets) : record[b] # Nowhere}}

\* A copy is removed whether or not it is on record.
RemovalTargets == {PublicRef(a) : a \in Range(SelectPublicAssets)}

SelectForRemoval ==
  /\ removing.pc = "select"
  /\ removing' = [pc |-> "clear", targets |-> RemovalTargets, urls |-> {}]
  /\ UNCHANGED <<contentStatus, settings, objects, record, syncing, edge, trouble, deploys>>

\* The record is cleared before anything is deleted; a failure does not stop it.
ClearRecord ==
  /\ removing.pc = "clear"
  /\ removing' = [removing EXCEPT !.pc = "delete"]
  /\ \/ record' = [a \in Asset |-> IF \E t \in removing.targets : t[2] = a THEN Nowhere
                                   ELSE record[a]]
     \/ UNCHANGED record
  /\ UNCHANGED <<contentStatus, settings, objects, syncing, edge, trouble, deploys>>

\* Every target is deleted, or fails and is passed over; both are to be purged,
\* under the base URL of today.
DeleteCopy ==
  /\ removing.pc = "delete"
  /\ \E target \in removing.targets :
     /\ \/ objects' = objects \ {target} /\ UNCHANGED trouble
        \/ trouble' = trouble \union {"delete"} /\ UNCHANGED objects
     /\ removing' = [removing EXCEPT
          !.targets = @ \ {target},
          !.urls = IF settings.serving THEN @ \union {<<settings.bucket, target[2]>>} ELSE @]
  /\ UNCHANGED <<contentStatus, settings, record, syncing, edge, deploys>>

\* CloudflareCacheService.purge: nothing is tried without urls or credentials,
\* and a failure is logged.
Purge ==
  /\ removing.pc = "delete" /\ removing.targets = {}
  /\ removing' = [removing EXCEPT !.pc = "done"]
  /\ \/ edge' = edge \ removing.urls /\ UNCHANGED trouble
     \/ trouble' = trouble \union {"purge"} /\ UNCHANGED edge
  /\ UNCHANGED <<contentStatus, settings, objects, record, syncing, deploys>>

\* A viewer, or anyone who kept the URL, asks the edge for an object.
Fetch ==
  /\ \E url \in objects : url[1] = settings.bucket /\ url \notin edge /\ edge' = edge \union {url}
  /\ UNCHANGED <<contentStatus, settings, objects, record, syncing, removing, trouble, deploys>>

\* The api restarts, with the old settings or new ones; a hook that runs is lost.
Redeploy ==
  /\ deploys < MaxDeploys
  /\ deploys' = deploys + 1
  /\ settings' \in Settings
  /\ syncing' = [todo |-> <<>>, copied |-> FALSE]
  /\ removing' = IF removing.pc \in {"none", "done"} THEN removing ELSE [noRemoval EXCEPT !.pc = "lost"]
  /\ trouble' = IF settings' # settings THEN trouble \union {"settings"} ELSE trouble
  /\ UNCHANGED <<contentStatus, objects, record, edge>>

PublicInit ==
  /\ contentStatus = "distributing"
  /\ settings \in Settings
  /\ objects = {} /\ record = [a \in Asset |-> Nowhere] /\ edge = {}
  /\ syncing = [todo |-> <<>>, copied |-> FALSE]
  /\ removing = noRemoval /\ trouble = {} /\ deploys = 0

PublicNext ==
  \/ Publish \/ Copy \/ RecordCopy
  \/ Archive \/ SelectForRemoval \/ ClearRecord \/ DeleteCopy \/ Purge
  \/ Fetch \/ Redeploy

-------------------------------------------------------------------------------
(* Properties *)

PublicTypeOK ==
  /\ record \in [Asset -> Bucket \union {Nowhere}]
  /\ syncing.copied => syncing.todo # <<>>

\* A public URL in an answer of the feed is the URL of an object that exists,
\* also after failures, restarts and a change of the bucket.
ServedIsThere == \A url \in Playback : url # <<>> => url \in objects

\* An archived content that was taken out without a failure leaves nothing in
\* the public buckets and nothing on the edge, whoever asked for it meanwhile.
\* Excused: settings that changed in between, by which the removal selects, and
\* a copying that was still under way when the content was archived.
ArchivedIsPrivate == removing.pc = "done" /\ trouble = {} => objects = {} /\ edge = {}
===============================================================================
