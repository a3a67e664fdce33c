--------------------------- MODULE ThumbnailPurge ---------------------------
(***************************************************************************)
(* Expiry of thumbnails (tasks/task_runner/purge_thumbnails.go) while      *)
(* thumbnails are generated (pipelines/_steps/thumbnails/generate.go) and  *)
(* media is purged.  A thumbnail is stored by the upload pipeline, which   *)
(* gives its file a media row of its own; thumbnails of the same content   *)
(* share one file.                                                         *)
(***************************************************************************)
EXTENDS Naturals, FiniteSets, FiniteSetsExt

CONSTANTS
    ThumbCount,     \* thumbnails 1..ThumbCount, in the order of oldThumbnailsOrder
    LocOf,          \* thumbnail -> the location of its content
    PurgeBatchSize  \* thumbnailPurgeBatchSize

ThumbIds == 1..ThumbCount
ThumbLocs == {LocOf[t] : t \in ThumbIds}
NoLoc == ""

ASSUME ThumbPurgeAssumption ==
    /\ ThumbCount \in Nat
    /\ DOMAIN LocOf = ThumbIds
    /\ NoLoc \notin ThumbLocs
    /\ PurgeBatchSize \in Nat \ {0}

VARIABLES
    thumbRow,    \* rows of the thumbnails table: created before beforeTs, or after it
    ownRow,      \* locations that have a media row
    thumbFile,   \* files in the datastore
    usedLoc,     \* locations handed out so far
    making,      \* thumbnails that are uploaded and not yet inserted
    expiry,      \* the purge task
    mediaRaced   \* history: a media purge took the row of a thumbnail in the making

thumbPurgeVars == <<thumbRow, ownRow, thumbFile, usedLoc, making, expiry, mediaRaced>>

IdleExpiry == [pc |-> "idle", after |-> 0, batch |-> {}, left |-> {}, loc |-> NoLoc,
               inUse |-> FALSE, old |-> {}, progress |-> FALSE, gone |-> {}]

ThumbPurgeTypeOK ==
    /\ thumbRow \in [ThumbIds -> {"none", "old", "new"}]
    /\ ownRow \subseteq usedLoc /\ thumbFile \subseteq usedLoc /\ usedLoc \subseteq ThumbLocs
    /\ making \subseteq ThumbIds
    /\ mediaRaced \in BOOLEAN
    /\ expiry \in [pc : {"idle", "read", "media", "thumbs", "remove", "rows", "next"}, after : 0..ThumbCount,
                   batch : SUBSET ThumbIds, left : SUBSET ThumbLocs, loc : ThumbLocs \cup {NoLoc},
                   inUse : BOOLEAN, old : SUBSET ThumbIds, progress : BOOLEAN, gone : SUBSET ThumbLocs]

ThumbPurgeInit ==
    /\ thumbRow = [t \in ThumbIds |-> "none"]
    /\ ownRow = {} /\ thumbFile = {} /\ usedLoc = {} /\ making = {}
    /\ expiry = IdleExpiry
    /\ mediaRaced = FALSE

RowsAt(l) == {t \in ThumbIds : thumbRow[t] # "none" /\ LocOf[t] = l}

-----------------------------------------------------------------------------
(* Generate: PutAndReturnStream uses a file that has a media row, or makes one, *)
StoreThumb(t) ==
    /\ thumbRow[t] = "none" /\ t \notin making
    /\ LocOf[t] \in ownRow \/ LocOf[t] \notin usedLoc
    /\ making' = making \cup {t}
    /\ ownRow' = ownRow \cup {LocOf[t]}
    /\ thumbFile' = thumbFile \cup {LocOf[t]}
    /\ usedLoc' = usedLoc \cup {LocOf[t]}
    /\ UNCHANGED <<thumbRow, expiry, mediaRaced>>

(* then the thumbnail's row is inserted. *)
InsertThumb(t) ==
    /\ t \in making
    /\ making' = making \ {t}
    /\ thumbRow' = [thumbRow EXCEPT ![t] = "new"]
    /\ UNCHANGED <<ownRow, thumbFile, usedLoc, expiry, mediaRaced>>

(* beforeTs moves between two runs of the task. *)
TimePasses ==
    /\ expiry.pc = "idle"
    /\ \E t \in ThumbIds : thumbRow[t] = "new"
    /\ thumbRow' = [t \in ThumbIds |-> IF thumbRow[t] = "new" THEN "old" ELSE thumbRow[t]]
    /\ UNCHANGED <<ownRow, thumbFile, usedLoc, making, expiry, mediaRaced>>

(* The purge of media takes the media row of a thumbnail's file; the file stays *)
(* when a thumbnail refers to it (module PurgeTask).                            *)
PurgeOwnRow(l) ==
    /\ l \in ownRow
    /\ ownRow' = ownRow \ {l}
    /\ thumbFile' = IF RowsAt(l) = {} THEN thumbFile \ {l} ELSE thumbFile
    /\ mediaRaced' = (mediaRaced \/ \E t \in making : LocOf[t] = l)
    /\ UNCHANGED <<thumbRow, usedLoc, making, expiry>>

-----------------------------------------------------------------------------
(* PurgeThumbnails *)

StartExpiry ==
    /\ expiry.pc = "idle"
    /\ expiry' = [IdleExpiry EXCEPT !.pc = "read"]
    /\ UNCHANGED <<thumbRow, ownRow, thumbFile, usedLoc, making, mediaRaced>>

(* GetOlderThanBatchAfter *)
OlderThanBatchAfter(after) ==
    LET old == {t \in ThumbIds : thumbRow[t] = "old" /\ t > after}
    IN  {t \in old : Cardinality({u \in old : u < t}) < PurgeBatchSize}

ReadBatch ==
    /\ expiry.pc = "read"
    /\ LET b == OlderThanBatchAfter(expiry.after) IN
           expiry' = IF b = {} THEN IdleExpiry
                     ELSE [expiry EXCEPT !.pc = "next", !.batch = b, !.progress = FALSE,
                                         !.left = {LocOf[t] : t \in b}]
    /\ UNCHANGED <<thumbRow, ownRow, thumbFile, usedLoc, making, mediaRaced>>

(* purgeThumbnailBatch, for one of touchedLocations.  A query that fails goes on *)
(* to the next location.                                                         *)
NextLocation ==
    /\ expiry.pc = "next"
    /\ \E l \in expiry.left :
           expiry' = [expiry EXCEPT !.left = @ \ {l}, !.loc = l,
                                    !.pc = IF l \in expiry.gone THEN "next" ELSE "media"]
    /\ UNCHANGED <<thumbRow, ownRow, thumbFile, usedLoc, making, mediaRaced>>

QueryFails ==
    /\ expiry.pc \in {"media", "thumbs"}
    /\ expiry' = [expiry EXCEPT !.pc = "next"]
    /\ UNCHANGED <<thumbRow, ownRow, thumbFile, usedLoc, making, mediaRaced>>

LocationExists ==
    /\ expiry.pc = "media"
    /\ expiry' = [expiry EXCEPT !.pc = "thumbs", !.inUse = expiry.loc \in ownRow]
    /\ UNCHANGED <<thumbRow, ownRow, thumbFile, usedLoc, making, mediaRaced>>

GetByLocation ==
    /\ expiry.pc = "thumbs"
    /\ LET old == {t \in RowsAt(expiry.loc) : thumbRow[t] = "old"}
           inUse == expiry.inUse \/ RowsAt(expiry.loc) # old
       IN  expiry' = [expiry EXCEPT !.old = old,
                          !.pc = CASE old = {} -> "next" [] inUse -> "rows" [] OTHER -> "remove"]
    /\ UNCHANGED <<thumbRow, ownRow, thumbFile, usedLoc, making, mediaRaced>>

(* removeObject; the rows of an object that cannot be removed are kept. *)
RemoveThumbObject ==
    /\ expiry.pc = "remove"
    /\ \/ /\ thumbFile' = thumbFile \ {expiry.loc}
          /\ expiry' = [expiry EXCEPT !.pc = "rows", !.gone = @ \cup {expiry.loc}]
       \/ /\ expiry' = [expiry EXCEPT !.pc = "next"]
          /\ UNCHANGED thumbFile
    /\ UNCHANGED <<thumbRow, ownRow, usedLoc, making, mediaRaced>>

DeleteThumbRow ==
    /\ expiry.pc = "rows"
    /\ \E t \in expiry.old, ok \in BOOLEAN :
           /\ thumbRow' = IF ok THEN [thumbRow EXCEPT ![t] = "none"] ELSE thumbRow
           /\ expiry' = [expiry EXCEPT !.old = @ \ {t}, !.progress = @ \/ ok,
                                       !.pc = IF expiry.old = {t} THEN "next" ELSE "rows"]
    /\ UNCHANGED <<ownRow, thumbFile, usedLoc, making, mediaRaced>>

(* Mutant: every batch starts from the beginning. *)
EndBatchInPlace ==
    /\ expiry.pc = "next" /\ expiry.left = {}
    /\ expiry' = [expiry EXCEPT !.pc = "read", !.after = 0, !.loc = NoLoc, !.inUse = FALSE]
    /\ UNCHANGED <<thumbRow, ownRow, thumbFile, usedLoc, making, mediaRaced>>

(* Mutant: the cursor skips a row. *)
EndBatchPastNext ==
    /\ expiry.pc = "next" /\ expiry.left = {}
    /\ expiry' = [expiry EXCEPT !.pc = "read", !.loc = NoLoc, !.inUse = FALSE,
                                !.after = IF expiry.progress THEN 0 ELSE Max(expiry.batch) + 1]
    /\ UNCHANGED <<thumbRow, ownRow, thumbFile, usedLoc, making, mediaRaced>>

(* A batch without a deletion is stepped over. *)
EndBatch ==
    /\ expiry.pc = "next" /\ expiry.left = {}
    /\ expiry' = [expiry EXCEPT !.pc = "read", !.loc = NoLoc, !.inUse = FALSE,
                                !.after = IF expiry.progress THEN 0 ELSE Max(expiry.batch)]
    /\ UNCHANGED <<thumbRow, ownRow, thumbFile, usedLoc, making, mediaRaced>>

ExpiryStep ==
    \/ ReadBatch \/ NextLocation \/ LocationExists \/ GetByLocation \/ RemoveThumbObject
    \/ DeleteThumbRow \/ EndBatch

ThumbPurgeNext ==
    \/ ExpiryStep \/ StartExpiry \/ QueryFails \/ TimePasses
    \/ \E t \in ThumbIds : StoreThumb(t) \/ InsertThumb(t)
    \/ \E l \in ThumbLocs : PurgeOwnRow(l)

ThumbPurgeSpec == ThumbPurgeInit /\ [][ThumbPurgeNext]_thumbPurgeVars /\ WF_thumbPurgeVars(ExpiryStep)

-----------------------------------------------------------------------------
(* Properties. *)

(* A thumbnail that has not expired has its file, whatever expires next to it     *)
(* (purge_thumbnails.go:88-112), unless media was purged between its upload and   *)
(* its row.                                                                       *)
FreshThumbnailsKeepTheirFile ==
    ~mediaRaced => \A t \in ThumbIds : thumbRow[t] = "new" => LocOf[t] \in thumbFile

(* A run of the task ends, also when objects or rows cannot be deleted            *)
(* (purge_thumbnails.go:57-60).                                                   *)
ExpiryEnds == []<>(expiry.pc = "idle")

(* The task takes the expired thumbnails away, and nothing from the others, and  *)
(* comes to its end (purge_thumbnails.go:32-135).                                *)
ExpiryIsOrderly == []FreshThumbnailsKeepTheirFile /\ ExpiryEnds
=============================================================================
