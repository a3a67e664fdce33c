----------------------------- MODULE RepoProofs -----------------------------
(***************************************************************************)
(* Uploads, purges, quarantines and migrations on one store: as long as    *)
(* they take turns, nobody loses a file to the others, for any number of   *)
(* uploaders, purgers, migrators, rows and files.  Purges overlap purges   *)
(* and migrations overlap migrations, a migration is cut off anywhere, and *)
(* quarantines come at any time.                                           *)
(*                                                                         *)
(* Each kind of step has one effect on the store: uploads let it grow      *)
(* (Grows), purges and quarantines let it shrink (Shrinks), migrations     *)
(* move things in it (Moves).  The invariants of the components carry over *)
(* because a component that rests has nothing to lose.                     *)
(*                                                                         *)
(* So the repository implements module MediaService, the promise made to   *)
(* the users of a media ID.  The pipeline alone: every step of an upload   *)
(* is invisible or publishes the whole content of one ID.  The whole store,*)
(* as long as its parts take turns: a purge retires IDs and takes content  *)
(* away for good, a quarantine and a migration are not noticed at all.     *)
(***************************************************************************)
EXTENDS MediaRepo, UploadPipelineProofs, PurgeProofs

(* A purge that has begun to remove files removes what it chose: what is gone *)
(* is quarantined or still on its list.                                       *)
InStageThree(r) == r.pc \notin {"idle", "flag"}

LostIsBeingPurged ==
    /\ \A m \in MediaIds : (IdExists(m) /\ objects[media[m].loc] # media[m].hash) =>
           media[m].quarantined \/ \E p \in Purgers : InStageThree(pg[p]) /\ m \in Chosen(pg[p])
    /\ \A t \in thumbs : objects[t.loc] # t.hash =>
           \E p \in Purgers : InStageThree(pg[p]) /\ t.parent \in Chosen(pg[p])

(* A row that a purge read as quarantined is still so. *)
FlagsStay(r) ==
    r.pc # "idle" => \A m \in Chosen(r) : (IdExists(m) /\ r.records[m].quarantined) => media[m].quarantined

(* Between the copy and the removal of the source, the copy has the content   *)
(* of everything that is still at the source, and less and less is.           *)
MigratorInv(r) ==
    /\ r.pc = "idle" => r.todo = {} /\ r.move = "next"
    /\ \A x \in r.todo : InSource(x.loc)
    /\ r.move # "next" =>
           /\ r.cur \in MoveRecord /\ InSource(r.cur.loc)
           /\ r.newLocation \in TargetLocations /\ objects[r.newLocation] = r.cur.hash
           /\ \A m \in GetByLocation(r.cur.loc) :
                  media[m].hash = r.cur.hash /\ objects[r.cur.loc] = r.cur.hash /\ r.move = "updateMedia"
           /\ \A t \in thumbs : t.loc = r.cur.loc =>
                  t.hash = r.cur.hash /\ objects[r.cur.loc] = r.cur.hash /\ r.move # "removeSource"

TurnsAreTaken == (Purging => ~Uploading /\ ~Migrating) /\ (Migrating => ~Uploading)

UploadersInv ==
    LocalStateOK /\ FreshObjectIsPrivate /\ SharedObjectIsThere /\ CheckedHashIsWhole /\ ReturnedRowIsThere

RepoInv ==
    /\ RepoTypeOK
    /\ PurgeInv
    /\ UploadersInv
    /\ ObjectsAllocated
    /\ RowsAreSound
    /\ LostIsBeingPurged
    /\ \A p \in Purgers : FlagsStay(pg[p])
    /\ \A g \in Migrators : MigratorInv(mg[g])
    /\ TurnsAreTaken

-----------------------------------------------------------------------------
(* Components that rest. *)

LEMMA IdleMigrator ==
  /\ NotMigrating \in MigrateState /\ NotMigrating.pc = "idle" /\ NotMigrating.move = "next"
  /\ NotMigrating.todo = {} /\ NotMigrating.cur = None /\ NotMigrating.newLocation = None
BY DEF NotMigrating, MigrateState, MigratePcs, MovePcs

LEMMA RepoInitInv == RepoInit => RepoInv
<1> SUFFICES ASSUME RepoInit PROVE RepoInv
  OBVIOUS
<1>1. StorageInv
  BY InitStorage DEF RepoInit
<1>2. /\ \A p \in Purgers : pg[p] = NotPurging /\ pg[p].pc = "idle"
      /\ \A g \in Migrators : mg[g] = NotMigrating /\ mg[g].pc = "idle"
      /\ \A u \in Uploaders : up[u].pc = "idle"
  BY NotPurgingState, IdleMigrator DEF RepoInit, UploadInit, Idle, Request
<1>3. RepoTypeOK /\ PurgeTypeOK
  BY <1>1, NotPurgingState, IdleMigrator
     DEF RepoInit, StorageInv, PipelineInv, UploadTypeOK, RepoTypeOK, PurgeTypeOK, MigrateTypeOK
<1>4. OnlyDoomedMediaLosesItsFile /\ LostIsBeingPurged
  BY <1>1 DEF StorageInv, NoDanglingRow, OnlyDoomedMediaLosesItsFile, LostIsBeingPurged
<1>5. PurgeInv
  BY <1>2, <1>3, <1>4 DEF PurgeInv, PurgerInv, AloneInv, Solitude
<1>6. \A p \in Purgers : FlagsStay(pg[p])
  BY <1>2 DEF FlagsStay
<1>7. \A g \in Migrators : MigratorInv(mg[g])
  BY <1>2, IdleMigrator DEF MigratorInv
<1>8. TurnsAreTaken
  BY <1>2 DEF TurnsAreTaken, Purging, Migrating
<1> QED
  BY <1>1, <1>3, <1>4, <1>5, <1>6, <1>7, <1>8 DEF RepoInv, StorageInv, PipelineInv, UploadersInv

(* While no purge runs, the store is as uploads need it. *)
LEMMA PipelineOfRepo ==
  ASSUME RepoInv, ~Purging
  PROVE  PipelineInv
<1>1. \A p \in Purgers : pg[p].pc = "idle"
  BY DEF Purging
<1>2. LostIsQuarantined
  BY <1>1 DEF RepoInv, LostIsBeingPurged, LostIsQuarantined, InStageThree
<1> QED
  BY <1>2 DEF RepoInv, RepoTypeOK, UploadersInv, PipelineInv

LEMMA UploadersRest ==
  ASSUME RepoInv, ~Uploading, UNCHANGED up, allocated \subseteq allocated'
  PROVE  UploadersInv'
<1>1. \A u \in Uploaders : up[u].pc = "idle"
  BY DEF Uploading
<1>2. LocalStateOK'
  BY <1>1 DEF RepoInv, UploadersInv, LocalStateOK, Buffered, OwnsObject, SharesObject
<1> QED
  BY <1>1, <1>2 DEF UploadersInv, FreshObjectIsPrivate, SharedObjectIsThere, CheckedHashIsWhole, ReturnedRowIsThere,
     OwnsObject, SharesObject, Checked, HasRow

LEMMA PurgersRest ==
  ASSUME RepoInv, ~Purging, UNCHANGED purgeVars, StoreTypeOK', OnlyDoomedMediaLosesItsFile'
  PROVE  PurgeInv' /\ PurgeTypeOK' /\ \A p \in Purgers : FlagsStay(pg[p])'
<1>1. pg' = pg /\ doomed' = doomed /\ \A p \in Purgers : pg[p].pc = "idle"
  BY DEF Purging, purgeVars
<1>2. PurgeTypeOK'
  BY <1>1 DEF RepoInv, PurgeInv, PurgeTypeOK
<1>3. PurgeInv'
  BY <1>1, <1>2 DEF PurgeInv, PurgerInv, AloneInv, Solitude
<1> QED
  BY <1>1, <1>2, <1>3 DEF FlagsStay

LEMMA MigratorsRest ==
  ASSUME RepoInv, ~Migrating, UNCHANGED mg
  PROVE  \A g \in Migrators : MigratorInv(mg[g])'
<1>1. \A g \in Migrators : mg[g].pc = "idle" /\ mg'[g] = mg[g] /\ mg[g].todo = {} /\ mg[g].move = "next"
  BY DEF Migrating, RepoInv, MigratorInv
<1> QED
  BY <1>1 DEF MigratorInv

(* A step that nobody notices. *)
LEMMA StoreRests ==
  ASSUME RepoInv, UNCHANGED <<up, pg, doomed, mg, media, thumbs, objects, allocated, reserved>>, StoreTypeOK',
         lock' \in [Hashes -> Uploaders \cup {None, Dead}]
  PROVE  RepoInv'
<1>1. RepoTypeOK'
  BY DEF RepoInv, RepoTypeOK, UploadTypeOK, PurgeTypeOK, MigrateTypeOK
<1>2. UploadersInv'
  BY DEF RepoInv, UploadersInv, LocalStateOK, FreshObjectIsPrivate, SharedObjectIsThere, CheckedHashIsWhole,
     ReturnedRowIsThere, WholeHash, GetByHash, IdExists
<1>3. ObjectsAllocated' /\ RowsAreSound' /\ LostIsBeingPurged'
  BY DEF RepoInv, ObjectsAllocated, RowsAreSound, LostIsBeingPurged, IdExists, Chosen
<1>4. PurgeInv'
  <2>1. Shrinks /\ OnlyDoomedMediaLosesItsFile' /\ PurgeTypeOK'
    BY <1>1 DEF RepoInv, PurgeInv, Shrinks, OnlyDoomedMediaLosesItsFile, IdExists, RepoTypeOK
  <2>2. ASSUME NEW q \in Purgers PROVE PurgerInv(pg[q])' /\ AloneInv(pg[q])'
    <3>1. PICK r \in PurgeState : r = pg[q] /\ r = pg'[q] /\ PurgerInv(r) /\ AloneInv(r)
      BY DEF RepoInv, PurgeInv, PurgeTypeOK
    <3>2. AloneInv(r)'
      BY <3>1 DEF AloneInv, Users, GetByLocation, ThumbParentsAt, IdExists, Chosen, Marked
    <3> QED
      BY <2>1, <3>1, <3>2, PurgerFrame
  <2> QED
    BY <2>1, <2>2 DEF RepoInv, PurgeInv, Solitude
<1>5. /\ \A p \in Purgers : FlagsStay(pg[p])'
      /\ \A g \in Migrators : MigratorInv(mg[g])'
  BY DEF RepoInv, FlagsStay, MigratorInv, GetByLocation, IdExists, Chosen
<1>6. TurnsAreTaken'
  BY DEF RepoInv, TurnsAreTaken, Purging, Migrating, Uploading
<1> QED
  BY <1>1, <1>2, <1>3, <1>4, <1>5, <1>6 DEF RepoInv

-----------------------------------------------------------------------------
(* Uploads. *)

(* Without a request there are only the chores around uploads. *)
LEMMA ChoresOnly ==
  ASSUME RepoInv, ~Uploading, UploadNext, up' = up
  PROVE  /\ UNCHANGED <<media, thumbs, objects, allocated, reserved>> /\ StoreTypeOK'
         /\ lock' \in [Hashes -> Uploaders \cup {None, Dead}]
<1>1. StoreTypeOK /\ lock \in [Hashes -> Uploaders \cup {None, Dead}] /\ up \in [Uploaders -> UploadState]
  BY DEF RepoInv, RepoTypeOK, UploadTypeOK
<1>2. ASSUME NEW u \in Uploaders, UploaderStep(u) PROVE FALSE
  <2>1. up[u].pc = "idle" /\ up'[u].pc = "idle" /\ UploadTypeOK
    BY DEF Uploading, RepoInv, RepoTypeOK
  <2>2. CASE StartUpload(u) \/ StartPut(u) \/ StartRemote(u) \/ StartThumbnail(u)
    BY <2>1, <2>2, StartEffect
  <2> QED
    BY <1>2, <2>1, <2>2 DEF UploaderStep, GenerateMediaId, Reject, SpamCheckFails, CheckQuarantineStatus, LockForUpload,
       FindPerfect, FindDuplicate, FindNothing, InsertDuplicate, StoreUpload, StoreUploadFails, InsertNew, InsertNewFails,
       UndoStore, DatabaseError, Restrict, Unlock, Finish, FinishNothing, Crash
<1>3. CASE \E h \in Hashes : LockExpires(h)
  BY <1>1, <1>3 DEF LockExpires, storeVars, StoreTypeOK
<1>4. CASE CreateMedia
  BY <1>1, <1>4 DEF CreateMedia, StoreTypeOK
<1>5. CASE ExpireCreated
  BY <1>1, <1>5 DEF ExpireCreated, StoreTypeOK
<1>6. CASE PurgeHeldMediaIds
  BY <1>1, <1>6 DEF PurgeHeldMediaIds, StoreTypeOK
<1> QED
  BY <1>2, <1>3, <1>4, <1>5, <1>6 DEF UploadNext

LEMMA UploadPartInv ==
  ASSUME TakeTurns, RepoInv, UploadPart
  PROVE  RepoInv'
<1>1. UploadNext /\ UNCHANGED <<purgeVars, mg>> /\ UNCHANGED <<pg, doomed, mg>>
  BY DEF UploadPart, purgeVars
<1>2. CASE Purging \/ Migrating
  <2>1. up' = up /\ ~Uploading
    BY <1>2 DEF UploadPart, RepoInv, TurnsAreTaken
  <2> QED
    BY <1>1, <2>1, ChoresOnly, StoreRests
<1>3. CASE ~Purging /\ ~Migrating
  <2>1. PipelineInv' /\ Grows
    BY <1>1, <1>3, PipelineOfRepo, NextPipeline
  <2>2. UploadersInv' /\ ObjectsAllocated' /\ RowsAreSound' /\ LostIsQuarantined' /\ UploadTypeOK' /\ StoreTypeOK'
    BY <2>1 DEF PipelineInv, UploadersInv, UploadTypeOK
  <2>3. OnlyDoomedMediaLosesItsFile'
    <3>1. ASSUME NEW m \in MediaIds, media'[m] # None, objects'[media'[m].loc] # media'[m].hash PROVE m \in doomed
      BY <2>1, <3>1 DEF Grows, RepoInv, PurgeInv, OnlyDoomedMediaLosesItsFile, IdExists
    <3> QED
      BY <1>1, <2>2, <3>1 DEF OnlyDoomedMediaLosesItsFile, LostIsQuarantined, IdExists
  <2>4. PurgeInv' /\ PurgeTypeOK' /\ \A p \in Purgers : FlagsStay(pg[p])'
    BY <1>1, <1>3, <2>2, <2>3, PurgersRest
  <2>5. LostIsBeingPurged'
    BY <2>2 DEF LostIsBeingPurged, LostIsQuarantined
  <2>6. TurnsAreTaken'
    BY <1>1, <1>3 DEF TurnsAreTaken, Purging, Migrating
  <2>7. RepoTypeOK'
    BY <1>1, <2>2, <2>4 DEF RepoTypeOK, MigrateTypeOK, RepoInv
  <2> QED
    BY <1>1, <1>3, <2>2, <2>4, <2>5, <2>6, <2>7, MigratorsRest DEF RepoInv
<1> QED
  BY <1>2, <1>3

-----------------------------------------------------------------------------
(* Quarantines. *)

LEMMA QuarantineEffect ==
  ASSUME RepoInv, NEW h \in Hashes, QuarantineMedia(h)
  PROVE  /\ UNCHANGED <<thumbs, objects, allocated, held, reserved, expiring, restricted>>
         /\ \A m \in MediaIds : /\ media'[m] = None <=> media[m] = None
                                /\ media[m] # None => /\ media'[m].loc = media[m].loc /\ media'[m].hash = media[m].hash
                                                      /\ media[m].quarantined => media'[m].quarantined
<1>1. PICK ids : UpdateQuarantineByHashAndOrigin(ids, h)
  BY DEF QuarantineMedia
<1>2. media \in [MediaIds -> DbMedia \cup {None}]
  BY DEF RepoInv, RepoTypeOK, UploadTypeOK, StoreTypeOK
<1>3. ASSUME NEW m \in MediaIds
      PROVE  /\ media'[m] = None <=> media[m] = None
             /\ media[m] # None => /\ media'[m].loc = media[m].loc /\ media'[m].hash = media[m].hash
                                   /\ media[m].quarantined => media'[m].quarantined
  <2>1. CASE m \in (GetByHash(h) \cap ids) \ PinnedIds
    <3>1. media[m] \in DbMedia
      BY <1>2, <2>1 DEF GetByHash, IdExists
    <3>2. media'[m] = [media[m] EXCEPT !.quarantined = TRUE]
      BY <1>1, <2>1 DEF UpdateQuarantineByHashAndOrigin
    <3> QED
      BY <3>1, <3>2, NoneIsNoRow DEF DbMedia
  <2>2. CASE m \notin (GetByHash(h) \cap ids) \ PinnedIds
    BY <1>1, <1>2, <2>2 DEF UpdateQuarantineByHashAndOrigin
  <2> QED
    BY <2>1, <2>2
<1> QED
  BY <1>3 DEF QuarantineMedia

LEMMA QuarantinePartInv ==
  ASSUME RepoInv, QuarantinePart
  PROVE  RepoInv'
<1>1. PICK h \in Hashes : QuarantineMedia(h)
  BY DEF QuarantinePart
<1>2. UNCHANGED <<up, lock, pg, doomed, mg, purgeVars>>
  BY DEF QuarantinePart, uploadVars, purgeVars
<1>3. /\ UNCHANGED <<thumbs, objects, allocated, held, reserved, expiring, restricted>>
      /\ \A m \in MediaIds : media'[m] = None <=> media[m] = None
      /\ \A m \in MediaIds : media[m] # None => /\ media'[m].loc = media[m].loc /\ media'[m].hash = media[m].hash
                                                /\ media[m].quarantined => media'[m].quarantined
  BY <1>1, QuarantineEffect
<1>4. PurgeInv'
  BY <1>1, <1>2, QuarantineInv DEF RepoInv
<1>5. RepoTypeOK'
  BY <1>2, <1>4 DEF PurgeInv, RepoInv, RepoTypeOK, UploadTypeOK, PurgeTypeOK, MigrateTypeOK
<1>6. UploadersInv'
  <2>1. up \in [Uploaders -> UploadState] /\ LocalStateOK
    BY DEF RepoInv, RepoTypeOK, UploadTypeOK, UploadersInv
  <2>2. LocalStateOK' /\ SharedObjectIsThere'
    BY <1>2, <1>3 DEF RepoInv, UploadersInv, LocalStateOK, SharedObjectIsThere
  <2>3. FreshObjectIsPrivate'
    BY <1>2, <1>3 DEF RepoInv, UploadersInv, FreshObjectIsPrivate, IdExists
  <2>4. CheckedHashIsWhole'
    BY <1>2, <1>3 DEF RepoInv, UploadersInv, CheckedHashIsWhole, WholeHash, GetByHash, IdExists
  <2>5. ReturnedRowIsThere'
    BY <1>2, <1>3, <2>1 DEF RepoInv, UploadersInv, ReturnedRowIsThere, IdExists, LocalStateOK, HasRow, Buffered
  <2> QED
    BY <2>2, <2>3, <2>4, <2>5 DEF UploadersInv
<1>7. ObjectsAllocated' /\ RowsAreSound'
  BY <1>3 DEF RepoInv, ObjectsAllocated, RowsAreSound, IdExists
<1>8. LostIsBeingPurged'
  BY <1>2, <1>3 DEF RepoInv, LostIsBeingPurged, IdExists, Chosen
<1>9. \A p \in Purgers : FlagsStay(pg[p])'
  BY <1>2, <1>3 DEF RepoInv, FlagsStay, IdExists, Chosen
<1>10. \A g \in Migrators : MigratorInv(mg[g])'
  BY <1>2, <1>3 DEF RepoInv, MigratorInv, GetByLocation, IdExists
<1>11. TurnsAreTaken'
  BY <1>2 DEF RepoInv, TurnsAreTaken, Purging, Migrating, Uploading
<1> QED
  BY <1>4, <1>5, <1>6, <1>7, <1>8, <1>9, <1>10, <1>11 DEF RepoInv

-----------------------------------------------------------------------------
(* Purges. *)

(* A purger that goes from state r to state g, and the rows it leaves. *)
LEMMA PurgePartStep ==
  ASSUME RepoInv, PurgeInv', Shrinks, ~Uploading, ~Migrating, UNCHANGED <<up, lock, mg, allocated>>,
         \A m \in MediaIds : media'[m] \in {media[m], None},
         LostIsBeingPurged', \A p \in Purgers : FlagsStay(pg[p])'
  PROVE  RepoInv'
<1>1. RepoTypeOK'
  BY DEF PurgeInv, RepoInv, RepoTypeOK, UploadTypeOK, PurgeTypeOK, MigrateTypeOK
<1>2. ObjectsAllocated'
  BY DEF Shrinks, RepoInv, ObjectsAllocated
<1>3. RowsAreSound'
  <2>1. ASSUME NEW m \in MediaIds, media'[m] # None
        PROVE  media'[m].loc \in allocated /\ objects'[media'[m].loc] \in {media'[m].hash, None}
    <3>1. media'[m] = media[m] /\ media[m] # None /\ media[m].loc \in Locations
      BY <2>1 DEF RepoInv, RepoTypeOK, UploadTypeOK, StoreTypeOK, DbMedia
    <3> QED
      BY <3>1 DEF Shrinks, RepoInv, RowsAreSound, IdExists
  <2>2. ASSUME NEW t \in thumbs' PROVE t.loc \in allocated /\ objects'[t.loc] \in {t.hash, None}
    <3>1. t \in thumbs /\ t.loc \in Locations
      BY <2>2 DEF Shrinks, RepoInv, RepoTypeOK, UploadTypeOK, StoreTypeOK, DbThumbnail
    <3> QED
      BY <3>1 DEF Shrinks, RepoInv, RowsAreSound
  <2> QED
    BY <2>1, <2>2 DEF RowsAreSound, IdExists
<1>4. TurnsAreTaken'
  BY DEF TurnsAreTaken, Migrating, Uploading
<1> QED
  BY <1>1, <1>2, <1>3, <1>4, UploadersRest, MigratorsRest DEF RepoInv

(* A purger that runs keeps its records, and stays in stage three. *)
Carries(r, g) ==
    /\ InStageThree(r) => InStageThree(g)
    /\ g.pc # "idle" => r.pc # "idle" /\ g.records = r.records

LEMMA PurgersCarry ==
  ASSUME RepoInv, NEW p \in Purgers,
         \/ FlagRecord(p) \/ MarkBeingPurged(p) \/ RemoveMediaFile(p) \/ ReserveId(p) \/ DeleteRecord(p)
         \/ RemoveThumbFile(p) \/ DeleteThumb(p) \/ NextRecord(p)
  PROVE  \A q \in Purgers : Carries(pg[q], pg'[q])
<1>1. pg \in [Purgers -> PurgeState]
  BY DEF RepoInv, PurgeInv, PurgeTypeOK
<1>2. PICK r \in PurgeState : r = pg[p]
  BY <1>1
<1>3. ASSUME NEW g, pg' = [pg EXCEPT ![p] = g], Carries(r, g) PROVE \A q \in Purgers : Carries(pg[q], pg'[q])
  BY <1>1, <1>2, <1>3 DEF Carries
<1>4. CASE FlagRecord(p)
  <2>1. r.pc = "flag"
    BY <1>2, <1>4 DEF FlagRecord
  <2>2. PICK m \in r.todo :
          pg' = [pg EXCEPT
               ![p].flagMap = [l \in Locations |->
                    IF l \in ({r.records[m].loc} \cup {t.loc : t \in GetForMedia(m)}) \ r.flagged
                    THEN GetByLocation(l) \cup ThumbParentsAt(l) ELSE r.flagMap[l]],
               ![p].flagged = r.flagged \cup ({r.records[m].loc} \cup {t.loc : t \in GetForMedia(m)}),
               ![p].thumbsMap = r.thumbsMap \cup GetForMedia(m),
               ![p].todo = r.todo \ {m}]
    BY <1>2, <1>4 DEF FlagRecord
  <2>3. PICK map, known, mine, left :
          pg' = [pg EXCEPT ![p].flagMap = map, ![p].flagged = known, ![p].thumbsMap = mine, ![p].todo = left]
    BY <2>2
  <2>4. PICK g : g = [r EXCEPT !.flagMap = map, !.flagged = known, !.thumbsMap = mine, !.todo = left]
    OBVIOUS
  <2>5. g.pc = r.pc /\ g.records = r.records
    BY <2>4 DEF PurgeState
  <2>6. pg' = [pg EXCEPT ![p] = g]
    BY <1>2, <2>3, <2>4
  <2> QED
    BY <1>3, <2>1, <2>5, <2>6 DEF Carries, InStageThree
<1>5. CASE MarkBeingPurged(p)
  <2>1. r.pc = "flag"
    BY <1>2, <1>5 DEF MarkBeingPurged
  <2>2. PICK g : g = IF \A l \in r.flagged : BeingPurged(p, l) \subseteq r.flagMap[l]
                     THEN [r EXCEPT !.pc = IF Selected(p) = {} THEN "done" ELSE "remove", !.todo = Selected(p)]
                     ELSE NotPurging
    OBVIOUS
  <2>3. g.pc = "idle" \/ g.records = r.records
    BY <2>2, NotPurgingState DEF PurgeState
  <2>4. pg' = [pg EXCEPT ![p] = g]
    BY <1>2, <1>5, <2>2 DEF MarkBeingPurged
  <2> QED
    BY <1>3, <2>1, <2>3, <2>4 DEF Carries, InStageThree
<1>6. CASE RemoveMediaFile(p)
  <2>1. PICK m : r.pc = "remove" /\ pg' = [pg EXCEPT ![p] = [r EXCEPT !.pc = "reserve", !.cur = m]]
    BY <1>1, <1>2, <1>6, ZenonT(30) DEF RemoveMediaFile
  <2>2. PICK g : g = [r EXCEPT !.pc = "reserve", !.cur = m]
    OBVIOUS
  <2>3. g.pc = "reserve" /\ g.records = r.records
    BY <2>2 DEF PurgeState
  <2> QED
    BY <1>3, <2>1, <2>2, <2>3 DEF Carries, InStageThree
<1>7. CASE ReserveId(p) \/ NextRecord(p)
  <2>1. PICK next \in {"delete", "done", "remove"} :
          r.pc \notin {"idle", "flag"} /\ pg' = [pg EXCEPT ![p] = [r EXCEPT !.pc = next]]
    BY <1>1, <1>2, <1>7 DEF ReserveId, NextRecord
  <2>2. PICK g : g = [r EXCEPT !.pc = next]
    OBVIOUS
  <2>3. g.pc = next /\ g.records = r.records
    BY <2>2 DEF PurgeState
  <2> QED
    BY <1>3, <2>1, <2>2, <2>3 DEF Carries, InStageThree
<1>8. CASE DeleteRecord(p)
  <2>1. PICK left, last :
          r.pc = "delete" /\ pg' = [pg EXCEPT ![p] = [r EXCEPT !.pc = "thumbs", !.todo = left, !.thumbsLeft = last]]
    BY <1>1, <1>2, <1>8 DEF DeleteRecord
  <2>2. PICK g : g = [r EXCEPT !.pc = "thumbs", !.todo = left, !.thumbsLeft = last]
    OBVIOUS
  <2>3. g.pc = "thumbs" /\ g.records = r.records
    BY <2>2 DEF PurgeState
  <2> QED
    BY <1>3, <2>1, <2>2, <2>3 DEF Carries, InStageThree
<1>9. CASE RemoveThumbFile(p)
  <2>1. PICK t : r.pc = "thumbs" /\ pg' = [pg EXCEPT ![p] = [r EXCEPT !.pc = "dropThumb", !.curThumb = t]]
    BY <1>1, <1>2, <1>9, ZenonT(30) DEF RemoveThumbFile
  <2>2. PICK g : g = [r EXCEPT !.pc = "dropThumb", !.curThumb = t]
    OBVIOUS
  <2>3. g.pc = "dropThumb" /\ g.records = r.records
    BY <2>2 DEF PurgeState
  <2> QED
    BY <1>3, <2>1, <2>2, <2>3 DEF Carries, InStageThree
<1>10. CASE DeleteThumb(p)
  <2>1. PICK last :
          r.pc = "dropThumb" /\ pg' = [pg EXCEPT ![p] = [r EXCEPT !.pc = "thumbs", !.curThumb = None, !.thumbsLeft = last]]
    BY <1>1, <1>2, <1>10 DEF DeleteThumb
  <2>2. PICK g : g = [r EXCEPT !.pc = "thumbs", !.curThumb = None, !.thumbsLeft = last]
    OBVIOUS
  <2>3. g.pc = "thumbs" /\ g.records = r.records
    BY <2>2 DEF PurgeState
  <2> QED
    BY <1>3, <2>1, <2>2, <2>3 DEF Carries, InStageThree
<1> QED
  BY <1>4, <1>5, <1>6, <1>7, <1>8, <1>9, <1>10

(* Such a step that removes no file. *)
LEMMA CarryingStep ==
  ASSUME RepoInv, \A q \in Purgers : Carries(pg[q], pg'[q]), Shrinks, UNCHANGED objects,
         \A m \in MediaIds : media'[m] \in {media[m], None}
  PROVE  LostIsBeingPurged' /\ \A p \in Purgers : FlagsStay(pg[p])'
<1>1. \A q \in Purgers : pg'[q].pc # "idle" => Chosen(pg'[q]) = Chosen(pg[q])
  BY DEF Carries, Chosen
<1>2. \A q \in Purgers : InStageThree(pg[q]) => InStageThree(pg'[q]) /\ Chosen(pg'[q]) = Chosen(pg[q])
  BY <1>1 DEF Carries, InStageThree
<1>3. ASSUME NEW m \in MediaIds, media'[m] # None, objects'[media'[m].loc] # media'[m].hash
      PROVE  media'[m].quarantined \/ \E q \in Purgers : InStageThree(pg'[q]) /\ m \in Chosen(pg'[q])
  BY <1>2, <1>3 DEF RepoInv, LostIsBeingPurged, IdExists
<1>4. ASSUME NEW t \in thumbs', objects'[t.loc] # t.hash
      PROVE  \E q \in Purgers : InStageThree(pg'[q]) /\ t.parent \in Chosen(pg'[q])
  BY <1>2, <1>4 DEF RepoInv, LostIsBeingPurged, Shrinks
<1>5. LostIsBeingPurged'
  BY <1>3, <1>4 DEF LostIsBeingPurged, IdExists, Chosen
<1>6. ASSUME NEW q \in Purgers, pg'[q].pc # "idle", NEW m \in Chosen(pg'[q]), media'[m] # None, pg'[q].records[m].quarantined
      PROVE  media'[m].quarantined
  <2>1. m \in Chosen(pg[q]) /\ m \in MediaIds /\ pg[q].pc # "idle" /\ pg[q].records[m].quarantined
    BY <1>1, <1>6 DEF Carries, Chosen
  <2> QED
    BY <1>6, <2>1 DEF RepoInv, FlagsStay, IdExists
<1>7. \A q \in Purgers : FlagsStay(pg[q])'
  BY <1>6 DEF FlagsStay, IdExists, Chosen
<1> QED
  BY <1>5, <1>7

LEMMA NoFileGoes ==
  ASSUME RepoInv, NEW p \in Purgers,
         FlagRecord(p) \/ MarkBeingPurged(p) \/ ReserveId(p) \/ DeleteRecord(p) \/ DeleteThumb(p) \/ NextRecord(p)
  PROVE  /\ Shrinks /\ UNCHANGED <<objects, allocated>>
         /\ \A m \in MediaIds : media'[m] \in {media[m], None}
<1>1. media \in [MediaIds -> DbMedia \cup {None}]
  BY DEF RepoInv, RepoTypeOK, UploadTypeOK, StoreTypeOK
<1>2. CASE FlagRecord(p) \/ MarkBeingPurged(p) \/ NextRecord(p)
  <2>1. UNCHANGED <<media, thumbs, objects, allocated, reserved, doomed>>
    BY <1>2 DEF FlagRecord, MarkBeingPurged, NextRecord, storeVars
  <2> QED
    BY <2>1 DEF Shrinks
<1>3. CASE ReserveId(p)
  <2>1. UNCHANGED <<media, thumbs, objects, allocated, doomed>> /\ reserved \subseteq reserved'
    BY <1>3 DEF ReserveId
  <2> QED
    BY <2>1 DEF Shrinks
<1>4. CASE DeleteRecord(p)
  <2>1. UNCHANGED <<thumbs, objects, allocated, reserved, doomed>>
    BY <1>4 DEF DeleteRecord
  <2>2. PICK cur : UNCHANGED media \/ media' = [media EXCEPT ![cur] = None]
    BY <1>4 DEF DeleteRecord, MediaDelete
  <2>3. \A m \in MediaIds : media'[m] \in {media[m], None}
    BY <1>1, <2>2
  <2> QED
    BY <2>1, <2>3 DEF Shrinks
<1>5. CASE DeleteThumb(p)
  <2>1. UNCHANGED <<media, objects, allocated, reserved, doomed>> /\ thumbs' \subseteq thumbs
    BY <1>5 DEF DeleteThumb
  <2> QED
    BY <2>1 DEF Shrinks
<1> QED
  BY <1>2, <1>3, <1>4, <1>5

(* A purge begins: it has read the rows that are there. *)
LEMMA BeginEffect ==
  ASSUME RepoInv, NEW p \in Purgers, NEW asked, NEW incl, DoPurge(p, asked, incl)
  PROVE  /\ UNCHANGED <<media, thumbs, objects, allocated, reserved, expiring>> /\ doomed \subseteq doomed'
         /\ \A q \in Purgers \ {p} : pg'[q].pc = pg[q].pc /\ pg'[q].records = pg[q].records
         /\ \A m \in MediaIds : pg'[p].records[m] # None => pg'[p].records[m] = media[m]
<1>1. pg \in [Purgers -> PurgeState] /\ UNCHANGED <<media, thumbs, objects, allocated, reserved, expiring>>
      /\ doomed \subseteq doomed'
  BY DEF RepoInv, PurgeInv, PurgeTypeOK, DoPurge, storeVars
<1>2. ASSUME NEW q \in Purgers \ {p} PROVE pg'[q].pc = pg[q].pc /\ pg'[q].records = pg[q].records
  <2>1. PICK r \in PurgeState : r = pg[q]
    BY <1>1
  <2>2. pg'[q] = [r EXCEPT !.alone = FALSE]
    BY <2>1 DEF DoPurge
  <2> QED
    BY <2>1, <2>2 DEF PurgeState
<1>3. \A m \in MediaIds : pg'[p].records[m] # None => pg'[p].records[m] = media[m]
  <2>1. PICK chosen, single :
          pg'[p] = [NotPurging EXCEPT !.pc = "flag", !.todo = chosen, !.alone = single,
                        !.records = [m \in MediaIds |-> IF m \in chosen THEN media[m] ELSE None]]
    BY DEF DoPurge
  <2>2. PICK rows : rows = [m \in MediaIds |-> IF m \in chosen THEN media[m] ELSE None]
    OBVIOUS
  <2>3. pg'[p].records = rows
    BY <2>1, <2>2 DEF NotPurging
  <2> QED
    BY <2>2, <2>3
<1> QED
  BY <1>1, <1>2, <1>3

LEMMA BeginStep ==
  ASSUME RepoInv, NEW p \in Purgers, pg[p].pc = "idle", NEW asked, NEW incl, DoPurge(p, asked, incl)
  PROVE  /\ LostIsBeingPurged' /\ (\A q \in Purgers : FlagsStay(pg[q])')
         /\ Shrinks /\ UNCHANGED <<objects, allocated>>
         /\ \A m \in MediaIds : media'[m] \in {media[m], None}
<1>1. /\ UNCHANGED <<media, thumbs, objects, allocated, reserved>> /\ doomed \subseteq doomed'
      /\ \A q \in Purgers \ {p} : pg'[q].pc = pg[q].pc /\ pg'[q].records = pg[q].records
      /\ \A m \in MediaIds : pg'[p].records[m] # None => pg'[p].records[m] = media[m]
  BY BeginEffect
<1>2. Shrinks
  BY <1>1 DEF Shrinks
<1>3. \A q \in Purgers : InStageThree(pg[q]) => InStageThree(pg'[q]) /\ Chosen(pg'[q]) = Chosen(pg[q])
  BY <1>1 DEF InStageThree, Chosen
<1>4. LostIsBeingPurged'
  <2>1. ASSUME NEW m \in MediaIds, media[m] # None, objects[media[m].loc] # media[m].hash
        PROVE  media[m].quarantined \/ \E q \in Purgers : InStageThree(pg'[q]) /\ m \in Chosen(pg'[q])
    BY <1>3, <2>1 DEF RepoInv, LostIsBeingPurged, IdExists
  <2>2. ASSUME NEW t \in thumbs, objects[t.loc] # t.hash
        PROVE  \E q \in Purgers : InStageThree(pg'[q]) /\ t.parent \in Chosen(pg'[q])
    BY <1>3, <2>2 DEF RepoInv, LostIsBeingPurged
  <2> QED
    BY <1>1, <2>1, <2>2 DEF LostIsBeingPurged, IdExists, Chosen
<1>5. \A q \in Purgers : FlagsStay(pg[q])'
  <2> SUFFICES ASSUME NEW q \in Purgers, pg'[q].pc # "idle", NEW m \in Chosen(pg'[q]), media[m] # None,
                      pg'[q].records[m].quarantined
               PROVE  media[m].quarantined
    BY <1>1 DEF FlagsStay, IdExists, Chosen
  <2>1. CASE q = p
    BY <1>1, <2>1 DEF Chosen
  <2>2. CASE q # p
    BY <1>1, <2>2 DEF RepoInv, FlagsStay, IdExists, Chosen
  <2> QED
    BY <2>1, <2>2
<1> QED
  BY <1>1, <1>2, <1>4, <1>5

(* A file goes when its users are on the list of the purger: they stay there  *)
(* while rows go.                                                             *)
LEMMA RemoveFileStep ==
  ASSUME RepoInv, NEW p \in Purgers, NEW r, r = pg[p], InStageThree(r), NEW l \in r.flagged, TryRemoveDsFile(p, l),
         UNCHANGED <<doomed, media, thumbs, allocated, held, reserved, expiring, restricted>>,
         \A q \in Purgers : Carries(pg[q], pg'[q])
  PROVE  LostIsBeingPurged' /\ (\A q \in Purgers : FlagsStay(pg[q])') /\ Shrinks
<1>1. r.pc # "idle" /\ r.pc # "flag"
  BY DEF InStageThree
<1>2. /\ RowsWereRead(r) /\ UsersWereRead(r) /\ l \in Locations /\ PurgeInv
  BY <1>1, Running DEF RepoInv
<1>3. Shrinks
  BY <1>1, <1>2, RemoveFile
<1>4. /\ \A q \in Purgers : pg'[q].pc # "idle" => Chosen(pg'[q]) = Chosen(pg[q])
      /\ \A q \in Purgers : InStageThree(pg[q]) => InStageThree(pg'[q]) /\ Chosen(pg'[q]) = Chosen(pg[q])
  BY DEF Carries, Chosen, InStageThree
<1>5. InStageThree(pg'[p]) /\ Chosen(pg'[p]) = Chosen(r)
  BY <1>4
<1>6. CASE r.flagMap[l] \subseteq Marked(r, l)
  <2>1. Users(l) \subseteq Chosen(r)
    BY <1>2, <1>6 DEF Marked, RowsWereRead, UsersWereRead
  <2>2. \A k \in Locations : k # l => objects'[k] = objects[k]
    BY <1>2 DEF TryRemoveDsFile, RemoveObject, PurgeInv, PurgeTypeOK, StoreTypeOK
  <2>3. ASSUME NEW m \in MediaIds, media[m] # None, objects'[media[m].loc] # media[m].hash
        PROVE  media[m].quarantined \/ \E q \in Purgers : InStageThree(pg'[q]) /\ m \in Chosen(pg'[q])
    <3>0. media[m].loc \in Locations
      BY <1>2, <2>3 DEF PurgeInv, PurgeTypeOK, StoreTypeOK, DbMedia
    <3>1. CASE media[m].loc = l
      BY <1>5, <2>1, <2>3, <3>1 DEF Users, GetByLocation, IdExists
    <3>2. CASE media[m].loc # l
      BY <1>4, <2>2, <2>3, <3>0, <3>2 DEF RepoInv, LostIsBeingPurged, IdExists
    <3> QED
      BY <3>1, <3>2
  <2>4. ASSUME NEW t \in thumbs, objects'[t.loc] # t.hash
        PROVE  \E q \in Purgers : InStageThree(pg'[q]) /\ t.parent \in Chosen(pg'[q])
    <3>0. t.loc \in Locations
      BY <1>2, UsersAreMedia
    <3>1. CASE t.loc = l
      BY <1>5, <2>1, <3>1 DEF Users, ThumbParentsAt
    <3>2. CASE t.loc # l
      BY <1>4, <2>2, <2>4, <3>0, <3>2 DEF RepoInv, LostIsBeingPurged
    <3> QED
      BY <3>1, <3>2
  <2>5. LostIsBeingPurged'
    BY <2>3, <2>4 DEF LostIsBeingPurged, IdExists, Chosen
  <2>6. \A q \in Purgers : FlagsStay(pg[q])'
    <3> SUFFICES ASSUME NEW q \in Purgers, pg'[q].pc # "idle", NEW m \in Chosen(pg'[q]), media[m] # None,
                        pg'[q].records[m].quarantined
                 PROVE  media[m].quarantined
      BY DEF FlagsStay, IdExists, Chosen
    <3> QED
      BY <1>4 DEF Carries, RepoInv, FlagsStay, IdExists
  <2> QED
    BY <1>3, <2>5, <2>6
<1>7. CASE ~(r.flagMap[l] \subseteq Marked(r, l))
  <2>1. objects' = objects
    BY <1>7, Notions DEF TryRemoveDsFile, SafeToRemove
  <2> QED
    BY <1>3, <2>1, CarryingStep
<1> QED
  BY <1>6, <1>7

(* A purge that returns leaves none of its rows without the file, unless       *)
(* quarantined.                                                                *)
LEMMA PurgeReturnStep ==
  ASSUME RepoInv, NEW p \in Purgers, PurgeReturns(p)
  PROVE  /\ LostIsBeingPurged' /\ (\A q \in Purgers : FlagsStay(pg[q])') /\ Shrinks /\ UNCHANGED <<allocated, media>>
<1>1. UNCHANGED <<media, thumbs, objects, allocated, reserved, doomed>> /\ pg \in [Purgers -> PurgeState] /\ PurgeInv
  BY DEF PurgeReturns, storeVars, RepoInv, PurgeInv, PurgeTypeOK
<1>2. PICK r : r = pg[p] /\ r.pc = "done"
  BY DEF PurgeReturns
<1>3. \A q \in Purgers : pg'[q] = IF q = p THEN NotPurging ELSE pg[q]
  BY <1>1 DEF PurgeReturns
<1>4. StageThree(r) /\ r.todo = {} /\ r.thumbsLeft = {} /\ Chosen(r) \subseteq MediaIds
  BY <1>1, <1>2, Running DEF AtWork
<1>5. \A m \in Chosen(r) : media[m] # None => media[m].quarantined
  BY <1>2, <1>4 DEF StageThree, RepoInv, FlagsStay, IdExists
<1>6. \A t \in thumbs : t.parent \notin Chosen(r)
  BY <1>4 DEF StageThree, GetForMedia
<1>7. ASSUME NEW m \in MediaIds, media[m] # None, objects[media[m].loc] # media[m].hash
      PROVE  media[m].quarantined \/ \E q \in Purgers : InStageThree(pg'[q]) /\ m \in Chosen(pg'[q])
  BY <1>2, <1>3, <1>5, <1>7 DEF RepoInv, LostIsBeingPurged, IdExists
<1>8. ASSUME NEW t \in thumbs, objects[t.loc] # t.hash
      PROVE  \E q \in Purgers : InStageThree(pg'[q]) /\ t.parent \in Chosen(pg'[q])
  BY <1>2, <1>3, <1>6, <1>8 DEF RepoInv, LostIsBeingPurged
<1>9. LostIsBeingPurged'
  BY <1>1, <1>7, <1>8 DEF LostIsBeingPurged, IdExists, Chosen
<1>10. \A q \in Purgers : FlagsStay(pg[q])'
  <2> SUFFICES ASSUME NEW q \in Purgers, pg'[q].pc # "idle", NEW m \in Chosen(pg'[q]), media[m] # None,
                      pg'[q].records[m].quarantined
               PROVE  media[m].quarantined
    BY <1>1 DEF FlagsStay, IdExists, Chosen
  <2>1. pg'[q] = pg[q]
    BY <1>3, NotPurgingState
  <2> QED
    BY <2>1 DEF RepoInv, FlagsStay, IdExists
<1>11. Shrinks
  BY <1>1 DEF Shrinks
<1> QED
  BY <1>1, <1>9, <1>10, <1>11

LEMMA PurgePartInv ==
  ASSUME TakeTurns, RepoInv, PurgePart
  PROVE  RepoInv'
<1>1. PICK p \in Purgers : PurgerStep(p)
  BY DEF PurgePart
<1>2. ~Uploading /\ ~Migrating /\ UNCHANGED <<up, lock, mg>>
  BY DEF PurgePart, uploadVars
<1>3. PurgeInv'
  BY <1>1, PurgeNextInv DEF PurgeNext, RepoInv
<1>4. ASSUME LostIsBeingPurged', \A q \in Purgers : FlagsStay(pg[q])', Shrinks, UNCHANGED allocated,
             \A m \in MediaIds : media'[m] \in {media[m], None}
      PROVE  RepoInv'
  BY <1>2, <1>3, <1>4, PurgePartStep
<1>5. CASE PurgeMedia(p)
  <2>1. PICK asked \in SUBSET ExistingIds : pg[p].pc = "idle" /\ DoPurge(p, asked, TRUE)
    BY <1>5 DEF PurgeMedia
  <2> QED
    BY <1>4, <2>1, BeginStep
<1>6. CASE PurgeRemoteMedia(p)
  <2>1. PICK old : pg[p].pc = "idle" /\ DoPurge(p, {m \in ExistingIds : media[m].hash \in old}, FALSE)
    BY <1>6 DEF PurgeRemoteMedia
  <2>2. {m \in ExistingIds : media[m].hash \in old} \in SUBSET ExistingIds
    OBVIOUS
  <2> QED
    BY <1>4, <2>1, <2>2, BeginStep
<1>7. CASE FlagRecord(p) \/ MarkBeingPurged(p) \/ ReserveId(p) \/ DeleteRecord(p) \/ DeleteThumb(p) \/ NextRecord(p)
  <2>1. \A q \in Purgers : Carries(pg[q], pg'[q])
    BY <1>7, PurgersCarry
  <2>2. /\ Shrinks /\ UNCHANGED <<objects, allocated>>
        /\ \A m \in MediaIds : media'[m] \in {media[m], None}
    BY <1>7, NoFileGoes
  <2> QED
    BY <1>4, <2>1, <2>2, CarryingStep
<1>8. CASE RemoveMediaFile(p)
  <2>1. PICK r : r = pg[p]
    OBVIOUS
  <2>2. r.pc = "remove" /\ UNCHANGED <<doomed, media, thumbs, allocated, held, reserved, expiring, restricted>>
    BY <1>8, <2>1 DEF RemoveMediaFile
  <2>3. PICK m \in r.todo : TryRemoveDsFile(p, r.records[m].loc)
    BY <1>8, <2>1 DEF RemoveMediaFile
  <2>4. r.records[m].loc \in r.flagged
    BY <2>1, <2>2, <2>3, Running DEF RepoInv, RowsWereRead, UsersWereRead
  <2>5. InStageThree(r) /\ \A q \in Purgers : Carries(pg[q], pg'[q])
    BY <1>8, <2>2, PurgersCarry DEF InStageThree
  <2> QED
    BY <1>4, <2>1, <2>2, <2>3, <2>4, <2>5, RemoveFileStep
<1>9. CASE RemoveThumbFile(p)
  <2>1. PICK r : r = pg[p]
    OBVIOUS
  <2>2. r.pc = "thumbs" /\ UNCHANGED <<doomed, media, thumbs, allocated, held, reserved, expiring, restricted>>
    BY <1>9, <2>1 DEF RemoveThumbFile
  <2>3. PICK t \in r.thumbsLeft : TryRemoveDsFile(p, t.loc)
    BY <1>9, <2>1 DEF RemoveThumbFile
  <2>4. t.loc \in r.flagged
    BY <2>1, <2>2, <2>3, Running DEF RepoInv, RowsWereRead, AtWork
  <2>5. InStageThree(r) /\ \A q \in Purgers : Carries(pg[q], pg'[q])
    BY <1>9, <2>2, PurgersCarry DEF InStageThree
  <2> QED
    BY <1>4, <2>1, <2>2, <2>3, <2>4, <2>5, RemoveFileStep
<1>10. CASE PurgeReturns(p)
  BY <1>4, <1>10, PurgeReturnStep
<1> QED
  BY <1>1, <1>5, <1>6, <1>7, <1>8, <1>9, <1>10 DEF PurgerStep

-----------------------------------------------------------------------------
(* Migrations. *)

(* A row and a thumbnail may go from a source to a target; where they are     *)
(* afterwards there is what was there before.                                 *)
MediaMove ==
    \A m \in MediaIds :
        /\ media'[m] = None <=> media[m] = None
        /\ media[m] # None =>
               /\ media'[m].hash = media[m].hash /\ media'[m].quarantined = media[m].quarantined
               /\ InSource(media'[m].loc) => media'[m].loc = media[m].loc
               /\ media'[m].loc \in allocated'
               /\ objects'[media'[m].loc] \in {media[m].hash, None}
               /\ objects[media[m].loc] = media[m].hash <=> objects'[media'[m].loc] = media[m].hash

ThumbsMove ==
    \A t \in thumbs' :
        /\ InSource(t.loc) => t \in thumbs /\ objects'[t.loc] = objects[t.loc]
        /\ t.loc \in allocated'
        /\ objects'[t.loc] \in {t.hash, None}
        /\ \E x \in thumbs : /\ x.parent = t.parent /\ x.hash = t.hash
                             /\ objects[x.loc] = x.hash => objects'[t.loc] = t.hash

Moves ==
    /\ MediaMove
    /\ ThumbsMove
    /\ allocated \subseteq allocated'
    /\ \A l \in Locations : objects'[l] # None => l \in allocated'
    /\ \A l \in TargetLocations : objects[l] # None => objects'[l] = objects[l]

(* What holds of a migrator is not disturbed by the others. *)
LEMMA MigratorFrame ==
  ASSUME NEW r \in MigrateState, MigratorInv(r), Moves
  PROVE  MigratorInv(r)'
<1> SUFFICES ASSUME r.move # "next"
             PROVE  /\ objects'[r.newLocation] = r.cur.hash
                    /\ \A m \in MediaIds : (media'[m] # None /\ media'[m].loc = r.cur.loc) =>
                           media'[m].hash = r.cur.hash /\ objects'[r.cur.loc] = r.cur.hash /\ r.move = "updateMedia"
                    /\ \A t \in thumbs' : t.loc = r.cur.loc =>
                           t.hash = r.cur.hash /\ objects'[r.cur.loc] = r.cur.hash /\ r.move # "removeSource"
  BY DEF MigratorInv, GetByLocation, IdExists, InSource
<1>1. /\ r.cur \in MoveRecord /\ InSource(r.cur.loc) /\ r.newLocation \in TargetLocations
      /\ objects[r.newLocation] = r.cur.hash
      /\ \A m \in GetByLocation(r.cur.loc) :
             media[m].hash = r.cur.hash /\ objects[r.cur.loc] = r.cur.hash /\ r.move = "updateMedia"
      /\ \A t \in thumbs : t.loc = r.cur.loc =>
             t.hash = r.cur.hash /\ objects[r.cur.loc] = r.cur.hash /\ r.move # "removeSource"
  BY DEF MigratorInv
<1>2. r.cur.hash # None
  BY <1>1, ContentAssumption DEF MigrateState, MoveRecord
<1>3. objects'[r.newLocation] = r.cur.hash
  BY <1>1, <1>2 DEF Moves
<1>4. ASSUME NEW m \in MediaIds, media'[m] # None, media'[m].loc = r.cur.loc
      PROVE  media'[m].hash = r.cur.hash /\ objects'[r.cur.loc] = r.cur.hash /\ r.move = "updateMedia"
  BY <1>1, <1>4 DEF Moves, MediaMove, GetByLocation, IdExists
<1>5. ASSUME NEW t \in thumbs', t.loc = r.cur.loc
      PROVE  t.hash = r.cur.hash /\ objects'[r.cur.loc] = r.cur.hash /\ r.move # "removeSource"
  BY <1>1, <1>5 DEF Moves, ThumbsMove
<1> QED
  BY <1>3, <1>4, <1>5

LEMMA MigratorMoves ==
  ASSUME RepoInv, NEW g \in Migrators, NEW h \in MigrateState, mg' = [mg EXCEPT ![g] = h], MigratorInv(h)',
         Moves, StoreTypeOK', ~Uploading, ~Purging, UNCHANGED <<up, lock, pg, doomed>>
  PROVE  RepoInv'
<1>1. mg' \in [Migrators -> MigrateState] /\ \A k \in Migrators : mg'[k] = IF k = g THEN h ELSE mg[k]
  BY DEF RepoInv, RepoTypeOK, MigrateTypeOK
<1>2. ASSUME NEW k \in Migrators PROVE MigratorInv(mg[k])'
  <2>1. PICK r \in MigrateState : r = mg'[k]
    BY <1>1
  <2>2. CASE k = g
    BY <1>1, <2>1, <2>2
  <2>3. CASE k # g
    <3>1. MigratorInv(r)
      BY <1>1, <2>1, <2>3 DEF RepoInv
    <3> QED
      BY <2>1, <3>1, MigratorFrame
  <2> QED
    BY <2>2, <2>3
<1>3. RepoTypeOK'
  BY <1>1 DEF RepoInv, RepoTypeOK, UploadTypeOK, PurgeTypeOK, MigrateTypeOK
<1>4. ObjectsAllocated' /\ RowsAreSound'
  <2>1. ObjectsAllocated'
    BY DEF Moves, ObjectsAllocated
  <2>2. ASSUME NEW m \in MediaIds, media'[m] # None
        PROVE  media'[m].loc \in allocated' /\ objects'[media'[m].loc] \in {media'[m].hash, None}
    BY <2>2 DEF Moves, MediaMove
  <2>3. ASSUME NEW t \in thumbs' PROVE t.loc \in allocated' /\ objects'[t.loc] \in {t.hash, None}
    BY <2>3 DEF Moves, ThumbsMove
  <2> QED
    BY <2>1, <2>2, <2>3 DEF RowsAreSound, IdExists
<1>5. LostIsBeingPurged' /\ OnlyDoomedMediaLosesItsFile'
  <2>1. ASSUME NEW m \in MediaIds, media'[m] # None, objects'[media'[m].loc] # media'[m].hash
        PROVE  /\ m \in doomed
               /\ media'[m].quarantined \/ \E p \in Purgers : InStageThree(pg[p]) /\ m \in Chosen(pg[p])
    <3>1. /\ media[m] # None /\ objects[media[m].loc] # media[m].hash
          /\ media'[m].quarantined = media[m].quarantined
      BY <2>1 DEF Moves, MediaMove
    <3> QED
      BY <3>1 DEF RepoInv, LostIsBeingPurged, PurgeInv, OnlyDoomedMediaLosesItsFile, IdExists
  <2>2. ASSUME NEW t \in thumbs', objects'[t.loc] # t.hash
        PROVE  t.parent \in doomed /\ \E p \in Purgers : InStageThree(pg[p]) /\ t.parent \in Chosen(pg[p])
    <3>1. PICK x \in thumbs : x.parent = t.parent /\ objects[x.loc] # x.hash
      BY <2>2 DEF Moves, ThumbsMove
    <3> QED
      BY <3>1 DEF RepoInv, LostIsBeingPurged, PurgeInv, OnlyDoomedMediaLosesItsFile
  <2> QED
    BY <2>1, <2>2 DEF LostIsBeingPurged, OnlyDoomedMediaLosesItsFile, IdExists, Chosen
<1>6. UploadersInv'
  BY UploadersRest DEF Moves
<1>7. PurgeInv' /\ \A p \in Purgers : FlagsStay(pg[p])'
  BY <1>5, PurgersRest DEF purgeVars
<1>8. TurnsAreTaken'
  BY DEF TurnsAreTaken, Purging, Uploading
<1> QED
  BY <1>2, <1>3, <1>4, <1>5, <1>6, <1>7, <1>8 DEF RepoInv

(* The listing and the end of a task, and steps that fail. *)
LEMMA StoreIsKept ==
  ASSUME RepoInv, UNCHANGED storeVars
  PROVE  Moves /\ StoreTypeOK'
<1>1. UNCHANGED <<media, thumbs, objects, allocated, held, reserved, expiring, restricted>>
  BY DEF storeVars
<1>2. StoreTypeOK'
  BY <1>1 DEF RepoInv, RepoTypeOK, UploadTypeOK, StoreTypeOK
<1>3. MediaMove
  BY <1>1 DEF RepoInv, RowsAreSound, IdExists, MediaMove
<1>4. ThumbsMove
  BY <1>1 DEF RepoInv, RowsAreSound, ThumbsMove
<1> QED
  BY <1>1, <1>2, <1>3, <1>4 DEF RepoInv, ObjectsAllocated, Moves

(* A new object in the target, whole or not. *)
LEMMA ObjectIsNew ==
  ASSUME RepoInv, NEW l \in TargetLocations, NEW c \in Hashes \cup {Partial}, StoreObject(l, c),
         UNCHANGED <<media, thumbs, held, reserved, expiring, restricted>>
  PROVE  Moves /\ StoreTypeOK' /\ objects'[l] = c
<1>1. /\ StoreTypeOK /\ objects \in [Locations -> Hashes \cup {Partial, None}] /\ allocated \subseteq Locations
      /\ l \in Locations
  BY TargetAssumption DEF RepoInv, RepoTypeOK, UploadTypeOK, StoreTypeOK
<1>2. /\ l \notin allocated /\ allocated' = allocated \cup {l} /\ objects'[l] = c
      /\ \A k \in Locations \ {l} : objects'[k] = objects[k]
      /\ objects' \in [Locations -> Hashes \cup {Partial, None}]
  BY <1>1 DEF StoreObject
<1>3. StoreTypeOK'
  BY <1>1, <1>2 DEF StoreTypeOK
<1>4. objects[l] = None
  BY <1>1, <1>2 DEF RepoInv, ObjectsAllocated
<1>5. MediaMove
  <2> SUFFICES ASSUME NEW m \in MediaIds, media[m] # None
               PROVE  media[m].loc \in allocated' /\ objects'[media[m].loc] \in {media[m].hash, None}
                      /\ objects'[media[m].loc] = objects[media[m].loc]
    BY DEF MediaMove
  <2> QED
    BY <1>1, <1>2 DEF RepoInv, RowsAreSound, IdExists
<1>6. ThumbsMove
  <2> SUFFICES ASSUME NEW t \in thumbs
               PROVE  t.loc \in allocated' /\ objects'[t.loc] \in {t.hash, None} /\ objects'[t.loc] = objects[t.loc]
    BY DEF ThumbsMove
  <2> QED
    BY <1>1, <1>2 DEF RepoInv, RowsAreSound
<1>7. \A k \in Locations : objects'[k] # None => k \in allocated'
  BY <1>2 DEF RepoInv, ObjectsAllocated
<1>8. \A k \in TargetLocations : objects[k] # None => objects'[k] = objects[k]
  BY <1>2, <1>4, TargetAssumption
<1> QED
  BY <1>2, <1>3, <1>5, <1>6, <1>7, <1>8 DEF Moves

(* The state of a migrator that moves the object of its record. *)
LEMMA MovingMigrator ==
  ASSUME RepoInv, NEW g \in Migrators, NEW r, r = mg[g], r.move # "next"
  PROVE  /\ r \in MigrateState /\ MigratorInv(r)
         /\ r.cur \in MoveRecord /\ r.cur.loc \in Locations /\ r.cur.hash \in Hashes
         /\ InSource(r.cur.loc) /\ r.newLocation \in TargetLocations /\ r.newLocation \in Locations
         /\ r.newLocation # r.cur.loc /\ r.newLocation \in allocated /\ objects[r.newLocation] = r.cur.hash
         /\ \A m \in GetByLocation(r.cur.loc) :
                media[m].hash = r.cur.hash /\ objects[r.cur.loc] = r.cur.hash /\ r.move = "updateMedia"
         /\ \A t \in thumbs : t.loc = r.cur.loc =>
                t.hash = r.cur.hash /\ objects[r.cur.loc] = r.cur.hash /\ r.move # "removeSource"
<1>1. r \in MigrateState /\ MigratorInv(r)
  BY DEF RepoInv, RepoTypeOK, MigrateTypeOK
<1>2. /\ r.cur \in MoveRecord /\ InSource(r.cur.loc) /\ r.newLocation \in TargetLocations
      /\ objects[r.newLocation] = r.cur.hash
      /\ \A m \in GetByLocation(r.cur.loc) :
             media[m].hash = r.cur.hash /\ objects[r.cur.loc] = r.cur.hash /\ r.move = "updateMedia"
      /\ \A t \in thumbs : t.loc = r.cur.loc =>
             t.hash = r.cur.hash /\ objects[r.cur.loc] = r.cur.hash /\ r.move # "removeSource"
  BY <1>1 DEF MigratorInv
<1>3. r.cur \in MoveRecord /\ r.cur.loc \in Locations /\ r.cur.hash \in Hashes
  BY <1>1, <1>2 DEF MigrateState, MoveRecord
<1>4. r.newLocation \in Locations /\ r.newLocation # r.cur.loc /\ r.newLocation \in allocated
  BY <1>2, <1>3, TargetAssumption, ContentAssumption DEF InSource, RepoInv, ObjectsAllocated
<1> QED
  BY <1>1, <1>2, <1>3, <1>4

(* The rows at the source point at the copy. *)
LEMMA MediaRowsMove ==
  ASSUME RepoInv, NEW g \in Migrators, MoveMediaRows(g)
  PROVE  /\ Moves /\ StoreTypeOK'
         /\ \A m \in MediaIds : media'[m] # None => media'[m].loc # mg[g].cur.loc
<1>1. PICK r : r = mg[g] /\ r.move = "updateMedia"
  BY DEF MoveMediaRows
<1>2. PICK l, l2 : l = r.cur.loc /\ l2 = r.newLocation
  OBVIOUS
<1>3. /\ l \in Locations /\ InSource(l) /\ l2 \in TargetLocations /\ l2 \in Locations /\ l2 # l
      /\ l2 \in allocated /\ objects[l2] = r.cur.hash
      /\ \A m \in GetByLocation(l) : media[m].hash = r.cur.hash /\ objects[l] = r.cur.hash
  BY <1>1, <1>2, MovingMigrator
<1>4. /\ media' = [m \in MediaIds |-> IF m \in GetByLocation(l) THEN [media[m] EXCEPT !.loc = l2] ELSE media[m]]
      /\ UNCHANGED <<thumbs, objects, allocated, held, reserved, expiring, restricted>>
  BY <1>1, <1>2 DEF MoveMediaRows, MediaUpdateLocation
<1>5. StoreTypeOK /\ media \in [MediaIds -> DbMedia \cup {None}]
  BY DEF RepoInv, RepoTypeOK, UploadTypeOK, StoreTypeOK
<1>6. ASSUME NEW m \in MediaIds
      PROVE  /\ media'[m] \in DbMedia \cup {None}
             /\ m \in GetByLocation(l) => /\ media[m] # None /\ media'[m] # None /\ media'[m].loc = l2
                                          /\ media'[m].hash = media[m].hash /\ media'[m].quarantined = media[m].quarantined
             /\ m \notin GetByLocation(l) => media'[m] = media[m]
  <2>1. CASE m \in GetByLocation(l)
    <3>1. media[m] \in DbMedia
      BY <1>5, <2>1 DEF GetByLocation, IdExists
    <3>2. media'[m] = [media[m] EXCEPT !.loc = l2]
      BY <1>4, <2>1
    <3> QED
      BY <1>3, <2>1, <3>1, <3>2, NoneIsNoRow DEF DbMedia
  <2>2. CASE m \notin GetByLocation(l)
    BY <1>4, <1>5, <2>2
  <2> QED
    BY <2>1, <2>2
<1>7. StoreTypeOK'
  <2>1. media' \in [MediaIds -> DbMedia \cup {None}]
    BY <1>4, <1>6
  <2> QED
    BY <1>4, <1>5, <2>1 DEF StoreTypeOK
<1>8. MediaMove
  <2> SUFFICES ASSUME NEW m \in MediaIds
               PROVE  /\ media'[m] = None <=> media[m] = None
                      /\ media[m] # None =>
                           /\ media'[m].hash = media[m].hash /\ media'[m].quarantined = media[m].quarantined
                           /\ InSource(media'[m].loc) => media'[m].loc = media[m].loc
                           /\ media'[m].loc \in allocated
                           /\ objects[media'[m].loc] \in {media[m].hash, None}
                           /\ objects[media[m].loc] = media[m].hash <=> objects[media'[m].loc] = media[m].hash
    BY <1>4 DEF MediaMove
  <2>1. CASE m \in GetByLocation(l)
    BY <1>3, <1>6, <2>1 DEF InSource, GetByLocation
  <2>2. CASE m \notin GetByLocation(l)
    BY <1>6, <2>2 DEF RepoInv, RowsAreSound, IdExists
  <2> QED
    BY <2>1, <2>2
<1>9. ThumbsMove
  BY <1>4 DEF RepoInv, RowsAreSound, ThumbsMove
<1>10. Moves
  BY <1>4, <1>8, <1>9 DEF RepoInv, ObjectsAllocated, Moves
<1>11. \A m \in MediaIds : media'[m] # None => media'[m].loc # l
  BY <1>3, <1>6 DEF GetByLocation, IdExists
<1> QED
  BY <1>1, <1>2, <1>7, <1>10, <1>11

LEMMA ThumbRowsMove ==
  ASSUME RepoInv, NEW g \in Migrators, MoveThumbRows(g)
  PROVE  /\ Moves /\ StoreTypeOK'
         /\ \A t \in thumbs' : t.loc # mg[g].cur.loc
<1>1. PICK r : r = mg[g] /\ r.move = "updateThumbs"
  BY DEF MoveThumbRows
<1>2. PICK l, l2 : l = r.cur.loc /\ l2 = r.newLocation
  OBVIOUS
<1>3. /\ l \in Locations /\ InSource(l) /\ l2 \in TargetLocations /\ l2 \in Locations /\ l2 # l
      /\ l2 \in allocated /\ objects[l2] = r.cur.hash /\ \A t \in thumbs : t.loc = l => t.hash = r.cur.hash
  BY <1>1, <1>2, MovingMigrator
<1>4. /\ thumbs' = {IF t.loc = l THEN [t EXCEPT !.loc = l2] ELSE t : t \in thumbs}
      /\ UNCHANGED <<media, objects, allocated, held, reserved, expiring, restricted>>
  BY <1>1, <1>2 DEF MoveThumbRows, ThumbUpdateLocation
<1>5. StoreTypeOK /\ thumbs \subseteq DbThumbnail
  BY DEF RepoInv, RepoTypeOK, UploadTypeOK, StoreTypeOK
<1>6. ASSUME NEW t \in thumbs'
      PROVE  /\ t \in DbThumbnail /\ t.loc # l
             /\ t \in thumbs \/ (t.loc = l2 /\ \E x \in thumbs : x.loc = l /\ x.parent = t.parent /\ x.hash = t.hash)
  <2>1. PICK x \in thumbs : t = IF x.loc = l THEN [x EXCEPT !.loc = l2] ELSE x
    BY <1>4
  <2>2. x \in DbThumbnail
    BY <1>5
  <2>3. CASE x.loc = l
    BY <1>3, <2>1, <2>2, <2>3 DEF DbThumbnail
  <2>4. CASE x.loc # l
    BY <2>1, <2>2, <2>4
  <2> QED
    BY <2>3, <2>4
<1>7. StoreTypeOK'
  <2>1. thumbs' \subseteq DbThumbnail
    BY <1>6
  <2> QED
    BY <1>4, <1>5, <2>1 DEF StoreTypeOK
<1>8. ThumbsMove
  <2> SUFFICES ASSUME NEW t \in thumbs'
               PROVE  /\ InSource(t.loc) => t \in thumbs /\ objects'[t.loc] = objects[t.loc]
                      /\ t.loc \in allocated
                      /\ objects[t.loc] \in {t.hash, None}
                      /\ \E x \in thumbs : /\ x.parent = t.parent /\ x.hash = t.hash
                                           /\ objects[x.loc] = x.hash => objects[t.loc] = t.hash
    BY <1>4 DEF ThumbsMove
  <2>1. CASE t \in thumbs
    BY <1>4, <2>1 DEF RepoInv, RowsAreSound
  <2>2. CASE t \notin thumbs
    BY <1>3, <1>6, <2>2 DEF InSource
  <2> QED
    BY <2>1, <2>2
<1>9. MediaMove
  BY <1>4 DEF RepoInv, RowsAreSound, IdExists, MediaMove
<1>10. Moves
  BY <1>4, <1>8, <1>9 DEF RepoInv, ObjectsAllocated, Moves
<1> QED
  BY <1>1, <1>2, <1>6, <1>7, <1>10

(* Nothing is at the source any more when it is removed. *)
LEMMA SourceGoes ==
  ASSUME RepoInv, NEW g \in Migrators, RemoveSource(g)
  PROVE  Moves /\ StoreTypeOK'
<1>1. PICK r : r = mg[g] /\ r.move = "removeSource"
  BY DEF RemoveSource
<1>2. PICK l : l = r.cur.loc
  OBVIOUS
<1>3. /\ l \in Locations /\ InSource(l) /\ GetByLocation(l) = {} /\ \A t \in thumbs : t.loc # l
  BY <1>1, <1>2, MovingMigrator
<1>4. objects' = [objects EXCEPT ![l] = None] /\ UNCHANGED <<media, thumbs, allocated, held, reserved, expiring, restricted>>
  BY <1>1, <1>2 DEF RemoveSource, RemoveObject
<1>5. StoreTypeOK /\ objects \in [Locations -> Hashes \cup {Partial, None}] /\ allocated \subseteq Locations
  BY DEF RepoInv, RepoTypeOK, UploadTypeOK, StoreTypeOK
<1>6. /\ objects'[l] = None /\ (\A k \in Locations \ {l} : objects'[k] = objects[k])
      /\ objects' \in [Locations -> Hashes \cup {Partial, None}]
  BY <1>3, <1>4, <1>5
<1>7. StoreTypeOK'
  BY <1>4, <1>5, <1>6 DEF StoreTypeOK
<1>8. MediaMove
  <2> SUFFICES ASSUME NEW m \in MediaIds, media[m] # None
               PROVE  media[m].loc \in allocated /\ objects'[media[m].loc] \in {media[m].hash, None}
                      /\ objects'[media[m].loc] = objects[media[m].loc]
    BY <1>4 DEF MediaMove
  <2>1. media[m].loc # l
    BY <1>3 DEF GetByLocation, IdExists
  <2> QED
    BY <1>5, <1>6, <2>1 DEF RepoInv, RowsAreSound, IdExists
<1>9. ThumbsMove
  <2> SUFFICES ASSUME NEW t \in thumbs
               PROVE  t.loc \in allocated /\ objects'[t.loc] \in {t.hash, None} /\ objects'[t.loc] = objects[t.loc]
    BY <1>4 DEF ThumbsMove
  <2> QED
    BY <1>3, <1>5, <1>6 DEF RepoInv, RowsAreSound
<1>10. \A k \in Locations : objects'[k] # None => k \in allocated
  BY <1>6 DEF RepoInv, ObjectsAllocated
<1>11. \A k \in TargetLocations : objects[k] # None => objects'[k] = objects[k]
  BY <1>3, <1>6, TargetAssumption DEF InSource
<1> QED
  BY <1>4, <1>7, <1>8, <1>9, <1>10, <1>11 DEF Moves

LEMMA MigrationMoves ==
  ASSUME RepoInv, NEW g \in Migrators, MigrateStep(g)
  PROVE  Moves /\ StoreTypeOK'
<1>1. CASE MigrateStart(g) \/ MigrateThumbs(g) \/ MigrateReturns(g) \/ MoveFails(g) \/ MigrateCrash(g)
  <2>1. UNCHANGED storeVars
    BY <1>1 DEF MigrateStart, MigrateThumbs, MigrateReturns, MoveFails, MigrateCrash
  <2> QED
    BY <2>1, StoreIsKept
<1>2. CASE CopyObject(g)
  <2>1. PICK x \in mg[g].todo, l \in TargetLocations :
          StoreObject(l, x.hash) /\ UNCHANGED <<media, thumbs, held, reserved, expiring, restricted>>
    BY <1>2 DEF CopyObject
  <2>2. x.hash \in Hashes
    BY <2>1 DEF RepoInv, RepoTypeOK, MigrateTypeOK, MigrateState, MoveRecord
  <2> QED
    BY <2>1, <2>2, ObjectIsNew
<1>3. CASE CopyObjectFails(g)
  BY <1>3, ObjectIsNew, StoreIsKept DEF CopyObjectFails, StoreObjectFails, storeVars
<1> QED
  BY <1>1, <1>2, <1>3, MediaRowsMove, ThumbRowsMove, SourceGoes DEF MigrateStep

LEMMA MigratePartInv ==
  ASSUME TakeTurns, RepoInv, MigratePart
  PROVE  RepoInv'
<1>1. PICK g \in Migrators : MigrateStep(g)
  BY DEF MigratePart
<1>2. ~Uploading /\ ~Purging /\ UNCHANGED <<up, lock, pg, doomed>>
  BY DEF MigratePart, uploadVars, purgeVars
<1>3. PICK r \in MigrateState : r = mg[g] /\ MigratorInv(r)
  BY DEF RepoInv, RepoTypeOK, MigrateTypeOK
<1>4. ASSUME NEW h \in MigrateState, mg' = [mg EXCEPT ![g] = h], MigratorInv(h)' PROVE RepoInv'
  BY <1>1, <1>2, <1>4, MigrationMoves, MigratorMoves
<1>5. r.todo \subseteq MoveRecord /\ \A x \in r.todo : InSource(x.loc)
  BY <1>3 DEF MigrateState, MigratorInv
<1>6. CASE MigrateReturns(g) \/ MigrateCrash(g)
  <2>1. mg' = [mg EXCEPT ![g] = NotMigrating]
    BY <1>6 DEF MigrateReturns, MigrateCrash
  <2>2. MigratorInv(NotMigrating)'
    BY IdleMigrator DEF MigratorInv
  <2> QED
    BY <1>4, <2>1, <2>2, IdleMigrator
<1>7. CASE MigrateStart(g) \/ MigrateThumbs(g)
  <2>1. PICK S \in SUBSET MoveRecord, next \in {"media", "thumbs"} :
          /\ \A x \in S : InSource(x.loc)
          /\ mg' = [mg EXCEPT ![g] = [NotMigrating EXCEPT !.pc = next, !.todo = S]]
    <3>1. MovableMedia \subseteq MoveRecord /\ \A x \in MovableMedia : InSource(x.loc)
      BY DEF MovableMedia, MoveRecord, RepoInv, RepoTypeOK, UploadTypeOK, StoreTypeOK, DbMedia, IdExists
    <3>2. MovableThumbs \subseteq MoveRecord /\ \A x \in MovableThumbs : InSource(x.loc)
      BY DEF MovableThumbs, MoveRecord, RepoInv, RepoTypeOK, UploadTypeOK, StoreTypeOK, DbThumbnail
    <3> QED
      BY <1>7, <3>1, <3>2 DEF MigrateStart, MigrateThumbs
  <2>2. PICK h : h = [NotMigrating EXCEPT !.pc = next, !.todo = S]
    OBVIOUS
  <2>3. h \in MigrateState /\ h.pc = next /\ h.todo = S /\ h.move = "next"
    BY <2>1, <2>2 DEF NotMigrating, MigrateState, MigratePcs, MovePcs
  <2>4. MigratorInv(h)'
    BY <2>1, <2>3 DEF MigratorInv, InSource
  <2> QED
    BY <1>4, <2>1, <2>2, <2>3, <2>4
<1>8. CASE CopyObject(g)
  <2>1. PICK x \in r.todo, l \in TargetLocations :
          /\ r.move = "next" /\ objects[x.loc] = x.hash /\ StoreObject(l, x.hash)
          /\ mg' = [mg EXCEPT ![g] = [r EXCEPT !.move = "updateMedia", !.todo = r.todo \ {x}, !.cur = x, !.newLocation = l]]
          /\ UNCHANGED <<media, thumbs, held, reserved, expiring, restricted>>
    BY <1>3, <1>8 DEF CopyObject
  <2>2. x \in MoveRecord /\ x.hash \in Hashes /\ x.loc \in Locations /\ InSource(x.loc) /\ x.hash # None
        /\ l \in Locations
    <3>1. x \in MoveRecord /\ x.hash \in Hashes /\ x.loc \in Locations /\ InSource(x.loc) /\ l \in Locations
      BY <1>5, <2>1, TargetAssumption DEF MoveRecord
    <3> QED
      BY <3>1, ContentAssumption
  <2>3. Moves /\ StoreTypeOK' /\ objects'[l] = x.hash
    BY <2>1, <2>2, ObjectIsNew
  <2>4. PICK h : h = [r EXCEPT !.move = "updateMedia", !.todo = r.todo \ {x}, !.cur = x, !.newLocation = l]
    OBVIOUS
  <2>5. /\ h \in MigrateState /\ h.pc = r.pc /\ h.move = "updateMedia" /\ h.todo = r.todo \ {x} /\ h.cur = x
        /\ h.newLocation = l
    BY <1>5, <2>2, <2>4 DEF MigrateState, MovePcs
  <2>6. \A m \in MediaIds : (media[m] # None /\ media[m].loc = x.loc) => media[m].hash = x.hash
    BY <2>1, <2>2 DEF RepoInv, RowsAreSound, IdExists
  <2>7. \A t \in thumbs : t.loc = x.loc => t.hash = x.hash
    BY <2>1, <2>2 DEF RepoInv, RowsAreSound
  <2>8. h.pc # "idle"
    BY <1>3, <2>1, <2>5 DEF MigratorInv
  <2>9. objects'[x.loc] = x.hash
    BY <2>1, <2>2 DEF StoreObject, InSource, RepoInv, RepoTypeOK, UploadTypeOK, StoreTypeOK
  <2>10. MigratorInv(h)'
    BY <1>5, <2>1, <2>2, <2>3, <2>5, <2>6, <2>7, <2>8, <2>9 DEF MigratorInv, GetByLocation, IdExists, InSource
  <2> QED
    BY <1>4, <2>1, <2>4, <2>5, <2>10
<1>9. CASE CopyObjectFails(g)
  <2>1. PICK x \in r.todo :
          r.move = "next" /\ mg' = [mg EXCEPT ![g] = [r EXCEPT !.todo = r.todo \ {x}]]
    BY <1>3, <1>9 DEF CopyObjectFails
  <2>2. PICK h : h = [r EXCEPT !.todo = r.todo \ {x}]
    OBVIOUS
  <2>3. h \in MigrateState /\ h.pc = r.pc /\ h.move = "next" /\ h.todo = r.todo \ {x}
    BY <1>5, <2>1, <2>2 DEF MigrateState
  <2>4. MigratorInv(h)'
    BY <1>3, <1>5, <2>1, <2>3 DEF MigratorInv, InSource
  <2> QED
    BY <1>4, <2>1, <2>2, <2>3, <2>4
<1>10. CASE MoveMediaRows(g)
  <2>1. r.move = "updateMedia" /\ mg' = [mg EXCEPT ![g] = [r EXCEPT !.move = "updateThumbs"]]
    BY <1>3, <1>10 DEF MoveMediaRows
  <2>2. Moves /\ StoreTypeOK' /\ \A m \in MediaIds : media'[m] # None => media'[m].loc # r.cur.loc
    BY <1>3, <1>10, MediaRowsMove
  <2>3. PICK h : h = [r EXCEPT !.move = "updateThumbs"]
    OBVIOUS
  <2>4. /\ h \in MigrateState /\ h.pc = r.pc /\ h.move = "updateThumbs" /\ h.todo = r.todo /\ h.cur = r.cur
        /\ h.newLocation = r.newLocation
    BY <2>3 DEF MigrateState, MovePcs
  <2>5. MigratorInv(r)'
    BY <1>3, <2>2, MigratorFrame
  <2>6. MigratorInv(h)'
    BY <2>1, <2>2, <2>4, <2>5 DEF MigratorInv, GetByLocation, IdExists
  <2> QED
    BY <1>4, <2>1, <2>2, <2>3, <2>4, <2>6
<1>11. CASE MoveThumbRows(g)
  <2>1. r.move = "updateThumbs" /\ mg' = [mg EXCEPT ![g] = [r EXCEPT !.move = "removeSource"]]
    BY <1>3, <1>11 DEF MoveThumbRows
  <2>2. Moves /\ StoreTypeOK' /\ \A t \in thumbs' : t.loc # r.cur.loc
    BY <1>3, <1>11, ThumbRowsMove
  <2>3. PICK h : h = [r EXCEPT !.move = "removeSource"]
    OBVIOUS
  <2>4. /\ h \in MigrateState /\ h.pc = r.pc /\ h.move = "removeSource" /\ h.todo = r.todo /\ h.cur = r.cur
        /\ h.newLocation = r.newLocation
    BY <2>3 DEF MigrateState, MovePcs
  <2>5. MigratorInv(r)'
    BY <1>3, <2>2, MigratorFrame
  <2>6. MigratorInv(h)'
    BY <2>1, <2>2, <2>4, <2>5 DEF MigratorInv
  <2> QED
    BY <1>4, <2>1, <2>2, <2>3, <2>4, <2>6
<1>12. CASE RemoveSource(g)
  <2>1. PICK left \in SUBSET r.todo :
          /\ r.move = "removeSource"
          /\ mg' = [mg EXCEPT ![g] = [r EXCEPT !.move = "next", !.cur = None, !.newLocation = None, !.todo = left]]
    <3>1. PICK left \in SUBSET r.todo : left = {x \in r.todo : x.loc # r.cur.loc}
      OBVIOUS
    <3>2. /\ r.move = "removeSource"
          /\ mg' = [mg EXCEPT ![g] = [r EXCEPT !.move = "next", !.cur = None, !.newLocation = None,
                                     !.todo = {x \in r.todo : x.loc # r.cur.loc}]]
      BY <1>3, <1>12 DEF RemoveSource
    <3> QED
      BY <3>1, <3>2
  <2>2. PICK h : h = [r EXCEPT !.move = "next", !.cur = None, !.newLocation = None, !.todo = left]
    OBVIOUS
  <2>3. h \in MigrateState /\ h.pc = r.pc /\ h.move = "next" /\ h.todo = left
    BY <1>5, <2>1, <2>2 DEF MigrateState, MovePcs
  <2>4. MigratorInv(h)'
    BY <1>3, <1>5, <2>1, <2>3 DEF MigratorInv, InSource
  <2> QED
    BY <1>4, <2>1, <2>2, <2>3, <2>4
<1>13. CASE MoveFails(g)
  <2>1. /\ r.move # "next"
        /\ mg' = [mg EXCEPT ![g] = [r EXCEPT !.move = "next", !.cur = None, !.newLocation = None]]
    BY <1>3, <1>13 DEF MoveFails
  <2>2. PICK h : h = [r EXCEPT !.move = "next", !.cur = None, !.newLocation = None]
    OBVIOUS
  <2>3. h \in MigrateState /\ h.pc = r.pc /\ h.move = "next" /\ h.todo = r.todo
    BY <2>2 DEF MigrateState, MovePcs
  <2>4. MigratorInv(h)'
    BY <1>3, <1>5, <2>1, <2>3 DEF MigratorInv, InSource
  <2> QED
    BY <1>4, <2>1, <2>2, <2>3, <2>4
<1> QED
  BY <1>1, <1>6, <1>7, <1>8, <1>9, <1>10, <1>11, <1>12, <1>13 DEF MigrateStep

-----------------------------------------------------------------------------
(* The whole repository. *)

LEMMA RepoNextInv ==
  ASSUME TakeTurns, RepoInv, [RepoNext]_repoVars
  PROVE  RepoInv'
<1>1. CASE UNCHANGED repoVars
  <2>1. /\ UNCHANGED <<up, lock, pg, doomed, mg>>
        /\ UNCHANGED <<media, thumbs, objects, allocated, held, reserved, expiring, restricted>>
    BY <1>1 DEF repoVars, storeVars, uploadVars, purgeVars
  <2>2. StoreTypeOK' /\ lock' \in [Hashes -> Uploaders \cup {None, Dead}]
    BY <2>1 DEF RepoInv, RepoTypeOK, UploadTypeOK, StoreTypeOK
  <2> QED
    BY <2>1, <2>2, StoreRests
<1> QED
  BY <1>1, UploadPartInv, PurgePartInv, QuarantinePartInv, MigratePartInv DEF RepoNext

LEMMA RepoInvariance ==
  ASSUME TakeTurns
  PROVE  RepoSpec => []RepoInv
<1>1. RepoInv /\ [RepoNext]_repoVars => RepoInv'
  BY RepoNextInv
<1> QED
  BY <1>1, RepoInitInv, PTL DEF RepoSpec

(* Uploads, purges, quarantines and migrations that take turns keep the types *)
(* of the tables, the datastores and of each other.                           *)
THEOREM RepoTypeCorrect ==
  ASSUME TakeTurns
  PROVE  RepoSpec => []RepoTypeOK
<1>1. RepoInv => RepoTypeOK
  BY DEF RepoInv
<1> QED
  BY <1>1, RepoInvariance, PTL

(* Whatever is uploaded, deduplicated, purged by several purgers at once,     *)
(* quarantined and moved by several migrators at once, as long as the three   *)
(* parts take turns: a row or thumbnail without its content is one that a     *)
(* running purge takes away, or quarantined (purge.go:177-230,                *)
(* datastore_migrate.go:74-147), and what deduplication is about to share is  *)
(* there (pipeline.go:139).                                                   *)
THEOREM FilesAreNotLost ==
  ASSUME TakeTurns
  PROVE  RepoSpec => []FilesAreKept
<1>1. RepoInv => FilesAreKept
  <2> SUFFICES ASSUME RepoInv PROVE FilesAreKept
    OBVIOUS
  <2>1. SharedFilesAreKept
    BY Notions DEF RepoInv, LostIsBeingPurged, SharedFilesAreKept
  <2>2. DeduplicatedFileExists
    BY DEF RepoInv, UploadersInv, SharedObjectIsThere, SharesObject, DeduplicatedFileExists
  <2> QED
    BY <2>1, <2>2 DEF FilesAreKept
<1> QED
  BY <1>1, RepoInvariance, PTL

-----------------------------------------------------------------------------
(* The steps of uploads. *)

LEMMA RowsAreInserted ==
  ASSUME [UploadNext]_vars
  PROVE  media' = media \/ \E u \in Uploaders : InsertDuplicate(u) \/ InsertNew(u)
<1>1. ASSUME NEW u \in Uploaders, UploaderStep(u), ~InsertDuplicate(u), ~InsertNew(u)
      PROVE  media' = media
  BY <1>1 DEF UploaderStep, StartUpload, StartPut, StartRemote, StartThumbnail, GenerateMediaId,
     Reject, SpamCheckFails, CheckQuarantineStatus, LockForUpload, FindPerfect, FindDuplicate,
     FindNothing, StoreUpload, StoreUploadFails, InsertNewFails, UndoStore, DatabaseError,
     Restrict, Unlock, Finish, FinishNothing, Crash, storeVars
<1>2. ASSUME NEW h \in Hashes, LockExpires(h) PROVE media' = media
  BY <1>2 DEF LockExpires, storeVars
<1>3. CASE CreateMedia \/ ExpireCreated \/ PurgeHeldMediaIds \/ UNCHANGED vars
  BY <1>3 DEF CreateMedia, ExpireCreated, PurgeHeldMediaIds, vars
<1> QED
  BY <1>1, <1>2, <1>3 DEF UploadNext

(* No action of the pipeline touches reserved_media. *)
LEMMA ReservedUntouched ==
  ASSUME [UploadNext]_vars
  PROVE  reserved' = reserved
<1>1. ASSUME NEW u \in Uploaders, UploaderStep(u) PROVE reserved' = reserved
  BY <1>1 DEF UploaderStep, StartUpload, StartPut, StartRemote, StartThumbnail, GenerateMediaId,
     Reject, SpamCheckFails, CheckQuarantineStatus, LockForUpload, FindPerfect, FindDuplicate,
     FindNothing, InsertDuplicate, StoreUpload, StoreUploadFails, InsertNew, InsertNewFails,
     UndoStore, DatabaseError, Restrict, Unlock, Finish, FinishNothing, Crash, storeVars
<1>2. ASSUME NEW h \in Hashes, LockExpires(h) PROVE reserved' = reserved
  BY <1>2 DEF LockExpires, storeVars
<1>3. CASE CreateMedia \/ ExpireCreated \/ PurgeHeldMediaIds \/ UNCHANGED vars
  BY <1>3 DEF CreateMedia, ExpireCreated, PurgeHeldMediaIds, vars
<1> QED
  BY <1>1, <1>2, <1>3 DEF UploadNext

-----------------------------------------------------------------------------
(* Uploads alone. *)

(* Uploads alone never take an ID out of service. *)
NothingReserved == reserved = {}

(* While no row dangles, an ID shows the content of its row, and no ID is     *)
(* spent.                                                                     *)
LEMMA VisibleIsTheRow ==
  StorageInv /\ NothingReserved =>
    /\ Visible = [m \in MediaIds |-> IF IdExists(m) THEN media[m].hash ELSE None]
    /\ Retired = {}
<1> SUFFICES ASSUME StorageInv, NothingReserved
             PROVE  /\ Visible = [m \in MediaIds |-> IF IdExists(m) THEN media[m].hash ELSE None]
                    /\ Retired = {}
  OBVIOUS
<1>1. ASSUME NEW m \in MediaIds, IdExists(m)
      PROVE  media[m].hash \in Hashes /\ objects[media[m].loc] = media[m].hash
  <2>1. media[m] \in DbMedia
    BY <1>1 DEF StorageInv, PipelineInv, UploadTypeOK, StoreTypeOK, IdExists
  <2> QED
    BY <1>1, <2>1 DEF DbMedia, StorageInv, PipelineInv, NoDanglingRow
<1>2. Visible = [m \in MediaIds |-> IF IdExists(m) THEN media[m].hash ELSE None]
  BY <1>1 DEF Visible
<1>3. \A m \in LocalIds : IdExists(m) => Visible[m] # None
  BY <1>1, <1>2, ContentAssumption DEF MediaIds
<1> QED
  BY <1>2, <1>3 DEF Retired, NothingReserved

(* The same in the state after a step. *)
LEMMA VisibleIsTheRowNext ==
  StorageInv' /\ NothingReserved' =>
    /\ Visible' = [m \in MediaIds |-> IF IdExists(m)' THEN media'[m].hash ELSE None]
    /\ Retired' = {}
<1>1. (StorageInv /\ NothingReserved =>
         /\ Visible = [m \in MediaIds |-> IF IdExists(m) THEN media[m].hash ELSE None]
         /\ Retired = {})'
  BY VisibleIsTheRow, PTL
<1> QED
  BY <1>1

(* Two states with the same rows show the same. *)
LEMMA SameRowsStutter ==
  ASSUME StorageInv, StorageInv', NothingReserved, NothingReserved', media' = media
  PROVE  UNCHANGED Service!serviceVars
<1>1. /\ Visible = [m \in MediaIds |-> IF IdExists(m) THEN media[m].hash ELSE None]
      /\ Retired = {}
  BY VisibleIsTheRow
<1>2. /\ Visible' = [m \in MediaIds |-> IF IdExists(m)' THEN media'[m].hash ELSE None]
      /\ Retired' = {}
  BY VisibleIsTheRowNext
<1> QED
  BY <1>1, <1>2 DEF Service!serviceVars, IdExists

(* The insert of a row publishes its content. *)
LEMMA InsertPublishes ==
  ASSUME StorageInv, StorageInv', NothingReserved, NothingReserved', NEW u \in Uploaders,
         InsertDuplicate(u) \/ InsertNew(u)
  PROVE  Service!ServiceNext
<1> DEFINE m == up[u].id
           h == up[u].hash
<1>1. /\ up[u].pc \in {"insertDup", "insert"} /\ ~IdExists(m)
      /\ media' = [media EXCEPT ![m] = NewRecord(u)]
  BY DEF InsertDuplicate, InsertNew, MediaInsert
<1>2. m \in MediaIds /\ h \in Hashes /\ NewRecord(u).hash = h
  BY <1>1 DEF StorageInv, PipelineInv, LocalStateOK, Buffered, NewRecord
<1>3. /\ Visible = [n \in MediaIds |-> IF IdExists(n) THEN media[n].hash ELSE None]
      /\ Retired = {}
  BY VisibleIsTheRow
<1>4. /\ Visible' = [n \in MediaIds |-> IF media'[n] # None THEN media'[n].hash ELSE None]
      /\ Retired' = {}
  BY VisibleIsTheRowNext DEF IdExists
<1>5. \A n \in MediaIds : media'[n] = IF n = m THEN NewRecord(u) ELSE media[n]
  BY <1>1, <1>2 DEF StorageInv, PipelineInv, UploadTypeOK, StoreTypeOK
<1>6. media'[m] # None
  <2>1. up'[u].pc = "restrict" /\ up'[u].id = m
    BY GotoEffect DEF StorageInv, PipelineInv, InsertDuplicate, InsertNew
  <2> QED
    BY <2>1 DEF StorageInv, PipelineInv, ReturnedRowIsThere, HasRow, IdExists
<1>7. Visible' = [Visible EXCEPT ![m] = h]
  BY <1>1, <1>2, <1>3, <1>4, <1>5, <1>6 DEF IdExists
<1>8. Visible[m] = None
  BY <1>1, <1>2, <1>3
<1>9. Service!Publish(m, h)
  BY <1>3, <1>4, <1>7, <1>8 DEF Service!Publish
<1> QED
  BY <1>2, <1>9 DEF Service!ServiceNext, Service!Ids, MediaIds

(* A step of the pipeline is a step of the service or a stutter. *)
LEMMA StepRefines ==
  ASSUME StorageInv, StorageInv', NothingReserved, NothingReserved', [UploadNext]_vars
  PROVE  [Service!ServiceNext]_(Service!serviceVars)
<1>1. CASE media' = media
  BY <1>1, SameRowsStutter
<1>2. CASE \E u \in Uploaders : InsertDuplicate(u) \/ InsertNew(u)
  BY <1>2, InsertPublishes
<1> QED
  BY <1>1, <1>2, RowsAreInserted

(* The pipeline implements the promise of the repository: an ID shows nothing *)
(* until the insert of its row (pipeline.go:143 and :175), then the uploaded  *)
(* content, whole, and nothing an upload does, and no crash, changes it.      *)
THEOREM PipelineImplementsService == UploadSpec => UploadsAreAtomic
<1>1. UploadInit => NothingReserved
  BY DEF UploadInit, StoreInit, NothingReserved
<1>2. UploadInit => Service!ServiceInit
  BY DEF UploadInit, StoreInit, Service!ServiceInit, Service!Ids, Visible, Retired, MediaIds,
     IdExists
<1>3. UploadSpec => []NothingReserved
  <2>1. NothingReserved /\ [UploadNext]_vars => NothingReserved'
    BY ReservedUntouched DEF NothingReserved
  <2> QED
    BY <1>1, <2>1, PTL DEF UploadSpec
<1>4. /\ StorageInv /\ StorageInv' /\ NothingReserved /\ NothingReserved'
      /\ [UploadNext]_vars
      => [Service!ServiceNext]_(Service!serviceVars)
  BY StepRefines
<1> QED
  BY <1>2, <1>3, <1>4, StorageInvariant, PTL
     DEF UploadSpec, UploadsAreAtomic, Service!ServiceSpec

-----------------------------------------------------------------------------
(* IDs that are on their way in, and IDs that are on their way out. *)

BeforeInsert == {"check", "lock", "find", "store", "insert", "insertDup"}

UploadsAvoidReserved == \A u \in Uploaders : up[u].pc \in BeforeInsert => up[u].id \notin reserved

(* A local ID that is being purged has a row or is reserved: nobody can create *)
(* it anew.                                                                    *)
PurgedIdsAreTaken ==
    \A p \in Purgers : pg[p].pc # "idle" =>
        \A m \in Chosen(pg[p]) \cap LocalIds : m \notin expiring /\ (media[m] # None \/ m \in reserved)

IdsInv == expiring \cap reserved = {} /\ UploadsAvoidReserved /\ PurgedIdsAreTaken

(* What the steps of uploads do to the records of created IDs. *)
LEMMA ExpiringEffect ==
  ASSUME UploadNext
  PROVE  expiring' \subseteq expiring \/ CreateMedia
<1>1. ASSUME NEW u \in Uploaders, UploaderStep(u) PROVE expiring' \subseteq expiring
  BY <1>1 DEF UploaderStep, StartUpload, StartPut, StartRemote, StartThumbnail, GenerateMediaId,
     Reject, SpamCheckFails, CheckQuarantineStatus, LockForUpload, FindPerfect, FindDuplicate,
     FindNothing, InsertDuplicate, StoreUpload, StoreUploadFails, InsertNew, InsertNewFails,
     UndoStore, DatabaseError, Restrict, Unlock, Finish, FinishNothing, Crash, DropHold, storeVars
<1>2. ASSUME NEW h \in Hashes, LockExpires(h) PROVE expiring' \subseteq expiring
  BY <1>2 DEF LockExpires, storeVars
<1>3. CASE ExpireCreated \/ PurgeHeldMediaIds
  BY <1>3 DEF ExpireCreated, PurgeHeldMediaIds
<1> QED
  BY <1>1, <1>2, <1>3 DEF UploadNext

(* No uploader comes to work on a reserved ID. *)
LEMMA UploaderAvoidsReserved ==
  ASSUME RepoInv, IdsInv, NEW u \in Uploaders, UploaderStep(u)
  PROVE  \A v \in Uploaders : up'[v].pc \in BeforeInsert => up'[v].id \notin reserved
<1>1. up \in [Uploaders -> UploadState] /\ UploadTypeOK /\ reserved \subseteq LocalIds
  BY DEF RepoInv, RepoTypeOK, UploadTypeOK, StoreTypeOK
<1>2. ASSUME NEW s, up' = [up EXCEPT ![u] = s], s.pc \in BeforeInsert => s.id \notin reserved
      PROVE  \A v \in Uploaders : up'[v].pc \in BeforeInsert => up'[v].id \notin reserved
  BY <1>1, <1>2 DEF IdsInv, UploadsAvoidReserved
<1>3. CASE StartUpload(u) \/ StartThumbnail(u)
  <2>1. PICK kind, parent, h, o : up' = [up EXCEPT ![u] = Request("generate", kind, None, parent, h, o)]
    BY <1>3 DEF StartUpload, StartThumbnail
  <2>2. Request("generate", kind, None, parent, h, o).pc = "generate"
    BY DEF Request
  <2> QED
    BY <1>2, <2>1, <2>2 DEF BeforeInsert
<1>4. CASE StartPut(u) \/ StartRemote(u)
  <2>1. PICK kind, m, h, o : /\ up' = [up EXCEPT ![u] = Request("check", kind, m, None, h, o)]
                             /\ m \in expiring \cup RemoteIds
    BY <1>4 DEF StartPut, StartRemote
  <2>2. Request("check", kind, m, None, h, o).id = m /\ m \notin reserved
    BY <1>1, <2>1, IdsAssumption DEF Request, IdsInv
  <2> QED
    BY <1>2, <2>1, <2>2
<1>5. CASE GenerateMediaId(u)
  <2>1. CASE up' = up
    BY <2>1 DEF IdsInv, UploadsAvoidReserved
  <2>2. CASE up' # up
    <3>1. PICK m : m \notin reserved /\ up' = [up EXCEPT ![u].id = m, ![u].pc = "check"]
      BY <1>5, <2>2 DEF GenerateMediaId
    <3>2. PICK s : s = [up[u] EXCEPT !.id = m, !.pc = "check"]
      OBVIOUS
    <3>3. s.id = m
      BY <1>1, <3>2 DEF UploadState
    <3> QED
      BY <1>2, <3>1, <3>2, <3>3
  <2> QED
    BY <2>1, <2>2
<1>6. CASE Return(u)
  <2>1. Idle.pc = "idle"
    BY DEF Idle, Request
  <2> QED
    BY <1>2, <1>6, <2>1 DEF Return, BeforeInsert
<1>7. ASSUME NEW pc, Goto(u, pc), pc \in BeforeInsert => up[u].pc \in BeforeInsert
      PROVE  \A v \in Uploaders : up'[v].pc \in BeforeInsert => up'[v].id \notin reserved
  <2>1. PICK s : s = [up[u] EXCEPT !.pc = pc]
    OBVIOUS
  <2>2. s.id = up[u].id /\ s.pc = pc
    BY <1>1, <2>1 DEF UploadState
  <2>3. up' = [up EXCEPT ![u] = s]
    BY <1>7, <2>1 DEF Goto
  <2> QED
    BY <1>2, <1>7, <2>2, <2>3 DEF IdsInv, UploadsAvoidReserved
<1>8. CASE FindPerfect(u)
  <2>1. PICK m, l : up' = [up EXCEPT ![u].pc = "unlock", ![u].id = m, ![u].loc = l]
    BY <1>8 DEF FindPerfect
  <2>2. PICK s : s = [up[u] EXCEPT !.pc = "unlock", !.id = m, !.loc = l]
    OBVIOUS
  <2>3. s.pc = "unlock"
    BY <1>1, <2>2 DEF UploadState
  <2> QED
    BY <1>2, <2>1, <2>2, <2>3 DEF BeforeInsert
<1>9. CASE FindDuplicate(u)
  <2>1. PICK l, q : up[u].pc = "find" /\ up' = [up EXCEPT ![u].pc = "insertDup", ![u].loc = l, ![u].quarantined = q]
    BY <1>9 DEF FindDuplicate
  <2>2. PICK s : s = [up[u] EXCEPT !.pc = "insertDup", !.loc = l, !.quarantined = q]
    OBVIOUS
  <2>3. s.id = up[u].id
    BY <1>1, <2>2 DEF UploadState
  <2> QED
    BY <1>2, <2>1, <2>2, <2>3 DEF IdsInv, UploadsAvoidReserved, BeforeInsert
<1>10. CASE StoreUpload(u)
  <2>1. PICK l : up[u].pc = "store" /\ up' = [up EXCEPT ![u].pc = "insert", ![u].loc = l]
    BY <1>10 DEF StoreUpload
  <2>2. PICK s : s = [up[u] EXCEPT !.pc = "insert", !.loc = l]
    OBVIOUS
  <2>3. s.id = up[u].id
    BY <1>1, <2>2 DEF UploadState
  <2> QED
    BY <1>2, <2>1, <2>2, <2>3 DEF IdsInv, UploadsAvoidReserved, BeforeInsert
<1>11. CASE Reject(u) \/ Finish(u) \/ FinishNothing(u) \/ Crash(u)
  BY <1>6, <1>11 DEF Reject, Finish, FinishNothing, Crash
<1>12. CASE CheckQuarantineStatus(u) \/ LockForUpload(u) \/ FindNothing(u)
  BY <1>6, <1>7, <1>12 DEF CheckQuarantineStatus, LockForUpload, FindNothing, BeforeInsert
<1>13. CASE SpamCheckFails(u) \/ InsertDuplicate(u) \/ StoreUploadFails(u) \/ InsertNew(u) \/ InsertNewFails(u)
            \/ UndoStore(u) \/ DatabaseError(u) \/ Restrict(u) \/ Unlock(u)
  BY <1>6, <1>7, <1>13 DEF SpamCheckFails, InsertDuplicate, StoreUploadFails, InsertNew, InsertNewFails,
     UndoStore, DatabaseError, Restrict, Unlock, BeforeInsert
<1> QED
  BY <1>3, <1>4, <1>5, <1>8, <1>9, <1>10, <1>11, <1>12, <1>13 DEF UploaderStep

LEMMA UploadPartIds ==
  ASSUME TakeTurns, RepoInv, IdsInv, UploadPart
  PROVE  IdsInv'
<1>1. UploadNext /\ UNCHANGED pg /\ reserved' = reserved /\ UploadTypeOK
  BY ReservedUntouched DEF UploadPart, purgeVars, RepoInv, RepoTypeOK
<1>2. expiring' \subseteq expiring \/ \E m : media[m] = None /\ m \notin reserved /\ expiring' \subseteq expiring \cup {m}
  BY <1>1, ExpiringEffect DEF CreateMedia, IdExists
<1>3. (expiring \cap reserved = {})'
  BY <1>1, <1>2 DEF IdsInv
<1>4. UploadsAvoidReserved'
  <2>1. CASE up' = up
    BY <1>1, <2>1 DEF IdsInv, UploadsAvoidReserved
  <2>2. CASE \E u \in Uploaders : UploaderStep(u)
    BY <1>1, <2>2, UploaderAvoidsReserved DEF UploadsAvoidReserved
  <2> QED
    BY <1>1, <2>1, <2>2 DEF UploadNext, LockExpires, CreateMedia, ExpireCreated, PurgeHeldMediaIds
<1>5. PurgedIdsAreTaken'
  <2> SUFFICES ASSUME NEW p \in Purgers, pg[p].pc # "idle", NEW m \in Chosen(pg[p]) \cap LocalIds
               PROVE  m \notin expiring' /\ (media'[m] # None \/ m \in reserved')
    BY <1>1 DEF PurgedIdsAreTaken, Chosen
  <2>1. Purging /\ up' = up /\ ~Uploading
    BY DEF Purging, UploadPart, RepoInv, TurnsAreTaken
  <2>2. UNCHANGED media
    BY <1>1, <2>1, ChoresOnly
  <2> QED
    BY <1>1, <1>2, <2>2 DEF IdsInv, PurgedIdsAreTaken
<1> QED
  BY <1>3, <1>4, <1>5 DEF IdsInv

LEMMA PurgePartIds ==
  ASSUME TakeTurns, RepoInv, IdsInv, PurgePart
  PROVE  IdsInv'
<1>1. PICK p \in Purgers : PurgerStep(p)
  BY DEF PurgePart
<1>2. ~Uploading /\ ~HoldLeft /\ UNCHANGED up /\ PurgeInv /\ pg \in [Purgers -> PurgeState]
  BY DEF PurgePart, uploadVars, RepoInv, PurgeInv, PurgeTypeOK
<1>3. UploadsAvoidReserved'
  BY <1>2 DEF Uploading, UploadsAvoidReserved, BeforeInsert
<1>4. ASSUME UNCHANGED expiring, expiring \cap reserved' = {},
             \A q \in Purgers : pg'[q].pc # "idle" => \A m \in Chosen(pg'[q]) \cap LocalIds :
                 m \notin expiring /\ (media'[m] # None \/ m \in reserved')
      PROVE  IdsInv'
  BY <1>3, <1>4 DEF IdsInv, PurgedIdsAreTaken, Chosen
<1>5. CASE PurgeMedia(p) \/ PurgeRemoteMedia(p)
  <2>1. PICK asked, incl : DoPurge(p, asked, incl)
    BY <1>5 DEF PurgeMedia, PurgeRemoteMedia
  <2>2. /\ UNCHANGED <<media, reserved, expiring>>
        /\ \A q \in Purgers \ {p} : pg'[q].pc = pg[q].pc /\ pg'[q].records = pg[q].records
        /\ \A m \in MediaIds : pg'[p].records[m] # None => pg'[p].records[m] = media[m]
    BY <2>1, BeginEffect
  <2>3. ASSUME NEW q \in Purgers, pg'[q].pc # "idle", NEW m \in Chosen(pg'[q]) \cap LocalIds
        PROVE  m \notin expiring /\ (media[m] # None \/ m \in reserved)
    <3>1. CASE q = p
      BY <1>2, <2>2, <2>3, <3>1 DEF Chosen, HoldLeft, IdExists
    <3>2. CASE q # p
      BY <2>2, <2>3, <3>2 DEF IdsInv, PurgedIdsAreTaken, Chosen
    <3> QED
      BY <3>1, <3>2
  <2> QED
    BY <1>4, <2>2, <2>3 DEF IdsInv
<1>6. CASE PurgeReturns(p)
  <2>1. UNCHANGED <<media, reserved, expiring>> /\ \A q \in Purgers : pg'[q] = NotPurging \/ pg'[q] = pg[q]
    BY <1>2, <1>6 DEF PurgeReturns, storeVars
  <2> QED
    BY <1>4, <2>1, NotPurgingState DEF IdsInv, PurgedIdsAreTaken
<1>7. CASE \/ FlagRecord(p) \/ MarkBeingPurged(p) \/ RemoveMediaFile(p) \/ ReserveId(p) \/ DeleteRecord(p)
           \/ RemoveThumbFile(p) \/ DeleteThumb(p) \/ NextRecord(p)
  <2>1. \A q \in Purgers : pg'[q].pc # "idle" => pg[q].pc # "idle" /\ Chosen(pg'[q]) = Chosen(pg[q])
    BY <1>7, PurgersCarry DEF Carries, Chosen
  <2>2. PICK r : r = pg[p]
    OBVIOUS
  <2>3. CASE ReserveId(p)
    <3>1. /\ r.pc = "reserve" /\ UNCHANGED <<media, expiring>>
          /\ reserved' = IF r.cur \in LocalIds THEN reserved \cup {r.cur} ELSE reserved
      BY <2>2, <2>3 DEF ReserveId
    <3>2. r.cur \in Chosen(r)
      BY <1>2, <2>2, <3>1, Running DEF AtWork, RowsWereRead
    <3>3. expiring \cap reserved' = {}
      BY <2>2, <3>1, <3>2 DEF IdsInv, PurgedIdsAreTaken
    <3> QED
      BY <1>4, <2>1, <3>1, <3>3 DEF IdsInv, PurgedIdsAreTaken
  <2>4. CASE DeleteRecord(p)
    <3>1. r.pc = "delete" /\ UNCHANGED <<reserved, expiring>> /\ (UNCHANGED media \/ media' = [media EXCEPT ![r.cur] = None])
      BY <2>2, <2>4 DEF DeleteRecord, MediaDelete
    <3>2. r.cur \in LocalIds => r.cur \in reserved
      BY <1>2, <2>2, <3>1, Running DEF AtWork
    <3>3. \A m \in LocalIds : media'[m] = media[m] \/ m \in reserved
      BY <1>2, <3>1, <3>2 DEF PurgeInv, PurgeTypeOK, StoreTypeOK, MediaIds
    <3> QED
      BY <1>4, <2>1, <3>1, <3>3 DEF IdsInv, PurgedIdsAreTaken
  <2>5. CASE ~ReserveId(p) /\ ~DeleteRecord(p)
    <3>1. UNCHANGED <<media, reserved, expiring>>
      BY <1>7, <2>5 DEF FlagRecord, MarkBeingPurged, RemoveMediaFile, RemoveThumbFile, DeleteThumb, NextRecord, storeVars
    <3> QED
      BY <1>4, <2>1, <3>1 DEF IdsInv, PurgedIdsAreTaken
  <2> QED
    BY <2>3, <2>4, <2>5
<1> QED
  BY <1>1, <1>5, <1>6, <1>7 DEF PurgerStep

LEMMA IdsNextInv ==
  ASSUME TakeTurns, RepoInv, IdsInv, [RepoNext]_repoVars
  PROVE  IdsInv'
<1>1. ASSUME UNCHANGED <<up, pg, reserved, expiring>>, \A m \in MediaIds : media'[m] = None <=> media[m] = None
      PROVE  IdsInv'
  BY <1>1 DEF IdsInv, UploadsAvoidReserved, PurgedIdsAreTaken, Chosen
<1>2. CASE QuarantinePart
  BY <1>1, <1>2, QuarantineEffect DEF QuarantinePart, uploadVars, purgeVars
<1>3. CASE MigratePart
  <2>1. PICK g \in Migrators : MigrateStep(g)
    BY <1>3 DEF MigratePart
  <2>2. UNCHANGED <<up, pg, reserved, expiring>>
    BY <1>3, <2>1 DEF MigratePart, uploadVars, purgeVars, MigrateStep, MigrateStart, MigrateThumbs, MigrateReturns,
       CopyObject, CopyObjectFails, MoveMediaRows, MoveThumbRows, RemoveSource, MoveFails, MigrateCrash, storeVars
  <2>3. Moves
    BY <1>3, <2>1, MigrationMoves
  <2> QED
    BY <1>1, <2>2, <2>3 DEF Moves, MediaMove
<1>4. CASE UNCHANGED repoVars
  BY <1>1, <1>4 DEF repoVars, storeVars, uploadVars, purgeVars
<1> QED
  BY <1>2, <1>3, <1>4, UploadPartIds, PurgePartIds DEF RepoNext

-----------------------------------------------------------------------------
(* What the users of an ID see. *)

Sees(m) == IF media[m] # None /\ objects[media[m].loc] = media[m].hash THEN media[m].hash ELSE None

Unseen == {m \in LocalIds : media[m] # None /\ Sees(m) = None}

LEMMA Sight ==
  /\ Visible = [m \in MediaIds |-> Sees(m)] /\ Retired = reserved \cup Unseen
  /\ Visible' = [m \in MediaIds |-> Sees(m)'] /\ Retired' = reserved' \cup Unseen'
<1>1. Visible = [m \in MediaIds |-> Sees(m)] /\ \A m \in LocalIds : Visible[m] = Sees(m)
  BY DEF Visible, Sees, IdExists, MediaIds
<1>2. Visible' = [m \in MediaIds |-> Sees(m)'] /\ \A m \in LocalIds : Visible'[m] = Sees(m)'
  BY DEF Visible, Sees, IdExists, MediaIds
<1>3. Retired = reserved \cup Unseen
  BY <1>1 DEF Retired, Unseen, IdExists
<1>4. Retired' = reserved' \cup Unseen'
  BY <1>2 DEF Retired, Unseen, IdExists
<1> QED
  BY <1>1, <1>2, <1>3, <1>4

(* A row is seen if its object is there. *)
LEMMA SeenRows ==
  ASSUME RepoInv, NEW m \in MediaIds, media[m] # None
  PROVE  media[m].loc \in Locations /\ media[m].hash # None /\ (Sees(m) # None <=> objects[media[m].loc] = media[m].hash)
<1>1. media[m] \in DbMedia
  BY DEF RepoInv, RepoTypeOK, UploadTypeOK, StoreTypeOK
<1>2. media[m].loc \in Locations /\ media[m].hash # None
  BY <1>1, ContentAssumption DEF DbMedia
<1> QED
  BY <1>2 DEF Sees

LEMMA Unnoticed ==
  ASSUME \A m \in MediaIds : Sees(m)' = Sees(m) /\ (media'[m] = None <=> media[m] = None), reserved' = reserved
  PROVE  UNCHANGED Service!serviceVars
<1>1. Visible' = Visible
  BY Sight
<1>2. Unseen' = Unseen
  BY DEF Unseen, MediaIds
<1> QED
  BY <1>1, <1>2, Sight DEF Service!serviceVars

LEMMA ContentIsRemoved ==
  ASSUME NEW S \in SUBSET MediaIds, \A m \in MediaIds : Sees(m)' = IF m \in S THEN None ELSE Sees(m),
         reserved' \cup Unseen' = reserved \cup Unseen \cup (S \cap LocalIds)
  PROVE  Service!ServiceNext
<1>1. Visible' = [m \in MediaIds |-> IF m \in S THEN None ELSE Visible[m]] /\ Retired' = Retired \cup (S \cap LocalIds)
  BY Sight
<1>2. Service!Remove(S)
  BY <1>1 DEF Service!Remove, Service!Ids, MediaIds
<1> QED
  BY <1>2 DEF Service!ServiceNext, Service!Ids, MediaIds

-----------------------------------------------------------------------------
(* The steps of the repository, as its users see them. *)

LEMMA SameStoreUnnoticed ==
  ASSUME UNCHANGED <<media, objects, reserved>>
  PROVE  UNCHANGED Service!serviceVars
BY Unnoticed DEF Sees

LEMMA UploadPartRefines ==
  ASSUME TakeTurns, RepoInv, RepoInv', IdsInv, UploadPart
  PROVE  [Service!ServiceNext]_(Service!serviceVars)
<1>1. UploadNext /\ reserved' = reserved
  BY ReservedUntouched DEF UploadPart
<1>2. CASE Purging \/ Migrating
  <2>1. up' = up /\ ~Uploading
    BY <1>2 DEF UploadPart, RepoInv, TurnsAreTaken
  <2> QED
    BY <1>1, <2>1, ChoresOnly, SameStoreUnnoticed
<1>3. CASE ~Purging /\ ~Migrating
  <2>1. PipelineInv /\ PipelineInv' /\ Grows
    BY <1>1, <1>3, PipelineOfRepo, NextPipeline
  <2>2. \A m \in MediaIds : media[m] # None => media'[m] = media[m] /\ Sees(m)' = Sees(m)
    BY <2>1 DEF Grows, Sees
  <2>3. CASE media' = media
    BY <1>1, <2>2, <2>3, Unnoticed DEF Sees
  <2>4. ASSUME NEW u \in Uploaders, InsertDuplicate(u) \/ InsertNew(u) PROVE Service!ServiceNext
    <3>1. PICK m, h : m = up[u].id /\ h = up[u].hash
      OBVIOUS
    <3>2. /\ up[u].pc \in {"insertDup", "insert"} /\ media[m] = None
          /\ media' = [media EXCEPT ![m] = NewRecord(u)] /\ Goto(u, "restrict")
      BY <2>4, <3>1 DEF InsertDuplicate, InsertNew, MediaInsert, IdExists
    <3>3. m \in MediaIds /\ h \in Hashes /\ NewRecord(u).hash = h /\ m \notin reserved
      BY <2>1, <3>1, <3>2 DEF PipelineInv, LocalStateOK, Buffered, NewRecord, IdsInv, UploadsAvoidReserved, BeforeInsert
    <3>4. \A n \in MediaIds : media'[n] = IF n = m THEN NewRecord(u) ELSE media[n]
      BY <3>2, <3>3 DEF RepoInv, RepoTypeOK, UploadTypeOK, StoreTypeOK
    <3>5. media'[m] # None
      <4>1. up'[u].pc = "restrict" /\ up'[u].id = m
        BY <3>1, <3>2, GotoEffect DEF RepoInv, RepoTypeOK
      <4> QED
        BY <2>1, <4>1 DEF PipelineInv, ReturnedRowIsThere, HasRow, IdExists
    <3>6. Sees(m) = None /\ Sees(m)' = h
      BY <2>1, <3>2, <3>3, <3>4, <3>5 DEF Grows, Sees
    <3>7. \A n \in MediaIds \ {m} : Sees(n)' = Sees(n) /\ media'[n] = media[n]
      BY <2>2, <3>4 DEF Sees
    <3>8. Visible[m] = None /\ Visible' = [Visible EXCEPT ![m] = h]
      BY <3>3, <3>6, <3>7, Sight
    <3>9. m \notin Unseen /\ Unseen' = Unseen
      BY <3>2, <3>3, <3>6, <3>7, ContentAssumption DEF Unseen, MediaIds
    <3>10. Service!Publish(m, h)
      BY <1>1, <3>3, <3>8, <3>9, Sight DEF Service!Publish
    <3> QED
      BY <3>3, <3>10 DEF Service!ServiceNext, Service!Ids, MediaIds
  <2> QED
    BY <1>1, <2>3, <2>4, RowsAreInserted
<1> QED
  BY <1>2, <1>3

(* The file of a location goes: whoever shows it shows nothing any more. *)
LEMMA RemoveFileRefines ==
  ASSUME RepoInv, Shrinks, UNCHANGED <<media, reserved>>
  PROVE  Service!ServiceNext
<1>1. PICK S \in SUBSET MediaIds : S = {m \in MediaIds : media[m] # None /\ objects'[media[m].loc] # media[m].hash}
  OBVIOUS
<1>2. ASSUME NEW m \in MediaIds PROVE Sees(m)' = IF m \in S THEN None ELSE Sees(m)
  <2>1. CASE media[m] = None
    BY <1>1, <2>1 DEF Sees
  <2>2. CASE media[m] # None
    <3>1. media[m].loc \in Locations /\ media[m].hash # None
      BY <2>2, SeenRows
    <3>2. objects'[media[m].loc] \in {objects[media[m].loc], None}
      BY <3>1 DEF Shrinks
    <3> QED
      BY <1>1, <2>2, <3>1, <3>2 DEF Sees
  <2> QED
    BY <2>1, <2>2
<1>3. Unseen' = Unseen \cup (S \cap LocalIds)
  <2>1. ASSUME NEW m \in LocalIds PROVE m \in Unseen' <=> m \in Unseen \/ m \in S
    <3>1. m \in MediaIds /\ (m \in S => media[m] # None)
      BY <1>1 DEF MediaIds
    <3>2. Sees(m)' = IF m \in S THEN None ELSE Sees(m)
      BY <1>2, <3>1
    <3>3. m \in Unseen' <=> media[m] # None /\ Sees(m)' = None
      BY DEF Unseen
    <3> QED
      BY <3>1, <3>2, <3>3 DEF Unseen
  <2> QED
    BY <2>1 DEF Unseen
<1> QED
  BY <1>2, <1>3, ContentIsRemoved

LEMMA PurgePartRefines ==
  ASSUME TakeTurns, RepoInv, IdsInv, PurgePart
  PROVE  [Service!ServiceNext]_(Service!serviceVars)
<1>1. PICK p \in Purgers : PurgerStep(p)
  BY DEF PurgePart
<1>2. PICK r : r = pg[p]
  OBVIOUS
<1>3. CASE ReserveId(p)
  <2>1. PICK m : m = r.cur
    OBVIOUS
  <2>2. /\ r.pc = "reserve" /\ UNCHANGED <<media, objects>>
        /\ reserved' = IF m \in LocalIds THEN reserved \cup {m} ELSE reserved
    BY <1>2, <1>3, <2>1 DEF ReserveId
  <2>3. m \in Chosen(r)
    BY <1>2, <2>1, <2>2, Running DEF RepoInv, AtWork, RowsWereRead
  <2>4. CASE m \notin LocalIds \/ m \in reserved
    <3>1. reserved' = reserved
      BY <2>2, <2>4
    <3> QED
      BY <2>2, <3>1, SameStoreUnnoticed
  <2>5. CASE m \in LocalIds \ reserved
    <3>1. media[m] # None
      BY <1>2, <2>2, <2>3, <2>5 DEF IdsInv, PurgedIdsAreTaken
    <3>2. Visible' = Visible /\ Unseen' = Unseen
      BY <2>2, Sight DEF Unseen, Sees
    <3>3. Retired' = Retired \cup {m}
      BY <2>2, <2>5, <3>2, Sight
    <3>4. CASE Sees(m) = None
      <4>1. m \in Retired
        BY <2>5, <3>1, <3>4, Sight DEF Unseen
      <4> QED
        BY <3>2, <3>3, <4>1 DEF Service!serviceVars
    <3>5. CASE Sees(m) # None
      <4>1. Visible[m] # None
        BY <2>5, <3>5, Sight DEF MediaIds
      <4>2. Service!Retire(m)
        BY <3>2, <3>3, <4>1 DEF Service!Retire
      <4> QED
        BY <2>5, <4>2 DEF Service!ServiceNext
    <3> QED
      BY <3>4, <3>5
  <2> QED
    BY <2>4, <2>5
<1>4. CASE DeleteRecord(p)
  <2>1. PICK m : m = r.cur
    OBVIOUS
  <2>2. r.pc = "delete" /\ UNCHANGED <<objects, reserved>> /\ (UNCHANGED media \/ media' = [media EXCEPT ![m] = None])
    BY <1>2, <1>4, <2>1 DEF DeleteRecord, MediaDelete
  <2>3. m \in MediaIds /\ (m \in LocalIds => m \in reserved)
    BY <1>2, <2>1, <2>2, Running DEF RepoInv, AtWork
  <2>4. CASE UNCHANGED media
    BY <2>2, <2>4, SameStoreUnnoticed
  <2>5. CASE media' = [media EXCEPT ![m] = None]
    <3>1. \A n \in MediaIds : media'[n] = IF n = m THEN None ELSE media[n]
      BY <2>3, <2>5 DEF RepoInv, RepoTypeOK, UploadTypeOK, StoreTypeOK
    <3>2. \A n \in MediaIds : Sees(n)' = IF n \in {m} THEN None ELSE Sees(n)
      BY <2>2, <3>1 DEF Sees
    <3>3. \A n \in LocalIds \ {m} : n \in Unseen' <=> n \in Unseen
      BY <3>1, <3>2 DEF Unseen, MediaIds
    <3>4. reserved' \cup Unseen' = reserved \cup Unseen \cup ({m} \cap LocalIds)
      BY <2>2, <2>3, <3>3 DEF Unseen
    <3> QED
      BY <2>3, <3>2, <3>4, ContentIsRemoved
  <2> QED
    BY <2>2, <2>4, <2>5
<1>5. CASE RemoveMediaFile(p)
  <2>1. r.pc = "remove" /\ UNCHANGED <<doomed, media, thumbs, allocated, held, reserved, expiring, restricted>>
    BY <1>2, <1>5 DEF RemoveMediaFile
  <2>2. PICK m \in r.todo : TryRemoveDsFile(p, r.records[m].loc)
    BY <1>2, <1>5 DEF RemoveMediaFile
  <2>3. r.records[m].loc \in r.flagged /\ PurgeInv
    BY <1>2, <2>1, <2>2, Running DEF RepoInv, RowsWereRead, UsersWereRead
  <2>4. Shrinks
    BY <1>2, <2>1, <2>2, <2>3, RemoveFile
  <2> QED
    BY <2>1, <2>4, RemoveFileRefines
<1>6. CASE RemoveThumbFile(p)
  <2>1. r.pc = "thumbs" /\ UNCHANGED <<doomed, media, thumbs, allocated, held, reserved, expiring, restricted>>
    BY <1>2, <1>6 DEF RemoveThumbFile
  <2>2. PICK t \in r.thumbsLeft : TryRemoveDsFile(p, t.loc)
    BY <1>2, <1>6 DEF RemoveThumbFile
  <2>3. t.loc \in r.flagged /\ PurgeInv
    BY <1>2, <2>1, <2>2, Running DEF RepoInv, RowsWereRead, AtWork
  <2>4. Shrinks
    BY <1>2, <2>1, <2>2, <2>3, RemoveFile
  <2> QED
    BY <2>1, <2>4, RemoveFileRefines
<1>7. CASE \/ PurgeMedia(p) \/ PurgeRemoteMedia(p) \/ FlagRecord(p) \/ MarkBeingPurged(p) \/ DeleteThumb(p)
           \/ NextRecord(p) \/ PurgeReturns(p)
  <2>1. UNCHANGED <<media, objects, reserved>>
    BY <1>7 DEF PurgeMedia, PurgeRemoteMedia, DoPurge, FlagRecord, MarkBeingPurged, DeleteThumb, NextRecord,
       PurgeReturns, storeVars
  <2> QED
    BY <2>1, SameStoreUnnoticed
<1> QED
  BY <1>1, <1>3, <1>4, <1>5, <1>6, <1>7 DEF PurgerStep

LEMMA QuarantineUnnoticed ==
  ASSUME RepoInv, QuarantinePart
  PROVE  UNCHANGED Service!serviceVars
<1>1. PICK h \in Hashes : QuarantineMedia(h)
  BY DEF QuarantinePart
<1>2. /\ UNCHANGED <<objects, reserved>>
      /\ \A m \in MediaIds : media'[m] = None <=> media[m] = None
      /\ \A m \in MediaIds : media[m] # None => media'[m].loc = media[m].loc /\ media'[m].hash = media[m].hash
  BY <1>1, QuarantineEffect
<1>3. \A m \in MediaIds : Sees(m)' = Sees(m)
  BY <1>2 DEF Sees
<1> QED
  BY <1>2, <1>3, Unnoticed

LEMMA MigrationUnnoticed ==
  ASSUME RepoInv, MigratePart
  PROVE  UNCHANGED Service!serviceVars
<1>1. PICK g \in Migrators : MigrateStep(g)
  BY DEF MigratePart
<1>2. reserved' = reserved
  BY <1>1 DEF MigrateStep, MigrateStart, MigrateThumbs, MigrateReturns, CopyObject, CopyObjectFails, MoveMediaRows,
     MoveThumbRows, RemoveSource, MoveFails, MigrateCrash, storeVars
<1>3. MediaMove
  BY <1>1, MigrationMoves DEF Moves
<1>4. \A m \in MediaIds : Sees(m)' = Sees(m) /\ (media'[m] = None <=> media[m] = None)
  BY <1>3 DEF MediaMove, Sees
<1> QED
  BY <1>2, <1>4, Unnoticed

(* The whole store keeps the promise of the repository, as long as uploads,   *)
(* purges and migrations take turns: an ID of our own domains whose content a *)
(* purge takes away (purge.go:177-230) is spent and never shows anything      *)
(* again, also when a row stays for its quarantine flag; a file that several  *)
(* IDs share goes for all of them or for none; and nobody notices a migration *)
(* that moves rows and objects in four steps or is cut off between two of     *)
(* them (datastore_migrate.go:73-149).                                        *)
THEOREM RepoImplementsService ==
  ASSUME TakeTurns
  PROVE  RepoSpec => RepoKeepsItsPromise
<1>1. RepoInit => Service!ServiceInit
  BY DEF RepoInit, UploadInit, StoreInit, Service!ServiceInit, Service!Ids, Visible, Retired, MediaIds, IdExists
<1>2. RepoInit => IdsInv
  <2> SUFFICES ASSUME RepoInit PROVE IdsInv
    OBVIOUS
  <2>1. /\ reserved = {} /\ \A p \in Purgers : pg[p].pc = "idle"
    BY NotPurgingState DEF RepoInit, UploadInit, StoreInit
  <2> QED
    BY <2>1 DEF IdsInv, UploadsAvoidReserved, PurgedIdsAreTaken
<1>3. RepoInv /\ IdsInv /\ [RepoNext]_repoVars => IdsInv'
  BY IdsNextInv
<1>4. RepoInv /\ RepoInv' /\ IdsInv /\ [RepoNext]_repoVars => [Service!ServiceNext]_(Service!serviceVars)
  <2> SUFFICES ASSUME RepoInv, RepoInv', IdsInv, [RepoNext]_repoVars
               PROVE  [Service!ServiceNext]_(Service!serviceVars)
    OBVIOUS
  <2>1. CASE UNCHANGED repoVars
    BY <2>1, SameStoreUnnoticed DEF repoVars, storeVars
  <2> QED
    BY <2>1, UploadPartRefines, PurgePartRefines, QuarantineUnnoticed, MigrationUnnoticed DEF RepoNext
<1> QED
  BY <1>1, <1>2, <1>3, <1>4, RepoInvariance, PTL DEF RepoSpec, RepoKeepsItsPromise, Service!ServiceSpec
=============================================================================
