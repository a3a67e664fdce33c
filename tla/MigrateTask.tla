----------------------------- MODULE MigrateTask -----------------------------
(***************************************************************************)
(* Moving the objects of one datastore to another                          *)
(* (tasks/task_runner/datastore_migrate.go).  The task first moves what    *)
(* the media table refers to, then what is left of the thumbnails table,   *)
(* one location after the other: copy the object, point the media rows and *)
(* then the thumbnail rows at the copy, remove the source.  A failure of a *)
(* step is logged and the task continues with the next record.  Two runs   *)
(* of a task overlap when a reload of the configuration starts unfinished  *)
(* tasks again (schedule.go, scheduleUnfinished).                          *)
(***************************************************************************)
EXTENDS MediaStore

CONSTANTS
    Migrators,         \* goroutines that run the task
    TargetLocations    \* the locations of the datastore that is moved to

ASSUME TargetAssumption == TargetLocations \subseteq Locations

VARIABLE mg   \* the local state of each migrator

MigratePcs == {"idle", "media", "thumbs"}
MovePcs == {"next", "updateMedia", "updateThumbs", "removeSource"}

(* A row of the listing; several rows may name the same location. *)
MoveRecord == [id : MediaIds, hash : Hashes, loc : Locations]

MigrateState ==
    [pc : MigratePcs, move : MovePcs,
     todo : SUBSET MoveRecord,                    \* records left of the listing
     cur : MoveRecord \cup {None},
     newLocation : Locations \cup {None}]

NotMigrating == [pc |-> "idle", move |-> "next", todo |-> {}, cur |-> None, newLocation |-> None]

MigrateTypeOK == StoreTypeOK /\ mg \in [Migrators -> MigrateState]

InSource(l) == l \notin TargetLocations

(* GetMediaForDatastoreByLastAccess and GetThumbnailsForDatastoreByLastAccess: *)
(* the rows in the source whose hash was not accessed for long enough.         *)
MovableMedia == {[id |-> m, hash |-> media[m].hash, loc |-> media[m].loc] :
                    m \in {x \in MediaIds : IdExists(x) /\ InSource(media[x].loc)}}
MovableThumbs == {[id |-> t.parent, hash |-> t.hash, loc |-> t.loc] :
                    t \in {x \in thumbs : InSource(x.loc)}}

MigrateStart(g) ==
    /\ mg[g].pc = "idle"
    /\ \E S \in SUBSET MovableMedia :
           mg' = [mg EXCEPT ![g] = [NotMigrating EXCEPT !.pc = "media", !.todo = S]]
    /\ UNCHANGED storeVars

MigrateThumbs(g) ==
    /\ mg[g].pc = "media"
    /\ mg[g].move = "next"
    /\ mg[g].todo = {}
    /\ \E S \in SUBSET MovableThumbs :
           mg' = [mg EXCEPT ![g] = [NotMigrating EXCEPT !.pc = "thumbs", !.todo = S]]
    /\ UNCHANGED storeVars

MigrateReturns(g) ==
    /\ mg[g].pc = "thumbs"
    /\ mg[g].move = "next"
    /\ mg[g].todo = {}
    /\ mg' = [mg EXCEPT ![g] = NotMigrating]
    /\ UNCHANGED storeVars

(* Mutant: the object is moved, not copied. *)
MoveObject(g) ==
    /\ mg[g].move = "next"
    /\ \E r \in mg[g].todo, l \in TargetLocations \ allocated :
           /\ objects[r.loc] = r.hash
           /\ objects' = [objects EXCEPT ![l] = r.hash, ![r.loc] = None]
           /\ allocated' = allocated \cup {l}
           /\ mg' = [mg EXCEPT ![g].move = "updateMedia", ![g].todo = @ \ {r}, ![g].cur = r,
                               ![g].newLocation = l]
    /\ UNCHANGED <<media, thumbs, held, reserved, expiring, restricted>>

(* Download from the source and Upload to the target, which compares the      *)
(* hash of what it wrote.                                                     *)
CopyObject(g) ==
    /\ mg[g].move = "next"
    /\ \E r \in mg[g].todo, l \in TargetLocations :
           /\ objects[r.loc] = r.hash
           /\ StoreObject(l, r.hash)
           /\ mg' = [mg EXCEPT ![g].move = "updateMedia", ![g].todo = @ \ {r}, ![g].cur = r,
                               ![g].newLocation = l]
    /\ UNCHANGED <<media, thumbs, held, reserved, expiring, restricted>>

(* The source is gone or unreadable, or the target cannot be written. *)
CopyObjectFails(g) ==
    /\ mg[g].move = "next"
    /\ \E r \in mg[g].todo : mg' = [mg EXCEPT ![g].todo = @ \ {r}]
    /\ StoreObjectFails(TargetLocations)
    /\ UNCHANGED <<media, thumbs, held, reserved, expiring, restricted>>

(* Mutant: the rows get a location that was never set. *)
MoveMediaRowsNowhere(g) ==
    /\ mg[g].move = "updateMedia"
    /\ MediaUpdateLocation(mg[g].cur.loc, None)
    /\ mg' = [mg EXCEPT ![g].move = "updateThumbs"]
    /\ UNCHANGED <<thumbs, objects, allocated, held, reserved, expiring, restricted>>

MoveMediaRows(g) ==
    /\ mg[g].move = "updateMedia"
    /\ MediaUpdateLocation(mg[g].cur.loc, mg[g].newLocation)
    /\ mg' = [mg EXCEPT ![g].move = "updateThumbs"]
    /\ UNCHANGED <<thumbs, objects, allocated, held, reserved, expiring, restricted>>

MoveThumbRows(g) ==
    /\ mg[g].move = "updateThumbs"
    /\ ThumbUpdateLocation(mg[g].cur.loc, mg[g].newLocation)
    /\ mg' = [mg EXCEPT ![g].move = "removeSource"]
    /\ UNCHANGED <<media, objects, allocated, held, reserved, expiring, restricted>>

(* The location is done: further rows of the listing that name it are skipped. *)
RemoveSource(g) ==
    /\ mg[g].move = "removeSource"
    /\ RemoveObject(mg[g].cur.loc)
    /\ mg' = [mg EXCEPT ![g].move = "next", ![g].cur = None, ![g].newLocation = None,
                        ![g].todo = {r \in @ : r.loc # mg[g].cur.loc}]
    /\ UNCHANGED <<media, thumbs, allocated, held, reserved, expiring, restricted>>

(* An error in a step after the copy: on to the next record, which may name    *)
(* the same location again.                                                    *)
MoveFails(g) ==
    /\ mg[g].move # "next"
    /\ mg' = [mg EXCEPT ![g].move = "next", ![g].cur = None, ![g].newLocation = None]
    /\ UNCHANGED storeVars

(* The process dies; an unfinished task that is not too old starts over. *)
MigrateCrash(g) ==
    /\ mg[g].pc # "idle"
    /\ mg' = [mg EXCEPT ![g] = NotMigrating]
    /\ UNCHANGED storeVars

MigrateStep(g) ==
    \/ MigrateStart(g) \/ MigrateThumbs(g) \/ MigrateReturns(g) \/ CopyObject(g) \/ CopyObjectFails(g)
    \/ MoveMediaRows(g) \/ MoveThumbRows(g) \/ RemoveSource(g) \/ MoveFails(g) \/ MigrateCrash(g)
=============================================================================
