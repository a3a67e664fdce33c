------------------------------ MODULE PurgeTask ------------------------------
(***************************************************************************)
(* Purging media (tasks/task_runner/purge.go, purge_remote_media.go) and   *)
(* quarantining it (quarantine.go).  A purger is a request of the admin    *)
(* API or the hourly task of machine 0; several may run at once, and none  *)
(* takes a lock.  The queries stage 1 makes for one record are one step;   *)
(* in stage 3 every statement and every datastore call is a step of its    *)
(* own, and each may fail, which ends the purge where it stands.           *)
(***************************************************************************)
EXTENDS MediaStore

CONSTANT Purgers

VARIABLES
    pg,      \* the local state of each purger
    doomed   \* history: IDs some purge has set out to remove

purgeVars == <<pg, doomed>>

PurgePcs == {"idle", "flag", "remove", "reserve", "delete", "thumbs", "dropThumb", "done"}

PurgeState ==
    [pc : PurgePcs,
     records : [MediaIds -> DbMedia \cup {None}],      \* rows read before stage 1
     flagMap : [Locations -> SUBSET MediaIds],         \* who uses a location
     flagged : SUBSET Locations,                       \* the keys of flagMap
     thumbsMap : SUBSET DbThumbnail,
     todo : SUBSET MediaIds,
     cur : MediaIds \cup {None},
     thumbsLeft : SUBSET DbThumbnail,
     curThumb : DbThumbnail \cup {None},
     alone : BOOLEAN]                                  \* history: no other purge ran meanwhile

NotPurging ==
    [pc |-> "idle", records |-> [m \in MediaIds |-> None],
     flagMap |-> [l \in Locations |-> {}], flagged |-> {}, thumbsMap |-> {},
     todo |-> {}, cur |-> None, thumbsLeft |-> {}, curThumb |-> None, alone |-> FALSE]

PurgeTypeOK ==
    /\ StoreTypeOK
    /\ pg \in [Purgers -> PurgeState]
    /\ doomed \subseteq MediaIds

ExistingIds == {m \in MediaIds : IdExists(m)}

(* The pre-filter of doPurge. *)
Purgeable(m, includeQuarantined) ==
    /\ media[m].quarantined => includeQuarantined
    /\ m \notin PinnedIds

DoPurge(p, asked, includeQuarantined) ==
    LET chosen == {m \in asked : Purgeable(m, includeQuarantined)} IN
    /\ pg' = [q \in Purgers |->
           IF q # p THEN [pg[q] EXCEPT !.alone = FALSE]
           ELSE [NotPurging EXCEPT
                  !.pc = "flag", !.todo = chosen, !.alone = \A r \in Purgers : pg[r].pc = "idle",
                  !.records = [m \in MediaIds |-> IF m \in chosen THEN media[m] ELSE None]]]
    /\ doomed' = doomed \cup chosen
    /\ UNCHANGED storeVars

(* PurgeMedia: the records an administrator or user asked for. *)
PurgeMedia(p) ==
    /\ pg[p].pc = "idle"
    /\ \E asked \in SUBSET ExistingIds : asked # {} /\ DoPurge(p, asked, TRUE)

(* PurgeRemoteMedia: everything of the hashes that have become old and that no *)
(* media of our own domains uses (the query of GetOldExcluding).               *)
PurgeRemoteMedia(p) ==
    /\ pg[p].pc = "idle"
    /\ \E old \in SUBSET {h \in Hashes : GetByHash(h) # {} /\ GetByHash(h) \cap LocalIds = {}} :
           old # {} /\ DoPurge(p, {m \in ExistingIds : media[m].hash \in old}, FALSE)

(* Stage 1 for one record: who uses its file, which thumbnails it has, who    *)
(* uses theirs.  A location that is already in the map is not read again.     *)
FlagRecord(p) ==
    /\ pg[p].pc = "flag"
    /\ \E m \in pg[p].todo :
         LET mine == GetForMedia(m)
             locs == {pg[p].records[m].loc} \cup {t.loc : t \in mine}
         IN pg' = [pg EXCEPT
               ![p].flagMap = [l \in Locations |->
                    IF l \in locs \ pg[p].flagged
                    THEN GetByLocation(l) \cup ThumbParentsAt(l) ELSE @[l]],
               ![p].flagged = @ \cup locs,
               ![p].thumbsMap = @ \cup mine,
               ![p].todo = @ \ {m}]
    /\ UNCHANGED <<doomed, storeVars>>

Selected(p) == {m \in MediaIds : pg[p].records[m] # None}

(* The entries stage 2 sets to true for a location. *)
BeingPurged(p, l) ==
    {m \in Selected(p) : pg[p].records[m].loc = l}
        \cup {t.parent : t \in {x \in pg[p].thumbsMap : x.loc = l}}

(* Stage 2; "logic error" when a row went away between the reads. *)
MarkBeingPurged(p) ==
    /\ pg[p].pc = "flag"
    /\ pg[p].todo = {}
    /\ pg' = [pg EXCEPT ![p] =
          IF \A l \in pg[p].flagged : BeingPurged(p, l) \subseteq pg[p].flagMap[l]
          THEN [@ EXCEPT !.pc = IF Selected(p) = {} THEN "done" ELSE "remove", !.todo = Selected(p)]
          ELSE NotPurging]
    /\ UNCHANGED <<doomed, storeVars>>

(* Mutants: only a file with a single user may go; every file may. *)
SafeWhenAlone(p, l) == Cardinality(pg[p].flagMap[l]) <= 1
AlwaysSafe(p, l) == TRUE

(* tryRemoveDsFile: the file goes when every record that was found to use it  *)
(* is being purged, else it stays "but no error".  Removing it twice is the   *)
(* same as removing it once, so deletedLocations is left out.                 *)
SafeToRemove(p, l) == pg[p].flagMap[l] \subseteq BeingPurged(p, l)
TryRemoveDsFile(p, l) == IF SafeToRemove(p, l) THEN RemoveObject(l) ELSE UNCHANGED objects

RemoveMediaFile(p) ==
    /\ pg[p].pc = "remove"
    /\ \E m \in pg[p].todo :
           /\ TryRemoveDsFile(p, pg[p].records[m].loc)
           /\ pg' = [pg EXCEPT ![p].pc = "reserve", ![p].cur = m]
    /\ UNCHANGED <<doomed, media, thumbs, allocated, held, reserved, expiring, restricted>>

(* Mutant: the ID is not reserved. *)
ReserveIdForgotten(p) ==
    /\ pg[p].pc = "reserve"
    /\ pg' = [pg EXCEPT ![p].pc = "delete"]
    /\ UNCHANGED <<doomed, storeVars>>

(* Mutant: IDs of other servers are reserved too. *)
ReserveEveryId(p) ==
    /\ pg[p].pc = "reserve"
    /\ reserved' = reserved \cup {pg[p].cur}
    /\ pg' = [pg EXCEPT ![p].pc = "delete"]
    /\ UNCHANGED <<doomed, media, thumbs, objects, allocated, held, expiring, restricted>>

ReserveId(p) ==
    /\ pg[p].pc = "reserve"
    /\ reserved' = IF pg[p].cur \in LocalIds THEN reserved \cup {pg[p].cur} ELSE reserved
    /\ pg' = [pg EXCEPT ![p].pc = "delete"]
    /\ UNCHANGED <<doomed, media, thumbs, objects, allocated, held, expiring, restricted>>

(* A row that was read as quarantined keeps its flag, and stays. *)
DeleteRecord(p) ==
    /\ pg[p].pc = "delete"
    /\ IF pg[p].records[pg[p].cur].quarantined THEN UNCHANGED media ELSE MediaDelete(pg[p].cur)
    /\ pg' = [pg EXCEPT ![p].pc = "thumbs", ![p].todo = @ \ {pg[p].cur},
                        ![p].thumbsLeft = {t \in pg[p].thumbsMap : t.parent = pg[p].cur}]
    /\ UNCHANGED <<doomed, thumbs, objects, allocated, held, reserved, expiring, restricted>>

RemoveThumbFile(p) ==
    /\ pg[p].pc = "thumbs"
    /\ \E t \in pg[p].thumbsLeft :
           /\ TryRemoveDsFile(p, t.loc)
           /\ pg' = [pg EXCEPT ![p].pc = "dropThumb", ![p].curThumb = t]
    /\ UNCHANGED <<doomed, media, thumbs, allocated, held, reserved, expiring, restricted>>

DeleteThumb(p) ==
    /\ pg[p].pc = "dropThumb"
    /\ thumbs' = thumbs \ {pg[p].curThumb}
    /\ pg' = [pg EXCEPT ![p].pc = "thumbs", ![p].curThumb = None,
                        ![p].thumbsLeft = @ \ {pg[p].curThumb}]
    /\ UNCHANGED <<doomed, media, objects, allocated, held, reserved, expiring, restricted>>

NextRecord(p) ==
    /\ pg[p].pc = "thumbs"
    /\ pg[p].thumbsLeft = {}
    /\ pg' = [pg EXCEPT ![p].pc = IF pg[p].todo = {} THEN "done" ELSE "remove"]
    /\ UNCHANGED <<doomed, storeVars>>

(* A query, a statement or a datastore call fails, or the process dies. *)
PurgeFails(p) ==
    /\ pg[p].pc \notin {"idle", "done"}
    /\ pg' = [pg EXCEPT ![p] = NotPurging]
    /\ UNCHANGED <<doomed, storeVars>>

PurgeReturns(p) ==
    /\ pg[p].pc = "done"
    /\ pg' = [pg EXCEPT ![p] = NotPurging]
    /\ UNCHANGED <<doomed, storeVars>>

(* QuarantineMedia for the hash of one record, everywhere or only on the      *)
(* homeserver of the administrator who asks.                                  *)
QuarantineMedia(h) ==
    /\ GetByHash(h) # {}
    /\ \E ids \in {MediaIds, LocalIds} : UpdateQuarantineByHashAndOrigin(ids, h)
    /\ UNCHANGED <<thumbs, objects, allocated, held, reserved, expiring, restricted>>

PurgerStep(p) ==
    \/ PurgeMedia(p) \/ PurgeRemoteMedia(p) \/ FlagRecord(p) \/ MarkBeingPurged(p)
    \/ RemoveMediaFile(p) \/ ReserveId(p) \/ DeleteRecord(p) \/ RemoveThumbFile(p)
    \/ DeleteThumb(p) \/ NextRecord(p) \/ PurgeReturns(p)

PurgeNext ==
    \/ \E p \in Purgers : PurgerStep(p) \/ PurgeFails(p)
    \/ \E h \in Hashes : QuarantineMedia(h) /\ UNCHANGED purgeVars

(* Purging while nothing is uploaded starts from any store that uploads leave *)
(* behind: every row names an object with its content, rows and thumbnails    *)
(* may share objects.                                                         *)
StoreAfterUploads ==
    /\ objects \in [Locations -> Hashes \cup {None}]
    /\ media \in [MediaIds -> {r \in DbMedia : objects[r.loc] = r.hash /\ ~r.quarantined} \cup {None}]
    /\ thumbs \in SUBSET {t \in DbThumbnail : objects[t.loc] = t.hash /\ IdExists(t.parent)}
    /\ allocated = {l \in Locations : objects[l] # None}
    /\ held = {}
    /\ reserved = {}
    /\ expiring = {}
    /\ restricted = {}

PurgeInit ==
    /\ StoreAfterUploads
    /\ pg = [p \in Purgers |-> NotPurging]
    /\ doomed = {}

PurgeSpec == PurgeInit /\ [][PurgeNext]_<<storeVars, purgeVars>>

-----------------------------------------------------------------------------
(* Properties. *)

(* Purges, however many run at once and wherever they fail, only ever take    *)
(* away the content of media they were asked to remove: a file that a row or  *)
(* a thumbnail outside every purge still uses stays (purge.go:177-181).       *)
OnlyDoomedMediaLosesItsFile ==
    /\ \A m \in MediaIds : (IdExists(m) /\ objects[media[m].loc] # media[m].hash) => m \in doomed
    /\ \A t \in thumbs : objects[t.loc] # t.hash => t.parent \in doomed

(* A media ID of our own domains is in media or in reserved_media at every    *)
(* moment once it was used, so GenerateMediaId can never hand it out again:   *)
(* the reservation comes before the delete (purge.go:198-207).                *)
PurgedIdsStayTaken ==
    [][\A m \in LocalIds : (IdExists(m) /\ media'[m] = None) => m \in reserved']_<<storeVars, purgeVars>>

(* A purge that returns without an error has removed every chosen row that it *)
(* did not keep for its quarantine flag, and the thumbnails of them all.      *)
FinishedPurgeIsComplete ==
    \A p \in Purgers : pg[p].pc = "done" =>
        \A m \in Selected(p) :
            /\ GetForMedia(m) = {}
            /\ IdExists(m) => pg[p].records[m].quarantined

(* A purge that returns, and that no other purge has overlapped, has freed    *)
(* every file it touched, except those that a row or a thumbnail still uses.  *)
FinishedPurgeFreesFiles ==
    \A p \in Purgers : (pg[p].pc = "done" /\ pg[p].alone) =>
        \A l \in pg[p].flagged :
            objects[l] = None \/ GetByLocation(l) # {} \/ ThumbParentsAt(l) # {}

(* A purge that returns has done what it said, in the tables (FinishedPurgeIs-   *)
(* Complete) and in the datastores (FinishedPurgeFreesFiles).                    *)
FinishedPurgeIsThorough == FinishedPurgeIsComplete /\ FinishedPurgeFreesFiles
=============================================================================
