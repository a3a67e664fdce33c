--------------------------- MODULE UploadPipeline ---------------------------
(***************************************************************************)
(* The upload pipeline (pipelines/pipeline_upload and its _steps): how a   *)
(* stream becomes a media row and, unless the content is already known, a  *)
(* new object in a datastore.  Uploaders are requests, of any process of   *)
(* the cluster, that run pipeline_upload.Execute:                          *)
(*   "sync"    POST /upload, the media ID is generated;                    *)
(*   "put"     PUT /upload to an ID handed out by POST /create;            *)
(*   "remote"  media downloaded from another server, the ID is given;      *)
(*   "thumb"   a generated thumbnail, stored under a generated ID and then *)
(*             recorded in the thumbnails table.                           *)
(* A step of an uploader ends where another request can interleave: after  *)
(* a database statement, a datastore call or a Redis call.  An error       *)
(* return is possible at each of these calls.                              *)
(***************************************************************************)
EXTENDS MediaStore

CONSTANTS
    Uploaders,             \* concurrent requests
    Anonymous,             \* the owner of remote media and thumbnails ("")
    Dead,                  \* the token of a lock whose holder will not unlock
    UseRedis,              \* FALSE: "Continuing upload without lock!"
    UploadMayOutliveLock,  \* TRUE: an upload may take longer than the lock's TTL
    FreezeUnauthenticatedMedia

ASSUME UploadAssumption ==
    /\ Anonymous \in Owners
    /\ Uploaders \cap {None, Dead} = {}
    /\ None # Dead
    /\ UseRedis \in BOOLEAN
    /\ UploadMayOutliveLock \in BOOLEAN
    /\ FreezeUnauthenticatedMedia \in BOOLEAN

VARIABLES
    up,    \* the local state of each uploader
    lock   \* the Redis mutex of each hash

uploadVars == <<up, lock>>
vars == <<media, thumbs, objects, allocated, held, reserved, expiring, restricted, up, lock>>

Kinds == {"sync", "put", "remote", "thumb"}
Pcs == {"idle", "generate", "check", "lock", "find", "store", "insert", "undo",
        "insertDup", "restrict", "fail", "unlock", "done", "nothing"}

UploadState ==
    [pc : Pcs, kind : Kinds, id : MediaIds \cup {None}, parent : MediaIds \cup {None},
     hash : Hashes \cup {None}, owner : Owners \cup {None},
     loc : Locations \cup {None}, quarantined : BOOLEAN]

(* The arguments of Execute, at the start of a request. *)
Request(pc, kind, id, parent, h, o) ==
    [pc |-> pc, kind |-> kind, id |-> id, parent |-> parent, hash |-> h, owner |-> o,
     loc |-> None, quarantined |-> FALSE]

Idle == Request("idle", "sync", None, None, None, None)

UploadTypeOK ==
    /\ StoreTypeOK
    /\ up \in [Uploaders -> UploadState]
    /\ lock \in [Hashes -> Uploaders \cup {None, Dead}]

UploadInit ==
    /\ StoreInit
    /\ up = [u \in Uploaders |-> Idle]
    /\ lock = [h \in Hashes |-> None]

Goto(u, pc) == up' = [up EXCEPT ![u].pc = pc]
Return(u) == up' = [up EXCEPT ![u] = Idle]

(* Execute was called with an empty media ID. *)
GeneratesId(u) == up[u].kind \in {"sync", "thumb"}

NewRecord(u) == [hash |-> up[u].hash, loc |-> up[u].loc, owner |-> up[u].owner,
                 quarantined |-> up[u].quarantined]

-----------------------------------------------------------------------------
(* The callers of Execute. *)

StartUpload(u) ==
    /\ up[u].pc = "idle"
    /\ \E h \in Hashes, o \in Owners \ {Anonymous} :
           up' = [up EXCEPT ![u] = Request("generate", "sync", None, None, h, o)]
    /\ UNCHANGED <<lock, storeVars>>

(* ExecutePut, steps 1 to 4: no media row yet, an unexpired holding record. *)
StartPut(u) ==
    /\ up[u].pc = "idle"
    /\ \E m \in expiring, h \in Hashes, o \in Owners \ {Anonymous} :
           /\ ~IdExists(m)
           /\ up' = [up EXCEPT ![u] = Request("check", "put", m, None, h, o)]
    /\ UNCHANGED <<lock, storeVars>>

StartRemote(u) ==
    /\ up[u].pc = "idle"
    /\ \E m \in RemoteIds, h \in Hashes :
           /\ ~IdExists(m)
           /\ up' = [up EXCEPT ![u] = Request("check", "remote", m, None, h, Anonymous)]
    /\ UNCHANGED <<lock, storeVars>>

(* Generate: the source can be opened and is not quarantined, and there is   *)
(* no row for the requested parameters yet.                                  *)
StartThumbnail(u) ==
    /\ up[u].pc = "idle"
    /\ \E m \in MediaIds, h \in Hashes :
           /\ IdExists(m)
           /\ ~media[m].quarantined
           /\ objects[media[m].loc] = media[m].hash
           /\ \A t \in GetForMedia(m) : t.hash # h
           /\ up' = [up EXCEPT ![u] = Request("generate", "thumb", None, m, h, Anonymous)]
    /\ UNCHANGED <<lock, storeVars>>

-----------------------------------------------------------------------------
(* Media IDs. *)

(* Mutant: the candidate is looked up, but not put on hold. *)
GenerateMediaIdWithoutHold(u) ==
    /\ up[u].pc = "generate"
    /\ \E m \in LocalIds :
           up' = IF IdExists(m) \/ m \in reserved THEN up
                 ELSE [up EXCEPT ![u].id = m, ![u].pc = "check"]
    /\ UNCHANGED <<lock, storeVars>>

(* One attempt of the loop in GenerateMediaId: the candidate is put on hold,  *)
(* then looked up in media and reserved_media; a hit means another attempt.   *)
(* The lookups are not separate steps: the hold keeps every other generator   *)
(* away from the candidate.                                                   *)
GenerateMediaId(u) ==
    /\ up[u].pc = "generate"
    /\ \E m \in LocalIds \ held :
           /\ held' = held \cup {m}
           /\ up' = IF IdExists(m) \/ m \in reserved THEN up
                    ELSE [up EXCEPT ![u].id = m, ![u].pc = "check"]
    /\ UNCHANGED <<lock, media, thumbs, objects, allocated, reserved, expiring, restricted>>

(* pipeline_create.Execute: POST /create. *)
CreateMedia ==
    /\ \E m \in LocalIds \ held :
           /\ held' = held \cup {m}
           /\ expiring' = IF IdExists(m) \/ m \in reserved THEN expiring ELSE expiring \cup {m}
    /\ UNCHANGED <<up, lock, media, thumbs, objects, allocated, reserved, restricted>>

(* The holding record passes its expires_ts. *)
ExpireCreated ==
    /\ \E m \in expiring : expiring' = expiring \ {m}
    /\ UNCHANGED <<up, lock, media, thumbs, objects, allocated, held, reserved, restricted>>

InFlight(m) == \E u \in Uploaders : up[u].id = m

(* The hourly task drops holds older than seven days.  No request is still    *)
(* running after that long, and no created ID is still waiting (maxAgeSeconds *)
(* is far smaller).                                                           *)
PurgeHeldMediaIds ==
    /\ \E S \in SUBSET {m \in held : ~InFlight(m) /\ m \notin expiring} :
           S # {} /\ held' = held \ S
    /\ UNCHANGED <<up, lock, media, thumbs, objects, allocated, reserved, expiring, restricted>>

-----------------------------------------------------------------------------
(* Execute. *)

(* Any error before the lock is held: no ID after ten attempts or a conflict  *)
(* in media_id_hold, no datastore, a broken or too long stream, spam, over    *)
(* quota, a lock that could not be had in 30 seconds, a cancelled request.    *)
Reject(u) ==
    /\ up[u].pc \in {"generate", "check", "lock"}
    /\ Return(u)
    /\ UNCHANGED <<lock, storeVars>>

(* A spam checker that fails: Execute returns neither a record nor an error   *)
(* ("return nil, err" with the err of BufferTemp, which is nil).              *)
SpamCheckFails(u) ==
    /\ up[u].pc = "check"
    /\ Goto(u, "nothing")
    /\ UNCHANGED <<lock, storeVars>>

(* Mutant: the result of the quarantine check is ignored. *)
CheckQuarantineStatusIgnored(u) ==
    /\ up[u].pc = "check"
    /\ Goto(u, "lock")
    /\ UNCHANGED <<lock, storeVars>>

CheckQuarantineStatus(u) ==
    /\ up[u].pc = "check"
    /\ IF IsHashQuarantined(up[u].hash) THEN Return(u) ELSE Goto(u, "lock")
    /\ UNCHANGED <<lock, storeVars>>

(* Mutant: the upload continues when the lock cannot be had. *)
LockForUploadAnyway(u) ==
    /\ up[u].pc = "lock"
    /\ Goto(u, "find")
    /\ lock' = [lock EXCEPT ![up[u].hash] = IF @ = None THEN u ELSE @]
    /\ UNCHANGED storeVars

(* Without Redis the upload goes on without a lock. *)
LockForUpload(u) ==
    /\ up[u].pc = "lock"
    /\ Goto(u, "find")
    /\ UseRedis => lock[up[u].hash] = None
    /\ lock' = IF UseRedis THEN [lock EXCEPT ![up[u].hash] = u] ELSE lock
    /\ UNCHANGED storeVars

(* FindRecord: the first row of the same hash and owner, else the first row   *)
(* of the hash.  The order of the rows is the database's.  Content types are  *)
(* not compared: the code compares the row's with itself.                     *)
PerfectMatches(u) == {m \in GetByHash(up[u].hash) : media[m].owner = up[u].owner}

FindPerfect(u) ==
    /\ up[u].pc = "find"
    /\ GeneratesId(u)
    /\ \E m \in PerfectMatches(u) :
           up' = [up EXCEPT ![u].pc = "unlock", ![u].id = m, ![u].loc = media[m].loc]
    /\ UNCHANGED <<lock, storeVars>>

(* Mutant: the location of the row that was found is not copied. *)
FindDuplicateWithoutLocation(u) ==
    /\ up[u].pc = "find"
    /\ GeneratesId(u) => PerfectMatches(u) = {}
    /\ \E m \in GetByHash(up[u].hash) :
           up' = [up EXCEPT ![u].pc = "insertDup", ![u].quarantined = media[m].quarantined]
    /\ UNCHANGED <<lock, storeVars>>

FindDuplicate(u) ==
    /\ up[u].pc = "find"
    /\ GeneratesId(u) => PerfectMatches(u) = {}
    /\ \E m \in IF PerfectMatches(u) # {} THEN PerfectMatches(u) ELSE GetByHash(up[u].hash) :
           up' = [up EXCEPT ![u].pc = "insertDup", ![u].loc = media[m].loc,
                            ![u].quarantined = media[m].quarantined]
    /\ UNCHANGED <<lock, storeVars>>

FindNothing(u) ==
    /\ up[u].pc = "find"
    /\ GetByHash(up[u].hash) = {}
    /\ Goto(u, "store")
    /\ UNCHANGED <<lock, storeVars>>

(* The new row shares the object of the row that was found. *)
InsertDuplicate(u) ==
    /\ up[u].pc = "insertDup"
    /\ MediaInsert(up[u].id, NewRecord(u))
    /\ Goto(u, "restrict")
    /\ UNCHANGED <<lock, thumbs, objects, allocated, held, reserved, expiring, restricted>>

StoreUpload(u) ==
    /\ up[u].pc = "store"
    /\ \E l \in Locations :
           /\ StoreObject(l, up[u].hash)
           /\ up' = [up EXCEPT ![u].pc = "insert", ![u].loc = l]
    /\ UNCHANGED <<lock, media, thumbs, held, reserved, expiring, restricted>>

StoreUploadFails(u) ==
    /\ up[u].pc = "store"
    /\ StoreObjectFails(Locations)
    /\ Goto(u, "fail")
    /\ UNCHANGED <<lock, media, thumbs, held, reserved, expiring, restricted>>

InsertNew(u) ==
    /\ up[u].pc = "insert"
    /\ MediaInsert(up[u].id, NewRecord(u))
    /\ Goto(u, "restrict")
    /\ UNCHANGED <<lock, thumbs, objects, allocated, held, reserved, expiring, restricted>>

(* Mutant: the error of the insert is lost. *)
InsertNewFailsUnnoticed(u) ==
    /\ up[u].pc = "insert"
    /\ Goto(u, "restrict")
    /\ UNCHANGED <<lock, storeVars>>

(* The ID was taken by another upload, or the database failed: the object     *)
(* that was just written has to go.                                           *)
InsertNewFails(u) ==
    /\ up[u].pc = "insert"
    /\ Goto(u, "undo")
    /\ UNCHANGED <<lock, storeVars>>

UndoStore(u) ==
    /\ up[u].pc = "undo"
    /\ RemoveObject(up[u].loc) \/ UNCHANGED objects
    /\ Goto(u, "fail")
    /\ UNCHANGED <<lock, media, thumbs, allocated, held, reserved, expiring, restricted>>

(* Mutant: every failed insert cleans up, also that of a duplicate. *)
DatabaseErrorCleansUp(u) ==
    /\ up[u].pc \in {"find", "insertDup"}
    /\ Goto(u, IF up[u].pc = "insertDup" THEN "undo" ELSE "fail")
    /\ UNCHANGED <<lock, storeVars>>

(* A failed lookup or insert while the lock is held. *)
DatabaseError(u) ==
    /\ up[u].pc \in {"find", "insertDup"}
    /\ Goto(u, "fail")
    /\ UNCHANGED <<lock, storeVars>>

(* Mutant: a row that cannot be restricted is deleted again. *)
RestrictOrDelete(u) ==
    /\ up[u].pc = "restrict"
    /\ \/ /\ restricted' = IF FreezeUnauthenticatedMedia
                           THEN restricted \cup {up[u].id} ELSE restricted
          /\ Goto(u, "unlock")
          /\ UNCHANGED media
       \/ /\ FreezeUnauthenticatedMedia
          /\ Goto(u, "fail")
          /\ MediaDelete(up[u].id)
          /\ UNCHANGED restricted
    /\ UNCHANGED <<lock, thumbs, objects, allocated, held, reserved, expiring>>

(* SetMediaRequiresAuth, then uploadDone (last access and notification). *)
Restrict(u) ==
    /\ up[u].pc = "restrict"
    /\ \/ /\ restricted' = IF FreezeUnauthenticatedMedia
                           THEN restricted \cup {up[u].id} ELSE restricted
          /\ Goto(u, "unlock")
       \/ /\ FreezeUnauthenticatedMedia
          /\ Goto(u, "fail")
          /\ UNCHANGED restricted
    /\ UNCHANGED <<lock, media, thumbs, objects, allocated, held, reserved, expiring>>

(* The deferred unlock: Redis releases the mutex only for the token that      *)
(* took it.  When Redis cannot be reached the mutex stays until its TTL.      *)
Unlock(u) ==
    /\ up[u].pc \in {"unlock", "fail"}
    /\ IF lock[up[u].hash] = u
       THEN \E v \in {None, Dead} : lock' = [lock EXCEPT ![up[u].hash] = v]
       ELSE UNCHANGED lock
    /\ IF up[u].pc = "fail" THEN Return(u) ELSE Goto(u, "done")
    /\ UNCHANGED storeVars

(* Step 6 of ExecutePut, whose failure is only logged. *)
DropHold(u) ==
    \/ UNCHANGED expiring
    \/ up[u].kind = "put" /\ expiring' = expiring \ {up[u].id}

(* Execute has returned a record: ExecutePut drops the holding record, the    *)
(* thumbnail pipeline adds its own row, everyone else answers the client.     *)
Finish(u) ==
    /\ up[u].pc = "done"
    /\ Return(u)
    /\ DropHold(u)
    /\ \/ up[u].kind # "thumb" /\ UNCHANGED thumbs
       \/ /\ up[u].kind = "thumb"
          /\ \/ ThumbInsert([parent |-> up[u].parent, hash |-> up[u].hash, loc |-> up[u].loc])
             \/ UNCHANGED thumbs
    /\ UNCHANGED <<lock, media, objects, allocated, held, reserved, restricted>>

(* Execute has returned nothing: ExecutePut takes that for success, everyone  *)
(* else fails on the missing record.                                          *)
FinishNothing(u) ==
    /\ up[u].pc = "nothing"
    /\ Return(u)
    /\ DropHold(u)
    /\ UNCHANGED <<lock, media, thumbs, objects, allocated, held, reserved, restricted>>

(* The process dies, and nothing deferred runs. *)
Crash(u) ==
    /\ up[u].pc # "idle"
    /\ Return(u)
    /\ lock' = [h \in Hashes |-> IF lock[h] = u THEN Dead ELSE lock[h]]
    /\ UNCHANGED storeVars

(* The mutex reaches its TTL of five minutes. *)
LockExpires(h) ==
    /\ lock[h] = Dead \/ (UploadMayOutliveLock /\ lock[h] \in Uploaders)
    /\ lock' = [lock EXCEPT ![h] = None]
    /\ UNCHANGED <<up, storeVars>>

UploaderStep(u) ==
    \/ StartUpload(u) \/ StartPut(u) \/ StartRemote(u) \/ StartThumbnail(u)
    \/ GenerateMediaId(u) \/ Reject(u) \/ SpamCheckFails(u) \/ CheckQuarantineStatus(u)
    \/ LockForUpload(u) \/ FindPerfect(u) \/ FindDuplicate(u) \/ FindNothing(u) \/ InsertDuplicate(u)
    \/ StoreUpload(u) \/ StoreUploadFails(u) \/ InsertNew(u) \/ InsertNewFails(u)
    \/ UndoStore(u) \/ DatabaseError(u) \/ Restrict(u) \/ Unlock(u)
    \/ Finish(u) \/ FinishNothing(u) \/ Crash(u)

UploadNext ==
    \/ \E u \in Uploaders : UploaderStep(u)
    \/ \E h \in Hashes : LockExpires(h)
    \/ CreateMedia \/ ExpireCreated \/ PurgeHeldMediaIds

UploadSpec == UploadInit /\ [][UploadNext]_vars

-----------------------------------------------------------------------------
(* Properties. *)

(* Every media row and every thumbnail row names an object that holds exactly *)
(* the content of the row's hash: no insert is ahead of the datastore, and no *)
(* clean-up of a failed insert (pipeline.go:176) takes away an object that    *)
(* another upload has found through a row and shares.                         *)
NoDanglingRow ==
    /\ \A m \in MediaIds : IdExists(m) => objects[media[m].loc] = media[m].hash
    /\ \A t \in thumbs : objects[t.loc] = t.hash

(* While the lock of a hash cannot run out under a running upload, all media  *)
(* rows of a hash share one object (upload_suite_test.go:232 "only one copy   *)
(* of the file was uploaded each time"): lookup, store and insert of two      *)
(* uploads of the same content never interleave.                              *)
OneCopyPerHash ==
    \A m, n \in MediaIds :
        (IdExists(m) /\ IdExists(n) /\ media[m].hash = media[n].hash) => media[m].loc = media[n].loc

(* What Execute hands back to its caller is a row with the uploaded content,  *)
(* also when deduplication returns the row of an earlier upload.              *)
ReturnedMediaIsStored ==
    \A u \in Uploaders : up[u].pc = "done" =>
        /\ IdExists(up[u].id)
        /\ media[up[u].id].hash = up[u].hash
        /\ objects[up[u].loc] = up[u].hash

(* Two requests never work under the same generated media ID, and a created   *)
(* ID that still waits for its PUT is not handed out a second time: the hold  *)
(* in media_id_hold comes before the lookups (generate_media_id.go:30).       *)
GeneratedIdsAreExclusive ==
    \A u \in Uploaders :
        (GeneratesId(u) /\ up[u].pc \in {"check", "lock", "find", "store", "insert"}) =>
            /\ up[u].id \notin expiring
            /\ ~IdExists(up[u].id)
            /\ \A v \in Uploaders \ {u} : up[v].id # up[u].id

(* The pipeline implements the promise of the repository to the users of an   *)
(* ID: a row becomes visible together with its whole content, and no later    *)
(* upload, retry, failure or crash changes what an ID shows.                  *)
UploadsAreAtomic == Service!ServiceSpec

(* A PUT that reports success, and drops the holding record of its ID, has    *)
(* done the upload: pipeline2.go:41 "Step 5: Do the upload" before            *)
(* pipeline2.go:47 "Step 6: Delete the holding record".                       *)
SuccessfulPutIsStored ==
    \A u \in Uploaders : (up[u].kind = "put" /\ up[u].pc \in {"done", "nothing"}) => IdExists(up[u].id)
=============================================================================
