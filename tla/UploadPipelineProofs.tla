------------------------ MODULE UploadPipelineProofs ------------------------
(***************************************************************************)
(* Proofs about the upload pipeline, for any number of uploaders, media    *)
(* IDs, hashes and locations, with and without Redis: a row never points   *)
(* at content that is not there, whoever fails or crashes where; and what  *)
(* uploads that run at the same time share, objects (with Redis, and as    *)
(* long as no upload takes longer than its lock lives, all rows of a hash  *)
(* share one) and IDs (a generated ID belongs to one request, whoever else *)
(* generates, creates, uploads to or forgets IDs).                         *)
(***************************************************************************)
EXTENDS UploadPipeline, TLAPS

-----------------------------------------------------------------------------
(* The inductive invariant, in named parts. *)

(* What an uploader knows at each of its program counters. *)
Buffered == {"check", "lock", "find", "store", "insert", "undo", "insertDup",
             "restrict", "fail", "unlock", "done", "nothing"}
OwnsObject == {"insert", "undo"}
SharesObject == {"insertDup", "restrict", "unlock", "done"}
HasRow == {"restrict", "unlock", "done"}

LocalStateOK ==
    \A u \in Uploaders :
        /\ up[u].pc # "idle" => up[u].hash \in Hashes /\ up[u].owner \in Owners
        /\ up[u].pc \in Buffered => up[u].id \in MediaIds
        /\ up[u].pc # "idle" /\ up[u].kind = "thumb" => up[u].parent \in MediaIds
        /\ up[u].pc \in OwnsObject \cup SharesObject => up[u].loc \in Locations
        /\ up[u].loc # None => up[u].loc \in allocated

(* Object names are used once: everything that exists was allocated. *)
ObjectsAllocated == \A l \in Locations : objects[l] # None => l \in allocated

(* A fresh object belongs to the uploader that wrote it until its row exists. *)
FreshObjectIsPrivate ==
    \A u \in Uploaders : up[u].pc \in OwnsObject =>
        /\ objects[up[u].loc] = up[u].hash
        /\ \A m \in MediaIds : IdExists(m) => media[m].loc # up[u].loc
        /\ \A t \in thumbs : t.loc # up[u].loc
        /\ \A v \in Uploaders \ {u} : up[v].loc # up[u].loc

(* An object that was found through a row stays what it was. *)
SharedObjectIsThere ==
    \A u \in Uploaders : up[u].pc \in SharesObject => objects[up[u].loc] = up[u].hash

ReturnedRowIsThere ==
    \A u \in Uploaders : up[u].pc \in HasRow =>
        IdExists(up[u].id) /\ media[up[u].id].hash = up[u].hash

(* Beside uploads, purges may take away what rows name, but nothing else ever  *)
(* gets its name; a row that lost its object is quarantined, so that ...       *)
RowsAreSound ==
    /\ \A m \in MediaIds : IdExists(m) => media[m].loc \in allocated /\ objects[media[m].loc] \in {media[m].hash, None}
    /\ \A t \in thumbs : t.loc \in allocated /\ objects[t.loc] \in {t.hash, None}

LostIsQuarantined ==
    /\ \A m \in MediaIds : IdExists(m) => objects[media[m].loc] = media[m].hash \/ media[m].quarantined
    /\ \A t \in thumbs : objects[t.loc] = t.hash

(* ... the quarantine check keeps uploads from sharing what is gone. *)
Checked == {"lock", "find"}
WholeHash(h) == \A m \in GetByHash(h) : objects[media[m].loc] = h
CheckedHashIsWhole == \A u \in Uploaders : up[u].pc \in Checked => WholeHash(up[u].hash)

PipelineInv ==
    /\ UploadTypeOK
    /\ LocalStateOK
    /\ ObjectsAllocated
    /\ RowsAreSound
    /\ LostIsQuarantined
    /\ FreshObjectIsPrivate
    /\ SharedObjectIsThere
    /\ CheckedHashIsWhole
    /\ ReturnedRowIsThere

(* Without purges nothing is lost. *)
StorageInv == PipelineInv /\ NoDanglingRow

(* What a step of the pipeline does to the store: rows stay as they are and    *)
(* keep their objects, and what is new names an object that is there.          *)
Grows ==
    /\ allocated \subseteq allocated'
    /\ \A m \in MediaIds : media[m] # None => media'[m] = media[m] /\ objects'[media[m].loc] = objects[media[m].loc]
    /\ \A m \in MediaIds : (media[m] = None /\ media'[m] # None) =>
           media'[m].loc \in allocated' /\ objects'[media'[m].loc] = media'[m].hash
    /\ \A t \in thumbs : t \in thumbs' /\ objects'[t.loc] = objects[t.loc]
    /\ \A t \in thumbs' \ thumbs : t.loc \in allocated' /\ objects'[t.loc] = t.hash

-----------------------------------------------------------------------------

(* An empty store with idle uploaders. *)
LEMMA InitStorage == UploadInit => StorageInv
<1> SUFFICES ASSUME UploadInit PROVE StorageInv
  OBVIOUS
<1>1. UploadTypeOK
  BY DEF UploadInit, StoreInit, UploadTypeOK, StoreTypeOK, UploadState, Idle, Request, Pcs, Kinds
<1>2. LocalStateOK /\ FreshObjectIsPrivate /\ SharedObjectIsThere /\ CheckedHashIsWhole /\ ReturnedRowIsThere
  BY DEF UploadInit, Idle, Request, LocalStateOK, FreshObjectIsPrivate, SharedObjectIsThere,
         CheckedHashIsWhole, ReturnedRowIsThere, Buffered, OwnsObject, SharesObject, Checked, HasRow
<1>3. ObjectsAllocated /\ NoDanglingRow /\ RowsAreSound /\ LostIsQuarantined
  BY DEF UploadInit, StoreInit, ObjectsAllocated, NoDanglingRow, RowsAreSound, LostIsQuarantined, IdExists
<1> QED
  BY <1>1, <1>2, <1>3 DEF StorageInv, PipelineInv

(* The rows of a store that grows stay sound. *)
LEMMA GrowingIsSound ==
  ASSUME RowsAreSound, LostIsQuarantined, Grows
  PROVE  RowsAreSound' /\ LostIsQuarantined' /\ (NoDanglingRow => NoDanglingRow')
<1>1. ASSUME NEW m \in MediaIds, IdExists(m)'
      PROVE  /\ media'[m].loc \in allocated' /\ objects'[media'[m].loc] \in {media'[m].hash, None}
             /\ objects'[media'[m].loc] = media'[m].hash \/ media'[m].quarantined
             /\ NoDanglingRow => objects'[media'[m].loc] = media'[m].hash
  <2>1. CASE media[m] = None
    BY <1>1, <2>1 DEF Grows, IdExists
  <2>2. CASE media[m] # None
    BY <1>1, <2>2 DEF Grows, IdExists, RowsAreSound, LostIsQuarantined, NoDanglingRow
  <2> QED
    BY <2>1, <2>2
<1>2. ASSUME NEW t \in thumbs' PROVE t.loc \in allocated' /\ objects'[t.loc] = t.hash
  BY <1>2 DEF Grows, RowsAreSound, LostIsQuarantined
<1>3. RowsAreSound'
  BY <1>1, <1>2 DEF RowsAreSound
<1>4. LostIsQuarantined'
  BY <1>1, <1>2 DEF LostIsQuarantined
<1>5. NoDanglingRow => NoDanglingRow'
  BY <1>1, <1>2 DEF NoDanglingRow
<1> QED
  BY <1>3, <1>4, <1>5

(* When an uploader may go to state s while rows and objects stay as they are. *)
Fits(u, s) ==
    /\ s \in UploadState
    /\ s.pc # "idle" => s.hash \in Hashes /\ s.owner \in Owners
    /\ s.pc \in Buffered => s.id \in MediaIds
    /\ s.pc # "idle" /\ s.kind = "thumb" => s.parent \in MediaIds
    /\ s.pc \in OwnsObject \cup SharesObject => s.loc \in Locations
    /\ s.loc # None =>
         /\ s.loc \in allocated
         /\ s.loc = up[u].loc \/ \E m \in MediaIds : IdExists(m) /\ media[m].loc = s.loc
    /\ s.pc \in OwnsObject => up[u].pc \in OwnsObject /\ s.loc = up[u].loc /\ s.hash = up[u].hash
    /\ s.pc \in SharesObject => objects[s.loc] = s.hash
    /\ s.pc \in Checked => WholeHash(s.hash)
    /\ s.pc \in HasRow => IdExists(s.id) /\ media[s.id].hash = s.hash

(* A step of one uploader that leaves rows and objects alone preserves the     *)
(* invariant when the new local state agrees with the store.                   *)
LEMMA LocalStep ==
  ASSUME PipelineInv, NEW u \in Uploaders, NEW s, Fits(u, s),
         up' = [up EXCEPT ![u] = s],
         StoreTypeOK', lock' \in [Hashes -> Uploaders \cup {None, Dead}],
         UNCHANGED <<media, thumbs, objects, allocated>>
  PROVE  PipelineInv'
<1>1. UploadTypeOK'
  BY DEF PipelineInv, UploadTypeOK, Fits
<1>2. \A v \in Uploaders : up'[v] = IF v = u THEN s ELSE up[v]
  BY DEF PipelineInv, UploadTypeOK
<1>3. LocalStateOK'
  BY <1>2 DEF PipelineInv, LocalStateOK, Fits
<1>4. ObjectsAllocated' /\ RowsAreSound' /\ LostIsQuarantined'
  BY DEF PipelineInv, ObjectsAllocated, RowsAreSound, LostIsQuarantined, IdExists
<1>7. CheckedHashIsWhole'
  BY <1>2 DEF PipelineInv, CheckedHashIsWhole, WholeHash, GetByHash, IdExists, Fits
<1>5. FreshObjectIsPrivate'
  <2> SUFFICES ASSUME NEW w \in Uploaders, up'[w].pc \in OwnsObject
               PROVE  /\ objects[up'[w].loc] = up'[w].hash
                      /\ \A m \in MediaIds : IdExists(m) => media[m].loc # up'[w].loc
                      /\ \A t \in thumbs : t.loc # up'[w].loc
                      /\ \A v \in Uploaders \ {w} : up'[v].loc # up'[w].loc
    BY DEF FreshObjectIsPrivate, IdExists
  <2>1. /\ up[w].pc \in OwnsObject
        /\ up[w].loc \in Locations
        /\ up'[w].loc = up[w].loc /\ up'[w].hash = up[w].hash
    BY <1>2 DEF PipelineInv, LocalStateOK, Fits
  <2>2. /\ objects[up[w].loc] = up[w].hash
        /\ \A n \in MediaIds : IdExists(n) => media[n].loc # up[w].loc
        /\ \A t \in thumbs : t.loc # up[w].loc
        /\ \A v \in Uploaders \ {w} : up[v].loc # up[w].loc
    BY <2>1 DEF PipelineInv, FreshObjectIsPrivate
  <2>3. ASSUME NEW v \in Uploaders \ {w} PROVE up'[v].loc # up[w].loc
    <3>1. CASE v # u
      BY <1>2, <2>2, <3>1
    <3>2. CASE v = u
      BY <1>2, <2>1, <2>2, <3>2, IdsAssumption DEF Fits
    <3> QED
      BY <3>1, <3>2
  <2> QED
    BY <2>1, <2>2, <2>3
<1>6. SharedObjectIsThere' /\ ReturnedRowIsThere'
  BY <1>2 DEF PipelineInv, SharedObjectIsThere, ReturnedRowIsThere, Fits, IdExists
<1> QED
  BY <1>1, <1>3, <1>4, <1>5, <1>6, <1>7 DEF PipelineInv

(* Such a step that only moves the program counter. *)
LEMMA GotoStep ==
  ASSUME PipelineInv, NEW u \in Uploaders, NEW pc \in Buffered, Goto(u, pc),
         up[u].pc \in Buffered,
         pc \in OwnsObject => up[u].pc \in OwnsObject,
         pc \in SharesObject => up[u].pc \in SharesObject,
         pc \in Checked => WholeHash(up[u].hash),
         pc \in HasRow => up[u].pc \in HasRow,
         StoreTypeOK', lock' \in [Hashes -> Uploaders \cup {None, Dead}],
         UNCHANGED <<media, thumbs, objects, allocated>>
  PROVE  PipelineInv'
<1> DEFINE s == [up[u] EXCEPT !.pc = pc]
<1>1. up[u] \in UploadState
  BY DEF PipelineInv, UploadTypeOK
<1>2. /\ s \in UploadState
      /\ s.pc = pc /\ s.kind = up[u].kind /\ s.id = up[u].id /\ s.parent = up[u].parent
      /\ s.hash = up[u].hash /\ s.owner = up[u].owner /\ s.loc = up[u].loc
  BY <1>1 DEF UploadState, Pcs, Buffered
<1>3. up' = [up EXCEPT ![u] = s]
  BY DEF Goto
<1>4. Fits(u, s)
  <2> HIDE DEF s
  <2>1. up[u].pc # "idle" /\ s.pc # "idle"
    BY <1>2 DEF Buffered
  <2> QED
    BY <1>2, <2>1 DEF Fits, PipelineInv, LocalStateOK, SharedObjectIsThere, ReturnedRowIsThere
<1> HIDE DEF s
<1> QED
  BY <1>3, <1>4, LocalStep

(* Such a step that ends the request. *)
LEMMA ReturnStep ==
  ASSUME PipelineInv, NEW u \in Uploaders, Return(u),
         StoreTypeOK', lock' \in [Hashes -> Uploaders \cup {None, Dead}],
         UNCHANGED <<media, thumbs, objects, allocated>>
  PROVE  PipelineInv'
<1>1. up' = [up EXCEPT ![u] = Idle]
  BY DEF Return
<1>2. Fits(u, Idle)
  BY DEF Fits, Idle, Request, UploadState, Pcs, Kinds, Buffered, OwnsObject, SharesObject, Checked, HasRow
<1> QED
  BY <1>1, <1>2, LocalStep

(* A request begins. *)
LEMMA StartStep ==
  ASSUME PipelineInv, NEW u \in Uploaders,
         StartUpload(u) \/ StartPut(u) \/ StartRemote(u) \/ StartThumbnail(u)
  PROVE  PipelineInv'
<1>1. /\ StoreTypeOK /\ UNCHANGED <<lock, storeVars>>
      /\ lock \in [Hashes -> Uploaders \cup {None, Dead}]
  BY DEF PipelineInv, UploadTypeOK, StartUpload, StartPut, StartRemote, StartThumbnail
<1>2. StoreTypeOK' /\ UNCHANGED <<lock, media, thumbs, objects, allocated>>
  BY <1>1 DEF StoreTypeOK, storeVars
<1>3. ASSUME NEW pc \in {"generate", "check"}, NEW kind \in Kinds, NEW id \in MediaIds \cup {None},
             NEW parent \in MediaIds \cup {None}, NEW h \in Hashes, NEW o \in Owners,
             pc = "check" => id \in MediaIds, kind = "thumb" => parent \in MediaIds
      PROVE  Fits(u, Request(pc, kind, id, parent, h, o))
  BY <1>3 DEF Request, Fits, UploadState, Pcs, Buffered, OwnsObject, SharesObject, Checked, HasRow
<1>4. CASE StartUpload(u)
  <2>1. PICK h \in Hashes, o \in Owners \ {Anonymous} :
          up' = [up EXCEPT ![u] = Request("generate", "sync", None, None, h, o)]
    BY <1>4 DEF StartUpload
  <2>2. Fits(u, Request("generate", "sync", None, None, h, o))
    BY <1>3 DEF Kinds
  <2> QED
    BY <1>1, <1>2, <2>1, <2>2, LocalStep
<1>5. CASE StartPut(u)
  <2>1. PICK m \in expiring, h \in Hashes, o \in Owners \ {Anonymous} :
          up' = [up EXCEPT ![u] = Request("check", "put", m, None, h, o)]
    BY <1>5 DEF StartPut
  <2>2. Fits(u, Request("check", "put", m, None, h, o))
    BY <1>1, <1>3 DEF Kinds, StoreTypeOK, MediaIds
  <2> QED
    BY <1>1, <1>2, <2>1, <2>2, LocalStep
<1>6. CASE StartRemote(u)
  <2>1. PICK m \in RemoteIds, h \in Hashes :
          up' = [up EXCEPT ![u] = Request("check", "remote", m, None, h, Anonymous)]
    BY <1>6 DEF StartRemote
  <2>2. Fits(u, Request("check", "remote", m, None, h, Anonymous))
    BY <1>3, UploadAssumption DEF Kinds, MediaIds
  <2> QED
    BY <1>1, <1>2, <2>1, <2>2, LocalStep
<1>7. CASE StartThumbnail(u)
  <2>1. PICK m \in MediaIds, h \in Hashes :
          up' = [up EXCEPT ![u] = Request("generate", "thumb", None, m, h, Anonymous)]
    BY <1>7 DEF StartThumbnail
  <2>2. Fits(u, Request("generate", "thumb", None, m, h, Anonymous))
    BY <1>3, UploadAssumption DEF Kinds
  <2> QED
    BY <1>1, <1>2, <2>1, <2>2, LocalStep
<1> QED
  BY <1>4, <1>5, <1>6, <1>7

(* Steps that touch neither an uploader nor a row or object. *)
LEMMA QuietStep ==
  ASSUME PipelineInv, StoreTypeOK', lock' \in [Hashes -> Uploaders \cup {None, Dead}],
         UNCHANGED <<up, media, thumbs, objects, allocated>>
  PROVE  PipelineInv'
<1>1. RowsAreSound' /\ LostIsQuarantined' /\ CheckedHashIsWhole'
  BY DEF PipelineInv, RowsAreSound, LostIsQuarantined, CheckedHashIsWhole, WholeHash, GetByHash, IdExists
<1> QED
  BY <1>1 DEF PipelineInv, UploadTypeOK, LocalStateOK, ObjectsAllocated, FreshObjectIsPrivate, SharedObjectIsThere,
     ReturnedRowIsThere, IdExists

(* One attempt of GenerateMediaId (generate_media_id.go:18-55). *)
LEMMA GenerateStep ==
  ASSUME PipelineInv, NEW u \in Uploaders, GenerateMediaId(u)
  PROVE  PipelineInv'
<1>1. PICK m \in LocalIds \ held :
        /\ held' = held \cup {m}
        /\ up' = IF IdExists(m) \/ m \in reserved THEN up
                 ELSE [up EXCEPT ![u].id = m, ![u].pc = "check"]
  BY DEF GenerateMediaId
<1>2. StoreTypeOK' /\ lock' \in [Hashes -> Uploaders \cup {None, Dead}]
  BY <1>1 DEF PipelineInv, UploadTypeOK, StoreTypeOK, GenerateMediaId
<1>3. UNCHANGED <<media, thumbs, objects, allocated>> /\ up[u].pc = "generate"
  BY DEF GenerateMediaId
<1>4. CASE up' = up
  BY <1>2, <1>3, <1>4, QuietStep
<1>5. CASE up' = [up EXCEPT ![u].id = m, ![u].pc = "check"]
  <2> DEFINE s == [up[u] EXCEPT !.id = m, !.pc = "check"]
  <2>1. up[u] \in UploadState
    BY DEF PipelineInv, UploadTypeOK
  <2>2. /\ s \in UploadState
        /\ s.pc = "check" /\ s.kind = up[u].kind /\ s.id = m /\ s.parent = up[u].parent
        /\ s.hash = up[u].hash /\ s.owner = up[u].owner /\ s.loc = up[u].loc
    BY <2>1 DEF UploadState, Pcs, MediaIds
  <2>3. up' = [up EXCEPT ![u] = s]
    BY <1>5, <2>1 DEF PipelineInv, UploadTypeOK, UploadState
  <2> HIDE DEF s
  <2>4. Fits(u, s)
    BY <1>3, <2>2 DEF Fits, PipelineInv, LocalStateOK, MediaIds, OwnsObject, SharesObject, Checked, HasRow
  <2> QED
    BY <1>2, <1>3, <2>3, <2>4, LocalStep
<1> QED
  BY <1>1, <1>4, <1>5

(* Steps before the lock, and the lock itself. *)
LEMMA CheckStep ==
  ASSUME PipelineInv, NEW u \in Uploaders,
         \/ Reject(u) \/ SpamCheckFails(u) \/ CheckQuarantineStatus(u) \/ LockForUpload(u)
  PROVE  PipelineInv'
<1>1. /\ StoreTypeOK /\ UNCHANGED storeVars
      /\ lock \in [Hashes -> Uploaders \cup {None, Dead}]
  BY DEF PipelineInv, UploadTypeOK, Reject, SpamCheckFails, CheckQuarantineStatus, LockForUpload
<1>2. StoreTypeOK' /\ UNCHANGED <<media, thumbs, objects, allocated>>
  BY <1>1 DEF StoreTypeOK, storeVars
<1>3. CASE Reject(u)
  BY <1>1, <1>2, <1>3, ReturnStep DEF Reject
<1>4. CASE SpamCheckFails(u)
  BY <1>1, <1>2, <1>4, GotoStep
     DEF SpamCheckFails, Buffered, OwnsObject, SharesObject, Checked, HasRow
<1>5. CASE CheckQuarantineStatus(u)
  <2>1. CASE Return(u)
    BY <1>1, <1>2, <1>5, <2>1, ReturnStep DEF CheckQuarantineStatus
  <2>2. CASE ~IsHashQuarantined(up[u].hash) /\ Goto(u, "lock")
    <3>1. WholeHash(up[u].hash)
      BY <2>2 DEF WholeHash, IsHashQuarantined, GetByHash, PipelineInv, LostIsQuarantined
    <3> QED
      BY <1>1, <1>2, <1>5, <2>2, <3>1, GotoStep
         DEF CheckQuarantineStatus, Buffered, OwnsObject, SharesObject, Checked, HasRow
  <2> QED
    BY <1>5, <2>1, <2>2 DEF CheckQuarantineStatus
<1>6. CASE LockForUpload(u)
  <2>1. lock' \in [Hashes -> Uploaders \cup {None, Dead}]
    BY <1>1, <1>6 DEF LockForUpload
  <2>2. WholeHash(up[u].hash)
    BY <1>6 DEF LockForUpload, PipelineInv, CheckedHashIsWhole, Checked
  <2> QED
    BY <1>2, <1>6, <2>1, <2>2, GotoStep DEF LockForUpload, Buffered, OwnsObject, SharesObject, Checked, HasRow
<1> QED
  BY <1>3, <1>4, <1>5, <1>6

(* The lookup of the hash, with its three outcomes. *)
LEMMA FindStep ==
  ASSUME PipelineInv, NEW u \in Uploaders, FindPerfect(u) \/ FindDuplicate(u) \/ FindNothing(u)
  PROVE  PipelineInv'
<1>1. /\ StoreTypeOK /\ UNCHANGED <<lock, storeVars>> /\ up[u].pc = "find"
      /\ lock \in [Hashes -> Uploaders \cup {None, Dead}]
  BY DEF PipelineInv, UploadTypeOK, FindPerfect, FindDuplicate, FindNothing
<1>2. StoreTypeOK' /\ UNCHANGED <<lock, media, thumbs, objects, allocated>>
  BY <1>1 DEF StoreTypeOK, storeVars
<1>3. up[u] \in UploadState /\ up[u].hash \in Hashes /\ up[u].owner \in Owners
  BY <1>1 DEF PipelineInv, UploadTypeOK, LocalStateOK
<1>4. ASSUME NEW m \in GetByHash(up[u].hash)
      PROVE  /\ m \in MediaIds /\ IdExists(m) /\ media[m].hash = up[u].hash
             /\ media[m].loc \in Locations /\ media[m].quarantined \in BOOLEAN
             /\ objects[media[m].loc] = up[u].hash
             /\ media[m].loc \in allocated
  <2>1. m \in MediaIds /\ IdExists(m) /\ media[m].hash = up[u].hash
    BY DEF GetByHash
  <2>2. media[m] \in DbMedia
    BY <1>1, <2>1 DEF StoreTypeOK, IdExists
  <2>3. objects[media[m].loc] = up[u].hash
    BY <1>1 DEF PipelineInv, CheckedHashIsWhole, WholeHash, Checked
  <2>4. media[m].loc \in allocated
    BY <1>3, <2>2, <2>3, ContentAssumption DEF DbMedia, PipelineInv, ObjectsAllocated
  <2> QED
    BY <2>1, <2>2, <2>3, <2>4 DEF DbMedia
<1>5. CASE FindPerfect(u)
  <2>1. PICK m \in PerfectMatches(u) :
          up' = [up EXCEPT ![u].pc = "unlock", ![u].id = m, ![u].loc = media[m].loc]
    BY <1>5 DEF FindPerfect
  <2> DEFINE s == [up[u] EXCEPT !.pc = "unlock", !.id = m, !.loc = media[m].loc]
  <2>2. m \in GetByHash(up[u].hash)
    BY DEF PerfectMatches
  <2>3. /\ s \in UploadState
        /\ s.pc = "unlock" /\ s.kind = up[u].kind /\ s.id = m /\ s.parent = up[u].parent
        /\ s.hash = up[u].hash /\ s.owner = up[u].owner /\ s.loc = media[m].loc
    BY <1>3, <1>4, <2>2 DEF UploadState, Pcs
  <2>4. up' = [up EXCEPT ![u] = s]
    BY <1>3, <2>1 DEF PipelineInv, UploadTypeOK, UploadState
  <2> HIDE DEF s
  <2>5. Fits(u, s)
    BY <1>1, <1>3, <1>4, <2>2, <2>3
       DEF Fits, PipelineInv, LocalStateOK, OwnsObject, SharesObject, Checked, HasRow
  <2> QED
    BY <1>1, <1>2, <2>4, <2>5, LocalStep
<1>6. CASE FindDuplicate(u)
  <2>1. PICK m \in GetByHash(up[u].hash) :
          up' = [up EXCEPT ![u].pc = "insertDup", ![u].loc = media[m].loc,
                           ![u].quarantined = media[m].quarantined]
    BY <1>6 DEF FindDuplicate, PerfectMatches
  <2> DEFINE s == [up[u] EXCEPT !.pc = "insertDup", !.loc = media[m].loc,
                                !.quarantined = media[m].quarantined]
  <2>3. /\ s \in UploadState
        /\ s.pc = "insertDup" /\ s.kind = up[u].kind /\ s.id = up[u].id /\ s.parent = up[u].parent
        /\ s.hash = up[u].hash /\ s.owner = up[u].owner /\ s.loc = media[m].loc
    BY <1>3, <1>4 DEF UploadState, Pcs
  <2>4. up' = [up EXCEPT ![u] = s]
    BY <1>3, <2>1 DEF PipelineInv, UploadTypeOK, UploadState
  <2>5. up[u].id \in MediaIds /\ (up[u].kind = "thumb" => up[u].parent \in MediaIds)
    BY <1>1 DEF PipelineInv, LocalStateOK, Buffered
  <2> HIDE DEF s
  <2>6. Fits(u, s)
    BY <1>1, <1>3, <1>4, <2>3, <2>5 DEF Fits, OwnsObject, SharesObject, Checked, HasRow
  <2> QED
    BY <1>1, <1>2, <2>4, <2>6, LocalStep
<1>7. CASE FindNothing(u)
  BY <1>1, <1>2, <1>7, GotoStep DEF FindNothing, Buffered, OwnsObject, SharesObject, Checked, HasRow
<1> QED
  BY <1>5, <1>6, <1>7

(* Errors after the lock, the restriction, the unlock, and the way out. *)
LEMMA EndStep ==
  ASSUME PipelineInv, NEW u \in Uploaders,
         \/ InsertNewFails(u) \/ DatabaseError(u) \/ Restrict(u) \/ Unlock(u)
         \/ FinishNothing(u) \/ Crash(u)
  PROVE  PipelineInv'
<1>1. StoreTypeOK /\ lock \in [Hashes -> Uploaders \cup {None, Dead}] /\ up[u] \in UploadState
  BY DEF PipelineInv, UploadTypeOK
<1>2. UNCHANGED <<media, thumbs, objects, allocated>>
  BY DEF InsertNewFails, DatabaseError, Restrict, Unlock, FinishNothing, Crash, storeVars
<1>3. CASE InsertNewFails(u)
  <2>1. StoreTypeOK' /\ lock' = lock
    BY <1>1, <1>3 DEF InsertNewFails, StoreTypeOK, storeVars
  <2> QED
    BY <1>1, <1>2, <1>3, <2>1, GotoStep DEF InsertNewFails, Buffered, OwnsObject, SharesObject, Checked, HasRow
<1>4. CASE DatabaseError(u)
  <2>1. StoreTypeOK' /\ lock' = lock
    BY <1>1, <1>4 DEF DatabaseError, StoreTypeOK, storeVars
  <2> QED
    BY <1>1, <1>2, <1>4, <2>1, GotoStep DEF DatabaseError, Buffered, OwnsObject, SharesObject, Checked, HasRow
<1>5. CASE Restrict(u)
  <2>1. up[u].id \in MediaIds
    BY <1>5 DEF Restrict, PipelineInv, LocalStateOK, Buffered
  <2>2. StoreTypeOK' /\ lock' = lock
    BY <1>1, <1>5, <2>1 DEF Restrict, StoreTypeOK
  <2>3. CASE Goto(u, "unlock")
    BY <1>1, <1>2, <1>5, <2>2, <2>3, GotoStep DEF Restrict, Buffered, OwnsObject, SharesObject, Checked, HasRow
  <2>4. CASE Goto(u, "fail")
    BY <1>1, <1>2, <1>5, <2>2, <2>4, GotoStep DEF Restrict, Buffered, OwnsObject, SharesObject, Checked, HasRow
  <2> QED
    BY <1>5, <2>3, <2>4 DEF Restrict
<1>6. CASE Unlock(u)
  <2>1. StoreTypeOK' /\ lock' \in [Hashes -> Uploaders \cup {None, Dead}]
    BY <1>1, <1>6 DEF Unlock, StoreTypeOK, storeVars
  <2>2. CASE Return(u)
    BY <1>2, <2>1, <2>2, ReturnStep
  <2>3. CASE up[u].pc = "unlock" /\ Goto(u, "done")
    BY <1>2, <2>1, <2>3, GotoStep DEF Buffered, OwnsObject, SharesObject, Checked, HasRow
  <2> QED
    BY <1>6, <2>2, <2>3 DEF Unlock
<1>7. CASE FinishNothing(u)
  <2>1. StoreTypeOK' /\ lock' = lock
    BY <1>1, <1>7 DEF FinishNothing, DropHold, StoreTypeOK
  <2> QED
    BY <1>1, <1>2, <1>7, <2>1, ReturnStep DEF FinishNothing
<1>8. CASE Crash(u)
  <2>1. StoreTypeOK' /\ lock' \in [Hashes -> Uploaders \cup {None, Dead}]
    BY <1>1, <1>8 DEF Crash, StoreTypeOK, storeVars
  <2> QED
    BY <1>2, <1>8, <2>1, ReturnStep DEF Crash
<1> QED
  BY <1>3, <1>4, <1>5, <1>6, <1>7, <1>8

(* A new row, for a fresh object or for one that was found. *)
LEMMA InsertStep ==
  ASSUME PipelineInv, NEW u \in Uploaders, InsertDuplicate(u) \/ InsertNew(u)
  PROVE  PipelineInv' /\ Grows
<1> DEFINE s == [up[u] EXCEPT !.pc = "restrict"]
           m == up[u].id
           row == NewRecord(u)
<1>1. /\ up[u].pc \in {"insertDup", "insert"}
      /\ media[m] = None
      /\ media' = [media EXCEPT ![m] = row]
      /\ up' = [up EXCEPT ![u] = s]
      /\ UNCHANGED <<lock, thumbs, objects, allocated, held, reserved, expiring, restricted>>
  BY DEF InsertDuplicate, InsertNew, MediaInsert, IdExists, Goto
<1>2. up[u] \in UploadState /\ StoreTypeOK /\ lock \in [Hashes -> Uploaders \cup {None, Dead}]
  BY DEF PipelineInv, UploadTypeOK
<1>3. /\ m \in MediaIds /\ up[u].hash \in Hashes /\ up[u].owner \in Owners
      /\ up[u].loc \in Locations /\ up[u].quarantined \in BOOLEAN
      /\ up[u].kind = "thumb" => up[u].parent \in MediaIds
      /\ up[u].loc # None => up[u].loc \in allocated
  BY <1>1, <1>2 DEF PipelineInv, LocalStateOK, Buffered, OwnsObject, SharesObject, UploadState
<1>4. objects[up[u].loc] = up[u].hash
  BY <1>1 DEF PipelineInv, FreshObjectIsPrivate, SharedObjectIsThere, OwnsObject, SharesObject
<1>5. row \in DbMedia /\ row.hash = up[u].hash /\ row.loc = up[u].loc /\ row # None
  <2>1. row \in DbMedia /\ row.hash = up[u].hash /\ row.loc = up[u].loc
    BY <1>3 DEF NewRecord, DbMedia
  <2>2. row # None
    BY <2>1, NoneIsNoRow DEF DbMedia
  <2> QED
    BY <2>1, <2>2
<1>6. /\ s \in UploadState
      /\ s.pc = "restrict" /\ s.kind = up[u].kind /\ s.id = m /\ s.parent = up[u].parent
      /\ s.hash = up[u].hash /\ s.owner = up[u].owner /\ s.loc = up[u].loc
  BY <1>2 DEF UploadState, Pcs
<1> HIDE DEF s, m, row
<1>7. \A v \in Uploaders : up'[v] = IF v = u THEN s ELSE up[v]
  BY <1>1 DEF PipelineInv, UploadTypeOK
<1>8. \A n \in MediaIds : media'[n] = IF n = m THEN row ELSE media[n]
  BY <1>1, <1>2 DEF StoreTypeOK
<1>9. UploadTypeOK'
  BY <1>1, <1>2, <1>3, <1>5, <1>6 DEF PipelineInv, UploadTypeOK, StoreTypeOK
<1>10. LocalStateOK'
  BY <1>1, <1>3, <1>6, <1>7 DEF PipelineInv, LocalStateOK, Buffered, OwnsObject, SharesObject
<1>11. ObjectsAllocated'
  BY <1>1 DEF PipelineInv, ObjectsAllocated
<1>15. Grows
  <2>1. up[u].loc \in allocated
    BY <1>3, IdsAssumption
  <2> QED
    BY <1>1, <1>3, <1>4, <1>5, <1>8, <2>1 DEF Grows
<1>16. RowsAreSound' /\ LostIsQuarantined'
  BY <1>15, GrowingIsSound DEF PipelineInv
<1>17. CheckedHashIsWhole'
  <2> SUFFICES ASSUME NEW w \in Uploaders, up'[w].pc \in Checked, NEW n \in MediaIds,
                      media'[n] # None, media'[n].hash = up'[w].hash
               PROVE  objects'[media'[n].loc] = up'[w].hash
    BY DEF CheckedHashIsWhole, WholeHash, GetByHash, IdExists
  <2>1. w # u /\ up'[w] = up[w] /\ up[w].pc \in Checked
    BY <1>6, <1>7 DEF Checked
  <2>2. CASE n = m
    BY <1>1, <1>4, <1>5, <1>8, <2>1, <2>2
  <2>3. CASE n # m
    BY <1>1, <1>8, <2>1, <2>3 DEF PipelineInv, CheckedHashIsWhole, WholeHash, GetByHash, IdExists
  <2> QED
    BY <2>2, <2>3
<1>12. FreshObjectIsPrivate'
  <2> SUFFICES ASSUME NEW w \in Uploaders, up'[w].pc \in OwnsObject
               PROVE  /\ objects[up'[w].loc] = up'[w].hash
                      /\ \A n \in MediaIds : media'[n] # None => media'[n].loc # up'[w].loc
                      /\ \A t \in thumbs : t.loc # up'[w].loc
                      /\ \A v \in Uploaders \ {w} : up'[v].loc # up'[w].loc
    BY <1>1 DEF FreshObjectIsPrivate, IdExists
  <2>1. w # u /\ up'[w] = up[w] /\ up[w].pc \in OwnsObject
    BY <1>6, <1>7 DEF OwnsObject
  <2>2. /\ objects[up[w].loc] = up[w].hash
        /\ \A n \in MediaIds : IdExists(n) => media[n].loc # up[w].loc
        /\ \A t \in thumbs : t.loc # up[w].loc
        /\ \A v \in Uploaders \ {w} : up[v].loc # up[w].loc
    BY <2>1 DEF PipelineInv, FreshObjectIsPrivate
  <2>3. up[u].loc # up[w].loc
    BY <2>1, <2>2
  <2>4. \A n \in MediaIds : media'[n] # None => media'[n].loc # up[w].loc
    BY <1>5, <1>8, <2>2, <2>3 DEF IdExists
  <2> QED
    BY <1>6, <1>7, <2>1, <2>2, <2>3, <2>4
<1>13. SharedObjectIsThere'
  BY <1>1, <1>4, <1>6, <1>7 DEF PipelineInv, SharedObjectIsThere
<1>14. ReturnedRowIsThere'
  BY <1>1, <1>3, <1>5, <1>6, <1>7, <1>8 DEF PipelineInv, ReturnedRowIsThere, LocalStateOK, HasRow,
     Buffered, IdExists
<1> QED
  BY <1>9, <1>10, <1>11, <1>12, <1>13, <1>14, <1>15, <1>16, <1>17 DEF PipelineInv

(* Everything the invariant speaks of that already exists has an allocated    *)
(* name, so a write to a new name disturbs nothing.                           *)
LEMMA ReferencedIsAllocated ==
  ASSUME PipelineInv
  PROVE  /\ \A m \in MediaIds : IdExists(m) => media[m].loc \in Locations \cap allocated
         /\ \A t \in thumbs : t.loc \in Locations \cap allocated
<1>1. ASSUME NEW m \in MediaIds, IdExists(m) PROVE media[m].loc \in Locations \cap allocated
  <2>1. media[m] \in DbMedia
    BY <1>1 DEF PipelineInv, UploadTypeOK, StoreTypeOK, IdExists
  <2> QED
    BY <1>1, <2>1 DEF DbMedia, PipelineInv, RowsAreSound
<1>2. ASSUME NEW t \in thumbs PROVE t.loc \in Locations \cap allocated
  <2>1. t \in DbThumbnail
    BY DEF PipelineInv, UploadTypeOK, StoreTypeOK
  <2> QED
    BY <2>1 DEF DbThumbnail, PipelineInv, RowsAreSound
<1> QED
  BY <1>1, <1>2

(* A write to the datastore, complete or cut short. *)
LEMMA StoreStep ==
  ASSUME PipelineInv, NEW u \in Uploaders, StoreUpload(u) \/ StoreUploadFails(u)
  PROVE  PipelineInv' /\ Grows
<1>1. /\ up[u].pc = "store" /\ up[u] \in UploadState
      /\ up[u].hash \in Hashes /\ up[u].owner \in Owners /\ up[u].id \in MediaIds
      /\ up[u].kind = "thumb" => up[u].parent \in MediaIds
      /\ StoreTypeOK /\ lock \in [Hashes -> Uploaders \cup {None, Dead}]
      /\ UNCHANGED <<lock, media, thumbs, held, reserved, expiring, restricted>>
  BY DEF StoreUpload, StoreUploadFails, PipelineInv, UploadTypeOK, LocalStateOK, Buffered
<1>2. CASE UNCHANGED <<objects, allocated>> /\ Goto(u, "fail")
  <2>1. StoreTypeOK' /\ Grows
    BY <1>1, <1>2 DEF StoreTypeOK, Grows
  <2> QED
    BY <1>1, <1>2, <2>1, GotoStep DEF Buffered, OwnsObject, SharesObject, Checked, HasRow
<1>3. ASSUME NEW l \in Locations, NEW c \in {up[u].hash, Partial}, NEW s, StoreObject(l, c),
             up' = [up EXCEPT ![u] = s],
             \/ c = up[u].hash /\ s = [up[u] EXCEPT !.pc = "insert", !.loc = l]
             \/ s = [up[u] EXCEPT !.pc = "fail"]
      PROVE  PipelineInv' /\ Grows
  <2>1. /\ s \in UploadState /\ s.pc \in {"insert", "fail"}
        /\ s.kind = up[u].kind /\ s.id = up[u].id /\ s.parent = up[u].parent
        /\ s.hash = up[u].hash /\ s.owner = up[u].owner
        /\ s.pc = "insert" => s.loc = l /\ c = up[u].hash
        /\ s.loc = l \/ s.loc = up[u].loc
    <3>1. CASE c = up[u].hash /\ s = [up[u] EXCEPT !.pc = "insert", !.loc = l]
      BY <1>1, <3>1 DEF UploadState, Pcs
    <3>2. CASE s = [up[u] EXCEPT !.pc = "fail"]
      BY <1>1, <3>2 DEF UploadState, Pcs
    <3> QED
      BY <1>3, <3>1, <3>2
  <2>2. /\ l \notin allocated /\ allocated' = allocated \cup {l}
        /\ objects' = [objects EXCEPT ![l] = c]
    BY <1>3 DEF StoreObject
  <2>3. \A k \in Locations : objects'[k] = IF k = l THEN c ELSE objects[k]
    BY <1>1, <2>2 DEF StoreTypeOK
  <2>4. \A v \in Uploaders : up'[v] = IF v = u THEN s ELSE up[v]
    BY <1>3 DEF PipelineInv, UploadTypeOK
  <2>5. \A v \in Uploaders : up[v].loc # None => up[v].loc \in allocated
    BY DEF PipelineInv, LocalStateOK
  <2>6. UploadTypeOK'
    BY <1>1, <1>3, <2>1, <2>2 DEF PipelineInv, UploadTypeOK, StoreTypeOK
  <2>7. LocalStateOK'
    BY <1>1, <2>1, <2>2, <2>4 DEF PipelineInv, LocalStateOK, Buffered, OwnsObject, SharesObject
  <2>8. ObjectsAllocated'
    BY <2>2, <2>3 DEF PipelineInv, ObjectsAllocated
  <2>9. Grows
    BY <1>1, <2>2, <2>3, ReferencedIsAllocated DEF Grows, IdExists
  <2>13. RowsAreSound' /\ LostIsQuarantined'
    BY <2>9, GrowingIsSound DEF PipelineInv
  <2>14. CheckedHashIsWhole'
    <3>1. \A w \in Uploaders : up'[w].pc \in Checked => up'[w] = up[w]
      BY <2>1, <2>4 DEF Checked
    <3> QED
      BY <1>1, <2>9, <3>1 DEF PipelineInv, CheckedHashIsWhole, WholeHash, GetByHash, IdExists, Grows
  <2>10. FreshObjectIsPrivate'
    <3> SUFFICES ASSUME NEW w \in Uploaders, up'[w].pc \in OwnsObject
                 PROVE  /\ objects'[up'[w].loc] = up'[w].hash
                        /\ \A m \in MediaIds : IdExists(m) => media[m].loc # up'[w].loc
                        /\ \A t \in thumbs : t.loc # up'[w].loc
                        /\ \A v \in Uploaders \ {w} : up'[v].loc # up'[w].loc
      BY <1>1 DEF FreshObjectIsPrivate, IdExists
    <3>1. CASE w = u
      <4>1. up'[w] = s /\ s.pc = "insert" /\ s.loc = l /\ c = s.hash
        BY <2>1, <2>4, <3>1 DEF OwnsObject
      <4>2. \A v \in Uploaders \ {w} : up'[v].loc # l
        BY <2>2, <2>4, <2>5, <3>1, IdsAssumption
      <4> QED
        BY <2>2, <2>3, <4>1, <4>2, ReferencedIsAllocated
    <3>2. CASE w # u
      <4>1. up'[w] = up[w] /\ up[w].pc \in OwnsObject
        BY <2>4, <3>2
      <4>2. /\ objects[up[w].loc] = up[w].hash
            /\ \A m \in MediaIds : IdExists(m) => media[m].loc # up[w].loc
            /\ \A t \in thumbs : t.loc # up[w].loc
            /\ \A v \in Uploaders \ {w} : up[v].loc # up[w].loc
        BY <4>1 DEF PipelineInv, FreshObjectIsPrivate
      <4>3. up[w].loc \in Locations /\ up[w].loc # l
        BY <2>2, <2>5, <4>1, IdsAssumption DEF PipelineInv, LocalStateOK
      <4> QED
        BY <2>1, <2>3, <2>4, <3>2, <4>1, <4>2, <4>3
    <3> QED
      BY <3>1, <3>2
  <2>11. SharedObjectIsThere'
    <3> SUFFICES ASSUME NEW w \in Uploaders, up'[w].pc \in SharesObject
                 PROVE  objects'[up'[w].loc] = up'[w].hash
      BY DEF SharedObjectIsThere
    <3>1. w # u /\ up'[w] = up[w]
      BY <2>1, <2>4 DEF SharesObject
    <3>2. up[w].loc \in Locations /\ up[w].loc # l
      BY <2>2, <2>5, <3>1, IdsAssumption DEF PipelineInv, LocalStateOK
    <3> QED
      BY <2>3, <3>1, <3>2 DEF PipelineInv, SharedObjectIsThere
  <2>12. ReturnedRowIsThere'
    BY <1>1, <2>1, <2>4 DEF PipelineInv, ReturnedRowIsThere, HasRow, IdExists
  <2> QED
    BY <2>6, <2>7, <2>8, <2>9, <2>10, <2>11, <2>12, <2>13, <2>14 DEF PipelineInv
<1>4. CASE StoreUpload(u)
  <2>1. PICK l \in Locations : StoreObject(l, up[u].hash)
                               /\ up' = [up EXCEPT ![u].pc = "insert", ![u].loc = l]
    BY <1>4 DEF StoreUpload
  <2>2. up' = [up EXCEPT ![u] = [up[u] EXCEPT !.pc = "insert", !.loc = l]]
    BY <1>1, <2>1 DEF PipelineInv, UploadTypeOK, UploadState
  <2> QED
    BY <1>3, <2>1, <2>2
<1>5. CASE StoreUploadFails(u)
  BY <1>2, <1>3, <1>5 DEF StoreUploadFails, StoreObjectFails, Goto
<1> QED
  BY <1>4, <1>5

(* The clean-up after a failed insert removes an object nobody else knows. *)
LEMMA UndoStep ==
  ASSUME PipelineInv, NEW u \in Uploaders, UndoStore(u)
  PROVE  PipelineInv' /\ Grows
<1>1. /\ up[u].pc = "undo" /\ StoreTypeOK /\ Goto(u, "fail")
      /\ lock \in [Hashes -> Uploaders \cup {None, Dead}]
      /\ UNCHANGED <<lock, media, thumbs, allocated, held, reserved, expiring, restricted>>
  BY DEF UndoStore, PipelineInv, UploadTypeOK
<1>2. CASE UNCHANGED objects
  <2>1. StoreTypeOK' /\ Grows
    BY <1>1, <1>2 DEF StoreTypeOK, Grows
  <2> QED
    BY <1>1, <1>2, <2>1, GotoStep DEF Buffered, OwnsObject, SharesObject, Checked, HasRow
<1>3. CASE RemoveObject(up[u].loc)
  <2> DEFINE l == up[u].loc
             s == [up[u] EXCEPT !.pc = "fail"]
  <2>1. /\ l \in Locations /\ (l # None => l \in allocated)
        /\ \A m \in MediaIds : IdExists(m) => media[m].loc # l
        /\ \A t \in thumbs : t.loc # l
        /\ \A v \in Uploaders \ {u} : up[v].loc # l
    BY <1>1 DEF PipelineInv, LocalStateOK, FreshObjectIsPrivate, OwnsObject
  <2>2. \A k \in Locations : objects'[k] = IF k = l THEN None ELSE objects[k]
    BY <1>1, <1>3 DEF RemoveObject, StoreTypeOK
  <2>3. /\ s \in UploadState
        /\ s.pc = "fail" /\ s.kind = up[u].kind /\ s.id = up[u].id /\ s.parent = up[u].parent
        /\ s.hash = up[u].hash /\ s.owner = up[u].owner /\ s.loc = l
    BY DEF PipelineInv, UploadTypeOK, UploadState, Pcs
  <2>4. up' = [up EXCEPT ![u] = s]
    BY <1>1 DEF Goto
  <2> HIDE DEF l, s
  <2>5. \A v \in Uploaders : up'[v] = IF v = u THEN s ELSE up[v]
    BY <2>4 DEF PipelineInv, UploadTypeOK
  <2>6. UploadTypeOK'
    BY <1>1, <1>3, <2>1, <2>3, <2>4 DEF PipelineInv, UploadTypeOK, StoreTypeOK, RemoveObject
  <2>7. LocalStateOK'
    BY <1>1, <2>1, <2>3, <2>5 DEF PipelineInv, LocalStateOK, Buffered, OwnsObject, SharesObject
  <2>8. ObjectsAllocated'
    BY <1>1, <2>2 DEF PipelineInv, ObjectsAllocated
  <2>9. Grows
    BY <1>1, <2>1, <2>2, ReferencedIsAllocated DEF Grows, IdExists
  <2>13. RowsAreSound' /\ LostIsQuarantined'
    BY <2>9, GrowingIsSound DEF PipelineInv
  <2>14. CheckedHashIsWhole'
    <3>1. \A w \in Uploaders : up'[w].pc \in Checked => up'[w] = up[w]
      BY <2>3, <2>5 DEF Checked
    <3> QED
      BY <1>1, <2>9, <3>1 DEF PipelineInv, CheckedHashIsWhole, WholeHash, GetByHash, IdExists, Grows
  <2>10. FreshObjectIsPrivate'
    <3> SUFFICES ASSUME NEW w \in Uploaders, up'[w].pc \in OwnsObject
                 PROVE  /\ objects'[up'[w].loc] = up'[w].hash
                        /\ \A m \in MediaIds : IdExists(m) => media[m].loc # up'[w].loc
                        /\ \A t \in thumbs : t.loc # up'[w].loc
                        /\ \A v \in Uploaders \ {w} : up'[v].loc # up'[w].loc
      BY <1>1 DEF FreshObjectIsPrivate, IdExists
    <3>1. w # u /\ up'[w] = up[w] /\ up[w].pc \in OwnsObject
      BY <2>3, <2>5 DEF OwnsObject
    <3>2. /\ objects[up[w].loc] = up[w].hash
          /\ \A m \in MediaIds : IdExists(m) => media[m].loc # up[w].loc
          /\ \A t \in thumbs : t.loc # up[w].loc
          /\ \A v \in Uploaders \ {w} : up[v].loc # up[w].loc
      BY <3>1 DEF PipelineInv, FreshObjectIsPrivate
    <3>3. up[w].loc \in Locations /\ up[w].loc # l
      BY <2>1, <3>1 DEF PipelineInv, LocalStateOK
    <3> QED
      BY <2>2, <2>3, <2>5, <3>1, <3>2, <3>3
  <2>11. SharedObjectIsThere'
    <3> SUFFICES ASSUME NEW w \in Uploaders, up'[w].pc \in SharesObject
                 PROVE  objects'[up'[w].loc] = up'[w].hash
      BY DEF SharedObjectIsThere
    <3>1. w # u /\ up'[w] = up[w]
      BY <2>3, <2>5 DEF SharesObject
    <3>2. up[w].loc \in Locations /\ up[w].loc # l
      BY <2>1, <3>1 DEF PipelineInv, LocalStateOK
    <3> QED
      BY <2>2, <3>1, <3>2 DEF PipelineInv, SharedObjectIsThere
  <2>12. ReturnedRowIsThere'
    BY <1>1, <2>3, <2>5 DEF PipelineInv, ReturnedRowIsThere, HasRow, IdExists
  <2> QED
    BY <2>6, <2>7, <2>8, <2>9, <2>10, <2>11, <2>12, <2>13, <2>14 DEF PipelineInv
<1> QED
  BY <1>2, <1>3 DEF UndoStore

(* The caller of Execute goes on; a thumbnail gets its row. *)
LEMMA FinishStep ==
  ASSUME PipelineInv, NEW u \in Uploaders, Finish(u)
  PROVE  PipelineInv' /\ Grows
<1>1. /\ up[u].pc = "done" /\ StoreTypeOK /\ Return(u)
      /\ lock \in [Hashes -> Uploaders \cup {None, Dead}]
      /\ UNCHANGED <<lock, media, objects, allocated, held, reserved, restricted>>
      /\ expiring' \subseteq expiring
  BY DEF Finish, DropHold, PipelineInv, UploadTypeOK
<1>2. CASE UNCHANGED thumbs
  <2>1. StoreTypeOK' /\ Grows
    BY <1>1, <1>2 DEF StoreTypeOK, Grows
  <2> QED
    BY <1>1, <1>2, <2>1, ReturnStep
<1>3. CASE up[u].kind = "thumb" /\
           ThumbInsert([parent |-> up[u].parent, hash |-> up[u].hash, loc |-> up[u].loc])
  <2> DEFINE t0 == [parent |-> up[u].parent, hash |-> up[u].hash, loc |-> up[u].loc]
  <2>1. /\ t0 \in DbThumbnail /\ t0.loc = up[u].loc /\ t0.hash = up[u].hash
        /\ objects[t0.loc] = t0.hash
    BY <1>1, <1>3 DEF PipelineInv, LocalStateOK, SharedObjectIsThere, SharesObject, DbThumbnail
  <2>2. thumbs' = thumbs \cup {t0}
    BY <1>3 DEF ThumbInsert
  <2>3. up' = [up EXCEPT ![u] = Idle]
    BY <1>1 DEF Return
  <2>4. Idle \in UploadState /\ Idle.pc = "idle" /\ Idle.loc = None
    BY DEF Idle, Request, UploadState, Pcs, Kinds
  <2>5. \A v \in Uploaders : up'[v] = IF v = u THEN Idle ELSE up[v]
    BY <2>3 DEF PipelineInv, UploadTypeOK
  <2> HIDE DEF t0
  <2>6. UploadTypeOK'
    BY <1>1, <2>1, <2>2, <2>3, <2>4 DEF PipelineInv, UploadTypeOK, StoreTypeOK
  <2>7. LocalStateOK'
    BY <1>1, <2>4, <2>5 DEF PipelineInv, LocalStateOK, Buffered, OwnsObject, SharesObject
  <2>8. ObjectsAllocated' /\ Grows
    <3>1. up[u].loc \in allocated
      BY <1>1, IdsAssumption DEF PipelineInv, LocalStateOK, SharesObject
    <3> QED
      BY <1>1, <2>1, <2>2, <3>1 DEF PipelineInv, ObjectsAllocated, Grows
  <2>11. RowsAreSound' /\ LostIsQuarantined'
    BY <2>8, GrowingIsSound DEF PipelineInv
  <2>12. CheckedHashIsWhole'
    <3>1. \A w \in Uploaders : up'[w].pc \in Checked => up'[w] = up[w]
      BY <2>4, <2>5 DEF Checked
    <3> QED
      BY <1>1, <3>1 DEF PipelineInv, CheckedHashIsWhole, WholeHash, GetByHash, IdExists
  <2>9. FreshObjectIsPrivate'
    <3> SUFFICES ASSUME NEW w \in Uploaders, up'[w].pc \in OwnsObject
                 PROVE  /\ objects[up'[w].loc] = up'[w].hash
                        /\ \A m \in MediaIds : IdExists(m) => media[m].loc # up'[w].loc
                        /\ \A t \in thumbs' : t.loc # up'[w].loc
                        /\ \A v \in Uploaders \ {w} : up'[v].loc # up'[w].loc
      BY <1>1 DEF FreshObjectIsPrivate, IdExists
    <3>1. w # u /\ up'[w] = up[w] /\ up[w].pc \in OwnsObject
      BY <2>4, <2>5 DEF OwnsObject
    <3>2. /\ objects[up[w].loc] = up[w].hash
          /\ \A m \in MediaIds : IdExists(m) => media[m].loc # up[w].loc
          /\ \A t \in thumbs : t.loc # up[w].loc
          /\ \A v \in Uploaders \ {w} : up[v].loc # up[w].loc
      BY <3>1 DEF PipelineInv, FreshObjectIsPrivate
    <3>3. up[w].loc # None
      BY <3>1, IdsAssumption DEF PipelineInv, LocalStateOK
    <3> QED
      BY <2>1, <2>2, <2>4, <2>5, <3>1, <3>2, <3>3
  <2>10. SharedObjectIsThere' /\ ReturnedRowIsThere'
    BY <1>1, <2>4, <2>5 DEF PipelineInv, SharedObjectIsThere, ReturnedRowIsThere, SharesObject,
       HasRow, IdExists
  <2> QED
    BY <2>6, <2>7, <2>8, <2>9, <2>10, <2>11, <2>12 DEF PipelineInv
<1> QED
  BY <1>2, <1>3 DEF Finish

(* Every step of the pipeline preserves the invariant. *)
LEMMA NextPipeline ==
  ASSUME PipelineInv, [UploadNext]_vars
  PROVE  PipelineInv' /\ Grows
<1>1. StoreTypeOK /\ lock \in [Hashes -> Uploaders \cup {None, Dead}]
  BY DEF PipelineInv, UploadTypeOK
<1>2. ASSUME UNCHANGED <<media, thumbs, objects, allocated>> PROVE Grows
  BY <1>2 DEF Grows
<1>3. ASSUME NEW u \in Uploaders, UploaderStep(u) PROVE PipelineInv' /\ Grows
  <2>1. CASE StartUpload(u) \/ StartPut(u) \/ StartRemote(u) \/ StartThumbnail(u)
    BY <1>2, <2>1, StartStep DEF StartUpload, StartPut, StartRemote, StartThumbnail, storeVars
  <2>2. CASE GenerateMediaId(u)
    BY <1>2, <2>2, GenerateStep DEF GenerateMediaId
  <2>3. CASE Reject(u) \/ SpamCheckFails(u) \/ CheckQuarantineStatus(u) \/ LockForUpload(u)
    BY <1>2, <2>3, CheckStep DEF Reject, SpamCheckFails, CheckQuarantineStatus, LockForUpload, storeVars
  <2>4. CASE FindPerfect(u) \/ FindDuplicate(u) \/ FindNothing(u)
    BY <1>2, <2>4, FindStep DEF FindPerfect, FindDuplicate, FindNothing, storeVars
  <2>5. CASE \/ InsertNewFails(u) \/ DatabaseError(u) \/ Restrict(u) \/ Unlock(u) \/ FinishNothing(u) \/ Crash(u)
    BY <1>2, <2>5, EndStep DEF InsertNewFails, DatabaseError, Restrict, Unlock, FinishNothing, Crash, storeVars
  <2> QED
    BY <1>3, <2>1, <2>2, <2>3, <2>4, <2>5, InsertStep, StoreStep, UndoStep, FinishStep DEF UploaderStep
<1>4. CASE \E h \in Hashes : LockExpires(h)
  BY <1>1, <1>2, <1>4, QuietStep DEF LockExpires, storeVars, StoreTypeOK
<1>5. CASE CreateMedia
  BY <1>1, <1>2, <1>5, QuietStep DEF CreateMedia, StoreTypeOK
<1>6. CASE ExpireCreated
  BY <1>1, <1>2, <1>6, QuietStep DEF ExpireCreated, StoreTypeOK
<1>7. CASE PurgeHeldMediaIds
  BY <1>1, <1>2, <1>7, QuietStep DEF PurgeHeldMediaIds, StoreTypeOK
<1>8. CASE UNCHANGED vars
  BY <1>1, <1>2, <1>8, QuietStep DEF vars, StoreTypeOK
<1> QED
  BY <1>3, <1>4, <1>5, <1>6, <1>7, <1>8 DEF UploadNext

LEMMA NextStorage == StorageInv /\ [UploadNext]_vars => StorageInv'
BY NextPipeline, GrowingIsSound DEF StorageInv, PipelineInv

(* The inductive invariant holds in every reachable state of the pipeline. *)
THEOREM StorageInvariant == UploadSpec => []StorageInv
<1>1. UploadInit => StorageInv
  BY InitStorage
<1>2. StorageInv /\ [UploadNext]_vars => StorageInv'
  BY NextStorage
<1> QED
  BY <1>1, <1>2, PTL DEF UploadSpec

(* Type correctness of the tables, the datastores, the requests and the locks. *)
THEOREM UploadTypeCorrect == UploadSpec => []UploadTypeOK
<1>1. StorageInv => UploadTypeOK
  BY DEF StorageInv, PipelineInv
<1> QED
  BY <1>1, StorageInvariant, PTL

(* Every row names an object with its content: for any number of concurrent   *)
(* uploads, with crashes, failed inserts and failed clean-ups (pipeline.go    *)
(* steps 9 to 14), with Redis, without it, and when locks run out.            *)
THEOREM UploadNeverDangles == UploadSpec => []NoDanglingRow
<1>1. StorageInv => NoDanglingRow
  BY DEF StorageInv
<1> QED
  BY <1>1, StorageInvariant, PTL

(* What Execute returns exists, with the uploaded content. *)
THEOREM UploadReturnsStoredMedia == UploadSpec => []ReturnedMediaIsStored
<1>1. StorageInv => ReturnedMediaIsStored
  BY DEF StorageInv, PipelineInv, ReturnedRowIsThere, SharedObjectIsThere, ReturnedMediaIsStored, HasRow,
     SharesObject
<1> QED
  BY <1>1, StorageInvariant, PTL

-----------------------------------------------------------------------------
(* What the common parts of the actions do to the requests. *)

(* What Goto does to the fields of an uploader. *)
LEMMA GotoEffect ==
  ASSUME UploadTypeOK, NEW u \in Uploaders, NEW pc, Goto(u, pc)
  PROVE  /\ \A v \in Uploaders \ {u} : up'[v] = up[v]
         /\ up'[u].pc = pc /\ up'[u].hash = up[u].hash /\ up'[u].loc = up[u].loc
         /\ up'[u].id = up[u].id /\ up'[u].kind = up[u].kind
BY DEF UploadTypeOK, UploadState, Goto

(* What Return does to the fields of an uploader. *)
LEMMA ReturnEffect ==
  ASSUME UploadTypeOK, NEW u \in Uploaders, Return(u)
  PROVE  /\ \A v \in Uploaders \ {u} : up'[v] = up[v]
         /\ up'[u].pc = "idle" /\ up'[u].id = None
BY DEF UploadTypeOK, UploadState, Return, Idle, Request

(* What the start of a request does to the fields of an uploader. *)
LEMMA StartEffect ==
  ASSUME UploadTypeOK, NEW u \in Uploaders,
         StartUpload(u) \/ StartPut(u) \/ StartRemote(u) \/ StartThumbnail(u)
  PROVE  /\ \A v \in Uploaders \ {u} : up'[v] = up[v]
         /\ up'[u].pc \in {"generate", "check"} /\ UNCHANGED <<lock, storeVars>>
BY DEF UploadTypeOK, UploadState, StartUpload, StartPut, StartRemote, StartThumbnail, Request

-----------------------------------------------------------------------------
(* The lock of a hash. *)

Locked == {"find", "store", "insert", "undo", "insertDup", "restrict", "fail", "unlock"}

(* With a lock that holds, its holder alone knows what rows its hash has. *)
LockIsHeld == \A u \in Uploaders : up[u].pc \in Locked => lock[up[u].hash] = u

HolderKnowsTheRows ==
    \A u \in Uploaders :
        /\ up[u].pc \in {"store", "insert"} =>
               \A m \in MediaIds : IdExists(m) => media[m].hash # up[u].hash
        /\ up[u].pc = "insertDup" =>
               \A m \in MediaIds : (IdExists(m) /\ media[m].hash = up[u].hash)
                                      => media[m].loc = up[u].loc

LockInv == LockIsHeld /\ HolderKnowsTheRows /\ OneCopyPerHash

LockAssumption == UseRedis /\ ~UploadMayOutliveLock

(* A step of one uploader that leaves the rows alone. *)
LEMMA LockLocalStep ==
  ASSUME LocalStateOK, LockInv, NEW u \in Uploaders, media' = media,
         \A v \in Uploaders \ {u} : up'[v] = up[v],
         up'[u].pc \in Locked => lock'[up'[u].hash] = u,
         \A h \in Hashes : lock[h] \in Uploaders \ {u} => lock'[h] = lock[h],
         up'[u].pc \in {"store", "insert"} =>
             \A m \in MediaIds : IdExists(m) => media[m].hash # up'[u].hash,
         up'[u].pc = "insertDup" =>
             \A m \in MediaIds : (IdExists(m) /\ media[m].hash = up'[u].hash)
                                   => media[m].loc = up'[u].loc
  PROVE  LockInv'
<1>1. LockIsHeld'
  <2> SUFFICES ASSUME NEW v \in Uploaders, up'[v].pc \in Locked PROVE lock'[up'[v].hash] = v
    BY DEF LockIsHeld
  <2>1. CASE v = u
    BY <2>1
  <2>2. CASE v # u
    <3>1. up'[v] = up[v] /\ up[v].hash \in Hashes
      BY <2>2 DEF LocalStateOK, Locked
    <3> QED
      BY <2>2, <3>1 DEF LockInv, LockIsHeld
  <2> QED
    BY <2>1, <2>2
<1>2. HolderKnowsTheRows'
  <2>1. \A v \in Uploaders : v = u \/ up'[v] = up[v]
    OBVIOUS
  <2> QED
    BY <2>1 DEF LockInv, HolderKnowsTheRows, IdExists
<1>3. OneCopyPerHash'
  BY DEF LockInv, OneCopyPerHash, IdExists
<1> QED
  BY <1>1, <1>2, <1>3 DEF LockInv

(* A new row of the uploader's hash. *)
LEMMA LockInsertStep ==
  ASSUME StorageInv, LockInv, NEW u \in Uploaders, InsertDuplicate(u) \/ InsertNew(u)
  PROVE  LockInv'
<1> DEFINE s == [up[u] EXCEPT !.pc = "restrict"]
           m == up[u].id
           row == NewRecord(u)
<1>1. /\ up[u].pc \in {"insertDup", "insert"}
      /\ media[m] = None /\ media' = [media EXCEPT ![m] = row]
      /\ up' = [up EXCEPT ![u] = s] /\ lock' = lock
  BY DEF InsertDuplicate, InsertNew, MediaInsert, IdExists, Goto
<1>2. up[u] \in UploadState /\ m \in MediaIds /\ up[u].hash \in Hashes
  BY <1>1 DEF StorageInv, PipelineInv, UploadTypeOK, LocalStateOK, Buffered
<1>3. /\ row.hash = up[u].hash /\ row.loc = up[u].loc
      /\ s.pc = "restrict" /\ s.hash = up[u].hash /\ s.loc = up[u].loc
  BY <1>2 DEF NewRecord, UploadState
<1> HIDE DEF s, m, row
<1>4. \A v \in Uploaders : up'[v] = IF v = u THEN s ELSE up[v]
  BY <1>1 DEF StorageInv, PipelineInv, UploadTypeOK
<1>5. \A n \in MediaIds : media'[n] = IF n = m THEN row ELSE media[n]
  BY <1>1 DEF StorageInv, PipelineInv, UploadTypeOK, StoreTypeOK
<1>6. lock[up[u].hash] = u
  BY <1>1 DEF LockInv, LockIsHeld, Locked
<1>7. \A n \in MediaIds : (media[n] # None /\ media[n].hash = up[u].hash) => media[n].loc = up[u].loc
  BY <1>1 DEF LockInv, HolderKnowsTheRows, IdExists
<1>8. LockIsHeld'
  BY <1>1, <1>3, <1>4, <1>6 DEF LockInv, LockIsHeld
<1>9. HolderKnowsTheRows'
  <2> SUFFICES ASSUME NEW v \in Uploaders, up'[v].pc \in {"store", "insert", "insertDup"}
               PROVE  /\ up'[v].pc \in {"store", "insert"} =>
                             \A n \in MediaIds : media'[n] # None => media'[n].hash # up'[v].hash
                      /\ up'[v].pc = "insertDup" =>
                             \A n \in MediaIds : (media'[n] # None /\ media'[n].hash = up'[v].hash)
                                                   => media'[n].loc = up'[v].loc
    BY DEF HolderKnowsTheRows, IdExists
  <2>1. v # u /\ up'[v] = up[v]
    BY <1>3, <1>4
  <2>2. up[v].hash # up[u].hash
    BY <1>6, <2>1 DEF LockInv, LockIsHeld, Locked
  <2> QED
    BY <1>3, <1>5, <2>1, <2>2 DEF LockInv, HolderKnowsTheRows, IdExists
<1>10. OneCopyPerHash'
  BY <1>3, <1>5, <1>7 DEF LockInv, OneCopyPerHash, IdExists
<1> QED
  BY <1>8, <1>9, <1>10 DEF LockInv

(* The steps of an uploader that is not, or no longer, at work on its hash. *)
LEMMA LockOutsideStep ==
  ASSUME StorageInv, LockInv, NEW u \in Uploaders, UNCHANGED <<lock, media>>,
         \A v \in Uploaders \ {u} : up'[v] = up[v], up'[u].pc \notin Locked
  PROVE  LockInv'
BY LockLocalStep DEF StorageInv, PipelineInv, Locked

(* Every step of an uploader preserves the invariant of the lock. *)
LEMMA LockUploaderStep ==
  ASSUME LockAssumption, StorageInv, LockInv, NEW u \in Uploaders, UploaderStep(u)
  PROVE  LockInv'
<1>1. UploadTypeOK /\ LocalStateOK
  BY DEF StorageInv, PipelineInv
<1>2. CASE StartUpload(u) \/ StartPut(u) \/ StartRemote(u) \/ StartThumbnail(u)
  BY <1>1, <1>2, StartEffect, LockOutsideStep DEF Locked, storeVars
<1>3. CASE GenerateMediaId(u)
  <2>1. /\ \A v \in Uploaders \ {u} : up'[v] = up[v]
        /\ up'[u].pc \in {"generate", "check"} /\ UNCHANGED <<lock, media>>
    BY <1>1, <1>3 DEF GenerateMediaId, UploadTypeOK, UploadState
  <2> QED
    BY <2>1, LockOutsideStep DEF Locked
<1>4. CASE Reject(u) \/ FinishNothing(u) \/ Finish(u)
  <2>1. Return(u) /\ UNCHANGED <<lock, media>>
    BY <1>4 DEF Reject, FinishNothing, Finish, storeVars
  <2> QED
    BY <1>1, <2>1, ReturnEffect, LockOutsideStep DEF Locked
<1>5. CASE SpamCheckFails(u)
  BY <1>1, <1>5, GotoEffect, LockOutsideStep DEF SpamCheckFails, Locked, storeVars
<1>6. CASE CheckQuarantineStatus(u)
  <2>1. UNCHANGED <<lock, media>> /\ (Return(u) \/ Goto(u, "lock"))
    BY <1>6 DEF CheckQuarantineStatus, storeVars
  <2> QED
    BY <1>1, <2>1, GotoEffect, ReturnEffect, LockOutsideStep DEF Locked
<1>7. CASE LockForUpload(u)
  <2>1. /\ Goto(u, "find") /\ media' = media /\ up[u].hash \in Hashes
        /\ lock[up[u].hash] = None /\ lock' = [lock EXCEPT ![up[u].hash] = u]
    BY <1>1, <1>7 DEF LockForUpload, LockAssumption, storeVars, LocalStateOK
  <2>2. \A h \in Hashes : lock[h] \in Uploaders \ {u} => lock'[h] = lock[h]
    BY <1>1, <2>1, UploadAssumption DEF UploadTypeOK
  <2>3. lock'[up[u].hash] = u
    BY <1>1, <2>1 DEF UploadTypeOK
  <2> QED
    BY <1>1, <2>1, <2>2, <2>3, GotoEffect, LockLocalStep
<1>8. CASE FindPerfect(u)
  <2>1. /\ \A v \in Uploaders \ {u} : up'[v] = up[v]
        /\ UNCHANGED <<lock, media>>
        /\ up[u].pc = "find" /\ up'[u].pc = "unlock" /\ up'[u].hash = up[u].hash
    BY <1>1, <1>8 DEF FindPerfect, storeVars, UploadTypeOK, UploadState
  <2> QED
    BY <1>1, <2>1, LockLocalStep DEF LockInv, LockIsHeld, Locked
<1>9. CASE FindDuplicate(u)
  <2>1. PICK m \in GetByHash(up[u].hash) :
          up' = [up EXCEPT ![u].pc = "insertDup", ![u].loc = media[m].loc,
                           ![u].quarantined = media[m].quarantined]
    BY <1>9 DEF FindDuplicate, PerfectMatches
  <2>2. /\ \A v \in Uploaders \ {u} : up'[v] = up[v]
        /\ up'[u].pc = "insertDup" /\ up'[u].hash = up[u].hash /\ up'[u].loc = media[m].loc
    BY <1>1, <2>1 DEF UploadTypeOK, UploadState
  <2>3. \A n \in MediaIds : (IdExists(n) /\ media[n].hash = up'[u].hash) => media[n].loc = up'[u].loc
    BY <2>2 DEF GetByHash, LockInv, OneCopyPerHash
  <2>4. UNCHANGED <<lock, media>> /\ up[u].pc = "find"
    BY <1>9 DEF FindDuplicate, storeVars
  <2> QED
    BY <1>1, <2>2, <2>3, <2>4, LockLocalStep DEF LockInv, LockIsHeld, Locked
<1>10. CASE FindNothing(u)
  <2>1. UNCHANGED <<lock, media>> /\ up[u].pc = "find" /\ Goto(u, "store")
    BY <1>10 DEF FindNothing, storeVars
  <2>2. \A m \in MediaIds : IdExists(m) => media[m].hash # up[u].hash
    BY <1>10 DEF FindNothing, GetByHash
  <2> QED
    BY <1>1, <2>1, <2>2, GotoEffect, LockLocalStep DEF LockInv, LockIsHeld, Locked
<1>11. CASE InsertDuplicate(u) \/ InsertNew(u)
  BY <1>11, LockInsertStep
<1>12. CASE StoreUpload(u)
  <2>1. /\ \A v \in Uploaders \ {u} : up'[v] = up[v]
        /\ UNCHANGED <<lock, media>>
        /\ up[u].pc = "store" /\ up'[u].pc = "insert" /\ up'[u].hash = up[u].hash
    BY <1>1, <1>12 DEF StoreUpload, UploadTypeOK, UploadState
  <2> QED
    BY <1>1, <2>1, LockLocalStep DEF LockInv, LockIsHeld, HolderKnowsTheRows, Locked
<1>13. CASE \/ StoreUploadFails(u) \/ InsertNewFails(u) \/ UndoStore(u) \/ DatabaseError(u)
            \/ Restrict(u)
  <2>1. /\ UNCHANGED <<lock, media>> /\ up[u].pc \in Locked
        /\ Goto(u, "fail") \/ Goto(u, "undo") \/ Goto(u, "unlock")
    BY <1>13 DEF StoreUploadFails, InsertNewFails, UndoStore, DatabaseError, Restrict, storeVars,
       Locked
  <2> QED
    BY <1>1, <2>1, GotoEffect, LockLocalStep DEF LockInv, LockIsHeld, Locked
<1>14. CASE Unlock(u)
  <2>1. /\ media' = media /\ (Return(u) \/ Goto(u, "done")) /\ up[u].hash \in Hashes
    BY <1>1, <1>14 DEF Unlock, storeVars, LocalStateOK
  <2>2. \A h \in Hashes : lock[h] \in Uploaders \ {u} => lock'[h] = lock[h]
    BY <1>1, <1>14, <2>1 DEF Unlock, UploadTypeOK
  <2> QED
    BY <1>1, <2>1, <2>2, GotoEffect, ReturnEffect, LockLocalStep DEF Locked
<1>15. CASE Crash(u)
  <2>1. \A h \in Hashes : lock[h] \in Uploaders \ {u} => lock'[h] = lock[h]
    BY <1>1, <1>15 DEF Crash, UploadTypeOK
  <2>2. media' = media /\ Return(u)
    BY <1>15 DEF Crash, storeVars
  <2> QED
    BY <1>1, <2>1, <2>2, ReturnEffect, LockLocalStep DEF Locked
<1> QED
  BY <1>2, <1>3, <1>4, <1>5, <1>6, <1>7, <1>8, <1>9, <1>10, <1>11, <1>12, <1>13, <1>14, <1>15
     DEF UploaderStep

(* Every step of the pipeline preserves the invariant of the lock. *)
LEMMA LockStep ==
  ASSUME LockAssumption, StorageInv, LockInv, [UploadNext]_vars
  PROVE  LockInv'
<1>1. ASSUME NEW u \in Uploaders, UploaderStep(u) PROVE LockInv'
  BY <1>1, LockUploaderStep
<1>2. ASSUME NEW h \in Hashes, LockExpires(h) PROVE LockInv'
  <2>1. lock[h] = Dead /\ lock' = [lock EXCEPT ![h] = None] /\ UNCHANGED <<up, media>>
    BY <1>2 DEF LockExpires, LockAssumption, storeVars
  <2>2. \A v \in Uploaders : up[v].pc \in Locked => up[v].hash \in Hashes
    BY DEF StorageInv, PipelineInv, LocalStateOK, Locked
  <2>3. LockIsHeld'
    BY <2>1, <2>2, UploadAssumption DEF LockInv, LockIsHeld, StorageInv, PipelineInv, UploadTypeOK
  <2> QED
    BY <2>1, <2>3 DEF LockInv, HolderKnowsTheRows, OneCopyPerHash, IdExists
<1>3. CASE CreateMedia \/ ExpireCreated \/ PurgeHeldMediaIds \/ UNCHANGED vars
  <2>1. UNCHANGED <<up, lock, media>>
    BY <1>3 DEF CreateMedia, ExpireCreated, PurgeHeldMediaIds, vars
  <2> QED
    BY <2>1 DEF LockInv, LockIsHeld, HolderKnowsTheRows, OneCopyPerHash, IdExists
<1> QED
  BY <1>1, <1>2, <1>3 DEF UploadNext

(* While no upload outlives its lock, all rows of a hash share one object     *)
(* (pipeline.go steps 8 to 14): for any number of uploaders of any hashes.    *)
THEOREM LockedUploadsKeepOneCopy ==
  ASSUME LockAssumption
  PROVE  UploadSpec => []OneCopyPerHash
<1>1. UploadInit => LockInv
  BY DEF UploadInit, StoreInit, Idle, Request, LockInv, LockIsHeld, HolderKnowsTheRows,
         OneCopyPerHash, Locked, IdExists
<1>2. StorageInv /\ LockInv /\ [UploadNext]_vars => LockInv'
  BY LockStep
<1>3. LockInv => OneCopyPerHash
  BY DEF LockInv
<1> QED
  BY <1>1, <1>2, <1>3, StorageInvariant, PTL DEF UploadSpec

-----------------------------------------------------------------------------
(* Generated IDs. *)

Unpublished == {"check", "lock", "find", "store", "insert"}

(* Media IDs in use are on hold until they are in the media table. *)
IdsInUseAreHeld ==
    /\ \A u \in Uploaders : up[u].id \in LocalIds => up[u].id \in held \/ IdExists(up[u].id)
    /\ \A u \in Uploaders : (GeneratesId(u) /\ up[u].pc \in Unpublished) => up[u].id \in LocalIds
    /\ expiring \subseteq held

IdInv == GeneratedIdsAreExclusive /\ IdsInUseAreHeld

Generating(r) == r.kind \in {"sync", "thumb"} /\ r.pc \in Unpublished

(* A step of one uploader: it may fill the row of its own ID, drop a holding   *)
(* record, or take an ID that no other request can be working under.           *)
LEMMA IdLocalStep ==
  ASSUME IdInv, NEW u \in Uploaders,
         \A v \in Uploaders \ {u} : up'[v] = up[v],
         \A m \in MediaIds : IdExists(m) => media'[m] # None,
         \A m \in MediaIds : media'[m] # None => IdExists(m) \/ m = up[u].id,
         held \subseteq held', expiring' \subseteq expiring,
         up'[u].id \in LocalIds => up'[u].id \in held' \/ media'[up'[u].id] # None,
         \/ up'[u].id \in {up[u].id, None} \cup RemoteIds \cup expiring
         \/ up'[u].id \in MediaIds /\ IdExists(up'[u].id)
         \/ up'[u].id \notin held,
         Generating(up'[u]) =>
             /\ up'[u].id \in LocalIds
             /\ up'[u].id \notin expiring
             /\ media'[up'[u].id] = None
             /\ \A v \in Uploaders \ {u} : up[v].id # up'[u].id
  PROVE  IdInv'
<1>1. ASSUME NEW w \in Uploaders, w # u, Generating(up[w])
      PROVE  /\ up[w].id \in LocalIds /\ up[w].id \in held
             /\ up[w].id \notin expiring /\ ~IdExists(up[w].id)
             /\ \A v \in Uploaders \ {w} : up[v].id # up[w].id
  <2>1. GeneratesId(w) /\ up[w].pc \in Unpublished
    BY <1>1 DEF Generating, GeneratesId
  <2> QED
    BY <2>1 DEF IdInv, GeneratedIdsAreExclusive, IdsInUseAreHeld, Unpublished
<1>2. ASSUME NEW w \in Uploaders, Generating(up'[w])
      PROVE  /\ up'[w].id \in LocalIds /\ up'[w].id \notin expiring'
             /\ media'[up'[w].id] = None
             /\ \A v \in Uploaders \ {w} : up'[v].id # up'[w].id
  <2>1. CASE w = u
    BY <1>2, <2>1
  <2>2. CASE w # u
    <3>1. up'[w] = up[w] /\ Generating(up[w])
      BY <1>2, <2>2
    <3>2. up'[u].id # up[w].id
      BY <1>1, <2>2, <3>1, IdsAssumption DEF MediaIds
    <3>3. media'[up[w].id] = None
      BY <1>1, <2>2, <3>1 DEF MediaIds
    <3>4. \A v \in Uploaders \ {w} : up'[v].id # up[w].id
      BY <1>1, <2>2, <3>1, <3>2
    <3> QED
      BY <1>1, <2>2, <3>1, <3>3, <3>4
  <2> QED
    BY <2>1, <2>2
<1>3. GeneratedIdsAreExclusive'
  BY <1>2 DEF GeneratedIdsAreExclusive, GeneratesId, Generating, Unpublished, IdExists
<1>4. IdsInUseAreHeld'
  <2>1. ASSUME NEW w \in Uploaders, up'[w].id \in LocalIds
        PROVE  up'[w].id \in held' \/ media'[up'[w].id] # None
    <3>1. CASE w = u
      BY <2>1, <3>1
    <3>2. CASE w # u
      BY <2>1, <3>2 DEF IdInv, IdsInUseAreHeld, IdExists, MediaIds
    <3> QED
      BY <3>1, <3>2
  <2>2. expiring' \subseteq held'
    BY DEF IdInv, IdsInUseAreHeld
  <2> QED
    BY <1>2, <2>1, <2>2 DEF IdsInUseAreHeld, GeneratesId, Generating, IdExists
<1> QED
  BY <1>3, <1>4 DEF IdInv

(* Steps that keep the ID, the kind and the rows. *)
LEMMA IdSameStep ==
  ASSUME StorageInv, IdInv, NEW u \in Uploaders, UNCHANGED <<media, held>>,
         expiring' \subseteq expiring,
         \A v \in Uploaders \ {u} : up'[v] = up[v],
         up'[u].id = up[u].id, up'[u].kind = up[u].kind,
         up'[u].pc \in Unpublished => up[u].pc \in Unpublished
  PROVE  IdInv'
<1>1. up[u].id \in LocalIds => up[u].id \in held \/ IdExists(up[u].id)
  BY DEF IdInv, IdsInUseAreHeld
<1>2. ASSUME Generating(up'[u])
      PROVE  /\ up[u].id \in LocalIds /\ up[u].id \notin expiring /\ media[up[u].id] = None
             /\ \A v \in Uploaders \ {u} : up[v].id # up[u].id
  <2>1. GeneratesId(u) /\ up[u].pc \in Unpublished
    BY <1>2 DEF Generating, GeneratesId
  <2> QED
    BY <2>1 DEF IdInv, GeneratedIdsAreExclusive, IdsInUseAreHeld, Unpublished, IdExists
<1> QED
  BY <1>1, <1>2, IdLocalStep DEF IdExists

(* The end of a request frees its ID. *)
LEMMA IdReturnStep ==
  ASSUME StorageInv, IdInv, NEW u \in Uploaders, UNCHANGED <<media, held>>,
         expiring' \subseteq expiring, Return(u)
  PROVE  IdInv'
<1>1. /\ \A v \in Uploaders \ {u} : up'[v] = up[v]
      /\ up'[u].pc = "idle" /\ up'[u].id = None
  BY ReturnEffect DEF StorageInv, PipelineInv
<1>2. ~Generating(up'[u]) /\ up'[u].id \notin LocalIds
  BY <1>1, IdsAssumption DEF Generating, Unpublished, MediaIds
<1> QED
  BY <1>1, <1>2, IdLocalStep DEF IdExists

(* Every step of an uploader preserves the invariant of the IDs. *)
LEMMA IdUploaderStep ==
  ASSUME StorageInv, IdInv, NEW u \in Uploaders, UploaderStep(u)
  PROVE  IdInv'
<1>1. UploadTypeOK /\ LocalStateOK /\ StoreTypeOK
  BY DEF StorageInv, PipelineInv, UploadTypeOK
<1>2. CASE StartUpload(u) \/ StartThumbnail(u)
  <2>1. /\ \A v \in Uploaders \ {u} : up'[v] = up[v]
        /\ up'[u].pc = "generate" /\ up'[u].id = None
        /\ UNCHANGED <<media, held, expiring>>
    BY <1>1, <1>2 DEF StartUpload, StartThumbnail, Request, storeVars, UploadTypeOK
  <2>2. ~Generating(up'[u]) /\ up'[u].id \notin LocalIds
    BY <2>1, IdsAssumption DEF Generating, Unpublished, MediaIds
  <2> QED
    BY <2>1, <2>2, IdLocalStep DEF IdExists
<1>3. CASE StartPut(u)
  <2>1. /\ \A v \in Uploaders \ {u} : up'[v] = up[v]
        /\ up'[u].kind = "put" /\ up'[u].id \in expiring
        /\ UNCHANGED <<media, held, expiring>>
    BY <1>1, <1>3 DEF StartPut, Request, storeVars, UploadTypeOK
  <2>2. ~Generating(up'[u]) /\ up'[u].id \in held
    BY <2>1 DEF Generating, IdInv, IdsInUseAreHeld
  <2> QED
    BY <2>1, <2>2, IdLocalStep DEF IdExists
<1>4. CASE StartRemote(u)
  <2>1. /\ \A v \in Uploaders \ {u} : up'[v] = up[v]
        /\ up'[u].kind = "remote" /\ up'[u].id \in RemoteIds
        /\ UNCHANGED <<media, held, expiring>>
    BY <1>1, <1>4 DEF StartRemote, Request, storeVars, UploadTypeOK
  <2>2. ~Generating(up'[u]) /\ up'[u].id \notin LocalIds
    BY <2>1, IdsAssumption DEF Generating
  <2> QED
    BY <2>1, <2>2, IdLocalStep DEF IdExists
<1>5. CASE GenerateMediaId(u)
  <2>1. PICK m \in LocalIds \ held :
          /\ held' = held \cup {m}
          /\ up' = IF IdExists(m) \/ m \in reserved THEN up
                   ELSE [up EXCEPT ![u].id = m, ![u].pc = "check"]
    BY <1>5 DEF GenerateMediaId
  <2>2. UNCHANGED <<media, expiring>>
    BY <1>5 DEF GenerateMediaId
  <2>3. CASE up' = up
    BY <2>1, <2>2, <2>3 DEF IdInv, GeneratedIdsAreExclusive, IdsInUseAreHeld, GeneratesId, IdExists
  <2>4. CASE ~IdExists(m) /\ up' = [up EXCEPT ![u].id = m, ![u].pc = "check"]
    <3>1. /\ \A v \in Uploaders \ {u} : up'[v] = up[v]
          /\ up'[u].id = m
      BY <1>1, <2>4 DEF UploadTypeOK, UploadState
    <3>2. \A v \in Uploaders : up[v].id # m
      BY <2>4 DEF IdInv, IdsInUseAreHeld
    <3>3. m \notin expiring
      BY DEF IdInv, IdsInUseAreHeld
    <3> QED
      BY <2>1, <2>2, <2>4, <3>1, <3>2, <3>3, IdLocalStep DEF IdExists
  <2> QED
    BY <2>1, <2>3, <2>4
<1>6. CASE Reject(u) \/ FinishNothing(u) \/ Finish(u) \/ Crash(u)
  <2>1. Return(u) /\ UNCHANGED <<media, held>> /\ expiring' \subseteq expiring
    BY <1>6 DEF Reject, FinishNothing, Finish, Crash, DropHold, storeVars
  <2> QED
    BY <2>1, IdReturnStep
<1>7. CASE CheckQuarantineStatus(u) \/ Unlock(u)
  <2>1. /\ UNCHANGED <<media, held, expiring>>
        /\ \/ Return(u)
           \/ Goto(u, "lock") /\ up[u].pc = "check"
           \/ Goto(u, "done")
    BY <1>7 DEF CheckQuarantineStatus, Unlock, storeVars
  <2>2. CASE Return(u)
    BY <2>1, <2>2, IdReturnStep
  <2>3. CASE Goto(u, "lock") /\ up[u].pc = "check"
    BY <1>1, <2>1, <2>3, GotoEffect, IdSameStep DEF Unpublished
  <2>4. CASE Goto(u, "done")
    BY <1>1, <2>1, <2>4, GotoEffect, IdSameStep DEF Unpublished
  <2> QED
    BY <2>1, <2>2, <2>3, <2>4
<1>8. CASE \/ SpamCheckFails(u) \/ LockForUpload(u) \/ FindNothing(u) \/ StoreUploadFails(u)
           \/ InsertNewFails(u) \/ UndoStore(u) \/ DatabaseError(u) \/ Restrict(u)
  <2>1. UNCHANGED <<media, held, expiring>>
    BY <1>8 DEF SpamCheckFails, LockForUpload, FindNothing, StoreUploadFails, InsertNewFails,
       UndoStore, DatabaseError, Restrict, storeVars
  <2>2. \/ Goto(u, "find") /\ up[u].pc = "lock"
        \/ Goto(u, "store") /\ up[u].pc = "find"
        \/ Goto(u, "nothing") \/ Goto(u, "undo") \/ Goto(u, "fail") \/ Goto(u, "unlock")
    BY <1>8, Zenon DEF SpamCheckFails, LockForUpload, FindNothing, StoreUploadFails, InsertNewFails,
       UndoStore, DatabaseError, Restrict
  <2>3. CASE Goto(u, "find") /\ up[u].pc = "lock"
    BY <1>1, <2>1, <2>3, GotoEffect, IdSameStep DEF Unpublished
  <2>4. CASE Goto(u, "store") /\ up[u].pc = "find"
    BY <1>1, <2>1, <2>4, GotoEffect, IdSameStep DEF Unpublished
  <2>5. ASSUME NEW pc \in {"nothing", "undo", "fail", "unlock"}, Goto(u, pc) PROVE IdInv'
    BY <1>1, <2>1, <2>5, GotoEffect, IdSameStep DEF Unpublished
  <2> QED
    BY <2>2, <2>3, <2>4, <2>5
<1>9. CASE FindPerfect(u)
  <2>1. PICK m \in PerfectMatches(u) :
          up' = [up EXCEPT ![u].pc = "unlock", ![u].id = m, ![u].loc = media[m].loc]
    BY <1>9 DEF FindPerfect
  <2>2. /\ \A v \in Uploaders \ {u} : up'[v] = up[v]
        /\ up'[u].pc = "unlock" /\ up'[u].id = m
    BY <1>1, <2>1 DEF UploadTypeOK, UploadState
  <2>3. m \in MediaIds /\ IdExists(m) /\ UNCHANGED <<media, held, expiring>>
    BY <1>9 DEF FindPerfect, PerfectMatches, GetByHash, storeVars
  <2>4. ~Generating(up'[u])
    BY <2>2 DEF Generating, Unpublished
  <2> QED
    BY <2>2, <2>3, <2>4, IdLocalStep DEF IdExists
<1>10. CASE FindDuplicate(u) \/ StoreUpload(u)
  <2>1. UNCHANGED <<media, held, expiring>> /\ up[u].pc \in {"find", "store"}
    BY <1>10 DEF FindDuplicate, StoreUpload, storeVars
  <2>2. CASE FindDuplicate(u)
    <3>1. PICK m : up' = [up EXCEPT ![u].pc = "insertDup", ![u].loc = media[m].loc,
                                    ![u].quarantined = media[m].quarantined]
      BY <2>2, Zenon DEF FindDuplicate
    <3>2. /\ \A v \in Uploaders \ {u} : up'[v] = up[v]
          /\ up'[u].id = up[u].id /\ up'[u].kind = up[u].kind
      BY <1>1, <3>1 DEF UploadTypeOK, UploadState
    <3> QED
      BY <2>1, <3>2, IdSameStep DEF Unpublished
  <2>3. CASE StoreUpload(u)
    <3>1. PICK l : up' = [up EXCEPT ![u].pc = "insert", ![u].loc = l]
      BY <2>3, Zenon DEF StoreUpload
    <3>2. /\ \A v \in Uploaders \ {u} : up'[v] = up[v]
          /\ up'[u].id = up[u].id /\ up'[u].kind = up[u].kind
      BY <1>1, <3>1 DEF UploadTypeOK, UploadState
    <3> QED
      BY <2>1, <3>2, IdSameStep DEF Unpublished
  <2> QED
    BY <1>10, <2>2, <2>3
<1>11. CASE InsertDuplicate(u) \/ InsertNew(u)
  <2>1. /\ Goto(u, "restrict") /\ ~IdExists(up[u].id) /\ UNCHANGED <<held, expiring>>
        /\ media' = [media EXCEPT ![up[u].id] = NewRecord(u)]
        /\ up[u].pc \in {"insertDup", "insert"}
    BY <1>11 DEF InsertDuplicate, InsertNew, MediaInsert
  <2>2. /\ \A v \in Uploaders \ {u} : up'[v] = up[v]
        /\ up'[u].pc = "restrict" /\ up'[u].id = up[u].id
    BY <1>1, <2>1, GotoEffect
  <2>3. PipelineInv'
    BY <1>11, InsertStep DEF StorageInv
  <2>4. up[u].id \in MediaIds /\ media'[up[u].id] # None
    BY <1>1, <2>1, <2>2, <2>3 DEF PipelineInv, LocalStateOK, ReturnedRowIsThere, HasRow, Buffered,
       IdExists
  <2>5. /\ \A m \in MediaIds : IdExists(m) => media'[m] # None
        /\ \A m \in MediaIds : media'[m] # None => IdExists(m) \/ m = up[u].id
    BY <1>1, <2>1, <2>4 DEF StoreTypeOK, IdExists
  <2>6. ~Generating(up'[u])
    BY <2>2 DEF Generating, Unpublished
  <2> QED
    BY <2>1, <2>2, <2>4, <2>5, <2>6, IdLocalStep
<1> QED
  BY <1>2, <1>3, <1>4, <1>5, <1>6, <1>7, <1>8, <1>9, <1>10, <1>11 DEF UploaderStep

(* Every step of the pipeline preserves the invariant of the IDs. *)
LEMMA IdStep ==
  ASSUME StorageInv, IdInv, [UploadNext]_vars
  PROVE  IdInv'
<1>1. ASSUME NEW u \in Uploaders, UploaderStep(u) PROVE IdInv'
  BY <1>1, IdUploaderStep
<1>2. CASE CreateMedia
  <2>1. PICK m \in LocalIds \ held :
          /\ held' = held \cup {m}
          /\ expiring' = IF IdExists(m) \/ m \in reserved THEN expiring ELSE expiring \cup {m}
          /\ UNCHANGED <<up, media>>
    BY <1>2 DEF CreateMedia
  <2>2. \A u \in Uploaders : up[u].id = m => IdExists(m)
    BY DEF IdInv, IdsInUseAreHeld
  <2> QED
    BY <2>1, <2>2 DEF IdInv, GeneratedIdsAreExclusive, IdsInUseAreHeld, GeneratesId, IdExists
<1>3. CASE PurgeHeldMediaIds
  <2>1. PICK S \in SUBSET {m \in held : ~InFlight(m) /\ m \notin expiring} :
          held' = held \ S /\ UNCHANGED <<up, media, expiring>>
    BY <1>3 DEF PurgeHeldMediaIds
  <2>2. \A u \in Uploaders : up[u].id \notin S
    BY DEF InFlight
  <2> QED
    BY <2>1, <2>2 DEF IdInv, GeneratedIdsAreExclusive, IdsInUseAreHeld, GeneratesId, IdExists
<1>4. CASE (\E h \in Hashes : LockExpires(h)) \/ ExpireCreated \/ UNCHANGED vars
  <2>1. UNCHANGED <<up, media, held>> /\ expiring' \subseteq expiring
    BY <1>4 DEF LockExpires, ExpireCreated, vars, storeVars
  <2> QED
    BY <2>1 DEF IdInv, GeneratedIdsAreExclusive, IdsInUseAreHeld, GeneratesId, IdExists
<1> QED
  BY <1>1, <1>2, <1>3, <1>4 DEF UploadNext

(* A generated media ID belongs to one request (generate_media_id.go), however *)
(* many generators, creations, expiries and clean-ups of holds interleave.     *)
THEOREM GeneratedIdsExclusive == UploadSpec => []GeneratedIdsAreExclusive
<1>1. UploadInit => IdInv
  <2> SUFFICES ASSUME UploadInit PROVE IdInv
    OBVIOUS
  <2>1. \A u \in Uploaders : up[u].pc = "idle" /\ up[u].id = None
    BY DEF UploadInit, Idle, Request
  <2> QED
    BY <2>1, IdsAssumption DEF UploadInit, StoreInit, IdInv, GeneratedIdsAreExclusive,
       IdsInUseAreHeld, Unpublished, MediaIds
<1>2. StorageInv /\ IdInv /\ [UploadNext]_vars => IdInv'
  BY IdStep
<1>3. IdInv => GeneratedIdsAreExclusive
  BY DEF IdInv
<1> QED
  BY <1>1, <1>2, <1>3, StorageInvariant, PTL DEF UploadSpec
=============================================================================
