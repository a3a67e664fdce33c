----------------------------- MODULE MediaStore -----------------------------
(***************************************************************************)
(* What the pipelines and the background tasks of the media repository     *)
(* share: the database tables media, thumbnails, media_id_hold,            *)
(* reserved_media, expiring_media and restricted_media, and the objects of *)
(* the datastores.  Every operator is one SQL statement or one datastore   *)
(* call, so it is atomic; the modules that EXTEND this one compose them    *)
(* into the steps of the code.                                             *)
(*                                                                         *)
(* A media ID stands for the pair (origin, media_id), a location for the   *)
(* pair (datastore_id, location), an owner for the pair (user_id,          *)
(* upload_name), which is what deduplication compares.                     *)
(***************************************************************************)
EXTENDS Naturals, FiniteSets

CONSTANTS
    LocalIds,   \* media IDs whose origin is one of our own domains
    RemoteIds,  \* media IDs of other servers (cached remote media)
    PinnedIds,  \* media whose attributes row has the purpose "pinned"
    Hashes,     \* SHA-256 hashes of contents
    Owners,     \* (user, file name) pairs
    Locations,  \* object names a datastore may ever be asked for
    Partial,    \* the content of an object whose write was cut short
    None        \* no row, no object, no holder

MediaIds == LocalIds \cup RemoteIds

ASSUME IdsAssumption ==
    /\ LocalIds \cap RemoteIds = {}
    /\ PinnedIds \subseteq MediaIds
    /\ None \notin MediaIds \cup Locations \cup Owners

ASSUME ContentAssumption == None \notin Hashes /\ Partial \notin Hashes /\ None # Partial

DbMedia == [hash : Hashes, loc : Locations, owner : Owners, quarantined : BOOLEAN]
DbThumbnail == [parent : MediaIds, hash : Hashes, loc : Locations]

(* No row is confused with the absence of one. *)
ASSUME NoneIsNoRow == None \notin DbMedia \cup DbThumbnail

VARIABLES
    media,      \* the media table: a row or None, by media ID (unique index)
    thumbs,     \* the thumbnails table, a set of rows
    objects,    \* the datastores: the content at a location, or None
    allocated,  \* object names handed out by ids.NewUniqueId so far
    held,       \* media_id_hold: IDs handed out within the last seven days
    reserved,   \* reserved_media: IDs that were purged and may not return
    expiring,   \* expiring_media: created IDs still waiting for their upload
    restricted  \* restricted_media: IDs that need authentication

storeVars == <<media, thumbs, objects, allocated, held, reserved, expiring, restricted>>

StoreTypeOK ==
    /\ media \in [MediaIds -> DbMedia \cup {None}]
    /\ thumbs \subseteq DbThumbnail
    /\ objects \in [Locations -> Hashes \cup {Partial, None}]
    /\ allocated \subseteq Locations
    /\ held \subseteq LocalIds
    /\ reserved \subseteq LocalIds
    /\ expiring \subseteq LocalIds
    /\ restricted \subseteq MediaIds

StoreInit ==
    /\ media = [m \in MediaIds |-> None]
    /\ thumbs = {}
    /\ objects = [l \in Locations |-> None]
    /\ allocated = {}
    /\ held = {}
    /\ reserved = {}
    /\ expiring = {}
    /\ restricted = {}

-----------------------------------------------------------------------------
(* Table media.                                                            *)

IdExists(m) == media[m] # None
GetByHash(h) == {m \in MediaIds : IdExists(m) /\ media[m].hash = h}
GetByLocation(l) == {m \in MediaIds : IdExists(m) /\ media[m].loc = l}
IsHashQuarantined(h) == \E m \in GetByHash(h) : media[m].quarantined

MediaInsert(m, row) ==
    /\ ~IdExists(m)
    /\ media' = [media EXCEPT ![m] = row]

MediaDelete(m) == media' = [media EXCEPT ![m] = None]

(* UPDATE media SET datastore_id, location: every row at l moves to l2. *)
MediaUpdateLocation(l, l2) ==
    media' = [m \in MediaIds |->
        IF m \in GetByLocation(l) THEN [media[m] EXCEPT !.loc = l2] ELSE media[m]]

(* Every row of the hash among the IDs of the origin that is not pinned. *)
UpdateQuarantineByHashAndOrigin(ids, h) ==
    media' = [m \in MediaIds |->
        IF m \in (GetByHash(h) \cap ids) \ PinnedIds
        THEN [media[m] EXCEPT !.quarantined = TRUE] ELSE media[m]]

-----------------------------------------------------------------------------
(* Table thumbnails.  The parameters of a thumbnail (width, height,        *)
(* method, animated) determine its bytes, so the unique index on (media,   *)
(* parameters) is one on (parent, hash) here.                              *)

GetForMedia(m) == {t \in thumbs : t.parent = m}
ThumbParentsAt(l) == {t.parent : t \in {x \in thumbs : x.loc = l}}

ThumbInsert(t) ==
    /\ \A x \in thumbs : x.parent # t.parent \/ x.hash # t.hash
    /\ thumbs' = thumbs \cup {t}

ThumbUpdateLocation(l, l2) ==
    thumbs' = {IF t.loc = l THEN [t EXCEPT !.loc = l2] ELSE t : t \in thumbs}

-----------------------------------------------------------------------------
(* The datastores.                                                         *)

(* datastores.Upload that returns a location: a new name, the whole content. *)
StoreObject(l, h) ==
    /\ l \notin allocated
    /\ allocated' = allocated \cup {l}
    /\ objects' = [objects EXCEPT ![l] = h]

(* datastores.Upload that returns an error: nothing was written, the copy   *)
(* stopped half way, or size and hash did not match and the Remove that     *)
(* follows failed too.                                                      *)
StoreObjectFails(locs) ==
    \/ UNCHANGED <<objects, allocated>>
    \/ \E l \in locs : StoreObject(l, Partial)

(* datastores.Remove: an object that is already gone is not an error. *)
RemoveObject(l) == objects' = [objects EXCEPT ![l] = None]

-----------------------------------------------------------------------------
(* The refinement mapping: what a download of each ID finds, and which local   *)
(* IDs are spent.  A spent ID stays in media or in reserved_media.             *)

Visible == [m \in MediaIds |->
    IF IdExists(m) /\ objects[media[m].loc] = media[m].hash THEN media[m].hash ELSE None]

Retired == reserved \cup {m \in LocalIds : IdExists(m) /\ Visible[m] = None}

Service == INSTANCE MediaService WITH content <- Visible, retired <- Retired
=============================================================================
