------------------------- MODULE ThumbnailPipeline -------------------------
(***************************************************************************)
(* Requests for a thumbnail of one media in one size                       *)
(* (pipelines/pipeline_thumbnail, pipelines/_steps/thumbnails/generate.go, *)
(* api/r0/thumbnail.go).  Requests for the same form, animated or still,   *)
(* share the record (recordSf) and the stream (streamSf); one of them      *)
(* checks the media and generates what is missing.                         *)
(***************************************************************************)
EXTENDS FiniteSets

CONSTANTS
    Viewers,           \* requests
    NoViewer,
    RateLimited,       \* rateLimit.enabled
    ReplaceThumbnails  \* quarantine.replaceThumbnails

ASSUME ThumbnailAssumption ==
    /\ NoViewer \notin Viewers
    /\ {RateLimited, ReplaceThumbnails} \subseteq BOOLEAN

VARIABLES
    moving,      \* the media is an animation
    tiny,        \* the media is smaller than the thumbnail
    source,      \* the media's row
    known,       \* the thumbnails table: animated -> the record
    keyCache,    \* recordSf's cache: animated -> a record, Nil, or nothing
    keyFlight,   \* streamSf: animated -> the request that runs
    view,        \* the requests
    vanished     \* history: rows were deleted

thumbnailVars == <<moving, tiny, source, known, keyCache, keyFlight, view, vanished>>

Nil == "nil"                      \* a nil record, also as a cached value
Missing == "missing"              \* no entry in the cache
Records == {"still", "moving"}    \* what the record's file shows
FlightResults == {"", "thumb", "image", "original", "quarantined", "notFound", "error"}
ViewOutcomes == FlightResults \cup {"unexpected", "panic"}

NoView == [pc |-> "idle", want |-> FALSE, rec |-> Nil, made |-> Nil, res |-> "", out |-> ""]

ThumbnailTypeOK ==
    /\ {moving, tiny, vanished} \subseteq BOOLEAN
    /\ source \in {"ok", "quarantined", "gone"}
    /\ known \in [BOOLEAN -> Records \cup {Nil}]
    /\ keyCache \in [BOOLEAN -> Records \cup {Nil, Missing}]
    /\ keyFlight \in [BOOLEAN -> Viewers \cup {NoViewer}]
    /\ view \in [Viewers -> [pc : {"idle", "lookup", "store", "charge", "join", "joined", "media", "again", "open",
                                   "generate", "existing", "put", "overwrite", "landed", "result", "refetch", "done"},
                             want : BOOLEAN, rec : Records \cup {Nil}, made : Records \cup {Nil},
                             res : FlightResults, out : ViewOutcomes]]

ThumbnailInit ==
    /\ moving \in BOOLEAN /\ tiny \in BOOLEAN
    /\ source = "ok"
    /\ known = [a \in BOOLEAN |-> Nil]
    /\ keyCache = [a \in BOOLEAN |-> Missing]
    /\ keyFlight = [a \in BOOLEAN |-> NoViewer]
    /\ view = [r \in Viewers |-> NoView]
    /\ vanished = FALSE

ViewAt(r, pc) == view[r].pc = pc
ViewGoes(r, pc) == view' = [view EXCEPT ![r].pc = pc]
ViewEnds(r, out) == view' = [view EXCEPT ![r].pc = "done", ![r].out = out]
Lands(l, res) == view' = [view EXCEPT ![l].pc = "landed", ![l].res = res]
sourceVars == <<moving, tiny, source, vanished>>

(* recordSf.Do: the cache, or GetByParams. *)
FoundRecord(want) == IF keyCache[want] # Missing THEN keyCache[want] ELSE known[want]

-----------------------------------------------------------------------------
(* A viewer before it joins the flight. *)

StartView(r, want) ==
    /\ ViewAt(r, "idle")
    /\ view' = [view EXCEPT ![r].pc = "lookup", ![r].want = want]
    /\ UNCHANGED <<sourceVars, known, keyCache, keyFlight>>

LookUpRecord(r) ==
    /\ ViewAt(r, "lookup")
    /\ LET rec == FoundRecord(view[r].want) IN
           view' = [view EXCEPT ![r].rec = rec, ![r].pc = IF rec = Nil THEN "charge" ELSE "store"]
    /\ UNCHANGED <<sourceVars, known, keyCache, keyFlight>>

StoreRecordOf(r) ==
    /\ ViewAt(r, "store")
    /\ keyCache' = [keyCache EXCEPT ![view[r].want] = view[r].rec]
    /\ ViewGoes(r, "charge")
    /\ UNCHANGED <<sourceVars, known, keyFlight>>

ChargeBucket(r) ==
    /\ ViewAt(r, "charge")
    /\ \/ ViewGoes(r, "join")
       \/ RateLimited /\ view[r].rec # Nil /\ ViewEnds(r, "error")
    /\ UNCHANGED <<sourceVars, known, keyCache, keyFlight>>

JoinFlight(r) ==
    /\ ViewAt(r, "join")
    /\ IF keyFlight[view[r].want] = NoViewer
       THEN /\ keyFlight' = [keyFlight EXCEPT ![view[r].want] = r]
            /\ ViewGoes(r, "media")
       ELSE /\ ViewGoes(r, "joined")
            /\ UNCHANGED keyFlight
    /\ UNCHANGED <<sourceVars, known, keyCache>>

-----------------------------------------------------------------------------
(* The flight. *)

(* Mutant: a record in hand spares the question for the media. *)
CheckMediaUnlessKnown(l) ==
    /\ ViewAt(l, "media")
    /\ IF view[l].rec # Nil \/ source = "ok" THEN ViewGoes(l, "again")
       ELSE Lands(l, "notFound")
    /\ UNCHANGED <<sourceVars, known, keyCache, keyFlight>>

(* Step 4: pipeline_download.Execute for the record; the quarantine image comes  *)
(* without an error.                                                             *)
CheckMedia(l) ==
    /\ ViewAt(l, "media")
    /\ \/ /\ source = "ok"
          /\ ViewGoes(l, "again")
          /\ UNCHANGED keyCache
       \/ /\ source = "quarantined"
          /\ keyCache' = [keyCache EXCEPT ![view[l].want] = Nil]
          /\ Lands(l, IF ReplaceThumbnails THEN "image" ELSE "quarantined")
       \/ /\ source = "gone"
          /\ Lands(l, "notFound")
          /\ UNCHANGED keyCache
    /\ UNCHANGED <<sourceVars, known, keyFlight>>

(* Step 5 *)
LookAgain(l) ==
    /\ ViewAt(l, "again")
    /\ LET w == view[l].want
           rec == IF view[l].rec # Nil THEN view[l].rec ELSE FoundRecord(w)
       IN  /\ view' = [view EXCEPT ![l].rec = rec, ![l].pc = IF rec = Nil THEN "generate" ELSE "open"]
           /\ keyCache' = IF view[l].rec = Nil /\ rec # Nil THEN [keyCache EXCEPT ![w] = rec] ELSE keyCache
    /\ UNCHANGED <<sourceVars, known, keyFlight>>

OpenThumbnail(l) ==
    /\ ViewAt(l, "open")
    /\ \E res \in {"thumb", "error"} : Lands(l, res)
    /\ UNCHANGED <<sourceVars, known, keyCache, keyFlight>>

(* Step 6: Generate.  A still of a media that is too small is the media itself;   *)
(* what cannot move comes out as a still.                                         *)
GenerateThumbnail(l) ==
    /\ ViewAt(l, "generate")
    /\ \/ Lands(l, "error")
       \/ /\ tiny /\ ~view[l].want
          /\ Lands(l, "original")
       \/ /\ ~(tiny /\ ~view[l].want)
          /\ view' = [view EXCEPT ![l].made = IF view[l].want /\ moving THEN "moving" ELSE "still",
                                  ![l].pc = IF view[l].want /\ ~moving THEN "existing" ELSE "put"]
    /\ UNCHANGED <<sourceVars, known, keyCache, keyFlight>>

(* The still exists: it gets a second row, so that it is found the next time. *)
UseExistingStill(l) ==
    /\ ViewAt(l, "existing")
    /\ \/ /\ known[FALSE] = Nil
          /\ ViewGoes(l, "put")
          /\ UNCHANGED known
       \/ /\ known[FALSE] # Nil
          /\ known' = [known EXCEPT ![TRUE] = IF @ = Nil THEN known[FALSE] ELSE @]
          /\ \/ ViewGoes(l, "overwrite")
             \/ Lands(l, "error")
    /\ UNCHANGED <<sourceVars, keyCache, keyFlight>>

(* PutAndReturnStream and Insert, which fails when the row is there. *)
PutThumbnail(l) ==
    /\ ViewAt(l, "put")
    /\ LET animated == view[l].made = "moving" IN
           \/ /\ known[animated] = Nil
              /\ known' = [known EXCEPT ![animated] = view[l].made]
              /\ ViewGoes(l, "overwrite")
           \/ /\ UNCHANGED known
              /\ Lands(l, "error")
    /\ UNCHANGED <<sourceVars, keyCache, keyFlight>>

(* OverwriteCacheKey; the record of the closure is not the caller's. *)
OverwriteKey(l) ==
    /\ ViewAt(l, "overwrite")
    /\ keyCache' = [keyCache EXCEPT ![view[l].want] = view[l].made]
    /\ Lands(l, "thumb")
    /\ UNCHANGED <<sourceVars, known, keyFlight>>

FlightLands(l) ==
    /\ ViewAt(l, "landed")
    /\ keyFlight' = [keyFlight EXCEPT ![view[l].want] = NoViewer]
    /\ view' = [r \in Viewers |->
                   IF r = l \/ (ViewAt(r, "joined") /\ view[r].want = view[l].want)
                   THEN [view[r] EXCEPT !.pc = "result", !.res = view[l].res, !.made = Nil] ELSE view[r]]
    /\ UNCHANGED <<sourceVars, known, keyCache>>

-----------------------------------------------------------------------------
(* A viewer after the flight. *)

(* An error; the refund takes the size of a record that may be nil. *)
ResultIsError(r) ==
    /\ ViewAt(r, "result")
    /\ view[r].res \in {"original", "quarantined", "notFound", "error"}
    /\ ViewEnds(r, IF view[r].res # "quarantined" THEN view[r].res
                   ELSE IF RateLimited /\ view[r].rec = Nil THEN "panic" ELSE "notFound")
    /\ UNCHANGED <<sourceVars, known, keyCache, keyFlight>>

ResultIsStream(r) ==
    /\ ViewAt(r, "result")
    /\ view[r].res \in {"thumb", "image"}
    /\ IF view[r].rec = Nil THEN ViewGoes(r, "refetch") ELSE ViewEnds(r, view[r].res)
    /\ UNCHANGED <<sourceVars, known, keyCache, keyFlight>>

(* "Re-fetch, hopefully from cache" *)
RefetchRecord(r) ==
    /\ ViewAt(r, "refetch")
    /\ LET rec == FoundRecord(view[r].want) IN
           /\ ViewEnds(r, IF rec = Nil THEN "unexpected" ELSE view[r].res)
           /\ keyCache' = IF rec = Nil THEN keyCache ELSE [keyCache EXCEPT ![view[r].want] = rec]
    /\ UNCHANGED <<sourceVars, known, keyFlight>>

(* The deferred ForgetCacheKey. *)
ForgetKey(r) ==
    /\ ViewAt(r, "done")
    /\ keyCache' = [keyCache EXCEPT ![view[r].want] = Missing]
    /\ view' = [view EXCEPT ![r] = NoView]
    /\ UNCHANGED <<sourceVars, known, keyFlight>>

-----------------------------------------------------------------------------
(* Other tasks. *)

QuarantineSource ==
    /\ source = "ok"
    /\ source' = "quarantined"
    /\ UNCHANGED <<moving, tiny, vanished, known, keyCache, keyFlight, view>>

(* The purge of the media, or of its expired thumbnails. *)
DeleteRows ==
    /\ source' \in {source, "gone"}
    /\ vanished' = TRUE
    /\ \E kept \in {a \in [BOOLEAN -> Records \cup {Nil}] : \A b \in BOOLEAN : a[b] \in {Nil, known[b]}} :
           known' = IF source' = "gone" THEN [b \in BOOLEAN |-> Nil] ELSE kept
    /\ UNCHANGED <<moving, tiny, keyCache, keyFlight, view>>

ViewStep(r) ==
    \/ LookUpRecord(r) \/ StoreRecordOf(r) \/ ChargeBucket(r) \/ JoinFlight(r) \/ CheckMedia(r)
    \/ LookAgain(r) \/ OpenThumbnail(r) \/ GenerateThumbnail(r) \/ UseExistingStill(r) \/ PutThumbnail(r)
    \/ OverwriteKey(r) \/ FlightLands(r) \/ ResultIsError(r) \/ ResultIsStream(r) \/ RefetchRecord(r)
    \/ ForgetKey(r)

ThumbnailNext ==
    \/ \E r \in Viewers : ViewStep(r) \/ \E want \in BOOLEAN : StartView(r, want)
    \/ QuarantineSource \/ DeleteRows

ThumbnailSpec ==
    ThumbnailInit /\ [][ThumbnailNext]_thumbnailVars /\ \A r \in Viewers : WF_thumbnailVars(ViewStep(r))

-----------------------------------------------------------------------------
(* Properties. *)

(* No request fails for want of the record of a thumbnail that is there, whoever *)
(* generated it and whoever forgot the shared key in between (pipeline.go:182-   *)
(* 193).  Excepted are quarantined media, deleted rows, and an animated request  *)
(* for a still image, whose row is found under another key.                      *)
ViewersFindTheRecord ==
    \A r \in Viewers :
        view[r].out = "unexpected" => vanished \/ source # "ok" \/ (view[r].want /\ ~moving)

(* Once media is quarantined or gone, requests stop getting its thumbnails, those that   *)
(* exist and those that a request has in hand (pipeline.go:122-134).             *)
QuarantineHidesThumbnails ==
    <>[](source # "ok" => \A r \in Viewers : view[r].out \notin {"thumb", "original"})

(* Thumbnails follow their media: they are found as long as it is there, and not *)
(* sent when it is not (pipeline.go:115-205).                                    *)
ThumbnailsFollowTheirMedia == []ViewersFindTheRecord /\ QuarantineHidesThumbnails
=============================================================================
