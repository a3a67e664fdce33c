----------------------------- MODULE MCServing ------------------------------
(***************************************************************************)
(* Small instances, for TLC, of how media is served: the download          *)
(* pipeline, the copy in Redis, and thumbnails with their sizes and their  *)
(* expiry.  These parts share no state, so a behaviour is one of one part: *)
(* the product of independent parts would show nothing more.               *)
(***************************************************************************)
EXTENDS DownloadPipeline, RedisCache, ThumbnailPipeline, ThumbnailSizes, ThumbnailPurge

(* A download that may go to the origin, and a HEAD of what is known. *)
MCOptions == {[fetch |-> TRUE, head |-> FALSE], [fetch |-> FALSE, head |-> TRUE]}

(* The requests come by different names of the repository. *)
MCHostOf == [r \in Requests |-> IF r \in Anonymous THEN "h1" ELSE "h2"]

(* Three thumbnails, two of the same content. *)
MCLocOf == <<"x", "y", "x">>

(* Configured sizes: growing in both directions, out of order, and a single one. *)
MCSizeLists == {<<Size(2, 2), Size(4, 3), Size(3, 5)>>, <<Size(6, 6), Size(3, 3)>>, <<Size(3, 2)>>}

VARIABLE part   \* the part that runs

vars == <<part, downloadVars, redisVars, thumbnailVars, sizeVars, thumbPurgeVars>>

(* A still is large and an animation is small: the forms of a large still share  *)
(* a record, those of an animation never do, and what is small has no still.     *)
Init ==
    /\ part \in {"download", "redis", "thumbnail", "sizes", "expiry"}
    /\ DownloadInit /\ RedisInit /\ ThumbnailInit /\ SizesInit /\ ThumbPurgeInit
    /\ part # "download" => ours
    /\ part # "redis" => ring
    /\ moving = tiny
    /\ part # "thumbnail" => moving
    /\ part # "sizes" => /\ asked = [w |-> 1, h |-> 1, crop |-> FALSE, animated |-> FALSE]
                         /\ sizes = <<Size(3, 2)>> /\ dynamic /\ image = Size(1, 1)

Runs(p) == part = p /\ UNCHANGED part

Next ==
    \/ Runs("download") /\ DownloadNext /\ UNCHANGED <<redisVars, thumbnailVars, sizeVars, thumbPurgeVars>>
    \/ Runs("redis") /\ RedisNext /\ UNCHANGED <<downloadVars, thumbnailVars, sizeVars, thumbPurgeVars>>
    \/ Runs("thumbnail") /\ ThumbnailNext /\ UNCHANGED <<downloadVars, redisVars, sizeVars, thumbPurgeVars>>
    \/ Runs("sizes") /\ SizesNext /\ UNCHANGED <<downloadVars, redisVars, thumbnailVars, thumbPurgeVars>>
    \/ Runs("expiry") /\ ThumbPurgeNext /\ UNCHANGED <<downloadVars, redisVars, thumbnailVars, sizeVars>>

(* Requests, goroutines and tasks that have begun run on; nobody has to make a  *)
(* request or a mistake.                                                        *)
Fairness ==
    /\ \A r \in Requests : WF_downloadVars(part = "download" /\ DownloadStep(r))
    /\ \A w \in Writers : WF_redisVars(part = "redis" /\ RedisWork(w))
    /\ \A r \in Viewers : WF_thumbnailVars(part = "thumbnail" /\ ViewStep(r))
    /\ WF_thumbPurgeVars(part = "expiry" /\ ExpiryStep)

Spec == Init /\ [][Next]_vars /\ Fairness

-----------------------------------------------------------------------------
(* The variables of all parts have their types. *)
ServingTypeOK == DownloadTypeOK /\ RedisTypeOK /\ ThumbnailTypeOK /\ ThumbPurgeTypeOK
=============================================================================
