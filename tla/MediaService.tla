---------------------------- MODULE MediaService ----------------------------
(***************************************************************************)
(* What the media repository promises the users of a media ID, whatever    *)
(* happens inside: an ID shows nothing, then one content, whole, and later *)
(* perhaps nothing again; it never shows another content in between, and   *)
(* an ID of our own domains that was removed never comes back.  Media of   *)
(* other servers may be fetched again after its removal.                   *)
(***************************************************************************)
CONSTANTS LocalIds, RemoteIds, Hashes, None

VARIABLES
    content,   \* the content a download of the ID returns, or None
    retired    \* local IDs that can get no content any more

serviceVars == <<content, retired>>

Ids == LocalIds \cup RemoteIds

ServiceInit ==
    /\ content = [m \in Ids |-> None]
    /\ retired = {}

(* An upload or a fetch of remote media becomes visible at once. *)
Publish(m, h) ==
    /\ content[m] = None
    /\ m \notin retired
    /\ content' = [content EXCEPT ![m] = h]
    /\ UNCHANGED retired

(* Media that shares a file is lost at the same moment. *)
Remove(S) ==
    /\ content' = [m \in Ids |-> IF m \in S THEN None ELSE content[m]]
    /\ retired' = retired \cup (S \cap LocalIds)

(* The ID is given up before its content goes. *)
Retire(m) ==
    /\ content[m] # None
    /\ retired' = retired \cup {m}
    /\ UNCHANGED content

ServiceNext ==
    \/ \E m \in Ids, h \in Hashes : Publish(m, h)
    \/ \E S \in SUBSET Ids : Remove(S)
    \/ \E m \in LocalIds : Retire(m)

ServiceSpec == ServiceInit /\ [][ServiceNext]_serviceVars
=============================================================================
