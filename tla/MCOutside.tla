----------------------------- MODULE MCOutside ------------------------------
(***************************************************************************)
(* Small instances, for TLC, of what the repository has to do with others: *)
(* the media of other servers and its copy, the calls to them, their keys, *)
(* pages that are previewed; and of what goes on beside the requests:      *)
(* quotas and recurring tasks.  These parts share no state, so a behaviour *)
(* is one of one part: the product of independent parts would show nothing *)
(* more.                                                                   *)
(***************************************************************************)
EXTENDS UrlPreviews, FederationKeys, ServerCalls, RecurringTasks, RemoteCopy, UploadQuota

(* Pages: with and without an image, that do not parse, that are too large, files *)
(* that are previewed and that are not, and with an answer of oEmbed.             *)
Page(e, g, t, p, i) == [embed |-> e, get |-> g, type |-> t, parses |-> p, image |-> i]
MCPages ==
    {Page("none", "ok", "text", TRUE, TRUE), Page("none", "ok", "text", TRUE, FALSE),
     Page("none", "ok", "text", FALSE, FALSE), Page("none", "large", "text", TRUE, TRUE),
     Page("none", "ok", "image", TRUE, FALSE), Page("none", "ok", "other", TRUE, FALSE),
     Page("ok", "fails", "text", TRUE, TRUE), Page("fails", "fails", "text", TRUE, TRUE)}

(* Requests without a signature, for any host, signed by someone else, and with *)
(* two headers that do not agree on the destination.                            *)
Header(o, d, w) == [origin |-> o, destination |-> d, key |-> 0, owner |-> w, covers |-> TRUE]
MCSigned ==
    {<< >>, <<Header("s1", "", "s1")>>, <<Header("s1", "us", "s2")>>,
     <<Header("s2", "us", "s2"), Header("s2", "s2", "s2")>>}

VARIABLE part   \* the part that runs

vars == <<part, previewVars, federationVars, callVars, recurringVars, copyVars, quotaVars>>

Init ==
    /\ part \in {"preview", "keys", "calls", "recurring", "copy", "quota"}
    /\ PreviewInit /\ FederationInit /\ CallInit /\ RecurringInit /\ CopyInit /\ QuotaInit
    /\ part # "calls" => behind = "breakers"

Runs(p) == part = p /\ UNCHANGED part

Next ==
    \/ Runs("preview") /\ PreviewNext
       /\ UNCHANGED <<federationVars, callVars, recurringVars, copyVars, quotaVars>>
    \/ Runs("keys") /\ FederationNext
       /\ UNCHANGED <<previewVars, callVars, recurringVars, copyVars, quotaVars>>
    \/ Runs("calls") /\ CallNext
       /\ UNCHANGED <<previewVars, federationVars, recurringVars, copyVars, quotaVars>>
    \/ Runs("recurring") /\ RecurringNext
       /\ UNCHANGED <<previewVars, federationVars, callVars, copyVars, quotaVars>>
    \/ Runs("copy") /\ CopyNext
       /\ UNCHANGED <<previewVars, federationVars, callVars, recurringVars, quotaVars>>
    \/ Runs("quota") /\ QuotaNext
       /\ UNCHANGED <<previewVars, federationVars, callVars, recurringVars, copyVars>>

(* What is possible again and again is done: a lock starves nobody, a call ends  *)
(* before everyone loses patience, a send to a loop that keeps coming back goes  *)
(* through.  One part runs, so one condition states it for all of them.          *)
NotStarved(c) ==
    \/ Runs("keys") /\ LockStep(c)
       /\ UNCHANGED <<previewVars, callVars, recurringVars, copyVars, quotaVars>>
    \/ Runs("calls") /\ CallEnds
       /\ UNCHANGED <<previewVars, federationVars, recurringVars, copyVars, quotaVars>>
    \/ Runs("recurring") /\ CtlStep
       /\ UNCHANGED <<previewVars, federationVars, callVars, copyVars, quotaVars>>

(* Requests, tasks and calls that have begun run on, and what is cached expires. *)
Fairness ==
    /\ \A a \in Askers : WF_previewVars(part = "preview" /\ PreviewStep(a))
    /\ \A c \in Inbound : WF_federationVars(part = "keys" /\ InboundStep(c))
    /\ \A s \in Servers : WF_federationVars(part = "keys" /\ KeysExpire(s))
    /\ \A c \in Callers : WF_callVars(part = "calls" /\ CallStep(c))
    /\ WF_copyVars(part = "copy" /\ CopyStep)
    /\ \A x \in Names \X Generations : WF_recurringVars(part = "recurring" /\ LoopStep(x))
    /\ \A c \in Inbound : SF_vars(NotStarved(c))

Spec == Init /\ [][Next]_vars /\ Fairness

-----------------------------------------------------------------------------
(* The variables of all parts have their types. *)
OutsideTypeOK ==
    PreviewTypeOK /\ FederationTypeOK /\ CallTypeOK /\ RecurringTypeOK /\ CopyTypeOK /\ QuotaTypeOK

(* Nobody is left waiting: a request for a preview by its flight, a request of   *)
(* another server by the lock of the keys (requests_signing.go:94), a client by  *)
(* the copy of what it asked for, a reload by the tasks it stops.                *)
NobodyWaitsForever == PreviewsEnd /\ InboundEnds /\ CopyEnds /\ StopAllEnds
=============================================================================
