--------------------------- MODULE UploadNotifier ---------------------------
(***************************************************************************)
(* Asynchronous uploads: a download of a media ID that was created but not *)
(* uploaded yet waits for the upload (download/wait.go), and the upload    *)
(* pipeline wakes the waiting requests of every node of the cluster        *)
(* (notifier/uploads.go, redislib/pubsub.go).  Media IDs do not influence  *)
(* each other, so the module follows one of them.                          *)
(*                                                                         *)
(* GetUploadWaitChannel, its finish function and the loop of               *)
(* noRelayNotifyUpload hold uploadMutex from start to end and are single   *)
(* steps.  That is only right while no send in the loop blocks, which      *)
(* ChannelsStaySendable checks.                                            *)
(***************************************************************************)
EXTENDS Naturals, FiniteSets

CONSTANTS
    Nodes,          \* processes of the cluster
    UploadNode,     \* the one that receives the PUT
    Waiters,        \* download requests
    None

ASSUME NotifierAssumption ==
    /\ UploadNode \in Nodes
    /\ None \notin Nodes
    /\ IsFiniteSet(Waiters)

VARIABLES
    row,         \* the media row exists
    expected,    \* an unexpired expiring_media row exists
    put,         \* program counter of the PUT request
    notes,       \* goroutines of noRelayNotifyUpload that have not run yet
    relay,       \* published MXCs on their way to the node's relay loops
    subscribed,  \* subscriptions of the node to mmr:upload_mxc, each with its loop
    waiters,     \* localUploadWaiters: the channels the node would send to
    wt,          \* the waiting requests
    missed       \* history: the publish, or the lookup of a relay loop, has failed

notifierVars == <<row, expected, put, notes, relay, subscribed, waiters, wt, missed>>

PutPcs == {"idle", "inserted", "spawned", "returned", "done"}
WaiterPcs == {"idle", "getExpiring", "checkSubscription", "subscribe", "register", "wait", "finish"}

WaiterState ==
    [pc : WaiterPcs, node : Nodes \cup {None}, ch : {"closed", "empty", "full"},
     result : {"none", "record", "notYet", "noRecord"},
     timing : {"early", "relayed", "late"}]   \* history: see Timing

(* A request that has ended keeps its answer until the client asks again. *)
Answered(result, timing) ==
    [pc |-> "idle", node |-> None, ch |-> "closed", result |-> result,
     timing |-> IF result = "notYet" THEN timing ELSE "early"]
NotWaiting == Answered("none", "early")

NotifierTypeOK ==
    /\ row \in BOOLEAN
    /\ expected \in BOOLEAN
    /\ put \in PutPcs
    /\ notes \in [Nodes -> 0..(Cardinality(Waiters) + 1)]
    /\ relay \in [Nodes -> 0..Cardinality(Waiters)]
    /\ subscribed \in [Nodes -> 0..Cardinality(Waiters)]
    /\ waiters \in [Nodes -> SUBSET Waiters]
    /\ wt \in [Waiters -> WaiterState]
    /\ missed \in BOOLEAN

(* POST /create has just returned the media ID. *)
NotifierInit ==
    /\ row = FALSE
    /\ expected = TRUE
    /\ put = "idle"
    /\ notes = [n \in Nodes |-> 0]
    /\ relay = [n \in Nodes |-> 0]
    /\ subscribed = [n \in Nodes |-> 0]
    /\ waiters = [n \in Nodes |-> {}]
    /\ wt = [w \in Waiters |-> NotWaiting]
    /\ missed = FALSE

-----------------------------------------------------------------------------
(* The PUT request: ExecutePut and the end of Execute. *)

PutInsert ==
    /\ put = "idle"
    /\ expected
    /\ row' = TRUE
    /\ put' = "inserted"
    /\ UNCHANGED <<expected, notes, relay, subscribed, waiters, wt, missed>>

(* UploadDone first starts the local goroutine ... *)
PutNotify ==
    /\ put = "inserted"
    /\ notes' = [notes EXCEPT ![UploadNode] = @ + 1]
    /\ put' = "spawned"
    /\ UNCHANGED <<row, expected, relay, subscribed, waiters, wt, missed>>

(* ... and then publishes to every node that has subscribed, itself included. *)
(* A node with several subscriptions reads one or more of them, because all   *)
(* its loops receive from the variable that the latest one has set.  The      *)
(* publish may fail; without Redis it always does.                            *)
Delivered == {f \in [Nodes -> 0..Cardinality(Waiters)] :
    \A n \in Nodes : f[n] <= subscribed[n] /\ (subscribed[n] > 0 => f[n] > 0)}

PutPublish ==
    /\ put = "spawned"
    /\ \/ relay' \in Delivered /\ UNCHANGED missed
       \/ missed' = TRUE /\ UNCHANGED relay
    /\ put' = "returned"
    /\ UNCHANGED <<row, expected, notes, subscribed, waiters, wt>>

PutDeleteHold ==
    /\ put = "returned"
    /\ expected' = FALSE
    /\ put' = "done"
    /\ UNCHANGED <<row, notes, relay, subscribed, waiters, wt, missed>>

(* expires_ts passes without an upload. *)
Expire ==
    /\ expected
    /\ expected' = FALSE
    /\ UNCHANGED <<row, put, notes, relay, subscribed, waiters, wt, missed>>

-----------------------------------------------------------------------------
(* notifier/uploads.go. *)

(* The loop over the waiting channels, each of capacity one. *)
NoRelayNotifyUpload(n) ==
    /\ notes[n] > 0
    /\ notes' = [notes EXCEPT ![n] = @ - 1]
    /\ wt' = [w \in Waiters |-> IF w \in waiters[n] THEN [wt[w] EXCEPT !.ch = "full"] ELSE wt[w]]
    /\ waiters' = [waiters EXCEPT ![n] = {}]
    /\ UNCHANGED <<row, expected, put, relay, subscribed, missed>>

(* A relay loop looks the MXC up in its own database connection; when that     *)
(* fails the message is dropped.                                               *)
RelayUpload(n) ==
    /\ relay[n] > 0
    /\ relay' = [relay EXCEPT ![n] = @ - 1]
    /\ \/ /\ notes' = IF row THEN [notes EXCEPT ![n] = @ + 1] ELSE notes
          /\ UNCHANGED missed
       \/ missed' = TRUE /\ UNCHANGED notes
    /\ UNCHANGED <<row, expected, put, subscribed, waiters, wt>>

-----------------------------------------------------------------------------
(* The download requests: fetchRecordFn and WaitForAsyncMedia. *)

GetById(w) ==
    /\ wt[w].pc = "idle"
    /\ \/ row /\ wt' = [wt EXCEPT ![w] = Answered("record", "early")]
       \/ /\ ~row
          /\ \E n \in Nodes :
                 wt' = [wt EXCEPT ![w] = [NotWaiting EXCEPT !.pc = "getExpiring", !.node = n]]
    /\ UNCHANGED <<row, expected, put, notes, relay, subscribed, waiters, missed>>

GetExpiring(w) ==
    /\ wt[w].pc = "getExpiring"
    /\ wt' = IF expected THEN [wt EXCEPT ![w].pc = "checkSubscription"]
                        ELSE [wt EXCEPT ![w] = Answered("noRecord", "early")]
    /\ UNCHANGED <<row, expected, put, notes, relay, subscribed, waiters, missed>>

(* subscribeRedisUploads reads uploadsRedisChan without the mutex ... *)
CheckSubscription(w) ==
    /\ wt[w].pc = "checkSubscription"
    /\ wt' = [wt EXCEPT ![w].pc = IF subscribed[wt[w].node] > 0 THEN "register" ELSE "subscribe"]
    /\ UNCHANGED <<row, expected, put, notes, relay, subscribed, waiters, missed>>

(* Mutant: the node does not listen to Redis. *)
SubscribeForgotten(w) ==
    /\ wt[w].pc = "subscribe"
    /\ wt' = [wt EXCEPT ![w].pc = "register"]
    /\ UNCHANGED <<row, expected, put, notes, relay, subscribed, waiters, missed>>

(* ... and does not look again under it: requests that have both found nothing *)
(* subscribe twice.                                                            *)
SubscribeRedisUploads(w) ==
    /\ wt[w].pc = "subscribe"
    /\ subscribed' = [subscribed EXCEPT ![wt[w].node] = @ + 1]
    /\ wt' = [wt EXCEPT ![w].pc = "register"]
    /\ UNCHANGED <<row, expected, put, notes, relay, waiters, missed>>

(* How a request that registers now can be woken by the upload: by a goroutine *)
(* of its node that has not run yet, by nothing but a message of Redis, or not *)
(* at all, because the upload is in the database and all announcements of it   *)
(* have passed.                                                                *)
Timing(n) ==
    CASE notes[n] > 0 \/ (n = UploadNode /\ put \in {"idle", "inserted"}) -> "early"
      [] put \in {"returned", "done"} /\ notes[n] = 0 /\ relay[n] = 0 -> "late"
      [] OTHER -> "relayed"

GetUploadWaitChannel(w) ==
    /\ wt[w].pc = "register"
    /\ waiters' = [waiters EXCEPT ![wt[w].node] = @ \cup {w}]
    /\ wt' = [wt EXCEPT ![w].pc = "wait", ![w].ch = "empty", ![w].timing = Timing(wt[w].node)]
    /\ UNCHANGED <<row, expected, put, notes, relay, subscribed, missed>>

ReceiveRecord(w) ==
    /\ wt[w].pc = "wait"
    /\ wt[w].ch = "full"
    /\ wt' = [wt EXCEPT ![w].pc = "finish", ![w].ch = "empty", ![w].result = "record"]
    /\ UNCHANGED <<row, expected, put, notes, relay, subscribed, waiters, missed>>

TimeOut(w) ==
    /\ wt[w].pc = "wait"
    /\ wt' = [wt EXCEPT ![w].pc = "finish", ![w].result = "notYet"]
    /\ UNCHANGED <<row, expected, put, notes, relay, subscribed, waiters, missed>>

(* Mutant: the channel is closed, but not taken off the list. *)
FinishWithoutUnregistering(w) ==
    /\ wt[w].pc = "finish"
    /\ wt' = [wt EXCEPT ![w] = Answered(wt[w].result, wt[w].timing)]
    /\ UNCHANGED <<row, expected, put, notes, relay, subscribed, waiters, missed>>

(* The deferred finish function. *)
FinishWait(w) ==
    /\ wt[w].pc = "finish"
    /\ waiters' = [waiters EXCEPT ![wt[w].node] = @ \ {w}]
    /\ wt' = [wt EXCEPT ![w] = Answered(wt[w].result, wt[w].timing)]
    /\ UNCHANGED <<row, expected, put, notes, relay, subscribed, missed>>

WaiterStep(w) ==
    \/ GetExpiring(w) \/ CheckSubscription(w) \/ SubscribeRedisUploads(w)
    \/ GetUploadWaitChannel(w) \/ ReceiveRecord(w) \/ FinishWait(w)

NodeStep(n) == NoRelayNotifyUpload(n) \/ RelayUpload(n)

PutStep == PutNotify \/ PutPublish \/ PutDeleteHold

NotifierNext ==
    \/ PutInsert \/ PutStep \/ Expire
    \/ \E n \in Nodes : NodeStep(n)
    \/ \E w \in Waiters : GetById(w) \/ WaiterStep(w) \/ TimeOut(w)

(* Started requests and goroutines run on; nobody has to start a download, to  *)
(* upload, to be impatient, or to let an ID expire.                            *)
NotifierFairness ==
    /\ WF_notifierVars(PutStep)
    /\ \A n \in Nodes : WF_notifierVars(NodeStep(n))
    /\ \A w \in Waiters : WF_notifierVars(WaiterStep(w))

NotifierSpec == NotifierInit /\ [][NotifierNext]_notifierVars /\ NotifierFairness

-----------------------------------------------------------------------------
(* Properties. *)

(* Every channel the notify loop would send to is open and has room: no send  *)
(* panics, and no send blocks while uploadMutex is held, which would hang all *)
(* downloads of pending media on the node.  UploadDone notifies a node twice, *)
(* once directly and once through Redis (uploads.go:54-55), and more often    *)
(* when it has subscribed more than once (uploads.go:75).                     *)
ChannelsStaySendable ==
    \A n \in Nodes : \A w \in waiters[n] :
        wt[w].ch = "empty" /\ wt[w].node = n /\ wt[w].pc \in {"wait", "finish"}

(* A request that was registered before the wake-up reached its node gets its *)
(* record unless its own client gives up first: from a goroutine of the node, *)
(* whatever Redis does, or else from the relay, unless Redis or the database  *)
(* fail it.  The subscription comes before the registration (uploads.go:20)   *)
(* and the insert before both notifications (uploads.go:54-55).               *)
EarlyWaiterIsServed ==
    \A w \in Waiters :
        []<>((wt[w].pc = "wait" /\ row /\ wt[w].timing # "late") =>
                (wt[w].result # "none" \/ (missed /\ wt[w].timing = "relayed")))

(* "media not yet uploaded" (common/errors.go:17) is never the answer when the *)
(* upload was complete and announced before the request began to wait.  The   *)
(* lookups in wait.go:12-18 come before the channel is registered, and        *)
(* nothing looks for the row again afterwards.                                *)
NotYetUploadedIsTrue ==
    \A w \in Waiters : wt[w].result = "notYet" => wt[w].timing # "late"
=============================================================================
