----------------------------- MODULE MCClients ------------------------------
(***************************************************************************)
(* Small instances, for TLC, of what limits a client of the repository: it *)
(* waits for media that is not uploaded yet, and is known by its access    *)
(* token.  These parts share no state, so a behaviour is one of one part:  *)
(* the product of independent parts would show nothing more.               *)
(***************************************************************************)
EXTENDS UploadNotifier, AuthCache

(* A user's token, an appservice's, and the shared secret. *)
MCOwner == [t1 |-> "u1", as |-> "u2", secret |-> "u1"]
MCAppservices == [as |-> [sender |-> "u2", users |-> {"u1"}]]
MCClaims == {<<"t1", "">>, <<"t1", "u2">>, <<"as", "">>, <<"as", "u1">>}

VARIABLE part   \* the part that runs

vars == <<part, notifierVars, authVars>>

Init ==
    /\ part \in {"notifier", "auth"}
    /\ NotifierInit /\ AuthInit
    /\ part # "auth" => caching

Runs(p) == part = p /\ UNCHANGED part

Next ==
    \/ Runs("notifier") /\ NotifierNext /\ UNCHANGED <<authVars>>
    \/ Runs("auth") /\ AuthNext /\ UNCHANGED <<notifierVars>>

(* Requests and goroutines that have begun run on, and entries of the cache    *)
(* expire; nobody has to make a request, to upload or to lose patience.        *)
Fairness ==
    /\ WF_notifierVars(part = "notifier" /\ PutStep)
    /\ \A n \in Nodes : WF_notifierVars(part = "notifier" /\ NodeStep(n))
    /\ \A w \in Waiters : WF_notifierVars(part = "notifier" /\ WaiterStep(w))
    /\ \A c \in Callers : WF_authVars(part = "auth" /\ AuthWork(c))
    /\ \A k \in {CacheKey(c[1], c[2]) : c \in Claims} : WF_authVars(part = "auth" /\ EntryExpires(k))

Spec == Init /\ [][Next]_vars /\ Fairness

-----------------------------------------------------------------------------
(* The variables of all parts have their types. *)
ClientsTypeOK == NotifierTypeOK /\ AuthTypeOK
=============================================================================
