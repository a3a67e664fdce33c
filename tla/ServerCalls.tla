---------------------------- MODULE ServerCalls ----------------------------
(***************************************************************************)
(* Calls to a homeserver (matrix/breakers.go, requests_auth.go,            *)
(* requests_admin.go) and to other servers (FederatedGet), each through    *)
(* the circuit breaker of its host.  The breaker is created by the first   *)
(* call; it counts failures in a row, trips at BackoffAt, and then lets a  *)
(* call through once in a while until one succeeds                         *)
(* (github.com/rubyist/circuitbreaker).                                    *)
(***************************************************************************)
EXTENDS Naturals, FiniteSets

CONSTANTS
    Callers,      \* goroutines that call the host again and again
    BackoffAt,    \* homeservers.backoffAt, federation.backoffAt
    NoBreaker

ASSUME CallAssumption ==
    /\ BackoffAt \in Nat \ {0}
    /\ NoBreaker \notin Callers

VARIABLES
    behind,      \* the sync.Map: "breakers" or "federationBreakers"
    table,       \* its entry: the host's breaker, named for its creator
    breakers,    \* every breaker that was created
    remoteCall,  \* the callers
    hostFails,   \* the host fails, from now on
    faults       \* history: answers that were not about a token

callVars == <<behind, table, breakers, remoteCall, hostFails, faults>>

Kinds == {"whoami", "media", "federation"}
(* The calls that look for their breaker in this map. *)
KindsHere == IF behind = "breakers" THEN {"whoami", "media"} ELSE {"federation"}
(* What the host does to a call. *)
HostAnswers == {"ok", "badToken", "notFound", "fails"}
(* What a caller gets. *)
CallResults == {"", "ok", "invalidToken", "error", "open", "timeout"}
Closed == [fails |-> 0, tripped |-> FALSE]
NewCall == [pc |-> "idle", kind |-> "whoami", of |-> NoBreaker, got |-> ""]

CallTypeOK ==
    /\ behind \in {"breakers", "federationBreakers"}
    /\ table \in Callers \cup {NoBreaker}
    /\ breakers \in [Callers -> [fails : 0..BackoffAt, tripped : BOOLEAN]]
    /\ remoteCall \in [Callers -> [pc : {"idle", "create", "ready", "calling", "done"}, kind : Kinds,
                                   of : Callers \cup {NoBreaker}, got : CallResults]]
    /\ {hostFails, faults} \subseteq BOOLEAN
    /\ \A c \in Callers : remoteCall[c].pc \in {"ready", "calling"} => remoteCall[c].of # NoBreaker

CallInit ==
    /\ behind \in {"breakers", "federationBreakers"}
    /\ table = NoBreaker
    /\ breakers = [c \in Callers |-> Closed]
    /\ remoteCall = [c \in Callers |-> NewCall]
    /\ hostFails = FALSE
    /\ faults = FALSE

CallAt(c, pc) == remoteCall[c].pc = pc
CallReturns(c, got) == remoteCall' = [remoteCall EXCEPT ![c].pc = "done", ![c].got = got]

-----------------------------------------------------------------------------
(* getBreakerAndConfig, getFederationBreaker *)

LoadBreaker(c, kind) ==
    /\ CallAt(c, "idle")
    /\ remoteCall' = [remoteCall EXCEPT ![c].pc = IF table = NoBreaker THEN "create" ELSE "ready",
                                         ![c].kind = kind, ![c].of = table]
    /\ UNCHANGED <<behind, table, breakers, hostFails, faults>>

(* Mutant: the new breaker is not stored. *)
UseOwnBreaker(c) ==
    /\ CallAt(c, "create")
    /\ remoteCall' = [remoteCall EXCEPT ![c].pc = "ready", ![c].of = c]
    /\ UNCHANGED <<behind, table, breakers, hostFails, faults>>

(* Two callers that both found none both store theirs. *)
StoreBreaker(c) ==
    /\ CallAt(c, "create")
    /\ table' = c
    /\ remoteCall' = [remoteCall EXCEPT ![c].pc = "ready", ![c].of = c]
    /\ UNCHANGED <<behind, breakers, hostFails, faults>>

-----------------------------------------------------------------------------
(* CallContext *)

Failed(b) == [fails |-> IF b.fails < BackoffAt THEN b.fails + 1 ELSE b.fails,
              tripped |-> b.tripped \/ b.fails + 1 >= BackoffAt]

(* Ready: a tripped breaker lets a call through when the backoff is over. *)
AskBreaker(c) ==
    /\ CallAt(c, "ready")
    /\ \/ /\ breakers[remoteCall[c].of].tripped
          /\ CallReturns(c, "open")
       \/ remoteCall' = [remoteCall EXCEPT ![c].pc = "calling"]
    /\ UNCHANGED <<behind, table, breakers, hostFails, faults>>

(* What the breaker and the caller learn: doBreakerRequest with filterError, the *)
(* admin requests, whose filtered error is overwritten by the breaker's, and     *)
(* FederatedGet, which takes a 404 for an answer.                                *)
Outcome(kind, answer) ==
    CASE answer = "ok" -> [breaker |-> "ok", caller |-> "ok"]
      [] answer = "badToken" /\ kind = "whoami" -> [breaker |-> "ok", caller |-> "invalidToken"]
      [] answer = "badToken" /\ kind = "media" -> [breaker |-> "ok", caller |-> "ok"]
      [] answer = "notFound" /\ kind = "federation" -> [breaker |-> "ok", caller |-> "ok"]
      [] OTHER -> [breaker |-> "fail", caller |-> "error"]

(* An answer that says nothing bad about the host. *)
Harmless(kind, answer) ==
    \/ answer = "ok"
    \/ answer = "badToken" /\ kind # "federation"
    \/ answer = "notFound" /\ kind = "federation"

HostReplies(c, answer) ==
    /\ CallAt(c, "calling")
    /\ hostFails => answer = "fails"
    /\ LET kind == remoteCall[c].kind
           b == remoteCall[c].of
           out == Outcome(kind, answer)
       IN  /\ breakers' = [breakers EXCEPT ![b] = IF out.breaker = "ok" THEN Closed ELSE Failed(@)]
           /\ CallReturns(c, out.caller)
           /\ faults' = (faults \/ ~Harmless(kind, answer))
    /\ UNCHANGED <<behind, table, hostFails>>

(* The caller's context was cancelled: an error that is not counted. *)
CallCancelled(c) ==
    /\ CallAt(c, "calling")
    /\ CallReturns(c, "error")
    /\ UNCHANGED <<behind, table, breakers, hostFails, faults>>

(* The minute is over.  The goroutine of the call goes on, for nobody. *)
CallTimesOut(c) ==
    /\ CallAt(c, "calling")
    /\ breakers' = [breakers EXCEPT ![remoteCall[c].of] = Failed(@)]
    /\ CallReturns(c, "timeout")
    /\ faults' = TRUE
    /\ UNCHANGED <<behind, table, hostFails>>

NextCall(c) ==
    /\ CallAt(c, "done")
    /\ remoteCall' = [remoteCall EXCEPT ![c] = NewCall]
    /\ UNCHANGED <<behind, table, breakers, hostFails, faults>>

HostGoesDown ==
    /\ ~hostFails
    /\ hostFails' = TRUE
    /\ UNCHANGED <<behind, table, breakers, remoteCall, faults>>

(* A call ends with an answer or after a minute, unless its caller goes away     *)
(* first; not everyone does.                                                     *)
CallEnds == \E c \in Callers : CallTimesOut(c) \/ \E answer \in HostAnswers : HostReplies(c, answer)

CallStep(c) ==
    \/ StoreBreaker(c) \/ AskBreaker(c) \/ NextCall(c)
    \/ \E kind \in KindsHere : LoadBreaker(c, kind)

CallNext ==
    \/ \E c \in Callers : CallStep(c) \/ CallCancelled(c)
    \/ CallEnds \/ HostGoesDown

(* Calls run on, and not every caller goes away before the answer. *)
CallSpec ==
    /\ CallInit /\ [][CallNext]_callVars
    /\ \A c \in Callers : WF_callVars(CallStep(c))
    /\ SF_callVars(CallEnds)

-----------------------------------------------------------------------------
(* Properties. *)

(* errors.go:24: unknown tokens, and federation's 404s, do not trip a breaker,   *)
(* however many come in a row and on whichever breaker they are counted.         *)
BadTokensDoNotTrip ==
    ~faults => \A c \in Callers : ~breakers[c].tripped

(* A host that stopped answering is left alone in the end: the breaker that      *)
(* every later call uses has tripped, even if the first calls lost each other's  *)
(* breaker (breakers.go:21-31), and stays so while the host is down.             *)
DownHostIsLeftAlone ==
    <>[](hostFails => (table # NoBreaker /\ breakers[table].tripped))

(* A breaker says how the host is, and not how its callers are (breakers.go:21,  *)
(* errors.go:24): the two properties together.                                   *)
BreakersFollowTheHost == []BadTokensDoNotTrip /\ DownHostIsLeftAlone
=============================================================================
