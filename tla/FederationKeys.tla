--------------------------- MODULE FederationKeys ---------------------------
(***************************************************************************)
(* Requests of other servers (matrix/xmatrix.go) and the keys they are     *)
(* verified with (matrix/requests_signing.go).  Keys are fetched from      *)
(* where the server is found (server_discovery.go), under one lock for all *)
(* servers, and cached.  Servers move, and change their keys, meanwhile.   *)
(***************************************************************************)
EXTENDS Naturals, FiniteSets, Sequences

CONSTANTS
    Inbound,       \* requests, each is one goroutine that serves one after the other
    Servers,
    Changing,      \* those that move and change their keys
    Signed,        \* the authorization headers that requests bring
    OurHost,       \* the host that requests arrive at
    MaxRotations,  \* bound: changes of a server's key
    NoCaller

Keys == [owner : Servers, gen : 0..MaxRotations]

ASSUME FederationAssumption ==
    /\ MaxRotations \in Nat
    /\ NoCaller \notin Inbound /\ Changing \subseteq Servers
    /\ \A seq \in Signed : seq \in Seq({seq[i] : i \in DOMAIN seq})
    /\ \A seq \in Signed : \A i \in DOMAIN seq :
           /\ {seq[i].origin, seq[i].owner} \subseteq Servers
           /\ seq[i].key \in 0..MaxRotations

VARIABLES
    address,      \* server -> where it really is
    generation,   \* server -> the number of its key
    foundAt,      \* apiUrlCacheInstance: server -> address, "" when missing
    keyStore,     \* signingKeyCache: server -> keys, {} when missing
    keyLock,      \* signingKeyRWLock, held for writing
    inbound       \* the requests

federationVars == <<address, generation, foundAt, keyStore, keyLock, inbound>>

Addresses == {"here", "there"}
NewInbound == [pc |-> "idle", headers |-> << >>, keys |-> {}, out |-> ""]

FederationTypeOK ==
    /\ address \in [Servers -> Addresses]
    /\ generation \in [Servers -> 0..MaxRotations]
    /\ foundAt \in [Servers -> Addresses \cup {""}]
    /\ keyStore \in [Servers -> SUBSET Keys]
    /\ keyLock \in Inbound \cup {NoCaller}
    /\ \A c \in Inbound : keyLock = c <=> inbound[c].pc \in {"fetch", "fetched"}
    /\ inbound \in [Inbound -> [pc : {"idle", "read", "join", "joined", "lock", "fetch", "fetched", "validate", "done"},
                                headers : Signed \cup {<< >>}, keys : SUBSET Keys,
                                out : {"", "ok", "noAuth", "wrongDestination", "invalid", "noKeys"}]]

FederationInit ==
    /\ address = [s \in Servers |-> "here"]
    /\ generation = [s \in Servers |-> 0]
    /\ foundAt = [s \in Servers |-> ""]
    /\ keyStore = [s \in Servers |-> {}]
    /\ keyLock = NoCaller
    /\ inbound = [c \in Inbound |-> NewInbound]

InboundAt(c, pc) == inbound[c].pc = pc
InboundGoes(c, pc) == inbound' = [inbound EXCEPT ![c].pc = pc]
OriginOf(c) == inbound[c].headers[1].origin
worldVars == <<address, generation>>

-----------------------------------------------------------------------------
(* Verification. *)

(* The owner and number of the key stand for the signature: it verifies with the *)
(* public key of the same owner.  What is signed names the first header's origin *)
(* and destination.                                                              *)
Verified(h, keys) == \E k \in keys : k.gen = h.key /\ k.owner = h.owner /\ h.covers

(* The headers are read in order: the first one that does not fit decides. *)
ValidateXMatrixAuthHeader(headers, keys) ==
    LET Fits(h) == h.origin = headers[1].origin /\ h.destination = headers[1].destination
        ForUs(h) == h.destination \in {"", OurHost}
        Judge(h) == CASE ~Fits(h) -> "invalid"
                      [] ~ForUs(h) -> "wrongDestination"
                      [] OTHER -> IF Verified(h, keys) THEN "ok" ELSE "invalid"
        bad == {i \in DOMAIN headers : Judge(headers[i]) # "ok"}
    IN  CASE headers = << >> -> "noAuth"
          [] bad = {} -> "ok"
          [] OTHER -> Judge(headers[CHOOSE i \in bad : \A j \in bad : i <= j])

(* ValidateXMatrixAuth: without a header no keys are asked for. *)
Arrive(c, headers) ==
    /\ InboundAt(c, "idle")
    /\ inbound' = IF headers = << >> THEN [inbound EXCEPT ![c].pc = "done", ![c].out = "noAuth"]
                                     ELSE [inbound EXCEPT ![c].pc = "read", ![c].headers = headers]
    /\ UNCHANGED <<worldVars, foundAt, keyStore, keyLock>>

Validate(c) ==
    /\ InboundAt(c, "validate")
    /\ inbound' = [inbound EXCEPT ![c].pc = "done", ![c].keys = {},
                                  ![c].out = IF inbound[c].keys = {} THEN "noKeys"
                                             ELSE ValidateXMatrixAuthHeader(inbound[c].headers, inbound[c].keys)]
    /\ UNCHANGED <<worldVars, foundAt, keyStore, keyLock>>

Respond(c) ==
    /\ InboundAt(c, "done")
    /\ inbound' = [inbound EXCEPT ![c] = NewInbound]
    /\ UNCHANGED <<worldVars, foundAt, keyStore, keyLock>>

-----------------------------------------------------------------------------
(* QuerySigningKeys. *)

(* Under the read lock: nobody reads while somebody fetches. *)
ReadCache(c) ==
    /\ InboundAt(c, "read")
    /\ keyLock = NoCaller
    /\ inbound' = [inbound EXCEPT ![c].keys = keyStore[OriginOf(c)],
                                  ![c].pc = IF keyStore[OriginOf(c)] = {} THEN "join" ELSE "validate"]
    /\ UNCHANGED <<worldVars, foundAt, keyStore, keyLock>>

Fetching == {"lock", "fetch", "fetched"}

JoinKeyFlight(c) ==
    /\ InboundAt(c, "join")
    /\ InboundGoes(c, IF \E d \in Inbound : inbound[d].pc \in Fetching /\ OriginOf(d) = OriginOf(c)
                      THEN "joined" ELSE "lock")
    /\ UNCHANGED <<worldVars, foundAt, keyStore, keyLock>>

(* The cache is read once more, but the answer is not looked at. *)
LockKeys(c) ==
    /\ InboundAt(c, "lock")
    /\ keyLock = NoCaller
    /\ keyLock' = c
    /\ InboundGoes(c, "fetch")
    /\ UNCHANGED <<worldVars, foundAt, keyStore>>

(* The cache, or one of the six steps of the discovery. *)
GetServerApiUrl(s) == IF foundAt[s] # "" THEN foundAt[s] ELSE address[s]

(* What a server publishes, signed with every key it publishes. *)
KeysOf(s) == {[owner |-> s, gen |-> generation[s]]}
Published(s) == [name |-> s, keys |-> KeysOf(s), signed |-> KeysOf(s), lasts |-> "long"]

(* What is found at an address: the keys of a server that is there, or something *)
(* that does not pass for keys.                                                  *)
FoundAt(a) ==
    LET honest == {Published(s) : s \in {t \in Servers : address[t] = a}}
    IN  honest \cup {[r EXCEPT !.lasts = l] : r \in honest, l \in {"past", "minute"}}
               \cup {[r EXCEPT !.signed = {}] : r \in honest}

(* The checks of the response: the name, the validity, and a signature by every  *)
(* key and by no other (CheckSigningKeySignatures).                              *)
AcceptKeys(s, r) ==
    /\ r.name = s
    /\ r.lasts = "long"
    /\ r.signed # {} /\ r.signed = r.keys

(* FederatedGet, which may fail, then the checks. *)
FetchKeys(c) ==
    /\ InboundAt(c, "fetch")
    /\ LET s == OriginOf(c)
           Accepted == {r \in FoundAt(GetServerApiUrl(s)) : AcceptKeys(s, r)}
       IN  /\ foundAt' = [foundAt EXCEPT ![s] = GetServerApiUrl(s)]
           /\ \/ /\ inbound' = [inbound EXCEPT ![c].pc = "fetched", ![c].keys = {}]
                 /\ UNCHANGED keyStore
              \/ \E r \in Accepted :
                    /\ keyStore' = [keyStore EXCEPT ![s] = r.keys]
                    /\ inbound' = [inbound EXCEPT ![c].pc = "fetched", ![c].keys = r.keys]
    /\ UNCHANGED <<worldVars, keyLock>>

(* The deferred Unlock, and the end of the flight. *)
KeysLand(c) ==
    /\ InboundAt(c, "fetched")
    /\ keyLock' = NoCaller
    /\ inbound' = [d \in Inbound |->
                      IF d = c \/ (InboundAt(d, "joined") /\ OriginOf(d) = OriginOf(c))
                      THEN [inbound[d] EXCEPT !.pc = "validate", !.keys = inbound[c].keys] ELSE inbound[d]]
    /\ UNCHANGED <<worldVars, foundAt, keyStore>>

-----------------------------------------------------------------------------
(* The world, and time. *)

RotateKey(s) ==
    /\ generation[s] < MaxRotations
    /\ generation' = [generation EXCEPT ![s] = @ + 1]
    /\ UNCHANGED <<address, foundAt, keyStore, keyLock, inbound>>

Move(s) ==
    /\ address[s] = "here"
    /\ address' = [address EXCEPT ![s] = "there"]
    /\ UNCHANGED <<generation, foundAt, keyStore, keyLock, inbound>>

(* Mutant: keys are cached for as long as the process runs. *)
KeysNeverExpire(s) == FALSE /\ UNCHANGED federationVars

(* Half the time that the keys are valid has passed. *)
KeysExpire(s) ==
    /\ keyStore[s] # {}
    /\ keyStore' = [keyStore EXCEPT ![s] = {}]
    /\ UNCHANGED <<worldVars, foundAt, keyLock, inbound>>

(* One hour has passed.  A server that stays is found again where it was. *)
UrlExpires(s) ==
    /\ foundAt[s] # ""
    /\ foundAt' = [foundAt EXCEPT ![s] = ""]
    /\ UNCHANGED <<worldVars, keyStore, keyLock, inbound>>

(* What a request does by itself, and where it waits for the lock.  sync.RWMutex  *)
(* starves nobody.                                                                *)
InboundStep(c) ==
    \/ Validate(c) \/ Respond(c) \/ JoinKeyFlight(c) \/ FetchKeys(c) \/ KeysLand(c)

LockStep(c) == ReadCache(c) \/ LockKeys(c)

FederationNext ==
    \/ \E c \in Inbound : InboundStep(c) \/ LockStep(c) \/ \E headers \in Signed : Arrive(c, headers)
    \/ \E s \in Changing : RotateKey(s) \/ Move(s) \/ UrlExpires(s)
    \/ \E s \in Servers : KeysExpire(s)

(* Requests run on, the lock starves nobody, and keys expire. *)
FederationSpec ==
    /\ FederationInit /\ [][FederationNext]_federationVars
    /\ \A c \in Inbound : WF_federationVars(InboundStep(c)) /\ SF_federationVars(LockStep(c))
    /\ \A s \in Servers : WF_federationVars(KeysExpire(s))

-----------------------------------------------------------------------------
(* Properties. *)

(* A request that is accepted as a server's was signed by that server, and for   *)
(* this host if for any, wherever the server moved to and whoever answers at its *)
(* old address (requests_signing.go:129, xmatrix.go:65-83).                      *)
AcceptedRequestsAreSigned ==
    \A c \in Inbound : inbound[c].out = "ok" =>
        \A i \in DOMAIN inbound[c].headers :
            LET h == inbound[c].headers[i] IN
                h.owner = OriginOf(c) /\ h.covers /\ h.destination \in {"", OurHost}

(* A key that a server no longer publishes ends being accepted, though fetched   *)
(* or cached while it changed (requests_signing.go:132-149).                     *)
RotationTakesEffect ==
    \A s \in Changing : <>[](generation[s] = MaxRotations =>
        \A c \in Inbound : inbound[c].out = "ok" => ~(\E i \in DOMAIN inbound[c].headers :
              inbound[c].headers[i].owner = s /\ inbound[c].headers[i].key < MaxRotations))

(* Every request is answered, although one lock serves all servers and a fetch   *)
(* holds it: as long as each fetch ends, and the lock is taken by everyone who   *)
(* waits for it, well or not.                                                    *)
InboundEnds == \A c \in Inbound : []<>(inbound[c].pc = "idle")

(* Who is accepted as a server is that server (AcceptedRequestsAreSigned), with  *)
(* a key it still publishes, but for the time keys are cached.                   *)
OnlyServersAreAccepted == []AcceptedRequestsAreSigned /\ RotationTakesEffect
=============================================================================
