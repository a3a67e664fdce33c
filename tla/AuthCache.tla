------------------------------ MODULE AuthCache ------------------------------
(***************************************************************************)
(* Access tokens: the cache of the homeserver's answers                    *)
(* (api/_auth_cache/auth_cache.go), the routers that ask for a token       *)
(* (api/_routers/97-*.go) and the logout endpoints (api/r0/logout.go).     *)
(* The homeserver is external: it knows which tokens are live and whose    *)
(* they are, and may fail to answer.                                       *)
(***************************************************************************)
EXTENDS FiniteSets

CONSTANTS
    Callers,       \* HTTP requests that run at the same time
    Tokens,        \* access tokens
    Owner,         \* the homeserver's view: token -> user
    GuestTokens,   \* tokens of guests
    AuthUsers,     \* user IDs
    Claims,        \* what requests carry: a token and the user_id they name
    Appservices,   \* the configuration: token -> its sender and the users of its namespaces
    SharedSecret,  \* the shared secret, one of the tokens
    GlobalAdmins   \* repoAdmins of the configuration

NoUser == ""

ASSUME AuthAssumption ==
    /\ SharedSecret \in Tokens
    /\ Owner \in [Tokens -> AuthUsers]
    /\ NoUser \notin AuthUsers
    /\ Claims \subseteq (Tokens \ {SharedSecret}) \X (AuthUsers \cup {NoUser})
    /\ GuestTokens \subseteq Tokens
    /\ DOMAIN Appservices \subseteq Tokens
    /\ \A t \in DOMAIN Appservices :
           Appservices[t].sender \in AuthUsers /\ Appservices[t].users \subseteq AuthUsers

VARIABLES
    live,          \* tokens the homeserver accepts
    caching,       \* MaxCacheTimeSeconds > 0
    tokenCache,    \* cacheKey -> cachedToken
    caller,        \* the requests
    raced          \* history: tokens cached after their logout

authVars == <<live, caching, tokenCache, caller, raced>>

Answers == [user : AuthUsers \cup {NoUser}, guest : BOOLEAN, err : {"", "invalid", "failed"}]
Refused(err) == [user |-> NoUser, guest |-> FALSE, err |-> err]
Granted(u, guest) == [user |-> u, guest |-> guest, err |-> ""]

Routers == {"require", "guests", "optional", "admin", "logout", "logoutAll"}
AuthOutcomes == {"none", "served", "anonymous", "unauthorized", "guest", "error"}
Resting == [pc |-> "idle", token |-> SharedSecret, as |-> NoUser, router |-> "",
            answer |-> Refused("invalid"), outcome |-> "none"]

Replying(outcome) == [Resting EXCEPT !.pc = "reply", !.outcome = outcome]

(* Mutant: one entry per token, whoever it speaks for. *)
CacheKeyOfToken(token, as) == <<token, NoUser>>

CacheKey(token, as) == <<token, as>>

CacheKeys == Tokens \X (AuthUsers \cup {NoUser})

AuthTypeOK ==
    /\ live \subseteq Tokens
    /\ caching \in BOOLEAN
    /\ DOMAIN tokenCache \subseteq CacheKeys
    /\ \A k \in DOMAIN tokenCache : tokenCache[k] \in Answers
    /\ raced \subseteq Tokens
    /\ caller \in [Callers -> [pc : {"idle", "lookup", "ask", "askOnly", "store", "decide", "logout", "forget", "reply"},
                               token : Tokens, as : AuthUsers \cup {NoUser}, router : Routers \cup {""},
                               answer : Answers, outcome : AuthOutcomes]]

AuthInit ==
    /\ live = Tokens \ ({SharedSecret} \cup DOMAIN Appservices)
    /\ caching \in BOOLEAN
    /\ tokenCache = << >>
    /\ caller = [c \in Callers |-> Resting]
    /\ raced = {}

AtCaller(c, pc) == caller[c].pc = pc
CallerGoes(c, pc) == caller' = [caller EXCEPT ![c].pc = pc]
CallerLearns(c, pc, answer) == caller' = [caller EXCEPT ![c].pc = pc, ![c].answer = answer]

(* A request arrives; its router comes into play when the token is known.  Only *)
(* OptionalAccessToken lets it in without a token; the shared secret is not     *)
(* looked up.                                                                   *)
StartAuth(c, token, as) ==
    /\ AtCaller(c, "idle")
    /\ caller' = [caller EXCEPT ![c].pc = "lookup", ![c].token = token, ![c].as = as]
    /\ UNCHANGED <<live, caching, tokenCache, raced>>

WithoutLookUp(c) ==
    /\ AtCaller(c, "idle")
    /\ \E outcome \in {"anonymous", "unauthorized", "served"} :
           caller' = [caller EXCEPT ![c] = Replying(outcome)]
    /\ UNCHANGED <<live, caching, tokenCache, raced>>

(* The appservice's own user, or one of its namespaces. *)
SpeaksFor(token, as) ==
    IF token \notin DOMAIN Appservices THEN {}
    ELSE IF as \in {NoUser, Appservices[token].sender} THEN {Appservices[token].sender}
    ELSE {as} \cap Appservices[token].users

(* Mutant: a cached answer is cached again, for as long as it is used. *)
LookUpAndKeep(c) ==
    /\ AtCaller(c, "lookup")
    /\ LET r == caller[c] IN
           \/ /\ CacheKey(r.token, r.as) \in DOMAIN tokenCache
              /\ CallerLearns(c, "store", tokenCache[CacheKey(r.token, r.as)])
           \/ /\ CacheKey(r.token, r.as) \notin DOMAIN tokenCache
              /\ CallerGoes(c, "ask")
    /\ UNCHANGED <<live, caching, tokenCache, raced>>

(* GetUserId, up to the question to the homeserver. *)
LookUp(c) ==
    /\ AtCaller(c, "lookup")
    /\ LET r == caller[c]
           key == CacheKey(r.token, r.as)
       IN  \/ /\ ~caching
              /\ CallerGoes(c, "askOnly")
           \/ /\ caching /\ key \in DOMAIN tokenCache
              /\ CallerLearns(c, "decide", tokenCache[key])
           \/ /\ caching /\ key \notin DOMAIN tokenCache
              /\ \/ /\ SpeaksFor(r.token, r.as) = {}
                    /\ CallerGoes(c, "ask")
                 \/ \E u \in SpeaksFor(r.token, r.as) :
                        CallerLearns(c, "store", Granted(u, FALSE))
    /\ UNCHANGED <<live, caching, tokenCache, raced>>

(* Mutant: the errors of the homeserver are passed on as they come. *)
WhoamiRaw(token, as) ==
    IF token \in live THEN {Granted(Owner[token], token \in GuestTokens)} ELSE {Refused("M_UNKNOWN_TOKEN")}

(* whoami.  The homeserver ignores the user_id of an ordinary token. *)
Whoami(token, as) ==
    IF token \in live THEN {Granted(Owner[token], token \in GuestTokens)}
    ELSE IF SpeaksFor(token, as) # {} THEN {Granted(u, FALSE) : u \in SpeaksFor(token, as)}
    ELSE {Refused("invalid")}

(* checkTokenWithHomeserver; failures are answers, too. *)
AskHomeserver(c) ==
    /\ caller[c].pc \in {"ask", "askOnly"}
    /\ \E a \in Whoami(caller[c].token, caller[c].as) \cup {Refused("failed")} :
           CallerLearns(c, IF AtCaller(c, "ask") THEN "store" ELSE "decide", a)
    /\ UNCHANGED <<live, caching, tokenCache, raced>>

(* cacheToken *)
StoreToken(c) ==
    /\ AtCaller(c, "store")
    /\ LET key == CacheKey(caller[c].token, caller[c].as) IN
           tokenCache' = [k \in DOMAIN tokenCache \cup {key} |->
                             IF k = key THEN caller[c].answer ELSE tokenCache[k]]
    /\ raced' = raced \cup {t \in {caller[c].token} \ (live \cup DOMAIN Appservices) : caller[c].answer.err = ""}
    /\ CallerGoes(c, "decide")
    /\ UNCHANGED <<live, caching>>

(* UserInfo.IsRepoAdmin; the trusted header is a claim that any request may make *)
(* when it is configured, and grants nothing without a user.                     *)
IsRepoAdmin(token, user) == token = SharedSecret \/ user \in GlobalAdmins

(* The routers.  A token that fails to verify is no error to OptionalAccessToken. *)
Verdict(r, router) ==
    CASE r.answer.guest /\ router # "guests" -> "guest"
      [] r.answer.err = "failed" -> "error"
      [] r.answer.err = "invalid" -> IF router = "optional" THEN "anonymous" ELSE "unauthorized"
      [] router = "admin" /\ ~IsRepoAdmin(r.token, r.answer.user) -> "unauthorized"
      [] OTHER -> "served"

Decide(c) ==
    /\ AtCaller(c, "decide")
    /\ \E router \in Routers :
           LET v == Verdict(caller[c], router) IN
           IF v = "served" THEN
               IF router \in {"logout", "logoutAll"}
               THEN caller' = [caller EXCEPT ![c].pc = "logout", ![c].router = router, ![c].outcome = v]
               ELSE caller' = [caller EXCEPT ![c].pc = "reply", ![c].outcome = v]
           ELSE caller' = [caller EXCEPT ![c] = Replying(v)]
    /\ UNCHANGED <<live, caching, tokenCache, raced>>

(* InvalidateToken, InvalidateAllTokens: first the homeserver, which may fail, *)
LogoutAtHomeserver(c) ==
    /\ AtCaller(c, "logout")
    /\ LET r == caller[c] IN
           \/ /\ caller' = [caller EXCEPT ![c] = Replying("error")]
              /\ UNCHANGED live
           \/ /\ r.token \in live
              /\ live' = IF r.router = "logout" THEN live \ {r.token}
                         ELSE {t \in live : Owner[t] # Owner[r.token]}
              /\ CallerGoes(c, "forget")
    /\ UNCHANGED <<caching, tokenCache, raced>>

Without(keys) == [k \in DOMAIN tokenCache \ keys |-> tokenCache[k]]

(* then the cache. *)
ForgetToken(c) ==
    /\ AtCaller(c, "forget")
    /\ tokenCache' = IF caller[c].router = "logoutAll" THEN << >>
                     ELSE Without({CacheKey(caller[c].token, caller[c].answer.user),
                                   CacheKey(caller[c].token, NoUser)})
    /\ caller' = [caller EXCEPT ![c] = Replying("served")]
    /\ UNCHANGED <<live, caching, raced>>

Reply(c) ==
    /\ AtCaller(c, "reply")
    /\ caller' = [caller EXCEPT ![c] = Resting]
    /\ UNCHANGED <<live, caching, tokenCache, raced>>

EntryExpires(k) ==
    /\ k \in DOMAIN tokenCache
    /\ tokenCache' = Without({k})
    /\ UNCHANGED <<live, caching, caller, raced>>

(* The watcher's reload of the access tokens. *)
FlushCache ==
    /\ tokenCache # << >>
    /\ tokenCache' = << >>
    /\ UNCHANGED <<live, caching, caller, raced>>

AuthWork(c) ==
    \/ LookUp(c) \/ AskHomeserver(c) \/ StoreToken(c) \/ Decide(c)
    \/ LogoutAtHomeserver(c) \/ ForgetToken(c) \/ Reply(c)

AuthNext ==
    \/ \E c \in Callers :
           \/ AuthWork(c) \/ WithoutLookUp(c)
           \/ \E k \in Claims : StartAuth(c, k[1], k[2])
    \/ \E k \in DOMAIN tokenCache : EntryExpires(k)
    \/ FlushCache

(* Requests that have begun run on, and entries of the cache expire. *)
AuthSpec ==
    /\ AuthInit /\ [][AuthNext]_authVars
    /\ \A c \in Callers : WF_authVars(AuthWork(c))
    /\ \A k \in {CacheKey(c[1], c[2]) : c \in Claims} : WF_authVars(EntryExpires(k))

-----------------------------------------------------------------------------
(* Properties. *)

(* A request is never served as a user its token does not speak for, whatever    *)
(* other requests left in the cache (auth_cache.go:25-30, 89-98): the owner of   *)
(* the token, or a user of the appservice it belongs to.                         *)
NobodyIsImpersonated ==
    \A c \in Callers :
        LET r == caller[c] IN
        (r.outcome = "served" /\ r.token # SharedSecret) =>
            r.answer.user \in {Owner[r.token]} \cup SpeaksFor(r.token, r.as)

(* Once a logout has ended, the cache accepts its token for its user only when   *)
(* the homeserver's answer from before that logout came in late (:153-156).      *)
LogoutForgetsTheToken ==
    \A t \in Tokens \ (live \cup {SharedSecret} \cup DOMAIN Appservices \cup raced) :
        (\A c \in Callers : ~AtCaller(c, "forget")) =>
            \A k \in {CacheKey(t, NoUser), CacheKey(t, Owner[t])} \cap DOMAIN tokenCache :
                tokenCache[k].err # ""

(* A logout takes effect: at once but for late answers (LogoutForgetsTheToken),  *)
(* and for good in the end, late answers and entries under another user_id       *)
(* included: entries expire and a hit does not renew them (auth_cache.go:50,     *)
(* :89-98, :153).                                                                *)
LogoutTakesEffect ==
    /\ []LogoutForgetsTheToken
    /\ \A t \in Tokens \ ({SharedSecret} \cup DOMAIN Appservices) :
           <>[](t \notin live => \A k \in DOMAIN tokenCache : k[1] = t => tokenCache[k].err # "")
=============================================================================
