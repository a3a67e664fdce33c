---------------------------- MODULE ClientProofs ----------------------------
(***************************************************************************)
(* What requests can rely on, for any number of them: the token cache does *)
(* not mix up users, and the channels of requests that wait for an upload  *)
(* can be sent to.                                                         *)
(***************************************************************************)
EXTENDS MCClients, FiniteSetTheorems, TLAPS

-----------------------------------------------------------------------------
(* Access tokens. *)

CallerState ==
    [pc : {"idle", "lookup", "ask", "askOnly", "store", "decide", "logout", "forget", "reply"},
     token : Tokens, as : AuthUsers \cup {NoUser}, router : Routers \cup {""},
     answer : Answers, outcome : AuthOutcomes]

(* Users a token may act for when its request names the user as. *)
Valid(token, as) == {Owner[token]} \cup SpeaksFor(token, as)

(* Tokens the homeserver gave to users; the cache cannot ask it about others. *)
UserTokens == Tokens \ ({SharedSecret} \cup DOMAIN Appservices)

(* Whatever the cache accepts, the token stands for.                          *)
CacheIsValid ==
    \A k \in DOMAIN tokenCache :
        tokenCache[k].err = "" => tokenCache[k].user \in Valid(k[1], k[2])

(* So does an answer in the hands of a request, and only an accepted request  *)
(* is served.                                                                 *)
AnswerIsValid(r) ==
    /\ r.answer.err = "" => r.answer.user \in Valid(r.token, r.as)
    /\ r.pc \in {"idle", "lookup", "ask", "askOnly"} => r.answer.err # ""
    /\ r.pc \in {"logout", "forget"} => r.answer.err = "" /\ r.router \in {"logout", "logoutAll"}
    /\ r.outcome = "served" =>
           \/ r.pc = "reply" /\ r.token = SharedSecret
           \/ r.pc \in {"logout", "forget", "reply"} /\ r.answer.err = ""

AnswersAreValid == \A c \in Callers : AnswerIsValid(caller[c])

(* A request that has logged tokens out, and will forget them.                *)
Forgetting(c, t) ==
    /\ caller[c].pc = "forget"
    /\ caller[c].router = "logoutAll" \/ (caller[c].token = t /\ caller[c].answer.user = Owner[t])

(* An entry outlives its token only until the logout forgets it, if it was    *)
(* not cached too late.                                                       *)
DeadEntriesAreForgotten ==
    \A t \in UserTokens \ (live \cup raced) :
        \A k \in {CacheKey(t, NoUser), CacheKey(t, Owner[t])} \cap DOMAIN tokenCache :
            tokenCache[k].err = "" => \E c \in Callers : Forgetting(c, t)

AuthInv ==
    /\ AuthTypeOK
    /\ live \subseteq UserTokens
    /\ CacheIsValid
    /\ AnswersAreValid
    /\ DeadEntriesAreForgotten

LEMMA FreshStates ==
  /\ Resting \in CallerState /\ Resting.pc = "idle" /\ Resting.outcome = "none" /\ Resting.answer.err = "invalid"
  /\ \A out \in AuthOutcomes : /\ Replying(out) \in CallerState
                               /\ Replying(out).pc = "reply" /\ Replying(out).token = SharedSecret
                               /\ Replying(out).answer.err = "invalid" /\ Replying(out).outcome = out
<1>1. Resting \in CallerState /\ Resting.pc = "idle" /\ Resting.outcome = "none" /\ Resting.answer.err = "invalid"
        /\ Resting.token = SharedSecret
  BY AuthAssumption DEF Resting, Refused, Answers, AuthOutcomes, Routers, CallerState
<1>2. \A out \in AuthOutcomes : Replying(out) \in CallerState
                               /\ Replying(out).pc = "reply" /\ Replying(out).token = SharedSecret
                               /\ Replying(out).answer.err = "invalid" /\ Replying(out).outcome = out
  BY <1>1 DEF Replying, CallerState
<1> QED
  BY <1>1, <1>2

LEMMA AuthInitInv == AuthInit => AuthInv
<1> SUFFICES ASSUME AuthInit PROVE AuthInv
  OBVIOUS
<1>1. DOMAIN tokenCache = {}
  BY DEF AuthInit
<1>2. live = UserTokens /\ live \subseteq Tokens /\ caching \in BOOLEAN /\ raced = {}
  BY DEF AuthInit, UserTokens
<1>3. caller \in [Callers -> CallerState] /\ \A c \in Callers : caller[c] = Resting
  BY FreshStates DEF AuthInit
<1>4. AuthTypeOK
  BY <1>1, <1>2, <1>3 DEF AuthTypeOK, CallerState
<1>5. AnswersAreValid
  BY <1>3, FreshStates DEF AnswersAreValid, AnswerIsValid
<1> QED
  BY <1>1, <1>2, <1>4, <1>5 DEF AuthInv, CacheIsValid, DeadEntriesAreForgotten

LEMMA SameKey ==
  ASSUME NEW t, NEW as, NEW u, NEW bs, CacheKey(t, as) = CacheKey(u, bs)
  PROVE  t = u
BY DEF CacheKey

(* An appservice speaks for users. *)
LEMMA SpeaksForUsers ==
  ASSUME NEW t \in Tokens, NEW as \in AuthUsers \cup {NoUser}
  PROVE  SpeaksFor(t, as) \subseteq AuthUsers
BY AuthAssumption DEF SpeaksFor

(* The homeserver's answers are valid. *)
LEMMA GrantedIsAnswer ==
  ASSUME NEW u \in AuthUsers, NEW guest \in BOOLEAN
  PROVE  Granted(u, guest) \in Answers /\ Granted(u, guest).err = "" /\ Granted(u, guest).user = u
BY DEF Granted, Answers

LEMMA RefusedIsAnswer ==
  ASSUME NEW err \in {"invalid", "failed"}
  PROVE  Refused(err) \in Answers /\ Refused(err).err # ""
BY DEF Refused, Answers

LEMMA WhoamiIsValid ==
  ASSUME NEW t \in Tokens, NEW as \in AuthUsers \cup {NoUser}, NEW a \in Whoami(t, as) \cup {Refused("failed")}
  PROVE  a \in Answers /\ (a.err = "" => a.user \in Valid(t, as))
<1>1. CASE a = Refused("failed")
  BY <1>1, RefusedIsAnswer
<1>2. CASE a \in Whoami(t, as) /\ t \in live
  <2>1. a = Granted(Owner[t], t \in GuestTokens)
    BY <1>2 DEF Whoami
  <2>2. Owner[t] \in AuthUsers /\ (t \in GuestTokens) \in BOOLEAN
    BY AuthAssumption
  <2> QED
    BY <2>1, <2>2, GrantedIsAnswer DEF Valid
<1>3. CASE a \in Whoami(t, as) /\ t \notin live /\ SpeaksFor(t, as) # {}
  <2>1. PICK u \in SpeaksFor(t, as) : a = Granted(u, FALSE)
    BY <1>3 DEF Whoami
  <2> QED
    BY <2>1, GrantedIsAnswer, SpeaksForUsers DEF Valid
<1>4. CASE a \in Whoami(t, as) /\ t \notin live /\ SpeaksFor(t, as) = {}
  BY <1>4, RefusedIsAnswer DEF Whoami
<1> QED
  BY <1>1, <1>2, <1>3, <1>4

(* A step of a request that leaves the cache and the homeserver alone. *)
LEMMA CallerStep ==
  ASSUME AuthInv, NEW c \in Callers, NEW g \in CallerState, AnswerIsValid(g),
         caller[c].pc # "forget", caller' = [caller EXCEPT ![c] = g],
         UNCHANGED <<live, caching, tokenCache, raced>>
  PROVE  AuthInv'
<1>1. caller' \in [Callers -> CallerState] /\ \A d \in Callers : caller'[d] = IF d = c THEN g ELSE caller[d]
  BY DEF AuthInv, AuthTypeOK, CallerState
<1>2. AuthTypeOK'
  BY <1>1 DEF AuthInv, AuthTypeOK, CallerState
<1>3. CacheIsValid' /\ (live \subseteq UserTokens)'
  BY DEF AuthInv, CacheIsValid
<1>4. AnswersAreValid'
  BY <1>1 DEF AuthInv, AnswersAreValid
<1>5. DeadEntriesAreForgotten'
  <2>1. \A d \in Callers, t \in Tokens : Forgetting(d, t) => Forgetting(d, t)'
    BY <1>1 DEF Forgetting
  <2> QED
    BY <2>1 DEF AuthInv, DeadEntriesAreForgotten, UserTokens
<1> QED
  BY <1>2, <1>3, <1>4, <1>5 DEF AuthInv

LEMMA CallerInState ==
  ASSUME AuthInv, NEW c \in Callers
  PROVE  caller[c] \in CallerState /\ AnswerIsValid(caller[c])
BY DEF AuthInv, AuthTypeOK, CallerState, AnswersAreValid

(* A request takes over a valid answer. *)
LEMMA LearnInv ==
  ASSUME AuthInv, NEW c \in Callers, caller[c].pc \in {"lookup", "ask", "askOnly"},
         NEW a \in Answers, a.err = "" => a.user \in Valid(caller[c].token, caller[c].as),
         NEW pc \in {"store", "decide"}, CallerLearns(c, pc, a), UNCHANGED <<live, caching, tokenCache, raced>>
  PROVE  AuthInv'
<1> DEFINE g == [caller[c] EXCEPT !.pc = pc, !.answer = a]
<1>1. g \in CallerState /\ AnswerIsValid(g)
  BY CallerInState DEF CallerState, AnswerIsValid
<1>2. caller' = [caller EXCEPT ![c] = g]
  BY DEF CallerLearns
<1> HIDE DEF g
<1> QED
  BY <1>1, <1>2, CallerStep

(* Requests up to the question to the homeserver. *)
LEMMA AskInv ==
  ASSUME AuthInv, NEW c \in Callers,
         \/ WithoutLookUp(c) \/ LookUp(c) \/ AskHomeserver(c)
         \/ \E k \in Claims : StartAuth(c, k[1], k[2])
  PROVE  AuthInv'
<1>0. caller[c] \in CallerState /\ AnswerIsValid(caller[c]) /\ caller[c].token \in Tokens
        /\ caller[c].as \in AuthUsers \cup {NoUser}
  BY CallerInState DEF CallerState
<1>1. CASE WithoutLookUp(c)
  BY <1>1, FreshStates, CallerStep, ZenonT(30) DEF WithoutLookUp, AtCaller, AnswerIsValid, AuthOutcomes
<1>2. ASSUME NEW k \in Claims, StartAuth(c, k[1], k[2]) PROVE AuthInv'
  <2> DEFINE g == [caller[c] EXCEPT !.pc = "lookup", !.token = k[1], !.as = k[2]]
  <2>1. k[1] \in Tokens /\ k[2] \in AuthUsers \cup {NoUser}
    BY AuthAssumption
  <2>2. g \in CallerState /\ AnswerIsValid(g)
    BY <1>0, <1>2, <2>1 DEF StartAuth, AtCaller, CallerState, AnswerIsValid
  <2>3. caller' = [caller EXCEPT ![c] = g] /\ caller[c].pc # "forget" /\ UNCHANGED <<live, caching, tokenCache, raced>>
    BY <1>2, ZenonT(30) DEF StartAuth, AtCaller
  <2> QED
    BY <2>2, <2>3, CallerStep
<1>3. CASE LookUp(c)
  <2> DEFINE key == CacheKey(caller[c].token, caller[c].as)
  <2>1. caller[c].pc = "lookup" /\ UNCHANGED <<live, caching, tokenCache, raced>>
    BY <1>3 DEF LookUp, AtCaller
  <2>2. ASSUME NEW pc \in {"ask", "askOnly"}, CallerGoes(c, pc) PROVE AuthInv'
    <3> DEFINE g == [caller[c] EXCEPT !.pc = pc]
    <3>1. g \in CallerState /\ AnswerIsValid(g)
      BY <1>0, <2>1 DEF CallerState, AnswerIsValid
    <3>2. caller' = [caller EXCEPT ![c] = g]
      BY <2>2 DEF CallerGoes
    <3> HIDE DEF g
    <3> QED
      BY <2>1, <3>1, <3>2, CallerStep
  <2>3. CASE key \in DOMAIN tokenCache /\ CallerLearns(c, "decide", tokenCache[key])
    <3>1. tokenCache[key] \in Answers
          /\ (tokenCache[key].err = "" => tokenCache[key].user \in Valid(caller[c].token, caller[c].as))
      BY <2>3 DEF AuthInv, AuthTypeOK, CacheIsValid, CacheKey
    <3> QED
      BY <2>1, <2>3, <3>1, LearnInv
  <2>4. ASSUME NEW u \in SpeaksFor(caller[c].token, caller[c].as), CallerLearns(c, "store", Granted(u, FALSE))
        PROVE  AuthInv'
    BY <1>0, <2>1, <2>4, LearnInv, GrantedIsAnswer, SpeaksForUsers DEF Valid
  <2> QED
    BY <1>3, <2>2, <2>3, <2>4 DEF LookUp
<1>4. CASE AskHomeserver(c)
  BY <1>0, <1>4, WhoamiIsValid, LearnInv DEF AskHomeserver, AtCaller
<1> QED
  BY <1>1, <1>2, <1>3, <1>4

(* cacheToken: a late answer of a live token is noted. *)
LEMMA StoreInv ==
  ASSUME AuthInv, NEW c \in Callers, StoreToken(c)
  PROVE  AuthInv'
<1> DEFINE g == [caller[c] EXCEPT !.pc = "decide"]
           key == CacheKey(caller[c].token, caller[c].as)
           a == caller[c].answer
<1>0. /\ caller[c] \in CallerState /\ AnswerIsValid(caller[c]) /\ caller[c].pc = "store" /\ a \in Answers
      /\ caller[c].token \in Tokens /\ caller[c].as \in AuthUsers \cup {NoUser}
  BY CallerInState DEF CallerState, StoreToken, AtCaller
<1>1. g \in CallerState /\ AnswerIsValid(g)
  BY <1>0 DEF CallerState, AnswerIsValid
<1>2. /\ \A d \in Callers : caller'[d] = IF d = c THEN g ELSE caller[d]
      /\ caller' \in [Callers -> CallerState]
  BY <1>1 DEF StoreToken, CallerGoes, AuthInv, AuthTypeOK, CallerState
<1>3. /\ DOMAIN tokenCache' = DOMAIN tokenCache \cup {key}
      /\ \A k \in DOMAIN tokenCache' : tokenCache'[k] = IF k = key THEN a ELSE tokenCache[k]
  BY DEF StoreToken
<1>4. /\ raced' = raced \cup {t \in {caller[c].token} \ (live \cup DOMAIN Appservices) : a.err = ""}
      /\ UNCHANGED <<live, caching>>
  BY DEF StoreToken
<1>5. key \in CacheKeys /\ key[1] = caller[c].token /\ key[2] = caller[c].as
  BY <1>0 DEF CacheKey, CacheKeys
<1> HIDE DEF g, key, a
<1>6. AuthTypeOK'
  BY <1>0, <1>2, <1>3, <1>4, <1>5 DEF AuthInv, AuthTypeOK, CallerState
<1>7. CacheIsValid'
  BY <1>0, <1>3, <1>5 DEF AuthInv, CacheIsValid, AnswerIsValid, a
<1>8. AnswersAreValid' /\ (live \subseteq UserTokens)'
  BY <1>1, <1>2, <1>4 DEF AuthInv, AnswersAreValid
<1>9. DeadEntriesAreForgotten'
  <2>1. \A d \in Callers, t \in Tokens : Forgetting(d, t) => Forgetting(d, t)'
    BY <1>0, <1>2 DEF Forgetting
  <2> SUFFICES ASSUME NEW t \in UserTokens \ (live \cup raced'),
                      NEW k \in {CacheKey(t, NoUser), CacheKey(t, Owner[t])} \cap DOMAIN tokenCache',
                      tokenCache'[k].err = ""
               PROVE  \E d \in Callers : Forgetting(d, t)'
    BY <1>4 DEF DeadEntriesAreForgotten
  <2>2. CASE k = key
    <3>1. caller[c].token = t
      <4>1. key = CacheKey(caller[c].token, caller[c].as)
        BY DEF key
      <4> QED
        BY <2>2, <4>1, SameKey
    <3>2. a.err = ""
      BY <2>2, <1>3
    <3>3. t \in {x \in {caller[c].token} \ (live \cup DOMAIN Appservices) : a.err = ""}
      BY <3>1, <3>2, <1>4 DEF UserTokens
    <3> QED
      BY <3>3, <1>4
  <2>3. CASE k # key
    BY <2>1, <2>3, <1>3, <1>4 DEF AuthInv, DeadEntriesAreForgotten, UserTokens
  <2> QED
    BY <2>2, <2>3
<1> QED
  BY <1>6, <1>7, <1>8, <1>9 DEF AuthInv

(* The routers' verdict: only an accepted token is served. *)
LEMMA VerdictIsAccepted ==
  ASSUME NEW r \in CallerState, NEW router \in Routers
  PROVE  /\ Verdict(r, router) \in AuthOutcomes
         /\ Verdict(r, router) = "served" => r.answer.err = ""
<1>1. r.answer \in Answers /\ r.answer.err \in {"", "invalid", "failed"} /\ r.answer.guest \in BOOLEAN
  BY DEF CallerState, Answers
<1>2. CASE r.answer.guest /\ router # "guests"
  BY <1>2 DEF Verdict, AuthOutcomes
<1>3. CASE ~(r.answer.guest /\ router # "guests") /\ r.answer.err = "failed"
  BY <1>3 DEF Verdict, AuthOutcomes
<1>4. CASE ~(r.answer.guest /\ router # "guests") /\ r.answer.err = "invalid"
  BY <1>4 DEF Verdict, AuthOutcomes
<1>5. CASE ~(r.answer.guest /\ router # "guests") /\ r.answer.err = ""
  BY <1>5 DEF Verdict, AuthOutcomes
<1> QED
  BY <1>1, <1>2, <1>3, <1>4, <1>5

LEMMA DecideInv ==
  ASSUME AuthInv, NEW c \in Callers, Decide(c)
  PROVE  AuthInv'
<1>1. /\ caller[c] \in CallerState /\ AnswerIsValid(caller[c]) /\ caller[c].pc = "decide"
      /\ UNCHANGED <<live, caching, tokenCache, raced>>
  BY CallerInState DEF Decide, AtCaller
<1>2. PICK router \in Routers :
          \/ /\ Verdict(caller[c], router) = "served"
             /\ \/ /\ router \in {"logout", "logoutAll"}
                   /\ caller' = [caller EXCEPT ![c].pc = "logout", ![c].router = router, ![c].outcome = "served"]
                \/ caller' = [caller EXCEPT ![c].pc = "reply", ![c].outcome = "served"]
          \/ caller' = [caller EXCEPT ![c] = Replying(Verdict(caller[c], router))]
             /\ Verdict(caller[c], router) # "served"
  BY DEF Decide
<1>3. ASSUME NEW out \in AuthOutcomes, caller' = [caller EXCEPT ![c] = Replying(out)]
      PROVE  AuthInv'
  BY <1>1, <1>3, FreshStates, CallerStep DEF AnswerIsValid
<1>4. ASSUME Verdict(caller[c], router) = "served", router \in {"logout", "logoutAll"},
             caller' = [caller EXCEPT ![c].pc = "logout", ![c].router = router, ![c].outcome = "served"]
      PROVE  AuthInv'
  <2> DEFINE g == [caller[c] EXCEPT !.pc = "logout", !.router = router, !.outcome = "served"]
  <2>1. g \in CallerState /\ AnswerIsValid(g)
    BY <1>1, <1>4, VerdictIsAccepted DEF CallerState, AnswerIsValid, AuthOutcomes
  <2>2. caller' = [caller EXCEPT ![c] = g]
    BY <1>4
  <2> HIDE DEF g
  <2> QED
    BY <1>1, <2>1, <2>2, CallerStep
<1>5. ASSUME Verdict(caller[c], router) = "served",
             caller' = [caller EXCEPT ![c].pc = "reply", ![c].outcome = "served"]
      PROVE  AuthInv'
  <2> DEFINE g == [caller[c] EXCEPT !.pc = "reply", !.outcome = "served"]
  <2>1. g \in CallerState /\ AnswerIsValid(g)
    BY <1>1, <1>5, VerdictIsAccepted DEF CallerState, AnswerIsValid, AuthOutcomes
  <2>2. caller' = [caller EXCEPT ![c] = g]
    BY <1>5
  <2> HIDE DEF g
  <2> QED
    BY <1>1, <2>1, <2>2, CallerStep
<1> QED
  BY <1>1, <1>2, <1>3, <1>4, <1>5, VerdictIsAccepted

(* The homeserver forgets the tokens; the request that asked for it will see   *)
(* to their entries.                                                           *)
LEMMA LogoutInv ==
  ASSUME AuthInv, NEW c \in Callers, LogoutAtHomeserver(c)
  PROVE  AuthInv'
<1> DEFINE r == caller[c]
<1>1. r \in CallerState /\ AnswerIsValid(r) /\ r.pc = "logout" /\ UNCHANGED <<caching, tokenCache, raced>>
  BY CallerInState DEF LogoutAtHomeserver, AtCaller
<1>2. CASE caller' = [caller EXCEPT ![c] = Replying("error")] /\ UNCHANGED live
  BY <1>1, <1>2, FreshStates, CallerStep DEF AnswerIsValid, AuthOutcomes
<1>3. ASSUME r.token \in live,
             live' = IF r.router = "logout" THEN live \ {r.token} ELSE {t \in live : Owner[t] # Owner[r.token]},
             CallerGoes(c, "forget")
      PROVE  AuthInv'
  <2> DEFINE g == [r EXCEPT !.pc = "forget"]
  <2>1. g \in CallerState /\ AnswerIsValid(g) /\ g.pc = "forget" /\ g.router = r.router /\ g.token = r.token
          /\ g.answer = r.answer
    BY <1>1 DEF CallerState, AnswerIsValid
  <2>2. caller' \in [Callers -> CallerState] /\ \A d \in Callers : caller'[d] = IF d = c THEN g ELSE caller[d]
    BY <1>3, <2>1 DEF CallerGoes, AuthInv, AuthTypeOK, CallerState
  <2>3. live' \subseteq live
    BY <1>3
  <2> HIDE DEF g
  <2>4. AuthTypeOK' /\ (live \subseteq UserTokens)'
    BY <1>1, <2>2, <2>3 DEF AuthInv, AuthTypeOK, CallerState
  <2>5. CacheIsValid' /\ AnswersAreValid'
    BY <1>1, <2>1, <2>2 DEF AuthInv, CacheIsValid, AnswersAreValid
  <2>6. DeadEntriesAreForgotten'
    <3>1. r.answer.user = Owner[r.token]
      BY <1>1, <1>3 DEF AuthInv, AnswerIsValid, Valid, SpeaksFor, UserTokens
    <3>2. \A d \in Callers, t \in Tokens : Forgetting(d, t) => Forgetting(d, t)'
      BY <1>1, <2>1, <2>2 DEF Forgetting
    <3>3. \A t \in live \ live' : Forgetting(c, t)'
      BY <1>1, <1>3, <2>1, <2>2, <3>1 DEF Forgetting, AnswerIsValid
    <3> QED
      BY <1>1, <2>3, <3>2, <3>3 DEF AuthInv, DeadEntriesAreForgotten, UserTokens
  <2> QED
    BY <2>4, <2>5, <2>6 DEF AuthInv
<1> QED
  BY <1>2, <1>3 DEF LogoutAtHomeserver

(* The cache only loses entries. *)
LEMMA EntriesGoInv ==
  ASSUME AuthInv, DOMAIN tokenCache' \subseteq DOMAIN tokenCache,
         \A k \in DOMAIN tokenCache' : tokenCache'[k] = tokenCache[k],
         UNCHANGED <<live, caching, caller, raced>>
  PROVE  AuthInv'
<1>1. AuthTypeOK'
  BY DEF AuthInv, AuthTypeOK
<1>2. CacheIsValid' /\ AnswersAreValid' /\ (live \subseteq UserTokens)'
  BY DEF AuthInv, CacheIsValid, AnswersAreValid
<1>3. \A d \in Callers, t \in Tokens : Forgetting(d, t) => Forgetting(d, t)'
  BY DEF Forgetting
<1>4. DeadEntriesAreForgotten'
  BY <1>3 DEF AuthInv, DeadEntriesAreForgotten, UserTokens
<1> QED
  BY <1>1, <1>2, <1>4 DEF AuthInv

(* The request forgets the tokens that it has logged out: their entries are   *)
(* gone by the time nobody has to forget them.                                *)
LEMMA ForgetInv ==
  ASSUME AuthInv, NEW c \in Callers, ForgetToken(c)
  PROVE  AuthInv'
<1> DEFINE r == caller[c]
           keys == {CacheKey(r.token, r.answer.user), CacheKey(r.token, NoUser)}
<1>1. r \in CallerState /\ AnswerIsValid(r) /\ r.pc = "forget" /\ UNCHANGED <<live, caching, raced>>
  BY CallerInState DEF ForgetToken, AtCaller
<1>2. /\ DOMAIN tokenCache' \subseteq DOMAIN tokenCache
      /\ \A k \in DOMAIN tokenCache' : tokenCache'[k] = tokenCache[k]
      /\ IF r.router = "logoutAll" THEN DOMAIN tokenCache' = {} ELSE DOMAIN tokenCache' = DOMAIN tokenCache \ keys
  BY DEF ForgetToken, Without
<1>3. caller' \in [Callers -> CallerState]
      /\ \A d \in Callers : caller'[d] = IF d = c THEN Replying("served") ELSE caller[d]
  BY FreshStates, ZenonT(30) DEF ForgetToken, AuthInv, AuthTypeOK, CallerState, AuthOutcomes
<1>4. AuthTypeOK'
  BY <1>1, <1>2, <1>3 DEF AuthInv, AuthTypeOK, CallerState
<1>5. CacheIsValid' /\ (live \subseteq UserTokens)'
  BY <1>1, <1>2 DEF AuthInv, CacheIsValid
<1>6. AnswersAreValid'
  BY <1>3, FreshStates, ZenonT(30) DEF AuthInv, AnswersAreValid, AnswerIsValid, AuthOutcomes
<1>7. DeadEntriesAreForgotten'
  <2> SUFFICES ASSUME NEW t \in UserTokens \ (live \cup raced),
                      NEW k \in {CacheKey(t, NoUser), CacheKey(t, Owner[t])}, k \in DOMAIN tokenCache',
                      tokenCache'[k].err = ""
               PROVE  \E d \in Callers : Forgetting(d, t)'
    BY <1>1 DEF DeadEntriesAreForgotten
  <2>1. r.router # "logoutAll" /\ k \notin keys /\ k \in DOMAIN tokenCache /\ tokenCache[k].err = ""
    BY <1>2
  <2>2. PICK d \in Callers : Forgetting(d, t)
    BY <2>1 DEF AuthInv, DeadEntriesAreForgotten
  <2>3. CASE d = c
    BY <2>1, <2>2, <2>3 DEF Forgetting
  <2>4. CASE d # c
    BY <1>3, <2>2, <2>4 DEF Forgetting
  <2> QED
    BY <2>3, <2>4
<1> QED
  BY <1>4, <1>5, <1>6, <1>7 DEF AuthInv

LEMMA AuthNextInv == AuthInv /\ [AuthNext]_authVars => AuthInv'
<1> SUFFICES ASSUME AuthInv, [AuthNext]_authVars PROVE AuthInv'
  OBVIOUS
<1>1. ASSUME NEW c \in Callers, AuthWork(c) PROVE AuthInv'
  <2>1. CASE Reply(c)
    BY <2>1, FreshStates, CallerStep DEF Reply, AtCaller, AnswerIsValid
  <2> QED
    BY <1>1, <2>1, AskInv, StoreInv, DecideInv, LogoutInv, ForgetInv DEF AuthWork
<1>2. ASSUME NEW c \in Callers, WithoutLookUp(c) \/ \E k \in Claims : StartAuth(c, k[1], k[2]) PROVE AuthInv'
  BY <1>2, AskInv
<1>3. ASSUME NEW k \in DOMAIN tokenCache, EntryExpires(k) PROVE AuthInv'
  BY <1>3, EntriesGoInv DEF EntryExpires, Without
<1>4. CASE FlushCache
  BY <1>4, EntriesGoInv DEF FlushCache
<1>5. CASE UNCHANGED authVars
  BY <1>5, EntriesGoInv DEF authVars
<1> QED
  BY <1>1, <1>2, <1>3, <1>4, <1>5 DEF AuthNext

LEMMA AuthInvariance == AuthSpec => []AuthInv
BY AuthInitInv, AuthNextInv, PTL DEF AuthSpec

(* The cache, the requests and the homeserver keep their types.               *)
THEOREM AuthTypeCorrect == AuthSpec => []AuthTypeOK
<1>1. AuthInv => AuthTypeOK
  BY DEF AuthInv
<1> QED
  BY <1>1, AuthInvariance, PTL

(* No request is served as a user its token does not speak for, whatever      *)
(* other requests with other tokens and user_ids left in the cache            *)
(* (auth_cache.go:25-30, 89-98).                                              *)
THEOREM NobodyIsEverImpersonated == AuthSpec => []NobodyIsImpersonated
<1>1. AuthInv => NobodyIsImpersonated
  <2> SUFFICES ASSUME AuthInv, NEW c \in Callers, caller[c].outcome = "served", caller[c].token # SharedSecret
               PROVE  caller[c].answer.user \in {Owner[caller[c].token]} \cup SpeaksFor(caller[c].token, caller[c].as)
    BY DEF NobodyIsImpersonated
  <2> QED
    BY CallerInState DEF AnswerIsValid, Valid
<1> QED
  BY <1>1, AuthInvariance, PTL

(* After a logout the cache does not accept the token for its user, unless it *)
(* was cached after the homeserver had forgotten it: the safety part of       *)
(* LogoutTakesEffect (auth_cache.go:50, :153-156).                            *)
THEOREM LogoutsForgetTheToken == AuthSpec => []LogoutForgetsTheToken
<1>1. AuthInv => LogoutForgetsTheToken
  BY DEF AuthInv, DeadEntriesAreForgotten, LogoutForgetsTheToken, Forgetting, UserTokens, AtCaller
<1> QED
  BY <1>1, AuthInvariance, PTL

-----------------------------------------------------------------------------
(* Requests that wait for an upload. *)

(* A request that runs, runs on a node. *)
RequestsArePlaced == \A w \in Waiters : wt[w].pc # "idle" => wt[w].node \in Nodes

Subscribing(n) == {w \in Waiters : wt[w].pc = "subscribe" /\ wt[w].node = n}

(* Nobody begins to subscribe on a node that has subscribed, so that every    *)
(* request adds at most one subscription.                                     *)
SubscriptionsAreFew ==
    \A n \in Nodes : subscribed[n] + Cardinality(Subscribing(n)) <= Cardinality(Waiters)

(* One goroutine for the upload itself, and one for each message of Redis.    *)
AnnouncementsAreFew ==
    \A n \in Nodes :
        /\ put \in {"idle", "inserted"} => notes[n] = 0 /\ relay[n] = 0
        /\ put = "spawned" => notes[n] <= 1 /\ relay[n] = 0
        /\ notes[n] + relay[n] <= Cardinality(Waiters) + 1

NotifierInv ==
    /\ NotifierTypeOK
    /\ ChannelsStaySendable
    /\ RequestsArePlaced
    /\ SubscriptionsAreFew
    /\ AnnouncementsAreFew

LEMMA WaitersAreCounted ==
  /\ Cardinality(Waiters) \in Nat
  /\ \A S \in SUBSET Waiters : IsFiniteSet(S) /\ Cardinality(S) \in Nat /\ Cardinality(S) <= Cardinality(Waiters)
BY NotifierAssumption, FS_CardinalityType, FS_Subset

LEMMA AnswersAreStates ==
  ASSUME NEW result \in {"none", "record", "notYet", "noRecord"}, NEW timing \in {"early", "relayed", "late"}
  PROVE  Answered(result, timing) \in WaiterState /\ Answered(result, timing).pc = "idle"
BY DEF Answered, WaiterState, WaiterPcs

LEMMA NotifierInitInv == NotifierInit => NotifierInv
<1> SUFFICES ASSUME NotifierInit PROVE NotifierInv
  OBVIOUS
<1>1. \A w \in Waiters : wt[w] \in WaiterState /\ wt[w].pc = "idle"
  BY AnswersAreStates DEF NotifierInit, NotWaiting
<1>2. wt \in [Waiters -> WaiterState]
  BY <1>1 DEF NotifierInit
<1>3. NotifierTypeOK
  <2>1. 0 \in 0..Cardinality(Waiters) /\ 0 \in 0..(Cardinality(Waiters) + 1)
    BY WaitersAreCounted
  <2>2. /\ notes \in [Nodes -> 0..(Cardinality(Waiters) + 1)]
        /\ relay \in [Nodes -> 0..Cardinality(Waiters)]
        /\ subscribed \in [Nodes -> 0..Cardinality(Waiters)]
        /\ waiters \in [Nodes -> SUBSET Waiters]
    BY <2>1 DEF NotifierInit
  <2> QED
    BY <1>2, <2>2 DEF NotifierInit, NotifierTypeOK, PutPcs
<1>4. ChannelsStaySendable /\ RequestsArePlaced
  BY <1>1 DEF NotifierInit, ChannelsStaySendable, RequestsArePlaced
<1>5. \A n \in Nodes : Subscribing(n) = {}
  BY <1>1 DEF Subscribing
<1>6. SubscriptionsAreFew /\ AnnouncementsAreFew
  BY <1>5, WaitersAreCounted, FS_EmptySet DEF NotifierInit, SubscriptionsAreFew, AnnouncementsAreFew
<1> QED
  BY <1>3, <1>4, <1>6 DEF NotifierInv

(* A step of a request that has to do with channels only. *)
LEMMA RequestStep ==
  ASSUME NotifierInv, NEW w \in Waiters, NEW g \in WaiterState, wt' = [wt EXCEPT ![w] = g],
         wt[w].pc # "subscribe", g.pc # "subscribe", g.pc # "idle" => g.node \in Nodes,
         UNCHANGED <<row, expected, put, notes, relay, subscribed, missed>>,
         waiters' \in [Nodes -> SUBSET Waiters],
         \A n \in Nodes : waiters'[n] \subseteq waiters[n] \cup {w},
         \A n \in Nodes : w \in waiters'[n] => g.ch = "empty" /\ g.node = n /\ g.pc \in {"wait", "finish"}
  PROVE  NotifierInv'
<1>1. wt' \in [Waiters -> WaiterState] /\ \A v \in Waiters : wt'[v] = IF v = w THEN g ELSE wt[v]
  BY DEF NotifierInv, NotifierTypeOK
<1>2. NotifierTypeOK'
  BY <1>1 DEF NotifierInv, NotifierTypeOK
<1>3. ChannelsStaySendable'
  BY <1>1 DEF NotifierInv, NotifierTypeOK, ChannelsStaySendable
<1>4. RequestsArePlaced'
  BY <1>1 DEF NotifierInv, RequestsArePlaced
<1>5. \A n \in Nodes : Subscribing(n)' = Subscribing(n)
  BY <1>1 DEF Subscribing
<1>6. SubscriptionsAreFew' /\ AnnouncementsAreFew'
  BY <1>5 DEF NotifierInv, SubscriptionsAreFew, AnnouncementsAreFew
<1> QED
  BY <1>2, <1>3, <1>4, <1>6 DEF NotifierInv

(* Only a request at its channel is registered, and at its own node. *)
LEMMA RegisteredRequests ==
  ASSUME NotifierInv, NEW w \in Waiters
  PROVE  /\ wt[w] \in WaiterState
         /\ wt[w].pc # "idle" => wt[w].node \in Nodes
         /\ waiters \in [Nodes -> SUBSET Waiters]
         /\ \A n \in Nodes : w \in waiters[n] => wt[w].ch = "empty" /\ wt[w].node = n /\ wt[w].pc \in {"wait", "finish"}
BY DEF NotifierInv, NotifierTypeOK, ChannelsStaySendable, RequestsArePlaced

(* subscribeRedisUploads. *)
LEMMA SubscribeInv ==
  ASSUME NotifierInv, NEW w \in Waiters, CheckSubscription(w) \/ SubscribeRedisUploads(w)
  PROVE  NotifierInv'
<1>a. PICK n \in Nodes : wt[w].node = n
  BY RegisteredRequests DEF CheckSubscription, SubscribeRedisUploads
<1>0. /\ wt[w] \in WaiterState /\ wt[w].pc \in {"checkSubscription", "subscribe"} /\ wt[w].node = n
      /\ \A m \in Nodes : w \notin waiters[m]
      /\ waiters \in [Nodes -> SUBSET Waiters]
      /\ subscribed \in [Nodes -> 0..Cardinality(Waiters)]
  BY <1>a, RegisteredRequests DEF CheckSubscription, SubscribeRedisUploads, NotifierInv, NotifierTypeOK
<1>1. CASE CheckSubscription(w)
  <2>1. CASE subscribed[n] > 0
    <3> DEFINE g == [wt[w] EXCEPT !.pc = "register"]
    <3>1. g \in WaiterState /\ g.pc = "register" /\ g.node = n
      BY <1>0 DEF WaiterState, WaiterPcs
    <3>2. wt' = [wt EXCEPT ![w] = g] /\ wt[w].pc = "checkSubscription"
          /\ UNCHANGED <<row, expected, put, notes, relay, subscribed, waiters, missed>>
      BY <1>0, <1>1, <2>1 DEF CheckSubscription
    <3> HIDE DEF g
    <3> QED
      BY <1>0, <3>1, <3>2, RequestStep
  <2>2. CASE ~(subscribed[n] > 0)
    <3> DEFINE g == [wt[w] EXCEPT !.pc = "subscribe"]
    <3>1. g \in WaiterState /\ g.pc = "subscribe" /\ g.node = n
      BY <1>0 DEF WaiterState, WaiterPcs
    <3>2. wt' = [wt EXCEPT ![w] = g] /\ wt[w].pc = "checkSubscription"
          /\ UNCHANGED <<row, expected, put, notes, relay, subscribed, waiters, missed>>
      BY <1>0, <1>1, <2>2 DEF CheckSubscription
    <3> HIDE DEF g
    <3>3. wt' \in [Waiters -> WaiterState] /\ \A v \in Waiters : wt'[v] = IF v = w THEN g ELSE wt[v]
      BY <3>1, <3>2 DEF NotifierInv, NotifierTypeOK
    <3>4. NotifierTypeOK' /\ RequestsArePlaced' /\ AnnouncementsAreFew'
      BY <1>0, <3>1, <3>2, <3>3 DEF NotifierInv, NotifierTypeOK, RequestsArePlaced, AnnouncementsAreFew
    <3>5. ChannelsStaySendable'
      BY <1>0, <3>2, <3>3 DEF NotifierInv, ChannelsStaySendable
    <3>6. SubscriptionsAreFew'
      <4> SUFFICES ASSUME NEW m \in Nodes
                   PROVE  subscribed[m] + Cardinality(Subscribing(m)') <= Cardinality(Waiters)
        BY <3>2 DEF SubscriptionsAreFew
      <4>1. CASE m = n
        <5>1. subscribed[m] = 0
          BY <1>0, <2>2, <4>1, WaitersAreCounted
        <5>2. Subscribing(m)' \in SUBSET Waiters
          BY DEF Subscribing
        <5> QED
          BY <5>1, <5>2, WaitersAreCounted
      <4>2. CASE m # n
        <5>1. Subscribing(m)' = Subscribing(m)
          BY <3>1, <3>2, <3>3, <4>2 DEF Subscribing
        <5> QED
          BY <5>1 DEF NotifierInv, SubscriptionsAreFew
      <4> QED
        BY <4>1, <4>2
    <3> QED
      BY <3>4, <3>5, <3>6 DEF NotifierInv
  <2> QED
    BY <2>1, <2>2
<1>2. CASE SubscribeRedisUploads(w)
  <2> DEFINE g == [wt[w] EXCEPT !.pc = "register"]
  <2>1. g \in WaiterState /\ g.pc = "register" /\ g.node = n
    BY <1>0 DEF WaiterState, WaiterPcs
  <2>2. wt' = [wt EXCEPT ![w] = g] /\ wt[w].pc = "subscribe" /\ subscribed' = [subscribed EXCEPT ![n] = @ + 1]
        /\ UNCHANGED <<row, expected, put, notes, relay, waiters, missed>>
    BY <1>0, <1>2 DEF SubscribeRedisUploads
  <2> HIDE DEF g
  <2>3. wt' \in [Waiters -> WaiterState] /\ \A v \in Waiters : wt'[v] = IF v = w THEN g ELSE wt[v]
    BY <2>1, <2>2 DEF NotifierInv, NotifierTypeOK
  <2>4. SubscriptionsAreFew' /\ subscribed' \in [Nodes -> 0..Cardinality(Waiters)]
    <3>1. /\ \A m \in Nodes : subscribed[m] \in Nat /\ Cardinality(Subscribing(m)) \in Nat
                              /\ subscribed[m] + Cardinality(Subscribing(m)) <= Cardinality(Waiters)
          /\ \A m \in Nodes : Cardinality(Subscribing(m)') \in Nat
      <4>1. \A m \in Nodes : Subscribing(m) \in SUBSET Waiters /\ Subscribing(m)' \in SUBSET Waiters
        BY DEF Subscribing
      <4> QED
        BY <1>0, <4>1, WaitersAreCounted DEF NotifierInv, SubscriptionsAreFew
    <3>2. Cardinality(Subscribing(n)') = Cardinality(Subscribing(n)) - 1
      <4>1. w \in Subscribing(n) /\ Subscribing(n)' = Subscribing(n) \ {w} /\ Subscribing(n) \in SUBSET Waiters
        BY <1>0, <2>1, <2>2, <2>3 DEF Subscribing
      <4> QED
        BY <4>1, WaitersAreCounted, FS_RemoveElement
    <3>3. \A m \in Nodes \ {n} : Subscribing(m)' = Subscribing(m)
      BY <1>0, <2>1, <2>2, <2>3 DEF Subscribing
    <3>4. \A m \in Nodes : subscribed'[m] = IF m = n THEN subscribed[n] + 1 ELSE subscribed[m]
      BY <1>0, <2>2
    <3>5. \A m \in Nodes : subscribed'[m] \in Nat /\ subscribed'[m] + Cardinality(Subscribing(m)') <= Cardinality(Waiters)
      <4> SUFFICES ASSUME NEW m \in Nodes
                   PROVE  subscribed'[m] \in Nat /\ subscribed'[m] + Cardinality(Subscribing(m)') <= Cardinality(Waiters)
        OBVIOUS
      <4>1. CASE m = n
        BY <1>0, <3>1, <3>2, <3>4, <4>1, WaitersAreCounted
      <4>2. CASE m # n
        BY <1>0, <3>1, <3>3, <3>4, <4>2, WaitersAreCounted
      <4> QED
        BY <4>1, <4>2
    <3>6. subscribed' \in [Nodes -> 0..Cardinality(Waiters)]
      <4>1. \A m \in Nodes : subscribed'[m] \in 0..Cardinality(Waiters)
        BY <3>1, <3>5, WaitersAreCounted
      <4> QED
        BY <1>0, <2>2, <4>1
    <3> QED
      BY <3>5, <3>6 DEF SubscriptionsAreFew
  <2>5. NotifierTypeOK' /\ RequestsArePlaced' /\ AnnouncementsAreFew'
    BY <1>0, <2>1, <2>2, <2>3, <2>4 DEF NotifierInv, NotifierTypeOK, RequestsArePlaced, AnnouncementsAreFew
  <2>6. ChannelsStaySendable'
    BY <1>0, <2>2, <2>3 DEF NotifierInv, ChannelsStaySendable
  <2> QED
    BY <2>4, <2>5, <2>6 DEF NotifierInv
<1> QED
  BY <1>1, <1>2

(* The other steps of a request. *)
LEMMA WaiterInv ==
  ASSUME NotifierInv, NEW w \in Waiters,
         \/ GetById(w) \/ GetExpiring(w) \/ GetUploadWaitChannel(w)
         \/ ReceiveRecord(w) \/ TimeOut(w) \/ FinishWait(w)
  PROVE  NotifierInv'
<1>0. /\ wt[w] \in WaiterState /\ (wt[w].pc # "idle" => wt[w].node \in Nodes)
      /\ waiters \in [Nodes -> SUBSET Waiters]
      /\ \A n \in Nodes : w \in waiters[n] =>
             wt[w].ch = "empty" /\ wt[w].node = n /\ wt[w].pc \in {"wait", "finish"}
  BY RegisteredRequests
<1>2. CASE GetById(w)
  <2>1. CASE wt' = [wt EXCEPT ![w] = Answered("record", "early")]
    <3>1. wt[w].pc = "idle" /\ UNCHANGED <<row, expected, put, notes, relay, subscribed, waiters, missed>>
      BY <1>2 DEF GetById
    <3> QED
      BY <1>0, <2>1, <3>1, AnswersAreStates, RequestStep
  <2>2. ASSUME NEW n \in Nodes,
               wt' = [wt EXCEPT ![w] = [NotWaiting EXCEPT !.pc = "getExpiring", !.node = n]]
        PROVE  NotifierInv'
    <3> DEFINE g == [NotWaiting EXCEPT !.pc = "getExpiring", !.node = n]
    <3>1. g \in WaiterState /\ g.pc = "getExpiring" /\ g.node = n
      BY DEF NotWaiting, Answered, WaiterState, WaiterPcs
    <3>2. wt[w].pc = "idle" /\ UNCHANGED <<row, expected, put, notes, relay, subscribed, waiters, missed>>
      BY <1>2 DEF GetById
    <3>3. wt' = [wt EXCEPT ![w] = g]
      BY <2>2
    <3> HIDE DEF g
    <3> QED
      BY <1>0, <3>1, <3>2, <3>3, RequestStep
  <2> QED
    BY <1>2, <2>1, <2>2 DEF GetById
<1>3. CASE GetExpiring(w)
  <2>1. wt[w].pc = "getExpiring" /\ UNCHANGED <<row, expected, put, notes, relay, subscribed, waiters, missed>>
    BY <1>3 DEF GetExpiring
  <2>2. CASE expected
    <3> DEFINE g == [wt[w] EXCEPT !.pc = "checkSubscription"]
    <3>1. g \in WaiterState /\ g.pc = "checkSubscription" /\ g.node = wt[w].node
      BY <1>0 DEF WaiterState, WaiterPcs
    <3>2. wt' = [wt EXCEPT ![w] = g]
      BY <1>3, <2>2 DEF GetExpiring
    <3> HIDE DEF g
    <3> QED
      BY <1>0, <2>1, <3>1, <3>2, RequestStep
  <2>3. CASE ~expected
    <3>1. wt' = [wt EXCEPT ![w] = Answered("noRecord", "early")]
      BY <1>3, <2>3 DEF GetExpiring
    <3> QED
      BY <1>0, <2>1, <3>1, AnswersAreStates, RequestStep
  <2> QED
    BY <2>2, <2>3
<1>4. CASE GetUploadWaitChannel(w)
  <2> DEFINE g == [wt[w] EXCEPT !.pc = "wait", !.ch = "empty", !.timing = Timing(wt[w].node)]
  <2>1. Timing(wt[w].node) \in {"early", "relayed", "late"}
    BY DEF Timing
  <2>2. g \in WaiterState /\ g.pc = "wait" /\ g.ch = "empty" /\ g.node = wt[w].node
    BY <1>0, <2>1 DEF WaiterState, WaiterPcs
  <2>3. wt' = [wt EXCEPT ![w] = g] /\ wt[w].pc = "register"
        /\ UNCHANGED <<row, expected, put, notes, relay, subscribed, missed>>
    BY <1>4 DEF GetUploadWaitChannel
  <2>4. /\ waiters' \in [Nodes -> SUBSET Waiters]
        /\ \A n \in Nodes : waiters'[n] = IF n = wt[w].node THEN waiters[n] \cup {w} ELSE waiters[n]
    BY <1>0, <1>4 DEF GetUploadWaitChannel
  <2> HIDE DEF g
  <2>5. /\ \A n \in Nodes : waiters'[n] \subseteq waiters[n] \cup {w}
        /\ \A n \in Nodes : w \in waiters'[n] => g.ch = "empty" /\ g.node = n /\ g.pc \in {"wait", "finish"}
    BY <1>0, <2>2, <2>3, <2>4
  <2>6. wt[w].pc # "subscribe" /\ g.pc # "subscribe" /\ g.node \in Nodes
    BY <1>0, <2>2, <2>3
  <2> QED
    BY <2>2, <2>3, <2>4, <2>5, <2>6, RequestStep
<1>5. CASE ReceiveRecord(w)
  <2> DEFINE g == [wt[w] EXCEPT !.pc = "finish", !.ch = "empty", !.result = "record"]
  <2>1. g \in WaiterState /\ g.pc = "finish" /\ g.node = wt[w].node
    BY <1>0 DEF WaiterState, WaiterPcs
  <2>2. wt' = [wt EXCEPT ![w] = g] /\ wt[w].pc = "wait" /\ wt[w].ch = "full"
        /\ UNCHANGED <<row, expected, put, notes, relay, subscribed, waiters, missed>>
    BY <1>5 DEF ReceiveRecord
  <2> HIDE DEF g
  <2> QED
    BY <1>0, <2>1, <2>2, RequestStep
<1>6. CASE TimeOut(w)
  <2> DEFINE g == [wt[w] EXCEPT !.pc = "finish", !.result = "notYet"]
  <2>1. g \in WaiterState /\ g.pc = "finish" /\ g.node = wt[w].node /\ g.ch = wt[w].ch
    BY <1>0 DEF WaiterState, WaiterPcs
  <2>2. wt' = [wt EXCEPT ![w] = g] /\ wt[w].pc = "wait"
        /\ UNCHANGED <<row, expected, put, notes, relay, subscribed, waiters, missed>>
    BY <1>6 DEF TimeOut
  <2> HIDE DEF g
  <2> QED
    BY <1>0, <2>1, <2>2, RequestStep
<1>7. CASE FinishWait(w)
  <2> DEFINE g == Answered(wt[w].result, wt[w].timing)
  <2>1. g \in WaiterState /\ g.pc = "idle"
    BY <1>0, AnswersAreStates DEF WaiterState
  <2>2. wt' = [wt EXCEPT ![w] = g] /\ wt[w].pc = "finish"
        /\ UNCHANGED <<row, expected, put, notes, relay, subscribed, missed>>
    BY <1>7 DEF FinishWait
  <2>3. /\ waiters' \in [Nodes -> SUBSET Waiters]
        /\ \A n \in Nodes : waiters'[n] = IF n = wt[w].node THEN waiters[n] \ {w} ELSE waiters[n]
    BY <1>0, <1>7 DEF FinishWait
  <2> HIDE DEF g
  <2> QED
    BY <1>0, <2>1, <2>2, <2>3, RequestStep, ZenonT(30)
<1> QED
  BY <1>2, <1>3, <1>4, <1>5, <1>6, <1>7

(* Steps that leave the requests alone: the PUT request, the relay loop. *)
LEMMA AnnouncementStep ==
  ASSUME NotifierInv, UNCHANGED <<subscribed, waiters, wt>>,
         row' \in BOOLEAN, expected' \in BOOLEAN, missed' \in BOOLEAN, put' \in PutPcs,
         notes' \in [Nodes -> 0..(Cardinality(Waiters) + 1)], relay' \in [Nodes -> 0..Cardinality(Waiters)],
         AnnouncementsAreFew'
  PROVE  NotifierInv'
<1>1. NotifierTypeOK'
  BY DEF NotifierInv, NotifierTypeOK
<1>2. ChannelsStaySendable' /\ RequestsArePlaced'
  BY DEF NotifierInv, ChannelsStaySendable, RequestsArePlaced
<1>3. SubscriptionsAreFew'
  BY DEF NotifierInv, SubscriptionsAreFew, Subscribing
<1> QED
  BY <1>1, <1>2, <1>3 DEF NotifierInv

LEMMA PutInv ==
  ASSUME NotifierInv, PutInsert \/ PutStep \/ Expire
  PROVE  NotifierInv'
<1> DEFINE few == Cardinality(Waiters)
<1>0. /\ few \in Nat /\ put \in PutPcs /\ row \in BOOLEAN /\ expected \in BOOLEAN /\ missed \in BOOLEAN
      /\ notes \in [Nodes -> 0..(few + 1)] /\ relay \in [Nodes -> 0..few] /\ AnnouncementsAreFew
  BY WaitersAreCounted DEF NotifierInv, NotifierTypeOK
<1>1. CASE PutInsert \/ PutDeleteHold \/ Expire
  <2>1. UNCHANGED <<notes, relay, subscribed, waiters, wt, missed>> /\ row' \in BOOLEAN /\ expected' \in BOOLEAN
    BY <1>0, <1>1 DEF PutInsert, PutDeleteHold, Expire
  <2>2. put' = put \/ (put = "idle" /\ put' = "inserted") \/ put' = "done"
    BY <1>1 DEF PutInsert, PutDeleteHold, Expire
  <2>3. AnnouncementsAreFew' /\ put' \in PutPcs
    BY <1>0, <2>1, <2>2 DEF AnnouncementsAreFew, PutPcs
  <2> QED
    BY <1>0, <2>1, <2>3, AnnouncementStep
<1>2. CASE PutNotify
  <2>1. put = "inserted" /\ put' = "spawned" /\ notes' = [notes EXCEPT ![UploadNode] = @ + 1]
        /\ UNCHANGED <<row, expected, relay, subscribed, waiters, wt, missed>>
    BY <1>2 DEF PutNotify
  <2>2. \A n \in Nodes : notes[n] = 0 /\ relay[n] = 0
    BY <1>0, <2>1 DEF AnnouncementsAreFew
  <2>3. \A n \in Nodes : notes'[n] \in 0..1
    BY <1>0, <2>1, <2>2
  <2>4. \A n \in Nodes : notes'[n] \in 0..(few + 1)
    BY <1>0, <2>3
  <2>5. notes' \in [Nodes -> 0..(few + 1)]
    BY <1>0, <2>1, <2>4
  <2>6. AnnouncementsAreFew'
    BY <1>0, <2>1, <2>2, <2>3 DEF AnnouncementsAreFew
  <2> QED
    BY <1>0, <2>1, <2>5, <2>6, AnnouncementStep DEF PutPcs
<1>3. CASE PutPublish
  <2>1. /\ put = "spawned" /\ put' = "returned" /\ UNCHANGED <<row, expected, notes, subscribed, waiters, wt>>
        /\ relay' \in Delivered \/ UNCHANGED relay
        /\ missed' \in BOOLEAN
    BY <1>0, <1>3 DEF PutPublish
  <2>2. relay' \in [Nodes -> 0..few]
    BY <1>0, <2>1 DEF Delivered
  <2>3. \A n \in Nodes : notes[n] \in 0..(few + 1) /\ notes[n] <= 1 /\ relay'[n] \in 0..few
    BY <1>0, <2>1, <2>2 DEF AnnouncementsAreFew
  <2>4. AnnouncementsAreFew'
    BY <1>0, <2>1, <2>3 DEF AnnouncementsAreFew
  <2> QED
    BY <1>0, <2>1, <2>2, <2>4, AnnouncementStep DEF PutPcs
<1> QED
  BY <1>1, <1>2, <1>3 DEF PutStep

(* The relay loop of a node turns a message into at most one announcement. *)
LEMMA RelayInv ==
  ASSUME NotifierInv, NEW n \in Nodes, RelayUpload(n)
  PROVE  NotifierInv'
<1> DEFINE few == Cardinality(Waiters)
<1>0. /\ few \in Nat /\ put \in PutPcs /\ row \in BOOLEAN /\ expected \in BOOLEAN /\ missed \in BOOLEAN
      /\ notes \in [Nodes -> 0..(few + 1)] /\ relay \in [Nodes -> 0..few] /\ AnnouncementsAreFew
  BY WaitersAreCounted DEF NotifierInv, NotifierTypeOK
<1>1. /\ relay[n] > 0 /\ relay' = [relay EXCEPT ![n] = @ - 1]
      /\ notes' = [notes EXCEPT ![n] = @ + 1] \/ notes' = notes
      /\ UNCHANGED <<row, expected, put, subscribed, waiters, wt>> /\ missed' \in BOOLEAN
  BY <1>0 DEF RelayUpload
<1>2. \A m \in Nodes : notes[m] \in Nat /\ relay[m] \in Nat /\ notes[m] + relay[m] <= few + 1 /\ relay[m] <= few
  BY <1>0 DEF AnnouncementsAreFew
<1>3. \A m \in Nodes : /\ m # n => notes'[m] = notes[m] /\ relay'[m] = relay[m]
                       /\ m = n => relay'[m] = relay[n] - 1 /\ notes'[m] \in {notes[n], notes[n] + 1}
  BY <1>0, <1>1
<1>4. \A m \in Nodes : notes'[m] \in Nat /\ relay'[m] \in Nat /\ notes'[m] + relay'[m] <= few + 1 /\ relay'[m] <= few
  <2> SUFFICES ASSUME NEW m \in Nodes
               PROVE  notes'[m] \in Nat /\ relay'[m] \in Nat /\ notes'[m] + relay'[m] <= few + 1 /\ relay'[m] <= few
    OBVIOUS
  <2>1. CASE m = n
    BY <1>0, <1>1, <1>2, <1>3, <2>1
  <2>2. CASE m # n
    BY <1>2, <1>3, <2>2
  <2> QED
    BY <2>1, <2>2
<1>5. notes' \in [Nodes -> 0..(few + 1)] /\ relay' \in [Nodes -> 0..few]
  <2>1. \A m \in Nodes : notes'[m] \in 0..(few + 1) /\ relay'[m] \in 0..few
    BY <1>0, <1>4
  <2> QED
    BY <1>0, <1>1, <2>1
<1>6. put \in {"returned", "done"}
  BY <1>0, <1>1 DEF AnnouncementsAreFew, PutPcs
<1>7. AnnouncementsAreFew'
  BY <1>1, <1>4, <1>6 DEF AnnouncementsAreFew
<1> QED
  BY <1>0, <1>1, <1>5, <1>7, AnnouncementStep

(* The notify loop fills the channels of its node, and takes them off the list. *)
LEMMA NotifyInv ==
  ASSUME NotifierInv, NEW n \in Nodes, NoRelayNotifyUpload(n)
  PROVE  NotifierInv'
<1> DEFINE few == Cardinality(Waiters)
<1>0. /\ few \in Nat /\ notes \in [Nodes -> 0..(few + 1)] /\ relay \in [Nodes -> 0..few] /\ AnnouncementsAreFew
      /\ waiters \in [Nodes -> SUBSET Waiters] /\ wt \in [Waiters -> WaiterState]
  BY WaitersAreCounted DEF NotifierInv, NotifierTypeOK
<1>1. /\ notes[n] > 0 /\ notes' = [notes EXCEPT ![n] = @ - 1] /\ waiters' = [waiters EXCEPT ![n] = {}]
      /\ wt' = [w \in Waiters |-> IF w \in waiters[n] THEN [wt[w] EXCEPT !.ch = "full"] ELSE wt[w]]
      /\ UNCHANGED <<row, expected, put, relay, subscribed, missed>>
  BY DEF NoRelayNotifyUpload
<1>2. \A w \in Waiters : /\ wt'[w] \in WaiterState /\ wt'[w].pc = wt[w].pc /\ wt'[w].node = wt[w].node
                         /\ w \notin waiters[n] => wt'[w] = wt[w]
  <2> SUFFICES ASSUME NEW w \in Waiters
               PROVE  /\ wt'[w] \in WaiterState /\ wt'[w].pc = wt[w].pc /\ wt'[w].node = wt[w].node
                      /\ w \notin waiters[n] => wt'[w] = wt[w]
    OBVIOUS
  <2>1. wt[w] \in WaiterState
    BY <1>0
  <2>2. [wt[w] EXCEPT !.ch = "full"] \in WaiterState /\ [wt[w] EXCEPT !.ch = "full"].pc = wt[w].pc
        /\ [wt[w] EXCEPT !.ch = "full"].node = wt[w].node
    BY <2>1 DEF WaiterState
  <2> QED
    BY <1>1, <2>1, <2>2
<1>3. \A m \in Nodes : /\ notes'[m] \in 0..(few + 1) /\ notes'[m] <= notes[m]
                       /\ waiters'[m] = IF m = n THEN {} ELSE waiters[m]
  BY <1>0, <1>1
<1>4. NotifierTypeOK'
  <2>1. wt' \in [Waiters -> WaiterState]
    BY <1>1, <1>2
  <2>2. notes' \in [Nodes -> 0..(few + 1)]
    BY <1>0, <1>1, <1>3
  <2>3. waiters' \in [Nodes -> SUBSET Waiters]
    BY <1>0, <1>1
  <2> QED
    BY <1>1, <2>1, <2>2, <2>3 DEF NotifierInv, NotifierTypeOK
<1>5. ChannelsStaySendable'
  <2> SUFFICES ASSUME NEW m \in Nodes, NEW w \in waiters'[m]
               PROVE  wt'[w].ch = "empty" /\ wt'[w].node = m /\ wt'[w].pc \in {"wait", "finish"}
    BY DEF ChannelsStaySendable
  <2>1. m # n /\ w \in waiters[m] /\ w \in Waiters
    BY <1>0, <1>3
  <2>2. wt[w].ch = "empty" /\ wt[w].node = m /\ wt[w].pc \in {"wait", "finish"} /\ w \notin waiters[n]
    BY <2>1, RegisteredRequests
  <2> QED
    BY <1>2, <2>1, <2>2
<1>6. RequestsArePlaced'
  BY <1>2 DEF NotifierInv, RequestsArePlaced
<1>7. \A m \in Nodes : Subscribing(m)' = Subscribing(m)
  BY <1>2 DEF Subscribing
<1>8. SubscriptionsAreFew'
  BY <1>1, <1>7 DEF NotifierInv, SubscriptionsAreFew
<1>9. AnnouncementsAreFew'
  <2>1. \A m \in Nodes : relay'[m] = relay[m] /\ relay[m] \in Nat /\ notes[m] \in Nat /\ notes'[m] \in Nat
    BY <1>0, <1>1, <1>3
  <2>2. \A m \in Nodes : notes'[m] + relay'[m] <= few + 1
    BY <1>0, <1>3, <2>1 DEF AnnouncementsAreFew
  <2>3. \A m \in Nodes : /\ put' \in {"idle", "inserted"} => notes'[m] = 0 /\ relay'[m] = 0
                         /\ put' = "spawned" => notes'[m] <= 1 /\ relay'[m] = 0
    BY <1>0, <1>1, <1>3, <2>1 DEF AnnouncementsAreFew
  <2> QED
    BY <2>2, <2>3 DEF AnnouncementsAreFew
<1> QED
  BY <1>4, <1>5, <1>6, <1>8, <1>9 DEF NotifierInv

LEMMA NotifierNextInv == NotifierInv /\ [NotifierNext]_notifierVars => NotifierInv'
<1> SUFFICES ASSUME NotifierInv, [NotifierNext]_notifierVars PROVE NotifierInv'
  OBVIOUS
<1>1. ASSUME NEW w \in Waiters, GetById(w) \/ WaiterStep(w) \/ TimeOut(w) PROVE NotifierInv'
  BY <1>1, WaiterInv, SubscribeInv DEF WaiterStep
<1>2. ASSUME NEW n \in Nodes, NodeStep(n) PROVE NotifierInv'
  BY <1>2, RelayInv, NotifyInv DEF NodeStep
<1>3. CASE UNCHANGED notifierVars
  <2>1. UNCHANGED <<row, expected, put, notes, relay, subscribed, waiters, wt, missed>>
    BY <1>3 DEF notifierVars
  <2>2. AnnouncementsAreFew'
    BY <2>1 DEF NotifierInv, AnnouncementsAreFew
  <2> QED
    BY <2>1, <2>2, AnnouncementStep DEF NotifierInv, NotifierTypeOK
<1> QED
  BY <1>1, <1>2, <1>3, PutInv DEF NotifierNext

LEMMA NotifierInvariance == NotifierSpec => []NotifierInv
BY NotifierInitInv, NotifierNextInv, PTL DEF NotifierSpec

(* Among others: however many requests find no subscription and subscribe at  *)
(* the same time (uploads.go:75), a node has at most one for each of them, and *)
(* notifies its channels at most once more than that for an upload.           *)
THEOREM NotifierTypeCorrect == NotifierSpec => []NotifierTypeOK
<1>1. NotifierInv => NotifierTypeOK
  BY DEF NotifierInv
<1> QED
  BY <1>1, NotifierInvariance, PTL

(* No send of the notify loop meets a closed or a full channel, however often *)
(* a node is notified of the same upload (uploads.go:54-55): it does not      *)
(* panic, and does not block while it holds uploadMutex.                      *)
THEOREM NotifyLoopNeverBlocks == NotifierSpec => []ChannelsStaySendable
<1>1. NotifierInv => ChannelsStaySendable
  BY DEF NotifierInv
<1> QED
  BY <1>1, NotifierInvariance, PTL

-----------------------------------------------------------------------------
(* Both together. *)

LEMMA AuthTypes == AuthInv => AuthTypeOK
BY DEF AuthInv

LEMMA NotifierTypes == NotifierInv => NotifierTypeOK
BY DEF NotifierInv

(* Both parts of module MCClients keep their types together, for every value of  *)
(* its constants: in particular no more notifications are sent, relayed or       *)
(* subscribed to than there are requests that wait (uploads.go:19-56).           *)
THEOREM ClientTypesCorrect == Spec => []ClientsTypeOK
<1> DEFINE Inv == NotifierInv /\ AuthInv
<1>1. Init => Inv
  BY NotifierInitInv, AuthInitInv DEF Init
<1>2. [Next]_vars => [NotifierNext]_notifierVars
  BY DEF Next, Runs, vars
<1>3. [Next]_vars => [AuthNext]_authVars
  BY DEF Next, Runs, vars
<1>4. Inv /\ [Next]_vars => Inv'
  <2>1. NotifierInv /\ [Next]_vars => NotifierInv'
    BY <1>2, NotifierNextInv
  <2>2. AuthInv /\ [Next]_vars => AuthInv'
    BY <1>3, AuthNextInv
  <2> QED
    BY <2>1, <2>2
<1>5. Inv => ClientsTypeOK
  BY NotifierTypes, AuthTypes DEF ClientsTypeOK
<1> QED
  BY <1>1, <1>4, <1>5, PTL DEF Spec
=============================================================================
