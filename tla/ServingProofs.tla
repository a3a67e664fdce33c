--------------------------- MODULE ServingProofs ----------------------------
(***************************************************************************)
(* Serving media, for any number of requests that share lookups and        *)
(* streams: what is sent is paid for, a record that is out of date goes    *)
(* with the last request that knew it, the copy in Redis is whole, a       *)
(* thumbnail that is there is found, has a size the configuration allows,  *)
(* and keeps its file until it expires.                                    *)
(***************************************************************************)
EXTENDS MCServing, FoldFacts

-----------------------------------------------------------------------------
(* The download pipeline. *)

(* Price, for the local state g of a request. *)
PriceOf(g) ==
    CASE g.rec = NoRow -> IF g.opt.fetch THEN MaxSize ELSE 0
      [] g.rec = "clean" /\ ~g.opt.head -> FileSize
      [] OTHER -> 0

(* The account of a request, from the first charge to the answer. *)
PaidInv(g) ==
    /\ g.pc \in {"stream", "streamJoined", "open", "insert", "overwrite", "opened"} => ~g.again
    /\ g.pc \in {"open", "streamJoined"} => g.paid = PriceOf(g)
    /\ (g.pc = "streamJoined" => ~g.led)
    /\ g.pc \in {"insert", "overwrite"} => g.opt.fetch /\ g.paid = MaxSize
    /\ g.pc = "opened" =>
           /\ (g.rec = NoRow /\ g.opt.fetch) => g.paid = MaxSize
           /\ (g.rec = NoRow /\ g.out = "content") => g.opt.fetch
           /\ (g.rec = "clean" /\ g.out = "content") => g.paid = FileSize
    /\ (g.again /\ g.pc # "done" /\ g.opt.fetch) => g.paid = MaxSize
    /\ (g.again /\ g.led /\ g.out = "content") => g.opt.fetch
    /\ (g.pc = "settle" /\ ~g.again /\ g.led /\ g.out = "content" /\ g.rec = "clean") => g.paid = FileSize
    /\ (g.pc = "done" /\ g.led /\ g.out = "content" /\ g.rec = "clean") => g.paid = FileSize

(* A record that is about to be cached is the row, or its request was there   *)
(* when the row changed; only step 0 refuses restricted media.                *)
FreshInv(g) ==
    /\ (g.pc \in {"fetched", "store", "overwrite"} /\ g.rec = "clean" /\ row # "clean") => g.early
    /\ g.out = "restricted" => g.pc = "done"

FlightsAreLed == \A r \in Requests : get[r].pc \in {"fetch", "fetched"} => recordFlight[get[r].opt] = r

FollowersKnow ==
    \A q, r \in Requests :
        (get[q].pc = "joined" /\ get[r].pc = "fetched" /\ get[q].opt = get[r].opt
            /\ get[r].rec = "clean" /\ row # "clean") => get[q].early

(* A request that will forget the entry of the cache when it returns. *)
Watches(g, o) == g.pc # "idle" /\ g.opt = o /\ g.out # "restricted"

CacheIsWatched == \A o \in Options : recordCache[o] # NoRow => \E r \in Requests : Watches(get[r], o)

StaleIsKnown ==
    \A o \in Options : (recordCache[o] = "clean" /\ row # "clean") =>
        \E r \in Requests : Watches(get[r], o) /\ get[r].early

DownloadInv ==
    /\ DownloadTypeOK
    /\ \A r \in Requests : PaidInv(get[r])
    /\ \A r \in Requests : FreshInv(get[r])
    /\ FlightsAreLed
    /\ FollowersKnow
    /\ CacheIsWatched
    /\ StaleIsKnown

LEMMA OptionsAreRecords ==
  /\ \A o \in Options : o.fetch \in BOOLEAN /\ o.head \in BOOLEAN
  /\ (CHOOSE o \in Options : TRUE) \in Options
BY DownloadAssumption

LEMMA SizesAreNumbers == MaxSize \in Nat /\ FileSize \in Nat
BY DownloadAssumption

LEMMA HostsAreNoTags ==
  \A h \in Hosts : h \notin {"", "content", "record", "image", "error", "quarantined", "restricted", "cancelled"}
BY DownloadAssumption DEF Hosts

LEMMA IdleGetState ==
  /\ IdleGet \in GetState /\ IdleGet.pc = "idle" /\ IdleGet.out = "" /\ IdleGet.again = FALSE /\ IdleGet.led = FALSE
  /\ PaidInv(IdleGet) /\ FreshInv(IdleGet)
<1>1. IdleGet \in GetState /\ IdleGet.pc = "idle" /\ IdleGet.out = "" /\ IdleGet.again = FALSE /\ IdleGet.led = FALSE
  BY OptionsAreRecords DEF IdleGet, GetState, GetPcs, RowStates, GetOutcomes
<1> QED
  BY <1>1 DEF PaidInv, FreshInv

LEMMA DownloadInitInv == DownloadInit => DownloadInv
<1> SUFFICES ASSUME DownloadInit PROVE DownloadInv
  OBVIOUS
<1>1. get \in [Requests -> GetState] /\ \A r \in Requests : get[r] = IdleGet
  BY IdleGetState DEF DownloadInit
<1>2. DownloadTypeOK
  BY <1>1 DEF DownloadInit, DownloadTypeOK, RowStates
<1>3. FlightsAreLed /\ FollowersKnow
  BY <1>1, IdleGetState DEF FlightsAreLed, FollowersKnow
<1>4. CacheIsWatched /\ StaleIsKnown
  BY DEF DownloadInit, CacheIsWatched, StaleIsKnown, NoRow
<1> QED
  BY <1>1, <1>2, <1>3, <1>4, IdleGetState DEF DownloadInv

(* A step at which nobody returns, and the row only appears: whoever watches  *)
(* the cache keeps watching it.                                               *)
Keeps(g, h) ==
    g.pc # "idle" => /\ h.pc # "idle" /\ h.opt = g.opt
                     /\ g.early => h.early
                     /\ g.out # "restricted" => h.out # "restricted"

LEMMA SharedStep ==
  ASSUME DownloadInv, DownloadTypeOK', UNCHANGED recordCache, row' \in {row, "clean"},
         \A q \in Requests : PaidInv(get'[q]) /\ Keeps(get[q], get'[q]),
         \A q \in Requests : FreshInv(get[q])', FlightsAreLed', FollowersKnow'
  PROVE  DownloadInv'
<1>1. \A o \in Options, q \in Requests : /\ Watches(get[q], o) => Watches(get'[q], o)
                                         /\ (Watches(get[q], o) /\ get[q].early) => get'[q].early
  BY DEF Watches, Keeps
<1>2. CacheIsWatched'
  BY <1>1 DEF DownloadInv, CacheIsWatched, Watches
<1>3. StaleIsKnown'
  BY <1>1 DEF DownloadInv, StaleIsKnown, Watches
<1>4. \A r \in Requests : PaidInv(get[r])'
  BY DEF PaidInv, PriceOf
<1> QED
  BY <1>2, <1>3, <1>4 DEF DownloadInv

(* One request takes a step outside the shared lookup. *)
LEMMA SingleStep ==
  ASSUME DownloadInv, NEW r \in Requests, NEW g \in GetState, get' = [get EXCEPT ![r] = g],
         PaidInv(g), FreshInv(g)', Keeps(get[r], g), g.pc \notin {"fetch", "fetched", "joined"},
         ours' = ours, restricted' = restricted, UNCHANGED <<recordCache, recordFlight>>, row' \in {row, "clean"},
         streamFlight' \in [Options -> Requests \cup {Nobody}], errorCached' \in {"", "error"} \cup Hosts
  PROVE  DownloadInv'
<1>1. get' \in [Requests -> GetState] /\ \A q \in Requests : get'[q] = IF q = r THEN g ELSE get[q]
  BY DEF DownloadInv, DownloadTypeOK
<1>2. DownloadTypeOK'
  BY <1>1 DEF DownloadInv, DownloadTypeOK, RowStates
<1>3. \A q \in Requests : PaidInv(get'[q]) /\ Keeps(get[q], get'[q])
  BY <1>1 DEF DownloadInv, Keeps
<1>4. ASSUME NEW q \in Requests PROVE FreshInv(get[q])'
  <2>1. PICK h : h = get'[q]
    OBVIOUS
  <2>2. FreshInv(h)'
    BY <1>1, <2>1 DEF DownloadInv, FreshInv
  <2> QED
    BY <2>1, <2>2
<1>5. FlightsAreLed'
  BY <1>1 DEF DownloadInv, FlightsAreLed
<1>6. FollowersKnow'
  BY <1>1 DEF DownloadInv, FollowersKnow
<1> QED
  BY <1>2, <1>3, <1>4, <1>5, <1>6, SharedStep

LEMMA GetFields ==
  ASSUME DownloadInv, NEW r \in Requests
  PROVE  /\ get[r] \in GetState /\ PaidInv(get[r]) /\ FreshInv(get[r])
         /\ get[r].opt \in Options /\ get[r].opt.fetch \in BOOLEAN /\ get[r].opt.head \in BOOLEAN
         /\ get[r].rec \in RowStates /\ get[r].again \in BOOLEAN /\ get[r].early \in BOOLEAN /\ get[r].led \in BOOLEAN
         /\ get[r].paid \in {0, FileSize, MaxSize}
BY OptionsAreRecords DEF DownloadInv, DownloadTypeOK, GetState

(* A request that fails owes nothing, and watches until it returns. *)
LEMMA FailedState ==
  ASSUME NEW g \in GetState, NEW err \in GetErrors, err # "restricted"
  PROVE  /\ FailedGet(g, err) \in GetState /\ FailedGet(g, err).pc = "done" /\ FailedGet(g, err).opt = g.opt
         /\ FailedGet(g, err).early = g.early /\ FailedGet(g, err).out = err
         /\ PaidInv(FailedGet(g, err)) /\ Keeps(g, FailedGet(g, err))
         /\ FreshInv(FailedGet(g, err)) /\ FreshInv(FailedGet(g, err))'
<1> DEFINE h == FailedGet(g, err)
<1>1. err # "content" /\ err \in GetOutcomes
  BY HostsAreNoTags DEF GetErrors, GetOutcomes
<1>2. /\ h \in GetState /\ h.pc = "done" /\ h.opt = g.opt /\ h.early = g.early /\ h.out = err /\ h.again = FALSE
  BY <1>1 DEF FailedGet, GetState, GetPcs, RowStates
<1> HIDE DEF h
<1>3. PaidInv(h) /\ Keeps(g, h) /\ FreshInv(h) /\ FreshInv(h)'
  BY <1>1, <1>2 DEF PaidInv, Keeps, FreshInv
<1> QED
  BY <1>2, <1>3 DEF h

LEMMA FailsInv ==
  ASSUME DownloadInv, NEW r \in Requests, NEW err \in GetErrors, err # "restricted", GetFails(r, err),
         UNCHANGED <<dbVars, errorCached, recordCache, flightVars>>
  PROVE  DownloadInv'
<1>1. PICK g : g = FailedGet(get[r], err)
  OBVIOUS
<1>2. g \in GetState /\ PaidInv(g) /\ FreshInv(g)' /\ Keeps(get[r], g) /\ g.pc = "done"
  <2>1. PICK f \in GetState : f = get[r]
    BY GetFields
  <2> QED
    BY <1>1, <2>1, FailedState
<1>3. get' = [get EXCEPT ![r] = g]
  BY <1>1 DEF GetFails
<1> QED
  BY <1>2, <1>3, SingleStep DEF dbVars, flightVars, DownloadInv, DownloadTypeOK

(* Step 0, and the cache. *)
LEMMA StartInv ==
  ASSUME DownloadInv, NEW r \in Requests, NEW o \in Options, StartDownload(r, o)
  PROVE  DownloadInv'
<1>1. PICK next \in {"done", "lookup"}, out \in {"restricted", ""} :
          /\ next = "done" <=> out = "restricted"
          /\ get' = [get EXCEPT ![r] = [IdleGet EXCEPT !.pc = next, !.out = out, !.opt = o]]
  BY DEF StartDownload
<1>2. get[r].pc = "idle" /\ UNCHANGED <<ours, row, restricted, errorCached, recordCache, recordFlight, streamFlight>>
  BY DEF StartDownload, GetAt, dbVars, flightVars
<1>3. PICK g : g = [IdleGet EXCEPT !.pc = next, !.out = out, !.opt = o]
  OBVIOUS
<1>4. g \in GetState /\ g.pc = next /\ g.out = out /\ g.again = FALSE /\ g.led = FALSE
  BY <1>3, IdleGetState DEF GetState, GetPcs, GetOutcomes, GetErrors
<1>5. PaidInv(g) /\ FreshInv(g)' /\ Keeps(get[r], g)
  BY <1>1, <1>2, <1>4 DEF PaidInv, FreshInv, Keeps
<1>6. /\ streamFlight' \in [Options -> Requests \cup {Nobody}] /\ errorCached' \in {"", "error"} \cup Hosts
      /\ g.pc \notin {"fetch", "fetched", "joined"} /\ get' = [get EXCEPT ![r] = g]
  BY <1>1, <1>2, <1>3, <1>4 DEF DownloadInv, DownloadTypeOK
<1> QED
  BY <1>2, <1>4, <1>5, <1>6, SingleStep

LEMMA LoadInv ==
  ASSUME DownloadInv, NEW r \in Requests, LoadCached(r)
  PROVE  DownloadInv'
<1>0. PICK f : f = get[r]
  OBVIOUS
<1>1. PICK cached : cached = recordCache[f.opt]
  OBVIOUS
<1>2. PICK next : next = IF cached # NoRow THEN (IF f.again THEN "settle" ELSE "stream") ELSE "join"
  OBVIOUS
<1>3. /\ f.pc = "lookup" /\ get' = [get EXCEPT ![r] = [f EXCEPT !.pc = next, !.rec = cached]]
      /\ UNCHANGED <<ours, row, restricted, errorCached, recordCache, recordFlight, streamFlight>>
  BY <1>0, <1>1, <1>2 DEF LoadCached, GetAt, OptOf, AfterRecord, dbVars, flightVars
<1>4. f \in GetState /\ PaidInv(f) /\ FreshInv(f) /\ cached \in RowStates /\ f.again \in BOOLEAN
  BY <1>0, <1>1, GetFields DEF DownloadInv, DownloadTypeOK
<1>5. PICK g : g = [f EXCEPT !.pc = next, !.rec = cached]
  OBVIOUS
<1>6. /\ g \in GetState /\ g.pc = next /\ g.rec = cached /\ g.opt = f.opt /\ g.again = f.again /\ g.early = f.early
      /\ g.led = f.led /\ g.paid = f.paid /\ g.out = f.out
  BY <1>2, <1>4, <1>5 DEF GetState, GetPcs
<1>7. PaidInv(g)
  BY <1>2, <1>3, <1>4, <1>6 DEF PaidInv
<1>8. FreshInv(g)' /\ Keeps(get[r], g)
  BY <1>0, <1>2, <1>3, <1>4, <1>6 DEF FreshInv, Keeps
<1>9. streamFlight' \in [Options -> Requests \cup {Nobody}] /\ errorCached' \in {"", "error"} \cup Hosts
  BY <1>3 DEF DownloadInv, DownloadTypeOK
<1>10. g.pc \notin {"fetch", "fetched", "joined"} /\ get' = [get EXCEPT ![r] = g]
  BY <1>2, <1>3, <1>5, <1>6
<1> QED
  BY <1>3, <1>6, <1>7, <1>8, <1>9, <1>10, SingleStep

(* The lookup of the record. *)
LEMMA JoinInv ==
  ASSUME DownloadInv, NEW r \in Requests, JoinRecordFlight(r)
  PROVE  DownloadInv'
<1>0. PICK f : f = get[r]
  OBVIOUS
<1>1. /\ f.pc = "join" /\ UNCHANGED <<ours, row, restricted, errorCached, recordCache, streamFlight>>
  BY <1>0 DEF JoinRecordFlight, GetAt, dbVars
<1>2. f \in GetState /\ PaidInv(f) /\ FreshInv(f) /\ f.opt \in Options /\ f.early \in BOOLEAN
  BY <1>0, GetFields
<1>3. CASE recordFlight[f.opt] = Nobody
  <2>1. PICK g : g = [f EXCEPT !.pc = "fetch"]
    OBVIOUS
  <2>2. get' = [get EXCEPT ![r] = g] /\ recordFlight' = [recordFlight EXCEPT ![f.opt] = r]
    BY <1>0, <1>3, <2>1 DEF JoinRecordFlight, OptOf, GetGoes
  <2>3. /\ g \in GetState /\ g.pc = "fetch" /\ g.opt = f.opt /\ g.again = f.again /\ g.early = f.early
        /\ g.led = f.led /\ g.paid = f.paid /\ g.out = f.out /\ g.rec = f.rec
    BY <1>2, <2>1 DEF GetState, GetPcs
  <2>4. PaidInv(g) /\ FreshInv(g)' /\ Keeps(f, g)
    <3>1. PaidInv(g)
      BY <1>1, <1>2, <2>3 DEF PaidInv
    <3> QED
      BY <3>1, <1>1, <1>2, <2>3 DEF FreshInv, Keeps
  <2>5. get' \in [Requests -> GetState] /\ \A q \in Requests : get'[q] = IF q = r THEN g ELSE get[q]
    BY <2>2, <2>3 DEF DownloadInv, DownloadTypeOK
  <2>6. /\ recordFlight' \in [Options -> Requests \cup {Nobody}]
        /\ \A o \in Options : recordFlight'[o] = IF o = f.opt THEN r ELSE recordFlight[o]
    BY <1>2, <2>2 DEF DownloadInv, DownloadTypeOK
  <2>7. DownloadTypeOK'
    BY <1>1, <2>5, <2>6 DEF DownloadInv, DownloadTypeOK
  <2>8. FlightsAreLed'
    <3> SUFFICES ASSUME NEW q \in Requests, get'[q].pc \in {"fetch", "fetched"}
                 PROVE  recordFlight'[get'[q].opt] = q
      BY DEF FlightsAreLed
    <3>1. CASE q = r
      BY <1>2, <2>3, <2>5, <2>6, <3>1
    <3>2. CASE q # r
      <4>1. recordFlight[get[q].opt] = q /\ get[q].opt \in Options /\ get'[q] = get[q]
        BY <2>5, <3>2, GetFields DEF DownloadInv, FlightsAreLed
      <4> QED
        BY <1>3, <2>6, <4>1, DownloadAssumption
    <3> QED
      BY <3>1, <3>2
  <2>9. FollowersKnow'
    BY <1>1, <2>3, <2>5 DEF DownloadInv, FollowersKnow
  <2>10. \A q \in Requests : PaidInv(get'[q]) /\ Keeps(get[q], get'[q])
    BY <1>0, <2>4, <2>5 DEF DownloadInv, Keeps
  <2>11. ASSUME NEW q \in Requests PROVE FreshInv(get[q])'
    <3>1. PICK h : h = get'[q]
      OBVIOUS
    <3>2. FreshInv(h)'
      BY <1>1, <2>4, <2>5, <3>1 DEF DownloadInv, FreshInv
    <3> QED
      BY <3>1, <3>2
  <2> QED
    BY <1>1, <2>7, <2>8, <2>9, <2>10, <2>11, SharedStep
<1>4. CASE recordFlight[f.opt] # Nobody
  <2>1. PICK leader : leader = recordFlight[f.opt]
    OBVIOUS
  <2>2. leader \in Requests /\ get[leader].early \in BOOLEAN
    BY <1>2, <1>4, <2>1, GetFields DEF DownloadInv, DownloadTypeOK
  <2>3. PICK early \in BOOLEAN : early = (f.early \/ get[leader].early)
    BY <1>2, <2>2
  <2>4. PICK g : g = [f EXCEPT !.pc = "joined", !.early = early]
    OBVIOUS
  <2>5. get' = [get EXCEPT ![r] = g] /\ UNCHANGED recordFlight
    BY <1>0, <1>4, <2>1, <2>3, <2>4 DEF JoinRecordFlight, OptOf
  <2>6. /\ g \in GetState /\ g.pc = "joined" /\ g.opt = f.opt /\ g.again = f.again /\ g.early = early
        /\ g.led = f.led /\ g.paid = f.paid /\ g.out = f.out /\ g.rec = f.rec
    BY <1>2, <2>4 DEF GetState, GetPcs
  <2>7. PaidInv(g) /\ FreshInv(g)' /\ Keeps(f, g)
    <3>1. PaidInv(g)
      BY <1>1, <1>2, <2>6 DEF PaidInv
    <3> QED
      BY <3>1, <1>1, <1>2, <2>3, <2>6 DEF FreshInv, Keeps
  <2>8. get' \in [Requests -> GetState] /\ \A q \in Requests : get'[q] = IF q = r THEN g ELSE get[q]
    BY <2>5, <2>6 DEF DownloadInv, DownloadTypeOK
  <2>9. DownloadTypeOK' /\ FlightsAreLed'
    BY <1>1, <2>5, <2>6, <2>8 DEF DownloadInv, DownloadTypeOK, FlightsAreLed
  <2>10. FollowersKnow'
    <3> SUFFICES ASSUME NEW q \in Requests, NEW s \in Requests, get'[q].pc = "joined", get'[s].pc = "fetched",
                        get'[q].opt = get'[s].opt, get'[s].rec = "clean", row' # "clean"
                 PROVE  get'[q].early
      BY DEF FollowersKnow
    <3>1. s # r /\ get'[s] = get[s]
      BY <2>6, <2>8
    <3>2. CASE q = r
      <4>1. s = leader
        BY <2>1, <2>6, <2>8, <3>1, <3>2 DEF DownloadInv, FlightsAreLed
      <4>2. get[s].early
        BY <1>1, <3>1, GetFields DEF FreshInv
      <4> QED
        BY <2>3, <2>6, <2>8, <3>2, <4>1, <4>2
    <3>3. CASE q # r
      BY <1>1, <2>8, <3>1, <3>3 DEF DownloadInv, FollowersKnow
    <3> QED
      BY <3>2, <3>3
  <2>11. \A q \in Requests : PaidInv(get'[q]) /\ Keeps(get[q], get'[q])
    BY <1>0, <2>7, <2>8 DEF DownloadInv, Keeps
  <2>12. ASSUME NEW q \in Requests PROVE FreshInv(get[q])'
    <3>1. PICK h : h = get'[q]
      OBVIOUS
    <3>2. FreshInv(h)'
      BY <1>1, <2>7, <2>8, <3>1 DEF DownloadInv, FreshInv
    <3> QED
      BY <3>1, <3>2
  <2> QED
    BY <1>1, <2>9, <2>10, <2>11, <2>12, SharedStep
<1> QED
  BY <1>3, <1>4

LEMMA FetchInv ==
  ASSUME DownloadInv, NEW r \in Requests, FetchRecord(r)
  PROVE  DownloadInv'
<1>0. PICK f : f = get[r]
  OBVIOUS
<1>1. f.pc = "fetch" /\ UNCHANGED <<ours, row, restricted, errorCached, recordCache, recordFlight, streamFlight>>
  BY <1>0 DEF FetchRecord, GetAt, dbVars, flightVars
<1>2. f \in GetState /\ PaidInv(f) /\ FreshInv(f) /\ f.opt \in Options /\ row \in RowStates
  BY <1>0, GetFields DEF DownloadInv, DownloadTypeOK
<1>3. PICK now \in RowStates, out \in {f.out, "error"} :
          now = row /\ get' = [get EXCEPT ![r] = [f EXCEPT !.pc = "fetched", !.rec = now, !.out = out]]
  <2>1. PICK now \in RowStates : now = row
    BY <1>2
  <2>2. CASE get' = [get EXCEPT ![r].pc = "fetched", ![r].rec = row]
    <3>1. get' = [get EXCEPT ![r] = [f EXCEPT !.pc = "fetched", !.rec = now]]
      BY <1>0, <2>1, <2>2
    <3>2. [f EXCEPT !.pc = "fetched", !.rec = now] = [f EXCEPT !.pc = "fetched", !.rec = now, !.out = f.out]
      BY <1>2 DEF GetState
    <3> QED
      BY <2>1, <3>1, <3>2
  <2>3. CASE get' = [get EXCEPT ![r].pc = "fetched", ![r].rec = row, ![r].out = "error"]
    <3>1. get' = [get EXCEPT ![r] = [f EXCEPT !.pc = "fetched", !.rec = now, !.out = "error"]]
      BY <1>0, <2>1, <2>3
    <3> QED
      BY <2>1, <3>1
  <2> QED
    BY <2>2, <2>3 DEF FetchRecord
<1>4. PICK g : g = [f EXCEPT !.pc = "fetched", !.rec = now, !.out = out]
  OBVIOUS
<1>5. /\ g \in GetState /\ g.pc = "fetched" /\ g.opt = f.opt /\ g.again = f.again /\ g.early = f.early
      /\ g.led = f.led /\ g.paid = f.paid /\ g.out = out /\ g.rec = now
  BY <1>2, <1>4 DEF GetState, GetPcs, GetOutcomes, GetErrors
<1>6. PaidInv(g) /\ FreshInv(g)' /\ Keeps(f, g)
  <2>1. PaidInv(g)
    BY <1>1, <1>2, <1>5 DEF PaidInv
  <2> QED
    BY <2>1, <1>1, <1>2, <1>3, <1>5 DEF FreshInv, Keeps
<1>7. get' \in [Requests -> GetState] /\ \A q \in Requests : get'[q] = IF q = r THEN g ELSE get[q]
  BY <1>3, <1>4, <1>5 DEF DownloadInv, DownloadTypeOK
<1>8. DownloadTypeOK'
  BY <1>1, <1>7 DEF DownloadInv, DownloadTypeOK
<1>9. FlightsAreLed'
  BY <1>0, <1>1, <1>5, <1>7 DEF DownloadInv, FlightsAreLed
<1>10. FollowersKnow'
  BY <1>1, <1>3, <1>5, <1>7 DEF DownloadInv, FollowersKnow
<1>11. \A q \in Requests : PaidInv(get'[q]) /\ Keeps(get[q], get'[q])
  BY <1>0, <1>6, <1>7 DEF DownloadInv, Keeps
<1>12. ASSUME NEW q \in Requests PROVE FreshInv(get[q])'
  <2>1. PICK h : h = get'[q]
    OBVIOUS
  <2>2. FreshInv(h)'
    BY <1>1, <1>6, <1>7, <2>1 DEF DownloadInv, FreshInv
  <2> QED
    BY <2>1, <2>2
<1> QED
  BY <1>1, <1>8, <1>9, <1>10, <1>11, <1>12, SharedStep

LEMMA RecordFlightInv ==
  ASSUME DownloadInv, NEW r \in Requests, RecordFlightEnds(r)
  PROVE  DownloadInv'
<1> DEFINE Flies(q) == q = r \/ (get[q].pc = "joined" /\ get[q].opt = get[r].opt)
<1>0. PICK f : f = get[r]
  OBVIOUS
<1>1. /\ f.pc = "fetched" /\ UNCHANGED <<ours, row, restricted, errorCached, recordCache, streamFlight>>
      /\ recordFlight' = [recordFlight EXCEPT ![f.opt] = Nobody]
      /\ f \in GetState /\ f.opt \in Options /\ f.rec \in RowStates
  BY <1>0, GetFields DEF RecordFlightEnds, GetAt, OptOf, dbVars
<1>2. /\ DOMAIN get' = Requests
      /\ \A q \in Requests : get'[q] = IF Flies(q) THEN IF f.out = "error" THEN FailedGet(get[q], "error")
                                                     ELSE [get[q] EXCEPT !.pc = "store", !.rec = f.rec]
                                      ELSE get[q]
  BY <1>0 DEF RecordFlightEnds, GetAt, OptOf
<1>3. ASSUME NEW q \in Requests, Flies(q)
      PROVE  /\ get'[q] \in GetState /\ PaidInv(get'[q]) /\ Keeps(get[q], get'[q]) /\ FreshInv(get[q])'
             /\ get'[q].pc \in {"store", "done"}
  <2>0. PICK old \in GetState : old = get[q]
    BY GetFields
  <2>1. PICK new : old = get[q] /\ new = get'[q]
    BY <2>0
  <2>2. CASE f.out = "error"
    <3>1. new = FailedGet(old, "error")
      BY <1>2, <1>3, <2>1, <2>2
    <3>2. new \in GetState /\ PaidInv(new) /\ Keeps(old, new) /\ FreshInv(new)' /\ new.pc = "done"
      BY <3>1, FailedState DEF GetErrors
    <3> QED
      BY <2>1, <3>2
  <2>3. CASE f.out # "error"
    <3>1. new = [old EXCEPT !.pc = "store", !.rec = f.rec]
      BY <1>2, <1>3, <2>1, <2>3
    <3>2. /\ new \in GetState /\ new.pc = "store" /\ new.opt = old.opt /\ new.again = old.again
          /\ new.early = old.early /\ new.led = old.led /\ new.paid = old.paid /\ new.out = old.out
          /\ new.rec = f.rec
      BY <1>1, <3>1 DEF GetState, GetPcs
    <3>3. old.pc \in {"fetched", "joined"} /\ PaidInv(old) /\ FreshInv(old)
      BY <1>0, <1>1, <1>3, <2>1, GetFields
    <3>4. PaidInv(new) /\ Keeps(old, new)
      BY <3>2, <3>3 DEF PaidInv, Keeps
    <3>5. (f.rec = "clean" /\ row # "clean") => old.early
      BY <1>0, <1>1, <1>3, <2>1, GetFields DEF DownloadInv, FollowersKnow, FreshInv
    <3>6. FreshInv(new)'
      BY <1>1, <3>2, <3>3, <3>5 DEF FreshInv
    <3> QED
      BY <2>1, <3>2, <3>4, <3>6
  <2> QED
    BY <2>2, <2>3
<1>4. ASSUME NEW q \in Requests, ~Flies(q)
      PROVE  get'[q] = get[q] /\ get[q] \in GetState /\ PaidInv(get[q]) /\ Keeps(get[q], get[q]) /\ FreshInv(get[q])'
  <2>1. PICK old \in GetState : old = get[q] /\ old = get'[q]
    BY <1>2, <1>4, GetFields
  <2>2. PaidInv(old) /\ Keeps(old, old) /\ FreshInv(old)'
    BY <1>1, <2>1, GetFields DEF Keeps, FreshInv
  <2> QED
    BY <2>1, <2>2
<1>5. DownloadTypeOK'
  <2>1. recordFlight' \in [Options -> Requests \cup {Nobody}]
    BY <1>1 DEF DownloadInv, DownloadTypeOK
  <2>2. get' \in [Requests -> GetState]
    <3>1. \A q \in Requests : get'[q] \in GetState
      BY <1>3, <1>4
    <3>2. get' = [q \in Requests |-> get'[q]]
      BY DEF RecordFlightEnds
    <3> QED
      BY <3>1, <3>2
  <2> QED
    BY <1>1, <2>1, <2>2 DEF DownloadInv, DownloadTypeOK
<1>6. \A q \in Requests : PaidInv(get'[q]) /\ Keeps(get[q], get'[q])
  BY <1>3, <1>4
<1>7. \A q \in Requests : FreshInv(get[q])'
  BY <1>3, <1>4
<1>8. FlightsAreLed'
  <2> SUFFICES ASSUME NEW q \in Requests, get'[q].pc \in {"fetch", "fetched"}
               PROVE  recordFlight'[get'[q].opt] = q
    BY DEF FlightsAreLed
  <2>1. ~Flies(q) /\ get'[q] = get[q] /\ get[q].opt \in Options
    BY <1>3, <1>4, GetFields
  <2>2. recordFlight[get[q].opt] = q /\ recordFlight[f.opt] = r
    BY <1>0, <1>1, <2>1 DEF DownloadInv, FlightsAreLed
  <2> QED
    BY <1>1, <2>1, <2>2 DEF DownloadInv, DownloadTypeOK
<1>9. FollowersKnow'
  <2> SUFFICES ASSUME NEW q \in Requests, NEW s \in Requests, get'[q].pc = "joined", get'[s].pc = "fetched",
                      get'[q].opt = get'[s].opt, get'[s].rec = "clean", row' # "clean"
               PROVE  get'[q].early
    BY DEF FollowersKnow
  <2>1. get'[q] = get[q] /\ get'[s] = get[s]
    BY <1>3, <1>4
  <2> QED
    BY <1>1, <2>1 DEF DownloadInv, FollowersKnow
<1> QED
  BY <1>1, <1>5, <1>6, <1>7, <1>8, <1>9, SharedStep

(* One request writes the cache, and watches its entry from then on. *)
LEMMA StoringStep ==
  ASSUME DownloadInv, NEW r \in Requests, NEW g \in GetState, get' = [get EXCEPT ![r] = g],
         PaidInv(g), FreshInv(g)', Keeps(get[r], g), g.pc \notin {"fetch", "fetched", "joined"},
         NEW o \in Options, NEW v \in RowStates, recordCache' = [recordCache EXCEPT ![o] = v],
         Watches(g, o), (v = "clean" /\ row # "clean") => (g.early \/ v = recordCache[o]),
         UNCHANGED <<ours, row, restricted, errorCached, recordFlight, streamFlight>>
  PROVE  DownloadInv'
<1>1. get' \in [Requests -> GetState] /\ \A q \in Requests : get'[q] = IF q = r THEN g ELSE get[q]
  BY DEF DownloadInv, DownloadTypeOK
<1>2. /\ recordCache' \in [Options -> RowStates]
      /\ \A p \in Options : recordCache'[p] = IF p = o THEN v ELSE recordCache[p]
  BY DEF DownloadInv, DownloadTypeOK
<1>3. DownloadTypeOK'
  BY <1>1, <1>2 DEF DownloadInv, DownloadTypeOK
<1>4. \A q \in Requests : PaidInv(get'[q]) /\ Keeps(get[q], get'[q])
  BY <1>1 DEF DownloadInv, Keeps
<1>5. \A q \in Requests : PaidInv(get[q])'
  BY <1>4 DEF PaidInv, PriceOf
<1>6. ASSUME NEW q \in Requests PROVE FreshInv(get[q])'
  <2>1. PICK h : h = get'[q]
    OBVIOUS
  <2>2. FreshInv(h)'
    BY <1>1, <2>1 DEF DownloadInv, FreshInv
  <2> QED
    BY <2>1, <2>2
<1>7. FlightsAreLed' /\ FollowersKnow'
  BY <1>1 DEF DownloadInv, FlightsAreLed, FollowersKnow
<1>8. \A p \in Options, q \in Requests : /\ Watches(get[q], p) => Watches(get'[q], p)
                                         /\ (Watches(get[q], p) /\ get[q].early) => get'[q].early
  BY <1>4 DEF Watches, Keeps
<1>9. CacheIsWatched'
  <2> SUFFICES ASSUME NEW p \in Options, recordCache'[p] # NoRow
               PROVE  \E q \in Requests : Watches(get'[q], p)
    BY DEF CacheIsWatched, Watches
  <2>1. CASE p = o
    BY <1>1, <2>1
  <2>2. CASE p # o
    BY <1>2, <1>8, <2>2 DEF DownloadInv, CacheIsWatched
  <2> QED
    BY <2>1, <2>2
<1>10. StaleIsKnown'
  <2> SUFFICES ASSUME NEW p \in Options, recordCache'[p] = "clean", row # "clean"
               PROVE  \E q \in Requests : Watches(get'[q], p) /\ get'[q].early
    BY DEF StaleIsKnown, Watches
  <2>1. CASE p = o /\ g.early
    BY <1>1, <2>1
  <2>2. CASE ~(p = o /\ g.early)
    <3>1. recordCache[p] = "clean"
      BY <1>2, <2>2
    <3>2. PICK q \in Requests : Watches(get[q], p) /\ get[q].early
      BY <3>1 DEF DownloadInv, StaleIsKnown
    <3> QED
      BY <1>8, <3>2
  <2> QED
    BY <2>1, <2>2
<1> QED
  BY <1>3, <1>5, <1>6, <1>7, <1>9, <1>10 DEF DownloadInv

LEMMA StoreInv ==
  ASSUME DownloadInv, NEW r \in Requests, StoreRecord(r)
  PROVE  DownloadInv'
<1>0. PICK f : f = get[r]
  OBVIOUS
<1>1. PICK v : v = IF f.rec = NoRow THEN recordCache[f.opt] ELSE f.rec
  OBVIOUS
<1>2. PICK next : next = IF f.again THEN "settle" ELSE "stream"
  OBVIOUS
<1>3. PICK g : g = [f EXCEPT !.pc = next]
  OBVIOUS
<1>4. /\ f.pc = "store" /\ get' = [get EXCEPT ![r] = g] /\ recordCache' = [recordCache EXCEPT ![f.opt] = v]
      /\ UNCHANGED <<ours, row, restricted, errorCached, recordFlight, streamFlight>>
  BY <1>0, <1>1, <1>2, <1>3 DEF StoreRecord, GetAt, OptOf, GetGoes, AfterRecord, dbVars, flightVars
<1>5. /\ f \in GetState /\ PaidInv(f) /\ FreshInv(f) /\ f.opt \in Options /\ v \in RowStates
  BY <1>0, <1>1, GetFields DEF DownloadInv, DownloadTypeOK
<1>6. /\ g \in GetState /\ g.pc = next /\ g.rec = f.rec /\ g.opt = f.opt /\ g.again = f.again /\ g.early = f.early
      /\ g.led = f.led /\ g.paid = f.paid /\ g.out = f.out
  BY <1>2, <1>3, <1>5 DEF GetState, GetPcs
<1>7. PaidInv(g)
  BY <1>2, <1>4, <1>5, <1>6 DEF PaidInv
<1>8. FreshInv(g)' /\ Keeps(get[r], g) /\ Watches(g, f.opt) /\ g.pc \notin {"fetch", "fetched", "joined"}
  BY <1>0, <1>2, <1>4, <1>5, <1>6 DEF FreshInv, Keeps, Watches
<1>9. (v = "clean" /\ row # "clean") => (g.early \/ v = recordCache[f.opt])
  BY <1>1, <1>4, <1>5, <1>6 DEF FreshInv
<1> QED
  BY <1>4, <1>5, <1>6, <1>7, <1>8, <1>9, StoringStep

LEMMA OverwriteInv ==
  ASSUME DownloadInv, NEW r \in Requests, OverwriteRecord(r)
  PROVE  DownloadInv'
<1>0. PICK f : f = get[r]
  OBVIOUS
<1>1. PICK out : out = IF f.opt.head THEN "record" ELSE "content"
  OBVIOUS
<1>2. PICK g : g = [f EXCEPT !.pc = "opened", !.rec = NoRow, !.out = out]
  OBVIOUS
<1>3. /\ f.pc = "overwrite" /\ get' = [get EXCEPT ![r] = g] /\ recordCache' = [recordCache EXCEPT ![f.opt] = f.rec]
      /\ UNCHANGED <<ours, row, restricted, errorCached, recordFlight, streamFlight>>
  BY <1>0, <1>1, <1>2 DEF OverwriteRecord, GetAt, OptOf, dbVars, flightVars
<1>4. /\ f \in GetState /\ PaidInv(f) /\ FreshInv(f) /\ f.opt \in Options /\ f.rec \in RowStates
  BY <1>0, GetFields
<1>5. /\ g \in GetState /\ g.pc = "opened" /\ g.rec = NoRow /\ g.opt = f.opt /\ g.again = f.again
      /\ g.early = f.early /\ g.led = f.led /\ g.paid = f.paid /\ g.out = out /\ out \in {"record", "content"}
  BY <1>1, <1>2, <1>4 DEF GetState, GetPcs, RowStates, GetOutcomes
<1>6. PaidInv(g)
  BY <1>3, <1>4, <1>5 DEF PaidInv, NoRow
<1>7. FreshInv(g)' /\ Keeps(get[r], g) /\ Watches(g, f.opt) /\ g.pc \notin {"fetch", "fetched", "joined"}
  BY <1>0, <1>3, <1>4, <1>5 DEF FreshInv, Keeps, Watches
<1>8. (f.rec = "clean" /\ row # "clean") => g.early
  BY <1>3, <1>4, <1>5 DEF FreshInv
<1> QED
  BY <1>3, <1>4, <1>5, <1>6, <1>7, <1>8, StoringStep

(* The stream. *)
LEMMA JoinStreamInv ==
  ASSUME DownloadInv, NEW r \in Requests, JoinStreamFlight(r)
  PROVE  DownloadInv'
<1>1. CASE BucketFull(r, Price(r)) /\ UNCHANGED streamFlight
  BY <1>1, FailsInv DEF JoinStreamFlight, BucketFull, GetErrors, flightVars
<1>2. CASE ~(BucketFull(r, Price(r)) /\ UNCHANGED streamFlight)
  <2>0. PICK f : f = get[r]
    OBVIOUS
  <2>1. PICK leads \in BOOLEAN : leads = (streamFlight[f.opt] = Nobody)
    OBVIOUS
  <2>2. PICK g : g = [f EXCEPT !.pc = IF leads THEN "open" ELSE "streamJoined", !.led = leads, !.paid = PriceOf(f)]
    OBVIOUS
  <2>2a. Price(r) = PriceOf(f)
    BY <2>0 DEF Price, PriceOf, OptOf
  <2>3. /\ f.pc = "stream" /\ get' = [get EXCEPT ![r] = g]
        /\ streamFlight' = IF leads THEN [streamFlight EXCEPT ![f.opt] = r] ELSE streamFlight
        /\ UNCHANGED <<ours, row, restricted, errorCached, recordCache, recordFlight>>
    BY <1>2, <2>0, <2>1, <2>2, <2>2a, ZenonT(30) DEF JoinStreamFlight, GetAt, OptOf, dbVars
  <2>4. /\ f \in GetState /\ PaidInv(f) /\ FreshInv(f) /\ f.opt \in Options
    BY <2>0, GetFields
  <2>5. PriceOf(f) \in {0, FileSize, MaxSize}
    BY DEF PriceOf
  <2>6. /\ g \in GetState /\ g.pc \in {"open", "streamJoined"} /\ (g.pc = "streamJoined" => ~g.led)
        /\ g.rec = f.rec /\ g.opt = f.opt /\ g.again = f.again /\ g.early = f.early /\ g.out = f.out
        /\ g.paid = PriceOf(f)
    BY <2>2, <2>4, <2>5 DEF GetState, GetPcs
  <2>7. PriceOf(g) = PriceOf(f)
    BY <2>6 DEF PriceOf
  <2>8. PaidInv(g)
    BY <2>3, <2>4, <2>6, <2>7 DEF PaidInv
  <2>9. FreshInv(g)' /\ Keeps(get[r], g)
    BY <2>0, <2>3, <2>4, <2>6 DEF FreshInv, Keeps
  <2>10. /\ streamFlight' \in [Options -> Requests \cup {Nobody}] /\ errorCached' \in {"", "error"} \cup Hosts
         /\ g.pc \notin {"fetch", "fetched", "joined"}
    BY <2>3, <2>4, <2>6 DEF DownloadInv, DownloadTypeOK
  <2> QED
    BY <2>3, <2>6, <2>8, <2>9, <2>10, SingleStep
<1> QED
  BY <1>1, <1>2

(* The result of a stream is there for the leader. *)
LEMMA OpenedInv ==
  ASSUME DownloadInv, NEW r \in Requests, NEW out \in GetOutcomes, Opened(r, out), out # "restricted",
         get[r].pc \in {"open", "insert"},
         get[r].pc = "insert" => out # "content",
         out = "content" => get[r].rec = "clean" /\ ~get[r].opt.head,
         UNCHANGED <<ours, row, restricted, recordCache, recordFlight, streamFlight>>,
         errorCached' \in {"", "error"} \cup Hosts
  PROVE  DownloadInv'
<1>0. PICK f : f = get[r]
  OBVIOUS
<1>1. PICK g : g = [f EXCEPT !.pc = "opened", !.out = out]
  OBVIOUS
<1>2. get' = [get EXCEPT ![r] = g]
  BY <1>0, <1>1 DEF Opened
<1>3. f \in GetState /\ PaidInv(f) /\ FreshInv(f)
  BY <1>0, GetFields
<1>4. /\ g \in GetState /\ g.pc = "opened" /\ g.rec = f.rec /\ g.opt = f.opt /\ g.again = f.again
      /\ g.early = f.early /\ g.led = f.led /\ g.paid = f.paid /\ g.out = out
  BY <1>1, <1>3 DEF GetState, GetPcs
<1>5. /\ ~f.again
      /\ (f.rec = NoRow /\ f.opt.fetch) => f.paid = MaxSize
      /\ (f.rec = "clean" /\ out = "content") => f.paid = FileSize
  BY <1>0, <1>3 DEF PaidInv, PriceOf, NoRow
<1>6. PaidInv(g)
  BY <1>0, <1>4, <1>5 DEF PaidInv, NoRow
<1>7. FreshInv(g)' /\ Keeps(get[r], g)
  BY <1>0, <1>4 DEF FreshInv, Keeps
<1>8. streamFlight' \in [Options -> Requests \cup {Nobody}] /\ g.pc \notin {"fetch", "fetched", "joined"}
  BY <1>4 DEF DownloadInv, DownloadTypeOK
<1> QED
  BY <1>2, <1>4, <1>6, <1>7, <1>8, SingleStep

LEMMA OpenInv ==
  ASSUME DownloadInv, NEW r \in Requests, OpenMedia(r)
  PROVE  DownloadInv'
<1>1. PICK out \in {"image", "quarantined", "record", "content", "error"} :
          Opened(r, out) /\ (out = "content" => get[r].rec = "clean" /\ ~get[r].opt.head)
  BY GetFields DEF OpenMedia, Quarantined, OptOf
<1>2. /\ get[r].pc = "open" /\ UNCHANGED <<ours, row, restricted, recordCache, recordFlight, streamFlight>>
      /\ errorCached' \in {"", "error"} \cup Hosts
  BY DEF OpenMedia, GetAt, dbVars, flightVars, DownloadInv, DownloadTypeOK
<1>3. out \in GetOutcomes /\ out # "restricted"
  BY DEF GetOutcomes, GetErrors
<1> QED
  BY <1>1, <1>2, <1>3, OpenedInv

(* A request for a file elsewhere goes on to store it. *)
LEMMA FetchRemoteInv ==
  ASSUME DownloadInv, NEW r \in Requests, FetchRemote(r)
  PROVE  DownloadInv'
<1>1. /\ get[r].pc = "open" /\ UNCHANGED <<ours, row, restricted, recordCache, recordFlight, streamFlight>>
      /\ get[r].rec = NoRow /\ get[r].opt.fetch
  BY DEF FetchRemote, GetAt, OptOf, dbVars, flightVars
<1>2. ASSUME NEW err \in {"error"} \cup Hosts, Opened(r, err), errorCached' \in {"", "error"} \cup Hosts
      PROVE  DownloadInv'
  <2>1. err \in GetOutcomes /\ err # "restricted" /\ err # "content"
    BY HostsAreNoTags DEF GetOutcomes, GetErrors
  <2> QED
    BY <1>1, <1>2, <2>1, OpenedInv
<1>3. CASE errorCached # ""
  BY <1>2, <1>3 DEF FetchRemote, DownloadInv, DownloadTypeOK
<1>4. CASE \E err \in {"error", HostOf[r]} : Opened(r, err) /\ errorCached' = err
  BY <1>2, <1>4 DEF Hosts
<1>5. CASE GetGoes(r, "insert") /\ UNCHANGED errorCached
  <2>0. PICK f : f = get[r]
    OBVIOUS
  <2>1. PICK g : g = [f EXCEPT !.pc = "insert"]
    OBVIOUS
  <2>2. get' = [get EXCEPT ![r] = g] /\ f \in GetState /\ PaidInv(f) /\ FreshInv(f)
    BY <1>5, <2>0, <2>1, GetFields DEF GetGoes
  <2>3. /\ g \in GetState /\ g.pc = "insert" /\ g.rec = f.rec /\ g.opt = f.opt /\ g.again = f.again
        /\ g.early = f.early /\ g.led = f.led /\ g.paid = f.paid /\ g.out = f.out
    BY <2>1, <2>2 DEF GetState, GetPcs
  <2>4. ~f.again /\ f.paid = MaxSize
    BY <1>1, <2>0, <2>2 DEF PaidInv, PriceOf, NoRow
  <2>5. PaidInv(g)
    BY <1>1, <2>0, <2>3, <2>4 DEF PaidInv
  <2>6. FreshInv(g)' /\ Keeps(get[r], g)
    BY <1>1, <2>0, <2>2, <2>3 DEF FreshInv, Keeps
  <2>7. /\ streamFlight' \in [Options -> Requests \cup {Nobody}] /\ errorCached' \in {"", "error"} \cup Hosts
        /\ g.pc \notin {"fetch", "fetched", "joined"}
    BY <1>1, <1>5, <2>3 DEF DownloadInv, DownloadTypeOK
  <2> QED
    BY <1>1, <2>2, <2>3, <2>5, <2>6, <2>7, SingleStep
<1> QED
  BY <1>3, <1>4, <1>5 DEF FetchRemote

LEMMA InsertInv ==
  ASSUME DownloadInv, NEW r \in Requests, InsertRemote(r)
  PROVE  DownloadInv'
<1>1. /\ get[r].pc = "insert" /\ UNCHANGED <<ours, restricted, errorCached, recordCache, recordFlight, streamFlight>>
  BY DEF InsertRemote, GetAt, flightVars
<1>2. CASE UNCHANGED row /\ \E err \in {"error", "quarantined"} : Opened(r, err)
  <2>1. PICK err \in {"error", "quarantined"} : Opened(r, err)
    BY <1>2
  <2>2. err \in GetOutcomes /\ errorCached' \in {"", "error"} \cup Hosts
    BY <1>1 DEF GetOutcomes, GetErrors, DownloadInv, DownloadTypeOK
  <2> QED
    BY <1>1, <1>2, <2>1, <2>2, OpenedInv
<1>3. CASE row' = "clean" /\ get' = [get EXCEPT ![r].pc = "overwrite", ![r].rec = "clean"]
  <2>0. PICK f : f = get[r]
    OBVIOUS
  <2>1. PICK g : g = [f EXCEPT !.pc = "overwrite", !.rec = "clean"]
    OBVIOUS
  <2>2. get' = [get EXCEPT ![r] = g] /\ f \in GetState /\ PaidInv(f) /\ FreshInv(f)
    BY <1>3, <2>0, <2>1, GetFields
  <2>3. /\ g \in GetState /\ g.pc = "overwrite" /\ g.rec = "clean" /\ g.opt = f.opt /\ g.again = f.again
        /\ g.early = f.early /\ g.led = f.led /\ g.paid = f.paid /\ g.out = f.out
    BY <2>1, <2>2 DEF GetState, GetPcs, RowStates
  <2>4. PaidInv(g)
    BY <1>1, <2>0, <2>2, <2>3 DEF PaidInv
  <2>5. FreshInv(g)' /\ Keeps(get[r], g)
    BY <1>1, <1>3, <2>0, <2>2, <2>3 DEF FreshInv, Keeps
  <2>6. /\ streamFlight' \in [Options -> Requests \cup {Nobody}] /\ errorCached' \in {"", "error"} \cup Hosts
        /\ g.pc \notin {"fetch", "fetched", "joined"}
    BY <1>1, <2>3 DEF DownloadInv, DownloadTypeOK
  <2> QED
    BY <1>1, <1>3, <2>2, <2>3, <2>4, <2>5, <2>6, SingleStep
<1> QED
  BY <1>2, <1>3 DEF InsertRemote

(* The result of a stream, for those who share it. *)
LEMMA WithStreamState ==
  ASSUME NEW f \in GetState, PaidInv(f), FreshInv(f), NEW host, NEW out \in GetOutcomes, out # "restricted",
         f.pc = "streamJoined" \/ (f.pc = "opened" /\ f.out = out)
  PROVE  LET g == WithStream(f, host, out) IN
             /\ g \in GetState /\ PaidInv(g) /\ Keeps(f, g) /\ FreshInv(g) /\ FreshInv(g)'
             /\ g.pc \in {"done", "lookup", "settle"}
<1>1. CASE out \in Hosts \ {host}
  BY <1>1, FailedState DEF WithStream, GetErrors
<1>2. CASE out \in GetErrors \ (Hosts \ {host})
  <2>1. WithStream(f, host, out) = FailedGet(f, out)
    BY <1>2 DEF WithStream
  <2> QED
    BY <1>2, <2>1, FailedState
<1>3. CASE out \notin GetErrors
  <2>1. PICK g : g = [f EXCEPT !.pc = IF f.rec = NoRow THEN "lookup" ELSE "settle", !.again = (f.rec = NoRow), !.out = out]
    OBVIOUS
  <2>2. WithStream(f, host, out) = g
    BY <1>3, <2>1 DEF WithStream, GetErrors
  <2>3. /\ g \in GetState /\ g.pc = (IF f.rec = NoRow THEN "lookup" ELSE "settle") /\ g.again = (f.rec = NoRow)
        /\ g.out = out /\ g.rec = f.rec /\ g.opt = f.opt /\ g.early = f.early /\ g.led = f.led /\ g.paid = f.paid
    BY <2>1 DEF GetState, GetPcs
  <2>4. /\ (f.rec = NoRow /\ f.opt.fetch) => f.paid = MaxSize
        /\ (f.rec = NoRow /\ f.led /\ out = "content") => f.opt.fetch
        /\ (f.rec = "clean" /\ f.led /\ out = "content") => f.paid = FileSize
    <3>1. CASE f.pc = "opened"
      BY <3>1 DEF PaidInv
    <3>2. CASE f.pc = "streamJoined"
      BY <3>2 DEF PaidInv, PriceOf, NoRow
    <3> QED
      BY <3>1, <3>2
  <2>5. PaidInv(g)
    BY <2>3, <2>4 DEF PaidInv
  <2>6. Keeps(f, g) /\ FreshInv(g) /\ FreshInv(g)' /\ g.pc \in {"lookup", "settle"}
    BY <2>3 DEF Keeps, FreshInv
  <2> QED
    BY <2>2, <2>3, <2>5, <2>6
<1> QED
  BY <1>1, <1>2, <1>3

LEMMA StreamFlightInv ==
  ASSUME DownloadInv, NEW r \in Requests, StreamFlightEnds(r)
  PROVE  DownloadInv'
<1> DEFINE Flies(q) == q = r \/ (get[q].pc = "streamJoined" /\ get[q].opt = get[r].opt)
<1>1. PICK out \in GetOutcomes : out = get[r].out
  BY GetFields DEF GetState
<1>2. /\ get[r].pc = "opened" /\ out # "restricted"
      /\ UNCHANGED <<ours, row, restricted, errorCached, recordCache, recordFlight>>
      /\ streamFlight' \in [Options -> Requests \cup {Nobody}]
  BY <1>1, GetFields DEF StreamFlightEnds, GetAt, OptOf, dbVars, FreshInv, DownloadInv, DownloadTypeOK
<1>3. /\ get' = [q \in Requests |-> get'[q]]
      /\ \A q \in Requests : get'[q] = IF Flies(q) THEN WithStream(get[q], HostOf[q], out) ELSE get[q]
  BY <1>1 DEF StreamFlightEnds, GetAt, OptOf
<1>4. ASSUME NEW q \in Requests, Flies(q)
      PROVE  /\ get'[q] \in GetState /\ PaidInv(get'[q]) /\ Keeps(get[q], get'[q]) /\ FreshInv(get[q])'
             /\ get'[q].pc \in {"done", "lookup", "settle"}
  <2>0. PICK old \in GetState : old = get[q]
    BY GetFields
  <2>1. PICK host : old = get[q] /\ host = HostOf[q]
    BY <2>0
  <2>2. PICK new : new = get'[q]
    OBVIOUS
  <2>3. new = WithStream(old, host, out) /\ PaidInv(old) /\ FreshInv(old)
    BY <1>3, <1>4, <2>1, <2>2, GetFields
  <2>4. old.pc = "streamJoined" \/ (old.pc = "opened" /\ old.out = out)
    BY <1>1, <1>2, <1>4, <2>1
  <2>5. new \in GetState /\ PaidInv(new) /\ Keeps(old, new) /\ FreshInv(new)' /\ new.pc \in {"done", "lookup", "settle"}
    BY <1>2, <2>3, <2>4, WithStreamState
  <2> QED
    BY <2>1, <2>2, <2>5
<1>5. ASSUME NEW q \in Requests, ~Flies(q)
      PROVE  get'[q] = get[q] /\ get[q] \in GetState /\ PaidInv(get[q]) /\ Keeps(get[q], get[q]) /\ FreshInv(get[q])'
  <2>1. PICK old \in GetState : old = get[q] /\ old = get'[q]
    BY <1>3, <1>5, GetFields
  <2>2. PaidInv(old) /\ Keeps(old, old) /\ FreshInv(old)'
    BY <1>2, <2>1, GetFields DEF Keeps, FreshInv
  <2> QED
    BY <2>1, <2>2
<1>6. DownloadTypeOK'
  <2>1. \A q \in Requests : get'[q] \in GetState
    BY <1>4, <1>5
  <2>2. get' \in [Requests -> GetState]
    BY <1>3, <2>1
  <2> QED
    BY <1>2, <2>2 DEF DownloadInv, DownloadTypeOK
<1>7. \A q \in Requests : PaidInv(get'[q]) /\ Keeps(get[q], get'[q])
  BY <1>4, <1>5
<1>8. \A q \in Requests : FreshInv(get[q])'
  BY <1>4, <1>5
<1>9. \A q \in Requests : get'[q].pc \in {"fetch", "fetched", "joined"} => get'[q] = get[q]
  BY <1>4, <1>5
<1>10. FlightsAreLed'
  BY <1>2, <1>9 DEF DownloadInv, FlightsAreLed
<1>11. FollowersKnow'
  BY <1>2, <1>9 DEF DownloadInv, FollowersKnow
<1> QED
  BY <1>2, <1>6, <1>7, <1>8, <1>10, <1>11, SharedStep

(* What was paid in advance is settled. *)
LEMMA SettleInv ==
  ASSUME DownloadInv, NEW r \in Requests, Settle(r)
  PROVE  DownloadInv'
<1>1. get[r].pc = "settle" /\ UNCHANGED <<dbVars, errorCached, recordCache, flightVars>>
  BY DEF Settle, GetAt
<1>2. CASE GetFails(r, "error")
  BY <1>1, <1>2, FailsInv DEF GetErrors
<1>3. CASE ~GetFails(r, "error")
  <2>0. PICK f : f = get[r]
    OBVIOUS
  <2>1. f \in GetState /\ PaidInv(f) /\ FreshInv(f) /\ f.pc = "settle" /\ f.opt.fetch \in BOOLEAN
    BY <1>1, <2>0, GetFields
  <2>2. PICK paid \in {0, FileSize, MaxSize} :
            /\ get' = [get EXCEPT ![r] = [f EXCEPT !.pc = "done", !.paid = paid]]
            /\ IF f.again /\ f.opt.fetch THEN paid = FileSize ELSE paid = f.paid
    <3>1. CASE f.again /\ f.opt.fetch
      <4>1. f.paid = MaxSize
        BY <2>1, <3>1 DEF PaidInv
      <4>2. f.paid - (MaxSize - FileSize) = FileSize
        BY <4>1, SizesAreNumbers
      <4>3. get' = [get EXCEPT ![r].pc = "done", ![r].paid = @ - (MaxSize - FileSize)]
        BY <1>3, <2>0, <3>1 DEF Settle, ChargedMaxSize, OptOf, BucketFull
      <4>4. get' = [get EXCEPT ![r] = [f EXCEPT !.pc = "done", !.paid = FileSize]]
        BY <2>0, <4>2, <4>3
      <4> QED
        BY <3>1, <4>4
    <3>2. CASE ~(f.again /\ f.opt.fetch)
      <4>1. get' = [get EXCEPT ![r] = [f EXCEPT !.pc = "done"]]
        BY <1>3, <2>0, <3>2 DEF Settle, ChargedMaxSize, OptOf, GetGoes
      <4>2. [f EXCEPT !.pc = "done"] = [f EXCEPT !.pc = "done", !.paid = f.paid] /\ f.paid \in {0, FileSize, MaxSize}
        BY <2>1 DEF GetState
      <4> QED
        BY <3>2, <4>1, <4>2
    <3> QED
      BY <3>1, <3>2
  <2>3. PICK g : g = [f EXCEPT !.pc = "done", !.paid = paid]
    OBVIOUS
  <2>4. /\ g \in GetState /\ g.pc = "done" /\ g.rec = f.rec /\ g.opt = f.opt /\ g.again = f.again
        /\ g.early = f.early /\ g.led = f.led /\ g.paid = paid /\ g.out = f.out
    BY <2>1, <2>3 DEF GetState, GetPcs
  <2>5. PaidInv(g)
    BY <2>1, <2>2, <2>4 DEF PaidInv
  <2>6. FreshInv(g)' /\ Keeps(get[r], g)
    BY <2>0, <2>1, <2>4 DEF FreshInv, Keeps
  <2>7. /\ streamFlight' \in [Options -> Requests \cup {Nobody}] /\ errorCached' \in {"", "error"} \cup Hosts
        /\ g.pc \notin {"fetch", "fetched", "joined"} /\ get' = [get EXCEPT ![r] = g]
    BY <1>1, <2>2, <2>3, <2>4 DEF flightVars, DownloadInv, DownloadTypeOK
  <2> QED
    BY <1>1, <2>4, <2>5, <2>6, <2>7, SingleStep DEF dbVars, flightVars
<1> QED
  BY <1>2, <1>3

(* The last watcher of an entry forgets it when it returns. *)
LEMMA ReturnInv ==
  ASSUME DownloadInv, NEW r \in Requests, ForgetAndReturn(r)
  PROVE  DownloadInv'
<1>0. PICK f : f = get[r]
  OBVIOUS
<1>1. PICK v : v = IF f.out = "restricted" THEN recordCache[f.opt] ELSE NoRow
  OBVIOUS
<1>2. /\ f.pc = "done" /\ get' = [get EXCEPT ![r] = IdleGet] /\ recordCache' = [recordCache EXCEPT ![f.opt] = v]
      /\ UNCHANGED <<ours, row, restricted, errorCached, recordFlight, streamFlight>>
  BY <1>0, <1>1 DEF ForgetAndReturn, GetAt, OptOf, dbVars, flightVars
<1>3. f \in GetState /\ f.opt \in Options /\ v \in RowStates
  BY <1>0, <1>1, GetFields DEF DownloadInv, DownloadTypeOK, RowStates
<1>4. get' \in [Requests -> GetState] /\ \A q \in Requests : get'[q] = IF q = r THEN IdleGet ELSE get[q]
  BY <1>2, IdleGetState DEF DownloadInv, DownloadTypeOK
<1>5. /\ recordCache' \in [Options -> RowStates]
      /\ \A o \in Options : recordCache'[o] = IF o = f.opt THEN v ELSE recordCache[o]
  BY <1>2, <1>3 DEF DownloadInv, DownloadTypeOK
<1>6. DownloadTypeOK'
  BY <1>2, <1>4, <1>5 DEF DownloadInv, DownloadTypeOK
<1>7. ASSUME NEW q \in Requests PROVE PaidInv(get[q])' /\ FreshInv(get[q])'
  <2>1. PICK h : h = get'[q]
    OBVIOUS
  <2>2. PaidInv(h) /\ FreshInv(h)'
    BY <1>2, <1>4, <2>1, IdleGetState DEF DownloadInv, FreshInv
  <2>3. PaidInv(h)'
    BY <2>2 DEF PaidInv, PriceOf
  <2> QED
    BY <2>1, <2>2, <2>3
<1>8. FlightsAreLed' /\ FollowersKnow'
  BY <1>2, <1>4, IdleGetState DEF DownloadInv, FlightsAreLed, FollowersKnow
<1>9. ASSUME NEW o \in Options, recordCache'[o] # NoRow
      PROVE  recordCache[o] = recordCache'[o] /\ \A q \in Requests : Watches(get[q], o) => get'[q] = get[q]
  BY <1>0, <1>1, <1>4, <1>5, <1>9 DEF Watches
<1>10. CacheIsWatched'
  <2> SUFFICES ASSUME NEW o \in Options, recordCache'[o] # NoRow
               PROVE  \E q \in Requests : Watches(get'[q], o)
    BY DEF CacheIsWatched, Watches
  <2>1. PICK q \in Requests : Watches(get[q], o)
    BY <1>9 DEF DownloadInv, CacheIsWatched
  <2> QED
    BY <1>9, <2>1
<1>11. StaleIsKnown'
  <2> SUFFICES ASSUME NEW o \in Options, recordCache'[o] = "clean", row # "clean"
               PROVE  \E q \in Requests : Watches(get'[q], o) /\ get'[q].early
    BY <1>2 DEF StaleIsKnown, Watches
  <2>1. recordCache[o] = "clean" /\ \A q \in Requests : Watches(get[q], o) => get'[q] = get[q]
    BY <1>9 DEF NoRow
  <2>2. PICK q \in Requests : Watches(get[q], o) /\ get[q].early
    BY <2>1 DEF DownloadInv, StaleIsKnown
  <2> QED
    BY <2>1, <2>2
<1> QED
  BY <1>6, <1>7, <1>8, <1>10, <1>11 DEF DownloadInv

(* Every request there is knows of a change of the row. *)
LEMMA RowInv ==
  ASSUME DownloadInv, NEW state \in {"quarantined", NoRow}, RowChanges(state)
  PROVE  DownloadInv'
<1>1. /\ row = "clean" /\ row' = state /\ UNCHANGED <<ours, restricted, errorCached, recordCache, recordFlight, streamFlight>>
      /\ get' = [r \in Requests |-> IF r \in ActiveGets THEN [get[r] EXCEPT !.early = TRUE] ELSE get[r]]
  BY DEF RowChanges, flightVars
<1>2. ASSUME NEW q \in Requests
      PROVE  /\ get'[q] \in GetState /\ PaidInv(get'[q]) /\ FreshInv(get[q])'
             /\ get'[q].pc = get[q].pc /\ get'[q].opt = get[q].opt /\ get'[q].out = get[q].out
             /\ get'[q].pc # "idle" => get'[q].early
  <2>1. PICK old \in GetState : old = get[q]
    BY GetFields
  <2>2. PICK new : new = get'[q]
    OBVIOUS
  <2>3. PaidInv(old) /\ FreshInv(old)
    BY <2>1, GetFields
  <2>4. new = IF old.pc # "idle" THEN [old EXCEPT !.early = TRUE] ELSE old
    BY <1>1, <2>1, <2>2 DEF ActiveGets
  <2>5. /\ new \in GetState /\ new.pc = old.pc /\ new.opt = old.opt /\ new.out = old.out /\ new.again = old.again
        /\ new.led = old.led /\ new.paid = old.paid /\ new.rec = old.rec /\ (old.pc # "idle" => new.early)
    BY <2>4 DEF GetState
  <2>6. PriceOf(new) = PriceOf(old)
    BY <2>5 DEF PriceOf
  <2>7. PaidInv(new)
    BY <2>3, <2>5, <2>6 DEF PaidInv
  <2>8. FreshInv(new)'
    BY <2>3, <2>5 DEF FreshInv
  <2> QED
    BY <2>1, <2>2, <2>5, <2>7, <2>8
<1>3. DownloadTypeOK'
  <2>1. get' \in [Requests -> GetState]
    <3>1. \A q \in Requests : get'[q] \in GetState
      BY <1>2
    <3>2. get' = [q \in Requests |-> get'[q]]
      BY <1>1
    <3> QED
      BY <3>1, <3>2
  <2> QED
    BY <1>1, <2>1 DEF DownloadInv, DownloadTypeOK, RowStates
<1>4. \A q \in Requests : PaidInv(get[q])' /\ FreshInv(get[q])'
  BY <1>2 DEF PaidInv, PriceOf
<1>5. FlightsAreLed' /\ FollowersKnow'
  BY <1>1, <1>2 DEF DownloadInv, FlightsAreLed, FollowersKnow
<1>6. CacheIsWatched' /\ StaleIsKnown'
  <2>1. \A o \in Options, q \in Requests : Watches(get[q], o) => Watches(get'[q], o) /\ get'[q].early
    BY <1>2 DEF Watches
  <2>2. CacheIsWatched'
    BY <1>1, <2>1 DEF DownloadInv, CacheIsWatched, Watches
  <2>3. StaleIsKnown'
    <3> SUFFICES ASSUME NEW o \in Options, recordCache[o] = "clean"
                 PROVE  \E q \in Requests : Watches(get'[q], o) /\ get'[q].early
      BY <1>1 DEF StaleIsKnown, Watches
    <3>1. PICK q \in Requests : Watches(get[q], o)
      BY DEF DownloadInv, CacheIsWatched, NoRow
    <3> QED
      BY <2>1, <3>1
  <2> QED
    BY <2>2, <2>3
<1> QED
  BY <1>3, <1>4, <1>5, <1>6 DEF DownloadInv

(* No request takes a step, and the row only appears. *)
LEMMA QuietStep ==
  ASSUME DownloadInv, ours' = ours, restricted' \in BOOLEAN, row' \in {row, "clean"},
         errorCached' \in {"", "error"} \cup Hosts, UNCHANGED <<recordCache, recordFlight, streamFlight, get>>
  PROVE  DownloadInv'
<1>1. DownloadTypeOK'
  BY DEF DownloadInv, DownloadTypeOK, RowStates
<1>2. \A q \in Requests : PaidInv(get'[q]) /\ Keeps(get[q], get'[q])
  BY DEF DownloadInv, Keeps
<1>3. \A q \in Requests : FreshInv(get[q])'
  BY DEF DownloadInv, FreshInv
<1>4. FlightsAreLed' /\ FollowersKnow'
  BY DEF DownloadInv, FlightsAreLed, FollowersKnow
<1> QED
  BY <1>1, <1>2, <1>3, <1>4, SharedStep

LEMMA DownloadNextInv == DownloadInv /\ [DownloadNext]_downloadVars => DownloadInv'
<1> SUFFICES ASSUME DownloadInv, [DownloadNext]_downloadVars PROVE DownloadInv'
  OBVIOUS
<1>0. restricted \in BOOLEAN /\ errorCached \in {"", "error"} \cup Hosts
  BY DEF DownloadInv, DownloadTypeOK
<1>1. ASSUME NEW r \in Requests, NEW o \in Options, StartDownload(r, o) PROVE DownloadInv'
  BY <1>1, StartInv
<1>2. ASSUME NEW r \in Requests, DownloadStep(r) PROVE DownloadInv'
  BY <1>2, LoadInv, JoinInv, FetchInv, RecordFlightInv, StoreInv, JoinStreamInv, OpenInv, FetchRemoteInv, InsertInv,
     OverwriteInv, StreamFlightInv, SettleInv, ReturnInv DEF DownloadStep
<1>3. CASE UploadMedia
  BY <1>0, <1>3, QuietStep DEF UploadMedia, flightVars
<1>4. CASE RestrictMedia
  BY <1>0, <1>4, QuietStep DEF RestrictMedia, flightVars
<1>5. CASE QuarantineRow
  BY <1>5, RowInv DEF QuarantineRow
<1>6. CASE PurgeRow
  BY <1>6, RowInv DEF PurgeRow
<1>7. CASE ErrorExpires
  BY <1>0, <1>7, QuietStep DEF ErrorExpires, dbVars, flightVars
<1>8. CASE UNCHANGED downloadVars
  BY <1>0, <1>8, QuietStep DEF downloadVars, dbVars, flightVars
<1> QED
  BY <1>1, <1>2, <1>3, <1>4, <1>5, <1>6, <1>7, <1>8 DEF DownloadNext

LEMMA DownloadInvariance == DownloadSpec => []DownloadInv
BY DownloadInitInv, DownloadNextInv, PTL DEF DownloadSpec

(* Every variable of the download pipeline keeps its type; of a charge, that   *)
(* means that the giving back of max size minus size never leaves another      *)
(* amount than nothing, the size or the limit (pipeline.go:91-119, 187-198).   *)
THEOREM DownloadTypeCorrect == DownloadSpec => []DownloadTypeOK
<1>1. DownloadInv => DownloadTypeOK
  BY DEF DownloadInv
<1> QED
  BY <1>1, DownloadInvariance, PTL

(* A request that opened or fetched a file has paid for exactly its size when  *)
(* it answers, however the record was found, whoever else looked it up, and    *)
(* also when the row was changed in between (pipeline.go:91-119, 187-198).     *)
THEOREM WhatIsSentIsPaidFor == DownloadSpec => []ContentIsPaidFor
<1>1. DownloadInv => ContentIsPaidFor
  BY DEF DownloadInv, PaidInv, ContentIsPaidFor, GetAt
<1> QED
  BY <1>1, DownloadInvariance, PTL

(* A record that is out of date is in the cache only as long as a request that *)
(* was there when the row changed, or that joined the lookup of one, has not   *)
(* returned (pipeline.go:72-73, sfcache.go:21-32): nobody who comes later can  *)
(* put it back.  This is the safety part of WithdrawalTakesEffect.             *)
THEOREM StaleRecordsEnd == DownloadSpec => []StaleRecordsEndWithTheirReaders
<1>1. DownloadInv => StaleRecordsEndWithTheirReaders
  BY DEF DownloadInv, StaleIsKnown, StaleRecordsEndWithTheirReaders, Watches, ActiveGets, OptOf
<1> QED
  BY <1>1, DownloadInvariance, PTL

-----------------------------------------------------------------------------
(* The copy in Redis. *)

(* The first n chunks of the content. *)
Prefix(n) == [i \in 1..n |-> i]

(* The upload lock is held from the look for the hash to the end of Execute. *)
LockIsHeld == \A w \in Writers : sender[w] \in {"sending", "waiting", "unlock"} => uploadLock = w

(* How far an upload is. *)
SentSoFar ==
    \A w \in Writers :
        /\ sender[w] = "idle" => filler[w] = "none" /\ sent[w] = 0
        /\ sender[w] = "waiting" => sent[w] = Chunks
        /\ filler[w] = "none" => sender[w] = "idle"
        /\ filler[w] = "set" => sent[w] = 0
        /\ filler[w] = "append" => sent[w] >= 1

(* One goroutine fills the key at a time: the one of the upload that holds the   *)
(* lock, or of one that failed,                                                  *)
OneFills ==
    /\ \A u \in Writers, v \in Writers : Filling(u) /\ Filling(v) => u = v
    /\ \A v \in Writers : Filling(v) /\ uploadLock \in Writers => uploadLock = v

(* before the content has a row; *)
FillsBeforeRow == \A v \in Writers : Filling(v) => ~hashRow

(* it appends to what it has sent, and the key has all or nothing when nobody    *)
(* fills it,                                                                     *)
FillsInOrder ==
    \A v \in Writers :
        /\ filler[v] = "set" => stored \in {None, Whole}
        /\ filler[v] = "read" /\ sender[v] # "waiting" => stored = Prefix(sent[v])
        /\ filler[v] = "append" => stored = Prefix(sent[v] - 1)

AllOrNothing == (\A v \in Writers : ~Filling(v)) => stored \in {None, Whole}

(* as long as nothing goes wrong. *)
Orderly == OneFills /\ FillsBeforeRow /\ FillsInOrder /\ AllOrNothing
OrderlyUnlessMishap == mishap = {} => Orderly

(* A chunk of an upload is appended once. *)
Appended == {p \in Writers \X (1..Chunks) :
                p[2] < sent[p[1]] \/ (p[2] = sent[p[1]] /\ filler[p[1]] # "append")}
KeyIsBounded == stored = None \/ (stored \in Seq(1..Chunks) /\ Len(stored) <= Cardinality(Appended))

RedisInv == RedisTypeOK /\ LockIsHeld /\ SentSoFar /\ KeyIsBounded /\ OrderlyUnlessMishap

(* The uploads, without the key and the flags. *)
Uploads ==
    /\ uploadLock \in Writers \cup {NoWriter}
    /\ sender \in [Writers -> Senders]
    /\ filler \in [Writers -> Fillers]
    /\ sent \in [Writers -> 0..Chunks]
    /\ mishap \subseteq {"overlap", "cleanup failed", "expired"}
    /\ LockIsHeld /\ SentSoFar

LEMMA UploadsStep ==
    ASSUME Uploads, [RedisNext]_redisVars
    PROVE  Uploads'
<1>1. CASE UNCHANGED redisVars
  <2>1. UNCHANGED <<uploadLock, sender, filler, sent, mishap>>
    BY <1>1 DEF redisVars
  <2>2. LockIsHeld' /\ SentSoFar'
    BY <2>1 DEF Uploads, LockIsHeld, SentSoFar
  <2> QED
    BY <2>1, <2>2 DEF Uploads
<1> USE RedisAssumption DEF Uploads, LockIsHeld, SentSoFar, Senders, Fillers
<1>2. ASSUME NEW w \in Writers, StartFilling(w) PROVE Uploads'
  <2>1. sender[w] = "idle" /\ uploadLock = NoWriter /\ sent' = sent
    BY <1>2 DEF StartFilling
  <2>2. CASE WriterTo(w, "ended", "closed") /\ UNCHANGED <<uploadLock, mishap>>
    BY <2>1, <2>2 DEF WriterTo
  <2>3. CASE /\ WriterTo(w, "sending", "set")
             /\ uploadLock' = w
             /\ mishap' = mishap \cup {m \in {"overlap"} : \E v \in Writers : Filling(v)}
    BY <2>1, <2>3 DEF WriterTo
  <2> QED
    BY <1>2, <2>2, <2>3 DEF StartFilling
<1>f. ASSUME NEW w \in Writers, NEW f \in {"read", "drain", "cleanup", "closed"}, filler[w] # "none",
             WriterTo(w, sender[w], f), UNCHANGED <<uploadLock, sent>>,
             mishap' \subseteq {"overlap", "cleanup failed", "expired"}
      PROVE  Uploads'
  <2>1. sender' = sender /\ filler' = [filler EXCEPT ![w] = f]
    BY <1>f DEF WriterTo
  <2> QED
    BY <1>f, <2>1
<1>3. ASSUME NEW w \in Writers, SetEmpty(w) PROVE Uploads'
  <2>1. PICK f \in {"drain", "read", "cleanup"} : WriterTo(w, sender[w], f)
    BY <1>3 DEF SetEmpty
  <2>2. filler[w] # "none" /\ UNCHANGED <<uploadLock, sent, mishap>>
    BY <1>3 DEF SetEmpty
  <2>3. mishap' \subseteq {"overlap", "cleanup failed", "expired"}
    BY <2>2
  <2> HIDE DEF Uploads
  <2> QED
    BY <1>f, <2>1, <2>2, <2>3
<1>4. ASSUME NEW w \in Writers, AppendChunk(w) PROVE Uploads'
  <2>1. filler[w] # "none" /\ UNCHANGED <<uploadLock, sent, mishap>>
    BY <1>4 DEF AppendChunk
  <2>2. mishap' \subseteq {"overlap", "cleanup failed", "expired"}
    BY <2>1
  <2>3. CASE UNCHANGED <<sender, filler>>
    BY <2>1, <2>3
  <2> HIDE DEF Uploads
  <2>4. ASSUME NEW f \in {"read", "cleanup"}, WriterTo(w, sender[w], f) PROVE Uploads'
    BY <1>f, <2>1, <2>2, <2>4
  <2> QED
    BY <1>4, <2>3, <2>4 DEF AppendChunk
<1>5. ASSUME NEW w \in Writers, ReadEnd(w) PROVE Uploads'
  <2>1. PICK f \in {"closed", "cleanup"} : WriterTo(w, sender[w], f)
    BY <1>5 DEF ReadEnd
  <2>2. filler[w] # "none" /\ UNCHANGED <<uploadLock, sent, mishap>>
    BY <1>5 DEF ReadEnd
  <2>3. mishap' \subseteq {"overlap", "cleanup failed", "expired"}
    BY <2>2
  <2> HIDE DEF Uploads
  <2> QED
    BY <1>f, <2>1, <2>2, <2>3
<1>6. ASSUME NEW w \in Writers, Cleanup(w) PROVE Uploads'
  <2>1. filler[w] # "none" /\ UNCHANGED <<uploadLock, sent>> /\ WriterTo(w, sender[w], "drain")
    BY <1>6 DEF Cleanup
  <2>2. mishap' \subseteq {"overlap", "cleanup failed", "expired"}
    BY <1>6 DEF Cleanup
  <2> HIDE DEF Uploads
  <2> QED
    BY <1>f, <2>1, <2>2
<1>7. ASSUME NEW w \in Writers, PipeChunk(w) PROVE Uploads'
  <2> DEFINE f == IF filler[w] = "read" THEN "append" ELSE "drain"
  <2>1. /\ sender[w] = "sending" /\ sent[w] < Chunks /\ filler[w] \in {"read", "drain"}
        /\ sent' = [sent EXCEPT ![w] = sent[w] + 1]
        /\ sender' = [sender EXCEPT ![w] = "sending"]
        /\ filler' = [filler EXCEPT ![w] = f]
        /\ UNCHANGED <<uploadLock, mishap>>
    BY <1>7 DEF PipeChunk, WriterTo
  <2>2. f \in {"append", "drain"}
    OBVIOUS
  <2> HIDE DEF f
  <2>3. sent[w] \in 0..Chunks /\ Chunks \in Nat /\ sent[w] < Chunks
    BY <2>1
  <2>4. sent[w] + 1 \in 0..Chunks /\ sent[w] + 1 >= 1
    <3> HIDE DEF Uploads
    <3> QED
      BY <2>3
  <2> QED
    BY <2>1, <2>2, <2>4
<1>8. ASSUME NEW w \in Writers, DatastoreReturns(w) PROVE Uploads'
  BY <1>8 DEF DatastoreReturns, WriterTo
<1>9. ASSUME NEW w \in Writers, DatastoreFails(w) PROVE Uploads'
  BY <1>9 DEF DatastoreFails, WriterTo
<1>10. ASSUME NEW w \in Writers, InsertAfterCache(w) PROVE Uploads'
  BY <1>10 DEF InsertAfterCache, WriterTo
<1>11. ASSUME NEW w \in Writers, DeferredUnlock(w) PROVE Uploads'
  BY <1>11 DEF DeferredUnlock, WriterTo
<1>12. ASSUME NEW w \in Writers, DeferredClose(w) PROVE Uploads'
  BY <1>12 DEF DeferredClose, WriterTo
<1>13. ASSUME NEW w \in Writers, DrainEnds(w) PROVE Uploads'
  BY <1>13 DEF DrainEnds, WriterTo
<1>14. CASE KeyExpires
  BY <1>14 DEF KeyExpires
<1>15. CASE QuarantineDeletes
  BY <1>15 DEF QuarantineDeletes
<1>16. CASE SoftStop
  BY <1>16 DEF SoftStop
<1>17. CASE MakeConnection
  BY <1>17 DEF MakeConnection
<1> HIDE DEF Uploads
<1> QED
  BY <1>1, <1>2, <1>3, <1>4, <1>5, <1>6, <1>7, <1>8, <1>9, <1>10, <1>11, <1>12, <1>13, <1>14, <1>15, <1>16, <1>17 DEF RedisNext, RedisWork

(* Chunks are sent once and appended once. *)
LEMMA ChunksGoOn ==
    ASSUME Uploads, [RedisNext]_redisVars, NEW v \in Writers
    PROVE  \/ sent'[v] = sent[v] /\ (filler'[v] = "append" => filler[v] = "append")
           \/ sent'[v] = sent[v] + 1
<1> DEFINE Goes == \/ sent'[v] = sent[v] /\ (filler'[v] = "append" => filler[v] = "append")
                   \/ sent'[v] = sent[v] + 1
<1> SUFFICES Goes
  OBVIOUS
<1>0. sender \in [Writers -> Senders] /\ filler \in [Writers -> Fillers] /\ sent \in [Writers -> 0..Chunks]
  BY DEF Uploads
<1>1. CASE UNCHANGED redisVars
  BY <1>1 DEF redisVars
<1>2. ASSUME NEW w \in Writers, StartFilling(w) PROVE Goes
  BY <1>0, <1>2 DEF StartFilling, WriterTo
<1>3. ASSUME NEW w \in Writers, SetEmpty(w) PROVE Goes
  BY <1>0, <1>3 DEF SetEmpty, WriterTo
<1>4. ASSUME NEW w \in Writers, AppendChunk(w) PROVE Goes
  BY <1>0, <1>4 DEF AppendChunk, WriterTo
<1>5. ASSUME NEW w \in Writers, ReadEnd(w) PROVE Goes
  BY <1>0, <1>5 DEF ReadEnd, WriterTo
<1>6. ASSUME NEW w \in Writers, Cleanup(w) PROVE Goes
  BY <1>0, <1>6 DEF Cleanup, WriterTo
<1>7. ASSUME NEW w \in Writers, PipeChunk(w) PROVE Goes
  BY <1>0, <1>7 DEF PipeChunk, WriterTo
<1>8. ASSUME NEW w \in Writers, DatastoreReturns(w) PROVE Goes
  BY <1>0, <1>8 DEF DatastoreReturns, WriterTo
<1>9. ASSUME NEW w \in Writers, DatastoreFails(w) PROVE Goes
  BY <1>0, <1>9 DEF DatastoreFails, WriterTo
<1>10. ASSUME NEW w \in Writers, InsertAfterCache(w) PROVE Goes
  BY <1>0, <1>10 DEF InsertAfterCache, WriterTo
<1>11. ASSUME NEW w \in Writers, DeferredUnlock(w) PROVE Goes
  BY <1>0, <1>11 DEF DeferredUnlock, WriterTo
<1>12. ASSUME NEW w \in Writers, DeferredClose(w) PROVE Goes
  BY <1>0, <1>12 DEF DeferredClose, WriterTo
<1>13. ASSUME NEW w \in Writers, DrainEnds(w) PROVE Goes
  BY <1>0, <1>13 DEF DrainEnds, WriterTo
<1>14. CASE KeyExpires
  BY <1>14 DEF KeyExpires
<1>15. CASE QuarantineDeletes
  BY <1>15 DEF QuarantineDeletes
<1>16. CASE SoftStop
  BY <1>16 DEF SoftStop
<1>17. CASE MakeConnection
  BY <1>17 DEF MakeConnection
<1> QED
  BY <1>1, <1>2, <1>3, <1>4, <1>5, <1>6, <1>7, <1>8, <1>9, <1>10, <1>11, <1>12, <1>13, <1>14, <1>15, <1>16, <1>17 DEF RedisNext, RedisWork

LEMMA ChunksAreFinite ==
    ASSUME NEW A, A \subseteq Writers \X (1..Chunks)
    PROVE  IsFiniteSet(A) /\ Cardinality(A) \in Nat /\ Cardinality(A) <= Chunks * Cardinality(Writers)
<1>1. IsFiniteSet(Writers) /\ Chunks \in Nat
  BY RedisAssumption
<1>2. IsFiniteSet(1..Chunks) /\ Cardinality(1..Chunks) = Chunks
  BY <1>1, FS_Interval
<1>3. /\ IsFiniteSet(Writers \X (1..Chunks))
      /\ Cardinality(Writers \X (1..Chunks)) = Cardinality(Writers) * Cardinality(1..Chunks)
  BY <1>1, <1>2, FS_Product
<1>4. Cardinality(Writers) \in Nat
  BY <1>1, FS_CardinalityType
<1>6. IsFiniteSet(A) /\ Cardinality(A) <= Cardinality(Writers \X (1..Chunks))
  BY <1>3, FS_Subset
<1>7. Cardinality(A) \in Nat
  BY <1>6, FS_CardinalityType
<1>8. Cardinality(Writers) * Chunks = Chunks * Cardinality(Writers)
  BY <1>1, <1>4
<1> QED
  BY <1>2, <1>3, <1>6, <1>7, <1>8

(* No chunk is taken back, and one that is appended was not before. *)
LEMMA AppendedGrows ==
    ASSUME Uploads, [RedisNext]_redisVars
    PROVE  /\ Appended \subseteq Appended'
           /\ \A w \in Writers : (filler[w] = "append" /\ sent'[w] = sent[w] /\ filler'[w] # "append")
                  => <<w, sent[w]>> \in Appended' \ Appended
<1>1. Uploads'
  BY UploadsStep
<1>2. /\ sent \in [Writers -> 0..Chunks] /\ sent' \in [Writers -> 0..Chunks] /\ Chunks \in Nat
      /\ \A w \in Writers : filler[w] = "append" => sent[w] >= 1
  BY <1>1, RedisAssumption DEF Uploads, SentSoFar
<1>3. \A v \in Writers : \/ sent'[v] = sent[v] /\ (filler'[v] = "append" => filler[v] = "append")
                         \/ sent'[v] = sent[v] + 1
  BY ChunksGoOn
<1>4. ASSUME NEW w \in Writers, NEW i \in 1..Chunks, <<w, i>> \in Appended PROVE <<w, i>> \in Appended'
  <2>1. i < sent[w] \/ (i = sent[w] /\ filler[w] # "append")
    BY <1>4 DEF Appended
  <2>2. sent[w] \in Nat /\ i \in Nat
    BY <1>2
  <2>3. i < sent'[w] \/ (i = sent'[w] /\ filler'[w] # "append")
    BY <1>3, <2>1, <2>2
  <2> QED
    BY <2>3 DEF Appended
<1>5. Appended \subseteq Appended'
  BY <1>4 DEF Appended
<1>6. ASSUME NEW w \in Writers, filler[w] = "append", sent'[w] = sent[w], filler'[w] # "append"
      PROVE  <<w, sent[w]>> \in Appended' \ Appended
  <2>1. sent[w] \in 1..Chunks
    BY <1>2, <1>6
  <2> QED
    BY <1>6, <2>1 DEF Appended
<1> QED
  BY <1>5, <1>6

LEMMA KeyIsBoundedStep ==
    ASSUME Uploads, KeyIsBounded, [RedisNext]_redisVars
    PROVE  KeyIsBounded'
<1>1. Uploads'
  BY UploadsStep
<1>2. Appended \subseteq Appended'
  BY AppendedGrows
<1>3. IsFiniteSet(Appended) /\ Cardinality(Appended) \in Nat /\ IsFiniteSet(Appended') /\ Cardinality(Appended') \in Nat
  <2>1. Appended \subseteq Writers \X (1..Chunks) /\ Appended' \subseteq Writers \X (1..Chunks)
    BY DEF Appended
  <2> QED
    BY <2>1, ChunksAreFinite
<1>4. Cardinality(Appended) <= Cardinality(Appended')
  BY <1>2, <1>3, FS_Subset
<1> HIDE DEF Appended
<1>5. CASE stored' \in {stored, None, << >>}
  <2>1. CASE stored' = << >>
    <3>1. << >> \in Seq(1..Chunks) /\ Len(<< >>) = 0
      OBVIOUS
    <3> QED
      BY <1>3, <2>1, <3>1 DEF KeyIsBounded
  <2>2. CASE stored' = None
    BY <2>2 DEF KeyIsBounded, None
  <2>3. CASE stored' = stored
    <3>1. stored = None \/ (stored \in Seq(1..Chunks) /\ Len(stored) <= Cardinality(Appended))
      BY DEF KeyIsBounded
    <3>2. stored \in Seq(1..Chunks) => Len(stored) \in Nat
      OBVIOUS
    <3>3. stored \in Seq(1..Chunks) /\ Len(stored) <= Cardinality(Appended) => Len(stored) <= Cardinality(Appended')
      BY <1>3, <1>4, <3>2
    <3> QED
      BY <2>3, <3>1, <3>3 DEF KeyIsBounded, None
  <2> QED
    BY <1>5, <2>1, <2>2, <2>3
<1>6. ASSUME NEW w \in Writers, filler[w] = "append", sent'[w] = sent[w], filler'[w] # "append", stored' = Extended(w)
      PROVE  KeyIsBounded'
  <2> DEFINE x == <<w, sent[w]>>
  <2>1. x \in Appended' /\ x \notin Appended
    BY <1>6, AppendedGrows
  <2>2. IsFiniteSet(Appended \cup {x}) /\ Cardinality(Appended \cup {x}) = Cardinality(Appended) + 1
    BY <1>3, <2>1, FS_AddElement
  <2>3. Appended \cup {x} \subseteq Appended'
    BY <1>2, <2>1
  <2> HIDE DEF x
  <2>4. Cardinality(Appended) + 1 <= Cardinality(Appended')
    BY <1>3, <2>2, <2>3, FS_Subset
  <2>5. sent[w] \in 1..Chunks
    <3>1. sent[w] \in 0..Chunks /\ sent[w] >= 1 /\ Chunks \in Nat
      BY <1>6, RedisAssumption DEF Uploads, SentSoFar
    <3> QED
      BY <3>1
  <2>6. CASE stored = None
    <3>1. <<sent[w]>> \in Seq(1..Chunks) /\ Len(<<sent[w]>>) = 1
      BY <2>5
    <3>2. stored' = <<sent[w]>>
      BY <1>6, <2>6 DEF Extended
    <3>3. 1 <= Cardinality(Appended')
      BY <1>3, <2>4
    <3> QED
      BY <3>1, <3>2, <3>3 DEF KeyIsBounded
  <2>7. CASE stored # None
    <3>1. stored \in Seq(1..Chunks) /\ Len(stored) <= Cardinality(Appended)
      BY <2>7 DEF KeyIsBounded
    <3>2. stored' = Append(stored, sent[w])
      BY <1>6, <2>7 DEF Extended
    <3>3. stored' \in Seq(1..Chunks) /\ Len(stored') = Len(stored) + 1 /\ Len(stored) \in Nat
      BY <2>5, <3>1, <3>2
    <3>4. Len(stored') <= Cardinality(Appended')
      BY <1>3, <2>4, <3>1, <3>3
    <3> QED
      BY <3>3, <3>4 DEF KeyIsBounded
  <2> QED
    BY <2>6, <2>7
<1>7. filler \in [Writers -> Fillers] /\ sent' \in [Writers -> 0..Chunks]
  BY <1>1 DEF Uploads
<1>8. ASSUME NEW w \in Writers, AppendChunk(w) PROVE KeyIsBounded'
  <2>1. filler[w] = "append" /\ sent' = sent
    BY <1>8 DEF AppendChunk
  <2>2. stored' \in {stored, None, << >>} \/ (stored' = Extended(w) /\ filler'[w] # "append")
    BY <1>7, <1>8 DEF AppendChunk, WriterTo
  <2> QED
    BY <1>5, <1>6, <2>1, <2>2
<1>9. stored' \in {stored, None, << >>} \/ \E w \in Writers : AppendChunk(w)
  BY DEF RedisNext, RedisWork, redisVars, StartFilling, SetEmpty, ReadEnd, Cleanup, PipeChunk, DatastoreReturns,
      DatastoreFails, InsertAfterCache, DeferredUnlock, DeferredClose, DrainEnds, KeyExpires, QuarantineDeletes,
      SoftStop, MakeConnection
<1> QED
  BY <1>5, <1>8, <1>9

(* The chunks of an upload in order make the content. *)
LEMMA PrefixGrows ==
    ASSUME NEW n \in Nat \ {0}
    PROVE  /\ Prefix(0) = << >>
           /\ Prefix(n - 1) # None
           /\ Append(Prefix(n - 1), n) = Prefix(n)
<1>1. Prefix(0) = << >>
  BY DEF Prefix
<1>2. Prefix(n - 1) \in Seq(Nat) /\ Len(Prefix(n - 1)) = n - 1
  BY DEF Prefix
<1>3. Prefix(n - 1) # None
  <2>1. CASE n = 1
    BY <1>1, <2>1 DEF None
  <2>2. CASE n # 1
    <3>1. Prefix(n - 1)[1] = 1
      BY <2>2 DEF Prefix
    <3> QED
      BY <3>1 DEF None
  <2> QED
    BY <2>1, <2>2
<1>4. Append(Prefix(n - 1), n) = Prefix(n)
  BY <1>2 DEF Prefix
<1> QED
  BY <1>1, <1>3, <1>4

LEMMA OrderlyStep ==
    ASSUME Uploads, OrderlyUnlessMishap, [RedisNext]_redisVars
    PROVE  OrderlyUnlessMishap'
<1> SUFFICES ASSUME mishap' = {} PROVE Orderly'
  BY DEF OrderlyUnlessMishap
<1>0. /\ uploadLock \in Writers \cup {NoWriter} /\ NoWriter \notin Writers
      /\ sender \in [Writers -> Senders]
      /\ filler \in [Writers -> Fillers]
      /\ sent \in [Writers -> 0..Chunks]
      /\ LockIsHeld /\ SentSoFar
  BY RedisAssumption DEF Uploads
<1>1. mishap = {}
  BY DEF RedisNext, RedisWork, redisVars, StartFilling, SetEmpty, AppendChunk, ReadEnd, Cleanup, PipeChunk,
      DatastoreReturns, DatastoreFails, InsertAfterCache, DeferredUnlock, DeferredClose, DrainEnds, KeyExpires,
      QuarantineDeletes, SoftStop, MakeConnection
<1>2. Orderly
  BY <1>1 DEF OrderlyUnlessMishap
<1>u. CASE UNCHANGED redisVars
  BY <1>2, <1>u DEF redisVars, Orderly, OneFills, FillsBeforeRow, FillsInOrder, AllOrNothing, Filling
<1>3. ASSUME NEW w \in Writers, StartFilling(w) PROVE Orderly'
  BY <1>0, <1>2, <1>3 DEF StartFilling, WriterTo, Orderly, OneFills, FillsBeforeRow, FillsInOrder, AllOrNothing, Filling, LockIsHeld, SentSoFar, Senders, Fillers
<1>4. ASSUME NEW w \in Writers, SetEmpty(w) PROVE Orderly'
  <2> USE DEF Orderly, OneFills, FillsBeforeRow, FillsInOrder, AllOrNothing, Filling, SentSoFar
  <2>1. filler[w] = "set" /\ UNCHANGED <<uploadLock, sent>> /\ hashRow' = hashRow /\ sent[w] = 0
    BY <1>0, <1>4 DEF SetEmpty
  <2>2. stored \in {None, Whole}
    BY <1>2, <2>1
  <2>3. CASE WriterTo(w, sender[w], "drain") /\ stored' = stored
    BY <1>0, <1>2, <2>1, <2>2, <2>3 DEF WriterTo, Senders, Fillers
  <2>4. CASE WriterTo(w, sender[w], "read") /\ stored' = << >>
    <3>1. stored' = Prefix(0)
      BY <2>4 DEF Prefix
    <3>2. sender[w] # "waiting"
      BY <1>0, <2>1, RedisAssumption
    <3> QED
      BY <1>0, <1>2, <2>1, <2>4, <3>1, <3>2 DEF WriterTo, Senders, Fillers
  <2>5. CASE WriterTo(w, sender[w], "cleanup")
    BY <1>0, <1>2, <2>1, <2>5 DEF WriterTo, Senders, Fillers
  <2> QED
    BY <1>4, <2>3, <2>4, <2>5 DEF SetEmpty
<1>5. ASSUME NEW w \in Writers, AppendChunk(w) PROVE Orderly'
  <2> USE DEF Orderly, OneFills, FillsBeforeRow, FillsInOrder, AllOrNothing, Filling, SentSoFar
  <2>1. filler[w] = "append" /\ UNCHANGED <<uploadLock, sent>> /\ hashRow' = hashRow
    BY <1>5 DEF AppendChunk
  <2>2. sent[w] \in Nat \ {0} /\ stored = Prefix(sent[w] - 1)
    <3>1. sent[w] \in 0..Chunks /\ sent[w] >= 1
      BY <1>0, <2>1
    <3> QED
      BY <1>2, <2>1, <3>1
  <2>3. Extended(w) = Prefix(sent[w])
    BY <2>2, PrefixGrows DEF Extended
  <2>4. CASE UNCHANGED <<stored, sender, filler>>
    BY <1>2, <2>1, <2>4
  <2>5. CASE WriterTo(w, sender[w], "read") /\ stored' = Extended(w)
    <3>1. sender[w] = "waiting" => stored' = Whole
      BY <1>0, <2>3, <2>5 DEF Whole, Prefix
    <3> QED
      BY <1>0, <1>2, <2>1, <2>3, <2>5, <3>1 DEF WriterTo, Senders, Fillers
  <2>6. CASE WriterTo(w, sender[w], "cleanup")
    BY <1>0, <1>2, <2>1, <2>6 DEF WriterTo, Senders, Fillers
  <2> QED
    BY <1>5, <2>4, <2>5, <2>6 DEF AppendChunk
<1>6. ASSUME NEW w \in Writers, ReadEnd(w) PROVE Orderly'
  BY <1>0, <1>2, <1>6 DEF ReadEnd, WriterTo, Orderly, OneFills, FillsBeforeRow, FillsInOrder, AllOrNothing, Filling, LockIsHeld, SentSoFar, Senders, Fillers
<1>7. ASSUME NEW w \in Writers, Cleanup(w) PROVE Orderly'
  <2> USE DEF Orderly, OneFills, FillsBeforeRow, FillsInOrder, AllOrNothing, Filling
  <2>1. /\ filler[w] = "cleanup" /\ UNCHANGED <<uploadLock, sent>> /\ hashRow' = hashRow
        /\ filler' = [filler EXCEPT ![w] = "drain"] /\ sender' = sender
    BY <1>0, <1>7 DEF Cleanup, WriterTo
  <2>2. stored' \in {stored, None} /\ (stored' = stored => stored' = None)
    BY <1>7 DEF Cleanup
  <2>3. \A v \in Writers : Filling(v) => v = w
    BY <1>2, <2>1
  <2>4. \A v \in Writers : ~Filling(v)'
    BY <1>0, <2>1, <2>3
  <2> QED
    BY <2>2, <2>4
<1>8. ASSUME NEW w \in Writers, PipeChunk(w) PROVE Orderly'
  <2> USE DEF Orderly, OneFills, FillsBeforeRow, FillsInOrder, AllOrNothing, Filling
  <2>1. /\ sender[w] = "sending" /\ filler[w] \in {"read", "drain"}
        /\ sender' = [sender EXCEPT ![w] = "sending"]
        /\ sent' = [sent EXCEPT ![w] = sent[w] + 1]
        /\ filler' = [filler EXCEPT ![w] = IF filler[w] = "read" THEN "append" ELSE "drain"]
        /\ UNCHANGED <<uploadLock, stored>> /\ hashRow' = hashRow
    BY <1>8 DEF PipeChunk, WriterTo
  <2>2. sent[w] \in Nat /\ sent'[w] - 1 = sent[w]
    BY <1>0, <2>1
  <2>3. filler[w] = "read" => stored = Prefix(sent'[w] - 1)
    BY <1>2, <2>1, <2>2
  <2> QED
    BY <1>0, <1>2, <2>1, <2>3 DEF Senders, Fillers
<1>9. ASSUME NEW w \in Writers, DatastoreReturns(w) PROVE Orderly'
  <2> USE DEF Orderly, OneFills, FillsBeforeRow, FillsInOrder, AllOrNothing, Filling
  <2>1. /\ sender[w] = "sending" /\ sent[w] = Chunks
        /\ sender' = [sender EXCEPT ![w] = "waiting"] /\ filler' = filler
        /\ UNCHANGED <<uploadLock, stored, sent>> /\ hashRow' = hashRow
    BY <1>0, <1>9 DEF DatastoreReturns, WriterTo
  <2>2. filler[w] = "read" => stored = Whole
    BY <1>2, <2>1 DEF Prefix, Whole
  <2>3. AllOrNothing'
    <3>1. CASE filler[w] = "read"
      BY <2>1, <2>2, <3>1
    <3>2. CASE filler[w] # "read"
      BY <1>0, <1>2, <2>1, <3>2 DEF Senders
    <3> QED
      BY <3>1, <3>2
  <2> QED
    BY <1>0, <1>2, <2>1, <2>3 DEF Senders, Fillers
<1>10. ASSUME NEW w \in Writers, DatastoreFails(w) PROVE Orderly'
  BY <1>0, <1>2, <1>10 DEF DatastoreFails, WriterTo, Orderly, OneFills, FillsBeforeRow, FillsInOrder, AllOrNothing, Filling, LockIsHeld, SentSoFar, Senders, Fillers
<1>11. ASSUME NEW w \in Writers, InsertAfterCache(w) PROVE Orderly'
  BY <1>0, <1>2, <1>11 DEF InsertAfterCache, WriterTo, Orderly, OneFills, FillsBeforeRow, FillsInOrder, AllOrNothing, Filling, LockIsHeld, SentSoFar, Senders, Fillers
<1>12. ASSUME NEW w \in Writers, DeferredUnlock(w) PROVE Orderly'
  BY <1>0, <1>2, <1>12 DEF DeferredUnlock, WriterTo, Orderly, OneFills, FillsBeforeRow, FillsInOrder, AllOrNothing, Filling, LockIsHeld, SentSoFar, Senders, Fillers
<1>13. ASSUME NEW w \in Writers, DeferredClose(w) PROVE Orderly'
  BY <1>0, <1>2, <1>13 DEF DeferredClose, WriterTo, Orderly, OneFills, FillsBeforeRow, FillsInOrder, AllOrNothing, Filling, LockIsHeld, SentSoFar, Senders, Fillers
<1>14. ASSUME NEW w \in Writers, DrainEnds(w) PROVE Orderly'
  BY <1>0, <1>2, <1>14 DEF DrainEnds, WriterTo, Orderly, OneFills, FillsBeforeRow, FillsInOrder, AllOrNothing, Filling, LockIsHeld, SentSoFar, Senders, Fillers
<1>15. CASE KeyExpires
  BY <1>0, <1>2, <1>15 DEF KeyExpires, Orderly, OneFills, FillsBeforeRow, FillsInOrder, AllOrNothing, Filling
<1>16. CASE QuarantineDeletes
  BY <1>0, <1>2, <1>16 DEF QuarantineDeletes, Orderly, OneFills, FillsBeforeRow, FillsInOrder, AllOrNothing, Filling
<1>17. CASE SoftStop
  BY <1>0, <1>2, <1>17 DEF SoftStop, Orderly, OneFills, FillsBeforeRow, FillsInOrder, AllOrNothing, Filling
<1>18. CASE MakeConnection
  BY <1>0, <1>2, <1>18 DEF MakeConnection, Orderly, OneFills, FillsBeforeRow, FillsInOrder, AllOrNothing, Filling
<1> QED
  BY <1>u, <1>3, <1>4, <1>5, <1>6, <1>7, <1>8, <1>9, <1>10, <1>11, <1>12, <1>13, <1>14, <1>15, <1>16, <1>17, <1>18 DEF RedisNext, RedisWork

LEMMA RedisInvInit == RedisInit => RedisInv
<1> SUFFICES ASSUME RedisInit PROVE RedisInv
  OBVIOUS
<1>1. /\ stored = None /\ uploadLock = NoWriter /\ mishap = {}
      /\ sender = [w \in Writers |-> "idle"] /\ filler = [w \in Writers |-> "none"] /\ sent = [w \in Writers |-> 0]
  BY DEF RedisInit
<1>2. {hashRow, ring, panicked} \subseteq BOOLEAN
  BY DEF RedisInit
<1>3. Chunks \in Nat
  BY RedisAssumption
<1>4. RedisTypeOK
  BY <1>1, <1>2, <1>3 DEF RedisTypeOK, Senders, Fillers
<1>5. LockIsHeld /\ SentSoFar /\ KeyIsBounded
  BY <1>1, <1>3 DEF LockIsHeld, SentSoFar, KeyIsBounded
<1>6. \A v \in Writers : ~Filling(v)
  BY <1>1 DEF Filling
<1>7. Orderly
  BY <1>1, <1>6 DEF Orderly, OneFills, FillsBeforeRow, FillsInOrder, AllOrNothing
<1> QED
  BY <1>4, <1>5, <1>7 DEF RedisInv, OrderlyUnlessMishap

LEMMA RedisInvStep ==
    ASSUME RedisInv, [RedisNext]_redisVars
    PROVE  RedisInv'
<1>1. Uploads
  BY DEF RedisInv, RedisTypeOK, Uploads
<1>2. Uploads'
  BY <1>1, UploadsStep
<1>3. KeyIsBounded'
  BY <1>1, KeyIsBoundedStep DEF RedisInv
<1>4. OrderlyUnlessMishap'
  BY <1>1, OrderlyStep DEF RedisInv
<1>5. {hashRow, ring, panicked}' \subseteq BOOLEAN
  <2>1. hashRow \in BOOLEAN /\ ring \in BOOLEAN /\ panicked \in BOOLEAN
    BY DEF RedisInv, RedisTypeOK
  <2>2. hashRow' \in {hashRow, TRUE} /\ ring' \in {ring, TRUE, FALSE} /\ panicked' \in {panicked, TRUE}
    BY DEF RedisNext, RedisWork, redisVars, StartFilling, SetEmpty, AppendChunk, ReadEnd, Cleanup, PipeChunk,
        DatastoreReturns, DatastoreFails, InsertAfterCache, DeferredUnlock, DeferredClose, DrainEnds, KeyExpires,
        QuarantineDeletes, SoftStop, MakeConnection
  <2> QED
    BY <2>1, <2>2
<1>6. stored' = None \/ stored' \in UNION {[1..n -> 1..Chunks] : n \in 0..(Chunks * Cardinality(Writers))}
  <2> SUFFICES ASSUME stored' # None
               PROVE  \E n \in 0..(Chunks * Cardinality(Writers)) : stored' \in [1..n -> 1..Chunks]
    OBVIOUS
  <2>1. stored' \in Seq(1..Chunks) /\ Len(stored') <= Cardinality(Appended')
    BY <1>3 DEF KeyIsBounded, None
  <2>2. Appended' \subseteq Writers \X (1..Chunks)
    BY DEF Appended
  <2>3. Cardinality(Appended') \in Nat /\ Cardinality(Appended') <= Chunks * Cardinality(Writers)
    BY <2>2, ChunksAreFinite
  <2>4. Chunks \in Nat /\ Cardinality(Writers) \in Nat
    BY RedisAssumption, FS_CardinalityType
  <2>5. Chunks * Cardinality(Writers) \in Nat
    BY <2>4
  <2> DEFINE most == Chunks * Cardinality(Writers)
             n == Len(stored')
  <2>6. n \in Nat /\ stored' \in [1..n -> 1..Chunks]
    BY <2>1, SequenceIsAFunction
  <2>7. n <= Cardinality(Appended') /\ Cardinality(Appended') <= most /\ most \in Nat /\ Cardinality(Appended') \in Nat
    BY <2>1, <2>3, <2>5
  <2> HIDE DEF n, most
  <2>8. n \in 0..most
    BY <2>6, <2>7
  <2> QED
    BY <2>6, <2>8 DEF most
<1> QED
  BY <1>2, <1>3, <1>4, <1>5, <1>6 DEF RedisInv, RedisTypeOK, Uploads

(* Once the content has a row, the cache has all of it or nothing, for any       *)
(* number of uploads and of chunks (cache.go:43-67).                             *)
THEOREM CacheHasTheWholeContent == RedisSpec => [](RedisTypeOK /\ CachedContentIsWhole)
<1>1. RedisInv => RedisTypeOK /\ CachedContentIsWhole
  <2> SUFFICES ASSUME RedisInv, hashRow, mishap = {} PROVE TryGetMedia \in {None, Whole}
    BY DEF RedisInv, CachedContentIsWhole
  <2>1. \A v \in Writers : ~Filling(v)
    BY DEF RedisInv, OrderlyUnlessMishap, Orderly, FillsBeforeRow
  <2>2. stored \in {None, Whole}
    BY <2>1 DEF RedisInv, OrderlyUnlessMishap, Orderly, AllOrNothing
  <2> QED
    BY <2>2 DEF TryGetMedia
<1> QED
  BY <1>1, RedisInvInit, RedisInvStep, PTL DEF RedisSpec

-----------------------------------------------------------------------------
(* Thumbnails. *)

(* A request as its steps leave it. *)
Views == [pc : {"idle", "lookup", "store", "charge", "join", "joined", "media", "again", "open",
                "generate", "existing", "put", "overwrite", "landed", "result", "refetch", "done"},
          want : BOOLEAN, rec : Records \cup {Nil}, made : Records \cup {Nil},
          res : FlightResults, out : ViewOutcomes]

(* A request whose thumbnail has a row of its own: not an animated request for a  *)
(* still image, whose row is the still's.                                        *)
HasOwnRow(m, want) == want => m

(* What is made is inserted under the form that was asked for. *)
MadeAsAsked(made, want) == (made = "moving") = want

(* What a request has in hand at its step. *)
HandInv(v, m) ==
    /\ v.pc = "idle" => v.rec = Nil /\ v.res = "" /\ v.out = ""
    /\ v.pc \in {"store", "open"} => v.rec # Nil
    /\ v.pc \in {"existing", "put", "overwrite"} => v.made # Nil
    /\ v.pc = "put" /\ HasOwnRow(m, v.want) => MadeAsAsked(v.made, v.want)
    /\ v.pc = "existing" => ~HasOwnRow(m, v.want)
    /\ v.pc = "refetch" => v.res \in {"thumb", "image"}

(* As long as the media and its rows are there, what a request found or made is a *)
(* row of the table,                                                             *)
ViewFound(v, k, m) ==
    /\ v.res # "image"
    /\ HasOwnRow(m, v.want) =>
           /\ v.out # "unexpected"
           /\ v.rec # Nil \/ v.pc = "overwrite" \/ v.res = "thumb" => k[v.want] # Nil

(* and so is what the cache holds. *)
CacheFound(c, k, m) ==
    \A w \in BOOLEAN : c[w] # Nil /\ (HasOwnRow(m, w) /\ c[w] # Missing => k[w] # Nil)

Intact == source = "ok" /\ ~vanished

ThumbnailInv ==
    /\ ThumbnailTypeOK
    /\ \A r \in Viewers : HandInv(view[r], moving)
    /\ Intact => CacheFound(keyCache, known, moving) /\ \A r \in Viewers : ViewFound(view[r], known, moving)

(* What the lemmas need of the type invariant. *)
ThumbTypes ==
    /\ known \in [BOOLEAN -> Records \cup {Nil}]
    /\ keyCache \in [BOOLEAN -> Records \cup {Nil, Missing}]
    /\ keyFlight \in [BOOLEAN -> Viewers \cup {NoViewer}]
    /\ view \in [Viewers -> Views]

LEMMA ThumbTypesAre == ThumbnailInv => ThumbTypes
  BY DEF ThumbnailInv, ThumbnailTypeOK, ThumbTypes, Views

(* Rows are only added. *)
RowsStay == \A w \in BOOLEAN : known[w] # Nil => known'[w] # Nil

LEMMA FoundStays ==
    ASSUME NEW v \in Views, NEW m, RowsStay, ViewFound(v, known, m)
    PROVE  ViewFound(v, known', m)
<1>1. v.want \in BOOLEAN
  BY DEF Views
<1> QED
  BY <1>1 DEF ViewFound, RowsStay

(* One request moves to v. *)
LEMMA OneView ==
    ASSUME ThumbnailInv, NEW r \in Viewers, NEW v \in Views,
           view' = [view EXCEPT ![r] = v],
           UNCHANGED sourceVars,
           known' \in [BOOLEAN -> Records \cup {Nil}],
           keyCache' \in [BOOLEAN -> Records \cup {Nil, Missing}],
           keyFlight' \in [BOOLEAN -> Viewers \cup {NoViewer}],
           RowsStay,
           HandInv(v, moving),
           Intact => CacheFound(keyCache', known', moving) /\ ViewFound(v, known', moving)
    PROVE  ThumbnailInv'
<1>1. ThumbTypes
  BY ThumbTypesAre
<1>2. source' = source /\ moving' = moving /\ vanished' = vanished /\ tiny' = tiny
  BY DEF sourceVars
<1>3. view' \in [Viewers -> Views]
  BY <1>1 DEF ThumbTypes
<1>4. ThumbnailTypeOK'
  <2>1. moving \in BOOLEAN /\ tiny \in BOOLEAN /\ vanished \in BOOLEAN /\ source \in {"ok", "quarantined", "gone"}
    BY DEF ThumbnailInv, ThumbnailTypeOK
  <2>2. {moving', tiny', vanished'} \subseteq BOOLEAN /\ source' \in {"ok", "quarantined", "gone"}
    BY <1>2, <2>1
  <2> QED
    BY <1>3, <2>2 DEF ThumbnailTypeOK, Views
<1>5. ASSUME NEW q \in Viewers PROVE HandInv(view'[q], moving)
  <2>1. view'[q] = IF q = r THEN v ELSE view[q]
    BY <1>1 DEF ThumbTypes
  <2>2. HandInv(view[q], moving)
    BY DEF ThumbnailInv
  <2> QED
    BY <2>1, <2>2
<1>6. ASSUME Intact, NEW q \in Viewers PROVE ViewFound(view'[q], known', moving)
  <2>1. view'[q] = IF q = r THEN v ELSE view[q]
    BY <1>1 DEF ThumbTypes
  <2>2. ViewFound(view[q], known, moving) /\ view[q] \in Views
    BY <1>1, <1>6 DEF ThumbnailInv, ThumbTypes
  <2>3. ViewFound(view[q], known', moving)
    BY <2>2, FoundStays
  <2> QED
    BY <1>6, <2>1, <2>3
<1>7. \A q \in Viewers : HandInv(view'[q], moving')
  BY <1>2, <1>5
<1>8. ASSUME Intact' PROVE CacheFound(keyCache', known', moving') /\ \A q \in Viewers : ViewFound(view'[q], known', moving')
  <2>1. Intact
    BY <1>2, <1>8 DEF Intact
  <2> QED
    BY <1>2, <1>6, <2>1
<1> QED
  BY <1>4, <1>7, <1>8 DEF ThumbnailInv

(* A step that leaves the tables alone. *)
LEMMA QuietView ==
    ASSUME ThumbnailInv, NEW r \in Viewers, NEW v \in Views,
           view' = [view EXCEPT ![r] = v],
           UNCHANGED <<sourceVars, known, keyCache>>,
           keyFlight' \in [BOOLEAN -> Viewers \cup {NoViewer}],
           HandInv(v, moving),
           Intact => ViewFound(v, known, moving)
    PROVE  ThumbnailInv'
<1>1. ThumbTypes
  BY ThumbTypesAre
<1>2. RowsStay
  BY DEF RowsStay
<1>3. Intact => CacheFound(keyCache', known', moving)
  BY DEF ThumbnailInv
<1> QED
  BY <1>1, <1>2, <1>3, OneView DEF ThumbTypes

(* What is known of a request before its step. *)
LEMMA ViewIs ==
    ASSUME ThumbnailInv, NEW r \in Viewers
    PROVE  /\ view[r] \in Views /\ HandInv(view[r], moving)
           /\ Intact => ViewFound(view[r], known, moving) /\ CacheFound(keyCache, known, moving)
           /\ keyFlight \in [BOOLEAN -> Viewers \cup {NoViewer}]
           /\ view[r].want \in BOOLEAN /\ view[r].rec \in Records \cup {Nil} /\ view[r].made \in Records \cup {Nil}
           /\ view[r].res \in FlightResults
  BY ThumbTypesAre DEF ThumbnailInv, ThumbTypes, Views

(* A request goes on without anything new in hand, *)
LEMMA GoesOn ==
    ASSUME ThumbnailInv, NEW r \in Viewers,
           NEW pc \in {"charge", "join", "joined", "media", "again", "generate", "landed", "result", "done"},
           ViewGoes(r, pc), UNCHANGED <<sourceVars, known, keyCache>>,
           keyFlight' \in [BOOLEAN -> Viewers \cup {NoViewer}]
    PROVE  ThumbnailInv'
<1> DEFINE v == [view[r] EXCEPT !.pc = pc]
<1>1. view' = [view EXCEPT ![r] = v]
  BY DEF ViewGoes
<1>2. view[r] \in Views /\ (Intact => ViewFound(view[r], known, moving))
  BY ViewIs
<1>3. v \in Views /\ v.pc = pc /\ v.want = view[r].want /\ v.rec = view[r].rec /\ v.res = view[r].res /\ v.out = view[r].out
  BY <1>2 DEF Views
<1> HIDE DEF v
<1>4. HandInv(v, moving)
  BY <1>3 DEF HandInv
<1>5. Intact => ViewFound(v, known, moving)
  BY <1>2, <1>3 DEF ViewFound
<1> QED
  BY <1>1, <1>3, <1>4, <1>5, QuietView

(* ends its flight, *)
LEMMA LandsInv ==
    ASSUME ThumbnailInv, NEW r \in Viewers, NEW res \in FlightResults,
           Lands(r, res), UNCHANGED sourceVars, keyFlight' = keyFlight,
           known' \in [BOOLEAN -> Records \cup {Nil}],
           keyCache' \in [BOOLEAN -> Records \cup {Nil, Missing}],
           RowsStay, view[r].pc # "overwrite" \/ res = "thumb",
           Intact => /\ CacheFound(keyCache', known', moving) /\ res # "image"
                     /\ res = "thumb" => (HasOwnRow(moving, view[r].want) => known'[view[r].want] # Nil)
    PROVE  ThumbnailInv'
<1> DEFINE v == [view[r] EXCEPT !.pc = "landed", !.res = res]
<1>1. view' = [view EXCEPT ![r] = v]
  BY DEF Lands
<1>2. view[r] \in Views /\ view[r].want \in BOOLEAN /\ (Intact => ViewFound(view[r], known, moving))
  BY ViewIs
<1>3. v \in Views /\ v.pc = "landed" /\ v.want = view[r].want /\ v.rec = view[r].rec /\ v.res = res /\ v.out = view[r].out
  BY <1>2 DEF Views
<1> HIDE DEF v
<1>4. HandInv(v, moving)
  BY <1>3 DEF HandInv
<1>5. Intact => ViewFound(v, known', moving)
  BY <1>2, <1>3 DEF ViewFound, RowsStay
<1>6. keyFlight' \in [BOOLEAN -> Viewers \cup {NoViewer}]
  BY ViewIs
<1> QED
  BY <1>1, <1>3, <1>4, <1>5, <1>6, OneView

(* or ends. *)
LEMMA EndsInv ==
    ASSUME ThumbnailInv, NEW r \in Viewers, NEW out \in ViewOutcomes,
           ViewEnds(r, out), UNCHANGED <<sourceVars, known, keyFlight>>,
           keyCache' \in [BOOLEAN -> Records \cup {Nil, Missing}],
           Intact => /\ CacheFound(keyCache', known, moving)
                     /\ HasOwnRow(moving, view[r].want) => out # "unexpected"
    PROVE  ThumbnailInv'
<1> DEFINE v == [view[r] EXCEPT !.pc = "done", !.out = out]
<1>1. view' = [view EXCEPT ![r] = v]
  BY DEF ViewEnds
<1>2. view[r] \in Views /\ (Intact => ViewFound(view[r], known, moving))
  BY ViewIs
<1>3. v \in Views /\ v.pc = "done" /\ v.want = view[r].want /\ v.rec = view[r].rec /\ v.res = view[r].res /\ v.out = out
  BY <1>2 DEF Views
<1> HIDE DEF v
<1>4. HandInv(v, moving)
  BY <1>3 DEF HandInv
<1>5. Intact => ViewFound(v, known, moving)
  BY <1>2, <1>3 DEF ViewFound
<1>6. keyFlight' \in [BOOLEAN -> Viewers \cup {NoViewer}] /\ known' \in [BOOLEAN -> Records \cup {Nil}]
  BY ViewIs, ThumbTypesAre DEF ThumbTypes
<1>7. RowsStay
  BY DEF RowsStay
<1> QED
  BY <1>1, <1>3, <1>4, <1>5, <1>6, <1>7, OneView

(* What is found, in the cache or in the table, is a row. *)
LEMMA FoundIsKnown ==
    ASSUME ThumbnailInv, NEW w \in BOOLEAN
    PROVE  /\ FoundRecord(w) \in Records \cup {Nil}
           /\ Intact /\ HasOwnRow(moving, w) => (FoundRecord(w) # Nil <=> known[w] # Nil)
<1>1. known[w] \in Records \cup {Nil} /\ keyCache[w] \in Records \cup {Nil, Missing}
  BY ThumbTypesAre DEF ThumbTypes
<1>2. FoundRecord(w) \in Records \cup {Nil}
  BY <1>1 DEF FoundRecord, Records, Nil, Missing
<1>3. ASSUME Intact, HasOwnRow(moving, w) PROVE FoundRecord(w) # Nil <=> known[w] # Nil
  <2>1. keyCache[w] # Nil /\ (keyCache[w] # Missing => known[w] # Nil)
    BY <1>3 DEF ThumbnailInv, CacheFound
  <2> QED
    BY <2>1 DEF FoundRecord
<1> QED
  BY <1>2, <1>3

(* A record is put in the cache. *)
LEMMA CachedIsKnown ==
    ASSUME ThumbnailInv, NEW w \in BOOLEAN, NEW rec \in Records \cup {Missing}, NEW k,
           \A x \in BOOLEAN : known[x] # Nil => k[x] # Nil,
           HasOwnRow(moving, w) /\ rec # Missing => (Intact => k[w] # Nil)
    PROVE  /\ [keyCache EXCEPT ![w] = rec] \in [BOOLEAN -> Records \cup {Nil, Missing}]
           /\ Intact => CacheFound([keyCache EXCEPT ![w] = rec], k, moving)
<1>1. keyCache \in [BOOLEAN -> Records \cup {Nil, Missing}]
  BY ThumbTypesAre DEF ThumbTypes
<1>2. rec # Nil
  BY DEF Records, Missing, Nil
<1> DEFINE c == [keyCache EXCEPT ![w] = rec]
<1>3. \A x \in BOOLEAN : c[x] = IF x = w THEN rec ELSE keyCache[x]
  BY <1>1
<1>4. c \in [BOOLEAN -> Records \cup {Nil, Missing}]
  BY <1>1
<1> HIDE DEF c
<1>5. ASSUME Intact, NEW x \in BOOLEAN PROVE c[x] # Nil /\ (HasOwnRow(moving, x) /\ c[x] # Missing => k[x] # Nil)
  <2>1. CacheFound(keyCache, known, moving)
    BY <1>5 DEF ThumbnailInv
  <2>2. keyCache[x] # Nil /\ (HasOwnRow(moving, x) /\ keyCache[x] # Missing => known[x] # Nil)
    BY <2>1 DEF CacheFound
  <2>3. CASE x = w
    BY <1>2, <1>3, <1>5, <2>3
  <2>4. CASE x # w
    BY <1>3, <2>2, <2>4
  <2> QED
    BY <2>3, <2>4
<1>6. Intact => CacheFound(c, k, moving)
  BY <1>5 DEF CacheFound
<1> QED
  BY <1>4, <1>6 DEF c

(* The steps of a request. *)

LEMMA StartViewInv ==
    ASSUME ThumbnailInv, NEW r \in Viewers, NEW want \in BOOLEAN, StartView(r, want)
    PROVE  ThumbnailInv'
<1> DEFINE v == [view[r] EXCEPT !.pc = "lookup", !.want = want]
<1>1. view' = [view EXCEPT ![r] = v] /\ UNCHANGED <<sourceVars, known, keyCache, keyFlight>> /\ view[r].pc = "idle"
  BY DEF StartView, ViewAt
<1>2. view[r] \in Views /\ keyFlight \in [BOOLEAN -> Viewers \cup {NoViewer}]
  BY ViewIs
<1>3. v \in Views /\ v.pc = "lookup" /\ v.want = want /\ v.rec = view[r].rec /\ v.res = view[r].res /\ v.out = view[r].out
  BY <1>2 DEF Views
<1> HIDE DEF v
<1>4. view[r].rec = Nil /\ view[r].res = "" /\ view[r].out = ""
  BY <1>1, ViewIs DEF HandInv
<1>5. HandInv(v, moving)
  BY <1>3 DEF HandInv
<1>6. ViewFound(v, known, moving)
  BY <1>3, <1>4 DEF ViewFound
<1> QED
  BY <1>1, <1>2, <1>3, <1>5, <1>6, QuietView

LEMMA LookUpRecordInv ==
    ASSUME ThumbnailInv, NEW r \in Viewers, LookUpRecord(r)
    PROVE  ThumbnailInv'
<1> DEFINE rec == FoundRecord(view[r].want)
           pc == IF rec = Nil THEN "charge" ELSE "store"
           v == [view[r] EXCEPT !.rec = rec, !.pc = pc]
<1>1. view' = [view EXCEPT ![r] = v] /\ UNCHANGED <<sourceVars, known, keyCache, keyFlight>>
  BY DEF LookUpRecord
<1>2. /\ view[r] \in Views /\ view[r].want \in BOOLEAN /\ keyFlight \in [BOOLEAN -> Viewers \cup {NoViewer}]
      /\ Intact => ViewFound(view[r], known, moving)
  BY ViewIs
<1>3. /\ rec \in Records \cup {Nil}
      /\ Intact /\ HasOwnRow(moving, view[r].want) => (rec # Nil => known[view[r].want] # Nil)
  BY <1>2, FoundIsKnown
<1>4. pc \in {"charge", "store"} /\ (pc = "store" => rec # Nil)
  OBVIOUS
<1> HIDE DEF rec, pc
<1>5. v \in Views /\ v.pc = pc /\ v.want = view[r].want /\ v.rec = rec /\ v.res = view[r].res /\ v.out = view[r].out
  BY <1>2, <1>3, <1>4 DEF Views
<1> HIDE DEF v
<1>6. HandInv(v, moving)
  BY <1>4, <1>5 DEF HandInv
<1>7. Intact => ViewFound(v, known, moving)
  BY <1>2, <1>3, <1>4, <1>5 DEF ViewFound
<1> QED
  BY <1>1, <1>2, <1>5, <1>6, <1>7, QuietView

LEMMA StoreRecordInv ==
    ASSUME ThumbnailInv, NEW r \in Viewers, StoreRecordOf(r)
    PROVE  ThumbnailInv'
<1> DEFINE v == [view[r] EXCEPT !.pc = "charge"]
           c == [keyCache EXCEPT ![view[r].want] = view[r].rec]
<1>1. /\ view' = [view EXCEPT ![r] = v] /\ keyCache' = c
      /\ UNCHANGED <<sourceVars, known, keyFlight>> /\ view[r].pc = "store"
  BY DEF StoreRecordOf, ViewGoes, ViewAt
<1>2. /\ view[r] \in Views /\ view[r].want \in BOOLEAN /\ keyFlight \in [BOOLEAN -> Viewers \cup {NoViewer}]
      /\ Intact => ViewFound(view[r], known, moving)
      /\ HandInv(view[r], moving) /\ view[r].rec \in Records \cup {Nil}
  BY ViewIs
<1>3. view[r].rec \in Records
  BY <1>1, <1>2 DEF HandInv
<1>4. HasOwnRow(moving, view[r].want) => (Intact => known[view[r].want] # Nil)
  BY <1>2, <1>3 DEF ViewFound, Records, Nil
<1>5. c \in [BOOLEAN -> Records \cup {Nil, Missing}] /\ (Intact => CacheFound(c, known, moving))
  BY <1>2, <1>3, <1>4, CachedIsKnown
<1> HIDE DEF c
<1>6. v \in Views /\ v.pc = "charge" /\ v.want = view[r].want /\ v.rec = view[r].rec /\ v.res = view[r].res /\ v.out = view[r].out
  BY <1>2 DEF Views
<1> HIDE DEF v
<1>7. HandInv(v, moving) /\ (Intact => ViewFound(v, known, moving))
  BY <1>2, <1>6 DEF HandInv, ViewFound
<1>8. RowsStay /\ known' \in [BOOLEAN -> Records \cup {Nil}]
  BY <1>1, ThumbTypesAre DEF RowsStay, ThumbTypes
<1> QED
  BY <1>1, <1>2, <1>5, <1>6, <1>7, <1>8, OneView

LEMMA JoinFlightInv ==
    ASSUME ThumbnailInv, NEW r \in Viewers, JoinFlight(r)
    PROVE  ThumbnailInv'
<1>1. view[r].want \in BOOLEAN /\ keyFlight \in [BOOLEAN -> Viewers \cup {NoViewer}]
  BY ViewIs
<1>2. keyFlight' = [keyFlight EXCEPT ![view[r].want] = r] \/ keyFlight' = keyFlight
  BY DEF JoinFlight
<1>3. keyFlight' \in [BOOLEAN -> Viewers \cup {NoViewer}]
  BY <1>1, <1>2
<1>4. UNCHANGED <<sourceVars, known, keyCache>> /\ (ViewGoes(r, "media") \/ ViewGoes(r, "joined"))
  BY DEF JoinFlight
<1> QED
  BY <1>3, <1>4, GoesOn

LEMMA ChargeBucketInv ==
    ASSUME ThumbnailInv, NEW r \in Viewers, ChargeBucket(r)
    PROVE  ThumbnailInv'
<1>1. /\ UNCHANGED <<sourceVars, known, keyCache, keyFlight>>
      /\ ViewGoes(r, "join") \/ ViewEnds(r, "error")
  BY DEF ChargeBucket
<1>2. /\ keyFlight \in [BOOLEAN -> Viewers \cup {NoViewer}]
      /\ Intact => CacheFound(keyCache, known, moving)
  BY ViewIs
<1>3. keyCache' \in [BOOLEAN -> Records \cup {Nil, Missing}]
  BY <1>1, ThumbTypesAre DEF ThumbTypes
<1>4. "error" \in ViewOutcomes /\ "error" # "unexpected"
  BY DEF ViewOutcomes, FlightResults
<1>5. Intact => /\ CacheFound(keyCache', known, moving)
                /\ HasOwnRow(moving, view[r].want) => "error" # "unexpected"
  BY <1>1, <1>2
<1>6. CASE ViewGoes(r, "join")
  BY <1>1, <1>2, <1>6, GoesOn
<1>7. CASE ViewEnds(r, "error")
  BY <1>1, <1>3, <1>4, <1>5, <1>7, EndsInv
<1> QED
  BY <1>1, <1>6, <1>7

(* The media is asked for.  Its quarantine forgets the record, *)
LEMMA CheckMediaInv ==
    ASSUME ThumbnailInv, NEW r \in Viewers, CheckMedia(r)
    PROVE  ThumbnailInv'
<1>1. /\ view[r].want \in BOOLEAN /\ keyFlight \in [BOOLEAN -> Viewers \cup {NoViewer}]
      /\ Intact => CacheFound(keyCache, known, moving)
  BY ViewIs
<1>2. keyCache \in [BOOLEAN -> Records \cup {Nil, Missing}] /\ known \in [BOOLEAN -> Records \cup {Nil}]
  BY ThumbTypesAre DEF ThumbTypes
<1>3. UNCHANGED <<sourceVars, known, keyFlight>> /\ view[r].pc = "media"
  BY DEF CheckMedia, ViewAt
<1>4. RowsStay
  BY <1>3 DEF RowsStay
<1>5. CASE ViewGoes(r, "again") /\ UNCHANGED keyCache
  BY <1>1, <1>3, <1>5, GoesOn
<1>6. CASE source # "ok" /\ keyCache' \in {keyCache, [keyCache EXCEPT ![view[r].want] = Nil]}
            /\ \E res \in FlightResults : Lands(r, res)
  <2>1. ~Intact
    BY <1>6 DEF Intact
  <2>2. keyCache' \in [BOOLEAN -> Records \cup {Nil, Missing}]
    BY <1>1, <1>2, <1>6
  <2>3. PICK res \in FlightResults : Lands(r, res)
    BY <1>6
  <2> QED
    BY <1>2, <1>3, <1>4, <2>1, <2>2, <2>3, LandsInv
<1>7. (IF ReplaceThumbnails THEN "image" ELSE "quarantined") \in FlightResults /\ "notFound" \in FlightResults
  BY DEF FlightResults
<1> QED
  BY <1>5, <1>6, <1>7 DEF CheckMedia

LEMMA LookAgainInv ==
    ASSUME ThumbnailInv, NEW r \in Viewers, LookAgain(r)
    PROVE  ThumbnailInv'
<1> DEFINE w == view[r].want
           rec == IF view[r].rec # Nil THEN view[r].rec ELSE FoundRecord(w)
           pc == IF rec = Nil THEN "generate" ELSE "open"
           v == [view[r] EXCEPT !.rec = rec, !.pc = pc]
           c == [keyCache EXCEPT ![w] = rec]
<1>1. /\ view' = [view EXCEPT ![r] = v] /\ UNCHANGED <<sourceVars, known, keyFlight>>
      /\ keyCache' = IF view[r].rec = Nil /\ rec # Nil THEN c ELSE keyCache
  BY DEF LookAgain
<1>2. /\ view[r] \in Views /\ w \in BOOLEAN /\ keyFlight \in [BOOLEAN -> Viewers \cup {NoViewer}]
      /\ view[r].rec \in Records \cup {Nil}
      /\ Intact => ViewFound(view[r], known, moving) /\ CacheFound(keyCache, known, moving)
  BY ViewIs
<1>3. /\ rec \in Records \cup {Nil}
      /\ Intact /\ HasOwnRow(moving, w) => (rec # Nil => known[w] # Nil)
  BY <1>2, FoundIsKnown DEF ViewFound
<1>4. pc \in {"generate", "open"} /\ (pc = "open" => rec # Nil)
  OBVIOUS
<1>5. rec # Nil => c \in [BOOLEAN -> Records \cup {Nil, Missing}] /\ (Intact => CacheFound(c, known, moving))
  <2> SUFFICES ASSUME rec # Nil
               PROVE  c \in [BOOLEAN -> Records \cup {Nil, Missing}] /\ (Intact => CacheFound(c, known, moving))
    OBVIOUS
  <2>1. rec \in Records
    BY <1>3
  <2>2. HasOwnRow(moving, w) => (Intact => known[w] # Nil)
    BY <1>3
  <2> HIDE DEF rec, w
  <2> QED
    BY <1>2, <2>1, <2>2, CachedIsKnown
<1> HIDE DEF rec, pc, c
<1>6. /\ v \in Views /\ v.pc = pc /\ v.want = view[r].want /\ v.rec = rec /\ v.res = view[r].res
      /\ v.out = view[r].out
  BY <1>2, <1>3, <1>4 DEF Views
<1> HIDE DEF v
<1>7. HandInv(v, moving)
  BY <1>4, <1>6 DEF HandInv
<1>8. Intact => ViewFound(v, known, moving)
  BY <1>2, <1>3, <1>4, <1>6 DEF ViewFound
<1>9. RowsStay /\ known' \in [BOOLEAN -> Records \cup {Nil}] /\ keyCache \in [BOOLEAN -> Records \cup {Nil, Missing}]
  BY <1>1, ThumbTypesAre DEF RowsStay, ThumbTypes
<1>10. keyCache' \in [BOOLEAN -> Records \cup {Nil, Missing}] /\ (Intact => CacheFound(keyCache', known, moving))
  BY <1>1, <1>2, <1>5, <1>9
<1> QED
  BY <1>1, <1>2, <1>6, <1>7, <1>8, <1>9, <1>10, OneView

(* A thumbnail that is opened is a row that was found. *)
LEMMA OpenThumbnailInv ==
    ASSUME ThumbnailInv, NEW r \in Viewers, OpenThumbnail(r)
    PROVE  ThumbnailInv'
<1>1. UNCHANGED <<sourceVars, known, keyCache, keyFlight>> /\ view[r].pc = "open"
  BY DEF OpenThumbnail, ViewAt
<1>2. PICK res \in {"thumb", "error"} : Lands(r, res)
  BY DEF OpenThumbnail
<1>3. /\ Intact => ViewFound(view[r], known, moving) /\ CacheFound(keyCache, known, moving)
      /\ HandInv(view[r], moving)
  BY ViewIs
<1>4. /\ known' \in [BOOLEAN -> Records \cup {Nil}] /\ keyCache' \in [BOOLEAN -> Records \cup {Nil, Missing}]
      /\ RowsStay
  BY <1>1, ThumbTypesAre DEF RowsStay, ThumbTypes
<1>5. Intact => (HasOwnRow(moving, view[r].want) => known'[view[r].want] # Nil)
  BY <1>1, <1>3 DEF ViewFound, HandInv
<1>6. res \in FlightResults /\ res # "image"
  BY <1>2 DEF FlightResults
<1>7. Intact => /\ CacheFound(keyCache', known', moving) /\ res # "image"
                /\ res = "thumb" => (HasOwnRow(moving, view[r].want) => known'[view[r].want] # Nil)
  BY <1>1, <1>3, <1>5, <1>6
<1>8. view[r].pc # "overwrite" \/ res = "thumb"
  BY <1>1
<1> QED
  BY <1>1, <1>2, <1>4, <1>6, <1>7, <1>8, LandsInv

(* A flight that ends without a thumbnail. *)
LEMMA LandsWithout ==
    ASSUME ThumbnailInv, NEW r \in Viewers, view[r].pc # "overwrite",
           NEW res \in {"error", "original"}, Lands(r, res),
           UNCHANGED <<sourceVars, keyCache, keyFlight>>,
           known' \in [BOOLEAN -> Records \cup {Nil}], RowsStay
    PROVE  ThumbnailInv'
<1>1. Intact => CacheFound(keyCache, known, moving)
  BY ViewIs
<1>2. keyCache' \in [BOOLEAN -> Records \cup {Nil, Missing}]
  BY ThumbTypesAre DEF ThumbTypes
<1>3. Intact => CacheFound(keyCache', known', moving)
  BY <1>1 DEF CacheFound, RowsStay
<1>4. res \in FlightResults /\ res # "image" /\ res # "thumb"
  BY DEF FlightResults
<1> QED
  BY <1>2, <1>3, <1>4, LandsInv

LEMMA GenerateInv ==
    ASSUME ThumbnailInv, NEW r \in Viewers, GenerateThumbnail(r)
    PROVE  ThumbnailInv'
<1>1. UNCHANGED <<sourceVars, known, keyCache, keyFlight>> /\ view[r].pc = "generate"
  BY DEF GenerateThumbnail, ViewAt
<1>2. known' \in [BOOLEAN -> Records \cup {Nil}] /\ RowsStay
  BY <1>1, ThumbTypesAre DEF RowsStay, ThumbTypes
<1>3. CASE Lands(r, "error") \/ Lands(r, "original")
  BY <1>1, <1>2, <1>3, LandsWithout
<1> DEFINE made == IF view[r].want /\ moving THEN "moving" ELSE "still"
           pc == IF view[r].want /\ ~moving THEN "existing" ELSE "put"
           v == [view[r] EXCEPT !.made = made, !.pc = pc]
<1>4. CASE view' = [view EXCEPT ![r] = v]
  <2>1. /\ view[r] \in Views /\ view[r].want \in BOOLEAN /\ keyFlight \in [BOOLEAN -> Viewers \cup {NoViewer}]
        /\ Intact => ViewFound(view[r], known, moving)
    BY ViewIs
  <2>2. made \in Records /\ pc \in {"existing", "put"}
    BY DEF Records
  <2>3. moving \in BOOLEAN
    BY DEF ThumbnailInv, ThumbnailTypeOK
  <2>4. (HasOwnRow(moving, view[r].want) => MadeAsAsked(made, view[r].want))
    BY <2>1, <2>3 DEF HasOwnRow, MadeAsAsked
  <2>5. (pc = "existing" => ~HasOwnRow(moving, view[r].want))
    BY <2>1, <2>3 DEF HasOwnRow
  <2> HIDE DEF made, pc
  <2>6. /\ v \in Views /\ v.pc = pc /\ v.want = view[r].want /\ v.rec = view[r].rec /\ v.res = view[r].res
        /\ v.out = view[r].out /\ v.made = made
    BY <2>1, <2>2 DEF Views
  <2> HIDE DEF v
  <2>7. made # Nil
    BY <2>2 DEF Records, Nil
  <2>8. HandInv(v, moving)
    BY <2>2, <2>4, <2>5, <2>6, <2>7 DEF HandInv
  <2>9. Intact => ViewFound(v, known, moving)
    BY <2>1, <2>2, <2>6 DEF ViewFound
  <2> QED
    BY <1>1, <1>4, <2>1, <2>6, <2>8, <2>9, QuietView
<1>5. Lands(r, "error") \/ Lands(r, "original") \/ view' = [view EXCEPT ![r] = v]
  <2>1. CASE Lands(r, "error") \/ Lands(r, "original")
    BY <2>1
  <2>2. CASE view' = [view EXCEPT ![r].made = made, ![r].pc = pc]
    <3> HIDE DEF made, pc
    <3> QED
      BY <2>2
  <2> QED
    BY <2>1, <2>2 DEF GenerateThumbnail
<1> QED
  BY <1>3, <1>4, <1>5

(* A thumbnail that is inserted, or found, is about to be cached. *)
LEMMA ToOverwrite ==
    ASSUME ThumbnailInv, NEW r \in Viewers, ViewGoes(r, "overwrite"), UNCHANGED <<sourceVars, keyCache, keyFlight>>,
           known' \in [BOOLEAN -> Records \cup {Nil}], RowsStay, view[r].made # Nil,
           HasOwnRow(moving, view[r].want) => known'[view[r].want] # Nil
    PROVE  ThumbnailInv'
<1> DEFINE v == [view[r] EXCEPT !.pc = "overwrite"]
<1>1. view' = [view EXCEPT ![r] = v]
  BY DEF ViewGoes
<1>2. /\ view[r] \in Views /\ keyFlight \in [BOOLEAN -> Viewers \cup {NoViewer}]
      /\ Intact => ViewFound(view[r], known, moving) /\ CacheFound(keyCache, known, moving)
  BY ViewIs
<1>3. /\ v \in Views /\ v.pc = "overwrite" /\ v.want = view[r].want /\ v.rec = view[r].rec /\ v.res = view[r].res
      /\ v.out = view[r].out /\ v.made = view[r].made
  BY <1>2 DEF Views
<1> HIDE DEF v
<1>4. HandInv(v, moving)
  BY <1>3 DEF HandInv
<1>5. Intact => ViewFound(v, known', moving)
  BY <1>2, <1>3 DEF ViewFound
<1>6. Intact => CacheFound(keyCache', known', moving)
  BY <1>2 DEF CacheFound, RowsStay
<1>7. keyCache' \in [BOOLEAN -> Records \cup {Nil, Missing}]
  BY ThumbTypesAre DEF ThumbTypes
<1> QED
  BY <1>1, <1>2, <1>3, <1>4, <1>5, <1>6, <1>7, OneView

LEMMA UseExistingInv ==
    ASSUME ThumbnailInv, NEW r \in Viewers, UseExistingStill(r)
    PROVE  ThumbnailInv'
<1>1. UNCHANGED <<sourceVars, keyCache, keyFlight>> /\ view[r].pc = "existing"
  BY DEF UseExistingStill, ViewAt
<1>2. /\ view[r] \in Views /\ view[r].want \in BOOLEAN /\ keyFlight \in [BOOLEAN -> Viewers \cup {NoViewer}]
      /\ Intact => ViewFound(view[r], known, moving)
      /\ view[r].made # Nil /\ ~HasOwnRow(moving, view[r].want)
  BY <1>1, ViewIs DEF HandInv
<1>3. known \in [BOOLEAN -> Records \cup {Nil}]
  BY ThumbTypesAre DEF ThumbTypes
<1>4. CASE UNCHANGED known /\ ViewGoes(r, "put")
  <2> DEFINE v == [view[r] EXCEPT !.pc = "put"]
  <2>1. view' = [view EXCEPT ![r] = v]
    BY <1>4 DEF ViewGoes
  <2>2. /\ v \in Views /\ v.pc = "put" /\ v.want = view[r].want /\ v.rec = view[r].rec /\ v.res = view[r].res
        /\ v.out = view[r].out /\ v.made = view[r].made
    BY <1>2 DEF Views
  <2> HIDE DEF v
  <2>3. HandInv(v, moving) /\ (Intact => ViewFound(v, known, moving))
    BY <1>2, <2>2 DEF HandInv, ViewFound
  <2> QED
    BY <1>1, <1>2, <1>4, <2>1, <2>2, <2>3, QuietView
<1>5. CASE /\ known[FALSE] # Nil
           /\ known' = [known EXCEPT ![TRUE] = IF @ = Nil THEN known[FALSE] ELSE @]
           /\ ViewGoes(r, "overwrite") \/ Lands(r, "error")
  <2> DEFINE rec == IF known[TRUE] = Nil THEN known[FALSE] ELSE known[TRUE]
  <2>1. known' = [known EXCEPT ![TRUE] = rec]
    BY <1>5
  <2>2. rec \in Records
    BY <1>3, <1>5
  <2> HIDE DEF rec
  <2>3. known' \in [BOOLEAN -> Records \cup {Nil}]
    BY <1>3, <2>1, <2>2
  <2>4. ASSUME NEW w \in BOOLEAN, known[w] # Nil PROVE known'[w] # Nil
    <3>1. known'[w] = IF w = TRUE THEN rec ELSE known[w]
      BY <1>3, <2>1
    <3>2. rec # Nil
      BY <2>2 DEF Records, Nil
    <3> QED
      BY <2>4, <3>1, <3>2
  <2>5. RowsStay
    BY <2>4 DEF RowsStay
  <2> QED
    BY <1>1, <1>2, <1>5, <2>3, <2>5, ToOverwrite, LandsWithout
<1> QED
  BY <1>4, <1>5 DEF UseExistingStill

LEMMA PutThumbnailInv ==
    ASSUME ThumbnailInv, NEW r \in Viewers, PutThumbnail(r)
    PROVE  ThumbnailInv'
<1> DEFINE a == view[r].made = "moving"
<1>1. UNCHANGED <<sourceVars, keyCache, keyFlight>> /\ view[r].pc = "put"
  BY DEF PutThumbnail, ViewAt
<1>2. /\ view[r].want \in BOOLEAN /\ view[r].made # Nil /\ view[r].made \in Records \cup {Nil}
      /\ HasOwnRow(moving, view[r].want) => MadeAsAsked(view[r].made, view[r].want)
  BY <1>1, ViewIs DEF HandInv
<1>3. known \in [BOOLEAN -> Records \cup {Nil}]
  BY ThumbTypesAre DEF ThumbTypes
<1>4. a \in BOOLEAN /\ (HasOwnRow(moving, view[r].want) => a = view[r].want)
  BY <1>2 DEF MadeAsAsked
<1>5. \/ known' = [known EXCEPT ![a] = view[r].made] /\ ViewGoes(r, "overwrite")
      \/ UNCHANGED known /\ Lands(r, "error")
  BY DEF PutThumbnail
<1> HIDE DEF a
<1>6. CASE UNCHANGED known /\ Lands(r, "error")
  <2>1. RowsStay /\ known' \in [BOOLEAN -> Records \cup {Nil}]
    BY <1>3, <1>6 DEF RowsStay
  <2> QED
    BY <1>1, <1>6, <2>1, LandsWithout
<1>7. CASE known' = [known EXCEPT ![a] = view[r].made] /\ ViewGoes(r, "overwrite")
  <2>1. known' \in [BOOLEAN -> Records \cup {Nil}]
    BY <1>2, <1>3, <1>7
  <2>2. \A w \in BOOLEAN : known'[w] = IF w = a THEN view[r].made ELSE known[w]
    BY <1>3, <1>4, <1>7
  <2>3. RowsStay
    BY <1>2, <2>2 DEF RowsStay
  <2>4. HasOwnRow(moving, view[r].want) => known'[view[r].want] # Nil
    BY <1>2, <1>4, <2>2
  <2> QED
    BY <1>1, <1>2, <1>7, <2>1, <2>3, <2>4, ToOverwrite
<1> QED
  BY <1>5, <1>6, <1>7

LEMMA OverwriteKeyInv ==
    ASSUME ThumbnailInv, NEW r \in Viewers, OverwriteKey(r)
    PROVE  ThumbnailInv'
<1> DEFINE c == [keyCache EXCEPT ![view[r].want] = view[r].made]
<1>1. UNCHANGED <<sourceVars, known, keyFlight>> /\ view[r].pc = "overwrite" /\ keyCache' = c /\ Lands(r, "thumb")
  BY DEF OverwriteKey, ViewAt
<1>2. /\ view[r].want \in BOOLEAN /\ view[r].made # Nil /\ view[r].made \in Records \cup {Nil}
      /\ Intact => ViewFound(view[r], known, moving)
  BY <1>1, ViewIs DEF HandInv
<1>3. Intact => (HasOwnRow(moving, view[r].want) => known[view[r].want] # Nil)
  BY <1>1, <1>2 DEF ViewFound
<1>4. view[r].made \in Records
  BY <1>2
<1>5. c \in [BOOLEAN -> Records \cup {Nil, Missing}] /\ (Intact => CacheFound(c, known, moving))
  BY <1>2, <1>3, <1>4, CachedIsKnown
<1> HIDE DEF c
<1>6. RowsStay /\ known' \in [BOOLEAN -> Records \cup {Nil}]
  BY <1>1, ThumbTypesAre DEF RowsStay, ThumbTypes
<1>7. "thumb" \in FlightResults
  BY DEF FlightResults
<1> QED
  BY <1>1, <1>3, <1>5, <1>6, <1>7, LandsInv

(* Everybody who waited for the flight gets its result. *)
LEMMA FlightLandsInv ==
    ASSUME ThumbnailInv, NEW l \in Viewers, FlightLands(l)
    PROVE  ThumbnailInv'
<1> DEFINE Gets(q) == q = l \/ (view[q].pc = "joined" /\ view[q].want = view[l].want)
           After(q) == [view[q] EXCEPT !.pc = "result", !.res = view[l].res, !.made = Nil]
<1>1. /\ view' = [q \in Viewers |-> IF Gets(q) THEN After(q) ELSE view[q]]
      /\ keyFlight' = [keyFlight EXCEPT ![view[l].want] = NoViewer]
      /\ UNCHANGED <<sourceVars, known, keyCache>>
  BY DEF FlightLands, ViewAt
<1>2. source' = source /\ moving' = moving /\ vanished' = vanished /\ tiny' = tiny
  BY <1>1 DEF sourceVars
<1>3. ThumbTypes
  BY ThumbTypesAre
<1>4. keyFlight' \in [BOOLEAN -> Viewers \cup {NoViewer}]
  <2>1. view[l].want \in BOOLEAN /\ keyFlight \in [BOOLEAN -> Viewers \cup {NoViewer}]
    BY ViewIs
  <2> QED
    BY <1>1, <2>1
<1>5. view[l].res \in FlightResults /\ Nil \in Records \cup {Nil}
  BY ViewIs
<1>6. ASSUME NEW q \in Viewers
      PROVE  /\ After(q) \in Views /\ HandInv(After(q), moving)
             /\ (Gets(q) /\ Intact => ViewFound(After(q), known, moving))
  <2> DEFINE v == After(q)
  <2>1. view[q] \in Views /\ (Intact => ViewFound(view[q], known, moving) /\ ViewFound(view[l], known, moving))
    BY ViewIs
  <2>2. /\ v \in Views /\ v.pc = "result" /\ v.want = view[q].want /\ v.rec = view[q].rec /\ v.res = view[l].res
        /\ v.out = view[q].out
    BY <1>5, <2>1 DEF Views
  <2> HIDE DEF v
  <2>3. HandInv(v, moving)
    BY <2>2 DEF HandInv
  <2>4. ASSUME Gets(q), Intact PROVE ViewFound(v, known, moving)
    <3>1. view[q].want = view[l].want
      BY <2>4
    <3> QED
      BY <2>1, <2>2, <2>4, <3>1 DEF ViewFound
  <2> QED
    BY <2>2, <2>3, <2>4 DEF v
<1> HIDE DEF After, Gets
<1>7. view' \in [Viewers -> Views]
  BY <1>1, <1>3, <1>6 DEF ThumbTypes
<1>8. \A q \in Viewers : HandInv(view'[q], moving')
  <2>1. \A q \in Viewers : HandInv(view[q], moving)
    BY DEF ThumbnailInv
  <2> QED
    BY <1>1, <1>2, <1>6, <2>1
<1>9. ASSUME Intact' PROVE CacheFound(keyCache', known', moving') /\ \A q \in Viewers : ViewFound(view'[q], known', moving')
  <2>1. Intact
    BY <1>2, <1>9 DEF Intact
  <2>2. CacheFound(keyCache, known, moving) /\ \A q \in Viewers : ViewFound(view[q], known, moving)
    BY <2>1 DEF ThumbnailInv
  <2> QED
    BY <1>1, <1>2, <1>6, <2>1, <2>2
<1>10. ThumbnailTypeOK'
  <2>1. moving \in BOOLEAN /\ tiny \in BOOLEAN /\ vanished \in BOOLEAN /\ source \in {"ok", "quarantined", "gone"}
    BY DEF ThumbnailInv, ThumbnailTypeOK
  <2>2. {moving', tiny', vanished'} \subseteq BOOLEAN /\ source' \in {"ok", "quarantined", "gone"}
    BY <1>2, <2>1
  <2> QED
    BY <1>1, <1>3, <1>4, <1>7, <2>2 DEF ThumbnailTypeOK, Views, ThumbTypes
<1> QED
  BY <1>8, <1>9, <1>10 DEF ThumbnailInv

LEMMA ResultIsErrorInv ==
    ASSUME ThumbnailInv, NEW r \in Viewers, ResultIsError(r)
    PROVE  ThumbnailInv'
<1> DEFINE out == IF view[r].res # "quarantined" THEN view[r].res
                  ELSE IF RateLimited /\ view[r].rec = Nil THEN "panic" ELSE "notFound"
<1>1. /\ view[r].res \in {"original", "quarantined", "notFound", "error"} /\ ViewEnds(r, out)
      /\ UNCHANGED <<sourceVars, known, keyCache, keyFlight>>
  BY DEF ResultIsError
<1>2. out \in ViewOutcomes /\ out # "unexpected"
  BY <1>1 DEF ViewOutcomes, FlightResults
<1> HIDE DEF out
<1>3. Intact => CacheFound(keyCache, known, moving)
  BY ViewIs
<1>4. keyCache' \in [BOOLEAN -> Records \cup {Nil, Missing}]
  BY <1>1, ThumbTypesAre DEF ThumbTypes
<1> QED
  BY <1>1, <1>2, <1>3, <1>4, EndsInv

LEMMA ResultIsStreamInv ==
    ASSUME ThumbnailInv, NEW r \in Viewers, ResultIsStream(r)
    PROVE  ThumbnailInv'
<1>1. /\ view[r].res \in {"thumb", "image"} /\ UNCHANGED <<sourceVars, known, keyCache, keyFlight>>
      /\ ViewGoes(r, "refetch") \/ ViewEnds(r, view[r].res)
  BY DEF ResultIsStream
<1>2. /\ view[r] \in Views /\ keyFlight \in [BOOLEAN -> Viewers \cup {NoViewer}]
      /\ Intact => ViewFound(view[r], known, moving) /\ CacheFound(keyCache, known, moving)
  BY ViewIs
<1>3. CASE ViewEnds(r, view[r].res)
  <2>1. view[r].res \in ViewOutcomes /\ view[r].res # "unexpected"
    BY <1>1 DEF ViewOutcomes, FlightResults
  <2>2. keyCache' \in [BOOLEAN -> Records \cup {Nil, Missing}]
    BY <1>1, ThumbTypesAre DEF ThumbTypes
  <2> QED
    BY <1>1, <1>2, <1>3, <2>1, <2>2, EndsInv
<1>4. CASE ViewGoes(r, "refetch")
  <2> DEFINE v == [view[r] EXCEPT !.pc = "refetch"]
  <2>1. view' = [view EXCEPT ![r] = v]
    BY <1>4 DEF ViewGoes
  <2>2. /\ v \in Views /\ v.pc = "refetch" /\ v.want = view[r].want /\ v.rec = view[r].rec /\ v.res = view[r].res
        /\ v.out = view[r].out
    BY <1>2 DEF Views
  <2> HIDE DEF v
  <2>3. HandInv(v, moving) /\ (Intact => ViewFound(v, known, moving))
    BY <1>1, <1>2, <2>2 DEF HandInv, ViewFound
  <2> QED
    BY <1>1, <1>2, <2>1, <2>2, <2>3, QuietView
<1> QED
  BY <1>1, <1>3, <1>4

(* The record is found again. *)
LEMMA RefetchInv ==
    ASSUME ThumbnailInv, NEW r \in Viewers, RefetchRecord(r)
    PROVE  ThumbnailInv'
<1> DEFINE w == view[r].want
           rec == FoundRecord(w)
           out == IF rec = Nil THEN "unexpected" ELSE view[r].res
           c == [keyCache EXCEPT ![w] = rec]
<1>1. /\ ViewEnds(r, out) /\ keyCache' = (IF rec = Nil THEN keyCache ELSE c)
      /\ UNCHANGED <<sourceVars, known, keyFlight>> /\ view[r].pc = "refetch"
  BY DEF RefetchRecord, ViewAt
<1>2. /\ w \in BOOLEAN /\ view[r].res \in {"thumb", "image"}
      /\ Intact => ViewFound(view[r], known, moving) /\ CacheFound(keyCache, known, moving)
  BY <1>1, ViewIs DEF HandInv
<1>3. /\ rec \in Records \cup {Nil}
      /\ Intact /\ HasOwnRow(moving, w) => (rec # Nil <=> known[w] # Nil)
  BY <1>2, FoundIsKnown
<1>4. Intact /\ HasOwnRow(moving, w) => known[w] # Nil
  BY <1>2 DEF ViewFound
<1>5. out \in ViewOutcomes /\ (out = "unexpected" => rec = Nil)
  BY <1>2 DEF ViewOutcomes, FlightResults
<1> HIDE DEF out, rec
<1>6. keyCache \in [BOOLEAN -> Records \cup {Nil, Missing}]
  BY ThumbTypesAre DEF ThumbTypes
<1>7. rec # Nil => c \in [BOOLEAN -> Records \cup {Nil, Missing}] /\ (Intact => CacheFound(c, known, moving))
  <2> SUFFICES ASSUME rec # Nil
               PROVE  c \in [BOOLEAN -> Records \cup {Nil, Missing}] /\ (Intact => CacheFound(c, known, moving))
    OBVIOUS
  <2>1. rec \in Records
    BY <1>3
  <2> HIDE DEF w
  <2> QED
    BY <1>2, <1>4, <2>1, CachedIsKnown
<1> HIDE DEF c
<1>8. keyCache' \in [BOOLEAN -> Records \cup {Nil, Missing}] /\ (Intact => CacheFound(keyCache', known, moving))
  BY <1>1, <1>2, <1>6, <1>7
<1>9. Intact => (HasOwnRow(moving, view[r].want) => out # "unexpected")
  BY <1>3, <1>4, <1>5
<1> QED
  BY <1>1, <1>5, <1>8, <1>9, EndsInv

LEMMA ForgetKeyInv ==
    ASSUME ThumbnailInv, NEW r \in Viewers, ForgetKey(r)
    PROVE  ThumbnailInv'
<1> DEFINE c == [keyCache EXCEPT ![view[r].want] = Missing]
<1>1. view' = [view EXCEPT ![r] = NoView] /\ keyCache' = c /\ UNCHANGED <<sourceVars, known, keyFlight>>
  BY DEF ForgetKey
<1>2. view[r].want \in BOOLEAN /\ keyFlight \in [BOOLEAN -> Viewers \cup {NoViewer}]
  BY ViewIs
<1>3. NoView \in Views
  BY DEF NoView, Views, FlightResults, ViewOutcomes
<1>4. HandInv(NoView, moving) /\ ViewFound(NoView, known, moving)
  BY DEF NoView, HandInv, ViewFound
<1>5. c \in [BOOLEAN -> Records \cup {Nil, Missing}] /\ (Intact => CacheFound(c, known, moving))
  BY <1>2, CachedIsKnown
<1> HIDE DEF c
<1>6. RowsStay /\ known' \in [BOOLEAN -> Records \cup {Nil}]
  BY <1>1, ThumbTypesAre DEF RowsStay, ThumbTypes
<1> QED
  BY <1>1, <1>2, <1>3, <1>4, <1>5, <1>6, OneView

(* Nothing is asked of media that is quarantined, or that lost rows. *)
LEMMA SourceGoesInv ==
    ASSUME ThumbnailInv, QuarantineSource \/ DeleteRows
    PROVE  ThumbnailInv'
<1>1. ThumbTypes
  BY ThumbTypesAre
<1>2. UNCHANGED <<keyCache, keyFlight, view>> /\ moving' = moving /\ tiny' = tiny
  BY DEF QuarantineSource, DeleteRows
<1>3. known' \in [BOOLEAN -> Records \cup {Nil}]
  BY <1>1 DEF QuarantineSource, DeleteRows, ThumbTypes
<1>4. source' # "ok" \/ vanished' = TRUE
  BY DEF QuarantineSource, DeleteRows
<1>5. ~Intact'
  BY <1>4 DEF Intact
<1>6. ThumbnailTypeOK'
  <2>1. moving \in BOOLEAN /\ tiny \in BOOLEAN /\ vanished \in BOOLEAN /\ source \in {"ok", "quarantined", "gone"}
    BY DEF ThumbnailInv, ThumbnailTypeOK
  <2>2. vanished' \in BOOLEAN /\ source' \in {"ok", "quarantined", "gone"}
    BY <2>1 DEF QuarantineSource, DeleteRows
  <2>3. {moving', tiny', vanished'} \subseteq BOOLEAN
    BY <1>2, <2>1, <2>2
  <2> QED
    BY <1>1, <1>2, <1>3, <2>2, <2>3 DEF ThumbnailTypeOK, Views, ThumbTypes
<1>7. \A q \in Viewers : HandInv(view'[q], moving')
  BY <1>2 DEF ThumbnailInv
<1> QED
  BY <1>5, <1>6, <1>7 DEF ThumbnailInv

LEMMA ThumbnailInvInit == ThumbnailInit => ThumbnailInv
<1> SUFFICES ASSUME ThumbnailInit PROVE ThumbnailInv
  OBVIOUS
<1>1. /\ known = [a \in BOOLEAN |-> Nil] /\ keyCache = [a \in BOOLEAN |-> Missing]
      /\ keyFlight = [a \in BOOLEAN |-> NoViewer] /\ view = [r \in Viewers |-> NoView] /\ source = "ok"
  BY DEF ThumbnailInit
<1>2. {moving, tiny, vanished} \subseteq BOOLEAN
  BY DEF ThumbnailInit
<1>3. NoView \in Views
  BY DEF NoView, Views, FlightResults, ViewOutcomes
<1>4. HandInv(NoView, moving) /\ ViewFound(NoView, known, moving)
  BY DEF NoView, HandInv, ViewFound
<1>5. ThumbnailTypeOK
  BY <1>1, <1>2, <1>3 DEF ThumbnailTypeOK, Views
<1>6. CacheFound(keyCache, known, moving)
  BY <1>1 DEF CacheFound, Missing, Nil
<1> QED
  BY <1>1, <1>4, <1>5, <1>6 DEF ThumbnailInv

LEMMA ThumbnailInvStep ==
    ASSUME ThumbnailInv, [ThumbnailNext]_thumbnailVars
    PROVE  ThumbnailInv'
<1>1. CASE UNCHANGED thumbnailVars
  <2>1. UNCHANGED <<known, keyCache, keyFlight, view, source>> /\ moving' = moving /\ tiny' = tiny /\ vanished' = vanished
    BY <1>1 DEF thumbnailVars
  <2>2. Intact' <=> Intact
    BY <2>1 DEF Intact
  <2>3. ThumbnailTypeOK'
    <3>1. {moving', tiny', vanished'} \subseteq BOOLEAN
      BY <2>1 DEF ThumbnailInv, ThumbnailTypeOK
    <3> QED
      BY <2>1, <3>1 DEF ThumbnailInv, ThumbnailTypeOK
  <2> QED
    BY <2>1, <2>2, <2>3 DEF ThumbnailInv
<1>2. ASSUME NEW r \in Viewers, ViewStep(r) PROVE ThumbnailInv'
  BY <1>2, LookUpRecordInv, StoreRecordInv, ChargeBucketInv, JoinFlightInv, CheckMediaInv, LookAgainInv,
     OpenThumbnailInv, GenerateInv, UseExistingInv, PutThumbnailInv, OverwriteKeyInv, FlightLandsInv, ResultIsErrorInv,
     ResultIsStreamInv, RefetchInv, ForgetKeyInv DEF ViewStep
<1>3. ASSUME NEW r \in Viewers, NEW want \in BOOLEAN, StartView(r, want) PROVE ThumbnailInv'
  BY <1>3, StartViewInv
<1>4. CASE QuarantineSource \/ DeleteRows
  BY <1>4, SourceGoesInv
<1> QED
  BY <1>1, <1>2, <1>3, <1>4 DEF ThumbnailNext

(* No request fails for want of the record of a thumbnail that is there, for any  *)
(* number of requests in any order (pipeline.go:182-193).                        *)
THEOREM RecordsAreFound == ThumbnailSpec => [](ThumbnailTypeOK /\ ViewersFindTheRecord)
<1>1. ThumbnailInv => ThumbnailTypeOK /\ ViewersFindTheRecord
  <2> SUFFICES ASSUME ThumbnailInv, NEW r \in Viewers, view[r].out = "unexpected", Intact
               PROVE  view[r].want /\ ~moving
    BY DEF ThumbnailInv, ViewersFindTheRecord, Intact
  <2>1. ~HasOwnRow(moving, view[r].want)
    BY DEF ThumbnailInv, ViewFound
  <2>2. view[r].want \in BOOLEAN /\ moving \in BOOLEAN
    BY ViewIs DEF ThumbnailInv, ThumbnailTypeOK
  <2> QED
    BY <2>1, <2>2 DEF HasOwnRow
<1> QED
  BY <1>1, ThumbnailInvInit, ThumbnailInvStep, PTL DEF ThumbnailSpec

-----------------------------------------------------------------------------
(* The sizes of thumbnails. *)

Pixels == [w : Nat, h : Nat]

(* The loop over the sizes, as a function of what it reads. *)
LargestOf(l) == FoldLeft(LAMBDA m, s : Size(SizesLarger(m.w, s.w), SizesLarger(m.h, s.h)), NoSize, l)
TargetOf(l, a) ==
    FoldLeft(LAMBDA t, s : IF Covers(s, a) /\ (t = NoSize \/ (t.w > s.w /\ t.h > s.h)) THEN s ELSE t, NoSize, l)

LEMMA LargestIsLargestOf == Largest = LargestOf(sizes)
  BY DEF Largest, LargestOf, FoldLeft, MapThenFoldSet

LEMMA TargetIsTargetOf == Target = TargetOf(sizes, asked)
  BY DEF Target, TargetOf, FoldLeft, MapThenFoldSet

SizeList == Seq([w : Nat \ {0}, h : Nat \ {0}])

LEMMA PositionsOf ==
    ASSUME NEW l \in SizeList
    PROVE  /\ IsFiniteSet(DOMAIN l)
           /\ Chooses([s \in SUBSET DOMAIN l |-> Max(s)], DOMAIN l)
           /\ \A i \in DOMAIN l : l[i] \in Pixels /\ l[i].w # 0 /\ l[i].h # 0
<1>1. DOMAIN l = 1..Len(l) /\ Len(l) \in Nat
  BY DEF SizeList
<1>2. IsFiniteSet(1..Len(l))
  BY <1>1, FS_Interval
<1>3. Chooses([s \in SUBSET (1..Len(l)) |-> Max(s)], 1..Len(l))
  BY <1>1, LastOf
<1>4. ASSUME NEW i \in DOMAIN l PROVE l[i] \in Pixels /\ l[i].w # 0 /\ l[i].h # 0
  <2> DEFINE D == [w : Nat \ {0}, h : Nat \ {0}]
  <2>1. l \in Seq(D)
    BY DEF SizeList
  <2>2. l[i] \in D
    <3> HIDE DEF D
    <3> QED
      BY <1>1, <2>1
  <2> QED
    BY <2>2 DEF Pixels
<1> QED
  BY <1>1, <1>2, <1>3, <1>4

LEMMA LargestCovers ==
    ASSUME NEW l \in SizeList
    PROVE  LargestOf(l) \in Pixels /\ \A i \in DOMAIN l : Covers(LargestOf(l), l[i])
<1> DEFINE S == DOMAIN l
           c == [s \in SUBSET S |-> Max(s)]
           Both(m, x) == Size(SizesLarger(m.w, x.w), SizesLarger(m.h, x.h))
           F == [p \in S \X Pixels |-> Both(p[2], l[p[1]])]
           Value(g, s) == IF s = {} THEN NoSize ELSE Both(g[s \ {Max(s)}], l[Max(s)])
           Loop(g) == g = [s \in SUBSET S |-> Value(g, s)]
<1>1. IsFiniteSet(S) /\ Chooses(c, S) /\ \A i \in S : l[i] \in Pixels
  BY PositionsOf
<1>2. ASSUME NEW m \in Pixels, NEW x \in Pixels
      PROVE  Both(m, x) \in Pixels /\ Covers(Both(m, x), m) /\ Covers(Both(m, x), x)
  BY DEF Pixels, Size, SizesLarger, Covers
<1>3. ASSUME NEW x \in S, NEW d \in Pixels PROVE F[<<x, d>>] = Both(d, l[x]) /\ F[<<x, d>>] \in Pixels
  <2>1. F[<<x, d>>] = Both(d, l[x])
    OBVIOUS
  <2> QED
    BY <1>1, <1>2, <2>1
<1>4. NoSize \in Pixels
  BY DEF NoSize, Size, Pixels
<1>5. PICK g0 : FoldsOver(g0, S, Pixels, NoSize, c, F)
  <2> HIDE DEF c, F, S
  <2> QED
    BY <1>1, <1>3, <1>4, FoldIsDefined
<1>6. Loop(g0)
  <2>1. g0 \in [SUBSET S -> Pixels] /\ \A s \in SUBSET S : g0[s] = IF s = {} THEN NoSize ELSE F[<<c[s], g0[s \ {c[s]}]>>]
    BY <1>5 DEF FoldsOver
  <2>2. ASSUME NEW s \in SUBSET S, s # {} PROVE g0[s] = Both(g0[s \ {Max(s)}], l[Max(s)])
    <3>1. c[s] = Max(s) /\ c[s] \in S
      BY <1>1, <2>2 DEF Chooses
    <3>2. g0[s \ {c[s]}] \in Pixels
      BY <2>1
    <3>3. g0[s] = F[<<c[s], g0[s \ {c[s]}]>>]
      BY <2>1, <2>2
    <3> HIDE DEF F, c, S, Both
    <3> QED
      BY <1>3, <3>1, <3>2, <3>3
  <2>3. \A s \in SUBSET S : g0[s] = Value(g0, s)
    <3> HIDE DEF F, c, S, Both
    <3> QED
      BY <2>1, <2>2
  <2> HIDE DEF F, c, S, Value
  <2> QED
    BY <2>1, <2>3
<1> DEFINE g == CHOOSE f : Loop(f)
<1>7. Loop(g)
  <2> HIDE DEF Loop
  <2> QED
    BY <1>6
<1>8. LargestOf(l) = g[S]
  BY DEF LargestOf, FoldLeft, MapThenFoldSet
<1> HIDE DEF g
<1>9. \A s \in SUBSET S : g[s] = Value(g, s)
  <2> HIDE DEF Value, S
  <2> QED
    BY <1>7
<1> DEFINE P == {s \in SUBSET S : g[s] \in Pixels /\ \A i \in s : Covers(g[s], l[i])}
<1>10. {} \in P
  <2>1. {} \in SUBSET S
    OBVIOUS
  <2>2. g[{}] = NoSize
    BY <1>9, <2>1, Zenon
  <2> QED
    BY <1>4, <2>1, <2>2
<1>11. ASSUME NEW s \in SUBSET S, s # {}, s \ {c[s]} \in P PROVE s \in P
  <2> DEFINE m == Max(s)
             before == g[s \ {m}]
  <2>1. c[s] = m /\ m \in s /\ m \in S
    BY <1>1, <1>11 DEF Chooses
  <2>2. g[s] = Both(before, l[m])
    BY <1>9, <1>11
  <2>3. before \in Pixels /\ \A i \in s \ {m} : Covers(before, l[i])
    BY <1>11, <2>1
  <2>4. l[m] \in Pixels
    BY <1>1, <2>1
  <2> HIDE DEF m, before, Both, c
  <2>5. g[s] \in Pixels /\ Covers(g[s], before) /\ Covers(g[s], l[m])
    BY <1>2, <2>2, <2>3, <2>4
  <2>6. ASSUME NEW i \in s PROVE Covers(g[s], l[i])
    <3>1. CASE i = m
      BY <2>5, <3>1
    <3>2. CASE i # m
      <4>1. Covers(before, l[i]) /\ l[i] \in Pixels
        BY <1>1, <2>3, <3>2
      <4> QED
        BY <2>3, <2>5, <4>1 DEF Covers, Pixels
    <3> QED
      BY <3>1, <3>2
  <2> QED
    BY <2>5, <2>6
<1>12. \A s \in SUBSET S : s \in P
  <2> HIDE DEF P, c, S
  <2>1. Grows(P, S, c)
    BY <1>10, <1>11 DEF Grows
  <2> QED
    BY <1>1, <2>1, TakeAway
<1>13. S \in P
  BY <1>12
<1> QED
  BY <1>8, <1>13

(* What the loop has chosen after the sizes s of l, for the request a. *)
Chosen(t, s, l, a) ==
    /\ t = NoSize => \A i \in s : ~Covers(l[i], a)
    /\ t # NoSize => /\ \E i \in s : t = l[i]
                     /\ Covers(t, a)
                     /\ \A i \in s : Covers(l[i], a) => ~(l[i].w < t.w /\ l[i].h < t.h)

LEMMA TargetIsChosen ==
    ASSUME NEW l \in SizeList, NEW a, a.w \in Nat, a.h \in Nat
    PROVE  TargetOf(l, a) \in Pixels /\ Chosen(TargetOf(l, a), DOMAIN l, l, a)
<1> DEFINE S == DOMAIN l
           c == [s \in SUBSET S |-> Max(s)]
           Better(t, x) == IF Covers(x, a) /\ (t = NoSize \/ (t.w > x.w /\ t.h > x.h)) THEN x ELSE t
           F == [p \in S \X Pixels |-> Better(p[2], l[p[1]])]
           Value(g, s) == IF s = {} THEN NoSize ELSE Better(g[s \ {Max(s)}], l[Max(s)])
           Loop(g) == g = [s \in SUBSET S |-> Value(g, s)]
<1>1. IsFiniteSet(S) /\ Chooses(c, S) /\ \A i \in S : l[i] \in Pixels /\ l[i].w # 0 /\ l[i].h # 0
  BY PositionsOf
<1>2. ASSUME NEW x \in S, NEW d \in Pixels PROVE F[<<x, d>>] = Better(d, l[x]) /\ F[<<x, d>>] \in Pixels
  <2>1. F[<<x, d>>] = Better(d, l[x])
    OBVIOUS
  <2>2. Better(d, l[x]) \in Pixels
    BY <1>1
  <2> QED
    BY <2>1, <2>2
<1>3. NoSize \in Pixels
  BY DEF NoSize, Size, Pixels
<1>4. PICK g0 : FoldsOver(g0, S, Pixels, NoSize, c, F)
  <2> HIDE DEF c, F, S
  <2> QED
    BY <1>1, <1>2, <1>3, FoldIsDefined
<1>5. Loop(g0)
  <2>1. g0 \in [SUBSET S -> Pixels] /\ \A s \in SUBSET S : g0[s] = IF s = {} THEN NoSize ELSE F[<<c[s], g0[s \ {c[s]}]>>]
    BY <1>4 DEF FoldsOver
  <2>2. ASSUME NEW s \in SUBSET S, s # {} PROVE g0[s] = Better(g0[s \ {Max(s)}], l[Max(s)])
    <3>1. c[s] = Max(s) /\ c[s] \in S
      BY <1>1, <2>2 DEF Chooses
    <3>2. g0[s \ {c[s]}] \in Pixels
      BY <2>1
    <3>3. g0[s] = F[<<c[s], g0[s \ {c[s]}]>>]
      BY <2>1, <2>2
    <3> HIDE DEF F, c, S, Better
    <3> QED
      BY <1>2, <3>1, <3>2, <3>3
  <2>3. \A s \in SUBSET S : g0[s] = Value(g0, s)
    <3> HIDE DEF F, c, S, Better
    <3> QED
      BY <2>1, <2>2
  <2> HIDE DEF F, c, S, Value
  <2> QED
    BY <2>1, <2>3
<1> DEFINE g == CHOOSE f : Loop(f)
<1>6. Loop(g)
  <2> HIDE DEF Loop
  <2> QED
    BY <1>5
<1>7. TargetOf(l, a) = g[S]
  BY DEF TargetOf, FoldLeft, MapThenFoldSet
<1> HIDE DEF g
<1>8. \A s \in SUBSET S : g[s] = Value(g, s)
  <2> HIDE DEF Value, S
  <2> QED
    BY <1>6
<1> DEFINE P == {s \in SUBSET S : g[s] \in Pixels /\ Chosen(g[s], s, l, a)}
<1>9. {} \in P
  <2>1. {} \in SUBSET S
    OBVIOUS
  <2>2. g[{}] = NoSize
    BY <1>8, <2>1, Zenon
  <2>3. Chosen(NoSize, {}, l, a)
    BY DEF Chosen
  <2> QED
    BY <1>3, <2>1, <2>2, <2>3
<1>10. ASSUME NEW s \in SUBSET S, s # {}, s \ {c[s]} \in P PROVE s \in P
  <2> DEFINE m == Max(s)
             t == g[s \ {m}]
             x == l[m]
  <2>1. c[s] = m /\ m \in s /\ m \in S
    BY <1>1, <1>10 DEF Chooses
  <2>2. g[s] = Better(t, x)
    BY <1>8, <1>10
  <2>3. t \in Pixels /\ Chosen(t, s \ {m}, l, a)
    BY <1>10, <2>1
  <2>4. x \in Pixels /\ x # NoSize
    BY <1>1, <2>1 DEF NoSize, Size
  <2>5. \A i \in s : l[i] \in Pixels
    BY <1>1
  <2> HIDE DEF c, t, m
  <2>6. CASE Covers(x, a) /\ t = NoSize
    <3>1. g[s] = x
      BY <2>2, <2>6
    <3>2. \A i \in s \ {m} : ~Covers(l[i], a)
      BY <2>3, <2>6 DEF Chosen
    <3>3. \A i \in s : Covers(l[i], a) => l[i] = x
      BY <3>2
    <3>4. ~(x.w < x.w /\ x.h < x.h)
      BY <2>4 DEF Pixels
    <3>5. Chosen(x, s, l, a)
      BY <2>1, <2>4, <2>6, <3>3, <3>4 DEF Chosen
    <3> QED
      BY <2>4, <3>1, <3>5
  <2>7. CASE Covers(x, a) /\ t # NoSize /\ t.w > x.w /\ t.h > x.h
    <3>1. g[s] = x
      BY <2>2, <2>7
    <3>2. \A i \in s \ {m} : Covers(l[i], a) => ~(l[i].w < t.w /\ l[i].h < t.h)
      BY <2>3, <2>7 DEF Chosen
    <3>3. ASSUME NEW i \in s, Covers(l[i], a) PROVE ~(l[i].w < x.w /\ l[i].h < x.h)
      <4>1. l[i].w \in Nat /\ l[i].h \in Nat /\ x.w \in Nat /\ x.h \in Nat /\ t.w \in Nat /\ t.h \in Nat
        BY <2>3, <2>4, <2>5 DEF Pixels
      <4>2. CASE i = m
        BY <4>1, <4>2
      <4>3. CASE i # m
        BY <2>7, <3>2, <3>3, <4>1, <4>3
      <4> QED
        BY <4>2, <4>3
    <3>4. Chosen(x, s, l, a)
      BY <2>1, <2>4, <2>7, <3>3 DEF Chosen
    <3> QED
      BY <2>4, <3>1, <3>4
  <2>8. CASE ~Covers(x, a)
    <3>1. g[s] = t
      BY <2>2, <2>8
    <3>2. Chosen(t, s, l, a)
      BY <2>3, <2>8 DEF Chosen
    <3> QED
      BY <2>3, <3>1, <3>2
  <2>9. CASE Covers(x, a) /\ t # NoSize /\ ~(t.w > x.w /\ t.h > x.h)
    <3>1. g[s] = t
      BY <2>2, <2>9
    <3>2. ~(x.w < t.w /\ x.h < t.h)
      BY <2>3, <2>4, <2>9 DEF Pixels
    <3>3. Chosen(t, s, l, a)
      BY <2>3, <2>9, <3>2 DEF Chosen
    <3> QED
      BY <2>3, <3>1, <3>3
  <2> QED
    BY <2>6, <2>7, <2>8, <2>9
<1>11. \A s \in SUBSET S : s \in P
  <2> HIDE DEF P, c, S
  <2>1. Grows(P, S, c)
    BY <1>9, <1>10 DEF Grows
  <2> QED
    BY <1>1, <2>1, TakeAway
<1>12. S \in P
  BY <1>11
<1> QED
  BY <1>7, <1>12

(* Division rounds down. *)
LEMMA Quotient ==
    ASSUME NEW x \in Nat, NEW y \in Nat \ {0}
    PROVE  /\ x \div y \in Nat
           /\ (x \div y) * y <= x
           /\ x < ((x \div y) + 1) * y
  OBVIOUS

LEMMA CancelFactor ==
    ASSUME NEW q \in Nat, NEW h \in Nat, NEW y \in Nat \ {0}, q * y <= h * y
    PROVE  q <= h
  OBVIOUS

(* A crop of t lies in t and has the aspect ratio of the request. *)
KeepsTheAspect(p, a) ==
    \/ p.h * a.w <= p.w * a.h /\ p.w * a.h < (p.h + 1) * a.w
    \/ p.w * a.h <= p.h * a.w /\ p.h * a.w < (p.w + 1) * a.h

LEMMA CropFits ==
    ASSUME NEW t \in Pixels, asked.w \in Nat \ {0}, asked.h \in Nat \ {0}
    PROVE  Cropped(t) \in Pixels /\ Covers(t, Cropped(t)) /\ KeepsTheAspect(Cropped(t), asked)
<1> DEFINE w == asked.w
           h == asked.h
<1>1. w \in Nat \ {0} /\ h \in Nat \ {0} /\ t.w \in Nat /\ t.h \in Nat
  BY DEF Pixels
<1> HIDE DEF w, h
<1>2. CASE t.w * h = t.h * w
  <2>1. Cropped(t) = t
    BY <1>2 DEF Cropped, w, h
  <2>2. t.w * h < (t.h + 1) * w
    BY <1>1, <1>2
  <2> QED
    BY <1>1, <1>2, <2>1, <2>2 DEF Covers, KeepsTheAspect, w, h
<1>3. CASE t.w * h # t.h * w /\ t.w * h <= t.h * w
  <2> DEFINE q == (h * t.w) \div w
  <2>1. Cropped(t) = [w |-> t.w, h |-> q]
    BY <1>3 DEF Cropped, Size, w, h
  <2>2. h * t.w \in Nat
    BY <1>1
  <2>3. q \in Nat /\ q * w <= h * t.w /\ h * t.w < (q + 1) * w
    BY <1>1, <2>2, Quotient
  <2> HIDE DEF q
  <2>4. h * t.w = t.w * h
    BY <1>1
  <2>5. q * w <= t.h * w
    BY <1>1, <1>3, <2>3, <2>4
  <2>6. q <= t.h
    BY <1>1, <2>3, <2>5, CancelFactor
  <2>7. Cropped(t) \in Pixels /\ Covers(t, Cropped(t))
    BY <1>1, <2>1, <2>3, <2>6 DEF Pixels, Covers
  <2>8. KeepsTheAspect(Cropped(t), asked)
    BY <2>1, <2>3, <2>4 DEF KeepsTheAspect, w, h
  <2> QED
    BY <2>7, <2>8
<1>4. CASE t.w * h # t.h * w /\ ~(t.w * h <= t.h * w)
  <2> DEFINE q == (w * t.h) \div h
  <2>1. Cropped(t) = [w |-> q, h |-> t.h]
    BY <1>4 DEF Cropped, Size, w, h
  <2>2. w * t.h \in Nat
    BY <1>1
  <2>3. q \in Nat /\ q * h <= w * t.h /\ w * t.h < (q + 1) * h
    BY <1>1, <2>2, Quotient
  <2> HIDE DEF q
  <2>4. w * t.h = t.h * w
    BY <1>1
  <2>5. q * h <= t.w * h
    BY <1>1, <1>4, <2>3, <2>4
  <2>6. q <= t.w
    BY <1>1, <2>3, <2>5, CancelFactor
  <2>7. Cropped(t) \in Pixels /\ Covers(t, Cropped(t))
    BY <1>1, <2>1, <2>3, <2>6 DEF Pixels, Covers
  <2>8. KeepsTheAspect(Cropped(t), asked)
    BY <2>1, <2>3, <2>4 DEF KeepsTheAspect, w, h
  <2> QED
    BY <2>7, <2>8
<1> QED
  BY <1>2, <1>3, <1>4

(* What a request, the configuration and the media are. *)
SizeInputs ==
    /\ asked \in [w : SideLengths, h : SideLengths, crop : BOOLEAN, animated : BOOLEAN]
    /\ sizes \in SizeLists
    /\ image \in [w : SideLengths \ {0}, h : SideLengths \ {0}]

LEMMA InputsAreSizes ==
    ASSUME SizeInputs
    PROVE  sizes \in SizeList /\ asked.w \in Nat /\ asked.h \in Nat /\ image \in Pixels
<1>1. SizeLists \subseteq SizeList /\ SideLengths \subseteq Nat
  BY SizesAssumption DEF SizeList
<1> QED
  BY <1>1 DEF SizeInputs, Pixels

(* The size that is picked is in the largest one; scaled, it is one that covers  *)
(* the request if there is one; cropped, it has its aspect ratio.                *)
LEMMA PickFits ==
    ASSUME SizeInputs, asked.w > 0, asked.h > 0
    PROVE  /\ PickNewDimensions \in Pixels
           /\ Covers(Largest, PickNewDimensions)
           /\ ~dynamic /\ ~asked.crop =>
                 /\ (\E i \in DOMAIN sizes : Covers(sizes[i], asked)) => Covers(PickNewDimensions, asked)
                 /\ ~\E i \in DOMAIN sizes : /\ Covers(sizes[i], asked)
                                             /\ sizes[i].w < PickNewDimensions.w /\ sizes[i].h < PickNewDimensions.h
           /\ ~dynamic /\ asked.crop => KeepsTheAspect(PickNewDimensions, asked)
<1> DEFINE p == PickNewDimensions
           exact == \E i \in DOMAIN sizes : sizes[i] = Size(asked.w, asked.h)
           own == Size(asked.w, asked.h)
           t == IF Target = NoSize THEN Largest ELSE Target
<1>1. sizes \in SizeList /\ asked.w \in Nat \ {0} /\ asked.h \in Nat \ {0}
  BY InputsAreSizes
<1>2. Largest \in Pixels /\ \A i \in DOMAIN sizes : Covers(Largest, sizes[i])
  BY <1>1, LargestIsLargestOf, LargestCovers
<1>3. Target \in Pixels /\ Chosen(Target, DOMAIN sizes, sizes, asked)
  BY <1>1, TargetIsTargetOf, TargetIsChosen
<1>4. \A i \in DOMAIN sizes : sizes[i] \in Pixels
  BY <1>1, PositionsOf
<1>5. own \in Pixels /\ own.w = asked.w /\ own.h = asked.h
  BY <1>1 DEF Size, Pixels
<1>6. t \in Pixels /\ Covers(Largest, t)
  <2>1. CASE Target = NoSize
    <3>1. t = Largest
      BY <2>1
    <3>2. Covers(Largest, Largest)
      BY <1>2 DEF Covers, Pixels
    <3> QED
      BY <1>2, <3>1, <3>2
  <2>2. CASE Target # NoSize
    <3>1. t = Target /\ \E i \in DOMAIN sizes : Target = sizes[i]
      BY <1>3, <2>2 DEF Chosen
    <3> QED
      BY <1>2, <1>3, <3>1
  <2> QED
    BY <2>1, <2>2
<1>7. (\E i \in DOMAIN sizes : Covers(sizes[i], asked)) => Covers(t, asked)
  BY <1>3 DEF Chosen
<1>8. ASSUME NEW i \in DOMAIN sizes, Covers(sizes[i], asked) PROVE ~(sizes[i].w < t.w /\ sizes[i].h < t.h)
  BY <1>3, <1>8 DEF Chosen
<1> HIDE DEF t, own, exact
<1>9. CASE exact
  <2>1. p = own
    BY <1>9 DEF exact, own, PickNewDimensions
  <2>2. Covers(Largest, own)
    BY <1>2, <1>9 DEF exact, own
  <2>3. Covers(own, asked)
    BY <1>1, <1>5 DEF Covers
  <2>4. ASSUME NEW i \in DOMAIN sizes, Covers(sizes[i], asked) PROVE ~(sizes[i].w < own.w /\ sizes[i].h < own.h)
    BY <1>1, <1>4, <1>5, <2>4 DEF Covers, Pixels
  <2>5. KeepsTheAspect(own, asked)
    <3>1. asked.h * asked.w <= asked.w * asked.h /\ asked.w * asked.h < (asked.h + 1) * asked.w
      <4> DEFINE w == asked.w
                 h == asked.h
      <4>1. w \in Nat \ {0} /\ h \in Nat \ {0}
        BY <1>1
      <4> HIDE DEF w, h
      <4>2. h * w <= w * h /\ w * h < (h + 1) * w
        BY <4>1
      <4> QED
        BY <4>2 DEF w, h
    <3> QED
      BY <1>5, <3>1 DEF KeepsTheAspect
  <2> QED
    BY <1>5, <2>1, <2>2, <2>3, <2>4, <2>5
<1>10. CASE ~exact /\ dynamic
  <2>1. p = Size(SizesSmaller(Largest.w, asked.w), SizesSmaller(Largest.h, asked.h))
    BY <1>10 DEF exact, PickNewDimensions
  <2>2. p \in Pixels /\ Covers(Largest, p)
    BY <1>1, <1>2, <2>1 DEF Size, SizesSmaller, Pixels, Covers
  <2> QED
    BY <1>10, <2>2
<1>11. CASE ~exact /\ ~dynamic /\ ~asked.crop
  <2>1. p = t
    BY <1>11 DEF exact, t, PickNewDimensions
  <2> HIDE DEF p
  <2> QED
    BY <1>6, <1>7, <1>8, <1>11, <2>1 DEF p
<1>12. CASE ~exact /\ ~dynamic /\ asked.crop
  <2>1. p = Cropped(t)
    BY <1>12 DEF exact, t, PickNewDimensions
  <2>2. Cropped(t) \in Pixels /\ Covers(t, Cropped(t)) /\ KeepsTheAspect(Cropped(t), asked)
    BY <1>1, <1>6, CropFits
  <2>3. Covers(Largest, Cropped(t))
    BY <1>2, <1>6, <2>2 DEF Covers, Pixels
  <2> QED
    BY <1>12, <2>1, <2>2, <2>3
<1> QED
  BY <1>9, <1>10, <1>11, <1>12

(* What is picked is what the request, the configuration and the media make it,  *)
(* until it is judged.                                                           *)
SizesInv ==
    /\ SizeInputs
    /\ verdict = "picked" => asked.w > 0 /\ asked.h > 0 /\ picked = PickNewDimensions
    /\ ThumbnailsAreSmall

LEMMA SizesInvStep == SizesInv /\ [SizesNext]_sizeVars => SizesInv'
<1> SUFFICES ASSUME SizesInv, [SizesNext]_sizeVars PROVE SizesInv'
  OBVIOUS
<1>1. asked' = asked /\ sizes' = sizes /\ image' = image /\ dynamic' = dynamic
  BY DEF SizesNext, PickSize, JudgeImage, sizeVars
<1>2. SizeInputs' /\ Largest' = Largest /\ PickNewDimensions' = PickNewDimensions
  <2>1. SizeInputs'
    BY <1>1 DEF SizesInv, SizeInputs
  <2>2. Largest' = Largest
    BY <1>1 DEF Largest, FoldLeft, MapThenFoldSet
  <2>3. Target' = Target
    BY <1>1 DEF Target, FoldLeft, MapThenFoldSet
  <2>4. PickNewDimensions' = PickNewDimensions
    BY <1>1, <2>2, <2>3 DEF PickNewDimensions, Cropped
  <2> QED
    BY <2>1, <2>2, <2>4
<1>3. asked.w \in Nat /\ asked.h \in Nat /\ image \in Pixels
  BY InputsAreSizes DEF SizesInv
<1>4. CASE PickSize
  <2>1. verdict' = "refused" \/ (verdict' = "picked" /\ picked' = PickNewDimensions /\ ~(asked.w <= 0 \/ asked.h <= 0))
    BY <1>4 DEF PickSize
  <2>2. verdict' = "picked" => asked.w > 0 /\ asked.h > 0 /\ picked' = PickNewDimensions
    BY <1>3, <2>1
  <2> QED
    BY <1>1, <1>2, <2>1, <2>2 DEF SizesInv, ThumbnailsAreSmall
<1>5. CASE JudgeImage
  <2>1. picked = PickNewDimensions /\ asked.w > 0 /\ asked.h > 0
    BY <1>5 DEF JudgeImage, SizesInv
  <2>2. picked \in Pixels /\ Covers(Largest, picked)
    BY <2>1, PickFits DEF SizesInv
  <2>3. \/ verdict' \in {"too large", "too small"}
        \/ verdict' = "thumbnail" /\ Covers(picked, image) /\ asked.animated /\ picked' = image
        \/ verdict' = "thumbnail" /\ ~Covers(picked, image) /\ picked' = picked
    BY <1>5 DEF JudgeImage
  <2>4. Covers(picked, image) => Covers(Largest, image)
    <3>1. Largest \in Pixels
      BY InputsAreSizes, LargestIsLargestOf, LargestCovers DEF SizesInv
    <3> QED
      BY <1>3, <2>2, <3>1 DEF Covers, Pixels
  <2>5. ThumbnailsAreSmall'
    BY <1>1, <1>2, <2>2, <2>3, <2>4 DEF ThumbnailsAreSmall, Covers
  <2> QED
    BY <1>2, <2>3, <2>5 DEF SizesInv
<1>6. CASE UNCHANGED sizeVars
  <2>1. verdict' = verdict /\ picked' = picked
    BY <1>6 DEF sizeVars
  <2> QED
    BY <1>1, <1>2, <2>1 DEF SizesInv, ThumbnailsAreSmall, Covers
<1> QED
  BY <1>4, <1>5, <1>6 DEF SizesNext

(* Whatever sizes are configured, whatever is asked for and whatever the media   *)
(* measures, the thumbnail has a size the configuration allows and the request   *)
(* can use (pick_dimensions.go:10-67).                                           *)
THEOREM SizesAlwaysFit == SizesSpec => []ThumbnailSizesFit
<1>1. SizesInit => SizesInv
  BY DEF SizesInit, SizesInv, SizeInputs, ThumbnailsAreSmall
<1>2. SizesInv => ThumbnailSizesFit
  <2> SUFFICES ASSUME SizesInv PROVE ThumbnailSizesFit
    OBVIOUS
  <2>1. ThumbnailsAreSmall
    BY DEF SizesInv
  <2>2. ScaledThumbnailsFit
    BY PickFits DEF SizesInv, ScaledThumbnailsFit
  <2>3. CropsKeepTheAspect
    BY PickFits DEF SizesInv, CropsKeepTheAspect, KeepsTheAspect
  <2> QED
    BY <2>1, <2>2, <2>3 DEF ThumbnailSizesFit
<1> QED
  BY <1>1, <1>2, SizesInvStep, PTL DEF SizesSpec

-----------------------------------------------------------------------------
(* The expiry of thumbnails. *)

(* The task, as its steps leave it. *)
Expiries == [pc : {"idle", "read", "media", "thumbs", "remove", "rows", "next"}, after : 0..ThumbCount,
             batch : SUBSET ThumbIds, left : SUBSET ThumbLocs, loc : ThumbLocs \cup {NoLoc},
             inUse : BOOLEAN, old : SUBSET ThumbIds, progress : BOOLEAN, gone : SUBSET ThumbLocs]

(* A task that works on a batch has one. *)
BatchIsThere == expiry.pc \notin {"idle", "read"} => expiry.batch # {}

(* Thumbnails, and the task, only know locations that were handed out. *)
LocationsAreKnown ==
    /\ \A t \in ThumbIds : thumbRow[t] # "none" \/ t \in making => LocOf[t] \in usedLoc
    /\ expiry.left \subseteq usedLoc
    /\ expiry.pc \in {"media", "thumbs", "remove", "rows"} => expiry.loc \in usedLoc

(* No media row is made for a location between the two queries and the removal. *)
RemovedHasNoRow ==
    expiry.pc = "remove" \/ (expiry.pc = "thumbs" /\ ~expiry.inUse) => expiry.loc \notin ownRow

(* A thumbnail in the making has its media row, it and a fresh thumbnail have    *)
(* their file, and no fresh thumbnail is at a location that is removed,          *)
FreshHasItsFile ==
    /\ \A t \in making : LocOf[t] \in ownRow
    /\ \A t \in ThumbIds : thumbRow[t] = "new" \/ t \in making => LocOf[t] \in thumbFile
    /\ expiry.pc = "remove" => \A t \in ThumbIds : LocOf[t] = expiry.loc => thumbRow[t] # "new"

(* unless a media purge came between. *)
FreshIsKept == ~mediaRaced => FreshHasItsFile

ThumbPurgeInv == ThumbPurgeTypeOK /\ BatchIsThere /\ LocationsAreKnown /\ RemovedHasNoRow /\ FreshIsKept

LEMMA ExpiryStepType ==
    ASSUME expiry \in Expiries, BatchIsThere, LocationsAreKnown, usedLoc \subseteq ThumbLocs,
           ReadBatch \/ NextLocation \/ LocationExists \/ GetByLocation \/ RemoveThumbObject
               \/ DeleteThumbRow \/ EndBatch \/ StartExpiry \/ QueryFails
    PROVE  expiry' \in Expiries /\ BatchIsThere'
<1> DEFINE Good(e) == e \in Expiries /\ (e.pc \notin {"idle", "read"} => e.batch # {})
<1> SUFFICES Good(expiry')
  BY DEF BatchIsThere
<1>1. ThumbCount \in Nat /\ ThumbIds = 1..ThumbCount
  BY ThumbPurgeAssumption DEF ThumbIds
<1>2. /\ expiry \in Expiries
      /\ expiry.after \in 0..ThumbCount /\ expiry.batch \in SUBSET ThumbIds /\ expiry.left \in SUBSET ThumbLocs
      /\ expiry.loc \in ThumbLocs \cup {NoLoc} /\ expiry.old \in SUBSET ThumbIds /\ expiry.gone \in SUBSET ThumbLocs
      /\ expiry.progress \in BOOLEAN
  BY DEF Expiries
<1>3. IdleExpiry \in Expiries /\ IdleExpiry.pc = "idle"
  BY <1>1 DEF IdleExpiry, Expiries
<1>4. CASE StartExpiry
  <2>1. expiry' = [IdleExpiry EXCEPT !.pc = "read"]
    BY <1>4 DEF StartExpiry
  <2> QED
    BY <1>3, <2>1 DEF Expiries
<1>5. CASE ReadBatch
  <2> DEFINE b == OlderThanBatchAfter(expiry.after)
             l == {LocOf[t] : t \in b}
  <2>1. b \in SUBSET ThumbIds
    BY DEF OlderThanBatchAfter
  <2>2. l \in SUBSET ThumbLocs
    BY <2>1 DEF ThumbLocs
  <2>3. expiry' = IF b = {} THEN IdleExpiry
                  ELSE [expiry EXCEPT !.pc = "next", !.batch = b, !.progress = FALSE, !.left = l]
    BY <1>5 DEF ReadBatch
  <2> HIDE DEF b, l
  <2>4. CASE b = {}
    BY <1>3, <2>3, <2>4
  <2>5. CASE b # {}
    BY <1>2, <2>1, <2>2, <2>3, <2>5 DEF Expiries
  <2> QED
    BY <2>4, <2>5
<1>6. CASE NextLocation
  <2>1. PICK l \in expiry.left :
           expiry' = [expiry EXCEPT !.left = @ \ {l}, !.loc = l,
                                    !.pc = IF l \in expiry.gone THEN "next" ELSE "media"]
    BY <1>6 DEF NextLocation
  <2>2. expiry.pc = "next"
    BY <1>6 DEF NextLocation
  <2>3. expiry.batch # {}
    BY <2>2 DEF BatchIsThere
  <2> QED
    BY <1>2, <2>1, <2>3 DEF Expiries
<1>7. CASE QueryFails
  BY <1>2, <1>7 DEF QueryFails, BatchIsThere, Expiries
<1>8. CASE LocationExists
  <2> DEFINE b == expiry.loc \in ownRow
  <2>1. b \in BOOLEAN
    OBVIOUS
  <2>2. expiry' = [expiry EXCEPT !.pc = "thumbs", !.inUse = b] /\ expiry.pc = "media"
    BY <1>8 DEF LocationExists
  <2> HIDE DEF b
  <2> QED
    BY <1>2, <2>1, <2>2 DEF Expiries, BatchIsThere
<1>9. CASE GetByLocation
  <2> DEFINE old == {t \in RowsAt(expiry.loc) : thumbRow[t] = "old"}
             inUse == expiry.inUse \/ RowsAt(expiry.loc) # old
             pc == CASE old = {} -> "next" [] inUse -> "rows" [] OTHER -> "remove"
  <2>1. old \in SUBSET ThumbIds
    BY DEF RowsAt
  <2>2. pc \in {"next", "rows", "remove"}
    OBVIOUS
  <2>3. expiry' = [expiry EXCEPT !.old = old, !.pc = pc] /\ expiry.pc = "thumbs"
    BY <1>9 DEF GetByLocation
  <2> HIDE DEF old, pc
  <2> QED
    BY <1>2, <2>1, <2>2, <2>3 DEF Expiries, BatchIsThere
<1>10. CASE RemoveThumbObject
  <2>1. expiry.pc = "remove" /\ \/ expiry' = [expiry EXCEPT !.pc = "rows", !.gone = @ \cup {expiry.loc}]
                                \/ expiry' = [expiry EXCEPT !.pc = "next"]
    BY <1>10 DEF RemoveThumbObject
  <2>2. expiry.loc \in ThumbLocs /\ expiry.batch # {}
    BY <2>1 DEF LocationsAreKnown, BatchIsThere
  <2>3. CASE expiry' = [expiry EXCEPT !.pc = "rows", !.gone = @ \cup {expiry.loc}]
    BY <1>2, <2>2, <2>3 DEF Expiries
  <2>4. CASE expiry' = [expiry EXCEPT !.pc = "next"]
    BY <1>2, <2>2, <2>4 DEF Expiries
  <2> QED
    BY <2>1, <2>3, <2>4
<1>11. CASE DeleteThumbRow
  <2>1. PICK t \in expiry.old, ok \in BOOLEAN :
           expiry' = [expiry EXCEPT !.old = @ \ {t}, !.progress = @ \/ ok,
                                    !.pc = IF expiry.old = {t} THEN "next" ELSE "rows"]
    BY <1>11 DEF DeleteThumbRow
  <2> DEFINE b == expiry.progress \/ ok
             pc == IF expiry.old = {t} THEN "next" ELSE "rows"
  <2>2. b \in BOOLEAN /\ pc \in {"next", "rows"}
    OBVIOUS
  <2>3. expiry' = [expiry EXCEPT !.old = @ \ {t}, !.progress = b, !.pc = pc] /\ expiry.pc = "rows"
    BY <1>11, <2>1 DEF DeleteThumbRow
  <2> HIDE DEF b, pc
  <2> QED
    BY <1>2, <2>2, <2>3 DEF Expiries, BatchIsThere
<1>12. CASE EndBatch
  <2> DEFINE n == IF expiry.progress THEN 0 ELSE Max(expiry.batch)
  <2>1. expiry.pc = "next"
    BY <1>12 DEF EndBatch
  <2>2. expiry.batch # {} /\ expiry.batch \in SUBSET (1..ThumbCount)
    BY <1>1, <1>2, <2>1 DEF BatchIsThere
  <2>3. Max(expiry.batch) \in expiry.batch
    BY <1>1, <2>2, LastOf DEF Chooses
  <2>4. n \in 0..ThumbCount
    BY <1>1, <2>2, <2>3
  <2>5. expiry' = [expiry EXCEPT !.pc = "read", !.loc = NoLoc, !.inUse = FALSE, !.after = n]
    BY <1>12 DEF EndBatch
  <2> HIDE DEF n
  <2> QED
    BY <1>2, <2>4, <2>5 DEF Expiries
<1> QED
  BY <1>4, <1>5, <1>6, <1>7, <1>8, <1>9, <1>10, <1>11, <1>12

LEMMA ThumbPurgeInvInit == ThumbPurgeInit => ThumbPurgeInv
<1> SUFFICES ASSUME ThumbPurgeInit PROVE ThumbPurgeInv
  OBVIOUS
<1>1. ThumbCount \in Nat /\ ThumbIds = 1..ThumbCount
  BY ThumbPurgeAssumption DEF ThumbIds
<1>2. IdleExpiry \in Expiries
  BY <1>1 DEF IdleExpiry, Expiries
<1>3. mediaRaced = FALSE /\ expiry = IdleExpiry
  BY DEF ThumbPurgeInit
<1>4. ThumbPurgeTypeOK
  <2>1. ownRow = {} /\ thumbFile = {} /\ usedLoc = {} /\ making = {} /\ thumbRow = [t \in ThumbIds |-> "none"]
    BY DEF ThumbPurgeInit
  <2>2. mediaRaced \in BOOLEAN
    BY <1>3
  <2>3. expiry \in Expiries
    BY <1>2, <1>3
  <2> QED
    BY <2>1, <2>2, <2>3 DEF ThumbPurgeTypeOK, Expiries
<1>5. BatchIsThere /\ RemovedHasNoRow
  BY <1>3 DEF BatchIsThere, RemovedHasNoRow, IdleExpiry
<1>6. LocationsAreKnown
  BY <1>3 DEF ThumbPurgeInit, LocationsAreKnown, IdleExpiry
<1>7. FreshIsKept
  BY <1>3 DEF ThumbPurgeInit, FreshIsKept, FreshHasItsFile, IdleExpiry
<1> QED
  BY <1>4, <1>5, <1>6, <1>7 DEF ThumbPurgeInv

(* What the steps of the task do to the rest. *)
LEMMA ExpiryStepKeeps ==
    ASSUME ThumbPurgeInv,
           ReadBatch \/ NextLocation \/ LocationExists \/ GetByLocation \/ RemoveThumbObject
               \/ DeleteThumbRow \/ EndBatch \/ StartExpiry \/ QueryFails
    PROVE  ThumbPurgeInv'
<1> USE DEF ThumbPurgeInv
<1>1. /\ thumbRow \in [ThumbIds -> {"none", "old", "new"}]
      /\ ownRow \subseteq usedLoc /\ thumbFile \subseteq usedLoc /\ usedLoc \subseteq ThumbLocs
      /\ making \subseteq ThumbIds /\ expiry \in Expiries
  BY DEF ThumbPurgeTypeOK, Expiries
<1>2. expiry' \in Expiries /\ BatchIsThere'
  BY <1>1, ExpiryStepType
<1>3. UNCHANGED <<ownRow, usedLoc, making>> /\ mediaRaced' = mediaRaced
  BY DEF ReadBatch, NextLocation, LocationExists, GetByLocation, RemoveThumbObject, DeleteThumbRow, EndBatch,
      StartExpiry, QueryFails
<1>4. mediaRaced' \in BOOLEAN
  BY <1>3 DEF ThumbPurgeTypeOK
<1> DEFINE Kept == /\ thumbRow' \in [ThumbIds -> {"none", "old", "new"}]
                   /\ thumbFile' \subseteq usedLoc
                   /\ LocationsAreKnown' /\ RemovedHasNoRow'
                   /\ FreshHasItsFile => FreshHasItsFile'
<1>5. Kept
  <2> USE DEF LocationsAreKnown, RemovedHasNoRow, FreshHasItsFile
  <2>1. CASE ReadBatch
    <3> DEFINE b == OlderThanBatchAfter(expiry.after)
               l == {LocOf[t] : t \in b}
    <3>1. l \subseteq usedLoc
      BY DEF OlderThanBatchAfter
    <3>2. expiry' = IF b = {} THEN IdleExpiry
                    ELSE [expiry EXCEPT !.pc = "next", !.batch = b, !.progress = FALSE, !.left = l]
      BY <2>1 DEF ReadBatch
    <3> HIDE DEF b, l
    <3>3. UNCHANGED <<thumbRow, thumbFile>>
      BY <2>1 DEF ReadBatch
    <3>4. /\ expiry'.pc \in {"idle", "next"}
          /\ expiry'.left \subseteq usedLoc
      BY <1>1, <3>1, <3>2 DEF Expiries, IdleExpiry
    <3> QED
      BY <1>1, <1>3, <3>3, <3>4
  <2>2. CASE StartExpiry \/ EndBatch \/ QueryFails
    <3>1. UNCHANGED <<thumbRow, thumbFile>>
      BY <2>2 DEF StartExpiry, EndBatch, QueryFails
    <3>2. /\ expiry'.pc \in {"read", "next"}
          /\ expiry'.left \subseteq usedLoc
      <4>1. CASE StartExpiry
        BY <4>1 DEF StartExpiry, IdleExpiry
      <4>2. CASE EndBatch
        BY <1>1, <4>2 DEF EndBatch, Expiries
      <4>3. CASE QueryFails
        BY <1>1, <4>3 DEF QueryFails, Expiries
      <4> QED
        BY <2>2, <4>1, <4>2, <4>3
    <3> QED
      BY <1>1, <1>3, <3>1, <3>2
  <2>3. CASE NextLocation
    <3>1. PICK l \in expiry.left :
             expiry' = [expiry EXCEPT !.left = @ \ {l}, !.loc = l,
                                      !.pc = IF l \in expiry.gone THEN "next" ELSE "media"]
      BY <2>3 DEF NextLocation
    <3>2. UNCHANGED <<thumbRow, thumbFile>>
      BY <2>3 DEF NextLocation
    <3>3. expiry'.pc \in {"next", "media"} /\ expiry'.left \subseteq expiry.left /\ expiry'.loc \in expiry.left
      BY <1>1, <3>1 DEF Expiries
    <3> QED
      BY <1>1, <1>3, <3>2, <3>3
  <2>4. CASE LocationExists
    <3>1. UNCHANGED <<thumbRow, thumbFile>> /\ expiry.pc = "media"
      BY <2>4 DEF LocationExists
    <3> DEFINE b == expiry.loc \in ownRow
    <3>2. expiry' = [expiry EXCEPT !.pc = "thumbs", !.inUse = b]
      BY <2>4 DEF LocationExists
    <3>3. expiry'.inUse = b
      BY <1>1, <3>2 DEF Expiries
    <3>4. ~expiry'.inUse => expiry.loc \notin ownRow
      BY <3>3
    <3> HIDE DEF b
    <3>5. expiry'.pc = "thumbs" /\ expiry'.loc = expiry.loc /\ expiry'.left = expiry.left
      BY <1>1, <3>2 DEF Expiries
    <3>6. RemovedHasNoRow'
      BY <1>3, <3>4, <3>5
    <3> QED
      BY <1>1, <1>3, <3>1, <3>5, <3>6
  <2>5. CASE GetByLocation
    <3> DEFINE old == {t \in RowsAt(expiry.loc) : thumbRow[t] = "old"}
               inUse == expiry.inUse \/ RowsAt(expiry.loc) # old
               pc == CASE old = {} -> "next" [] inUse -> "rows" [] OTHER -> "remove"
    <3>1. UNCHANGED <<thumbRow, thumbFile>> /\ expiry.pc = "thumbs"
      BY <2>5 DEF GetByLocation
    <3>2. expiry' = [expiry EXCEPT !.old = old, !.pc = pc]
      BY <2>5 DEF GetByLocation
    <3>3. pc \in {"next", "rows", "remove"} /\ (pc = "remove" => ~inUse)
      OBVIOUS
    <3>4. pc = "remove" => expiry.loc \notin ownRow /\ RowsAt(expiry.loc) = old
      BY <3>1, <3>3
    <3>5. pc = "remove" => \A t \in ThumbIds : LocOf[t] = expiry.loc => thumbRow[t] # "new"
      BY <3>4 DEF RowsAt
    <3> HIDE DEF old, inUse, pc
    <3>6. expiry'.pc = pc /\ expiry'.loc = expiry.loc /\ expiry'.left = expiry.left
      BY <1>1, <3>2 DEF Expiries
    <3>7. RemovedHasNoRow'
      BY <1>3, <3>3, <3>4, <3>6
    <3>8. LocationsAreKnown'
      BY <1>3, <3>1, <3>3, <3>6
    <3> QED
      BY <1>1, <1>3, <3>1, <3>5, <3>6, <3>7, <3>8
  <2>6. CASE RemoveThumbObject
    <3>1. UNCHANGED thumbRow /\ expiry.pc = "remove"
      BY <2>6 DEF RemoveThumbObject
    <3>2. thumbFile' = thumbFile \ {expiry.loc} \/ thumbFile' = thumbFile
      BY <2>6 DEF RemoveThumbObject
    <3>3. expiry'.pc \in {"rows", "next"} /\ expiry'.loc = expiry.loc /\ expiry'.left = expiry.left
      <4>1. CASE expiry' = [expiry EXCEPT !.pc = "rows", !.gone = @ \cup {expiry.loc}]
        BY <1>1, <4>1 DEF Expiries
      <4>2. CASE expiry' = [expiry EXCEPT !.pc = "next"]
        BY <1>1, <4>2 DEF Expiries
      <4> QED
        BY <2>6, <4>1, <4>2 DEF RemoveThumbObject
    <3> QED
      BY <1>1, <1>3, <3>1, <3>2, <3>3
  <2>7. CASE DeleteThumbRow
    <3>1. UNCHANGED thumbFile /\ expiry.pc = "rows"
      BY <2>7 DEF DeleteThumbRow
    <3>2. \E t \in ThumbIds : thumbRow' = [thumbRow EXCEPT ![t] = "none"] \/ thumbRow' = thumbRow
      BY <1>1, <2>7 DEF DeleteThumbRow, Expiries
    <3>3. expiry'.pc \in {"rows", "next"} /\ expiry'.loc = expiry.loc /\ expiry'.left = expiry.left
      BY <1>1, <2>7 DEF DeleteThumbRow, Expiries
    <3> QED
      BY <1>1, <1>3, <3>1, <3>2, <3>3
  <2> QED
    BY <2>1, <2>2, <2>3, <2>4, <2>5, <2>6, <2>7
<1>6. FreshIsKept'
  BY <1>3, <1>5 DEF FreshIsKept
<1>7. ThumbPurgeTypeOK'
  BY <1>1, <1>2, <1>3, <1>4, <1>5 DEF ThumbPurgeTypeOK, Expiries
<1> QED
  BY <1>2, <1>5, <1>6, <1>7

LEMMA ThumbPurgeInvStep ==
    ASSUME ThumbPurgeInv, [ThumbPurgeNext]_thumbPurgeVars
    PROVE  ThumbPurgeInv'
<1> USE DEF ThumbPurgeInv
<1>1. /\ thumbRow \in [ThumbIds -> {"none", "old", "new"}]
      /\ ownRow \subseteq usedLoc /\ thumbFile \subseteq usedLoc /\ usedLoc \subseteq ThumbLocs
      /\ making \subseteq ThumbIds /\ expiry \in Expiries
  BY DEF ThumbPurgeTypeOK, Expiries
<1>2. mediaRaced \in BOOLEAN
  BY DEF ThumbPurgeTypeOK
<1>3. CASE UNCHANGED thumbPurgeVars
  <2>1. UNCHANGED <<thumbRow, ownRow, thumbFile, usedLoc, making, expiry>> /\ mediaRaced' = mediaRaced
    BY <1>3 DEF thumbPurgeVars
  <2>2. FreshIsKept'
    BY <2>1 DEF FreshIsKept, FreshHasItsFile
  <2>3. ThumbPurgeTypeOK'
    BY <1>1, <1>2, <2>1 DEF ThumbPurgeTypeOK, Expiries
  <2> QED
    BY <2>1, <2>2, <2>3 DEF BatchIsThere, LocationsAreKnown, RemovedHasNoRow
<1>4. CASE ReadBatch \/ NextLocation \/ LocationExists \/ GetByLocation \/ RemoveThumbObject
               \/ DeleteThumbRow \/ EndBatch \/ StartExpiry \/ QueryFails
  BY <1>4, ExpiryStepKeeps
<1>5. ASSUME NEW t \in ThumbIds, StoreThumb(t) PROVE ThumbPurgeInv'
  <2>1. /\ LocOf[t] \in ownRow \/ LocOf[t] \notin usedLoc
        /\ making' = making \cup {t} /\ ownRow' = ownRow \cup {LocOf[t]}
        /\ thumbFile' = thumbFile \cup {LocOf[t]} /\ usedLoc' = usedLoc \cup {LocOf[t]}
        /\ thumbRow' = thumbRow /\ expiry' = expiry
    BY <1>5 DEF StoreThumb
  <2>2. mediaRaced' = mediaRaced
    BY <1>5 DEF StoreThumb
  <2>3. LocOf[t] \in ThumbLocs
    BY DEF ThumbLocs
  <2>4. FreshHasItsFile => FreshHasItsFile'
    BY <2>1 DEF FreshHasItsFile
  <2>5. LocationsAreKnown' /\ BatchIsThere'
    BY <2>1 DEF LocationsAreKnown, BatchIsThere
  <2>6. RemovedHasNoRow'
    <3>1. expiry.pc \in {"thumbs", "remove"} => expiry.loc \in usedLoc
      BY DEF LocationsAreKnown
    <3> QED
      BY <1>1, <2>1, <3>1 DEF RemovedHasNoRow
  <2>7. ThumbPurgeTypeOK'
    BY <1>1, <1>2, <2>1, <2>2, <2>3 DEF ThumbPurgeTypeOK, Expiries
  <2> QED
    BY <2>2, <2>4, <2>5, <2>6, <2>7 DEF FreshIsKept
<1>6. ASSUME NEW t \in ThumbIds, InsertThumb(t) PROVE ThumbPurgeInv'
  <2>1. /\ t \in making
        /\ making' = making \ {t} /\ thumbRow' = [thumbRow EXCEPT ![t] = "new"]
        /\ UNCHANGED <<ownRow, thumbFile, usedLoc, expiry>>
    BY <1>6 DEF InsertThumb
  <2>2. mediaRaced' = mediaRaced
    BY <1>6 DEF InsertThumb
  <2>3. FreshHasItsFile => FreshHasItsFile'
    BY <1>1, <2>1 DEF FreshHasItsFile, RemovedHasNoRow
  <2>4. LocationsAreKnown' /\ BatchIsThere' /\ RemovedHasNoRow'
    BY <1>1, <2>1 DEF LocationsAreKnown, BatchIsThere, RemovedHasNoRow
  <2>5. ThumbPurgeTypeOK'
    BY <1>1, <1>2, <2>1, <2>2 DEF ThumbPurgeTypeOK, Expiries
  <2> QED
    BY <2>2, <2>3, <2>4, <2>5 DEF FreshIsKept
<1>7. CASE TimePasses
  <2>1. /\ expiry.pc = "idle"
        /\ thumbRow' = [t \in ThumbIds |-> IF thumbRow[t] = "new" THEN "old" ELSE thumbRow[t]]
        /\ UNCHANGED <<ownRow, thumbFile, usedLoc, making, expiry>>
    BY <1>7 DEF TimePasses
  <2>2. mediaRaced' = mediaRaced
    BY <1>7 DEF TimePasses
  <2>3. FreshHasItsFile => FreshHasItsFile'
    BY <1>1, <2>1 DEF FreshHasItsFile
  <2>4. LocationsAreKnown' /\ BatchIsThere' /\ RemovedHasNoRow'
    BY <1>1, <2>1 DEF LocationsAreKnown, BatchIsThere, RemovedHasNoRow
  <2>5. thumbRow' \in [ThumbIds -> {"none", "old", "new"}]
    BY <1>1, <2>1
  <2>6. ThumbPurgeTypeOK'
    BY <1>1, <1>2, <2>1, <2>2, <2>5 DEF ThumbPurgeTypeOK, Expiries
  <2> QED
    BY <2>2, <2>3, <2>4, <2>6 DEF FreshIsKept
<1>8. ASSUME NEW l \in ThumbLocs, PurgeOwnRow(l) PROVE ThumbPurgeInv'
  <2>1. /\ ownRow' = ownRow \ {l}
        /\ thumbFile' = IF RowsAt(l) = {} THEN thumbFile \ {l} ELSE thumbFile
        /\ UNCHANGED <<thumbRow, usedLoc, making, expiry>>
    BY <1>8 DEF PurgeOwnRow
  <2> DEFINE raced == \E t \in making : LocOf[t] = l
  <2>2. mediaRaced' = (mediaRaced \/ raced)
    BY <1>8 DEF PurgeOwnRow
  <2>3. ~raced /\ FreshHasItsFile => FreshHasItsFile'
    <3> SUFFICES ASSUME ~raced, FreshHasItsFile PROVE FreshHasItsFile'
      OBVIOUS
    <3>1. \A t \in making' : LocOf[t] \in ownRow'
      BY <2>1 DEF FreshHasItsFile
    <3>2. \A t \in ThumbIds : thumbRow'[t] = "new" \/ t \in making' => LocOf[t] \in thumbFile'
      BY <1>1, <2>1 DEF FreshHasItsFile, RowsAt
    <3> QED
      BY <2>1, <3>1, <3>2 DEF FreshHasItsFile
  <2> HIDE DEF raced
  <2>4. FreshIsKept'
    BY <1>2, <2>2, <2>3 DEF FreshIsKept
  <2>5. LocationsAreKnown' /\ BatchIsThere' /\ RemovedHasNoRow'
    BY <1>1, <2>1 DEF LocationsAreKnown, BatchIsThere, RemovedHasNoRow
  <2>6. mediaRaced' \in BOOLEAN
    BY <2>2
  <2>7. ThumbPurgeTypeOK'
    BY <1>1, <2>1, <2>6 DEF ThumbPurgeTypeOK, Expiries
  <2> QED
    BY <2>4, <2>5, <2>7
<1> QED
  BY <1>3, <1>4, <1>5, <1>6, <1>7, <1>8 DEF ThumbPurgeNext, ExpiryStep

(* A thumbnail that has not expired keeps its file (purge_thumbnails.go:88-112). *)
THEOREM FreshThumbnailsAreSafe == ThumbPurgeSpec => [](ThumbPurgeTypeOK /\ FreshThumbnailsKeepTheirFile)
<1>1. ThumbPurgeInv => ThumbPurgeTypeOK /\ FreshThumbnailsKeepTheirFile
  BY DEF ThumbPurgeInv, FreshIsKept, FreshHasItsFile, FreshThumbnailsKeepTheirFile
<1> QED
  BY <1>1, ThumbPurgeInvInit, ThumbPurgeInvStep, PTL DEF ThumbPurgeSpec

-----------------------------------------------------------------------------
(* All of them together. *)

LEMMA DownloadTypes == DownloadInv => DownloadTypeOK
BY DEF DownloadInv

LEMMA RedisTypes == RedisInv => RedisTypeOK
BY DEF RedisInv

LEMMA ThumbnailTypes == ThumbnailInv => ThumbnailTypeOK
BY DEF ThumbnailInv

LEMMA ThumbPurgeTypes == ThumbPurgeInv => ThumbPurgeTypeOK
BY DEF ThumbPurgeInv

(* All parts of module MCServing keep their types together, for every value of   *)
(* its constants.                                                                *)
THEOREM ServingTypesCorrect == Spec => []ServingTypeOK
<1> DEFINE Inv == DownloadInv /\ RedisInv /\ ThumbnailInv /\ ThumbPurgeInv
<1>1. Init => Inv
  BY DownloadInitInv, RedisInvInit, ThumbnailInvInit, ThumbPurgeInvInit DEF Init
<1>2. [Next]_vars => [DownloadNext]_downloadVars
  BY DEF Next, Runs, vars
<1>3. [Next]_vars => [RedisNext]_redisVars
  BY DEF Next, Runs, vars
<1>4. [Next]_vars => [ThumbnailNext]_thumbnailVars
  BY DEF Next, Runs, vars
<1>5. [Next]_vars => [ThumbPurgeNext]_thumbPurgeVars
  BY DEF Next, Runs, vars
<1>6. Inv /\ [Next]_vars => Inv'
  <2>1. DownloadInv /\ [Next]_vars => DownloadInv'
    BY <1>2, DownloadNextInv
  <2>2. RedisInv /\ [Next]_vars => RedisInv'
    BY <1>3, RedisInvStep
  <2>3. ThumbnailInv /\ [Next]_vars => ThumbnailInv'
    BY <1>4, ThumbnailInvStep
  <2>4. ThumbPurgeInv /\ [Next]_vars => ThumbPurgeInv'
    BY <1>5, ThumbPurgeInvStep
  <2> QED
    BY <2>1, <2>2, <2>3, <2>4
<1>7. Inv => ServingTypeOK
  BY DownloadTypes, RedisTypes, ThumbnailTypes, ThumbPurgeTypes DEF ServingTypeOK
<1> QED
  BY <1>1, <1>6, <1>7, PTL DEF Spec
=============================================================================
