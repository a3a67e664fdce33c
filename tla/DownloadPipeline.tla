-------------------------- MODULE DownloadPipeline --------------------------
(***************************************************************************)
(* Requests for one media on one process (pipelines/pipeline_download and  *)
(* the steps it calls).  Requests with the same options share the lookup   *)
(* of the record (recordSf, a singleflight group with a cache in front)    *)
(* and the opening of the stream (streamSf), while the media is uploaded,  *)
(* restricted, quarantined or purged.  Waiting for an asynchronous upload  *)
(* is the module UploadNotifier, copying a remote stream is RemoteCopy.    *)
(***************************************************************************)
EXTENDS Integers, FiniteSets

CONSTANTS
    Requests,
    Anonymous,         \* requests without authentication
    HostOf,            \* names under which the requests reach this repository
    Options,           \* DownloadOpts, without AuthProvided
    Nobody,
    MaxSize,           \* downloads.maxBytes; 0 is no limit
    FileSize,          \* size of the media
    ReplaceDownloads   \* quarantine.replaceDownloads

ASSUME DownloadAssumption ==
    /\ Options # {} /\ Options \subseteq [fetch : BOOLEAN, head : BOOLEAN]
    /\ Anonymous \subseteq Requests
    /\ Nobody \notin Requests
    /\ DOMAIN HostOf = Requests
    /\ \A r \in Requests : HostOf[r] \notin {"", "content", "record", "image", "error", "quarantined",
                                            "restricted", "cancelled"}
    /\ {MaxSize, FileSize} \subseteq Nat
    /\ MaxSize > 0 => FileSize <= MaxSize
    /\ ReplaceDownloads \in BOOLEAN

VARIABLES
    ours,          \* is the origin one of the repository's own servers?
    row,           \* the media's row
    restricted,    \* restricted_media has the row
    errorCached,   \* errcache.DownloadErrors
    recordCache,   \* recordSf: its cache
    recordFlight,  \* recordSf: who runs the lookup
    streamFlight,  \* streamSf: who opens the stream
    get            \* the requests

dbVars == <<ours, row, restricted>>
flightVars == <<recordFlight, streamFlight>>
downloadVars == <<dbVars, errorCached, recordCache, flightVars, get>>

NoRow == "none"
RowStates == {NoRow, "clean", "quarantined"}
Hosts == {HostOf[r] : r \in Requests}
(* One error stands for those that every caller passes on: not found, not yet   *)
(* uploaded, too large, rate limited, failures of the database or a datastore.  *)
GetErrors == {"error", "quarantined", "restricted", "cancelled"} \cup Hosts
GetOutcomes == {"", "content", "record", "image"} \cup GetErrors

GetPcs == {"idle", "lookup", "join", "joined", "fetch", "fetched", "store", "stream",
           "streamJoined", "open", "insert", "overwrite", "opened", "settle", "done"}

GetState == [pc : GetPcs, opt : Options, rec : RowStates, again : BOOLEAN, early : BOOLEAN, led : BOOLEAN,
             paid : {0, FileSize, MaxSize}, out : GetOutcomes]

IdleGet == [pc |-> "idle", opt |-> CHOOSE o \in Options : TRUE,
            rec |-> NoRow, again |-> FALSE, early |-> FALSE,
            led |-> FALSE, paid |-> 0, out |-> ""]

DownloadTypeOK ==
    /\ {ours, restricted} \subseteq BOOLEAN
    /\ row \in RowStates
    /\ errorCached \in {"", "error"} \cup Hosts
    /\ recordCache \in [Options -> RowStates]
    /\ recordFlight \in [Options -> Requests \cup {Nobody}]
    /\ streamFlight \in [Options -> Requests \cup {Nobody}]
    /\ get \in [Requests -> GetState]

DownloadInit ==
    /\ ours \in BOOLEAN
    /\ row = NoRow
    /\ restricted = FALSE
    /\ errorCached = ""
    /\ recordCache = [o \in Options |-> NoRow]
    /\ recordFlight = [o \in Options |-> Nobody]
    /\ streamFlight = [o \in Options |-> Nobody]
    /\ get = [r \in Requests |-> IdleGet]

ActiveGets == {r \in Requests : get[r].pc # "idle"}
GetAt(r, pc) == get[r].pc = pc
OptOf(r) == get[r].opt

GetGoes(r, pc) == get' = [get EXCEPT ![r].pc = pc]

(* The request ends without a result; what it knew is of no use any more. *)
FailedGet(g, err) == [g EXCEPT !.pc = "done", !.out = err, !.rec = NoRow, !.again = FALSE, !.led = FALSE,
                            !.paid = 0]
GetFails(r, err) == get' = [get EXCEPT ![r] = FailedGet(@, err)]

-----------------------------------------------------------------------------
(* The database, as other requests and tasks change it. *)

UploadMedia ==
    /\ ours /\ row = NoRow
    /\ row' = "clean"
    /\ UNCHANGED <<ours, restricted, errorCached, recordCache, flightVars, get>>

RestrictMedia ==
    /\ row # NoRow /\ ~restricted
    /\ restricted' = TRUE
    /\ UNCHANGED <<ours, row, errorCached, recordCache, flightVars, get>>

(* A record someone holds may be out of date from here on. *)
RowChanges(state) ==
    /\ row = "clean"
    /\ row' = state
    /\ get' = [r \in Requests |-> IF r \in ActiveGets THEN [get[r] EXCEPT !.early = TRUE] ELSE get[r]]
    /\ UNCHANGED <<ours, restricted, errorCached, recordCache, flightVars>>

QuarantineRow == RowChanges("quarantined")
PurgeRow == RowChanges(NoRow)

-----------------------------------------------------------------------------
(* Execute, up to the record. *)

(* Mutant: restrictions are looked up with the record, not when it is cached. *)
StartDownloadFromCache(r, o) ==
    /\ GetAt(r, "idle")
    /\ LET refused == restricted /\ r \in Anonymous /\ recordCache[o] = NoRow IN
           get' = [get EXCEPT ![r] = [IdleGet EXCEPT !.pc = IF refused THEN "done" ELSE "lookup",
                                                     !.out = IF refused THEN "restricted" ELSE "",
                                                     !.opt = o]]
    /\ UNCHANGED <<dbVars, errorCached, recordCache, flightVars>>

(* Step 0. *)
StartDownload(r, o) ==
    /\ GetAt(r, "idle")
    /\ LET refused == restricted /\ r \in Anonymous IN
           get' = [get EXCEPT ![r] = [IdleGet EXCEPT !.pc = IF refused THEN "done" ELSE "lookup",
                                                     !.out = IF refused THEN "restricted" ELSE "",
                                                     !.opt = o]]
    /\ UNCHANGED <<dbVars, errorCached, recordCache, flightVars>>

AfterRecord(r) == IF get[r].again THEN "settle" ELSE "stream"

(* sfcache.Do: the cache, *)
LoadCached(r) ==
    /\ GetAt(r, "lookup")
    /\ LET cached == recordCache[OptOf(r)] IN
           get' = [get EXCEPT ![r].pc = IF cached # NoRow THEN AfterRecord(r) ELSE "join", ![r].rec = cached]
    /\ UNCHANGED <<dbVars, errorCached, recordCache, flightVars>>

(* then the flight.  Who joins one that began before a change knows no more    *)
(* than those who were there at the time.                                      *)
JoinRecordFlight(r) ==
    /\ GetAt(r, "join")
    /\ LET leader == recordFlight[OptOf(r)] IN
           IF leader = Nobody
           THEN GetGoes(r, "fetch") /\ recordFlight' = [recordFlight EXCEPT ![OptOf(r)] = r]
           ELSE /\ get' = [get EXCEPT ![r].pc = "joined", ![r].early = @ \/ get[leader].early]
                /\ UNCHANGED recordFlight
    /\ UNCHANGED <<dbVars, errorCached, recordCache, streamFlight>>

(* fetchRecordFn.  Waiting for asynchronous media can fail. *)
FetchRecord(r) ==
    /\ GetAt(r, "fetch")
    /\ \/ get' = [get EXCEPT ![r].pc = "fetched", ![r].rec = row]
       \/ row = NoRow /\ ours /\ get' = [get EXCEPT ![r].pc = "fetched", ![r].rec = row, ![r].out = "error"]
    /\ UNCHANGED <<dbVars, errorCached, recordCache, flightVars>>

(* The flight ends for its leader and for all who joined it. *)
RecordFlightEnds(r) ==
    /\ GetAt(r, "fetched")
    /\ recordFlight' = [recordFlight EXCEPT ![OptOf(r)] = Nobody]
    /\ get' = [q \in Requests |->
                  IF q = r \/ (GetAt(q, "joined") /\ OptOf(q) = OptOf(r))
                  THEN IF get[r].out = "error" THEN FailedGet(get[q], "error")
                       ELSE [get[q] EXCEPT !.pc = "store", !.rec = get[r].rec]
                  ELSE get[q]]
    /\ UNCHANGED <<dbVars, errorCached, recordCache, streamFlight>>

StoreRecord(r) ==
    /\ GetAt(r, "store")
    /\ recordCache' = [recordCache EXCEPT ![OptOf(r)] = IF get[r].rec = NoRow THEN @ ELSE get[r].rec]
    /\ GetGoes(r, AfterRecord(r))
    /\ UNCHANGED <<dbVars, errorCached, flightVars>>

-----------------------------------------------------------------------------
(* The rate limit. *)

(* What a request costs before its size is known. *)
Price(r) ==
    CASE get[r].rec = NoRow -> IF OptOf(r).fetch THEN MaxSize ELSE 0
      [] get[r].rec = "clean" /\ ~OptOf(r).head -> FileSize
      [] OTHER -> 0

(* The bucket belongs to the client, whose other requests fill it as well: it   *)
(* can be full at any time.                                                     *)
BucketFull(r, n) == n > 0 /\ GetFails(r, "error")

-----------------------------------------------------------------------------
(* streamSf, once the request is paid for. *)

JoinStreamFlight(r) ==
    /\ GetAt(r, "stream")
    /\ \/ BucketFull(r, Price(r)) /\ UNCHANGED streamFlight
       \/ LET leads == streamFlight[OptOf(r)] = Nobody IN
              /\ streamFlight' = IF leads THEN [streamFlight EXCEPT ![OptOf(r)] = r] ELSE streamFlight
              /\ get' = [get EXCEPT ![r].pc = IF leads THEN "open" ELSE "streamJoined", ![r].led = leads,
                                   ![r].paid = Price(r)]
    /\ UNCHANGED <<dbVars, errorCached, recordCache, recordFlight>>

Opened(r, out) == get' = [get EXCEPT ![r].pc = "opened", ![r].out = out]

(* ReturnAppropriateThing *)
Quarantined(r) == IF ReplaceDownloads /\ ~OptOf(r).head THEN "image" ELSE "quarantined"

(* Step 3.  A file can be missing. *)
OpenMedia(r) ==
    /\ GetAt(r, "open")
    /\ \/ get[r].rec = "quarantined" /\ Opened(r, Quarantined(r))
       \/ get[r].rec = "clean" /\ \E out \in IF OptOf(r).head THEN {"record"} ELSE {"content", "error"} :
                                     Opened(r, out)
       \/ get[r].rec = NoRow /\ (~OptOf(r).fetch \/ ours) /\ Opened(r, "error")
    /\ UNCHANGED <<dbVars, errorCached, recordCache, flightVars>>

(* Step 4, TryDownload: an earlier error, a new one, or the response. *)
FetchRemote(r) ==
    /\ GetAt(r, "open")
    /\ get[r].rec = NoRow /\ OptOf(r).fetch /\ ~ours
    /\ IF errorCached # "" THEN Opened(r, errorCached) /\ UNCHANGED errorCached
       ELSE \/ \E err \in {"error", HostOf[r]} : Opened(r, err) /\ errorCached' = err
            \/ GetGoes(r, "insert") /\ UNCHANGED errorCached
    /\ UNCHANGED <<dbVars, recordCache, flightVars>>

(* The upload pipeline refuses quarantined content, and an ID that is taken. *)
InsertRemote(r) ==
    /\ GetAt(r, "insert")
    /\ \/ row = NoRow /\ row' = "clean" /\ get' = [get EXCEPT ![r].pc = "overwrite", ![r].rec = "clean"]
       \/ UNCHANGED row /\ \E err \in {"error", "quarantined"} : Opened(r, err)
    /\ UNCHANGED <<ours, restricted, errorCached, recordCache, flightVars>>

(* The record of the closure hides the one of the request, which stays nil. *)
OverwriteRecord(r) ==
    /\ GetAt(r, "overwrite")
    /\ recordCache' = [recordCache EXCEPT ![OptOf(r)] = get[r].rec]
    /\ get' = [get EXCEPT ![r].pc = "opened", ![r].rec = NoRow,
                         ![r].out = IF OptOf(r).head THEN "record" ELSE "content"]
    /\ UNCHANGED <<dbVars, errorCached, flightVars>>

(* Execute, with the result of the stream.  The refusal of another host leads  *)
(* back to step 0, with a context that was cancelled on the line before: the    *)
(* first statement fails.                                                       *)
WithStream(g, host, out) ==
    CASE out \in Hosts \ {host} -> FailedGet(g, "cancelled")
      [] out \in GetErrors \ (Hosts \ {host}) -> FailedGet(g, out)
      [] OTHER -> [g EXCEPT !.pc = IF g.rec = NoRow THEN "lookup" ELSE "settle",
                            !.again = (g.rec = NoRow), !.out = out]

StreamFlightEnds(r) ==
    /\ GetAt(r, "opened")
    /\ streamFlight' = [streamFlight EXCEPT ![OptOf(r)] = Nobody]
    /\ get' = [q \in Requests |->
                  IF q = r \/ (GetAt(q, "streamJoined") /\ OptOf(q) = OptOf(r))
                  THEN WithStream(get[q], HostOf[q], get[r].out) ELSE get[q]]
    /\ UNCHANGED <<dbVars, errorCached, recordCache, recordFlight>>

ChargedMaxSize(r) == get[r].again /\ OptOf(r).fetch

(* Mutant: everything is given back. *)
SettleForFree(r) ==
    /\ GetAt(r, "settle")
    /\ IF get[r].rec = NoRow THEN GetFails(r, "error") ELSE get' = [get EXCEPT ![r].pc = "done", ![r].paid = 0]
    /\ UNCHANGED <<dbVars, errorCached, recordCache, flightVars>>

(* Max size minus size is given back; that can be less than nothing. *)
Settle(r) ==
    /\ GetAt(r, "settle")
    /\ \/ get[r].rec = NoRow /\ GetFails(r, "error")
       \/ get[r].rec # NoRow /\ ~ChargedMaxSize(r) /\ GetGoes(r, "done")
       \/ /\ get[r].rec # NoRow /\ ChargedMaxSize(r)
          /\ \/ get' = [get EXCEPT ![r].pc = "done", ![r].paid = @ - (MaxSize - FileSize)]
             \/ BucketFull(r, FileSize - MaxSize)
    /\ UNCHANGED <<dbVars, errorCached, recordCache, flightVars>>

(* The deferred ForgetCacheKey, which comes after step 0. *)
ForgetAndReturn(r) ==
    /\ GetAt(r, "done")
    /\ recordCache' = [recordCache EXCEPT ![OptOf(r)] = IF get[r].out = "restricted" THEN @ ELSE NoRow]
    /\ get' = [get EXCEPT ![r] = IdleGet]
    /\ UNCHANGED <<dbVars, errorCached, flightVars>>

(* failureCacheMinutes *)
ErrorExpires ==
    /\ errorCached # ""
    /\ errorCached' = ""
    /\ UNCHANGED <<dbVars, recordCache, flightVars, get>>

DownloadStep(r) ==
    \/ LoadCached(r) \/ JoinRecordFlight(r) \/ FetchRecord(r) \/ RecordFlightEnds(r) \/ StoreRecord(r)
    \/ JoinStreamFlight(r) \/ OpenMedia(r) \/ FetchRemote(r) \/ InsertRemote(r)
    \/ OverwriteRecord(r) \/ StreamFlightEnds(r) \/ Settle(r) \/ ForgetAndReturn(r)

DownloadNext ==
    \/ \E r \in Requests :
           \/ \E o \in Options : StartDownload(r, o)
           \/ DownloadStep(r)
    \/ UploadMedia \/ RestrictMedia \/ QuarantineRow \/ PurgeRow \/ ErrorExpires

DownloadSpec == DownloadInit /\ [][DownloadNext]_downloadVars /\ \A r \in Requests : WF_downloadVars(DownloadStep(r))

-----------------------------------------------------------------------------
(* Properties. *)

(* A record that is out of date stays in the cache only as long as a request  *)
(* that was there when the row changed, or that joined the lookup of one      *)
(* (pipeline.go:72-73, sfcache.go:21-32): each of them forgets the entry, and *)
(* no later request can put it back.                                          *)
StaleRecordsEndWithTheirReaders ==
    \A o \in Options : (recordCache[o] = "clean" /\ row # "clean") =>
        \E r \in ActiveGets : OptOf(r) = o /\ get[r].early

(* Who opened a file, or fetched it, has paid for exactly its size when the   *)
(* answer is sent (pipeline.go:91-119, 187-198), whatever was charged before. *)
(* Quarantined media is free.                                                 *)
ContentIsPaidFor ==
    \A r \in Requests :
        (GetAt(r, "done") /\ get[r].out = "content" /\ get[r].led /\ get[r].rec = "clean")
            => get[r].paid = FileSize

(* However many requests keep coming and share each other's results, there is *)
(* a time after which quarantined media is not sent any more.                 *)
QuarantineTakesEffect ==
    <>[](row = "quarantined" => \A r \in Requests : get[r].out # "content")

(* The same for restricted media and anonymous requests: AuthProvided is not  *)
(* part of what requests share (pipeline.go:42-60), so the check comes first. *)
RestrictionTakesEffect ==
    <>[](restricted => \A r \in Anonymous : get[r].out # "content")

(* Media that is quarantined or restricted ends being sent to those who may not  *)
(* have it, and out of date records go with the last request that knew them      *)
(* (pipeline.go:42-73, :120-134): the parts above together.                      *)
WithdrawalTakesEffect ==
    /\ []StaleRecordsEndWithTheirReaders
    /\ QuarantineTakesEffect
    /\ RestrictionTakesEffect
=============================================================================
