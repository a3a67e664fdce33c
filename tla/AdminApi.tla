------------------------------ MODULE AdminApi ------------------------------
(***************************************************************************)
(* The calls that purge, quarantine, pin and export other people's media   *)
(* (api/custom/purge.go, quarantine.go, media_attributes.go, exports.go)   *)
(* and who may make them.  A call learns how much its user may do, lists   *)
(* the records, and acts on them; media, purposes and administrators of    *)
(* the homeservers change in between.                                      *)
(***************************************************************************)
EXTENDS Naturals, FiniteSets

CONSTANTS
    Slots,             \* concurrent calls
    Items,             \* media
    About,             \* media -> [origin, user, hash]
    Domain,            \* user -> homeserver
    OurHosts,          \* configured homeservers
    RepoAdmins,        \* user.IsRepoAdmin()
    Room,              \* media the homeserver lists for the room
    Calls,             \* calls that are made: [who, host, op, of, target, dated]
    AllowLocalAdmins,  \* quarantine.allowLocalAdmins
    SelfService        \* archiving.selfService

ASSUME AdminAssumption ==
    /\ About \in [Items -> [origin : STRING, user : STRING, hash : STRING]]
    /\ Room \subseteq Items
    /\ AllowLocalAdmins \in BOOLEAN /\ SelfService \in BOOLEAN
    /\ \A c \in Calls : /\ c.op \in {"purge", "quarantine", "export", "pin", "unpin"}
                        /\ c.of \in {"remote", "old", "all old", "quarantined", "room", "user", "server", "one"}
                        /\ c.op = "export" => c.of \in {"user", "server"}
                        /\ c.op \in {"pin", "unpin"} => c.of = "one"
                        /\ c.of = "one" => c.target \in Items

VARIABLES
    stored,       \* media with a row
    fresh,        \* those that are not older than before_ts
    hidden,       \* quarantined
    pinned,       \* purpose "pinned"
    admins,       \* <<user, homeserver>>: what IsUserAdmin answers
    call          \* slot -> the call it handles

adminVars == <<stored, fresh, hidden, pinned, admins, call>>

(* seen: history, the administrators when the call was allowed *)
Idle == [pc |-> "idle", level |-> "none", records |-> {}, done |-> {}, seen |-> {}]

AdminTypeOK ==
    /\ fresh \subseteq stored /\ hidden \subseteq stored /\ stored \subseteq Items
    /\ pinned \subseteq Items
    /\ \A s \in Slots :
          /\ call[s].pc \in {"idle", "asked", "allowed", "listed", "done", "refused"}
          /\ call[s].level \in {"none", "user", "local", "repo"}
          /\ call[s].records \subseteq Items /\ call[s].done \subseteq Items

AdminInit ==
    /\ stored \in {Items, Items \ Room}
    /\ fresh = {} /\ hidden = {} /\ pinned = {}
    /\ admins \in SUBSET {<<c.who, c.host>> : c \in {d \in Calls : d.who \notin RepoAdmins}}
    /\ call = [s \in Slots |-> Idle]

Asked(c) == [pc |-> "asked", req |-> c, level |-> "none", records |-> {}, done |-> {}, seen |-> {}]

Ask(s, c) ==
    /\ call[s].pc = "idle"
    /\ call' = [call EXCEPT ![s] = Asked(c)]
    /\ UNCHANGED <<stored, fresh, hidden, pinned, admins>>

-----------------------------------------------------------------------------
(* IsUserAdmin: the homeserver lets its administrators call whois. *)
IsUserAdmin(u, h) == <<u, h>> \in admins

(* getPurgeAuthContext, getQuarantineRequestInfo, ExportServerData and                *)
(* canChangeAttributes: the latter two ask the homeserver they are about.             *)
Level(c) ==
    LET h == IF c.op \in {"pin", "unpin"} THEN About[c.target].origin
             ELSE IF c.op = "export" /\ c.of = "server" THEN c.target
             ELSE c.host
    IN  IF c.who \in RepoAdmins THEN "repo"
        ELSE IF h \in OurHosts /\ IsUserAdmin(c.who, h) THEN "local" ELSE "user"

(* The conditions under which a call returns AuthFailed or BadRequest. *)
PurgeAllowed(c, level) ==
    CASE c.of \in {"remote", "old", "all old"} -> level = "repo"       \* RequireRepoAdmin
      [] c.of \in {"quarantined", "room"}      -> level # "user"
      [] c.of = "user"   -> level = "repo" \/ (level = "local" /\ Domain[c.target] = c.host)
      [] c.of = "server" -> level = "repo" \/ (level = "local" /\ c.target = c.host)
      [] c.of = "one"    -> TRUE

QuarantineAllowed(c, level) ==
    \/ level = "repo"
    \/ /\ AllowLocalAdmins /\ level = "local"
       /\ CASE c.of = "room"   -> TRUE
            [] c.of = "user"   -> Domain[c.target] = c.host
            [] c.of = "server" -> c.target = c.host
            [] c.of = "one"    -> About[c.target].origin = c.host

ExportAllowed(c, level) ==
    \/ level = "repo"
    \/ SelfService /\ (IF c.of = "user" THEN c.target = c.who ELSE level = "local")

Allowed(c, level) ==
    CASE c.op = "purge"            -> PurgeAllowed(c, level)
      [] c.op = "quarantine"       -> QuarantineAllowed(c, level)
      [] c.op = "export"           -> ExportAllowed(c, level)
      [] c.op \in {"pin", "unpin"} -> level # "user"

(* The answer of the homeserver, or an error, which counts as a no. *)
Authorize(s) ==
    /\ call[s].pc = "asked"
    /\ \E level \in {Level(call[s].req)} \cup (IF Level(call[s].req) = "local" THEN {"user"} ELSE {}) :
         call' = [call EXCEPT ![s].level = level, ![s].seen = admins,
                              ![s].pc = IF Allowed(call[s].req, level) THEN "allowed" ELSE "refused"]
    /\ UNCHANGED <<stored, fresh, hidden, pinned, admins>>

-----------------------------------------------------------------------------
(* GetOldExcluding: nothing that shares its content with newer or with excluded media. *)
OldExcluding(hosts, dated) ==
    LET kept == {m \in stored : (dated /\ m \in fresh) \/ About[m].origin \in hosts}
    IN  {m \in stored : \A k \in kept : About[k].hash # About[m].hash}

Before(c) == {m \in stored : ~c.dated \/ m \notin fresh}

(* The records of a call.  A room is what the homeserver says; before_ts is parsed *)
(* for it, and not used.                                                           *)
RecordsOf(c, level) ==
    LET mine == IF level = "repo" THEN Items ELSE {m \in Items : About[m].origin = c.host}
    IN  CASE c.of = "remote"      -> OldExcluding(OurHosts, c.dated)
          [] c.of = "old"         -> OldExcluding(OurHosts, c.dated)
          [] c.of = "all old"     -> OldExcluding({}, c.dated)
          [] c.of = "quarantined" -> hidden \cap mine
          [] c.of = "room"        -> Room \cap mine
          [] c.of = "user"        -> {m \in (IF c.op = "purge" THEN Before(c) ELSE stored) : About[m].user = c.target}
          [] c.of = "server"      -> {m \in (IF c.op = "purge" THEN Before(c) ELSE stored) : About[m].origin = c.target}
          [] c.of = "one"         -> {c.target}

ListRecords(s) ==
    /\ call[s].pc = "allowed"
    /\ call' = [call EXCEPT ![s].pc = "listed", ![s].records = RecordsOf(call[s].req, call[s].level)]
    /\ UNCHANGED <<stored, fresh, hidden, pinned, admins>>

(* PurgeAuthContext.canAffect, of the context that getPurgeAuthContext makes. *)
CanAffect(c, level, m) ==
    \/ level = "repo" \/ c.of \in {"remote", "old", "all old"}
    \/ level = "local" /\ About[m].origin = c.host
    \/ level = "user" /\ About[m].user = c.who

(* PurgeMedia: every record must pass before any is touched; doPurge skips pinned media, *)
(* and for the remote purge quarantined media (its stages are those of PurgeTask).       *)
Purge(s) ==
    LET c    == call[s].req
        rs   == call[s].records \cap stored
        gone == {m \in rs : m \notin pinned /\ (c.of = "remote" => m \notin hidden)}
    IN  /\ call[s].pc = "listed" /\ c.op = "purge"
        /\ IF \A m \in rs : CanAffect(c, call[s].level, m)
           THEN /\ call' = [call EXCEPT ![s].pc = "done", ![s].done = gone]
                /\ stored' = stored \ gone /\ fresh' = fresh \ gone /\ hidden' = hidden \ gone
           ELSE /\ call' = [call EXCEPT ![s].pc = "refused"]
                /\ UNCHANGED <<stored, fresh, hidden>>
        /\ UNCHANGED <<pinned, admins>>

(* Mutant: pinned media is quarantined as well. *)
CopiesWithPinned(c, level, rs) ==
    {m \in stored : \E r \in rs : /\ About[r].hash = About[m].hash
                                  /\ level = "repo" \/ (About[r].origin = c.host /\ About[m].origin = c.host)}

(* UpdateQuarantineByHash, UpdateQuarantineByHashAndOrigin *)
CopiesOf(c, level, rs) ==
    {m \in stored \ pinned : \E r \in rs : /\ About[r].hash = About[m].hash
                                           /\ level = "repo" \/ (About[r].origin = c.host /\ About[m].origin = c.host)}

(* QuarantineMedia *)
Quarantine(s) ==
    LET c  == call[s].req
        ms == CopiesOf(c, call[s].level, call[s].records)
    IN  /\ call[s].pc = "listed" /\ c.op = "quarantine"
        /\ hidden' = hidden \cup ms
        /\ call' = [call EXCEPT ![s].pc = "done", ![s].done = ms]
        /\ UNCHANGED <<stored, fresh, pinned, admins>>

(* ExportUserData, ExportServerData: the task exports what the entity has. *)
Export(s) ==
    /\ call[s].pc = "listed" /\ call[s].req.op = "export"
    /\ call' = [call EXCEPT ![s].pc = "done", ![s].done = call[s].records \ hidden]
    /\ UNCHANGED <<stored, fresh, hidden, pinned, admins>>

(* SetAttributes: UpsertPurpose, for media that need not exist. *)
SetAttributes(s) ==
    LET c == call[s].req
    IN  /\ call[s].pc = "listed" /\ c.op \in {"pin", "unpin"}
        /\ pinned' = IF c.op = "pin" THEN pinned \cup {c.target} ELSE pinned \ {c.target}
        /\ call' = [call EXCEPT ![s].pc = "done", ![s].done = {c.target}]
        /\ UNCHANGED <<stored, fresh, hidden, admins>>

Answer(s) ==
    /\ call[s].pc \in {"done", "refused"}
    /\ call' = [call EXCEPT ![s] = Idle]
    /\ UNCHANGED <<stored, fresh, hidden, pinned, admins>>

-----------------------------------------------------------------------------
(* An upload, or the download of remote media; content that is quarantined is refused *)
(* (pipeline_upload).                                                                 *)
MediaArrives(m) ==
    /\ m \notin stored
    /\ \A h \in hidden : About[h].hash # About[m].hash
    /\ stored' = stored \cup {m} /\ fresh' = fresh \cup {m}
    /\ UNCHANGED <<hidden, pinned, admins, call>>

Demote(a) ==
    /\ a \in admins
    /\ admins' = admins \ {a}
    /\ UNCHANGED <<stored, fresh, hidden, pinned, call>>

AdminNext ==
    \/ \E s \in Slots : \/ \E c \in Calls : Ask(s, c)
                        \/ Authorize(s) \/ ListRecords(s)
                        \/ Purge(s) \/ Quarantine(s) \/ Export(s) \/ SetAttributes(s)
                        \/ Answer(s)
    \/ \E m \in Items : MediaArrives(m)
    \/ \E a \in admins : Demote(a)

AdminSpec == AdminInit /\ [][AdminNext]_adminVars

-----------------------------------------------------------------------------
(* Properties. *)

(* Nobody acts on media that is not theirs, unless they were an administrator of  *)
(* the repository, or of the homeserver the media is of, when they were asked     *)
(* about: whatever a room, a user or a content has elsewhere (purge.go:356-365,   *)
(* quarantine.go:156-199, exports.go:45-105).                                     *)
AuthorityIsRespected ==
    \A s \in Slots : \A m \in call[s].done :
        LET who == call[s].req.who
        IN  \/ who \in RepoAdmins
            \/ <<who, About[m].origin>> \in call[s].seen
            \/ About[m].user = who

(* A call stays within the rights of who makes it (AuthorityIsRespected) and      *)
(* within what may be removed at all: pinned media is neither purged nor          *)
(* quarantined, with its own id or through a copy of its content (purge.go:67,    *)
(* metadata view).                                                                *)
CallsStayInBounds ==
    /\ []AuthorityIsRespected
    /\ [][\A m \in pinned \cap stored :
              m \in stored' /\ (m \in hidden' => m \in hidden)]_adminVars
=============================================================================
