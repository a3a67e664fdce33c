---------------------------- MODULE ConfigReload ----------------------------
(***************************************************************************)
(* Live reloads and shutdown of one process: the watcher of the            *)
(* configuration (common/config/watch.go) sends on one unbuffered channel  *)
(* per subsystem, a goroutine per channel (reloads.go) handles the request *)
(* or, when told to stop, closes the channel; the web server               *)
(* (api/webserver.go) is restarted in place, sharing plain variables with  *)
(* the goroutine of the server it replaces; main waits for the web server. *)
(***************************************************************************)
EXTENDS Naturals, Sequences, FiniteSets

CONSTANTS
    Watchers,    \* invocations of onFileChanged that may overlap
    MaxChanges,  \* bound: changes of the file
    Plugins      \* number of plugins in the configuration

ASSUME ReloadAssumption ==
    /\ MaxChanges \in Nat
    /\ Plugins \in Nat

VARIABLES
    closed,      \* reload channels that their goroutine has closed
    handling,    \* goroutines that are at work: the web server's, the database's
    watch,       \* the watchers: position in ReloadOrder, 0 when not called
    changes,     \* changes of the file so far
    stopper,     \* the signal handler and main: position in StopOrder
    main,        \* main: waiting for the web server, stopping, or gone
    server,      \* web servers, each with a goroutine
    srv,         \* the variable srv: a server, 0 is nil
    reload,      \* the variable reload
    waitGroup,   \* web.Wait() has been released
    plugins,     \* plugin processes
    crash,       \* why the process died
    met          \* history: a watcher was at work during the shutdown

webVars == <<server, srv, reload, waitGroup>>
reloadVars == <<closed, handling, watch, changes, stopper, main, webVars, plugins, crash, met>>

ReloadOrder == <<"pool", "errorCache", "matrixCaches", "web", "metrics", "database", "cache", "buckets",
                 "accessToken", "datastores", "plugin", "recurringTasks", "pgo">>
OnlyWhenChanged == {"web", "metrics", "database", "cache", "pgo"}
StopOrder == <<"web", "metrics", "database", "datastores", "accessToken", "recurringTasks", "cache",
               "plugin", "pool", "errorCache", "matrixCaches", "pgo", "buckets">>
ReloadChans == {ReloadOrder[i] : i \in DOMAIN ReloadOrder}

Servers == 1..(MaxChanges + 1)
ServerStates == {"none", "starting", "listening", "closed", "cleared", "ended"}
Crashes == {"", "send on closed channel", "nil server", "connections left"}

ReloadTypeOK ==
    /\ closed \subseteq ReloadChans
    /\ handling \in [{"web", "database"} -> {"ready", "stop", "init", "forward"}]
    /\ watch \in [Watchers -> 0..Len(ReloadOrder)]
    /\ changes \in 0..MaxChanges
    /\ stopper \in [{"signal", "main"} -> 0..(Len(StopOrder) + 2)]
    /\ main \in {"waiting", "stopping", "gone"}
    /\ server \in [Servers -> ServerStates]
    /\ srv \in Servers \cup {0}
    /\ {reload, waitGroup, met} \subseteq BOOLEAN
    /\ plugins \in 0..(Plugins * (MaxChanges + 1))
    /\ crash \in Crashes

(* RunStartupSequence, Watch, setupReloads and api.Init have returned. *)
ReloadInit ==
    /\ closed = {}
    /\ handling = [c \in {"web", "database"} |-> "ready"]
    /\ watch = [w \in Watchers |-> 0]
    /\ changes = 0
    /\ stopper = [p \in {"signal", "main"} |-> 0]
    /\ main = "waiting"
    /\ server = [s \in Servers |-> IF s = 1 THEN "starting" ELSE "none"]
    /\ srv = 1
    /\ reload = FALSE
    /\ waitGroup = FALSE
    /\ plugins = Plugins
    /\ crash = ""
    /\ met = FALSE

Running == crash = "" /\ main # "gone"
Stopping == \E p \in {"signal", "main"} : stopper[p] > 0
Panic(why) == crash' = why /\ UNCHANGED <<closed, handling, watch, changes, stopper, main, webVars, plugins, met>>

(* The goroutine of a channel waits for its next order. *)
Receives(c) == c \notin closed /\ (c \in DOMAIN handling => handling[c] = "ready")

-----------------------------------------------------------------------------
(* onFileChanged. *)

FileChanges(w) ==
    /\ Running
    /\ watch[w] = 0 /\ changes < MaxChanges
    /\ watch' = [watch EXCEPT ![w] = 1]
    /\ changes' = changes + 1
    /\ met' = (met \/ Stopping)
    /\ UNCHANGED <<closed, handling, stopper, main, webVars, plugins, crash>>

(* Mutant: the watcher of one change never ends. *)
NextStopForever(w) == [watch EXCEPT ![w] = @ + 1]

NextStop(w) == [watch EXCEPT ![w] = IF @ = Len(ReloadOrder) THEN 0 ELSE @ + 1]

SkipUnchanged(w) ==
    /\ Running
    /\ watch[w] > 0 /\ ReloadOrder[watch[w]] \in OnlyWhenChanged
    /\ watch' = NextStop(w)
    /\ UNCHANGED <<closed, handling, changes, stopper, main, webVars, plugins, crash, met>>

(* ReloadPlugins starts the plugins again; the ones that run are kept. *)
SendReload(w) ==
    /\ Running
    /\ watch[w] > 0
    /\ LET c == ReloadOrder[watch[w]] IN
           \/ c \in closed /\ Panic("send on closed channel")
           \/ /\ Receives(c)
              /\ watch' = NextStop(w)
              /\ handling' = CASE c = "web" -> [handling EXCEPT ![c] = "stop"]
                               [] c = "database" -> [handling EXCEPT ![c] = "forward"]
                               [] OTHER -> handling
              /\ plugins' = IF c = "plugin" THEN plugins + Plugins ELSE plugins
              /\ UNCHANGED <<closed, changes, stopper, main, webVars, crash, met>>

(* Mutant: the goroutine serves a single reload. *)
ForwardAndQuit ==
    /\ Running
    /\ handling["database"] = "forward"
    /\ Receives("datastores")
    /\ handling' = [handling EXCEPT !["database"] = "init"]
    /\ UNCHANGED <<closed, watch, changes, stopper, main, webVars, plugins, crash, met>>

(* reloadDatabaseOnChan, with the new connection: the datastores are next. *)
ForwardToDatastores ==
    /\ Running
    /\ handling["database"] = "forward"
    /\ \/ "datastores" \in closed /\ Panic("send on closed channel")
       \/ /\ Receives("datastores")
          /\ handling' = [handling EXCEPT !["database"] = "ready"]
          /\ UNCHANGED <<closed, watch, changes, stopper, main, webVars, plugins, crash, met>>

-----------------------------------------------------------------------------
(* The web server. *)

(* srv.Shutdown: the listener is closed at once; connections that last longer  *)
(* than five seconds are an error.                                             *)
ShutdownServer ==
    server' = IF srv # 0 /\ server[srv] \in {"starting", "listening"} THEN [server EXCEPT ![srv] = "closed"]
              ELSE server

(* api.Reload: Stop, *)
ReloadStops ==
    /\ Running
    /\ handling["web"] = "stop"
    /\ \/ srv # 0 /\ Panic("connections left")
       \/ /\ ShutdownServer
          /\ reload' = TRUE
          /\ handling' = [handling EXCEPT !["web"] = "init"]
          /\ UNCHANGED <<closed, watch, changes, stopper, main, srv, waitGroup, plugins, crash, met>>

(* then Init. *)
ReloadInits ==
    /\ Running
    /\ handling["web"] = "init"
    /\ \E s \in Servers :
           /\ server[s] = "none" /\ \A t \in 1..(s - 1) : server[t] # "none"
           /\ server' = [server EXCEPT ![s] = "starting"]
           /\ srv' = s
    /\ reload' = FALSE
    /\ handling' = [handling EXCEPT !["web"] = "ready"]
    /\ UNCHANGED <<closed, watch, changes, stopper, main, waitGroup, plugins, crash, met>>

(* The goroutine of a server. *)
Listen(s) ==
    /\ Running
    /\ server[s] = "starting"
    /\ IF srv = 0 THEN Panic("nil server")
       ELSE /\ server' = [server EXCEPT ![s] = "listening"]
            /\ UNCHANGED <<closed, handling, watch, changes, stopper, main, srv, reload, waitGroup, plugins,
                           crash, met>>

ClearSrv(s) ==
    /\ Running
    /\ server[s] = "closed"
    /\ server' = [server EXCEPT ![s] = "cleared"]
    /\ srv' = 0
    /\ UNCHANGED <<closed, handling, watch, changes, stopper, main, reload, waitGroup, plugins, crash, met>>

NotifyMain(s) ==
    /\ Running
    /\ server[s] = "cleared"
    /\ server' = [server EXCEPT ![s] = "ended"]
    /\ waitGroup' = (waitGroup \/ ~reload)
    /\ UNCHANGED <<closed, handling, watch, changes, stopper, main, srv, reload, plugins, crash, met>>

-----------------------------------------------------------------------------
(* Shutdown. *)

Signal ==
    /\ Running
    /\ stopper["signal"] = 0
    /\ stopper' = [stopper EXCEPT !["signal"] = 1]
    /\ met' = (met \/ \E w \in Watchers : watch[w] > 0)
    /\ UNCHANGED <<closed, handling, watch, changes, main, webVars, plugins, crash>>

(* Mutant: StopPlugins forgets the plugins of earlier reloads. *)
SendStopToLatest(p) ==
    /\ Running
    /\ stopper[p] \in DOMAIN StopOrder
    /\ LET c == StopOrder[stopper[p]] IN
           /\ Receives(c)
           /\ closed' = closed \cup {c}
           /\ stopper' = [stopper EXCEPT ![p] = @ + 1]
           /\ plugins' = IF c = "plugin" THEN plugins - Plugins ELSE plugins
           /\ UNCHANGED <<handling, watch, changes, main, webVars, crash, met>>

(* stopReloads, by the signal handler or by main. *)
SendStop(p) ==
    /\ Running
    /\ stopper[p] \in DOMAIN StopOrder
    /\ LET c == StopOrder[stopper[p]] IN
           \/ c \in closed /\ Panic("send on closed channel")
           \/ /\ Receives(c)
              /\ closed' = closed \cup {c}
              /\ stopper' = [stopper EXCEPT ![p] = @ + 1]
              /\ plugins' = IF c = "plugin" THEN 0 ELSE plugins
              /\ UNCHANGED <<handling, watch, changes, main, webVars, crash, met>>

(* api.Stop, at the end of the signal handler. *)
StopWeb ==
    /\ Running
    /\ stopper["signal"] = Len(StopOrder) + 1
    /\ \/ srv # 0 /\ Panic("connections left")
       \/ /\ ShutdownServer
          /\ stopper' = [stopper EXCEPT !["signal"] = @ + 1]
          /\ UNCHANGED <<closed, handling, watch, changes, main, srv, reload, waitGroup, plugins, crash, met>>

(* web.Wait() returns; selfStop is what the signal handler set. *)
MainContinues ==
    /\ Running
    /\ main = "waiting" /\ waitGroup
    /\ main' = IF stopper["signal"] > 0 THEN "gone" ELSE "stopping"
    /\ stopper' = IF stopper["signal"] > 0 THEN stopper ELSE [stopper EXCEPT !["main"] = 1]
    /\ UNCHANGED <<closed, handling, watch, changes, webVars, plugins, crash, met>>

MainEnds ==
    /\ Running
    /\ main = "stopping" /\ stopper["main"] = Len(StopOrder) + 1
    /\ main' = "gone"
    /\ UNCHANGED <<closed, handling, watch, changes, stopper, webVars, plugins, crash, met>>

ReloadStep ==
    \/ \E w \in Watchers : SkipUnchanged(w) \/ SendReload(w)
    \/ ForwardToDatastores \/ ReloadStops \/ ReloadInits
    \/ \E s \in Servers : Listen(s) \/ ClearSrv(s) \/ NotifyMain(s)
    \/ \E p \in {"signal", "main"} : SendStop(p)
    \/ StopWeb \/ MainContinues \/ MainEnds

ReloadNext == ReloadStep \/ Signal \/ \E w \in Watchers : FileChanges(w)

(* Every goroutine that can go on does. *)
ReloadSpec == ReloadInit /\ [][ReloadNext]_reloadVars /\ WF_reloadVars(ReloadStep)

-----------------------------------------------------------------------------
(* Properties. *)

WebWasReloaded == \E s \in Servers \ {1} : server[s] # "none"

(* As long as no reload is under way when the process is told to stop, and    *)
(* the web server was never replaced, nobody sends on a channel that its      *)
(* goroutine has closed: not the watcher, not the database's goroutine on its *)
(* way to the datastores (reloads.go:104), not the second of two stops.       *)
OrderlyShutdownNeverPanics ==
    (~met /\ ~WebWasReloaded) => crash \in {"", "connections left"}

(* The plugin processes of all reloads are stopped before the process ends by *)
(* itself (reloads.go:178, manager.go:32-42), the web server never replaced.  *)
NoPluginIsLeftBehind == (main = "gone" /\ ~WebWasReloaded) => plugins = 0

(* A process that is told to stop does so in order: no panic, and no plugin left  *)
(* (the two invariants above).                                                    *)
ShutdownIsOrderly == OrderlyShutdownNeverPanics /\ NoPluginIsLeftBehind

(* CHANGELOG.md:222: "Fixed shutdown stall if the config was reloaded more    *)
(* than once while running."  Holds unless the web server was replaced.       *)
ShutdownEnds == []<>(stopper["signal"] > 0 => (main = "gone" \/ crash # "" \/ WebWasReloaded))
=============================================================================
