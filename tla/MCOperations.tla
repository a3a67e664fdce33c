---------------------------- MODULE MCOperations ----------------------------
(***************************************************************************)
(* Small instances, for TLC, of what operators do with a running           *)
(* repository: background tasks, imports, exports, the calls of the admin  *)
(* API, and reloads of the configuration up to the end of the process.     *)
(* These parts share no state, so a behaviour is one of one part: the      *)
(* product of independent parts would show nothing more.                   *)
(***************************************************************************)
EXTENDS TaskExecution, ImportEngine, ExportArchive, AdminApi, ConfigReload

(* An archive whose manifest comes last, and an entity with two media. *)
MCHolds == [p1 |-> {"m1"}, p2 |-> {"m2", "m3"}, p3 |-> {}]
MCForeignSets == {{}, {"m3"}}
MCBytes == [a |-> 1, b |-> 2]

(* Media of two homeservers, one of them ours; m1 and m3 have the same content. *)
Item(o, u, h) == [origin |-> o, user |-> u, hash |-> h]
MCAbout == [m1 |-> Item("h1", "u1", "x"), m2 |-> Item("h1", "a1", "y"), m3 |-> Item("h2", "u2", "x")]
MCDomain == [root |-> "h1", a1 |-> "h1", u1 |-> "h1", u2 |-> "h2"]

CallOf(who, op, of, target) ==
    [who |-> who, host |-> "h1", op |-> op, of |-> of, target |-> target, dated |-> TRUE]

MCCalls ==
    {CallOf("root", "purge", of, "") : of \in {"remote", "old", "all old"}}
    \cup {CallOf("a1", "purge", of, "") : of \in {"quarantined", "room"}}
    \cup {CallOf("a1", "purge", "user", u) : u \in {"u1", "u2"}}
    \cup {CallOf("a1", "purge", "server", "h1"), CallOf("a1", "purge", "one", "m3")}
    \cup {CallOf("u1", "purge", "one", m) : m \in {"m1", "m2"}}
    \cup {CallOf("root", "quarantine", "one", "m3"), CallOf("a1", "quarantine", "one", "m1"),
          CallOf("a1", "quarantine", "room", ""), CallOf("a1", "quarantine", "server", "h2"),
          CallOf("a1", "quarantine", "user", "u1")}
    \cup {CallOf("u1", "export", "user", u) : u \in {"u1", "a1"}}
    \cup {CallOf("a1", "export", "server", "h1")}
    \cup {CallOf("a1", "pin", "one", m) : m \in {"m1", "m3"}}
    \cup {CallOf("a1", "unpin", "one", "m1")}

VARIABLE part   \* the part that runs

vars == <<part, taskVars, importVars, exportVars, adminVars, reloadVars>>

Init ==
    /\ part \in {"tasks", "import", "export", "admin", "reload"}
    /\ TaskInit /\ ImportInit /\ ExportInit /\ AdminInit /\ ReloadInit
    /\ part # "import" => foreign = {}
    /\ part # "admin" => stored = Items /\ admins = {}

Runs(p) == part = p /\ UNCHANGED part

Next ==
    \/ Runs("tasks") /\ TaskNext /\ UNCHANGED <<importVars, exportVars, adminVars, reloadVars>>
    \/ Runs("import") /\ ImportNext /\ UNCHANGED <<taskVars, exportVars, adminVars, reloadVars>>
    \/ Runs("export") /\ ExportNext /\ UNCHANGED <<taskVars, importVars, adminVars, reloadVars>>
    \/ Runs("admin") /\ AdminNext /\ UNCHANGED <<taskVars, importVars, exportVars, reloadVars>>
    \/ Runs("reload") /\ ReloadNext /\ UNCHANGED <<taskVars, importVars, exportVars, adminVars>>

(* The fairness of the modules, of the part that runs. *)
Fairness ==
    /\ WF_taskVars(part = "tasks" /\ StartUp)
    /\ WF_taskVars(part = "tasks" /\ ScheduleUnfinished)
    /\ \A t \in Tasks : WF_taskVars(part = "tasks" /\ TaskStep(t))
    /\ WF_importVars(part = "import" /\ WorkerStep)
    /\ WF_importVars(part = "import" /\ CloseStep)
    /\ WF_exportVars(part = "export" /\ ExportStep)
    /\ WF_reloadVars(part = "reload" /\ ReloadStep)

Spec == Init /\ [][Next]_vars /\ Fairness

-----------------------------------------------------------------------------
(* The variables of all parts have their types. *)
OperationsTypeOK == TaskTypeOK /\ ImportTypeOK /\ ExportTypeOK /\ AdminTypeOK /\ ReloadTypeOK

(* What an operator begins comes to an end: a recorded task, the worker of an    *)
(* import, an export and the process itself, through crashes, lost messages and  *)
(* reloads.                                                                      *)
OperationsEnd == EveryTaskEnds /\ NoWorkerIsLeft /\ ExportEnds /\ ShutdownEnds
=============================================================================
