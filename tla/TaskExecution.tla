---------------------------- MODULE TaskExecution ----------------------------
(***************************************************************************)
(* Background tasks (tasks/schedule.go, tasks/exec.go, notifier/tasks.go): *)
(* any machine may record a task in the tasks table, only machine 0 runs   *)
(* it.  Machine 0 hears of a task from its own request, from a Redis       *)
(* message, or when it reads the unfinished tasks, which it does at        *)
(* start-up and again at every reload of the configuration.                *)
(***************************************************************************)
EXTENDS Naturals, FiniteSets, FiniteSetsExt

CONSTANTS
    Tasks,           \* tasks that will be asked for
    Exports,         \* those of them that are exports; the others are migrations
    Remote,          \* those that are asked for on another machine than 0
    NumWorkers,      \* workers of pool.TaskQueue
    MaxTaskReloads,  \* bound: reloads of the configuration
    MaxCrashes       \* bound: crashes of machine 0

ASSUME TaskAssumption ==
    /\ Exports \subseteq Tasks
    /\ Remote \subseteq Tasks
    /\ NumWorkers \in Nat \ {0}
    /\ MaxTaskReloads \in Nat
    /\ MaxCrashes \in Nat

VARIABLES
    rows,     \* the tasks table: the state of each row
    failed,   \* tasks whose row has an error message
    claimed,  \* exports table: export tasks that have begun
    old,      \* tasks recorded more than an hour ago
    request,  \* the requests that record the tasks
    notice,   \* tasks whose ID is on its way to machine 0
    retry,    \* tasks whose lookup is tried again in 30 seconds
    queue,    \* copies of a task that beginTask has submitted to the pool
    running,  \* copies of a task that a worker runs
    machine,  \* machine 0: down, subscribed, or through with StartAll
    reloads,
    crashes,
    lostTasks \* history: tasks whose publish, or both lookups after it, failed since the
              \* unfinished tasks were listed

taskVars == <<rows, failed, claimed, old, request, notice, retry, queue, running, machine,
              reloads, crashes, lostTasks>>

MaxCopies == MaxTaskReloads + 2

TaskTypeOK ==
    /\ rows \in [Tasks -> {"none", "unfinished", "ended"}]
    /\ failed \subseteq Tasks
    /\ claimed \subseteq Exports
    /\ old \subseteq Tasks
    /\ request \in [Tasks -> {"none", "inserted", "answered"}]
    /\ notice \subseteq Tasks
    /\ retry \subseteq Tasks
    /\ queue \in [Tasks -> 0..MaxCopies]
    /\ running \in [Tasks -> 0..MaxCopies]
    /\ machine \in {"down", "subscribed", "started"}
    /\ reloads \in 0..MaxTaskReloads
    /\ crashes \in 0..MaxCrashes
    /\ lostTasks \subseteq Tasks

TaskInit ==
    /\ rows = [t \in Tasks |-> "none"]
    /\ failed = {}
    /\ claimed = {}
    /\ old = {}
    /\ request = [t \in Tasks |-> "none"]
    /\ notice = {}
    /\ retry = {}
    /\ queue = [t \in Tasks |-> 0]
    /\ running = [t \in Tasks |-> 0]
    /\ machine = "down"
    /\ reloads = 0
    /\ crashes = 0
    /\ lostTasks = {}

Unfinished == {t \in Tasks : rows[t] = "unfinished"}

(* beginTask for the tasks in S, which had no end_ts when they were read: old  *)
(* ones are skipped, the others go to the pool, which takes any number.        *)
BeginTasks(S) == queue' = [t \in Tasks |-> IF t \in S \ old THEN queue[t] + 1 ELSE queue[t]]

-----------------------------------------------------------------------------
(* scheduleTask. *)

InsertTask(t) ==
    /\ request[t] = "none"
    /\ t \in Remote \/ machine = "started"
    /\ rows' = [rows EXCEPT ![t] = "unfinished"]
    /\ request' = [request EXCEPT ![t] = "inserted"]
    /\ UNCHANGED <<failed, claimed, old, notice, retry, queue, running, machine, reloads, crashes, lostTasks>>

(* Mutant: machine 0 tells itself through Redis as well. *)
BeginAndPublish(t) ==
    /\ request[t] = "inserted"
    /\ t \notin Remote
    /\ BeginTasks({t})
    /\ request' = [request EXCEPT ![t] = "answered"]
    /\ notice' = notice \cup {t}
    /\ UNCHANGED <<rows, failed, claimed, old, retry, running, machine, reloads, crashes, lostTasks>>

(* "we'll run the task on this machine too" *)
BeginOwnTask(t) ==
    /\ request[t] = "inserted"
    /\ t \notin Remote
    /\ BeginTasks({t})
    /\ request' = [request EXCEPT ![t] = "answered"]
    /\ UNCHANGED <<rows, failed, claimed, old, notice, retry, running, machine, reloads, crashes, lostTasks>>

(* executeEnable comes first in StartAll. *)
Listens == machine # "down"

TaskScheduled(t) ==
    /\ request[t] = "inserted"
    /\ t \in Remote
    /\ \/ notice' = (IF Listens THEN notice \cup {t} ELSE notice) /\ UNCHANGED lostTasks
       \/ lostTasks' = lostTasks \cup {t} /\ UNCHANGED notice
    /\ request' = [request EXCEPT ![t] = "answered"]
    /\ UNCHANGED <<rows, failed, claimed, old, retry, queue, running, machine, reloads, crashes>>

-----------------------------------------------------------------------------
(* Machine 0. *)

StartUp ==
    /\ machine = "down"
    /\ machine' = "subscribed"
    /\ UNCHANGED <<rows, failed, claimed, old, request, notice, retry, queue, running, reloads, crashes, lostTasks>>

ScheduleUnfinished ==
    /\ machine = "subscribed"
    /\ machine' = "started"
    /\ BeginTasks(Unfinished)
    /\ lostTasks' = {}
    /\ UNCHANGED <<rows, failed, claimed, old, request, notice, retry, running, reloads, crashes>>

(* StopAll and StartAll: the subscription is kept. *)
ReloadTasks ==
    /\ machine = "started"
    /\ reloads < MaxTaskReloads
    /\ reloads' = reloads + 1
    /\ BeginTasks(Unfinished)
    /\ lostTasks' = {}
    /\ UNCHANGED <<rows, failed, claimed, old, request, notice, retry, running, machine, crashes>>

(* tryBeginTask: the lookup may fail once, and a second time for good. *)
TryBeginTask(t) ==
    /\ machine # "down"
    /\ t \in notice
    /\ notice' = notice \ {t}
    /\ \/ BeginTasks({t} \cap Unfinished) /\ UNCHANGED retry
       \/ retry' = retry \cup {t} /\ UNCHANGED queue
    /\ UNCHANGED <<rows, failed, claimed, old, request, running, machine, reloads, crashes, lostTasks>>

RetryBeginTask(t) ==
    /\ t \in retry
    /\ retry' = retry \ {t}
    /\ \/ BeginTasks({t} \cap Unfinished) /\ UNCHANGED lostTasks
       \/ lostTasks' = lostTasks \cup {t} /\ UNCHANGED queue
    /\ UNCHANGED <<rows, failed, claimed, old, request, notice, running, machine, reloads, crashes>>

Busy == MapThenSumSet(LAMBDA t : running[t], Tasks)

(* markError, if something went wrong, and markDone.  A failure of markDone    *)
(* leaves the row as a crash just before it does.                              *)
End(t, f) ==
    /\ failed' = IF f THEN failed \cup {t} ELSE failed
    /\ rows' = [rows EXCEPT ![t] = "ended"]

(* A worker picks up a copy.  An export that finds its ID in use ends at once. *)
RunTask(t) ==
    /\ queue[t] > 0
    /\ Busy < NumWorkers
    /\ queue' = [queue EXCEPT ![t] = @ - 1]
    /\ IF t \in claimed THEN End(t, TRUE) /\ UNCHANGED running
       ELSE /\ running' = [running EXCEPT ![t] = @ + 1]
            /\ UNCHANGED <<rows, failed>>
    /\ claimed' = claimed \cup ({t} \cap Exports)
    /\ UNCHANGED <<old, request, notice, retry, machine, reloads, crashes, lostTasks>>

EndTask(t) ==
    /\ running[t] > 0
    /\ running' = [running EXCEPT ![t] = @ - 1]
    /\ \E f \in BOOLEAN : End(t, f)
    /\ UNCHANGED <<claimed, old, request, notice, retry, queue, machine, reloads, crashes, lostTasks>>

Crash ==
    /\ machine # "down"
    /\ crashes < MaxCrashes
    /\ crashes' = crashes + 1
    /\ machine' = "down"
    /\ notice' = {}
    /\ retry' = {}
    /\ queue' = [t \in Tasks |-> 0]
    /\ running' = [t \in Tasks |-> 0]
    /\ request' = [t \in Tasks |-> IF t \in Remote \/ request[t] = "none" THEN request[t] ELSE "answered"]
    /\ UNCHANGED <<rows, failed, claimed, old, reloads, lostTasks>>

GrowOld(t) ==
    /\ rows[t] # "none"
    /\ t \notin old
    /\ old' = old \cup {t}
    /\ UNCHANGED <<rows, failed, claimed, request, notice, retry, queue, running, machine, reloads, crashes, lostTasks>>

TaskStep(t) ==
    \/ BeginOwnTask(t) \/ TaskScheduled(t) \/ TryBeginTask(t) \/ RetryBeginTask(t)
    \/ RunTask(t) \/ EndTask(t)

TaskNext ==
    \/ StartUp \/ ScheduleUnfinished \/ ReloadTasks \/ Crash
    \/ \E t \in Tasks : InsertTask(t) \/ TaskStep(t) \/ GrowOld(t)

(* Machine 0 is started again after a crash; requests, goroutines and workers  *)
(* run on, and a task ends (each is a bounded amount of work).                 *)
TaskFairness ==
    /\ WF_taskVars(StartUp)
    /\ WF_taskVars(ScheduleUnfinished)
    /\ \A t \in Tasks : WF_taskVars(TaskStep(t))

TaskSpec == TaskInit /\ [][TaskNext]_taskVars /\ TaskFairness

-----------------------------------------------------------------------------
(* Properties. *)

(* A task of machine 0 itself is never in the hands of two workers, nor run   *)
(* again after its end, until the configuration is reloaded for the first     *)
(* time: whenever machine 0 dies, it picks up what it left unfinished and     *)
(* nothing else.                                                              *)
OneRunPerTask ==
    \A t \in Tasks \ Remote : reloads = 0 =>
        /\ queue[t] + running[t] <= 1
        /\ rows[t] = "ended" => queue[t] + running[t] = 0

(* Every recorded task comes to an end, or has become too old, or Redis or    *)
(* the database have failed it since machine 0 last started: machine 0        *)
(* subscribes before it reads the unfinished tasks (all.go:8-15), so none     *)
(* falls between the two, and a start recovers what was lost before it        *)
(* (schedule.go:114-129): the table is the only queue that counts.            *)
EveryTaskEnds ==
    \A t \in Tasks :
        []<>(rows[t] = "unfinished" => t \in old \/ (t \in lostTasks /\ queue[t] + running[t] = 0))

(* docs/admin.md:346: "If `error_message` is present and not an empty string   *)
(* on the returned task, the task failed part way through".  A reload starts   *)
(* a second copy of a running export, which fails on the export ID in use and  *)
(* marks the task as failed and ended, while the first copy goes on.           *)
FailedTaskIsOver ==
    \A t \in Tasks : t \in failed => running[t] = 0
=============================================================================
