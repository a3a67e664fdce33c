--------------------------- MODULE RecurringTasks ---------------------------
(***************************************************************************)
(* The hourly tasks of machine 0 (tasks/schedule.go, tasks/all.go): one    *)
(* goroutine per task, stopped through an unbuffered channel kept in       *)
(* recurDoneChs under recurLock.  StartAll runs at start-up, StopAll and   *)
(* StartAll at every reload of the configuration, StopAll at shutdown, one *)
(* after the other: stopReloads waits for the reload goroutine.            *)
(***************************************************************************)
EXTENDS Naturals, FiniteSets

CONSTANTS
    Names,        \* recurring tasks
    MaxReloads,   \* bound: reloads of the configuration
    NoTask

ASSUME RecurringAssumption ==
    /\ MaxReloads \in Nat
    /\ NoTask \notin Names

Generations == 1..(MaxReloads + 1)

VARIABLES
    ctl,           \* the goroutine that calls StartAll and StopAll
    recurDoneChs,  \* the generation whose channel is in the map, 0 for no entry
    loops          \* the goroutine of each task and generation

recurringVars == <<ctl, recurDoneChs, loops>>

CtlPcs == {"start", "replace", "running", "stopping", "quitting", "stopped"}
LoopPcs == {"none", "waiting", "working", "exiting", "ended"}

RecurringTypeOK ==
    /\ ctl \in [pc : CtlPcs, gen : Generations, todo : SUBSET Names, cur : Names \cup {NoTask}]
    /\ recurDoneChs \in [Names -> 0..(MaxReloads + 1)]
    /\ loops \in [Names \X Generations -> LoopPcs]

(* main calls StartAll before the configuration is watched. *)
RecurringInit ==
    /\ ctl = [pc |-> "start", gen |-> 1, todo |-> Names, cur |-> NoTask]
    /\ recurDoneChs = [n \in Names |-> 0]
    /\ loops = [x \in Names \X Generations |-> "none"]

(* recurLock: scheduleHourly holds it from "replace" to the end, stopRecurring *)
(* reads under it; the goroutines take it for one step.                        *)
LockIsFree == ctl.pc \in {"start", "running", "stopped"}

-----------------------------------------------------------------------------
(* StartAll. *)

(* recurLock.Lock() in scheduleHourly. *)
ScheduleHourly ==
    /\ ctl.pc = "start"
    /\ \E n \in ctl.todo : ctl' = [ctl EXCEPT !.pc = "replace", !.cur = n]
    /\ UNCHANGED <<recurDoneChs, loops>>

(* The new channel goes into the map, the goroutine starts, the lock is freed. *)
Install(stopped) ==
    /\ recurDoneChs' = [recurDoneChs EXCEPT ![ctl.cur] = ctl.gen]
    /\ loops' = [x \in Names \X Generations |->
           IF x = <<ctl.cur, ctl.gen>> THEN "waiting"
           ELSE IF x \in stopped THEN "exiting" ELSE loops[x]]
    /\ ctl' = [ctl EXCEPT !.todo = @ \ {ctl.cur}, !.cur = NoTask,
                          !.pc = IF ctl.todo = {ctl.cur} THEN "running" ELSE "start"]

(* Mutant: a task that has an entry counts as scheduled. *)
InstallOnce ==
    /\ ctl.pc = "replace"
    /\ IF recurDoneChs[ctl.cur] = 0 THEN Install({})
       ELSE /\ ctl' = [ctl EXCEPT !.todo = @ \ {ctl.cur}, !.cur = NoTask,
                                  !.pc = IF ctl.todo = {ctl.cur} THEN "running" ELSE "start"]
            /\ UNCHANGED <<recurDoneChs, loops>>

(* The goroutine of an entry in the map is stopped first.  Its channel is not  *)
(* closed, because a goroutine closes it and deletes the entry under one lock, *)
(* so "val <- true" needs a receiver: the goroutine, between two runs.         *)
InstallLoop ==
    LET old == {x \in Names \X Generations : x = <<ctl.cur, recurDoneChs[ctl.cur]>>} IN
    /\ ctl.pc = "replace"
    /\ \A x \in old : loops[x] = "waiting"
    /\ Install(old)

-----------------------------------------------------------------------------
(* StopAll. *)

Scheduled == {n \in Names : recurDoneChs[n] # 0}

Reload ==
    /\ ctl.pc = "running"
    /\ ctl.gen <= MaxReloads
    /\ ctl' = [ctl EXCEPT !.pc = "stopping", !.todo = Scheduled]
    /\ UNCHANGED <<recurDoneChs, loops>>

Shutdown ==
    /\ ctl.pc = "running"
    /\ ctl' = [ctl EXCEPT !.pc = "quitting", !.todo = Scheduled]
    /\ UNCHANGED <<recurDoneChs, loops>>

(* One send of the loop in stopRecurring: it waits for a task that is at work. *)
StopRecurring ==
    /\ ctl.pc \in {"stopping", "quitting"}
    /\ \E n \in ctl.todo :
           /\ loops[<<n, recurDoneChs[n]>>] = "waiting"
           /\ loops' = [loops EXCEPT ![<<n, recurDoneChs[n]>>] = "exiting"]
           /\ ctl' = [ctl EXCEPT !.todo = @ \ {n}]
    /\ UNCHANGED recurDoneChs

StopAllReturns ==
    /\ ctl.pc \in {"stopping", "quitting"}
    /\ ctl.todo = {}
    /\ ctl' = IF ctl.pc = "quitting" THEN [ctl EXCEPT !.pc = "stopped"]
              ELSE [ctl EXCEPT !.pc = "start", !.todo = Names, !.gen = @ + 1]
    /\ UNCHANGED <<recurDoneChs, loops>>

-----------------------------------------------------------------------------
(* The goroutines. *)

Tick(x) ==
    /\ loops[x] = "waiting"
    /\ loops' = [loops EXCEPT ![x] = "working"]
    /\ UNCHANGED <<ctl, recurDoneChs>>

WorkDone(x) ==
    /\ loops[x] = "working"
    /\ loops' = [loops EXCEPT ![x] = "waiting"]
    /\ UNCHANGED <<ctl, recurDoneChs>>

(* The deferred function: close the channel, drop the entry if it is still ours. *)
LoopExits(x) ==
    /\ loops[x] = "exiting"
    /\ LockIsFree
    /\ loops' = [loops EXCEPT ![x] = "ended"]
    /\ recurDoneChs' = [recurDoneChs EXCEPT ![x[1]] = IF @ = x[2] THEN 0 ELSE @]
    /\ UNCHANGED ctl

LoopStep(x) == WorkDone(x) \/ LoopExits(x)

CtlStep == ScheduleHourly \/ InstallLoop \/ StopRecurring \/ StopAllReturns

RecurringNext ==
    \/ CtlStep \/ Reload \/ Shutdown
    \/ \E x \in Names \X Generations : Tick(x) \/ LoopStep(x)

(* Goroutines run on; a task ends, a send that is always possible again goes   *)
(* through (the ticker fires once an hour).  Nobody has to reload or stop.     *)
RecurringFairness ==
    /\ SF_recurringVars(CtlStep)
    /\ \A x \in Names \X Generations : WF_recurringVars(LoopStep(x))

RecurringSpec == RecurringInit /\ [][RecurringNext]_recurringVars /\ RecurringFairness

-----------------------------------------------------------------------------
(* Properties. *)

(* No task ever has two goroutines that would work for it, over any number of *)
(* reloads: a purge does not run twice at the same time (schedule.go:85-103). *)
OneLoopPerTask ==
    \A n \in Names :
        Cardinality({g \in Generations : loops[<<n, g>>] \in {"waiting", "working"}}) <= 1

(* After StartAll every task runs and can be stopped through its entry: a     *)
(* goroutine that ends late does not take the entry of its successor away     *)
(* (schedule.go:88-90).                                                       *)
AllTasksAreScheduled ==
    ctl.pc = "running" =>
        \A n \in Names : recurDoneChs[n] # 0 /\ loops[<<n, recurDoneChs[n]>>] \in {"waiting", "working"}

(* scheduleHourly has the lock and waits for a goroutine that has left its     *)
(* loop (run recurring_stuck).                                                 *)
Stuck ==
    /\ ctl.pc = "replace"
    /\ \E g \in Generations : g = recurDoneChs[ctl.cur] /\ loops[<<ctl.cur, g>>] = "exiting"

(* A reload and a shutdown come to an end although the sends of stopRecurring *)
(* wait for running tasks (schedule.go:109), and afterwards no goroutine of   *)
(* the time before is left: nothing but scheduleHourly can hang.              *)
StopAllEnds ==
    []<>(\/ ctl.gen = 1 /\ ctl.pc \in {"start", "running"}
         \/ /\ ctl.pc \in {"running", "stopped"}
            /\ \A x \in Names \X Generations :
                   (x[2] < ctl.gen \/ ctl.pc = "stopped") => loops[x] \in {"none", "ended"}
         \/ Stuck)

(* "Check if closed, and close if needed ... close that channel"               *)
(* (schedule.go:75-80): scheduleHourly gets rid of the old goroutine and goes  *)
(* on.  When it finds an entry, the goroutine behind it has already left its   *)
(* loop and waits for the lock that scheduleHourly holds.                      *)
ScheduleHourlyReturns == (ctl.pc = "replace") ~> (ctl.pc # "replace")

(* The goroutines are those of the schedule: one for each task, none twice       *)
(* (schedule.go:72-103).                                                         *)
LoopsFollowTheSchedule == OneLoopPerTask /\ AllTasksAreScheduled
=============================================================================
