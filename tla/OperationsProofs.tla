-------------------------- MODULE OperationsProofs --------------------------
(***************************************************************************)
(* What operators do with a running repository: tasks run once, for any    *)
(* tasks, workers, reloads and crashes, an export holds what its manifest  *)
(* says, a shutdown is orderly, an import adds all that is missing and     *)
(* nothing else, and calls of the admin API stay within the rights of who  *)
(* makes them.                                                             *)
(***************************************************************************)
EXTENDS MCOperations, FiniteSetTheorems, TLAPS

-----------------------------------------------------------------------------
(* Background tasks. *)

(* The types, with counters that are not bounded yet. *)
TaskShape ==
    /\ rows \in [Tasks -> {"none", "unfinished", "ended"}]
    /\ failed \subseteq Tasks
    /\ claimed \subseteq Exports
    /\ old \subseteq Tasks
    /\ request \in [Tasks -> {"none", "inserted", "answered"}]
    /\ notice \subseteq Tasks
    /\ retry \subseteq Tasks
    /\ queue \in [Tasks -> Nat]
    /\ running \in [Tasks -> Nat]
    /\ machine \in {"down", "subscribed", "started"}
    /\ reloads \in 0..MaxTaskReloads
    /\ crashes \in 0..MaxCrashes
    /\ lostTasks \subseteq Tasks

(* A task is announced once, when its request has been answered, and the      *)
(* announcement is in one place.                                              *)
AnnouncedOnce ==
    /\ \A t \in notice \cup retry : request[t] = "answered"
    /\ notice \cap retry = {}

(* Where the copies of a task come from: one from its request, one from the   *)
(* start of machine 0, and one from each reload.                              *)
CopiesAreCounted ==
    \A t \in Tasks :
        queue[t] + running[t] <=
            reloads + (IF machine = "started" THEN 1 ELSE 0)
                    + (IF request[t] = "answered" /\ t \notin notice \cup retry THEN 1 ELSE 0)

(* The tasks of machine 0 itself: nobody announces them, only a machine that  *)
(* is up to date has copies of them, and none before it has answered.         *)
OwnTasksAreKnown ==
    \A t \in Tasks \ Remote :
        /\ t \notin notice \cup retry
        /\ machine # "started" => request[t] # "inserted" /\ queue[t] + running[t] = 0
        /\ request[t] = "none" => rows[t] = "none" /\ queue[t] + running[t] = 0
        /\ (request[t] # "answered" /\ reloads = 0) => (rows[t] # "ended" /\ queue[t] + running[t] = 0)

TaskInv ==
    /\ TaskShape
    /\ AnnouncedOnce
    /\ CopiesAreCounted
    /\ OwnTasksAreKnown
    /\ OneRunPerTask

(* What beginTask does to the queue. *)
LEMMA BeginTasksEffect ==
  ASSUME queue \in [Tasks -> Nat], NEW S, BeginTasks(S)
  PROVE  /\ queue' \in [Tasks -> Nat]
         /\ \A t \in Tasks : queue'[t] = queue[t] \/ (t \in S /\ queue'[t] = queue[t] + 1)
BY DEF BeginTasks

LEMMA TaskInitInv == TaskInit => TaskInv
BY TaskAssumption DEF TaskInit, TaskInv, TaskShape, AnnouncedOnce, CopiesAreCounted, OwnTasksAreKnown, OneRunPerTask

(* The requests that record a task. *)
LEMMA RequestStepInv ==
  ASSUME TaskInv, NEW t \in Tasks, InsertTask(t) \/ BeginOwnTask(t) \/ TaskScheduled(t)
  PROVE  TaskInv'
<1> USE DEF TaskInv, TaskShape
<1>1. CASE InsertTask(t)
  BY <1>1 DEF InsertTask, AnnouncedOnce, CopiesAreCounted, OwnTasksAreKnown, OneRunPerTask
<1>2. CASE BeginOwnTask(t)
  <2>1. /\ queue' \in [Tasks -> Nat]
        /\ \A q \in Tasks : queue'[q] = queue[q] \/ (q = t /\ queue'[q] = queue[q] + 1)
        /\ request' = [request EXCEPT ![t] = "answered"] /\ request[t] = "inserted" /\ t \notin Remote
        /\ UNCHANGED <<rows, failed, claimed, old, notice, retry, running, machine, reloads, crashes, lostTasks>>
    BY <1>2, BeginTasksEffect DEF BeginOwnTask
  <2>2. TaskShape' /\ AnnouncedOnce'
    BY <2>1 DEF AnnouncedOnce
  <2>3. CopiesAreCounted'
    BY <2>1 DEF AnnouncedOnce, CopiesAreCounted
  <2>4. OwnTasksAreKnown'
    BY <2>1 DEF OwnTasksAreKnown
  <2>5. OneRunPerTask'
    BY <2>1 DEF OwnTasksAreKnown, OneRunPerTask
  <2> QED
    BY <2>2, <2>3, <2>4, <2>5
<1>3. CASE TaskScheduled(t)
  BY <1>3 DEF TaskScheduled, AnnouncedOnce, CopiesAreCounted, OwnTasksAreKnown, OneRunPerTask
<1> QED
  BY <1>1, <1>2, <1>3

(* Machine 0 starts, reloads or crashes. *)
LEMMA MachineStepInv ==
  ASSUME TaskInv, StartUp \/ ScheduleUnfinished \/ ReloadTasks \/ Crash
  PROVE  TaskInv'
<1> USE TaskAssumption DEF TaskInv, TaskShape
<1>1. CASE StartUp
  BY <1>1 DEF StartUp, AnnouncedOnce, CopiesAreCounted, OwnTasksAreKnown, OneRunPerTask
<1>2. CASE ScheduleUnfinished
  BY <1>2, BeginTasksEffect DEF ScheduleUnfinished, Unfinished, AnnouncedOnce, CopiesAreCounted, OwnTasksAreKnown, OneRunPerTask
<1>3. CASE ReloadTasks
  <2>1. /\ queue' \in [Tasks -> Nat]
        /\ \A q \in Tasks : queue'[q] = queue[q] \/ (rows[q] = "unfinished" /\ queue'[q] = queue[q] + 1)
        /\ reloads < MaxTaskReloads /\ reloads' = reloads + 1 /\ machine = "started" /\ lostTasks' = {}
        /\ UNCHANGED <<rows, failed, claimed, old, request, notice, retry, running, machine, crashes>>
    BY <1>3, BeginTasksEffect DEF ReloadTasks, Unfinished
  <2>2. TaskShape' /\ AnnouncedOnce'
    BY <2>1 DEF AnnouncedOnce
  <2>3. CopiesAreCounted'
    BY <2>1 DEF CopiesAreCounted
  <2>4. OwnTasksAreKnown' /\ OneRunPerTask'
    BY <2>1 DEF OwnTasksAreKnown, OneRunPerTask
  <2> QED
    BY <2>2, <2>3, <2>4
<1>4. CASE Crash
  BY <1>4 DEF Crash, AnnouncedOnce, CopiesAreCounted, OwnTasksAreKnown, OneRunPerTask
<1> QED
  BY <1>1, <1>2, <1>3, <1>4

(* Machine 0 hears of a task. *)
LEMMA NoticeStepInv ==
  ASSUME TaskInv, NEW t \in Tasks, TryBeginTask(t) \/ RetryBeginTask(t)
  PROVE  TaskInv'
<1> USE DEF TaskInv, TaskShape
<1>1. CASE TryBeginTask(t)
  <2>1. /\ queue' \in [Tasks -> Nat]
        /\ \A q \in Tasks : queue'[q] = queue[q] \/ (q = t /\ queue'[q] = queue[q] + 1 /\ t \notin notice' \cup retry')
        /\ notice' \cup retry' \subseteq notice \cup retry /\ notice' \cap retry' = {}
        /\ t \in notice \cup retry /\ lostTasks' \subseteq Tasks
        /\ UNCHANGED <<rows, failed, claimed, old, request, running, machine, reloads, crashes>>
    BY <1>1, BeginTasksEffect DEF TryBeginTask, AnnouncedOnce
  <2>2. t \in Remote /\ request[t] = "answered"
    BY <2>1 DEF AnnouncedOnce, OwnTasksAreKnown
  <2>3. TaskShape' /\ AnnouncedOnce'
    BY <2>1 DEF AnnouncedOnce
  <2>4. CopiesAreCounted'
    BY <2>1, <2>2 DEF CopiesAreCounted
  <2>5. OwnTasksAreKnown' /\ OneRunPerTask'
    BY <2>1, <2>2 DEF OwnTasksAreKnown, OneRunPerTask
  <2> QED
    BY <2>3, <2>4, <2>5
<1>2. CASE RetryBeginTask(t)
  <2>1. /\ queue' \in [Tasks -> Nat]
        /\ \A q \in Tasks : queue'[q] = queue[q] \/ (q = t /\ queue'[q] = queue[q] + 1 /\ t \notin notice' \cup retry')
        /\ notice' \cup retry' \subseteq notice \cup retry /\ notice' \cap retry' = {}
        /\ t \in notice \cup retry /\ lostTasks' \subseteq Tasks
        /\ UNCHANGED <<rows, failed, claimed, old, request, running, machine, reloads, crashes>>
    BY <1>2, BeginTasksEffect DEF RetryBeginTask, AnnouncedOnce
  <2>2. t \in Remote /\ request[t] = "answered"
    BY <2>1 DEF AnnouncedOnce, OwnTasksAreKnown
  <2>3. TaskShape' /\ AnnouncedOnce'
    BY <2>1 DEF AnnouncedOnce
  <2>4. CopiesAreCounted'
    BY <2>1, <2>2 DEF CopiesAreCounted
  <2>5. OwnTasksAreKnown' /\ OneRunPerTask'
    BY <2>1, <2>2 DEF OwnTasksAreKnown, OneRunPerTask
  <2> QED
    BY <2>3, <2>4, <2>5
<1> QED
  BY <1>1, <1>2

(* A worker begins or ends a copy, and tasks age. *)
LEMMA WorkerStepInv ==
  ASSUME TaskInv, NEW t \in Tasks, RunTask(t) \/ EndTask(t) \/ GrowOld(t)
  PROVE  TaskInv'
<1> USE DEF TaskInv, TaskShape
<1>1. CASE RunTask(t)
  <2>1. /\ queue' \in [Tasks -> Nat] /\ running' \in [Tasks -> Nat]
        /\ rows' \in [Tasks -> {"none", "unfinished", "ended"}] /\ failed' \subseteq Tasks /\ claimed' \subseteq Exports
        /\ \A q \in Tasks \ {t} : queue'[q] = queue[q] /\ running'[q] = running[q] /\ rows'[q] = rows[q]
        /\ queue[t] + running[t] > 0
        /\ \/ queue'[t] + running'[t] = queue[t] + running[t] /\ rows'[t] = rows[t]
           \/ queue'[t] + running'[t] = queue[t] + running[t] - 1 /\ rows'[t] = "ended"
        /\ UNCHANGED <<old, request, notice, retry, machine, reloads, crashes, lostTasks>>
    BY <1>1, TaskAssumption DEF RunTask, End
  <2>2. TaskShape' /\ AnnouncedOnce'
    BY <2>1 DEF AnnouncedOnce
  <2>3. CopiesAreCounted'
    BY <2>1 DEF CopiesAreCounted
  <2>4. OwnTasksAreKnown'
    BY <2>1 DEF OwnTasksAreKnown, OneRunPerTask
  <2>5. OneRunPerTask'
    BY <2>1 DEF OneRunPerTask
  <2> QED
    BY <2>2, <2>3, <2>4, <2>5
<1>2. CASE EndTask(t)
  <2>1. /\ queue' \in [Tasks -> Nat] /\ running' \in [Tasks -> Nat]
        /\ rows' \in [Tasks -> {"none", "unfinished", "ended"}] /\ failed' \subseteq Tasks /\ claimed' \subseteq Exports
        /\ \A q \in Tasks \ {t} : queue'[q] = queue[q] /\ running'[q] = running[q] /\ rows'[q] = rows[q]
        /\ queue[t] + running[t] > 0
        /\ \/ queue'[t] + running'[t] = queue[t] + running[t] /\ rows'[t] = rows[t]
           \/ queue'[t] + running'[t] = queue[t] + running[t] - 1 /\ rows'[t] = "ended"
        /\ UNCHANGED <<old, request, notice, retry, machine, reloads, crashes, lostTasks>>
    BY <1>2, TaskAssumption DEF EndTask, End
  <2>2. TaskShape' /\ AnnouncedOnce'
    BY <2>1 DEF AnnouncedOnce
  <2>3. CopiesAreCounted'
    BY <2>1 DEF CopiesAreCounted
  <2>4. OwnTasksAreKnown'
    BY <2>1 DEF OwnTasksAreKnown, OneRunPerTask
  <2>5. OneRunPerTask'
    BY <2>1 DEF OneRunPerTask
  <2> QED
    BY <2>2, <2>3, <2>4, <2>5
<1>3. CASE GrowOld(t)
  BY <1>3 DEF GrowOld, AnnouncedOnce, CopiesAreCounted, OwnTasksAreKnown, OneRunPerTask
<1> QED
  BY <1>1, <1>2, <1>3
LEMMA TaskNextInv == TaskInv /\ [TaskNext]_taskVars => TaskInv'
<1> SUFFICES ASSUME TaskInv, [TaskNext]_taskVars PROVE TaskInv'
  OBVIOUS
<1>1. CASE UNCHANGED taskVars
  BY <1>1 DEF taskVars, TaskInv, TaskShape, AnnouncedOnce, CopiesAreCounted, OwnTasksAreKnown, OneRunPerTask
<1>2. CASE TaskNext
  BY <1>2, RequestStepInv, MachineStepInv, NoticeStepInv, WorkerStepInv DEF TaskNext, TaskStep
<1> QED
  BY <1>1, <1>2

LEMMA TaskInvariance == TaskSpec => []TaskInv
BY TaskInitInv, TaskNextInv, PTL DEF TaskSpec

LEMMA TaskTypes == TaskInv => TaskTypeOK
<1> SUFFICES ASSUME TaskInv PROVE TaskTypeOK
  OBVIOUS
<1>1. \A t \in Tasks : queue[t] \in 0..MaxCopies /\ running[t] \in 0..MaxCopies
  BY TaskAssumption DEF TaskInv, TaskShape, CopiesAreCounted, MaxCopies
<1>2. queue \in [Tasks -> 0..MaxCopies] /\ running \in [Tasks -> 0..MaxCopies]
  BY <1>1 DEF TaskInv, TaskShape
<1> QED
  BY <1>2 DEF TaskInv, TaskShape, TaskTypeOK

(* The queue of the pool grows by no more than one copy of a task for its      *)
(* request, for the start of machine 0 and for each reload; all other          *)
(* variables have their types.                                                 *)
THEOREM TaskTypeCorrect == TaskSpec => []TaskTypeOK
BY TaskTypes, TaskInvariance, PTL

(* Without a reload, no task of machine 0 itself is ever in the hands of two   *)
(* workers or run again after its end, for any number of tasks, workers and    *)
(* crashes.                                                                    *)
THEOREM TasksRunOnce == TaskSpec => []OneRunPerTask
<1>1. TaskInv => OneRunPerTask
  BY DEF TaskInv
<1> QED
  BY <1>1, TaskInvariance, PTL

-----------------------------------------------------------------------------
(* Exports. *)

Writing == {"upload", "record"}

(* Parts are numbered without a gap, and every rotation has a media of its own. *)
PartsAreFew ==
    /\ walk.pc = "list" => writer = NewWriter
    /\ walk.pc = "next" => writer.part + Cardinality(walk.left) <= Cardinality(Media) + 1
    /\ (walk.pc \in Writing /\ walk.then = "next") => writer.part + Cardinality(walk.left) <= Cardinality(Media)
    /\ walk.pc = "finish" => writer.part <= Cardinality(Media) + 1
    /\ (walk.pc \in Writing /\ walk.then = "manifest") => writer.part <= Cardinality(Media) + 1
    /\ walk.pc \in Writing => walk.then # ""
    /\ exportTask.ended => walk.pc = "end"

(* An export that was never deleted has one writer: a task that begins again    *)
(* finds the row.  What the manifest names is in the current part or in an      *)
(* earlier one.                                                                 *)
OneWriter ==
    /\ ~exportRow => partRows = {} /\ objects = {} /\ manifestPart = 0
    /\ walk.pc = "insert" => ~exportRow
    /\ walk.pc \in {"list", "next", "finish", "manifest"} \cup Writing =>
           /\ exportRow /\ manifestPart = 0
           /\ \A n \in partRows : n < writer.part
           /\ \A m \in writer.manifest : m \in writer.tar \/ \E n \in partRows \cap objects : m \in content[n]
    /\ walk.pc = "record" => writer.part \in objects /\ content[writer.part] = writer.tar
    /\ (walk.pc = "manifest" \/ (walk.pc \in Writing /\ walk.then = "end")) => writer.tar = {}

(* Unless something failed, what is left, skipped and in the manifest is all.   *)
NothingIsLost ==
    /\ (walk.pc \in {"next", "finish", "manifest"} \cup Writing /\ ~walk.failed) =>
           writer.manifest \cup skipped \cup walk.left = Media
    /\ (walk.pc \in {"finish", "manifest"} \/ (walk.pc \in Writing /\ walk.then # "next")) =>
           (~walk.failed => walk.left = {})
    /\ (walk.pc = "end" /\ ~walk.failed /\ ~finishFailed) =>
           manifestPart \in partRows /\ writer.manifest \cup skipped = Media

(* A delete after the end of the task meets nobody.                             *)
DeletesAreThorough ==
    /\ deletion.pc # "idle" => deletion.begun /\ ~deletion.answered
    /\ deletion.late => deletion.begun /\ exportTask.ended
    /\ (~deletion.begun \/ deletion.late) => objects \subseteq partRows \cup {writer.part}
    /\ (deletion.pc = "objects" /\ deletion.late) => objects \cap partRows \subseteq deletion.left
    /\ (deletion.pc = "export" /\ deletion.late) => partRows = {}

ExportInv ==
    /\ ExportTypeOK
    /\ PartsAreFew
    /\ NeverDeleted => OneWriter /\ NothingIsLost /\ ManifestIsBacked
    /\ exportTask.ended /\ ~exportTask.error => ~walk.failed
    /\ DeletesAreThorough
    /\ DeletedExportIsGone

LEMMA MediaCount ==
  /\ IsFiniteSet(Media) /\ Cardinality(Media) \in Nat /\ MaxPart \in Nat /\ MaxPart = Cardinality(Media) + 2
  /\ PartSize \in Nat /\ PartSize > 0
<1>1. IsFiniteSet(Media) /\ Cardinality(Media) \in Nat
  BY ExportAssumption, FS_CardinalityType
<1> QED
  BY <1>1, ExportAssumption DEF MaxPart

LEMMA LeftCount ==
  ASSUME NEW L \in SUBSET Media
  PROVE  /\ Cardinality(L) \in Nat /\ Cardinality(L) <= Cardinality(Media)
         /\ \A m \in L : Cardinality(L \ {m}) = Cardinality(L) - 1
<1>1. IsFiniteSet(L) /\ Cardinality(L) \in Nat /\ Cardinality(L) <= Cardinality(Media)
  BY MediaCount, FS_Subset, FS_CardinalityType
<1> QED
  BY <1>1, FS_RemoveElement

LEMMA ExportFields ==
  ASSUME ExportTypeOK
  PROVE  /\ walk.pc \in {"begin", "insert", "list", "next", "upload", "record", "finish", "manifest", "end", "down"}
         /\ walk.left \in SUBSET Media /\ walk.then \in {"", "next", "manifest", "end"} /\ walk.failed \in BOOLEAN
         /\ writer.part \in 1..MaxPart /\ writer.tar \in SUBSET Media /\ writer.size \in Nat
         /\ writer.manifest \in SUBSET Media /\ writer.open \in BOOLEAN
         /\ exportTask.ended \in BOOLEAN /\ exportTask.error \in BOOLEAN
         /\ deletion.pc \in {"idle", "objects", "export"} /\ deletion.left \in SUBSET (1..MaxPart)
         /\ deletion.begun \in BOOLEAN /\ deletion.late \in BOOLEAN /\ deletion.answered \in BOOLEAN
         /\ partRows \in SUBSET (1..MaxPart) /\ objects \in SUBSET (1..MaxPart)
BY DEF ExportTypeOK

LEMMA ExportNumbers ==
  ASSUME ExportTypeOK
  PROVE  writer.part \in Nat /\ writer.part >= 1 /\ writer.part <= MaxPart /\ Cardinality(walk.left) \in Nat
<1>1. PICK n \in 1..MaxPart, L \in SUBSET Media : n = writer.part /\ L = walk.left
  BY ExportFields
<1>2. n \in Nat /\ n >= 1 /\ n <= MaxPart /\ Cardinality(L) \in Nat
  BY MediaCount, LeftCount
<1> QED
  BY <1>1, <1>2

LEMMA PartsAreNumbers ==
  /\ 0 \notin 1..MaxPart /\ 0 \in 0..MaxPart
  /\ \A n \in 1..MaxPart : n \in Nat /\ n \in 0..MaxPart
  /\ ExportTypeOK => 0 \notin partRows /\ (\A n \in partRows : n \in Nat)
<1>1. 0 \notin 1..MaxPart /\ 0 \in 0..MaxPart /\ \A n \in 1..MaxPart : n \in Nat /\ n \in 0..MaxPart
  BY MediaCount
<1>2. ExportTypeOK => partRows \subseteq 1..MaxPart
  BY DEF ExportTypeOK
<1> QED
  BY <1>1, <1>2

LEMMA ExportInitInv == ExportInit => ExportInv
<1> SUFFICES ASSUME ExportInit PROVE ExportInv
  OBVIOUS
<1>1. 1 \in 1..MaxPart /\ 0 \in 0..MaxPart /\ 0 \in 0..MaxExportCrashes
  BY MediaCount, ExportAssumption
<1>2. ExportTypeOK
  <2>1. writer \in [part : 1..MaxPart, tar : SUBSET Media, size : Nat, manifest : SUBSET Media, open : BOOLEAN]
    BY <1>1 DEF ExportInit, NewWriter
  <2>2. walk \in [pc : {"begin", "insert", "list", "next", "upload", "record", "finish", "manifest", "end", "down"},
                  left : SUBSET Media, then : {"", "next", "manifest", "end"}, failed : BOOLEAN] /\ walk.pc = "begin"
    BY DEF ExportInit, NewWalk
  <2>3. deletion \in [pc : {"idle", "objects", "export"}, left : SUBSET (1..MaxPart),
                      begun : BOOLEAN, late : BOOLEAN, answered : BOOLEAN]
    BY DEF ExportInit
  <2> QED
    BY <1>1, <2>1, <2>2, <2>3 DEF ExportInit, ExportTypeOK
<1>3. PartsAreFew
  BY DEF ExportInit, NewWalk, PartsAreFew, Writing
<1>4. OneWriter /\ NothingIsLost /\ ManifestIsBacked
  BY DEF ExportInit, NewWalk, OneWriter, NothingIsLost, ManifestIsBacked, Writing
<1>5. DeletesAreThorough /\ DeletedExportIsGone
  BY DEF ExportInit, DeletesAreThorough, DeletedExportIsGone
<1> QED
  BY <1>2, <1>3, <1>4, <1>5 DEF ExportInit, ExportInv

(* The walk goes on, and nothing is written. *)
LEMMA QuietWalk ==
  ASSUME ExportInv, ~exportTask.ended, UNCHANGED <<tables, writer, exportTask, deletion>>,
         ExportTypeOK', PartsAreFew',
         NeverDeleted => OneWriter' /\ NothingIsLost'
  PROVE  ExportInv'
<1>0. UNCHANGED <<exportRow, partRows, objects, content, manifestPart>>
  BY DEF tables
<1>1. NeverDeleted' = NeverDeleted
  BY DEF NeverDeleted
<1>2. NeverDeleted => ManifestIsBacked'
  BY <1>0 DEF ExportInv, ManifestIsBacked, NeverDeleted
<1>3. DeletesAreThorough' /\ DeletedExportIsGone'
  BY <1>0 DEF ExportInv, DeletesAreThorough, DeletedExportIsGone
<1> QED
  BY <1>1, <1>2, <1>3 DEF ExportInv

LEMMA BeginInv ==
  ASSUME ExportInv, BeginExport
  PROVE  ExportInv'
<1>1. /\ walk.pc = "begin" /\ walk' = [walk EXCEPT !.pc = IF exportRow THEN "end" ELSE "insert", !.failed = exportRow]
      /\ UNCHANGED <<exportRow, partRows, objects, content, manifestPart, writer, exportTask, skipped, finishFailed,
                     deletion, exportCrashes>>
  BY DEF BeginExport, tables
<1>2. ExportTypeOK /\ exportRow \in BOOLEAN /\ ~exportTask.ended
  BY <1>1 DEF ExportInv, ExportTypeOK, PartsAreFew
<1>3. /\ walk'.pc = (IF exportRow THEN "end" ELSE "insert") /\ walk'.failed = exportRow /\ walk'.left = walk.left
      /\ walk'.then = walk.then
  BY <1>1, <1>2 DEF ExportTypeOK
<1>4. ExportTypeOK'
  BY <1>1, <1>2, <1>3, ZenonT(30) DEF ExportTypeOK
<1>5. PartsAreFew'
  BY <1>1, <1>2, <1>3 DEF PartsAreFew, Writing
<1>6. ASSUME NeverDeleted PROVE OneWriter' /\ NothingIsLost'
  <2>1. OneWriter
    BY <1>6 DEF ExportInv
  <2>2. OneWriter'
    BY <1>1, <1>3, <2>1 DEF OneWriter, Writing
  <2>3. NothingIsLost'
    BY <1>1, <1>2, <1>3 DEF NothingIsLost, Writing
  <2> QED
    BY <2>2, <2>3
<1> QED
  BY <1>1, <1>2, <1>4, <1>5, <1>6, QuietWalk DEF tables

LEMMA ListInv ==
  ASSUME ExportInv, ListMedia
  PROVE  ExportInv'
<1>1. /\ walk.pc = "list" /\ walk' = [walk EXCEPT !.pc = "next", !.left = Media]
      /\ UNCHANGED <<exportRow, partRows, objects, content, manifestPart, writer, exportTask, skipped, finishFailed,
                     deletion, exportCrashes>>
  BY DEF ListMedia, tables
<1>2. ExportTypeOK /\ writer = NewWriter /\ ~exportTask.ended /\ skipped \subseteq Media
  BY <1>1 DEF ExportInv, ExportTypeOK, PartsAreFew
<1>3. walk'.pc = "next" /\ walk'.left = Media /\ walk'.then = walk.then /\ walk'.failed = walk.failed
  BY <1>1, <1>2 DEF ExportTypeOK
<1>4. writer'.part = 1 /\ writer'.size = 0 /\ writer'.manifest = {}
  BY <1>1, <1>2 DEF NewWriter
<1>5. ExportTypeOK'
  <2>1. writer'.size < PartSize
    BY <1>4, MediaCount
  <2> QED
    BY <1>1, <1>2, <1>3, <2>1 DEF ExportTypeOK
<1>6. PartsAreFew'
  <2>1. writer'.part + Cardinality(walk'.left) <= Cardinality(Media) + 1
    BY <1>3, <1>4, MediaCount
  <2> QED
    BY <1>1, <1>2, <1>3, <2>1 DEF PartsAreFew, Writing
<1>7. ASSUME NeverDeleted PROVE OneWriter' /\ NothingIsLost'
  <2>1. OneWriter
    BY <1>7 DEF ExportInv
  <2>2. OneWriter'
    BY <1>1, <1>3, <2>1 DEF OneWriter, Writing
  <2>3. NothingIsLost'
    BY <1>1, <1>2, <1>3, <1>4 DEF NothingIsLost, Writing
  <2> QED
    BY <2>2, <2>3
<1> QED
  BY <1>1, <1>2, <1>5, <1>6, <1>7, QuietWalk DEF tables

LEMMA ExportFailsInv ==
  ASSUME ExportInv, ExportFails
  PROVE  ExportInv'
<1>1. PICK next \in {"end", "finish"} :
          /\ walk' = [walk EXCEPT !.pc = next, !.failed = TRUE]
          /\ \/ walk.pc \in {"begin", "insert"} /\ next = "end"
             \/ walk.pc \in {"list", "next"} /\ next = "finish"
          /\ UNCHANGED <<exportRow, partRows, objects, content, manifestPart, writer, exportTask, skipped, finishFailed,
                         deletion, exportCrashes>>
  BY DEF ExportFails, tables
<1>2. ExportTypeOK /\ ~exportTask.ended
  BY <1>1 DEF ExportInv, PartsAreFew
<1>3. walk'.pc = next /\ walk'.left = walk.left /\ walk'.then = walk.then /\ walk'.failed = TRUE
  BY <1>1, <1>2 DEF ExportTypeOK
<1>4. ExportTypeOK'
  BY <1>1, <1>2, <1>3, ZenonT(30) DEF ExportTypeOK
<1>5. PartsAreFew'
  <2>1. walk.pc = "list" => writer.part = 1
    <3>1. walk.pc = "list" => writer = NewWriter
      BY DEF ExportInv, PartsAreFew
    <3>2. NewWriter.part = 1
      BY DEF NewWriter
    <3> QED
      BY <3>1, <3>2
  <2>2. walk.pc \in {"list", "next"} => writer.part <= Cardinality(Media) + 1
    <3>1. writer.part \in Nat /\ Cardinality(walk.left) \in Nat
      BY <1>2, ExportNumbers
    <3>2. walk.pc = "next" => writer.part + Cardinality(walk.left) <= Cardinality(Media) + 1
      BY DEF ExportInv, PartsAreFew
    <3> QED
      BY <2>1, <3>1, <3>2, MediaCount
  <2> QED
    BY <1>1, <1>2, <1>3, <2>2 DEF PartsAreFew, Writing
<1>6. ASSUME NeverDeleted PROVE OneWriter' /\ NothingIsLost'
  <2>1. OneWriter
    BY <1>6 DEF ExportInv
  <2>2. OneWriter'
    BY <1>1, <1>3, <2>1 DEF OneWriter, Writing
  <2>3. NothingIsLost'
    BY <1>1, <1>3 DEF NothingIsLost, Writing
  <2> QED
    BY <2>2, <2>3
<1> QED
  BY <1>1, <1>2, <1>4, <1>5, <1>6, QuietWalk DEF tables

LEMMA SkipInv ==
  ASSUME ExportInv, NEW m \in Media, SkipMedia(m)
  PROVE  ExportInv'
<1>1. /\ walk.pc = "next" /\ m \in walk.left /\ walk' = [walk EXCEPT !.left = walk.left \ {m}]
      /\ skipped' = skipped \cup {m}
      /\ UNCHANGED <<exportRow, partRows, objects, content, manifestPart, writer, exportTask, finishFailed,
                     deletion, exportCrashes>>
  BY DEF SkipMedia, tables
<1>2. ExportTypeOK /\ ~exportTask.ended /\ walk.left \in SUBSET Media
  BY <1>1, ExportFields DEF ExportInv, PartsAreFew
<1>3. walk'.pc = "next" /\ walk'.left = walk.left \ {m} /\ walk'.then = walk.then /\ walk'.failed = walk.failed
  BY <1>1, <1>2 DEF ExportTypeOK
<1>4. ExportTypeOK'
  BY <1>1, <1>2, <1>3 DEF ExportTypeOK
<1>5. PartsAreFew'
  <2>1. writer.part + Cardinality(walk.left) <= Cardinality(Media) + 1
    BY <1>1 DEF ExportInv, PartsAreFew
  <2>2. Cardinality(walk'.left) = Cardinality(walk.left) - 1 /\ Cardinality(walk.left) \in Nat /\ writer.part \in Nat
    BY <1>1, <1>2, <1>3, LeftCount, ExportNumbers
  <2>3. writer'.part + Cardinality(walk'.left) <= Cardinality(Media) + 1
    BY <1>1, <2>1, <2>2, MediaCount
  <2> QED
    BY <1>1, <1>2, <1>3, <2>3 DEF PartsAreFew, Writing
<1>6. ASSUME NeverDeleted PROVE OneWriter' /\ NothingIsLost'
  <2>1. OneWriter /\ NothingIsLost
    BY <1>6 DEF ExportInv
  <2>2. OneWriter'
    BY <1>1, <1>3, <2>1 DEF OneWriter, Writing
  <2>3. NothingIsLost'
    BY <1>1, <1>2, <1>3, <2>1 DEF NothingIsLost, Writing
  <2> QED
    BY <2>2, <2>3
<1> QED
  BY <1>1, <1>2, <1>4, <1>5, <1>6, QuietWalk DEF tables

LEMMA WalkEndsInv ==
  ASSUME ExportInv, WalkEnds
  PROVE  ExportInv'
<1>1. /\ walk.pc = "next" /\ walk.left = {} /\ walk' = [walk EXCEPT !.pc = "finish"]
      /\ UNCHANGED <<exportRow, partRows, objects, content, manifestPart, writer, exportTask, skipped, finishFailed,
                     deletion, exportCrashes>>
  BY DEF WalkEnds, tables
<1>2. ExportTypeOK /\ ~exportTask.ended
  BY <1>1 DEF ExportInv, PartsAreFew
<1>3. walk'.pc = "finish" /\ walk'.left = walk.left /\ walk'.then = walk.then /\ walk'.failed = walk.failed
  BY <1>1, <1>2 DEF ExportTypeOK
<1>4. ExportTypeOK'
  BY <1>1, <1>2, <1>3 DEF ExportTypeOK
<1>5. PartsAreFew'
  <2>1. writer.part + Cardinality(walk.left) <= Cardinality(Media) + 1
    BY <1>1 DEF ExportInv, PartsAreFew
  <2>2. writer.part <= Cardinality(Media) + 1
    BY <1>2, <2>1, ExportNumbers, MediaCount
  <2> QED
    BY <1>1, <1>2, <1>3, <2>2 DEF PartsAreFew, Writing
<1>6. ASSUME NeverDeleted PROVE OneWriter' /\ NothingIsLost'
  <2>1. OneWriter /\ NothingIsLost
    BY <1>6 DEF ExportInv
  <2>2. OneWriter'
    BY <1>1, <1>3, <2>1 DEF OneWriter, Writing
  <2>3. NothingIsLost'
    BY <1>1, <1>3, <2>1 DEF NothingIsLost, Writing
  <2> QED
    BY <2>2, <2>3
<1> QED
  BY <1>1, <1>2, <1>4, <1>5, <1>6, QuietWalk DEF tables

LEMMA FinishInv ==
  ASSUME ExportInv, Finish
  PROVE  ExportInv'
<1>1. PICK next \in {"upload", "end"}, then \in {walk.then, "manifest"} :
          /\ walk' = [walk EXCEPT !.pc = next, !.then = then]
          /\ next = "upload" => then = "manifest"
          /\ next = "end" => ~writer.open
  <2>1. CASE writer.open
    BY <2>1 DEF Finish
  <2>2. CASE ~writer.open
    <3>1. [walk EXCEPT !.pc = "end"] = [walk EXCEPT !.pc = "end", !.then = walk.then]
      BY DEF ExportInv, ExportTypeOK
    <3> QED
      BY <2>2, <3>1 DEF Finish
  <2> QED
    BY <2>1, <2>2
<1>2. /\ walk.pc = "finish" /\ finishFailed' = ~writer.open
      /\ UNCHANGED <<exportRow, partRows, objects, content, manifestPart, writer, exportTask, skipped,
                     deletion, exportCrashes>>
  BY DEF Finish, tables
<1>3. ExportTypeOK /\ ~exportTask.ended /\ writer.part <= Cardinality(Media) + 1
  BY <1>2 DEF ExportInv, PartsAreFew
<1>4. walk'.pc = next /\ walk'.left = walk.left /\ walk'.then = then /\ walk'.failed = walk.failed
  BY <1>1, <1>3 DEF ExportTypeOK
<1>5. ExportTypeOK'
  BY <1>1, <1>2, <1>3, <1>4, ZenonT(30) DEF ExportTypeOK
<1>6. PartsAreFew'
  BY <1>1, <1>2, <1>3, <1>4 DEF PartsAreFew, Writing
<1>7. ASSUME NeverDeleted PROVE OneWriter' /\ NothingIsLost'
  <2>1. OneWriter /\ NothingIsLost
    BY <1>7 DEF ExportInv
  <2>2. OneWriter'
    BY <1>1, <1>2, <1>4, <2>1 DEF OneWriter, Writing
  <2>3. NothingIsLost'
    BY <1>1, <1>2, <1>4, <2>1 DEF NothingIsLost, Writing
  <2> QED
    BY <2>2, <2>3
<1> QED
  BY <1>2, <1>3, <1>5, <1>6, <1>7, QuietWalk DEF tables

LEMMA ManifestInv ==
  ASSUME ExportInv, WriteManifest
  PROVE  ExportInv'
<1>1. /\ walk.pc = "manifest" /\ walk' = [walk EXCEPT !.pc = "upload", !.then = "end"]
      /\ UNCHANGED <<exportRow, partRows, objects, content, manifestPart, writer, exportTask, skipped, finishFailed,
                     deletion, exportCrashes>>
  BY DEF WriteManifest, tables
<1>2. ExportTypeOK /\ ~exportTask.ended
  BY <1>1 DEF ExportInv, PartsAreFew
<1>3. walk'.pc = "upload" /\ walk'.left = walk.left /\ walk'.then = "end" /\ walk'.failed = walk.failed
  BY <1>1, <1>2 DEF ExportTypeOK
<1>4. ExportTypeOK'
  BY <1>1, <1>2, <1>3 DEF ExportTypeOK
<1>5. PartsAreFew'
  BY <1>1, <1>2, <1>3 DEF PartsAreFew, Writing
<1>6. ASSUME NeverDeleted PROVE OneWriter' /\ NothingIsLost'
  <2>1. OneWriter /\ NothingIsLost
    BY <1>6 DEF ExportInv
  <2>2. OneWriter'
    BY <1>1, <1>3, <2>1 DEF OneWriter, Writing
  <2>3. NothingIsLost'
    BY <1>1, <1>3, <2>1 DEF NothingIsLost, Writing
  <2> QED
    BY <2>2, <2>3
<1> QED
  BY <1>1, <1>2, <1>4, <1>5, <1>6, QuietWalk DEF tables

LEMMA RestartInv ==
  ASSUME ExportInv, ExportRestart
  PROVE  ExportInv'
<1>1. /\ walk.pc = "down" /\ walk' = NewWalk /\ skipped' = {} /\ finishFailed' = FALSE
      /\ UNCHANGED <<exportRow, partRows, objects, content, manifestPart, writer, exportTask,
                     deletion, exportCrashes>>
  BY DEF ExportRestart, tables
<1>2. ExportTypeOK /\ ~exportTask.ended
  BY <1>1 DEF ExportInv, PartsAreFew
<1>3. walk'.pc = "begin"
  BY <1>1 DEF NewWalk
<1>4. ExportTypeOK'
  BY <1>1, <1>2, <1>3 DEF ExportTypeOK, NewWalk
<1>5. PartsAreFew'
  BY <1>1, <1>2, <1>3 DEF PartsAreFew, Writing
<1>6. ASSUME NeverDeleted PROVE OneWriter' /\ NothingIsLost'
  <2>1. OneWriter /\ NothingIsLost
    BY <1>6 DEF ExportInv
  <2> QED
    BY <1>1, <1>3, <2>1 DEF OneWriter, NothingIsLost, Writing
<1> QED
  BY <1>1, <1>2, <1>4, <1>5, <1>6, QuietWalk DEF tables

LEMMA CrashInv ==
  ASSUME ExportInv, ExportCrash
  PROVE  ExportInv'
<1>1. /\ ~exportTask.ended /\ walk' = [NewWalk EXCEPT !.pc = "down"]
      /\ exportCrashes < MaxExportCrashes /\ exportCrashes' = exportCrashes + 1
      /\ deletion' = [deletion EXCEPT !.pc = "idle", !.left = {}]
      /\ UNCHANGED <<exportRow, partRows, objects, content, manifestPart, writer, exportTask, skipped, finishFailed>>
  BY DEF ExportCrash, tables
<1>2. ExportTypeOK
  BY DEF ExportInv
<1>3. walk'.pc = "down"
  BY <1>1 DEF NewWalk
<1>4. /\ deletion'.pc = "idle" /\ deletion'.begun = deletion.begun /\ deletion'.late = deletion.late
      /\ deletion'.answered = deletion.answered
  BY <1>1, <1>2 DEF ExportTypeOK
<1>5. ExportTypeOK'
  <2>1. exportCrashes' \in 0..MaxExportCrashes
    <3>1. PICK n \in 0..MaxExportCrashes : n = exportCrashes
      BY <1>2 DEF ExportTypeOK
    <3>2. n + 1 \in 0..MaxExportCrashes
      BY <1>1, <3>1, ExportAssumption
    <3> QED
      BY <1>1, <3>1, <3>2
  <2>2. walk' \in [pc : {"begin", "insert", "list", "next", "upload", "record", "finish", "manifest", "end", "down"},
                  left : SUBSET Media, then : {"", "next", "manifest", "end"}, failed : BOOLEAN]
    BY <1>1 DEF NewWalk
  <2>3. deletion' \in [pc : {"idle", "objects", "export"}, left : SUBSET (1..MaxPart),
                      begun : BOOLEAN, late : BOOLEAN, answered : BOOLEAN]
    BY <1>1, <1>2 DEF ExportTypeOK
  <2> QED
    BY <1>1, <1>2, <1>3, <2>1, <2>2, <2>3 DEF ExportTypeOK
<1>6. PartsAreFew'
  BY <1>1, <1>3 DEF PartsAreFew, Writing
<1>7. ASSUME NeverDeleted' PROVE OneWriter' /\ NothingIsLost' /\ ManifestIsBacked'
  <2>1. OneWriter /\ NothingIsLost /\ ManifestIsBacked /\ NeverDeleted
    BY <1>4, <1>7 DEF ExportInv, NeverDeleted
  <2> QED
    BY <1>1, <1>3, <2>1 DEF OneWriter, NothingIsLost, ManifestIsBacked, Writing
<1>8. DeletesAreThorough' /\ DeletedExportIsGone'
  BY <1>1, <1>4 DEF ExportInv, DeletesAreThorough, DeletedExportIsGone
<1> QED
  BY <1>1, <1>5, <1>6, <1>7, <1>8 DEF ExportInv

LEMMA EndInv ==
  ASSUME ExportInv, EndExport
  PROVE  ExportInv'
<1>1. /\ walk.pc = "end" /\ ~exportTask.ended /\ exportTask' = [ended |-> TRUE, error |-> walk.failed]
      /\ UNCHANGED <<exportRow, partRows, objects, content, manifestPart, writer, walk, skipped, finishFailed,
                     deletion, exportCrashes>>
  BY DEF EndExport, tables
<1>2. ExportTypeOK /\ walk.failed \in BOOLEAN
  BY ExportFields DEF ExportInv
<1>3. ExportTypeOK' /\ PartsAreFew'
  <2>1. ExportTypeOK'
    BY <1>1, <1>2, ZenonT(30) DEF ExportTypeOK
  <2>2. PartsAreFew'
    BY <1>1 DEF ExportInv, PartsAreFew, Writing
  <2> QED
    BY <2>1, <2>2
<1>4. NeverDeleted' => OneWriter' /\ NothingIsLost' /\ ManifestIsBacked'
  BY <1>1 DEF ExportInv, NeverDeleted, OneWriter, NothingIsLost, ManifestIsBacked, Writing
<1>5. DeletesAreThorough' /\ DeletedExportIsGone'
  BY <1>1 DEF ExportInv, DeletesAreThorough, DeletedExportIsGone
<1> QED
  BY <1>1, <1>3, <1>4, <1>5 DEF ExportInv

LEMMA InsertExportInv ==
  ASSUME ExportInv, InsertExport
  PROVE  ExportInv'
<1>1. /\ walk.pc = "insert" /\ exportRow' = TRUE /\ writer' = NewWriter /\ walk' = [walk EXCEPT !.pc = "list"]
      /\ UNCHANGED <<partRows, objects, content, manifestPart, exportTask, skipped, finishFailed, deletion, exportCrashes>>
  BY DEF InsertExport
<1>2. ExportTypeOK /\ ~exportTask.ended
  BY <1>1 DEF ExportInv, PartsAreFew
<1>3. walk'.pc = "list" /\ walk'.left = walk.left /\ walk'.then = walk.then /\ walk'.failed = walk.failed
  BY <1>1, <1>2 DEF ExportTypeOK
<1>4. writer'.part = 1 /\ writer'.manifest = {} /\ writer'.tar = {}
  BY <1>1 DEF NewWriter
<1>5. ExportTypeOK'
  <2>1. 1 \in 1..MaxPart
    BY MediaCount
  <2>2. writer' \in [part : 1..MaxPart, tar : SUBSET Media, size : Nat, manifest : SUBSET Media, open : BOOLEAN]
    BY <1>1, <2>1 DEF NewWriter
  <2> QED
    BY <1>1, <1>2, <1>3, <2>2 DEF ExportTypeOK
<1>6. PartsAreFew'
  BY <1>1, <1>2, <1>3 DEF PartsAreFew, Writing
<1>7. ASSUME ~deletion.begun PROVE partRows = {} /\ objects = {} /\ manifestPart = 0
  BY <1>1, <1>7 DEF ExportInv, NeverDeleted, OneWriter
<1>8. ASSUME NeverDeleted' PROVE OneWriter' /\ NothingIsLost' /\ ManifestIsBacked'
  <2>1. partRows = {} /\ objects = {} /\ manifestPart = 0
    BY <1>1, <1>7, <1>8 DEF NeverDeleted
  <2> QED
    BY <1>1, <1>3, <1>4, <2>1 DEF OneWriter, NothingIsLost, ManifestIsBacked, Writing
<1>9. DeletesAreThorough' /\ DeletedExportIsGone'
  <2>1. ~deletion.late
    BY <1>2 DEF ExportInv, DeletesAreThorough
  <2> QED
    BY <1>1, <1>7, <2>1 DEF ExportInv, DeletesAreThorough, DeletedExportIsGone
<1> QED
  BY <1>1, <1>2, <1>5, <1>6, <1>8, <1>9 DEF ExportInv

(* A media is in the part, and the part may be full. *)
LEMMA AppendInv ==
  ASSUME ExportInv, NEW m \in Media, AppendMedia(m)
  PROVE  ExportInv'
<1>0. PICK size : size = writer.size + Bytes[m]
  OBVIOUS
<1>1. /\ walk.pc = "next" /\ m \in walk.left
      /\ writer' = [writer EXCEPT !.tar = writer.tar \cup {m}, !.manifest = writer.manifest \cup {m}, !.size = size]
      /\ UNCHANGED <<exportRow, partRows, objects, content, manifestPart, exportTask, skipped, finishFailed,
                     deletion, exportCrashes>>
  BY <1>0 DEF AppendMedia, tables
<1>2. ExportTypeOK /\ ~exportTask.ended /\ walk.left \in SUBSET Media
  BY <1>1, ExportFields DEF ExportInv, PartsAreFew
<1>3. size \in Nat
  <2>1. PICK a \in Nat, b \in Nat : a = writer.size /\ b = Bytes[m]
    BY <1>2, ExportFields, ExportAssumption
  <2>2. a + b \in Nat
    OBVIOUS
  <2> QED
    BY <1>0, <2>1, <2>2
<1>4. PICK next \in {"upload", "next"}, then \in {walk.then, "next"} :
          /\ walk' = [walk EXCEPT !.left = walk.left \ {m}, !.pc = next, !.then = then]
          /\ next = "upload" => then = "next"
          /\ next = "next" => ~(size >= PartSize)
  <2>1. CASE size >= PartSize
    BY <1>0, <2>1 DEF AppendMedia
  <2>2. CASE ~(size >= PartSize)
    <3>1. [walk EXCEPT !.left = walk.left \ {m}]
              = [walk EXCEPT !.left = walk.left \ {m}, !.pc = "next", !.then = walk.then]
      BY <1>1, <1>2 DEF ExportTypeOK
    <3> QED
      BY <1>0, <2>2, <3>1 DEF AppendMedia
  <2> QED
    BY <2>1, <2>2
<1>5. walk'.pc = next /\ walk'.left = walk.left \ {m} /\ walk'.then = then /\ walk'.failed = walk.failed
  BY <1>2, <1>4 DEF ExportTypeOK
<1>6. /\ writer'.part = writer.part /\ writer'.tar = writer.tar \cup {m} /\ writer'.size = size
      /\ writer'.manifest = writer.manifest \cup {m} /\ writer'.open = writer.open
  BY <1>1, <1>2 DEF ExportTypeOK
<1>7. ExportTypeOK'
  <2>1. writer' \in [part : 1..MaxPart, tar : SUBSET Media, size : Nat, manifest : SUBSET Media, open : BOOLEAN]
    BY <1>1, <1>2, <1>3 DEF ExportTypeOK
  <2>2. walk' \in [pc : {"begin", "insert", "list", "next", "upload", "record", "finish", "manifest", "end", "down"},
                  left : SUBSET Media, then : {"", "next", "manifest", "end"}, failed : BOOLEAN]
    BY <1>2, <1>4 DEF ExportTypeOK
  <2>3. next = "next" => size < PartSize
    BY <1>3, <1>4, MediaCount
  <2> QED
    BY <1>1, <1>2, <1>5, <1>6, <2>1, <2>2, <2>3, ZenonT(30) DEF ExportTypeOK
<1>8. PartsAreFew'
  <2>1. writer.part + Cardinality(walk.left) <= Cardinality(Media) + 1
    BY <1>1 DEF ExportInv, PartsAreFew
  <2>2. Cardinality(walk'.left) = Cardinality(walk.left) - 1 /\ Cardinality(walk.left) \in Nat /\ writer.part \in Nat
    BY <1>1, <1>2, <1>5, LeftCount, ExportNumbers
  <2>3. writer.part + Cardinality(walk'.left) <= Cardinality(Media)
    BY <2>1, <2>2, MediaCount
  <2>4. writer.part + Cardinality(walk'.left) <= Cardinality(Media) + 1
    BY <2>1, <2>2, MediaCount
  <2> QED
    BY <1>1, <1>2, <1>4, <1>5, <1>6, <2>3, <2>4 DEF PartsAreFew, Writing
<1>9. ASSUME NeverDeleted' PROVE OneWriter' /\ NothingIsLost' /\ ManifestIsBacked'
  <2>1. OneWriter /\ NothingIsLost
    BY <1>1, <1>9 DEF ExportInv, NeverDeleted
  <2>2. OneWriter'
    BY <1>1, <1>4, <1>5, <1>6, <2>1 DEF OneWriter, Writing
  <2>3. NothingIsLost'
    BY <1>1, <1>2, <1>4, <1>5, <1>6, <2>1 DEF NothingIsLost, Writing
  <2>4. ManifestIsBacked'
    <3>1. manifestPart' = 0 /\ 0 \notin partRows'
      BY <1>1, <1>2, <2>1, PartsAreNumbers DEF OneWriter
    <3> QED
      BY <3>1 DEF ManifestIsBacked
  <2> QED
    BY <2>2, <2>3, <2>4
<1>10. DeletesAreThorough' /\ DeletedExportIsGone'
  BY <1>1, <1>6 DEF ExportInv, DeletesAreThorough, DeletedExportIsGone
<1> QED
  BY <1>1, <1>2, <1>7, <1>8, <1>9, <1>10 DEF ExportInv

(* The object of a part comes before its row. *)
LEMMA UploadPartInv ==
  ASSUME ExportInv, UploadPart
  PROVE  ExportInv'
<1>1. /\ walk.pc = "upload" /\ writer' = [writer EXCEPT !.open = FALSE] /\ objects' = objects \cup {writer.part}
      /\ content' = [content EXCEPT ![writer.part] = writer.tar] /\ walk' = [walk EXCEPT !.pc = "record"]
      /\ UNCHANGED <<exportRow, partRows, manifestPart, exportTask, skipped, finishFailed, deletion, exportCrashes>>
  BY DEF UploadPart
<1>2. ExportTypeOK /\ ~exportTask.ended /\ writer.part \in 1..MaxPart /\ writer.tar \in SUBSET Media
  BY <1>1, ExportFields DEF ExportInv, PartsAreFew
<1>3. walk'.pc = "record" /\ walk'.left = walk.left /\ walk'.then = walk.then /\ walk'.failed = walk.failed
  BY <1>1, <1>2 DEF ExportTypeOK
<1>4. /\ writer'.part = writer.part /\ writer'.tar = writer.tar /\ writer'.size = writer.size
      /\ writer'.manifest = writer.manifest
  BY <1>1, <1>2 DEF ExportTypeOK
<1>5. /\ content' \in [1..MaxPart -> SUBSET Media]
      /\ \A n \in 1..MaxPart : content'[n] = IF n = writer.part THEN writer.tar ELSE content[n]
  BY <1>1, <1>2 DEF ExportTypeOK
<1>6. ExportTypeOK'
  BY <1>1, <1>2, <1>3, <1>5 DEF ExportTypeOK
<1>7. PartsAreFew'
  BY <1>1, <1>2, <1>3, <1>4 DEF ExportInv, PartsAreFew, Writing
<1>8. ASSUME NeverDeleted' PROVE OneWriter' /\ NothingIsLost' /\ ManifestIsBacked'
  <2>1. OneWriter /\ NothingIsLost
    BY <1>1, <1>8 DEF ExportInv, NeverDeleted
  <2>2. exportRow /\ manifestPart = 0 /\ \A n \in partRows : n < writer.part
    BY <1>1, <2>1 DEF OneWriter, Writing
  <2>3. writer.part \notin partRows
    BY <1>2, <2>2, ExportNumbers
  <2>4. \A m \in writer.manifest : m \in writer.tar \/ \E n \in partRows \cap objects' : m \in content'[n]
    <3> SUFFICES ASSUME NEW m \in writer.manifest, m \notin writer.tar
                 PROVE  \E n \in partRows \cap objects' : m \in content'[n]
      OBVIOUS
    <3>1. PICK n \in partRows \cap objects : m \in content[n]
      BY <1>1, <2>1 DEF OneWriter, Writing
    <3>2. n \in 1..MaxPart /\ n # writer.part
      BY <1>2, <2>3, <3>1 DEF ExportTypeOK
    <3> QED
      BY <1>1, <1>5, <3>1, <3>2
  <2>5. OneWriter'
    BY <1>1, <1>2, <1>3, <1>4, <1>5, <2>1, <2>2, <2>4 DEF OneWriter, Writing
  <2>6. NothingIsLost'
    BY <1>1, <1>3, <1>4, <2>1 DEF NothingIsLost, Writing
  <2>7. ManifestIsBacked'
    <3>1. manifestPart' = 0 /\ 0 \notin partRows'
      BY <1>1, <1>2, <2>2, PartsAreNumbers
    <3> QED
      BY <3>1 DEF ManifestIsBacked
  <2> QED
    BY <2>5, <2>6, <2>7
<1>9. DeletesAreThorough' /\ DeletedExportIsGone'
  BY <1>1, <1>2, <1>4 DEF ExportInv, DeletesAreThorough, DeletedExportIsGone
<1> QED
  BY <1>1, <1>2, <1>6, <1>7, <1>8, <1>9 DEF ExportInv

LEMMA RecordPartInv ==
  ASSUME ExportInv, RecordPart
  PROVE  ExportInv'
<1>0. PICK p : p = writer.part
  OBVIOUS
<1>1. /\ walk.pc = "record" /\ p \notin partRows /\ partRows' = partRows \cup {p}
      /\ manifestPart' = IF walk.then = "end" THEN p ELSE manifestPart
      /\ writer' = IF walk.then = "end" THEN writer
                   ELSE [writer EXCEPT !.part = p + 1, !.tar = {}, !.size = 0, !.open = TRUE]
      /\ walk' = [walk EXCEPT !.pc = walk.then, !.then = ""]
      /\ UNCHANGED <<exportRow, objects, content, exportTask, skipped, finishFailed, deletion, exportCrashes>>
  BY <1>0 DEF RecordPart
<1>2. /\ ExportTypeOK /\ ~exportTask.ended /\ p \in 1..MaxPart /\ p \in Nat /\ walk.then \in {"next", "manifest", "end"}
  BY <1>0, <1>1, ExportFields, ExportNumbers DEF ExportInv, PartsAreFew, Writing
<1>3. walk'.pc = walk.then /\ walk'.left = walk.left /\ walk'.then = "" /\ walk'.failed = walk.failed
  BY <1>1, <1>2 DEF ExportTypeOK
<1>4. /\ writer'.manifest = writer.manifest
      /\ walk.then = "end" => writer' = writer
      /\ walk.then # "end" => writer'.part = p + 1 /\ writer'.tar = {} /\ writer'.size = 0
  BY <1>1, <1>2 DEF ExportTypeOK
<1>5. /\ walk.then = "next" => p + 1 + Cardinality(walk.left) <= Cardinality(Media) + 1
      /\ walk.then # "end" => p + 1 <= MaxPart
  <2>1. /\ walk.then = "next" => p + Cardinality(walk.left) <= Cardinality(Media)
        /\ walk.then = "manifest" => p <= Cardinality(Media) + 1
    BY <1>0, <1>1 DEF ExportInv, PartsAreFew, Writing
  <2>2. Cardinality(walk.left) \in Nat
    BY <1>2, ExportNumbers
  <2>3. walk.then = "next" => p + 1 + Cardinality(walk.left) <= Cardinality(Media) + 1
    BY <1>2, <2>1, <2>2, MediaCount
  <2>4. walk.then # "end" => p + 1 <= MaxPart
    BY <1>2, <2>1, <2>2, MediaCount
  <2> QED
    BY <2>3, <2>4
<1>6. ExportTypeOK'
  <2>1. walk.then # "end" => p + 1 \in 1..MaxPart
    BY <1>2, <1>5, MediaCount
  <2>2. writer' \in [part : 1..MaxPart, tar : SUBSET Media, size : Nat, manifest : SUBSET Media, open : BOOLEAN]
    <3>1. CASE walk.then = "end"
      BY <1>2, <1>4, <3>1 DEF ExportTypeOK
    <3>2. CASE walk.then # "end"
      BY <1>1, <1>2, <2>1, <3>2 DEF ExportTypeOK
    <3> QED
      BY <3>1, <3>2
  <2>3. walk' \in [pc : {"begin", "insert", "list", "next", "upload", "record", "finish", "manifest", "end", "down"},
                  left : SUBSET Media, then : {"", "next", "manifest", "end"}, failed : BOOLEAN]
    BY <1>1, <1>2 DEF ExportTypeOK
  <2>4. walk'.pc = "next" => writer'.size < PartSize
    BY <1>3, <1>4, MediaCount
  <2>5. manifestPart' \in 0..MaxPart
    <3>1. manifestPart \in 0..MaxPart /\ p \in 0..MaxPart
      BY <1>2, PartsAreNumbers DEF ExportTypeOK
    <3> QED
      BY <1>1, <3>1
  <2> QED
    BY <1>1, <1>2, <2>2, <2>3, <2>4, <2>5 DEF ExportTypeOK
<1>7. PartsAreFew'
  BY <1>1, <1>2, <1>3, <1>4, <1>5 DEF PartsAreFew, Writing
<1>8. ASSUME NeverDeleted' PROVE OneWriter' /\ NothingIsLost' /\ ManifestIsBacked'
  <2>1. OneWriter /\ NothingIsLost
    BY <1>1, <1>8 DEF ExportInv, NeverDeleted
  <2>2. /\ exportRow /\ manifestPart = 0 /\ p \in objects /\ content[p] = writer.tar
        /\ \A n \in partRows : n < p
        /\ \A m \in writer.manifest : m \in writer.tar \/ \E n \in partRows \cap objects : m \in content[n]
        /\ walk.then = "end" => writer.tar = {}
    BY <1>0, <1>1, <2>1 DEF OneWriter, Writing
  <2>3. \A m \in writer.manifest : \E n \in partRows' \cap objects : m \in content[n]
    BY <1>1, <2>2
  <2>4. OneWriter'
    <3>1. CASE walk.then = "end"
      BY <1>1, <1>3, <2>2, <3>1 DEF OneWriter, Writing
    <3>2. CASE walk.then # "end"
      <4>1. \A n \in partRows' : n < p + 1
        <5>1. \A n \in partRows : n \in Nat
          BY <1>2, PartsAreNumbers
        <5> QED
          BY <1>1, <1>2, <2>2, <5>1
      <4>2. walk'.pc \in {"next", "manifest"}
        BY <1>2, <1>3, <3>2
      <4> QED
        BY <1>1, <1>4, <2>2, <2>3, <3>2, <4>1, <4>2 DEF OneWriter, Writing
    <3> QED
      BY <3>1, <3>2
  <2>5. NothingIsLost'
    <3>1. CASE walk.then = "end"
      BY <1>1, <1>3, <1>4, <2>1, <3>1 DEF NothingIsLost, Writing
    <3>2. CASE walk.then # "end"
      BY <1>1, <1>2, <1>3, <1>4, <2>1, <3>2 DEF NothingIsLost, Writing
    <3> QED
      BY <3>1, <3>2
  <2>6. ManifestIsBacked'
    <3>1. CASE walk.then = "end"
      <4> SUFFICES ASSUME NEW m \in writer.manifest
                   PROVE  \E n \in partRows' \cap objects : n # p /\ m \in content[n]
        BY <1>1, <1>4, <3>1 DEF ManifestIsBacked
      <4>1. PICK n \in partRows \cap objects : m \in content[n]
        BY <2>2, <3>1
      <4> QED
        BY <1>1, <4>1
    <3>2. CASE walk.then # "end"
      <4>1. manifestPart' = 0 /\ 0 \notin partRows'
        BY <1>1, <1>2, <2>2, <3>2, PartsAreNumbers
      <4> QED
        BY <4>1 DEF ManifestIsBacked
    <3> QED
      BY <3>1, <3>2
  <2> QED
    BY <2>4, <2>5, <2>6
<1>9. DeletesAreThorough' /\ DeletedExportIsGone'
  <2>1. ~deletion.late
    BY <1>2 DEF ExportInv, DeletesAreThorough
  <2> QED
    BY <1>0, <1>1, <2>1 DEF ExportInv, DeletesAreThorough, DeletedExportIsGone
<1> QED
  BY <1>1, <1>2, <1>6, <1>7, <1>8, <1>9 DEF ExportInv

(* A part that is lost ends the walk, or the archive. *)
LEMMA WriteEndsInv ==
  ASSUME ExportInv, walk.pc \in Writing, WriteEnds
  PROVE  ExportInv'
<1>1. PICK next \in {"finish", "end"}, fails \in {TRUE, walk.failed} :
          /\ walk' = [walk EXCEPT !.pc = next, !.then = "", !.failed = fails]
          /\ next = "finish" => walk.then = "next" /\ fails = TRUE /\ finishFailed' = finishFailed
          /\ next = "end" => finishFailed' = TRUE
  <2>1. CASE walk.then = "next"
    BY <2>1 DEF WriteEnds
  <2>2. CASE walk.then # "next"
    <3>1. [walk EXCEPT !.pc = "end", !.then = ""] = [walk EXCEPT !.pc = "end", !.then = "", !.failed = walk.failed]
      BY DEF ExportInv, ExportTypeOK
    <3> QED
      BY <2>2, <3>1 DEF WriteEnds
  <2> QED
    BY <2>1, <2>2
<1>2. /\ writer' = [writer EXCEPT !.open = FALSE]
      /\ UNCHANGED <<exportRow, partRows, objects, content, manifestPart, exportTask, skipped, deletion, exportCrashes>>
  BY DEF WriteEnds, tables
<1>3. ExportTypeOK /\ ~exportTask.ended /\ walk.failed \in BOOLEAN
  BY ExportFields DEF ExportInv, PartsAreFew, Writing
<1>4. walk'.pc = next /\ walk'.left = walk.left /\ walk'.then = "" /\ walk'.failed = fails
  BY <1>1, <1>3 DEF ExportTypeOK
<1>5. writer'.part = writer.part /\ writer'.tar = writer.tar /\ writer'.manifest = writer.manifest
  BY <1>2, <1>3 DEF ExportTypeOK
<1>6. ExportTypeOK'
  BY <1>1, <1>2, <1>3, <1>4, ZenonT(30) DEF ExportTypeOK
<1>7. PartsAreFew'
  <2>1. next = "finish" => writer.part + Cardinality(walk.left) <= Cardinality(Media)
    BY <1>1 DEF ExportInv, PartsAreFew
  <2>2. next = "finish" => writer.part <= Cardinality(Media) + 1
    BY <1>3, <2>1, ExportNumbers, MediaCount
  <2> QED
    BY <1>1, <1>2, <1>3, <1>4, <1>5, <2>2 DEF PartsAreFew, Writing
<1>8. ASSUME NeverDeleted' PROVE OneWriter' /\ NothingIsLost' /\ ManifestIsBacked'
  <2>1. OneWriter
    BY <1>2, <1>8 DEF ExportInv, NeverDeleted
  <2>2. OneWriter'
    BY <1>1, <1>2, <1>4, <1>5, <2>1 DEF OneWriter, Writing
  <2>3. NothingIsLost'
    BY <1>1, <1>4 DEF NothingIsLost, Writing
  <2>4. ManifestIsBacked'
    <3>1. manifestPart' = 0 /\ 0 \notin partRows'
      BY <1>2, <1>3, <2>1, PartsAreNumbers DEF OneWriter
    <3> QED
      BY <3>1 DEF ManifestIsBacked
  <2> QED
    BY <2>2, <2>3, <2>4
<1>9. DeletesAreThorough' /\ DeletedExportIsGone'
  BY <1>2, <1>5 DEF ExportInv, DeletesAreThorough, DeletedExportIsGone
<1> QED
  BY <1>2, <1>3, <1>6, <1>7, <1>8, <1>9 DEF ExportInv

(* A step of a delete. *)
LEMMA DeleteStep ==
  ASSUME ExportInv, deletion'.begun, UNCHANGED <<content, writer, walk, exportTask, skipped, finishFailed, exportCrashes>>,
         exportRow' \in BOOLEAN, partRows' \subseteq partRows, objects' \subseteq objects, manifestPart' \in {0, manifestPart},
         deletion' \in [pc : {"idle", "objects", "export"}, left : SUBSET (1..MaxPart),
                        begun : BOOLEAN, late : BOOLEAN, answered : BOOLEAN],
         DeletesAreThorough', DeletedExportIsGone'
  PROVE  ExportInv'
<1>1. ExportTypeOK'
  <2>1. manifestPart' \in 0..MaxPart
    BY PartsAreNumbers DEF ExportInv, ExportTypeOK
  <2>2. partRows' \subseteq 1..MaxPart /\ objects' \subseteq 1..MaxPart
    BY DEF ExportInv, ExportTypeOK
  <2> QED
    BY <2>1, <2>2, ZenonT(30) DEF ExportInv, ExportTypeOK
<1>2. PartsAreFew'
  BY DEF ExportInv, PartsAreFew, Writing
<1> QED
  BY <1>1, <1>2 DEF ExportInv, NeverDeleted

LEMMA DeleteInv ==
  ASSUME ExportInv,
         DeleteBegins \/ (\E n \in 1..MaxPart : DeleteObject(n)) \/ DeletePartRows \/ DeleteRow \/ DeleteFails
  PROVE  ExportInv'
<1> USE DEF ExportInv
<1>0. /\ ExportTypeOK /\ DeletesAreThorough /\ exportRow \in BOOLEAN
      /\ deletion \in [pc : {"idle", "objects", "export"}, left : SUBSET (1..MaxPart),
                       begun : BOOLEAN, late : BOOLEAN, answered : BOOLEAN]
      /\ exportTask.ended \in BOOLEAN /\ partRows \in SUBSET (1..MaxPart)
  BY ExportFields DEF ExportTypeOK
<1>1. CASE DeleteBegins
  <2>1. /\ deletion' = [pc |-> "objects", left |-> partRows, begun |-> TRUE, answered |-> FALSE,
                        late |-> exportTask.ended /\ (deletion.begun => deletion.late)]
        /\ UNCHANGED <<exportRow, partRows, objects, content, manifestPart, writer, walk, exportTask, skipped,
                       finishFailed, exportCrashes>>
    BY <1>1 DEF DeleteBegins, tables
  <2>2. /\ deletion'.pc = "objects" /\ deletion'.left = partRows /\ deletion'.begun = TRUE /\ deletion'.answered = FALSE
        /\ deletion'.late = (exportTask.ended /\ (deletion.begun => deletion.late))
    BY <2>1
  <2>3. deletion' \in [pc : {"idle", "objects", "export"}, left : SUBSET (1..MaxPart),
                       begun : BOOLEAN, late : BOOLEAN, answered : BOOLEAN]
    BY <1>0, <2>1
  <2>4. DeletesAreThorough' /\ DeletedExportIsGone'
    BY <1>0, <2>1, <2>2 DEF DeletesAreThorough, DeletedExportIsGone
  <2> QED
    BY <1>0, <2>1, <2>2, <2>3, <2>4, DeleteStep
<1>2. ASSUME NEW n \in 1..MaxPart, DeleteObject(n) PROVE ExportInv'
  <2>1. /\ deletion.pc = "objects" /\ objects' = objects \ {n}
        /\ deletion' = [deletion EXCEPT !.left = deletion.left \ {n}]
        /\ UNCHANGED <<exportRow, partRows, content, manifestPart, writer, walk, exportTask, skipped,
                       finishFailed, exportCrashes>>
    BY <1>2 DEF DeleteObject
  <2>2. /\ deletion'.pc = "objects" /\ deletion'.left = deletion.left \ {n} /\ deletion'.begun = deletion.begun
        /\ deletion'.answered = deletion.answered /\ deletion'.late = deletion.late
    BY <1>0, <2>1
  <2>3. deletion' \in [pc : {"idle", "objects", "export"}, left : SUBSET (1..MaxPart),
                       begun : BOOLEAN, late : BOOLEAN, answered : BOOLEAN]
    BY <1>0, <2>1
  <2>4. DeletesAreThorough' /\ DeletedExportIsGone' /\ deletion.begun
    BY <1>0, <2>1, <2>2 DEF DeletesAreThorough, DeletedExportIsGone
  <2> QED
    BY <1>0, <2>1, <2>2, <2>3, <2>4, DeleteStep
<1>3. CASE DeletePartRows
  <2>1. /\ deletion.pc = "objects" /\ deletion.left = {} /\ partRows' = {} /\ manifestPart' = 0
        /\ deletion' = [deletion EXCEPT !.pc = "export"]
        /\ UNCHANGED <<exportRow, objects, content, writer, walk, exportTask, skipped,
                       finishFailed, exportCrashes>>
    BY <1>3 DEF DeletePartRows
  <2>2. /\ deletion'.pc = "export" /\ deletion'.left = deletion.left /\ deletion'.begun = deletion.begun
        /\ deletion'.answered = deletion.answered /\ deletion'.late = deletion.late
    BY <1>0, <2>1
  <2>3. deletion' \in [pc : {"idle", "objects", "export"}, left : SUBSET (1..MaxPart),
                       begun : BOOLEAN, late : BOOLEAN, answered : BOOLEAN]
    BY <1>0, <2>1
  <2>4. DeletesAreThorough' /\ DeletedExportIsGone' /\ deletion.begun
    BY <1>0, <2>1, <2>2 DEF DeletesAreThorough, DeletedExportIsGone
  <2> QED
    BY <1>0, <2>1, <2>2, <2>3, <2>4, DeleteStep
<1>4. CASE DeleteRow
  <2>1. /\ deletion.pc = "export" /\ exportRow' = FALSE
        /\ deletion' = [deletion EXCEPT !.pc = "idle", !.answered = TRUE]
        /\ UNCHANGED <<partRows, objects, content, manifestPart, writer, walk, exportTask, skipped,
                       finishFailed, exportCrashes>>
    BY <1>4 DEF DeleteRow
  <2>2. /\ deletion'.pc = "idle" /\ deletion'.left = deletion.left /\ deletion'.begun = deletion.begun
        /\ deletion'.late = deletion.late
    BY <1>0, <2>1
  <2>3. deletion' \in [pc : {"idle", "objects", "export"}, left : SUBSET (1..MaxPart),
                       begun : BOOLEAN, late : BOOLEAN, answered : BOOLEAN]
    BY <1>0, <2>1
  <2>4. DeletesAreThorough' /\ deletion.begun
    BY <1>0, <2>1, <2>2 DEF DeletesAreThorough
  <2>5. DeletedExportIsGone'
    BY <1>0, <2>1, <2>2 DEF DeletesAreThorough, DeletedExportIsGone
  <2> QED
    BY <1>0, <2>1, <2>2, <2>3, <2>4, <2>5, DeleteStep
<1>5. CASE DeleteFails
  <2>1. /\ deletion.pc # "idle"
        /\ deletion' = [deletion EXCEPT !.pc = "idle", !.left = {}]
        /\ UNCHANGED <<exportRow, partRows, objects, content, manifestPart, writer, walk, exportTask, skipped,
                       finishFailed, exportCrashes>>
    BY <1>5 DEF DeleteFails, tables
  <2>2. /\ deletion'.pc = "idle" /\ deletion'.begun = deletion.begun
        /\ deletion'.answered = deletion.answered /\ deletion'.late = deletion.late
    BY <1>0, <2>1
  <2>3. deletion' \in [pc : {"idle", "objects", "export"}, left : SUBSET (1..MaxPart),
                       begun : BOOLEAN, late : BOOLEAN, answered : BOOLEAN]
    BY <1>0, <2>1
  <2>4. DeletesAreThorough' /\ DeletedExportIsGone' /\ deletion.begun
    BY <1>0, <2>1, <2>2 DEF DeletesAreThorough, DeletedExportIsGone
  <2> QED
    BY <1>0, <2>1, <2>2, <2>3, <2>4, DeleteStep
<1> QED
  BY <1>1, <1>2, <1>3, <1>4, <1>5

LEMMA ExportNextInv == ExportInv /\ [ExportNext]_exportVars => ExportInv'
<1> SUFFICES ASSUME ExportInv, [ExportNext]_exportVars PROVE ExportInv'
  OBVIOUS
<1>1. CASE ExportStep
  <2>1. CASE PartExists
    BY <2>1, WriteEndsInv DEF PartExists, Writing
  <2> QED
    BY <1>1, <2>1, BeginInv, InsertExportInv, ListInv, SkipInv, AppendInv, WalkEndsInv, FinishInv, UploadPartInv,
       RecordPartInv, ManifestInv, EndInv, RestartInv DEF ExportStep
<1>2. CASE WriteFails
  BY <1>2, WriteEndsInv DEF WriteFails, Writing
<1>3. CASE UNCHANGED exportVars
  <2>1. ExportTypeOK'
    <3>1. /\ exportRow' = exportRow /\ partRows' = partRows /\ objects' = objects /\ content' = content
          /\ manifestPart' = manifestPart /\ writer' = writer /\ walk' = walk /\ exportTask' = exportTask
          /\ skipped' = skipped /\ finishFailed' = finishFailed /\ deletion' = deletion
          /\ exportCrashes' = exportCrashes
      BY <1>3 DEF exportVars
    <3>2. ExportTypeOK
      BY DEF ExportInv
    <3>3. /\ writer' \in [part : 1..MaxPart, tar : SUBSET Media, size : Nat, manifest : SUBSET Media, open : BOOLEAN]
          /\ deletion' \in [pc : {"idle", "objects", "export"}, left : SUBSET (1..MaxPart),
                            begun : BOOLEAN, late : BOOLEAN, answered : BOOLEAN]
          /\ walk' \in [pc : {"begin", "insert", "list", "next", "upload", "record", "finish", "manifest", "end",
                              "down"},
                        left : SUBSET Media, then : {"", "next", "manifest", "end"}, failed : BOOLEAN]
      BY <3>1, <3>2, ZenonT(30) DEF ExportTypeOK
    <3> QED
      BY <3>1, <3>2, <3>3 DEF ExportTypeOK
  <2>3. PartsAreFew'
    BY <1>3 DEF ExportInv, exportVars, PartsAreFew
  <2>4. DeletesAreThorough' /\ DeletedExportIsGone'
    BY <1>3 DEF ExportInv, exportVars, DeletesAreThorough, DeletedExportIsGone
  <2>5. NeverDeleted' = NeverDeleted /\ walk' = walk /\ exportTask' = exportTask
    BY <1>3 DEF exportVars, NeverDeleted
  <2>2. NeverDeleted => OneWriter' /\ NothingIsLost' /\ ManifestIsBacked'
    BY <1>3 DEF ExportInv, exportVars, OneWriter, NothingIsLost, ManifestIsBacked, NeverDeleted, Writing
  <2> QED
    BY <2>1, <2>2, <2>3, <2>4, <2>5 DEF ExportInv
<1> QED
  BY <1>1, <1>2, <1>3, ExportFailsInv, DeleteInv, CrashInv DEF ExportNext

LEMMA ExportInvariance == ExportSpec => []ExportInv
BY ExportInitInv, ExportNextInv, PTL DEF ExportSpec

(* The variables of an export keep their types: for any number of media of any *)
(* size there are never more than their number and two parts, and a part that  *)
(* is appended to is not full (writer.go:77-88, :186-187, :226).               *)
THEOREM ExportTypeCorrect == ExportSpec => []ExportTypeOK
<1>1. ExportInv => ExportTypeOK
  BY DEF ExportInv
<1> QED
  BY <1>1, ExportInvariance, PTL

(* Whatever fails on the way and however often the process crashes, an export  *)
(* that was not deleted has what its manifest names, one whose task ended      *)
(* quietly has everything, and a delete that met no task leaves nothing        *)
(* (writer.go:77-83, :235-238, export_data.go:40-50, exports.go:314-343).      *)
THEOREM ExportsAreHonest == ExportSpec => []ExportIsHonest
<1>1. ExportInv => ExportIsHonest
  <2> SUFFICES ASSUME ExportInv PROVE ExportIsHonest
    OBVIOUS
  <2>1. ManifestIsBacked
    BY DEF ExportInv, ManifestIsBacked
  <2>2. QuietExportIsComplete
    BY DEF ExportInv, QuietExportIsComplete, NothingIsLost, PartsAreFew
  <2>3. DeletedExportIsGone
    BY DEF ExportInv
  <2> QED
    BY <2>1, <2>2, <2>3 DEF ExportIsHonest
<1> QED
  BY <1>1, ExportInvariance, PTL

-----------------------------------------------------------------------------
(* Reloads and shutdown. *)

(* The types a proof needs; the bound on plugin processes is none of them. *)
ReloadShape ==
    /\ handling \in [{"web", "database"} -> {"ready", "stop", "init", "forward"}]
    /\ watch \in [Watchers -> Nat]
    /\ stopper \in [{"signal", "main"} -> 0..(Len(StopOrder) + 2)]
    /\ main \in {"waiting", "stopping", "gone"}
    /\ server \in [Servers -> ServerStates]
    /\ {reload, waitGroup, met} \subseteq BOOLEAN

(* No watcher met the shutdown, and the web server is the first one. *)
Calm == ~met /\ ~WebWasReloaded

WatchersAreDone == stopper["signal"] > 0 => \A w \in Watchers : watch[w] = 0

(* Channels are closed in order, by the signal handler alone, each by a       *)
(* goroutine that had nothing left to do.                                     *)
ChannelsCloseInOrder ==
    /\ stopper["main"] = 0 /\ main # "stopping"
    /\ \A i \in 1..13 : StopOrder[i] \in closed <=> i < stopper["signal"]
    /\ stopper["signal"] = 0 => closed = {}
    /\ \A c \in {"web", "database"} : c \in closed => handling[c] = "ready"

(* The first web server goes down for a reload that has not finished, or at   *)
(* the very end, two steps after the thirteen channels; only then main is     *)
(* woken up.                                                                  *)
ServerIsTheFirst ==
    /\ server[1] # "none"
    /\ srv = 1 \/ (srv = 0 /\ server[1] \in {"cleared", "ended"})
    /\ handling["web"] = "init" <=> reload
    /\ (handling["web"] # "init" /\ server[1] \in {"closed", "cleared", "ended"})
           => stopper["signal"] = 15
    /\ (waitGroup \/ main = "gone") => stopper["signal"] = 15

ReloadInv ==
    /\ ReloadShape
    /\ ~WebWasReloaded => /\ ChannelsCloseInOrder
                          /\ ServerIsTheFirst
                          /\ "plugin" \in closed => plugins = 0
    /\ Calm => crash \in {"", "connections left"} /\ WatchersAreDone

LEMMA StopOrderIs ==
  /\ Len(StopOrder) = 13 /\ DOMAIN StopOrder = 1..13 /\ 0..(Len(StopOrder) + 2) = 0..15
  /\ StopOrder[1] = "web" /\ StopOrder[3] = "database" /\ StopOrder[4] = "datastores" /\ StopOrder[8] = "plugin"
  /\ \A i, j \in 1..13 : StopOrder[i] = StopOrder[j] => i = j
<1>1. Len(StopOrder) = 13 /\ DOMAIN StopOrder = 1..13
  BY DEF StopOrder
<1>2. StopOrder[1] = "web" /\ StopOrder[3] = "database" /\ StopOrder[4] = "datastores" /\ StopOrder[8] = "plugin"
  BY DEF StopOrder
<1>3. ASSUME NEW i \in 1..13, NEW j \in 1..13, StopOrder[i] = StopOrder[j] PROVE i = j
  <2>1. i \in {1, 2, 3, 4, 5, 6, 7, 8, 9, 10, 11, 12, 13} /\ j \in {1, 2, 3, 4, 5, 6, 7, 8, 9, 10, 11, 12, 13}
    OBVIOUS
  <2> QED
    BY <1>3, <2>1 DEF StopOrder
<1>4. 0..(Len(StopOrder) + 2) = 0..15
  BY <1>1
<1> QED
  BY <1>1, <1>2, <1>3, <1>4

(* What a channel that is closed says about the signal handler. *)
LEMMA ClosedInOrder ==
  ASSUME ReloadInv, ~WebWasReloaded
  PROVE  /\ stopper["signal"] \in 0..15
         /\ \A i \in 1..13 : StopOrder[i] \in closed <=> i < stopper["signal"]
         /\ "web" \in closed <=> stopper["signal"] > 1
         /\ "database" \in closed <=> stopper["signal"] > 3
         /\ "datastores" \in closed <=> stopper["signal"] > 4
         /\ "plugin" \in closed <=> stopper["signal"] > 8
         /\ stopper["signal"] = 0 => closed = {}
<1>1. stopper["signal"] \in 0..15
  BY StopOrderIs DEF ReloadInv, ReloadShape
<1>3. \A i \in 1..13 : StopOrder[i] \in closed <=> i < stopper["signal"]
  BY DEF ReloadInv, ChannelsCloseInOrder
<1>4. stopper["signal"] = 0 => closed = {}
  BY DEF ReloadInv, ChannelsCloseInOrder
<1>5. "web" = StopOrder[1] /\ "database" = StopOrder[3] /\ "datastores" = StopOrder[4] /\ "plugin" = StopOrder[8]
  BY StopOrderIs
<1>6. /\ StopOrder[1] \in closed <=> 1 < stopper["signal"]
      /\ StopOrder[3] \in closed <=> 3 < stopper["signal"]
      /\ StopOrder[4] \in closed <=> 4 < stopper["signal"]
      /\ StopOrder[8] \in closed <=> 8 < stopper["signal"]
  BY <1>3
<1>7. /\ "web" \in closed <=> 1 < stopper["signal"]
      /\ "database" \in closed <=> 3 < stopper["signal"]
      /\ "datastores" \in closed <=> 4 < stopper["signal"]
      /\ "plugin" \in closed <=> 8 < stopper["signal"]
  BY <1>5, <1>6
<1> QED
  BY <1>1, <1>3, <1>4, <1>7

LEMMA ReloadInitInv == ReloadInit => ReloadInv
<1> SUFFICES ASSUME ReloadInit PROVE ReloadInv
  OBVIOUS
<1>1. 1 \in Servers
  BY ReloadAssumption DEF Servers
<1>2. ReloadShape
  <2>1. stopper \in [{"signal", "main"} -> 0..15]
    <3>1. 0 \in 0..15
      OBVIOUS
    <3> QED
      BY <3>1 DEF ReloadInit
  <2> QED
    BY <2>1, StopOrderIs DEF ReloadInit, ReloadShape, ServerStates
<1>3. \A i \in 1..13 : StopOrder[i] \in closed <=> i < stopper["signal"]
  <2>1. stopper["signal"] = 0 /\ closed = {}
    BY DEF ReloadInit
  <2> QED
    BY <2>1
<1> QED
  BY <1>1, <1>2, <1>3 DEF ReloadInit, ReloadInv, ChannelsCloseInOrder, ServerIsTheFirst, WatchersAreDone

(* A server that was started is never taken back. *)
LEMMA CalmBefore ==
  ASSUME ReloadInv, [ReloadNext]_reloadVars
  PROVE  (~WebWasReloaded' => ~WebWasReloaded) /\ (Calm' => Calm)
<1>1. \A s \in Servers : server[s] # "none" => server'[s] # "none"
  BY DEF ReloadInv, ReloadShape, ReloadNext, ReloadStep, FileChanges, SkipUnchanged, SendReload, Panic,
     ForwardToDatastores, ReloadStops, ShutdownServer, ReloadInits, Listen, ClearSrv, NotifyMain, Signal, SendStop,
     StopWeb, MainContinues, MainEnds, webVars, reloadVars
<1>2. met => met'
  BY DEF ReloadNext, ReloadStep, FileChanges, SkipUnchanged, SendReload, Panic,
     ForwardToDatastores, ReloadStops, ReloadInits, Listen, ClearSrv, NotifyMain, Signal, SendStop,
     StopWeb, MainContinues, MainEnds, reloadVars
<1> QED
  BY <1>1, <1>2 DEF Calm, WebWasReloaded

LEMMA ReloadShapeNext == ReloadInv /\ [ReloadNext]_reloadVars => ReloadShape'
<1> SUFFICES ASSUME ReloadShape, [ReloadNext]_reloadVars PROVE ReloadShape'
  BY DEF ReloadInv
<1>0. Len(ReloadOrder) = 13 /\ 0 \in 0..(Len(StopOrder) + 2) /\ 1 \in 0..(Len(StopOrder) + 2)
  BY StopOrderIs DEF ReloadOrder
<1>1. ASSUME NEW w \in Watchers PROVE NextStop(w) \in [Watchers -> Nat]
  BY <1>0 DEF NextStop, ReloadShape
<1>2. ASSUME NEW p \in {"signal", "main"}, stopper[p] \in 0..14
      PROVE  [stopper EXCEPT ![p] = @ + 1] \in [{"signal", "main"} -> 0..(Len(StopOrder) + 2)]
  <2>1. stopper[p] + 1 \in 0..15
    BY <1>2
  <2> QED
    BY <2>1, StopOrderIs DEF ReloadShape
<1>3. ASSUME ShutdownServer PROVE server' \in [Servers -> ServerStates]
  BY <1>3 DEF ShutdownServer, ReloadShape, ServerStates
<1>4. ASSUME NEW w \in Watchers, FileChanges(w) \/ SkipUnchanged(w) \/ SendReload(w) PROVE ReloadShape'
  <2>1. CASE FileChanges(w)
    BY <2>1 DEF FileChanges, ReloadShape, webVars, Stopping
  <2>2. CASE SkipUnchanged(w)
    BY <1>1, <2>2 DEF SkipUnchanged, ReloadShape, webVars
  <2>3. CASE SendReload(w)
    BY <1>1, <2>3 DEF SendReload, Panic, ReloadShape, webVars
  <2> QED
    BY <1>4, <2>1, <2>2, <2>3
<1>5. CASE ForwardToDatastores
  BY <1>5 DEF ForwardToDatastores, Panic, ReloadShape, webVars
<1>6. CASE ReloadStops
  BY <1>3, <1>6 DEF ReloadStops, Panic, ReloadShape, webVars
<1>7. CASE ReloadInits
  BY <1>7 DEF ReloadInits, ReloadShape, ServerStates
<1>8. ASSUME NEW s \in Servers, Listen(s) \/ ClearSrv(s) \/ NotifyMain(s) PROVE ReloadShape'
  BY <1>8 DEF Listen, ClearSrv, NotifyMain, Panic, ReloadShape, ServerStates, webVars
<1>9. ASSUME NEW p \in {"signal", "main"}, SendStop(p) PROVE ReloadShape'
  <2>1. stopper[p] \in 0..14
    <3>1. PICK n \in DOMAIN StopOrder : n = stopper[p]
      BY <1>9 DEF SendStop
    <3>2. n \in 1..13
      BY StopOrderIs
    <3> QED
      BY <3>1, <3>2
  <2> QED
    BY <1>2, <1>9, <2>1 DEF SendStop, Panic, ReloadShape, webVars
<1>10. CASE StopWeb
  <2>1. stopper["signal"] \in 0..14
    <3>1. stopper["signal"] = 13 + 1
      BY <1>10, StopOrderIs DEF StopWeb
    <3> QED
      BY <3>1
  <2> QED
    BY <1>2, <1>3, <1>10, <2>1 DEF StopWeb, Panic, ReloadShape, webVars
<1>11. CASE Signal \/ MainContinues \/ MainEnds
  BY <1>0, <1>11 DEF Signal, MainContinues, MainEnds, ReloadShape, webVars
<1>12. CASE UNCHANGED reloadVars
  BY <1>12 DEF reloadVars, webVars, ReloadShape
<1> QED
  BY <1>4, <1>5, <1>6, <1>7, <1>8, <1>9, <1>10, <1>11, <1>12 DEF ReloadNext, ReloadStep

LEMMA SameServer ==
  ASSUME ServerIsTheFirst, UNCHANGED <<server, srv, reload, waitGroup, main, stopper>>,
         handling'["web"] = handling["web"]
  PROVE  ServerIsTheFirst'
BY DEF ServerIsTheFirst

LEMMA SameChannels ==
  ASSUME ChannelsCloseInOrder, UNCHANGED <<closed, stopper, main>>,
         \A c \in {"web", "database"} : c \in closed => handling'[c] = "ready"
  PROVE  ChannelsCloseInOrder'
BY DEF ChannelsCloseInOrder

(* While the web server is the first one, the order of the channels is kept. *)
LEMMA ChannelsNextInv ==
  ASSUME ReloadInv, [ReloadNext]_reloadVars, ~WebWasReloaded'
  PROVE  /\ ChannelsCloseInOrder'
         /\ ServerIsTheFirst'
         /\ "plugin" \in closed' => plugins' = 0
<1>1. ~WebWasReloaded /\ ReloadShape /\ ReloadShape'
  BY CalmBefore, ReloadShapeNext DEF ReloadInv
<1>2. ChannelsCloseInOrder /\ ServerIsTheFirst /\ ("plugin" \in closed => plugins = 0)
  BY <1>1 DEF ReloadInv
<1>3. 1 \in Servers /\ \A s \in Servers : s # 1 => server[s] = "none" /\ server'[s] = "none"
  BY <1>1, ReloadAssumption DEF WebWasReloaded, Servers
<1>4. PICK n \in 0..15 :
          /\ n = stopper["signal"]
          /\ "web" \in closed <=> n > 1
          /\ "database" \in closed <=> n > 3
          /\ "datastores" \in closed <=> n > 4
          /\ "plugin" \in closed <=> n > 8
          /\ n = 0 => closed = {}
  BY <1>1, ClosedInOrder
<1>5. /\ stopper["main"] = 0 /\ main # "stopping"
      /\ \A i \in 1..13 : StopOrder[i] \in closed <=> i < n
      /\ \A c \in {"web", "database"} : c \in closed => handling[c] = "ready"
  BY <1>2, <1>4 DEF ChannelsCloseInOrder
<1>6. CASE UNCHANGED <<closed, handling, stopper, main, server, srv, reload, waitGroup, plugins>>
  <2>1. ServerIsTheFirst'
    BY <1>2, <1>6, SameServer
  <2>2. \A c \in {"web", "database"} : c \in closed => handling'[c] = "ready"
    BY <1>5, <1>6
  <2>3. ChannelsCloseInOrder'
    BY <1>2, <1>6, <2>2, SameChannels
  <2> QED
    BY <1>2, <1>6, <2>1, <2>3
<1>7. CASE (\E why \in Crashes : Panic(why)) \/ (\E w \in Watchers : FileChanges(w) \/ SkipUnchanged(w)) \/ UNCHANGED reloadVars
  BY <1>6, <1>7 DEF Panic, FileChanges, SkipUnchanged, webVars, reloadVars
<1>8. CASE (\E w \in Watchers : SendReload(w)) /\ ~\E why \in Crashes : Panic(why)
  <2>1. PICK w \in Watchers : SendReload(w)
    BY <1>8
  <2>3. PICK c : c = ReloadOrder[watch[w]]
    OBVIOUS
  <2>4. /\ UNCHANGED <<closed, stopper, main, server, srv, reload, waitGroup, crash>>
        /\ plugins' = IF c = "plugin" THEN plugins + Plugins ELSE plugins
    BY <1>8, <2>1, <2>3 DEF SendReload, webVars, Crashes
  <2>5. /\ c \notin closed
        /\ c = "web" => handling["web"] = "ready"
        /\ handling' = CASE c = "web" -> [handling EXCEPT ![c] = "stop"]
                          [] c = "database" -> [handling EXCEPT ![c] = "forward"]
                          [] OTHER -> handling
    BY <1>1, <1>8, <2>1, <2>3 DEF SendReload, Receives, ReloadShape, Crashes
  <2>6. ServerIsTheFirst'
    <3>1. CASE c = "web"
      <4>1. handling["web"] = "ready" /\ handling'["web"] = "stop"
        BY <1>1, <2>5, <3>1 DEF ReloadShape
      <4> QED
        BY <1>2, <2>4, <4>1 DEF ServerIsTheFirst
    <3>2. CASE c # "web"
      <4>1. handling'["web"] = handling["web"]
        BY <1>1, <2>5, <3>2 DEF ReloadShape
      <4> QED
        BY <1>2, <2>4, <4>1, SameServer
    <3> QED
      BY <3>1, <3>2
  <2>7. ASSUME NEW d \in {"web", "database"}, d \in closed PROVE handling'[d] = "ready"
    <3>1. d # c /\ handling[d] = "ready"
      BY <1>5, <2>5, <2>7
    <3> QED
      BY <1>1, <2>5, <3>1 DEF ReloadShape
  <2>8. ChannelsCloseInOrder'
    BY <1>2, <2>4, <2>7, SameChannels
  <2> QED
    BY <1>2, <2>4, <2>5, <2>6, <2>8
<1>9. CASE ForwardToDatastores /\ ~\E why \in Crashes : Panic(why)
  <2>2. /\ UNCHANGED <<closed, watch, stopper, main, server, srv, reload, waitGroup, plugins, crash>>
        /\ handling' = [handling EXCEPT !["database"] = "ready"]
    BY <1>9 DEF ForwardToDatastores, webVars, Crashes
  <2>3. handling'["web"] = handling["web"] /\ handling'["database"] = "ready"
    BY <1>1, <2>2 DEF ReloadShape
  <2>4. ServerIsTheFirst'
    BY <1>2, <2>2, <2>3, SameServer
  <2>5. \A c \in {"web", "database"} : c \in closed => handling'[c] = "ready"
    BY <1>5, <2>3
  <2>6. ChannelsCloseInOrder'
    BY <1>2, <2>2, <2>5, SameChannels
  <2> QED
    BY <1>2, <2>2, <2>4, <2>6
<1>10. CASE ReloadStops /\ ~\E why \in Crashes : Panic(why)
  <2>1. /\ handling["web"] = "stop" /\ reload' = TRUE /\ handling' = [handling EXCEPT !["web"] = "init"]
        /\ UNCHANGED <<closed, watch, stopper, main, srv, waitGroup, plugins, crash>> /\ ShutdownServer
    BY <1>10 DEF ReloadStops, Crashes
  <2>2. handling'["web"] = "init" /\ handling'["database"] = handling["database"] /\ "web" \notin closed
    BY <1>1, <1>5, <2>1 DEF ReloadShape
  <2>3. /\ server'[1] # "none"
        /\ server[1] \in {"cleared", "ended"} => server'[1] = server[1]
    BY <1>1, <1>2, <1>3, <2>1 DEF ShutdownServer, ServerIsTheFirst, ReloadShape
  <2>4. ServerIsTheFirst'
    BY <1>2, <2>1, <2>2, <2>3 DEF ServerIsTheFirst
  <2>5. \A c \in {"web", "database"} : c \in closed => handling'[c] = "ready"
    BY <1>5, <2>2
  <2>6. ChannelsCloseInOrder'
    BY <1>2, <2>1, <2>5, SameChannels
  <2> QED
    BY <1>2, <2>1, <2>4, <2>6
<1>11. CASE ReloadInits
  <2>1. PICK s \in Servers : server[s] = "none" /\ server' = [server EXCEPT ![s] = "starting"]
    BY <1>11 DEF ReloadInits
  <2>2. server[1] # "none"
    BY <1>2 DEF ServerIsTheFirst
  <2> QED
    BY <1>1, <1>3, <2>1, <2>2 DEF ReloadShape
<1>12. CASE (\E s \in Servers : Listen(s) \/ ClearSrv(s) \/ NotifyMain(s)) /\ ~\E why \in Crashes : Panic(why)
  <2>1. /\ Listen(1) \/ ClearSrv(1) \/ NotifyMain(1)
    BY <1>3, <1>12 DEF Listen, ClearSrv, NotifyMain
  <2>3. UNCHANGED <<closed, handling, watch, stopper, main, reload, plugins, crash>>
    BY <1>12, <2>1 DEF Listen, ClearSrv, NotifyMain, Crashes
  <2>4. ServerIsTheFirst'
    <3>1. CASE Listen(1)
      <4>1. server[1] = "starting" /\ server'[1] = "listening" /\ srv' = srv /\ waitGroup' = waitGroup
        BY <1>1, <1>3, <1>12, <3>1, ZenonT(30) DEF Listen, ReloadShape, Crashes
      <4> QED
        BY <1>2, <2>3, <4>1 DEF ServerIsTheFirst
    <3>2. CASE ClearSrv(1)
      <4>1. server[1] = "closed" /\ server'[1] = "cleared" /\ srv' = 0 /\ waitGroup' = waitGroup
        BY <1>1, <1>3, <3>2 DEF ClearSrv, ReloadShape
      <4> QED
        BY <1>2, <2>3, <4>1 DEF ServerIsTheFirst
    <3>3. CASE NotifyMain(1)
      <4>1. server[1] = "cleared" /\ server'[1] = "ended" /\ srv' = srv /\ waitGroup' = (waitGroup \/ ~reload)
        BY <1>1, <1>3, <3>3 DEF NotifyMain, ReloadShape
      <4> QED
        BY <1>2, <2>3, <4>1 DEF ServerIsTheFirst
    <3> QED
      BY <2>1, <3>1, <3>2, <3>3
  <2>5. \A c \in {"web", "database"} : c \in closed => handling'[c] = "ready"
    BY <1>5, <2>3
  <2>6. ChannelsCloseInOrder'
    BY <1>2, <2>3, <2>5, SameChannels
  <2> QED
    BY <1>2, <2>3, <2>4, <2>6
<1>13. CASE Signal
  <2>1. /\ n = 0 /\ stopper' = [stopper EXCEPT !["signal"] = 1]
        /\ UNCHANGED <<closed, handling, watch, main, server, srv, reload, waitGroup, plugins, crash>>
    BY <1>4, <1>13 DEF Signal, webVars
  <2>2. stopper'["signal"] = 1 /\ stopper'["main"] = 0 /\ closed = {}
    BY <1>1, <1>4, <1>5, <2>1 DEF ReloadShape
  <2>4. \A i \in 1..13 : StopOrder[i] \in closed' <=> i < stopper'["signal"]
    BY <2>1, <2>2
  <2>5. ChannelsCloseInOrder'
    BY <1>5, <2>1, <2>2, <2>4 DEF ChannelsCloseInOrder
  <2>6. ServerIsTheFirst'
    <3>1. stopper["signal"] # 15
      BY <1>4, <2>1
    <3> QED
      BY <1>2, <2>1, <3>1 DEF ServerIsTheFirst
  <2> QED
    BY <1>2, <2>1, <2>5, <2>6
<1>14. CASE (\E p \in {"signal", "main"} : SendStop(p)) /\ ~\E why \in Crashes : Panic(why)
  <2>1. SendStop("signal") /\ n \in 1..13
    <3>1. PICK p \in {"signal", "main"} : SendStop(p) /\ stopper[p] \in 1..13
      BY <1>14, StopOrderIs DEF SendStop
    <3> QED
      BY <1>4, <1>5, <3>1
  <2>2. PICK c : c = StopOrder[n]
    OBVIOUS
  <2>3. c \notin closed
    BY <1>5, <2>1, <2>2
  <2>4. /\ closed' = closed \cup {c} /\ stopper' = [stopper EXCEPT !["signal"] = @ + 1]
        /\ plugins' = IF c = "plugin" THEN 0 ELSE plugins
        /\ UNCHANGED <<handling, watch, main, server, srv, reload, waitGroup, crash>>
        /\ c \in {"web", "database"} => handling[c] = "ready"
    BY <1>1, <1>4, <2>1, <2>2, <2>3 DEF SendStop, Receives, ReloadShape, webVars
  <2>5. stopper'["signal"] = n + 1 /\ stopper'["main"] = 0
    BY <1>1, <1>4, <1>5, <2>4 DEF ReloadShape
  <2>6. ChannelsCloseInOrder'
    <3>1. \A i \in 1..13 : StopOrder[i] \in closed' <=> i < stopper'["signal"]
      <4> SUFFICES ASSUME NEW i \in 1..13 PROVE StopOrder[i] \in closed' <=> i < n + 1
        BY <2>5
      <4>1. CASE i = n
        BY <2>1, <2>2, <2>4, <4>1
      <4>2. CASE i # n
        <5>1. StopOrder[i] # c
          BY <2>1, <2>2, <4>2, StopOrderIs
        <5>2. i < n + 1 <=> i < n
          BY <2>1, <4>2
        <5> QED
          BY <1>5, <2>4, <5>1, <5>2
      <4> QED
        BY <4>1, <4>2
    <3>2. \A c1 \in {"web", "database"} : c1 \in closed' => handling'[c1] = "ready"
      BY <1>5, <2>4
    <3>4. stopper'["signal"] # 0
      BY <2>1, <2>5
    <3> QED
      BY <1>5, <2>4, <2>5, <3>1, <3>2, <3>4 DEF ChannelsCloseInOrder
  <2>7. ServerIsTheFirst'
    <3>1. stopper["signal"] # 15
      BY <1>4, <2>1
    <3> QED
      BY <1>2, <2>4, <3>1 DEF ServerIsTheFirst
  <2> QED
    BY <1>2, <2>4, <2>6, <2>7
<1>15. CASE StopWeb /\ ~\E why \in Crashes : Panic(why)
  <2>1. /\ stopper["signal"] = 14 /\ ShutdownServer /\ stopper' = [stopper EXCEPT !["signal"] = @ + 1]
        /\ UNCHANGED <<closed, handling, watch, main, srv, reload, waitGroup, plugins, crash>>
    <3>1. Len(StopOrder) + 1 = 14
      BY StopOrderIs
    <3> QED
      BY <1>15, <3>1 DEF StopWeb, Crashes
  <2>2. stopper'["signal"] = 15 /\ stopper'["main"] = 0
    BY <1>1, <1>5, <2>1 DEF ReloadShape
  <2>3. ChannelsCloseInOrder'
    <3>1. n = 14
      BY <1>4, <2>1
    <3>2. \A i \in 1..13 : StopOrder[i] \in closed' <=> i < stopper'["signal"]
      BY <1>5, <2>1, <2>2, <3>1
    <3> QED
      BY <1>5, <2>1, <2>2, <3>2 DEF ChannelsCloseInOrder
  <2>4. /\ server'[1] # "none"
        /\ server[1] \in {"cleared", "ended"} => server'[1] = server[1]
    BY <1>1, <1>2, <1>3, <2>1 DEF ShutdownServer, ServerIsTheFirst, ReloadShape
  <2>5. ServerIsTheFirst'
    BY <1>2, <2>1, <2>2, <2>4 DEF ServerIsTheFirst
  <2> QED
    BY <1>2, <2>1, <2>3, <2>5
<1>16. CASE MainContinues
  <2>1. waitGroup /\ stopper["signal"] = 15
    BY <1>2, <1>16 DEF MainContinues, ServerIsTheFirst
  <2>2. /\ main' = "gone" /\ UNCHANGED <<closed, handling, watch, stopper, server, srv, reload, waitGroup, plugins, crash>>
    BY <1>16, <2>1 DEF MainContinues, webVars
  <2>3. ChannelsCloseInOrder'
    BY <1>2, <2>2 DEF ChannelsCloseInOrder
  <2>4. ServerIsTheFirst'
    BY <1>2, <2>1, <2>2 DEF ServerIsTheFirst
  <2> QED
    BY <1>2, <2>2, <2>3, <2>4
<1>17. ~MainEnds
  BY <1>5 DEF MainEnds
<1> QED
  BY <1>7, <1>8, <1>9, <1>10, <1>11, <1>12, <1>13, <1>14, <1>15, <1>16, <1>17 DEF ReloadNext, ReloadStep

(* Nobody panics at a send, or for want of a server, while all is calm. *)
LEMMA ReloadNextInv == ReloadInv /\ [ReloadNext]_reloadVars => ReloadInv'
<1> SUFFICES ASSUME ReloadInv, [ReloadNext]_reloadVars, Calm'
             PROVE  crash' \in {"", "connections left"} /\ WatchersAreDone'
  BY ReloadShapeNext, ChannelsNextInv DEF ReloadInv
<1>1. Calm /\ ~WebWasReloaded /\ ReloadShape /\ crash \in {"", "connections left"} /\ WatchersAreDone
  BY CalmBefore DEF ReloadInv, Calm
<1>2. ChannelsCloseInOrder /\ ServerIsTheFirst
  BY <1>1 DEF ReloadInv
<1>3. PICK n \in 0..15 :
          /\ n = stopper["signal"]
          /\ "database" \in closed <=> n > 3
          /\ "datastores" \in closed <=> n > 4
          /\ n = 0 => closed = {}
          /\ \A i \in 1..13 : StopOrder[i] \in closed <=> i < n
  BY <1>1, ClosedInOrder
<1>4. ASSUME NEW w \in Watchers, watch[w] > 0 PROVE n = 0 /\ closed = {}
  <2>1. n > 0 => watch[w] = 0
    BY <1>1, <1>3 DEF WatchersAreDone
  <2> QED
    BY <1>3, <1>4, <2>1
<1>5. "datastores" \in closed => handling["database"] # "forward"
  BY <1>2, <1>3 DEF ChannelsCloseInOrder
<1>6. ASSUME NEW s \in Servers, server[s] = "starting" PROVE srv # 0
  <2>1. s = 1
    BY <1>1, <1>6 DEF WebWasReloaded
  <2>2. srv = 1 \/ server[1] \in {"cleared", "ended"}
    BY <1>2 DEF ServerIsTheFirst
  <2> QED
    BY <1>6, <2>1, <2>2
<1>7. ASSUME NEW p \in {"signal", "main"}, stopper[p] \in DOMAIN StopOrder PROVE StopOrder[stopper[p]] \notin closed
  <2>1. stopper[p] \in 1..13
    BY <1>7, StopOrderIs
  <2>2. stopper["main"] = 0
    BY <1>2 DEF ChannelsCloseInOrder
  <2>3. p = "signal" /\ n \in 1..13 /\ stopper[p] = n
    BY <1>3, <2>1, <2>2
  <2> QED
    BY <1>3, <2>3
<1>8. crash' \in {"", "connections left"}
  <2>1. CASE \E w \in Watchers : FileChanges(w) \/ SkipUnchanged(w) \/ SendReload(w)
    BY <1>1, <1>4, <2>1 DEF FileChanges, SkipUnchanged, SendReload, Panic
  <2>2. CASE ForwardToDatastores \/ ReloadStops \/ ReloadInits
    BY <1>1, <1>5, <2>2 DEF ForwardToDatastores, ReloadStops, ReloadInits, Panic
  <2>3. CASE \E s \in Servers : Listen(s) \/ ClearSrv(s) \/ NotifyMain(s)
    BY <1>1, <1>6, <2>3 DEF Listen, ClearSrv, NotifyMain
  <2>4. CASE \E p \in {"signal", "main"} : SendStop(p)
    BY <1>1, <1>7, <2>4 DEF SendStop
  <2>5. CASE StopWeb \/ Signal \/ MainContinues \/ MainEnds \/ UNCHANGED reloadVars
    BY <1>1, <2>5 DEF StopWeb, Panic, Signal, MainContinues, MainEnds, reloadVars
  <2> QED
    BY <2>1, <2>2, <2>3, <2>4, <2>5 DEF ReloadNext, ReloadStep
<1>9. WatchersAreDone'
  <2>1. CASE \E w \in Watchers : FileChanges(w)
    BY <1>1, <2>1 DEF FileChanges, Calm, Stopping, WatchersAreDone
  <2>2. CASE \E w \in Watchers : SkipUnchanged(w) \/ SendReload(w)
    <3>1. n = 0
      BY <1>4, <2>2 DEF SkipUnchanged, SendReload
    <3>2. stopper' = stopper
      BY <2>2 DEF SkipUnchanged, SendReload, Panic
    <3>3. ~(stopper'["signal"] > 0)
      <4>1. stopper'["signal"] = 0
        BY <1>3, <3>1, <3>2
      <4> QED
        BY <4>1
    <3> QED
      BY <3>3 DEF WatchersAreDone
  <2>3. CASE Signal
    <3>1. watch' = watch /\ \A w \in Watchers : ~(watch[w] > 0) /\ watch[w] \in Nat
      BY <1>1, <2>3 DEF Signal, Calm, ReloadShape
    <3>2. \A w \in Watchers : watch[w] = 0
      BY <3>1
    <3> QED
      BY <3>1, <3>2 DEF WatchersAreDone
  <2>4. CASE watch' = watch /\ (stopper'["signal"] > 0 => stopper["signal"] > 0)
    BY <1>1, <2>4 DEF WatchersAreDone
  <2>5. ASSUME NEW p \in {"signal", "main"}, SendStop(p) PROVE watch' = watch /\ (stopper'["signal"] > 0 => n > 0)
    <3>1. stopper[p] \in 1..13
      BY <2>5, StopOrderIs DEF SendStop
    <3>2. p = "signal" /\ n \in 1..13
      BY <1>2, <1>3, <3>1 DEF ChannelsCloseInOrder
    <3>3. n > 0
      BY <3>2
    <3> QED
      BY <2>5, <3>3 DEF SendStop, Panic
  <2>6. CASE StopWeb
    <3>1. Len(StopOrder) + 1 = 14
      BY StopOrderIs
    <3>2. n = 14
      BY <1>3, <2>6, <3>1 DEF StopWeb
    <3>3. stopper["signal"] > 0
      BY <1>3, <3>2
    <3> QED
      BY <2>4, <2>6, <3>3 DEF StopWeb, Panic
  <2>7. CASE MainContinues
    BY <1>1, <2>4, <2>7 DEF MainContinues, ReloadShape
  <2>8. CASE MainEnds \/ ForwardToDatastores \/ ReloadStops \/ ReloadInits \/ UNCHANGED reloadVars
    BY <2>4, <2>8 DEF MainEnds, ForwardToDatastores, ReloadStops, ReloadInits, Panic, reloadVars
  <2>9. CASE \E s \in Servers : Listen(s) \/ ClearSrv(s) \/ NotifyMain(s)
    BY <2>4, <2>9 DEF Listen, ClearSrv, NotifyMain, Panic
  <2> QED
    BY <1>3, <2>1, <2>2, <2>3, <2>4, <2>5, <2>6, <2>7, <2>8, <2>9 DEF ReloadNext, ReloadStep
<1> QED
  BY <1>8, <1>9

(* As long as no reload is under way when the process is told to stop and the *)
(* web server was never replaced, whatever order watchers, goroutines and     *)
(* stops take turns in, nobody sends on a closed channel (reloads.go:38-66,   *)
(* :104) and no plugin process outlives the process (manager.go:32-42).       *)
THEOREM ShutdownsAreOrderly == ReloadSpec => []ShutdownIsOrderly
<1>1. ReloadInv => ShutdownIsOrderly
  <2> SUFFICES ASSUME ReloadInv PROVE ShutdownIsOrderly
    OBVIOUS
  <2>1. OrderlyShutdownNeverPanics
    BY DEF ReloadInv, Calm, OrderlyShutdownNeverPanics
  <2>2. NoPluginIsLeftBehind
    <3> SUFFICES ASSUME main = "gone", ~WebWasReloaded PROVE plugins = 0
      BY DEF NoPluginIsLeftBehind
    <3>1. stopper["signal"] = 15 /\ ("plugin" \in closed => plugins = 0)
      BY DEF ReloadInv, ServerIsTheFirst
    <3>2. "plugin" \in closed <=> 15 > 8
      BY <3>1, ClosedInOrder
    <3> QED
      BY <3>1, <3>2
  <2> QED
    BY <2>1, <2>2 DEF ShutdownIsOrderly
<1> QED
  BY <1>1, ReloadInitInv, ReloadNextInv, PTL DEF ReloadSpec

(* Watchers that have yet to reach the plugins. *)
BeforePlugins == {w \in Watchers : watch[w] \in 1..11}

(* Every start of the plugins is of one change, whose watcher has passed them. *)
PluginsAreCounted ==
    /\ plugins \in Nat
    /\ IsFiniteSet(BeforePlugins)
    /\ \E n \in Nat : plugins <= Plugins * n /\ n + Cardinality(BeforePlugins) <= changes + 1

ReloadBounds ==
    /\ closed \subseteq ReloadChans
    /\ watch \in [Watchers -> 0..13]
    /\ changes \in 0..MaxChanges
    /\ srv \in Servers \cup {0}
    /\ crash \in Crashes
    /\ PluginsAreCounted

LEMMA ReloadOrderIs ==
    /\ Len(ReloadOrder) = 13
    /\ \A i \in 1..13 : ReloadOrder[i] = "plugin" => i = 11
    /\ \A i \in 1..13 : StopOrder[i] \in ReloadChans
<1>1. \A i \in 1..13 : i \in {1, 2, 3, 4, 5, 6, 7, 8, 9, 10, 11, 12, 13}
  OBVIOUS
<1>2. Len(ReloadOrder) = 13 /\ DOMAIN ReloadOrder = 1..13
  BY DEF ReloadOrder
<1>3. ASSUME NEW i \in 1..13, ReloadOrder[i] = "plugin" PROVE i = 11
  BY <1>1, <1>3 DEF ReloadOrder
<1>4. \A i \in 1..13 : ReloadOrder[i] \in ReloadChans
  BY <1>2 DEF ReloadChans
<1>5. \A i \in 1..13 : \E j \in 1..13 : StopOrder[i] = ReloadOrder[j]
  <2> SUFFICES ASSUME NEW i \in 1..13 PROVE \E j \in 1..13 : StopOrder[i] = ReloadOrder[j]
    OBVIOUS
  <2>1. /\ 1 \in 1..13 /\ 2 \in 1..13 /\ 3 \in 1..13 /\ 4 \in 1..13 /\ 5 \in 1..13 /\ 6 \in 1..13 /\ 7 \in 1..13
        /\ 8 \in 1..13 /\ 9 \in 1..13 /\ 10 \in 1..13 /\ 11 \in 1..13 /\ 12 \in 1..13 /\ 13 \in 1..13
    OBVIOUS
  <2>2. StopOrder[i] \in {"web", "metrics", "database", "datastores", "accessToken", "recurringTasks", "cache",
                          "plugin", "pool", "errorCache", "matrixCaches", "pgo", "buckets"}
    BY <1>1 DEF StopOrder
  <2>3. /\ ReloadOrder[1] = "pool" /\ ReloadOrder[2] = "errorCache" /\ ReloadOrder[3] = "matrixCaches"
        /\ ReloadOrder[4] = "web" /\ ReloadOrder[5] = "metrics" /\ ReloadOrder[6] = "database"
        /\ ReloadOrder[7] = "cache" /\ ReloadOrder[8] = "buckets" /\ ReloadOrder[9] = "accessToken"
        /\ ReloadOrder[10] = "datastores" /\ ReloadOrder[11] = "plugin" /\ ReloadOrder[12] = "recurringTasks"
        /\ ReloadOrder[13] = "pgo"
    BY DEF ReloadOrder
  <2> QED
    BY <2>1, <2>2, <2>3, Zenon
<1>6. \A i \in 1..13 : StopOrder[i] \in ReloadChans
  BY <1>4, <1>5
<1> QED
  BY <1>2, <1>3, <1>6

LEMMA Times ==
    ASSUME NEW k \in Nat, NEW n \in Nat, NEW m \in Nat, n <= m
    PROVE  k * n <= k * m /\ k * n \in Nat /\ k * (n + 1) = k * n + k
<1>1. k * n \in Nat /\ k * (m - n) \in Nat /\ k * m = k * n + k * (m - n)
  OBVIOUS
<1>2. k * (n + 1) = k * n + k
  OBVIOUS
<1> QED
  BY <1>1, <1>2

(* The watchers move, the plugins stay. *)
LEMMA PluginsCountedStay ==
    ASSUME PluginsAreCounted, BeforePlugins' \subseteq BeforePlugins, changes' = changes, changes \in Nat,
           plugins' \in Nat, plugins' <= plugins
    PROVE  PluginsAreCounted'
<1>1. PICK n \in Nat : plugins <= Plugins * n /\ n + Cardinality(BeforePlugins) <= changes + 1
  BY DEF PluginsAreCounted
<1>2. /\ IsFiniteSet(BeforePlugins') /\ Cardinality(BeforePlugins') \in Nat /\ Cardinality(BeforePlugins) \in Nat
      /\ Cardinality(BeforePlugins') <= Cardinality(BeforePlugins)
  BY FS_Subset, FS_CardinalityType DEF PluginsAreCounted
<1>3. Plugins * n \in Nat /\ plugins \in Nat
  BY Times, ReloadAssumption DEF PluginsAreCounted
<1>4. plugins' <= Plugins * n /\ n + Cardinality(BeforePlugins') <= changes' + 1
  BY <1>1, <1>2, <1>3
<1> QED
  BY <1>2, <1>4 DEF PluginsAreCounted

LEMMA WatchMoves ==
    ASSUME ReloadBounds, NEW w \in Watchers, watch[w] > 0, watch' = NextStop(w)
    PROVE  /\ watch' \in [Watchers -> 0..13]
           /\ BeforePlugins' \subseteq BeforePlugins
           /\ watch[w] = 11 => w \in BeforePlugins /\ w \notin BeforePlugins'
<1>1. watch \in [Watchers -> 0..13] /\ Len(ReloadOrder) = 13
  BY ReloadOrderIs DEF ReloadBounds
<1> DEFINE n == IF watch[w] = 13 THEN 0 ELSE watch[w] + 1
<1>2. watch' = [watch EXCEPT ![w] = n]
  BY <1>1 DEF NextStop
<1>3. watch[w] \in 1..13 /\ n \in 0..13 /\ (n \in 1..11 => watch[w] \in 1..11) /\ (watch[w] = 11 => n = 12)
  BY <1>1
<1> HIDE DEF n
<1>4. watch'[w] = n /\ \A v \in Watchers \ {w} : watch'[v] = watch[v]
  BY <1>1, <1>2
<1>5. watch' \in [Watchers -> 0..13]
  BY <1>1, <1>2, <1>3
<1>6. BeforePlugins' \subseteq BeforePlugins
  BY <1>3, <1>4 DEF BeforePlugins
<1>7. watch[w] = 11 => w \in BeforePlugins /\ w \notin BeforePlugins'
  <2> SUFFICES ASSUME watch[w] = 11 PROVE w \in BeforePlugins /\ w \notin BeforePlugins'
    OBVIOUS
  <2>1. watch'[w] = 12 /\ 12 \notin 1..11 /\ 11 \in 1..11
    BY <1>3, <1>4
  <2> QED
    BY <2>1 DEF BeforePlugins
<1> QED
  BY <1>5, <1>6, <1>7

LEMMA ReloadBoundsInit == ReloadInit => ReloadBounds
<1> SUFFICES ASSUME ReloadInit PROVE ReloadBounds
  OBVIOUS
<1>1. MaxChanges \in Nat /\ Plugins \in Nat /\ 1 \in Servers
  BY ReloadAssumption DEF Servers
<1>2. \A w \in Watchers : watch[w] = 0
  BY DEF ReloadInit
<1>3. BeforePlugins = {}
  BY <1>2 DEF BeforePlugins
<1>4. IsFiniteSet(BeforePlugins) /\ Cardinality(BeforePlugins) = 0
  BY <1>3, FS_EmptySet
<1>5. plugins = Plugins /\ changes = 0 /\ Plugins * 1 = Plugins
  <2>1. \A k \in Nat : k * 1 = k
    OBVIOUS
  <2> QED
    BY <1>1, <2>1 DEF ReloadInit
<1>6. PluginsAreCounted
  <2>1. plugins <= Plugins * 1 /\ 1 + Cardinality(BeforePlugins) <= changes + 1
    BY <1>1, <1>4, <1>5
  <2> QED
    BY <1>1, <1>4, <1>5, <2>1 DEF PluginsAreCounted
<1>7. watch \in [Watchers -> 0..13] /\ changes \in 0..MaxChanges
  <2>1. 0 \in 0..13 /\ 0 \in 0..MaxChanges
    BY <1>1
  <2> QED
    BY <2>1 DEF ReloadInit
<1> QED
  BY <1>1, <1>6, <1>7 DEF ReloadInit, ReloadBounds, Crashes

(* A step that leaves the watchers, the changes and the plugins alone. *)
LEMMA QuietBounds ==
    ASSUME ReloadBounds, UNCHANGED <<watch, changes, plugins>>, closed' \subseteq ReloadChans,
           srv' \in Servers \cup {0}, crash' \in Crashes
    PROVE  ReloadBounds'
<1>1. PluginsAreCounted'
  BY DEF ReloadBounds, PluginsAreCounted, BeforePlugins
<1> QED
  BY <1>1 DEF ReloadBounds

LEMMA FileChangesBounds ==
    ASSUME ReloadBounds, NEW w \in Watchers, FileChanges(w)
    PROVE  ReloadBounds'
<1>1. /\ watch[w] = 0 /\ changes < MaxChanges /\ watch' = [watch EXCEPT ![w] = 1] /\ changes' = changes + 1
      /\ UNCHANGED <<closed, srv, plugins, crash>>
  BY DEF FileChanges, webVars
<1>2. watch \in [Watchers -> 0..13] /\ changes \in 0..MaxChanges /\ MaxChanges \in Nat
  BY ReloadAssumption DEF ReloadBounds
<1>3. watch' \in [Watchers -> 0..13] /\ watch'[w] = 1 /\ \A v \in Watchers \ {w} : watch'[v] = watch[v]
  <2>1. 1 \in 0..13
    OBVIOUS
  <2> QED
    BY <1>1, <1>2, <2>1
<1>4. BeforePlugins' = BeforePlugins \cup {w} /\ w \notin BeforePlugins
  <2>1. watch'[w] \in 1..11 /\ watch[w] \notin 1..11
    BY <1>1, <1>3
  <2> QED
    BY <1>3, <2>1 DEF BeforePlugins
<1>5. IsFiniteSet(BeforePlugins) /\ Cardinality(BeforePlugins) \in Nat
  BY FS_CardinalityType DEF ReloadBounds, PluginsAreCounted
<1>6. IsFiniteSet(BeforePlugins') /\ Cardinality(BeforePlugins') = Cardinality(BeforePlugins) + 1
  BY <1>4, <1>5, FS_AddElement
<1>7. PICK n \in Nat : plugins <= Plugins * n /\ n + Cardinality(BeforePlugins) <= changes + 1
  BY DEF ReloadBounds, PluginsAreCounted
<1>8. plugins' <= Plugins * n /\ n + Cardinality(BeforePlugins') <= changes' + 1
  BY <1>1, <1>2, <1>5, <1>6, <1>7
<1>9. PluginsAreCounted'
  BY <1>1, <1>6, <1>8 DEF ReloadBounds, PluginsAreCounted
<1>10. changes' \in 0..MaxChanges
  BY <1>1, <1>2
<1> QED
  BY <1>1, <1>3, <1>9, <1>10 DEF ReloadBounds

LEMMA SendReloadBounds ==
    ASSUME ReloadBounds, NEW w \in Watchers, SendReload(w)
    PROVE  ReloadBounds'
<1> DEFINE c == ReloadOrder[watch[w]]
<1>1. CASE Panic("send on closed channel")
  BY <1>1, QuietBounds DEF Panic, Crashes, ReloadBounds, webVars
<1>2. CASE ~Panic("send on closed channel")
  <2>1. /\ watch[w] > 0 /\ watch' = NextStop(w) /\ UNCHANGED <<closed, changes, srv, crash>>
        /\ plugins' = IF c = "plugin" THEN plugins + Plugins ELSE plugins
    BY <1>2 DEF SendReload, webVars
  <2>2. /\ watch' \in [Watchers -> 0..13] /\ BeforePlugins' \subseteq BeforePlugins
        /\ watch[w] = 11 => w \in BeforePlugins /\ w \notin BeforePlugins'
    BY <2>1, WatchMoves
  <2>3. /\ changes \in Nat /\ plugins \in Nat /\ Plugins \in Nat /\ watch[w] \in 1..13 /\ PluginsAreCounted
    <3>1. changes \in 0..MaxChanges /\ watch[w] \in 0..13
      BY DEF ReloadBounds
    <3>2. changes \in Nat /\ watch[w] \in 1..13
      BY <2>1, <3>1
    <3> QED
      BY <3>2, ReloadAssumption DEF ReloadBounds, PluginsAreCounted
  <2>4. CASE c # "plugin"
    <3>1. PluginsAreCounted'
      BY <2>1, <2>2, <2>3, <2>4, PluginsCountedStay
    <3> QED
      BY <2>1, <2>2, <3>1 DEF ReloadBounds
  <2>5. CASE c = "plugin"
    <3>1. w \in BeforePlugins /\ w \notin BeforePlugins'
      BY <2>2, <2>3, <2>5, ReloadOrderIs
    <3>2. PICK n \in Nat : plugins <= Plugins * n /\ n + Cardinality(BeforePlugins) <= changes + 1
      BY <2>3 DEF PluginsAreCounted
    <3>3. /\ IsFiniteSet(BeforePlugins \ {w}) /\ Cardinality(BeforePlugins) \in Nat
          /\ Cardinality(BeforePlugins \ {w}) = Cardinality(BeforePlugins) - 1
      BY <2>3, <3>1, FS_RemoveElement, FS_CardinalityType DEF PluginsAreCounted
    <3>4. BeforePlugins' \subseteq BeforePlugins \ {w}
      BY <2>2, <3>1
    <3>5. /\ IsFiniteSet(BeforePlugins') /\ Cardinality(BeforePlugins') \in Nat
          /\ Cardinality(BeforePlugins') <= Cardinality(BeforePlugins) - 1
      BY <3>3, <3>4, FS_Subset, FS_CardinalityType
    <3>6. Plugins * n \in Nat /\ Plugins * (n + 1) = Plugins * n + Plugins
      BY <2>3, Times
    <3>7. plugins' <= Plugins * (n + 1) /\ (n + 1) + Cardinality(BeforePlugins') <= changes' + 1
      BY <2>1, <2>3, <2>5, <3>2, <3>3, <3>5, <3>6
    <3>8. plugins' \in Nat /\ n + 1 \in Nat
      BY <2>1, <2>3, <2>5
    <3>9. PluginsAreCounted'
      BY <3>5, <3>7, <3>8 DEF PluginsAreCounted
    <3> QED
      BY <2>1, <2>2, <3>9 DEF ReloadBounds
  <2> QED
    BY <2>4, <2>5
<1> QED
  BY <1>1, <1>2

LEMMA SendStopBounds ==
    ASSUME ReloadBounds, NEW p \in {"signal", "main"}, SendStop(p)
    PROVE  ReloadBounds'
<1>1. CASE Panic("send on closed channel")
  BY <1>1, QuietBounds DEF Panic, Crashes, ReloadBounds, webVars
<1>2. CASE ~Panic("send on closed channel")
  <2>1. PICK i \in DOMAIN StopOrder :
            /\ closed' = closed \cup {StopOrder[i]} /\ UNCHANGED <<watch, changes, srv, crash>>
            /\ plugins' = IF StopOrder[i] = "plugin" THEN 0 ELSE plugins
    BY <1>2 DEF SendStop, webVars
  <2>2. closed' \subseteq ReloadChans
    BY <2>1, StopOrderIs, ReloadOrderIs DEF ReloadBounds
  <2>3. changes \in Nat /\ plugins \in Nat /\ PluginsAreCounted
    <3>1. changes \in 0..MaxChanges
      BY DEF ReloadBounds
    <3> QED
      BY <3>1 DEF ReloadBounds, PluginsAreCounted
  <2>4. plugins' \in Nat /\ plugins' <= plugins
    BY <2>1, <2>3
  <2>5. BeforePlugins' \subseteq BeforePlugins
    BY <2>1 DEF BeforePlugins
  <2>6. PluginsAreCounted'
    BY <2>1, <2>3, <2>4, <2>5, PluginsCountedStay
  <2> QED
    BY <2>1, <2>2, <2>6 DEF ReloadBounds
<1> QED
  BY <1>1, <1>2

LEMMA ReloadBoundsNext ==
    ASSUME ReloadBounds, [ReloadNext]_reloadVars
    PROVE  ReloadBounds'
<1>1. closed \subseteq ReloadChans /\ srv \in Servers \cup {0} /\ crash \in Crashes
  BY DEF ReloadBounds
<1>2. ASSUME NEW why \in Crashes, Panic(why) PROVE ReloadBounds'
  BY <1>1, <1>2, QuietBounds DEF Panic, webVars
<1>3. {"send on closed channel", "nil server", "connections left"} \subseteq Crashes
  BY DEF Crashes
<1>4. ASSUME NEW w \in Watchers, SkipUnchanged(w) PROVE ReloadBounds'
  <2>1. watch[w] > 0 /\ watch' = NextStop(w) /\ UNCHANGED <<closed, changes, srv, plugins, crash>>
    BY <1>4 DEF SkipUnchanged, webVars
  <2>2. watch' \in [Watchers -> 0..13] /\ BeforePlugins' \subseteq BeforePlugins
    BY <2>1, WatchMoves
  <2>3. changes \in Nat /\ plugins \in Nat /\ PluginsAreCounted
    <3>1. changes \in 0..MaxChanges
      BY DEF ReloadBounds
    <3> QED
      BY <3>1 DEF ReloadBounds, PluginsAreCounted
  <2>4. PluginsAreCounted'
    BY <2>1, <2>2, <2>3, PluginsCountedStay
  <2> QED
    BY <2>1, <2>2, <2>4 DEF ReloadBounds
<1>5. CASE ForwardToDatastores
  <2>1. Panic("send on closed channel") \/ UNCHANGED <<closed, watch, changes, srv, plugins, crash>>
    BY <1>5 DEF ForwardToDatastores, webVars
  <2> QED
    BY <1>1, <1>2, <1>3, <2>1, QuietBounds
<1>6. CASE ReloadStops
  <2>1. Panic("connections left") \/ UNCHANGED <<closed, watch, changes, srv, plugins, crash>>
    BY <1>6 DEF ReloadStops, webVars
  <2> QED
    BY <1>1, <1>2, <1>3, <2>1, QuietBounds
<1>7. CASE ReloadInits
  <2>1. srv' \in Servers /\ UNCHANGED <<closed, watch, changes, plugins, crash>>
    BY <1>7 DEF ReloadInits
  <2> QED
    BY <1>1, <2>1, QuietBounds
<1>8. ASSUME NEW s \in Servers, Listen(s) \/ ClearSrv(s) \/ NotifyMain(s) PROVE ReloadBounds'
  <2>1. Panic("nil server") \/ (srv' \in {srv, 0} /\ UNCHANGED <<closed, watch, changes, plugins, crash>>)
    BY <1>8 DEF Listen, ClearSrv, NotifyMain, webVars
  <2> QED
    BY <1>1, <1>2, <1>3, <2>1, QuietBounds
<1>9. CASE StopWeb
  <2>1. Panic("connections left") \/ UNCHANGED <<closed, watch, changes, srv, plugins, crash>>
    BY <1>9 DEF StopWeb
  <2> QED
    BY <1>1, <1>2, <1>3, <2>1, QuietBounds
<1>10. CASE Signal \/ MainContinues \/ MainEnds \/ UNCHANGED reloadVars
  <2>1. UNCHANGED <<closed, watch, changes, srv, plugins, crash>>
    BY <1>10 DEF Signal, MainContinues, MainEnds, webVars, reloadVars
  <2> QED
    BY <1>1, <2>1, QuietBounds
<1> QED
  BY <1>4, <1>5, <1>6, <1>7, <1>8, <1>9, <1>10, FileChangesBounds, SendReloadBounds, SendStopBounds
     DEF ReloadNext, ReloadStep

LEMMA ReloadTypes == ReloadInv /\ ReloadBounds => ReloadTypeOK
<1> SUFFICES ASSUME ReloadInv, ReloadBounds PROVE ReloadTypeOK
  OBVIOUS
<1>1. PICK n \in Nat : plugins <= Plugins * n /\ n + Cardinality(BeforePlugins) <= changes + 1
  BY DEF ReloadBounds, PluginsAreCounted
<1>2. /\ plugins \in Nat /\ Cardinality(BeforePlugins) \in Nat /\ changes \in 0..MaxChanges
      /\ MaxChanges \in Nat /\ Plugins \in Nat
  BY FS_CardinalityType, ReloadAssumption DEF ReloadBounds, PluginsAreCounted
<1>3. n <= MaxChanges + 1 /\ MaxChanges + 1 \in Nat
  BY <1>1, <1>2
<1>4. Plugins * n <= Plugins * (MaxChanges + 1) /\ Plugins * n \in Nat /\ Plugins * (MaxChanges + 1) \in Nat
  BY <1>2, <1>3, Times
<1>5. plugins \in 0..(Plugins * (MaxChanges + 1))
  BY <1>1, <1>2, <1>4
<1>6. watch \in [Watchers -> 0..Len(ReloadOrder)]
  BY ReloadOrderIs DEF ReloadBounds
<1> QED
  BY <1>2, <1>5, <1>6 DEF ReloadTypeOK, ReloadInv, ReloadShape, ReloadBounds

(* The variables of a process that is reloaded and stopped have their types: in   *)
(* particular a change of the configuration starts the plugins at most once       *)
(* (manager.go:32-42), so that there are never more of them than one set for      *)
(* every change and the first.                                                    *)
THEOREM ReloadTypeCorrect == ReloadSpec => []ReloadTypeOK
BY ReloadInitInv, ReloadNextInv, ReloadBoundsInit, ReloadBoundsNext, ReloadTypes, PTL DEF ReloadSpec

-----------------------------------------------------------------------------
(* Imports. *)

(* The worker finishes with an error, or after all media of the manifest; what *)
(* counts as uploaded is there, and what is there stays, also over a restart.   *)
ImportInv ==
    /\ ImportTypeOK
    /\ worker.left \subseteq files
    /\ \A m \in done : copy[m] # "none"
    /\ worker.pc = "finish" => task.error # "" \/ done = Archived
    /\ FinishedImportIsComplete

CopiesStay == \A m \in Archived : copy[m] # "none" => copy'[m] = copy[m]

WorkerState ==
    [pc : {"waiting", "look", "process", "check", "finish", "remove", "clean", "ended"},
     at : Parts \cup {NoPart}, left : SUBSET Parts]

LEMMA WaitingWorker == Waiting \in WorkerState /\ Waiting.pc = "waiting" /\ Waiting.left = {}
BY DEF Waiting, WorkerState

LEMMA ImportInitInv == ImportInit => ImportInv
<1> SUFFICES ASSUME ImportInit PROVE ImportInv
  OBVIOUS
<1>1. /\ uploadOf \in [Parts -> {"away", "found", "stored", "refused"}]
      /\ copy \in [Archived -> {"none", "own", "archive"}]
  BY DEF ImportInit
<1>2. task \in [ended : BOOLEAN, error : {"", "failure", "file already closed"}] /\ ~task.ended
  BY DEF ImportInit
<1>3. restarts \in 0..MaxRestarts
  <2>1. restarts = 0
    BY DEF ImportInit
  <2> QED
    BY <2>1, ImportAssumption
<1> QED
  BY <1>1, <1>2, <1>3, WaitingWorker DEF ImportInit, ImportInv, ImportTypeOK, WorkerState, FinishedImportIsComplete

(* A part of the archive is imported, wholly or not. *)
LEMMA ImportFilesEffect ==
  ASSUME ImportInv, NEW ms \in SUBSET Archived, ImportFiles(ms)
  PROVE  /\ done' \subseteq Archived
         /\ copy' \in [Archived -> {"none", "own", "archive"}]
         /\ \A m \in done' : copy'[m] # "none"
         /\ CopiesStay
BY DEF ImportInv, ImportTypeOK, ImportFiles, CopiesStay

LEMMA PartsAreArchived == \A p \in Parts : Holds[p] \subseteq Archived
BY DEF Archived

LEMMA ImportRequestsInv ==
  ASSUME ImportInv,
         \/ CreateEngine \/ CloseFinds \/ CloseStep \/ SendOnClosedChannel
         \/ \E p \in Parts : AppendFinds(p) \/ AppendGivesUp(p) \/ AppendFile(p)
  PROVE  ImportInv' /\ CopiesStay
<1>1. done' = done /\ copy' = copy /\ worker' = worker
  BY DEF CreateEngine, CloseFinds, CloseStep, CloseMarksDone, CloseRemovesEngine, SendOnClosedChannel,
     AppendFinds, AppendGivesUp, AppendFile, reader
<1>2. ImportTypeOK' /\ files \subseteq files'
  <2>1. CASE CreateEngine \/ CloseFinds \/ CloseStep \/ SendOnClosedChannel
    <3>1. /\ uploadOf' = uploadOf /\ files' = files /\ shut' = shut /\ sending' = sending /\ worker' = worker
          /\ hasManifest' = hasManifest /\ done' = done /\ copy' = copy /\ channel' = channel
          /\ foreign' = foreign /\ restarts' = restarts
      BY <2>1 DEF CreateEngine, CloseFinds, CloseStep, CloseMarksDone, CloseRemovesEngine, SendOnClosedChannel,
         reader, process
    <3>2. /\ engine' \in {engine, "open", "gone"} /\ closing' \in {closing, "found", "marked", "panicked", "sending"}
          /\ task' \in {task, [task EXCEPT !.ended = TRUE]}
      BY <2>1 DEF CreateEngine, CloseFinds, CloseStep, CloseMarksDone, CloseRemovesEngine, SendOnClosedChannel
    <3>3. crashed' \in BOOLEAN
      BY <2>1 DEF ImportInv, ImportTypeOK, CreateEngine, CloseFinds, CloseStep, CloseMarksDone, CloseRemovesEngine,
         SendOnClosedChannel, process
    <3>4. ImportTypeOK
      BY DEF ImportInv
    <3>5. task' \in [ended : BOOLEAN, error : {"", "failure", "file already closed"}]
      BY <3>2, <3>4 DEF ImportTypeOK
    <3>6. engine' \in {"none", "open", "gone"}
          /\ closing' \in {"idle", "found", "marked", "sending", "answered", "panicked"}
      BY <3>2, <3>4 DEF ImportTypeOK
    <3> QED
      BY <3>1, <3>3, <3>4, <3>5, <3>6, ZenonT(30) DEF ImportTypeOK
  <2>2. CASE \E p \in Parts : AppendFinds(p) \/ AppendGivesUp(p) \/ AppendFile(p)
    <3>1. PICK p \in Parts : AppendFinds(p) \/ AppendGivesUp(p) \/ AppendFile(p)
      BY <2>2
    <3>2. uploadOf' \in [Parts -> {"away", "found", "stored", "refused"}]
      <4>1. uploadOf' \in {[uploadOf EXCEPT ![p] = x] : x \in {"found", "refused", "stored"}}
        BY <3>1 DEF AppendFinds, AppendGivesUp, AppendFile
      <4> QED
        BY <4>1 DEF ImportInv, ImportTypeOK
    <3>3. files' \in {files, files \cup {p}} /\ sending' \in {sending, sending \cup {p}}
          /\ (sending' = sending \/ files' = files \cup {p})
      BY <3>1 DEF AppendFinds, AppendGivesUp, AppendFile
    <3>4. files' \subseteq Parts /\ sending' \subseteq files' /\ files \subseteq files'
      BY <3>3 DEF ImportInv, ImportTypeOK
    <3>5. /\ engine' = engine /\ shut' = shut /\ worker' = worker /\ channel' = channel /\ task' = task
          /\ closing' = closing /\ hasManifest' = hasManifest /\ done' = done /\ copy' = copy
          /\ foreign' = foreign /\ crashed' = crashed /\ restarts' = restarts
      BY <3>1 DEF AppendFinds, AppendGivesUp, AppendFile, reader, process
    <3>6. ImportTypeOK
      BY DEF ImportInv
    <3>7. hasManifest' \in BOOLEAN /\ crashed' \in BOOLEAN /\ shut' \subseteq files'
      BY <3>4, <3>5, <3>6 DEF ImportTypeOK
    <3>8. task' \in [ended : BOOLEAN, error : {"", "failure", "file already closed"}]
      BY <3>5, <3>6 DEF ImportTypeOK
    <3> QED
      BY <3>2, <3>4, <3>5, <3>6, <3>7, <3>8, ZenonT(30) DEF ImportTypeOK
  <2> QED
    BY <2>1, <2>2
<1>3. task'.error = task.error /\ (closing' = "idle" => task' = task /\ closing = "idle")
  BY DEF ImportInv, ImportTypeOK, CreateEngine, CloseFinds, CloseStep, CloseMarksDone, CloseRemovesEngine,
     SendOnClosedChannel, AppendFinds, AppendGivesUp, AppendFile, reader
<1> QED
  BY <1>1, <1>2, <1>3 DEF ImportInv, FinishedImportIsComplete, CopiesStay

LEMMA ImportWorkerInv ==
  ASSUME ImportInv, NEW p \in Parts,
         \/ Receive(p) \/ ProcessFile(p) \/ ProcessShutFile(p) \/ ProcessFails(p)
         \/ ReceiveNil \/ LookForManifest \/ LookFails \/ Processed \/ CheckComplete
         \/ WorkerMarksDone \/ WorkerRemovesEngine \/ WorkerEnds
  PROVE  ImportInv' /\ CopiesStay
<1>1. CASE ProcessFile(p) \/ ProcessFails(p)
  <2>1. PICK ms \in SUBSET Archived : ImportFiles(ms)
    BY <1>1, PartsAreArchived DEF ProcessFile, ProcessFails
  <2>2. ImportTypeOK' /\ worker'.left \subseteq files'
    <3>1. worker \in WorkerState /\ worker.left \subseteq Parts
          /\ worker' \in {[worker EXCEPT !.left = @ \ {p}], [worker EXCEPT !.pc = "finish"]}
      BY <1>1 DEF ImportInv, ImportTypeOK, WorkerState, ProcessFile, ProcessFails
    <3>2. task' \in {task, [task EXCEPT !.error = "failure"]}
      BY <1>1 DEF ProcessFile, ProcessFails
    <3>3. worker' \in WorkerState /\ worker'.left \subseteq worker.left
      BY <3>1 DEF WorkerState
    <3>4. task' \in [ended : BOOLEAN, error : {"", "failure", "file already closed"}]
      BY <3>2 DEF ImportInv, ImportTypeOK
    <3>5. shut' \subseteq files
      <4>1. shut' = shut \cup {p} /\ p \in worker.left
        BY <1>1 DEF ProcessFile, ProcessFails
      <4> QED
        BY <4>1 DEF ImportInv, ImportTypeOK
    <3>6. UNCHANGED <<uploadOf, engine, files, sending, channel, closing, hasManifest, foreign, crashed, restarts>>
      BY <1>1 DEF ProcessFile, ProcessFails, process
    <3>7. done' \subseteq Archived /\ copy' \in [Archived -> {"none", "own", "archive"}]
      BY <2>1, ImportFilesEffect
    <3> QED
      BY <3>3, <3>4, <3>5, <3>6, <3>7 DEF ImportInv, ImportTypeOK, WorkerState
  <2>3. (worker'.pc = "finish" => task'.error # "") /\ (task'.error = "" => task' = task) /\ closing' = closing
    BY <1>1 DEF ImportInv, ImportTypeOK, ProcessFile, ProcessFails
  <2> QED
    BY <2>1, <2>2, <2>3, ImportFilesEffect DEF ImportInv, FinishedImportIsComplete, CopiesStay
<1>2. CASE WorkerMarksDone
  <2>1. worker' = [worker EXCEPT !.pc = "remove"] /\ task' = [task EXCEPT !.ended = TRUE] /\ worker.pc = "finish"
    BY <1>2 DEF WorkerMarksDone
  <2>2. /\ worker' \in WorkerState /\ worker'.left = worker.left /\ worker'.pc = "remove"
        /\ task' \in [ended : BOOLEAN, error : {"", "failure", "file already closed"}] /\ task'.error = task.error
    BY <2>1 DEF ImportInv, ImportTypeOK, WorkerState
  <2>3. /\ uploadOf' = uploadOf /\ engine' = engine /\ files' = files /\ shut' = shut /\ sending' = sending
        /\ hasManifest' = hasManifest /\ done' = done /\ channel' = channel /\ closing' = closing
        /\ foreign' = foreign /\ copy' = copy /\ crashed' = crashed /\ restarts' = restarts
    BY <1>2 DEF WorkerMarksDone, reader, process
  <2>4. ImportTypeOK
    BY DEF ImportInv
  <2>5. hasManifest' \in BOOLEAN /\ crashed' \in BOOLEAN
    BY <2>3, <2>4 DEF ImportTypeOK
  <2>6. ImportTypeOK'
    BY <2>2, <2>3, <2>4, <2>5, ZenonT(30) DEF ImportTypeOK, WorkerState
  <2> QED
    BY <2>1, <2>2, <2>3, <2>6 DEF ImportInv, FinishedImportIsComplete, CopiesStay
<1>3. CASE \/ Receive(p) \/ ProcessShutFile(p) \/ ReceiveNil \/ LookForManifest \/ LookFails \/ Processed
           \/ CheckComplete \/ WorkerRemovesEngine \/ WorkerEnds
  <2>1. done' = done /\ copy' = copy
    BY <1>3 DEF Receive, ProcessShutFile, ReceiveNil, LookForManifest, LookFails, Processed,
       CheckComplete, WorkerRemovesEngine, WorkerEnds, reader
  <2>2. ImportTypeOK' /\ worker'.left \subseteq files'
    <3>1. worker' \in WorkerState /\ worker'.left \subseteq files
      <4>1. CASE Receive(p)
        <5>1. worker' \in {[pc |-> "process", at |-> p, left |-> {p}], [pc |-> "look", at |-> p, left |-> {}]}
          BY <4>1 DEF Receive
        <5> QED
          BY <5>1, <4>1 DEF WorkerState, Receive, ImportInv, ImportTypeOK
      <4>4. CASE LookForManifest
        <5>1. worker' \in {[worker EXCEPT !.pc = "process", !.left = files], [worker EXCEPT !.pc = "check"]}
          BY <4>4 DEF LookForManifest
        <5> QED
          BY <5>1 DEF WorkerState, ImportInv, ImportTypeOK
      <4>2. CASE CheckComplete
        BY <4>2, WaitingWorker DEF ImportInv, ImportTypeOK, WorkerState, CheckComplete
      <4>3. CASE ProcessShutFile(p) \/ ReceiveNil \/ LookFails \/ Processed \/ WorkerRemovesEngine \/ WorkerEnds
        BY <4>3 DEF ImportInv, ImportTypeOK, WorkerState, ProcessShutFile, ReceiveNil, LookFails, Processed,
           WorkerRemovesEngine, WorkerEnds
      <4> QED
        BY <1>3, <4>1, <4>2, <4>3, <4>4
    <3>2. task' \in [ended : BOOLEAN, error : {"", "failure", "file already closed"}]
      BY <1>3 DEF ImportInv, ImportTypeOK, Receive, ProcessShutFile, ReceiveNil, LookForManifest, LookFails,
         Processed, CheckComplete, WorkerRemovesEngine, WorkerEnds
    <3>3. /\ engine' \in {engine, "gone"} /\ uploadOf' = uploadOf /\ files' = files /\ sending' \subseteq sending
          /\ shut' \in {shut, files} /\ hasManifest' \in BOOLEAN /\ channel' \in {channel, "closed"}
          /\ closing' \in {closing, "answered", "panicked"} /\ foreign' = foreign /\ crashed' \in BOOLEAN
          /\ restarts' = restarts
      BY <1>3 DEF ImportInv, ImportTypeOK, Receive, ProcessShutFile, ReceiveNil, LookForManifest, LookFails,
         Processed, CheckComplete, WorkerRemovesEngine, WorkerEnds, reader, process
    <3> QED
      BY <2>1, <3>1, <3>2, <3>3 DEF ImportInv, ImportTypeOK, WorkerState
  <2>3. worker'.pc = "finish" => task'.error # "" \/ done' = Archived
    <3>1. CASE ProcessShutFile(p) \/ LookFails
      BY <3>1 DEF ImportInv, ImportTypeOK, ProcessShutFile, LookFails
    <3>2. CASE CheckComplete
      BY <2>1, <3>2, WaitingWorker DEF CheckComplete
    <3>3. CASE LookForManifest \/ Receive(p)
      <4>1. worker'.pc \in {"process", "look", "check"}
        <5>1. CASE LookForManifest
          <6>1. worker' \in {[worker EXCEPT !.pc = "process", !.left = files], [worker EXCEPT !.pc = "check"]}
            BY <5>1 DEF LookForManifest
          <6> QED
            BY <6>1 DEF ImportInv, ImportTypeOK
        <5>2. CASE Receive(p)
          BY <5>2 DEF Receive
        <5> QED
          BY <3>3, <5>1, <5>2
      <4> QED
        BY <4>1
    <3>4. CASE ReceiveNil \/ Processed \/ WorkerRemovesEngine \/ WorkerEnds
      BY <3>4 DEF ImportInv, ImportTypeOK, ReceiveNil, Processed, WorkerRemovesEngine, WorkerEnds
    <3> QED
      BY <1>3, <3>1, <3>2, <3>3, <3>4
  <2>4. (closing' = "idle" => closing = "idle") /\ (task'.error = "" => task' = task)
    BY <1>3 DEF ImportInv, ImportTypeOK, Receive, ProcessShutFile, ReceiveNil, LookForManifest, LookFails,
       Processed, CheckComplete, WorkerRemovesEngine, WorkerEnds
  <2> QED
    BY <2>1, <2>2, <2>3, <2>4 DEF ImportInv, FinishedImportIsComplete, CopiesStay
<1> QED
  BY <1>1, <1>2, <1>3

LEMMA RestartImportInv ==
  ASSUME ImportInv, RestartImport
  PROVE  ImportInv' /\ CopiesStay
<1>1. restarts' \in 0..MaxRestarts
  <2>1. restarts \in 0..MaxRestarts /\ restarts < MaxRestarts /\ restarts' = restarts + 1
    BY DEF ImportInv, ImportTypeOK, RestartImport
  <2> QED
    BY <2>1, ImportAssumption
<1>2. worker' \in WorkerState /\ worker'.pc # "finish" /\ worker'.left = {}
  BY DEF RestartImport, Waiting, WorkerState
<1>3. uploadOf' \in [Parts -> {"away", "found", "stored", "refused"}]
  BY DEF RestartImport
<1> QED
  BY <1>1, <1>2, <1>3 DEF WorkerState, ImportInv, ImportTypeOK, FinishedImportIsComplete, RestartImport, CopiesStay

LEMMA ImportNextInv == ImportInv /\ [ImportNext]_importVars => ImportInv' /\ CopiesStay
<1> SUFFICES ASSUME ImportInv, [ImportNext]_importVars PROVE ImportInv' /\ CopiesStay
  OBVIOUS
<1>1. CASE UNCHANGED importVars
  <2>1. ImportTypeOK'
    <3>1. /\ uploadOf' = uploadOf /\ engine' = engine /\ files' = files /\ shut' = shut /\ sending' = sending
          /\ worker' = worker /\ hasManifest' = hasManifest /\ done' = done /\ channel' = channel /\ task' = task
          /\ closing' = closing /\ foreign' = foreign /\ copy' = copy /\ crashed' = crashed /\ restarts' = restarts
      BY <1>1 DEF importVars
    <3>2. ImportTypeOK
      BY DEF ImportInv
    <3>3. hasManifest' \in BOOLEAN /\ crashed' \in BOOLEAN
      BY <3>1, <3>2 DEF ImportTypeOK
    <3>4. task' \in [ended : BOOLEAN, error : {"", "failure", "file already closed"}]
      BY <3>1, <3>2 DEF ImportTypeOK
    <3> QED
      BY <3>1, <3>2, <3>3, <3>4, ZenonT(30) DEF ImportTypeOK
  <2> QED
    BY <1>1, <2>1 DEF ImportInv, FinishedImportIsComplete, importVars, CopiesStay
<1>2. PICK p \in Parts : TRUE
  BY ImportAssumption
<1> QED
  BY <1>1, <1>2, ImportRequestsInv, ImportWorkerInv, RestartImportInv DEF ImportNext, WorkerStep

(* Types of imports: whatever is sent again, closed or restarted.              *)
THEOREM ImportTypeCorrect == ImportSpec => []ImportTypeOK
<1>1. ImportInv => ImportTypeOK
  BY DEF ImportInv
<1> QED
  BY <1>1, ImportInitInv, ImportNextInv, PTL DEF ImportSpec

(* For any archive, in any order of its parts and over any number of restarts,  *)
(* an import that ends by itself and without an error is complete               *)
(* (import_data.go:148), and a copy the repository has is never replaced        *)
(* (reader.go:246-253).                                                         *)
THEOREM ImportsAreSound == ImportSpec => ImportIsSound
<1>1. ImportInv => FinishedImportIsComplete
  BY DEF ImportInv
<1>2. ImportInv /\ [ImportNext]_importVars
      => [\A m \in Archived : copy[m] # "none" => copy'[m] = copy[m]]_importVars
  BY ImportNextInv DEF CopiesStay
<1> QED
  BY <1>1, <1>2, ImportInitInv, ImportNextInv, PTL DEF ImportSpec, ImportIsSound

-----------------------------------------------------------------------------
(* The admin API. *)

AskedCall ==
    [pc : {"asked", "allowed", "listed", "done", "refused"}, req : Calls,
     level : {"none", "user", "local", "repo"}, records : SUBSET Items, done : SUBSET Items,
     seen : SUBSET {<<c.who, c.host>> : c \in Calls}]

(* The homeserver that is asked for the rights of a call. *)
HostAsked(c) ==
    IF c.op \in {"pin", "unpin"} THEN About[c.target].origin
    ELSE IF c.op = "export" /\ c.of = "server" THEN c.target
    ELSE c.host

(* The level of a call was true when it was asked for, and is enough for it. *)
LevelIsRight(r) ==
    /\ r.level = "repo" => r.req.who \in RepoAdmins
    /\ r.level = "local" => <<r.req.who, HostAsked(r.req)>> \in r.seen
    /\ r.level # "none"
    /\ Allowed(r.req, r.level)

HasRight(r, m) ==
    \/ r.req.who \in RepoAdmins
    \/ <<r.req.who, About[m].origin>> \in r.seen
    \/ About[m].user = r.req.who

(* Only exports act on all they have listed; the others look again.          *)
CallInv(r) ==
    /\ r = Idle \/ r \in AskedCall
    /\ r.pc \in {"allowed", "listed"} => LevelIsRight(r)
    /\ (r.pc = "listed" /\ r.req.op = "export") => \A m \in r.records : HasRight(r, m)
    /\ \A m \in r.done : r.pc = "done" /\ HasRight(r, m)

AdminInv ==
    /\ fresh \subseteq stored /\ hidden \subseteq stored /\ stored \subseteq Items /\ pinned \subseteq Items
    /\ admins \subseteq {<<c.who, c.host>> : c \in Calls}
    /\ call = [s \in Slots |-> call[s]]
    /\ \A s \in Slots : CallInv(call[s])

LEMMA IdleCall == Idle.pc = "idle" /\ Idle.done = {} /\ Idle.records = {} /\ Idle.level = "none" /\ CallInv(Idle)
BY DEF Idle, CallInv

LEMMA AdminInitInv == AdminInit => AdminInv
<1> SUFFICES ASSUME AdminInit PROVE AdminInv
  OBVIOUS
<1>1. \A s \in Slots : call[s] = Idle
  BY DEF AdminInit
<1> QED
  BY <1>1, IdleCall DEF AdminInit, AdminInv

(* A step of one call. *)
LEMMA CallStep ==
  ASSUME AdminInv, NEW s \in Slots, NEW r, call' = [call EXCEPT ![s] = r]
  PROVE  /\ call' = [x \in Slots |-> call'[x]] /\ call'[s] = r
         /\ CallInv(r) => \A x \in Slots : CallInv(call'[x])
BY DEF AdminInv

LEMMA LevelIsTrue ==
  ASSUME NEW c, NEW level \in {Level(c)} \cup (IF Level(c) = "local" THEN {"user"} ELSE {})
  PROVE  /\ level \in {"user", "local", "repo"}
         /\ level = "repo" => c.who \in RepoAdmins
         /\ level = "local" => <<c.who, HostAsked(c)>> \in admins
BY DEF Level, HostAsked, IsUserAdmin

LEMMA RunningCall ==
  ASSUME NEW r, CallInv(r), r.pc \notin {"idle"}
  PROVE  r \in AskedCall /\ r.req \in Calls
BY IdleCall DEF CallInv, AskedCall

LEMMA AdminAskInv ==
  ASSUME AdminInv, NEW s \in Slots, NEW c \in Calls, Ask(s, c)
  PROVE  AdminInv'
<1>1. CallInv(Asked(c))
  BY DEF Asked, CallInv, AskedCall
<1> QED
  BY <1>1, CallStep DEF AdminInv, Ask

LEMMA AuthorizeInv ==
  ASSUME AdminInv, NEW s \in Slots, Authorize(s)
  PROVE  AdminInv'
<1> DEFINE r == call[s]
<1>1. r.pc = "asked" /\ CallInv(r)
  BY DEF AdminInv, Authorize
<1>2. r \in AskedCall
  BY <1>1, RunningCall
<1>3. PICK level \in {Level(r.req)} \cup (IF Level(r.req) = "local" THEN {"user"} ELSE {}) :
        call' = [call EXCEPT ![s].level = level, ![s].seen = admins,
                             ![s].pc = IF Allowed(r.req, level) THEN "allowed" ELSE "refused"]
  BY DEF Authorize
<1> DEFINE q == [r EXCEPT !.level = level, !.seen = admins, !.pc = IF Allowed(r.req, level) THEN "allowed" ELSE "refused"]
<1>4. call' = [call EXCEPT ![s] = q]
  BY <1>3
<1>5. /\ q \in AskedCall /\ q.req = r.req /\ q.level = level /\ q.seen = admins /\ q.done = r.done
      /\ q.pc = IF Allowed(r.req, level) THEN "allowed" ELSE "refused"
  BY <1>2, LevelIsTrue DEF AskedCall, AdminInv
<1>6. r.done = {}
  BY <1>1 DEF CallInv
<1>7. CallInv(q)
  BY <1>5, <1>6, LevelIsTrue DEF CallInv, LevelIsRight
<1> QED
  BY <1>4, <1>7, CallStep DEF AdminInv, Authorize

LEMMA RecordsAreItems ==
  ASSUME AdminInv, NEW c \in Calls, NEW level
  PROVE  RecordsOf(c, level) \subseteq Items
BY AdminAssumption DEF RecordsOf, AdminInv, OldExcluding, Before

(* An export is allowed for what its user, or its server, has. *)
LEMMA ExportedRecords ==
  ASSUME AdminInv, NEW r \in AskedCall, LevelIsRight(r), r.req.op = "export"
  PROVE  \A m \in RecordsOf(r.req, r.level) : HasRight(r, m)
<1>1. r.req \in Calls /\ r.req.of \in {"user", "server"}
  BY AdminAssumption DEF AskedCall
<1>2. ExportAllowed(r.req, r.level)
  BY DEF LevelIsRight, Allowed
<1>3. CASE r.req.of = "user"
  BY <1>2, <1>3 DEF ExportAllowed, LevelIsRight, RecordsOf, HasRight
<1>4. CASE r.req.of = "server"
  <2>1. HostAsked(r.req) = r.req.target
    BY <1>4 DEF HostAsked
  <2>2. \A m \in RecordsOf(r.req, r.level) : About[m].origin = r.req.target
    BY <1>4 DEF RecordsOf
  <2> QED
    BY <1>2, <1>4, <2>1, <2>2 DEF ExportAllowed, LevelIsRight, HasRight
<1> QED
  BY <1>1, <1>3, <1>4

LEMMA ListRecordsInv ==
  ASSUME AdminInv, NEW s \in Slots, ListRecords(s)
  PROVE  AdminInv'
<1> DEFINE r == call[s]
           q == [r EXCEPT !.pc = "listed", !.records = RecordsOf(r.req, r.level)]
<1>1. r.pc = "allowed" /\ CallInv(r)
  BY DEF AdminInv, ListRecords
<1>2. r \in AskedCall /\ r.req \in Calls
  BY <1>1, RunningCall
<1>3. call' = [call EXCEPT ![s] = q]
  BY DEF ListRecords
<1>4. /\ q \in AskedCall /\ q.req = r.req /\ q.level = r.level /\ q.seen = r.seen /\ q.done = r.done
      /\ q.pc = "listed" /\ q.records = RecordsOf(r.req, r.level)
  BY <1>2, RecordsAreItems DEF AskedCall
<1>5. LevelIsRight(r) /\ r.done = {}
  BY <1>1 DEF CallInv
<1>6. LevelIsRight(q)
  BY <1>4, <1>5 DEF LevelIsRight
<1>7. q.req.op = "export" => \A m \in q.records : HasRight(q, m)
  BY <1>2, <1>4, <1>5, ExportedRecords DEF HasRight
<1>8. CallInv(q)
  BY <1>4, <1>5, <1>6, <1>7 DEF CallInv
<1> QED
  BY <1>3, <1>8, CallStep DEF AdminInv, ListRecords

(* A call that has listed its records acts on those it has a right to. *)
LEMMA ActingCall ==
  ASSUME AdminInv, NEW s \in Slots, call[s].pc = "listed", NEW ms \in SUBSET Items,
         call' = [call EXCEPT ![s].pc = "done", ![s].done = ms],
         \A m \in ms : HasRight(call[s], m)
  PROVE  call' = [x \in Slots |-> call'[x]] /\ \A x \in Slots : CallInv(call'[x])
<1> DEFINE r == call[s]
           q == [r EXCEPT !.pc = "done", !.done = ms]
<1>1. r \in AskedCall
  BY RunningCall DEF AdminInv
<1>2. /\ q \in AskedCall /\ q.req = r.req /\ q.seen = r.seen /\ q.pc = "done" /\ q.done = ms
  BY <1>1 DEF AskedCall
<1>3. CallInv(q)
  BY <1>2 DEF CallInv, HasRight
<1>4. call' = [call EXCEPT ![s] = q]
  OBVIOUS
<1> HIDE DEF q
<1> QED
  BY <1>3, <1>4, CallStep

LEMMA ListedCall ==
  ASSUME AdminInv, NEW s \in Slots, call[s].pc = "listed"
  PROVE  /\ call[s] \in AskedCall /\ call[s].req \in Calls /\ call[s].records \subseteq Items
         /\ LevelIsRight(call[s]) /\ CallInv(call[s])
BY RunningCall DEF AdminInv, CallInv, AskedCall

LEMMA PurgeCallInv ==
  ASSUME AdminInv, NEW s \in Slots, Purge(s)
  PROVE  AdminInv'
<1> DEFINE r == call[s]
           rs == r.records \cap stored
           gone == {m \in rs : m \notin pinned /\ (r.req.of = "remote" => m \notin hidden)}
<1>1. r.pc = "listed" /\ r.req.op = "purge"
  BY DEF Purge
<1>2. r \in AskedCall /\ LevelIsRight(r) /\ r.records \subseteq Items
  BY <1>1, ListedCall
<1>3. CASE \A m \in rs : CanAffect(r.req, r.level, m)
  <2>1. call' = [call EXCEPT ![s].pc = "done", ![s].done = gone]
    BY <1>3 DEF Purge
  <2>2. r.req.of \in {"remote", "old", "all old"} => r.level = "repo"
    BY <1>1, <1>2 DEF LevelIsRight, Allowed, PurgeAllowed
  <2>3. HostAsked(r.req) = r.req.host
    BY <1>1 DEF HostAsked
  <2>4. \A m \in rs : HasRight(r, m)
    BY <1>2, <1>3, <2>2, <2>3 DEF CanAffect, LevelIsRight, HasRight
  <2>5. call' = [x \in Slots |-> call'[x]] /\ \A x \in Slots : CallInv(call'[x])
    BY <1>1, <1>2, <2>1, <2>4, ActingCall
  <2>6. stored' = stored \ gone /\ fresh' = fresh \ gone /\ hidden' = hidden \ gone
    BY <1>3 DEF Purge
  <2> QED
    BY <2>5, <2>6 DEF AdminInv, Purge
<1>4. CASE ~\A m \in rs : CanAffect(r.req, r.level, m)
  <2> DEFINE q == [r EXCEPT !.pc = "refused"]
  <2>1. call' = [call EXCEPT ![s] = q] /\ UNCHANGED <<stored, fresh, hidden>>
    BY <1>4 DEF Purge
  <2>2. q \in AskedCall /\ q.pc = "refused" /\ q.done = r.done
    BY <1>2 DEF AskedCall
  <2>3. r.done = {}
    BY <1>1 DEF AdminInv, CallInv
  <2>4. CallInv(q)
    BY <2>2, <2>3 DEF CallInv
  <2> QED
    BY <2>1, <2>4, CallStep DEF AdminInv, Purge
<1> QED
  BY <1>3, <1>4

LEMMA QuarantineCallInv ==
  ASSUME AdminInv, NEW s \in Slots, Quarantine(s)
  PROVE  AdminInv'
<1> DEFINE r == call[s]
           ms == CopiesOf(r.req, r.level, r.records)
<1>1. r.pc = "listed" /\ r.req.op = "quarantine" /\ call' = [call EXCEPT ![s].pc = "done", ![s].done = ms]
      /\ hidden' = hidden \cup ms
  BY DEF Quarantine
<1>2. LevelIsRight(r)
  BY <1>1, ListedCall
<1>3. ms \subseteq stored /\ ms \subseteq Items
  BY DEF CopiesOf, AdminInv
<1>4. r.level = "repo" \/ r.level = "local"
  BY <1>1, <1>2 DEF LevelIsRight, Allowed, QuarantineAllowed
<1>5. HostAsked(r.req) = r.req.host
  BY <1>1 DEF HostAsked
<1>6. \A m \in ms : HasRight(r, m)
  BY <1>2, <1>4, <1>5 DEF CopiesOf, LevelIsRight, HasRight
<1>7. call' = [x \in Slots |-> call'[x]] /\ \A x \in Slots : CallInv(call'[x])
  BY <1>1, <1>3, <1>6, ActingCall
<1> QED
  BY <1>1, <1>3, <1>7 DEF AdminInv, Quarantine

LEMMA ExportCallInv ==
  ASSUME AdminInv, NEW s \in Slots, Export(s)
  PROVE  AdminInv'
<1>1. call[s].pc = "listed" /\ call[s].req.op = "export"
  BY DEF Export
<1>2. \A m \in call[s].records : m \in Items /\ HasRight(call[s], m)
  BY <1>1, ListedCall DEF CallInv
<1>3. call' = [x \in Slots |-> call'[x]] /\ \A x \in Slots : CallInv(call'[x])
  BY <1>1, <1>2, ActingCall DEF Export
<1> QED
  BY <1>3 DEF AdminInv, Export

LEMMA SetAttributesInv ==
  ASSUME AdminInv, NEW s \in Slots, SetAttributes(s)
  PROVE  AdminInv'
<1> DEFINE r == call[s]
<1>1. r.pc = "listed" /\ r.req.op \in {"pin", "unpin"}
      /\ call' = [call EXCEPT ![s].pc = "done", ![s].done = {r.req.target}]
  BY DEF SetAttributes
<1>2. LevelIsRight(r) /\ r.req \in Calls
  BY <1>1, ListedCall
<1>3. r.req.target \in Items
  BY <1>1, <1>2, AdminAssumption
<1>4. HostAsked(r.req) = About[r.req.target].origin
  BY <1>1 DEF HostAsked
<1>5. r.level # "user" /\ r.level # "none"
  BY <1>1, <1>2 DEF LevelIsRight, Allowed
<1>6. r.level \in {"local", "repo"}
  BY <1>1, <1>5, ListedCall DEF AskedCall
<1>7. HasRight(r, r.req.target)
  BY <1>2, <1>4, <1>6 DEF LevelIsRight, HasRight
<1>8. call' = [x \in Slots |-> call'[x]] /\ \A x \in Slots : CallInv(call'[x])
  <2>1. {r.req.target} \in SUBSET Items /\ \A m \in {r.req.target} : HasRight(r, m)
    BY <1>3, <1>7
  <2> QED
    BY <1>1, <2>1, ActingCall
<1>9. pinned' \subseteq Items
  BY <1>3 DEF SetAttributes, AdminInv
<1> QED
  BY <1>8, <1>9 DEF AdminInv, SetAttributes

LEMMA AdminNextInv == AdminInv /\ [AdminNext]_adminVars => AdminInv'
<1> SUFFICES ASSUME AdminInv, [AdminNext]_adminVars PROVE AdminInv'
  OBVIOUS
<1>1. ASSUME NEW s \in Slots, Answer(s) PROVE AdminInv'
  BY <1>1, IdleCall, CallStep DEF AdminInv, Answer
<1>2. ASSUME NEW m \in Items, MediaArrives(m) PROVE AdminInv'
  BY <1>2 DEF AdminInv, MediaArrives
<1>3. ASSUME NEW a \in admins, Demote(a) PROVE AdminInv'
  BY <1>3 DEF AdminInv, Demote
<1>4. CASE UNCHANGED adminVars
  BY <1>4 DEF AdminInv, adminVars
<1> QED
  BY <1>1, <1>2, <1>3, <1>4, AdminAskInv, AuthorizeInv, ListRecordsInv, PurgeCallInv, QuarantineCallInv,
     ExportCallInv, SetAttributesInv DEF AdminNext

(* Pinned media is not touched by any step. *)
LEMMA PinnedStays ==
  ASSUME AdminInv, [AdminNext]_adminVars
  PROVE  \A m \in pinned \cap stored : m \in stored' /\ (m \in hidden' => m \in hidden)
<1>1. ASSUME NEW s \in Slots, Purge(s)
      PROVE  \A m \in pinned \cap stored : m \in stored' /\ (m \in hidden' => m \in hidden)
  BY <1>1 DEF Purge
<1>2. ASSUME NEW s \in Slots, Quarantine(s)
      PROVE  \A m \in pinned \cap stored : m \in stored' /\ (m \in hidden' => m \in hidden)
  BY <1>2 DEF Quarantine, CopiesOf
<1>3. CASE \E s \in Slots : \/ \E c \in Calls : Ask(s, c)
                            \/ Authorize(s) \/ ListRecords(s) \/ Export(s) \/ SetAttributes(s) \/ Answer(s)
  BY <1>3 DEF Ask, Authorize, ListRecords, Export, SetAttributes, Answer
<1>4. CASE (\E m \in Items : MediaArrives(m)) \/ (\E a \in admins : Demote(a)) \/ UNCHANGED adminVars
  BY <1>4 DEF MediaArrives, Demote, adminVars
<1> QED
  BY <1>1, <1>2, <1>3, <1>4 DEF AdminNext

(* Type correctness of the admin API, for any number of calls at once.         *)
THEOREM AdminTypeCorrect == AdminSpec => []AdminTypeOK
<1>1. AdminInv => AdminTypeOK
  BY IdleCall DEF AdminInv, AdminTypeOK, CallInv, AskedCall
<1> QED
  BY <1>1, AdminInitInv, AdminNextInv, PTL DEF AdminSpec

(* Whoever calls, however many at once and whatever changes between the        *)
(* question for the rights, the listing and the act: nobody acts on media      *)
(* they have no right to, and pinned media is neither purged nor quarantined   *)
(* (purge.go:356-365, quarantine.go:156-199, exports.go:45-105).               *)
THEOREM CallsAreAuthorized == AdminSpec => CallsStayInBounds
<1>1. AdminInv => AuthorityIsRespected
  BY DEF AdminInv, CallInv, HasRight, AuthorityIsRespected
<1>2. AdminInv /\ [AdminNext]_adminVars
      => [\A m \in pinned \cap stored : m \in stored' /\ (m \in hidden' => m \in hidden)]_adminVars
  BY PinnedStays
<1> QED
  BY <1>1, <1>2, AdminInitInv, AdminNextInv, PTL DEF AdminSpec, CallsStayInBounds

-----------------------------------------------------------------------------
(* All of them together. *)

LEMMA ImportTypes == ImportInv => ImportTypeOK
BY DEF ImportInv

LEMMA ExportTypes == ExportInv => ExportTypeOK
BY DEF ExportInv

LEMMA AdminTypes == AdminInv => AdminTypeOK
BY IdleCall DEF AdminInv, AdminTypeOK, CallInv, AskedCall

(* All parts of module MCOperations keep their types together, for every value   *)
(* of its constants: the queue of the pool, the parts of an export and the       *)
(* plugins are bounded by what was asked for, never by how often it is           *)
(* interrupted.                                                                  *)
THEOREM OperationTypesCorrect == Spec => []OperationsTypeOK
<1> DEFINE Inv == TaskInv /\ ImportInv /\ ExportInv /\ AdminInv /\ (ReloadInv /\ ReloadBounds)
<1>1. Init => Inv
  BY TaskInitInv, ImportInitInv, ExportInitInv, AdminInitInv, ReloadInitInv, ReloadBoundsInit DEF Init
<1>2. [Next]_vars => [TaskNext]_taskVars
  BY DEF Next, Runs, vars
<1>3. [Next]_vars => [ImportNext]_importVars
  BY DEF Next, Runs, vars
<1>4. [Next]_vars => [ExportNext]_exportVars
  BY DEF Next, Runs, vars
<1>5. [Next]_vars => [AdminNext]_adminVars
  BY DEF Next, Runs, vars
<1>6. [Next]_vars => [ReloadNext]_reloadVars
  BY DEF Next, Runs, vars
<1>7. Inv /\ [Next]_vars => Inv'
  <2>1. TaskInv /\ [Next]_vars => TaskInv'
    BY <1>2, TaskNextInv
  <2>2. ImportInv /\ [Next]_vars => ImportInv'
    BY <1>3, ImportNextInv
  <2>3. ExportInv /\ [Next]_vars => ExportInv'
    BY <1>4, ExportNextInv
  <2>4. AdminInv /\ [Next]_vars => AdminInv'
    BY <1>5, AdminNextInv
  <2>5. (ReloadInv /\ ReloadBounds) /\ [Next]_vars => ((ReloadInv /\ ReloadBounds))'
    BY <1>6, ReloadNextInv, ReloadBoundsNext
  <2> QED
    BY <2>1, <2>2, <2>3, <2>4, <2>5
<1>8. Inv => OperationsTypeOK
  BY TaskTypes, ImportTypes, ExportTypes, AdminTypes, ReloadTypes DEF OperationsTypeOK
<1> QED
  BY <1>1, <1>7, <1>8, PTL DEF Spec
=============================================================================
