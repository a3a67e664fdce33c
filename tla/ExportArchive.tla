--------------------------- MODULE ExportArchive ---------------------------
(***************************************************************************)
(* One export: the task (tasks/task_runner/export_data.go), the walk over  *)
(* the media of the entity (archival/entity_export.go), the writer of the  *)
(* parts (archival/v2archive/writer.go), and DeleteExport                  *)
(* (api/custom/exports.go), which may come while the task still runs.      *)
(* Every read and write may fail; the process may crash, and then begins   *)
(* the task again.                                                         *)
(***************************************************************************)
EXTENDS Naturals, FiniteSets

CONSTANTS
    Media,             \* media records of the entity
    Bytes,             \* media -> size of its content
    PartSize,          \* targetBytesPerPart
    MaxExportCrashes   \* bound on crashes

ASSUME ExportAssumption ==
    /\ IsFiniteSet(Media)
    /\ Bytes \in [Media -> Nat]
    /\ PartSize \in Nat \ {0}
    /\ MaxExportCrashes \in Nat

MaxPart == Cardinality(Media) + 2

VARIABLES
    exportRow,     \* the exports table has the id
    partRows,      \* part numbers in export_parts
    objects,       \* part numbers whose object is in the datastore
    content,       \* part -> the media in it
    manifestPart,  \* the part that holds the manifest, 0 before it is written
    writer,        \* the ArchiveWriter
    walk,          \* ExportData and ExportEntityData
    exportTask,    \* the row of the task
    skipped,       \* media left out: quarantined, or not uploaded yet
    finishFailed,  \* history: Finish returned an error, which nobody reads
    deletion,      \* DeleteExport; late: none began before the end of the task
    exportCrashes

exportVars == <<exportRow, partRows, objects, content, manifestPart, writer, walk, exportTask,
                skipped, finishFailed, deletion, exportCrashes>>

tables == <<exportRow, partRows, objects, content, manifestPart>>

(* open: the temporary file of the current part can still be closed and sent *)
NewWriter == [part |-> 1, tar |-> {}, size |-> 0, manifest |-> {}, open |-> TRUE]

(* then: where the walk goes on after the part it writes *)
NewWalk == [pc |-> "begin", left |-> {}, then |-> "", failed |-> FALSE]

ExportTypeOK ==
    /\ exportRow \in BOOLEAN
    /\ partRows \subseteq 1..MaxPart /\ objects \subseteq 1..MaxPart
    /\ content \in [1..MaxPart -> SUBSET Media]
    /\ manifestPart \in 0..MaxPart
    /\ writer \in [part : 1..MaxPart, tar : SUBSET Media, size : Nat, manifest : SUBSET Media, open : BOOLEAN]
    /\ walk \in [pc : {"begin", "insert", "list", "next", "upload", "record", "finish", "manifest", "end", "down"},
                 left : SUBSET Media, then : {"", "next", "manifest", "end"}, failed : BOOLEAN]
    /\ walk.pc = "next" => writer.size < PartSize
    /\ exportTask \in [ended : BOOLEAN, error : BOOLEAN]
    /\ skipped \subseteq Media /\ finishFailed \in BOOLEAN
    /\ deletion \in [pc : {"idle", "objects", "export"}, left : SUBSET (1..MaxPart),
                     begun : BOOLEAN, late : BOOLEAN, answered : BOOLEAN]
    /\ exportCrashes \in 0..MaxExportCrashes

ExportInit ==
    /\ exportRow = FALSE /\ partRows = {} /\ objects = {} /\ content = [n \in 1..MaxPart |-> {}]
    /\ manifestPart = 0
    /\ writer = NewWriter /\ walk = NewWalk
    /\ exportTask = [ended |-> FALSE, error |-> FALSE]
    /\ skipped = {} /\ finishFailed = FALSE
    /\ deletion = [pc |-> "idle", left |-> {}, begun |-> FALSE, late |-> FALSE, answered |-> FALSE]
    /\ exportCrashes = 0

-----------------------------------------------------------------------------

(* GetEntity: a restarted task finds its own row, and refuses to go on. *)
BeginExport ==
    /\ walk.pc = "begin"
    /\ walk' = [walk EXCEPT !.pc = IF exportRow THEN "end" ELSE "insert", !.failed = exportRow]
    /\ UNCHANGED <<tables, writer, exportTask, skipped, finishFailed, deletion, exportCrashes>>

InsertExport ==
    /\ walk.pc = "insert"
    /\ exportRow' = TRUE
    /\ writer' = NewWriter
    /\ walk' = [walk EXCEPT !.pc = "list"]
    /\ UNCHANGED <<partRows, objects, content, manifestPart, exportTask, skipped, finishFailed, deletion, exportCrashes>>

(* GetByUserId, GetByOrigin *)
ListMedia ==
    /\ walk.pc = "list"
    /\ walk' = [walk EXCEPT !.pc = "next", !.left = Media]
    /\ UNCHANGED <<tables, writer, exportTask, skipped, finishFailed, deletion, exportCrashes>>

(* Before there is a writer an error ends the task, after it there is Finish. *)
ExportFails ==
    /\ \/ /\ walk.pc \in {"begin", "insert"}
          /\ walk' = [walk EXCEPT !.pc = "end", !.failed = TRUE]
       \/ /\ walk.pc = "list" \/ (walk.pc = "next" /\ walk.left # {})
          /\ walk' = [walk EXCEPT !.pc = "finish", !.failed = TRUE]
    /\ UNCHANGED <<tables, writer, exportTask, skipped, finishFailed, deletion, exportCrashes>>

(* ErrMediaQuarantined, ErrMediaNotYetUploaded *)
SkipMedia(m) ==
    /\ walk.pc = "next" /\ m \in walk.left
    /\ skipped' = skipped \cup {m}
    /\ walk' = [walk EXCEPT !.left = @ \ {m}]
    /\ UNCHANGED <<tables, writer, exportTask, finishFailed, deletion, exportCrashes>>

(* AppendMedia: putFile, the manifest, and a full part is rotated. *)
AppendMedia(m) ==
    LET size == writer.size + Bytes[m]
    IN  /\ walk.pc = "next" /\ m \in walk.left
        /\ writer' = [writer EXCEPT !.tar = @ \cup {m}, !.manifest = @ \cup {m}, !.size = size]
        /\ walk' = IF size >= PartSize
                   THEN [walk EXCEPT !.left = @ \ {m}, !.pc = "upload", !.then = "next"]
                   ELSE [walk EXCEPT !.left = @ \ {m}]
        /\ UNCHANGED <<tables, exportTask, skipped, finishFailed, deletion, exportCrashes>>

WalkEnds ==
    /\ walk.pc = "next" /\ walk.left = {}
    /\ walk' = [walk EXCEPT !.pc = "finish"]
    /\ UNCHANGED <<tables, writer, exportTask, skipped, finishFailed, deletion, exportCrashes>>

(* The deferred Finish: rotateTar closes the temporary file, which fails when a write *)
(* of the part has failed before.                                                     *)
Finish ==
    /\ walk.pc = "finish"
    /\ walk' = IF writer.open THEN [walk EXCEPT !.pc = "upload", !.then = "manifest"]
                              ELSE [walk EXCEPT !.pc = "end"]
    /\ finishFailed' = ~writer.open
    /\ UNCHANGED <<tables, writer, exportTask, skipped, deletion, exportCrashes>>

(* writeTar, persistPart: Pick, BufferTemp, Upload, *)
UploadPart ==
    /\ walk.pc = "upload"
    /\ writer' = [writer EXCEPT !.open = FALSE]
    /\ objects' = objects \cup {writer.part}
    /\ content' = [content EXCEPT ![writer.part] = writer.tar]
    /\ walk' = [walk EXCEPT !.pc = "record"]
    /\ UNCHANGED <<exportRow, partRows, manifestPart, exportTask, skipped, finishFailed, deletion, exportCrashes>>

(* and partsDb.Insert (the index is unique); then beginTar, or the end of Finish. *)
RecordPart ==
    /\ walk.pc = "record" /\ writer.part \notin partRows
    /\ partRows' = partRows \cup {writer.part}
    /\ manifestPart' = IF walk.then = "end" THEN writer.part ELSE manifestPart
    /\ writer' = IF walk.then = "end" THEN writer
                 ELSE [writer EXCEPT !.part = @ + 1, !.tar = {}, !.size = 0, !.open = TRUE]
    /\ walk' = [walk EXCEPT !.pc = walk.then, !.then = ""]
    /\ UNCHANGED <<exportRow, objects, content, exportTask, skipped, finishFailed, deletion, exportCrashes>>

(* An error in AppendMedia ends the walk; one in Finish is dropped. *)
WriteEnds ==
    /\ writer' = [writer EXCEPT !.open = FALSE]
    /\ IF walk.then = "next"
       THEN /\ walk' = [walk EXCEPT !.pc = "finish", !.then = "", !.failed = TRUE]
            /\ UNCHANGED finishFailed
       ELSE /\ walk' = [walk EXCEPT !.pc = "end", !.then = ""]
            /\ finishFailed' = TRUE
    /\ UNCHANGED <<tables, exportTask, skipped, deletion, exportCrashes>>

WriteFails == walk.pc \in {"upload", "record"} /\ WriteEnds

PartExists == walk.pc = "record" /\ writer.part \in partRows /\ WriteEnds

(* manifest.json and index.html, in a part of their own. *)
WriteManifest ==
    /\ walk.pc = "manifest"
    /\ walk' = [walk EXCEPT !.pc = "upload", !.then = "end"]
    /\ UNCHANGED <<tables, writer, exportTask, skipped, finishFailed, deletion, exportCrashes>>

(* markError, and the deferred markDone *)
EndExport ==
    /\ walk.pc = "end" /\ ~exportTask.ended
    /\ exportTask' = [ended |-> TRUE, error |-> walk.failed]
    /\ UNCHANGED <<tables, writer, walk, skipped, finishFailed, deletion, exportCrashes>>

-----------------------------------------------------------------------------
(* DeleteExport: GetForExport, *)
DeleteBegins ==
    /\ walk.pc # "down" /\ deletion.pc = "idle"
    /\ deletion' = [pc |-> "objects", left |-> partRows, begun |-> TRUE, answered |-> FALSE,
                    late |-> exportTask.ended /\ (deletion.begun => deletion.late)]
    /\ UNCHANGED <<tables, writer, walk, exportTask, skipped, finishFailed, exportCrashes>>

(* RemoveWithDsId; an object that is gone is no error. *)
DeleteObject(n) ==
    /\ deletion.pc = "objects" /\ n \in deletion.left
    /\ objects' = objects \ {n}
    /\ deletion' = [deletion EXCEPT !.left = @ \ {n}]
    /\ UNCHANGED <<exportRow, partRows, content, manifestPart, writer, walk, exportTask, skipped, finishFailed,
                   exportCrashes>>

(* Mutant: the rows go although objects are left. *)
DeletePartRowsEarly ==
    /\ deletion.pc = "objects"
    /\ partRows' = {} /\ manifestPart' = 0
    /\ deletion' = [deletion EXCEPT !.pc = "export", !.left = {}]
    /\ UNCHANGED <<exportRow, objects, content, writer, walk, exportTask, skipped, finishFailed,
                   exportCrashes>>

(* DeleteForExport: every part of the export, *)
DeletePartRows ==
    /\ deletion.pc = "objects" /\ deletion.left = {}
    /\ partRows' = {} /\ manifestPart' = 0
    /\ deletion' = [deletion EXCEPT !.pc = "export"]
    /\ UNCHANGED <<exportRow, objects, content, writer, walk, exportTask, skipped, finishFailed,
                   exportCrashes>>

(* and the export. *)
DeleteRow ==
    /\ deletion.pc = "export"
    /\ exportRow' = FALSE
    /\ deletion' = [deletion EXCEPT !.pc = "idle", !.answered = TRUE]
    /\ UNCHANGED <<partRows, objects, content, manifestPart, writer, walk, exportTask, skipped, finishFailed,
                   exportCrashes>>

(* An error of the datastore or of the database: whoever asked may ask again. *)
DeleteFails ==
    /\ deletion.pc # "idle"
    /\ deletion' = [deletion EXCEPT !.pc = "idle", !.left = {}]
    /\ UNCHANGED <<tables, writer, walk, exportTask, skipped, finishFailed, exportCrashes>>

-----------------------------------------------------------------------------
(* The process stops; *)
ExportCrash ==
    /\ exportCrashes < MaxExportCrashes /\ walk.pc # "down" /\ ~exportTask.ended
    /\ exportCrashes' = exportCrashes + 1
    /\ walk' = [NewWalk EXCEPT !.pc = "down"]
    /\ deletion' = [deletion EXCEPT !.pc = "idle", !.left = {}]
    /\ UNCHANGED <<tables, writer, exportTask, skipped, finishFailed>>

(* scheduleUnfinished begins the task again. *)
ExportRestart ==
    /\ walk.pc = "down"
    /\ walk' = NewWalk
    /\ skipped' = {} /\ finishFailed' = FALSE
    /\ UNCHANGED <<tables, writer, exportTask, deletion, exportCrashes>>

ExportStep ==
    \/ BeginExport \/ InsertExport \/ ListMedia
    \/ \E m \in Media : SkipMedia(m) \/ AppendMedia(m)
    \/ WalkEnds \/ Finish \/ UploadPart \/ RecordPart \/ PartExists \/ WriteManifest \/ EndExport
    \/ ExportRestart

ExportNext ==
    \/ ExportStep \/ ExportFails \/ WriteFails
    \/ DeleteBegins \/ (\E n \in 1..MaxPart : DeleteObject(n)) \/ DeletePartRows \/ DeleteRow \/ DeleteFails
    \/ ExportCrash

ExportSpec == ExportInit /\ [][ExportNext]_exportVars /\ WF_exportVars(ExportStep)

-----------------------------------------------------------------------------
(* Properties. *)

NeverDeleted == ~deletion.begun

(* An archive that has a manifest has the media the manifest names, in parts that *)
(* can be downloaded, whatever failed on the way (writer.go:77-83, :235-238).     *)
ManifestIsBacked ==
    (NeverDeleted /\ manifestPart \in partRows) =>
        \A m \in writer.manifest : \E n \in partRows \cap objects : n # manifestPart /\ m \in content[n]

(* A task that ends without an error, and whose Finish wrote the manifest, has    *)
(* every media of the entity but the skipped ones: a crashed or partial export    *)
(* never passes for a complete one (export_data.go:40-50, :102-107).              *)
QuietExportIsComplete ==
    (exportTask.ended /\ ~exportTask.error /\ ~finishFailed /\ NeverDeleted) =>
        /\ manifestPart \in partRows
        /\ writer.manifest \cup skipped = Media

(* A delete that succeeds leaves no part and no object a part pointed to, after   *)
(* failed deletes as well (exports.go:314-343), if none of them met the task:     *)
(* the rows that go are not the ones that were read.                              *)
DeletedExportIsGone ==
    (deletion.answered /\ deletion.late /\ deletion.pc = "idle") =>
        /\ partRows = {} /\ ~exportRow
        /\ \A n \in objects : n = writer.part

(* A task that has begun ends, however often the process crashes and whatever     *)
(* fails.                                                                         *)
ExportEnds == []<>(walk.pc # "begin" => exportTask.ended)

(* What an export seems to be, it is: a manifest is backed, a quiet end is        *)
(* complete, and what was deleted is gone (the three invariants above).           *)
ExportIsHonest == ManifestIsBacked /\ QuietExportIsComplete /\ DeletedExportIsGone
=============================================================================
