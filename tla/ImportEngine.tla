---------------------------- MODULE ImportEngine ----------------------------
(***************************************************************************)
(* One import of an archive: the engine and its worker (tasks/task_runner/ *)
(* import_data.go), the reader of the parts (archival/v2archive/reader.go) *)
(* and the requests that add parts and close it (api/custom/imports.go).   *)
(* Parts arrive concurrently; each is stored and handed to the worker by a *)
(* goroutine of its own, over a channel without a buffer.                  *)
(***************************************************************************)
EXTENDS Naturals, FiniteSets

CONSTANTS
    Parts,          \* files of the archive
    ManifestPart,   \* the one that holds manifest.json
    Holds,          \* part -> the media it holds
    OwnMedia,       \* media the repository knows before the import
    ForeignSets,    \* choices of the media that importFileFromStream skips
    MaxRestarts     \* bound on restarts of the process

Archived == UNION {Holds[p] : p \in Parts}

ASSUME ImportAssumption ==
    /\ ManifestPart \in Parts
    /\ DOMAIN Holds = Parts /\ IsFiniteSet(Parts)
    /\ ForeignSets \subseteq SUBSET Archived
    /\ MaxRestarts \in Nat

VARIABLES
    uploadOf,   \* part -> where the request that brings it is
    engine,     \* the entry of importEngines
    files,      \* parts in e.files
    shut,       \* parts whose file is closed
    sending,    \* parts whose goroutine is at workCh <- f
    worker,     \* workFn
    hasManifest, done,   \* the ArchiveReader: its manifest, the media in uploaded
    channel,    \* open or closed
    task,       \* the row of the task: end, error
    closing,    \* the request that closes the import
    foreign,    \* media whose origin is not the one of its uploader or of its key
    copy,       \* media -> "own", "archive", or "none" when the repository has none
    crashed, restarts

importVars == <<uploadOf, engine, files, shut, sending, worker, hasManifest, done, channel,
                task, closing, foreign, copy, crashed, restarts>>

NoPart == "none"
Waiting == [pc |-> "waiting", at |-> NoPart, left |-> {}]

ImportTypeOK ==
    /\ uploadOf \in [Parts -> {"away", "found", "stored", "refused"}]
    /\ engine \in {"none", "open", "gone"}
    /\ files \subseteq Parts /\ sending \subseteq files /\ shut \subseteq files
    /\ worker \in [pc : {"waiting", "look", "process", "check", "finish", "remove", "clean", "ended"},
                   at : Parts \cup {NoPart}, left : SUBSET Parts]
    /\ hasManifest \in BOOLEAN /\ done \subseteq Archived
    /\ channel \in {"open", "closed"}
    /\ task \in [ended : BOOLEAN, error : {"", "failure", "file already closed"}]
    /\ closing \in {"idle", "found", "marked", "sending", "answered", "panicked"}
    /\ foreign \in ForeignSets
    /\ copy \in [Archived -> {"none", "own", "archive"}]
    /\ crashed \in BOOLEAN /\ restarts \in 0..MaxRestarts

(* StartImport has scheduled the task. *)
ImportInit ==
    /\ uploadOf = [p \in Parts |-> "away"]
    /\ engine = "none"
    /\ files = {} /\ shut = {} /\ sending = {} /\ worker = Waiting
    /\ hasManifest = FALSE /\ done = {} /\ channel = "open"
    /\ task = [ended |-> FALSE, error |-> ""]
    /\ closing = "idle"
    /\ foreign \in ForeignSets
    /\ copy = [m \in Archived |-> IF m \in OwnMedia THEN "own" ELSE "none"]
    /\ crashed = FALSE /\ restarts = 0

reader == <<hasManifest, done, copy>>
process == <<foreign, crashed, restarts>>

-----------------------------------------------------------------------------
(* ImportData: createEngine, and go engine.workFn *)
CreateEngine ==
    /\ ~crashed /\ engine = "none" /\ ~task.ended
    /\ engine' = "open"
    /\ UNCHANGED <<uploadOf, files, shut, sending, worker, channel, task, closing, reader, process>>

(* AppendImportFile finds the engine, *)
AppendFinds(p) ==
    /\ ~crashed /\ uploadOf[p] = "away" /\ engine = "open"
    /\ uploadOf' = [uploadOf EXCEPT ![p] = "found"]
    /\ UNCHANGED <<engine, files, shut, sending, worker, channel, task, closing, reader, process>>

(* or gives up: five tries at an engine that is not there yet, or no more. *)
AppendGivesUp(p) ==
    /\ ~crashed /\ uploadOf[p] = "away" /\ engine # "open"
    /\ uploadOf' = [uploadOf EXCEPT ![p] = "refused"]
    /\ UNCHANGED <<engine, files, shut, sending, worker, channel, task, closing, reader, process>>

(* appendFile: the body is copied to a temporary file, kept, and sent. *)
AppendFile(p) ==
    /\ ~crashed /\ uploadOf[p] = "found"
    /\ uploadOf' = [uploadOf EXCEPT ![p] = "stored"]
    /\ files' = files \cup {p} /\ sending' = sending \cup {p}
    /\ UNCHANGED <<engine, shut, worker, channel, task, closing, reader, process>>

-----------------------------------------------------------------------------
(* workFn receives a file, *)
Receive(p) ==
    /\ ~crashed /\ engine # "none" /\ worker.pc = "waiting" /\ p \in sending
    /\ sending' = sending \ {p}
    /\ worker' = IF hasManifest THEN [pc |-> "process", at |-> p, left |-> {p}]
                                ELSE [pc |-> "look", at |-> p, left |-> {}]
    /\ UNCHANGED <<uploadOf, engine, files, shut, channel, task, closing, reader, process>>

(* or the nil of finish(true). *)
ReceiveNil ==
    /\ ~crashed /\ worker.pc = "waiting" /\ closing = "sending"
    /\ worker' = [worker EXCEPT !.pc = "clean"] /\ closing' = "answered"
    /\ UNCHANGED <<uploadOf, engine, files, shut, sending, channel, task, reader, process>>

(* TryGetManifestFrom rewinds the file; the manifest makes every known file due. *)
LookForManifest ==
    /\ ~crashed /\ worker.pc = "look"
    /\ hasManifest' = (worker.at = ManifestPart)
    /\ worker' = IF hasManifest' THEN [worker EXCEPT !.pc = "process", !.left = files]
                                 ELSE [worker EXCEPT !.pc = "check"]
    /\ UNCHANGED <<uploadOf, engine, files, shut, sending, channel, task, closing, done, copy, process>>

(* The archive, the manifest or the gzip container cannot be read. *)
LookFails ==
    /\ ~crashed /\ worker.pc = "look"
    /\ worker' = [worker EXCEPT !.pc = "finish"]
    /\ task' = [task EXCEPT !.error = "failure"]
    /\ UNCHANGED <<uploadOf, engine, files, shut, sending, channel, closing, reader, process>>

(* Mutant: the known copy is replaced. *)
ImportFilesAnyway(ms) ==
    /\ done' = done \cup ms
    /\ copy' = [m \in Archived |-> IF m \in ms THEN "archive" ELSE copy[m]]

(* importFileFromStream for the media ms: a known copy counts as uploaded. *)
ImportFiles(ms) ==
    /\ done' = done \cup ms
    /\ copy' = [m \in Archived |-> IF m \in ms /\ copy[m] = "none" THEN "archive" ELSE copy[m]]

(* ProcessFile, which closes the file in the end. *)
ProcessFile(p) ==
    /\ ~crashed /\ worker.pc = "process" /\ p \in worker.left \ shut
    /\ ImportFiles((Holds[p] \ foreign) \ done)
    /\ shut' = shut \cup {p}
    /\ worker' = [worker EXCEPT !.left = @ \ {p}]
    /\ UNCHANGED <<uploadOf, engine, files, sending, channel, task, closing, hasManifest, process>>

(* A file that is closed already cannot be read again. *)
ProcessShutFile(p) ==
    /\ ~crashed /\ worker.pc = "process" /\ p \in worker.left \cap shut
    /\ worker' = [worker EXCEPT !.pc = "finish"]
    /\ task' = [task EXCEPT !.error = "file already closed"]
    /\ UNCHANGED <<uploadOf, engine, files, shut, sending, channel, closing, reader, process>>

(* An error of the database or of the upload pipeline, after some of the media. *)
ProcessFails(p) ==
    /\ ~crashed /\ worker.pc = "process" /\ p \in worker.left \ shut
    /\ \E ms \in SUBSET ((Holds[p] \ foreign) \ done) : ImportFiles(ms)
    /\ shut' = shut \cup {p}
    /\ worker' = [worker EXCEPT !.pc = "finish"]
    /\ task' = [task EXCEPT !.error = "failure"]
    /\ UNCHANGED <<uploadOf, engine, files, sending, channel, closing, hasManifest, process>>

Processed ==
    /\ ~crashed /\ worker.pc = "process" /\ worker.left = {}
    /\ worker' = [worker EXCEPT !.pc = "check"]
    /\ UNCHANGED <<uploadOf, engine, files, shut, sending, channel, task, closing, reader, process>>

(* HasManifest() && len(GetNotUploadedMxcUris()) == 0 *)
CheckComplete ==
    /\ ~crashed /\ worker.pc = "check"
    /\ worker' = IF hasManifest /\ done = Archived THEN [worker EXCEPT !.pc = "finish"] ELSE Waiting
    /\ UNCHANGED <<uploadOf, engine, files, shut, sending, channel, task, closing, reader, process>>

(* finish(false): markDone, *)
WorkerMarksDone ==
    /\ ~crashed /\ worker.pc = "finish"
    /\ task' = [task EXCEPT !.ended = TRUE]
    /\ worker' = [worker EXCEPT !.pc = "remove"]
    /\ UNCHANGED <<uploadOf, engine, files, shut, sending, channel, closing, reader, process>>

(* importEngines.Delete *)
WorkerRemovesEngine ==
    /\ ~crashed /\ worker.pc = "remove"
    /\ engine' = "gone"
    /\ worker' = [worker EXCEPT !.pc = "clean"]
    /\ UNCHANGED <<uploadOf, files, shut, sending, channel, task, closing, reader, process>>

(* The deferred clean up: the files are closed and removed, and close(ch).  A goroutine *)
(* that waits in its send panics with the process, a request only with its connection.  *)
WorkerEnds ==
    /\ ~crashed /\ worker.pc = "clean"
    /\ shut' = files
    /\ channel' = "closed"
    /\ worker' = [worker EXCEPT !.pc = "ended"]
    /\ crashed' = (sending # {})
    /\ closing' = IF closing = "sending" THEN "panicked" ELSE closing
    /\ UNCHANGED <<uploadOf, engine, files, sending, task, reader, foreign, restarts>>

(* workCh <- f after close(ch). *)
SendOnClosedChannel ==
    /\ ~crashed /\ channel = "closed" /\ sending # {}
    /\ crashed' = TRUE
    /\ UNCHANGED <<uploadOf, engine, files, shut, sending, worker, channel, task, closing, reader, foreign, restarts>>

-----------------------------------------------------------------------------
(* StopImport: FinishImport finds the engine, *)
CloseFinds ==
    /\ ~crashed /\ closing = "idle" /\ engine = "open"
    /\ closing' = "found"
    /\ UNCHANGED <<uploadOf, engine, files, shut, sending, worker, channel, task, reader, process>>

(* finish(true): markDone, *)
CloseMarksDone ==
    /\ ~crashed /\ closing = "found"
    /\ closing' = "marked" /\ task' = [task EXCEPT !.ended = TRUE]
    /\ UNCHANGED <<uploadOf, engine, files, shut, sending, worker, channel, reader, process>>

(* importEngines.Delete, and workCh <- nil *)
CloseRemovesEngine ==
    /\ ~crashed /\ closing = "marked"
    /\ engine' = "gone"
    /\ closing' = IF channel = "closed" THEN "panicked" ELSE "sending"
    /\ UNCHANGED <<uploadOf, files, shut, sending, worker, channel, task, reader, process>>

(* main.go, scheduleUnfinished: a task without an end begins again, with no file; the *)
(* client brings the parts again.                                                     *)
RestartImport ==
    /\ crashed /\ restarts < MaxRestarts
    /\ restarts' = restarts + 1 /\ crashed' = FALSE
    /\ uploadOf' = [p \in Parts |-> "away"]
    /\ engine' = IF task.ended THEN "gone" ELSE "none"
    /\ files' = {} /\ shut' = {} /\ sending' = {}
    /\ worker' = [Waiting EXCEPT !.pc = IF task.ended THEN "ended" ELSE "waiting"]
    /\ hasManifest' = FALSE /\ done' = {} /\ channel' = "open"
    /\ closing' = IF closing = "idle" THEN "idle" ELSE "answered"
    /\ UNCHANGED <<task, foreign, copy>>

WorkerStep ==
    \/ \E p \in Parts : Receive(p) \/ ProcessFile(p) \/ ProcessShutFile(p)
    \/ ReceiveNil \/ LookForManifest \/ Processed \/ CheckComplete
    \/ WorkerMarksDone \/ WorkerRemovesEngine \/ WorkerEnds

CloseStep == CloseMarksDone \/ CloseRemovesEngine

ImportNext ==
    \/ CreateEngine
    \/ \E p \in Parts : AppendFinds(p) \/ AppendGivesUp(p) \/ AppendFile(p) \/ ProcessFails(p)
    \/ WorkerStep \/ LookFails \/ SendOnClosedChannel
    \/ CloseFinds \/ CloseStep
    \/ RestartImport

(* Goroutines are scheduled; requests come, errors happen and processes restart or not. *)
ImportSpec ==
    ImportInit /\ [][ImportNext]_importVars /\ WF_importVars(WorkerStep) /\ WF_importVars(CloseStep)

-----------------------------------------------------------------------------
(* Properties. *)

(* An import that ends by itself and without an error has every media of the      *)
(* manifest, whatever the order of the parts and across restarts                  *)
(* (import_data.go:148).                                                          *)
FinishedImportIsComplete ==
    (task.ended /\ task.error = "" /\ closing = "idle") => \A m \in Archived : copy[m] # "none"

(* An import adds what is missing, all of it (FinishedImportIsComplete) and       *)
(* nothing else: a copy the repository knows is never replaced, by a part, by the *)
(* same part sent twice or by the import of a restarted process                   *)
(* (reader.go:246-253).                                                           *)
ImportIsSound ==
    /\ []FinishedImportIsComplete
    /\ [][\A m \in Archived : copy[m] # "none" => copy'[m] = copy[m]]_importVars

(* The worker of an import that was closed ends, however the close meets the end  *)
(* of the worker itself (import_data.go:99-101).                                  *)
NoWorkerIsLeft == []<>(engine = "gone" => (worker.pc = "ended" \/ crashed))
=============================================================================
