----------------------------- MODULE RemoteCopy -----------------------------
(***************************************************************************)
(* PutAndReturnStream (pipelines/_steps/datastore_op): a remote download   *)
(* is uploaded and, through a pipe, buffered for the client that asked for *)
(* it.  The upload reads the input (BufferTemp of pipeline_upload, step    *)
(* 4); each of its reads returns when the buffer has taken the same bytes. *)
(***************************************************************************)
EXTENDS Naturals

CONSTANT CopyReads   \* reads it takes to read the input

ASSUME RemoteCopyAssumption == CopyReads \in Nat \ {0}

VARIABLES
    uploader,    \* the goroutine of the upload
    uploaded,    \* what its pipeline returned
    bufferer,    \* the goroutine of the buffer
    piped,       \* reads that went through the pipe
    pipe,        \* open, or closed by the upload's goroutine
    copyResult   \* what PutAndReturnStream returns

copyVars == <<uploader, uploaded, bufferer, piped, pipe, copyResult>>

CopyTypeOK ==
    /\ uploader \in {"idle", "reading", "rest", "closing", "done"}
    /\ uploaded \in {"", "record", "nothing", "error"}
    /\ bufferer \in {"idle", "reading", "done", "failed"}
    /\ piped \in 0..CopyReads
    /\ pipe \in {"open", "closed"}
    /\ copyResult \in {"", "stream", "error"}

CopyInit ==
    /\ uploader = "idle"
    /\ uploaded = ""
    /\ bufferer = "idle"
    /\ piped = 0
    /\ pipe = "open"
    /\ copyResult = ""

(* A remote download, or a thumbnail, is there to be stored: two goroutines. *)
StartCopy ==
    /\ uploader = "idle"
    /\ uploader' = "reading" /\ bufferer' = "reading"
    /\ UNCHANGED <<uploaded, piped, pipe, copyResult>>

(* A read of the input, and the pipe. *)
CopyPart ==
    /\ uploader = "reading" /\ bufferer = "reading"
    /\ piped < CopyReads
    /\ piped' = piped + 1
    /\ UNCHANGED <<uploader, uploaded, bufferer, pipe, copyResult>>

(* The whole input is buffered: the rest of the upload's pipeline. *)
InputEnds ==
    /\ uploader = "reading" /\ piped = CopyReads
    /\ uploader' = "rest"
    /\ UNCHANGED <<uploaded, bufferer, piped, pipe, copyResult>>

(* Before its first read or between two of them: no datastore, no temporary file, *)
(* an error of the input.                                                         *)
UploadFailsEarly ==
    /\ uploader = "reading"
    /\ uploader' = "closing" /\ uploaded' = "error"
    /\ UNCHANGED <<bufferer, piped, pipe, copyResult>>

(* A spam check that fails returns neither a record nor an error. *)
UploadReturns ==
    /\ uploader = "rest"
    /\ uploader' = "closing" /\ uploaded' \in {"record", "nothing", "error"}
    /\ UNCHANGED <<bufferer, piped, pipe, copyResult>>

(* Mutant: the end of the upload does not close the pipe. *)
ForgetThePipe ==
    /\ uploader = "closing"
    /\ uploader' = "done"
    /\ UNCHANGED <<uploaded, bufferer, piped, pipe, copyResult>>

(* upstreamClose and wg.Done *)
UpstreamClose ==
    /\ uploader = "closing"
    /\ uploader' = "done" /\ pipe' = "closed"
    /\ UNCHANGED <<uploaded, bufferer, piped, copyResult>>

(* BufferTemp of the copy: the end of the pipe is the end of the content, *)
BufferEnds ==
    /\ bufferer = "reading" /\ pipe = "closed"
    /\ bufferer' = "done"
    /\ UNCHANGED <<uploader, uploaded, piped, pipe, copyResult>>

(* but a full disk or a missing directory leaves the pipe without a reader. *)
BufferFails ==
    /\ bufferer = "reading"
    /\ bufferer' = "failed"
    /\ UNCHANGED <<uploader, uploaded, piped, pipe, copyResult>>

(* Mutant: a failed upload still returns what was buffered. *)
ReturnTheStream ==
    /\ copyResult = "" /\ uploader = "done" /\ bufferer # "reading"
    /\ copyResult' = IF bufferer = "failed" THEN "error" ELSE "stream"
    /\ UNCHANGED <<uploader, uploaded, bufferer, piped, pipe>>

(* wg.Wait, the two results. *)
PutAndReturnStream ==
    /\ copyResult = "" /\ uploader = "done" /\ bufferer # "reading"
    /\ copyResult' = IF bufferer = "failed" \/ uploaded = "error" THEN "error" ELSE "stream"
    /\ UNCHANGED <<uploader, uploaded, bufferer, piped, pipe>>

CopyStep ==
    \/ CopyPart \/ InputEnds \/ UploadReturns \/ UpstreamClose \/ BufferEnds \/ PutAndReturnStream

CopyNext == StartCopy \/ CopyStep \/ UploadFailsEarly \/ BufferFails

CopySpec == CopyInit /\ [][CopyNext]_copyVars /\ WF_copyVars(CopyStep)

-----------------------------------------------------------------------------
(* Properties. *)

(* The client gets the whole remote media or an error: the pipe ends in the same  *)
(* way for an upload that gave up half way (put_and_return_stream.go:60-68).      *)
CopyIsComplete ==
    copyResult = "stream" => (piped = CopyReads /\ bufferer = "done")

(* The client is answered, unless the buffer failed.                              *)
CopyEnds == []<>(uploader = "idle" \/ copyResult # "" \/ bufferer = "failed")
=============================================================================
