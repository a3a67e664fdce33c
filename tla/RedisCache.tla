----------------------------- MODULE RedisCache -----------------------------
(***************************************************************************)
(* The Redis copy of one content (redislib/cache.go), written by the       *)
(* uploads of it while they write to the datastore                         *)
(* (pipelines/_steps/upload/redis_async.go and steps 5 to 14 of            *)
(* pipeline_upload.Execute).  An upload is two goroutines joined by a      *)
(* pipe: one sends the content to the datastore under the upload lock, the *)
(* other appends what comes through the pipe to the key.                   *)
(***************************************************************************)
EXTENDS Naturals, Sequences, FiniteSets

CONSTANTS
    Writers,     \* uploads of the content, each runs once
    NoWriter,
    Chunks       \* reads it takes to send the content

ASSUME RedisAssumption ==
    /\ Chunks \in Nat \ {0}
    /\ IsFiniteSet(Writers) /\ NoWriter \notin Writers

VARIABLES
    stored,      \* the key: the chunks appended so far, None when it is missing
    uploadLock,  \* the upload lock of the hash
    hashRow,     \* a media row with the hash exists
    ring,        \* connected to Redis
    sender,      \* the uploads' goroutines
    filler,      \* the cache's goroutines
    sent,        \* chunks sent through the pipe
    mishap,      \* history: what went wrong that the code does not repair
    panicked     \* the process died

redisVars == <<stored, uploadLock, hashRow, ring, sender, filler, sent, mishap, panicked>>

None == <<0>>                       \* redis.Nil
Whole == [i \in 1..Chunks |-> i]

Senders == {"idle", "sending", "waiting", "unlock", "close", "ended"}
Fillers == {"none", "set", "read", "append", "cleanup", "drain", "closed"}

RedisTypeOK ==
    /\ stored = None \/ stored \in UNION {[1..n -> 1..Chunks] : n \in 0..(Chunks * Cardinality(Writers))}
    /\ uploadLock \in Writers \cup {NoWriter}
    /\ {hashRow, ring, panicked} \subseteq BOOLEAN
    /\ sender \in [Writers -> Senders]
    /\ filler \in [Writers -> Fillers]
    /\ sent \in [Writers -> 0..Chunks]
    /\ mishap \subseteq {"overlap", "cleanup failed", "expired"}

RedisInit ==
    /\ stored = None
    /\ uploadLock = NoWriter
    /\ hashRow = FALSE
    /\ ring \in BOOLEAN
    /\ sender = [w \in Writers |-> "idle"]
    /\ filler = [w \in Writers |-> "none"]
    /\ sent = [w \in Writers |-> 0]
    /\ mishap = {}
    /\ panicked = FALSE

WriterTo(w, s, f) ==
    /\ sender' = [sender EXCEPT ![w] = s]
    /\ filler' = [filler EXCEPT ![w] = f]

(* Fillers that will still touch the key. *)
Filling(v) == filler[v] \in {"set", "append", "cleanup"} \/ (filler[v] = "read" /\ sender[v] # "waiting")

(* Steps 8, 9 and 11: the lock, no record with the hash, the cache's goroutine. *)
StartFilling(w) ==
    /\ sender[w] = "idle"
    /\ uploadLock = NoWriter
    /\ IF hashRow
       THEN /\ WriterTo(w, "ended", "closed")
            /\ UNCHANGED <<uploadLock, mishap>>
       ELSE /\ WriterTo(w, "sending", "set")
            /\ uploadLock' = w
            /\ mishap' = mishap \cup {m \in {"overlap"} : \E v \in Writers : Filling(v)}
    /\ UNCHANGED <<stored, hashRow, ring, sent, panicked>>

-----------------------------------------------------------------------------
(* StoreMedia, by the cache's goroutine. *)

(* Without Redis there is nothing to do but to drain the pipe. *)
SetEmpty(w) ==
    /\ filler[w] = "set"
    /\ \/ /\ ~ring
          /\ WriterTo(w, sender[w], "drain")
          /\ UNCHANGED stored
       \/ /\ ring
          /\ stored' = << >>
          /\ WriterTo(w, sender[w], "read")
       \/ /\ ring
          /\ stored' \in {stored, << >>}
          /\ WriterTo(w, sender[w], "cleanup")
    /\ UNCHANGED <<uploadLock, hashRow, ring, sent, mishap, panicked>>

Extended(w) == IF stored = None THEN <<sent[w]>> ELSE Append(stored, sent[w])

(* The connection is not checked again: a reconnect leaves a nil pointer. *)
AppendChunk(w) ==
    /\ filler[w] = "append"
    /\ \/ /\ ~ring
          /\ panicked' = TRUE
          /\ UNCHANGED <<stored, sender, filler>>
       \/ /\ ring
          /\ stored' = Extended(w)
          /\ WriterTo(w, sender[w], "read")
          /\ UNCHANGED panicked
       \/ /\ ring
          /\ stored' \in {stored, Extended(w)}
          /\ WriterTo(w, sender[w], "cleanup")
          /\ UNCHANGED panicked
    /\ UNCHANGED <<uploadLock, hashRow, ring, sent, mishap>>

(* The reader has ended, well or not. *)
ReadEnd(w) ==
    /\ filler[w] = "read"
    /\ \/ /\ sender[w] = "waiting"
          /\ WriterTo(w, "waiting", "closed")
       \/ /\ sender[w] = "ended"
          /\ WriterTo(w, "ended", "cleanup")
    /\ UNCHANGED <<stored, uploadLock, hashRow, ring, sent, mishap, panicked>>

(* Mutant: PopulateCacheAsync does not flush the reader. *)
CleanupWithoutFlush(w) ==
    /\ filler[w] = "cleanup"
    /\ stored' = None
    /\ WriterTo(w, sender[w], "closed")
    /\ UNCHANGED <<uploadLock, hashRow, ring, sent, mishap, panicked>>

(* cleanup: DeleteMedia, whose failure is only logged. *)
Cleanup(w) ==
    /\ filler[w] = "cleanup"
    /\ \/ /\ ring
          /\ stored' = None
          /\ UNCHANGED mishap
       \/ /\ UNCHANGED stored
          /\ mishap' = mishap \cup {m \in {"cleanup failed"} : stored # None}
    /\ WriterTo(w, sender[w], "drain")
    /\ UNCHANGED <<uploadLock, hashRow, ring, sent, panicked>>

-----------------------------------------------------------------------------
(* The upload. *)

(* The tee: a read for the datastore returns when the pipe's reader has taken it. *)
PipeChunk(w) ==
    /\ sender[w] = "sending" /\ sent[w] < Chunks
    /\ filler[w] \in {"read", "drain"}
    /\ sent' = [sent EXCEPT ![w] = @ + 1]
    /\ WriterTo(w, "sending", IF filler[w] = "read" THEN "append" ELSE "drain")
    /\ UNCHANGED <<stored, uploadLock, hashRow, ring, mishap, panicked>>

(* datastores.Upload returns, or fails between two reads. *)
DatastoreReturns(w) ==
    /\ sender[w] = "sending" /\ sent[w] = Chunks
    /\ WriterTo(w, "waiting", filler[w])
    /\ UNCHANGED <<stored, uploadLock, hashRow, ring, sent, mishap, panicked>>

DatastoreFails(w) ==
    /\ sender[w] = "sending"
    /\ WriterTo(w, "unlock", filler[w])
    /\ UNCHANGED <<stored, uploadLock, hashRow, ring, sent, mishap, panicked>>

(* Steps 13 and 14: the channel is closed before the pipe is drained. *)
InsertAfterCache(w) ==
    /\ sender[w] = "waiting"
    /\ filler[w] \in {"drain", "closed"}
    /\ hashRow' \in {hashRow, TRUE}
    /\ WriterTo(w, "unlock", filler[w])
    /\ UNCHANGED <<stored, uploadLock, ring, sent, mishap, panicked>>

(* Execute returns.  Its deferred calls run in reverse order: the lock first, *)
DeferredUnlock(w) ==
    /\ sender[w] = "unlock"
    /\ uploadLock' = IF uploadLock = w THEN NoWriter ELSE uploadLock
    /\ WriterTo(w, "close", filler[w])
    /\ UNCHANGED <<stored, hashRow, ring, sent, mishap, panicked>>

(* then the pipe, which a filler that still reads sees as an error. *)
DeferredClose(w) ==
    /\ sender[w] = "close"
    /\ WriterTo(w, "ended", IF filler[w] = "drain" THEN "closed" ELSE filler[w])
    /\ UNCHANGED <<stored, uploadLock, hashRow, ring, sent, mishap, panicked>>

DrainEnds(w) ==
    /\ filler[w] = "drain" /\ sender[w] = "ended"
    /\ WriterTo(w, "ended", "closed")
    /\ UNCHANGED <<stored, uploadLock, hashRow, ring, sent, mishap, panicked>>

-----------------------------------------------------------------------------
(* Everything else. *)

KeyExpires ==
    /\ stored # None
    /\ stored' = None
    /\ mishap' = mishap \cup {m \in {"expired"} : \E v \in Writers : Filling(v)}
    /\ UNCHANGED <<uploadLock, hashRow, ring, sender, filler, sent, panicked>>

(* The row is quarantined: the task deletes the key. *)
QuarantineDeletes ==
    /\ hashRow /\ ring
    /\ stored' = None
    /\ UNCHANGED <<uploadLock, hashRow, ring, sender, filler, sent, mishap, panicked>>

(* Reconnect: softStop closes the ring, makeConnection opens one again if Redis  *)
(* is still configured.                                                          *)
SoftStop ==
    /\ ring
    /\ ring' = FALSE
    /\ UNCHANGED <<stored, uploadLock, hashRow, sender, filler, sent, mishap, panicked>>

MakeConnection ==
    /\ ~ring
    /\ ring' = TRUE
    /\ UNCHANGED <<stored, uploadLock, hashRow, sender, filler, sent, mishap, panicked>>

(* TryGetMedia: a download takes what the key holds. *)
TryGetMedia == IF ring THEN stored ELSE None

RedisWork(w) ==
    /\ ~panicked
    /\ \/ SetEmpty(w) \/ AppendChunk(w) \/ ReadEnd(w) \/ Cleanup(w) \/ PipeChunk(w) \/ DatastoreReturns(w)
       \/ InsertAfterCache(w) \/ DeferredUnlock(w) \/ DeferredClose(w) \/ DrainEnds(w)

RedisNext ==
    /\ ~panicked
    /\ \/ \E w \in Writers : RedisWork(w) \/ StartFilling(w) \/ DatastoreFails(w)
       \/ KeyExpires \/ QuarantineDeletes \/ SoftStop \/ MakeConnection

RedisSpec == RedisInit /\ [][RedisNext]_redisVars /\ \A w \in Writers : WF_redisVars(RedisWork(w))

-----------------------------------------------------------------------------
(* Properties. *)

(* Once the content has a row, a download finds all of it in the cache or        *)
(* nothing: every error on the way to the row takes the key back (cache.go:43-48 *)
(* and 60-67).  Excepted are a deletion that fails as well, a key that expires   *)
(* while it is appended to, and the filler of a failed upload that outlives the  *)
(* upload lock.                                                                  *)
CachedContentIsWhole ==
    (hashRow /\ mishap = {}) => TryGetMedia \in {None, Whole}

(* redis_async.go:15, "we need to flush the reader as we might end up blocking   *)
(* the upload": an upload ends, whatever happens to its copy in the cache.       *)
CacheNeverBlocksUploads ==
    \A w \in Writers : []<>(sender[w] \in {"idle", "ended"} \/ panicked)

(* The cache changes nothing but the time a download takes: what it returns is   *)
(* the content (cache.go:43-67), and no upload waits for it (redis_async.go:15). *)
CacheIsTransparent == []CachedContentIsWhole /\ CacheNeverBlocksUploads
=============================================================================
