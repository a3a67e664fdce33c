------------------------------ MODULE MediaRepo ------------------------------
(***************************************************************************)
(* The upload pipeline, purging, quarantining and datastore migration on   *)
(* one store.  The code has no lock between them.  TakeTurns stands for an *)
(* operator who lets them run one after the other and lets purges finish;  *)
(* without it the promises below fail (run repo_purge_race).               *)
(***************************************************************************)
EXTENDS UploadPipeline, PurgeTask, MigrateTask

CONSTANT TakeTurns   \* TRUE: uploads, purges and migrations do not overlap

ASSUME RepoAssumption == TakeTurns \in BOOLEAN

repoVars == <<storeVars, uploadVars, purgeVars, mg>>

RepoTypeOK == UploadTypeOK /\ PurgeTypeOK /\ MigrateTypeOK

RepoInit ==
    /\ UploadInit
    /\ pg = [p \in Purgers |-> NotPurging]
    /\ doomed = {}
    /\ mg = [g \in Migrators |-> NotMigrating]

Uploading == \E u \in Uploaders : up[u].pc # "idle"
Purging == \E p \in Purgers : pg[p].pc # "idle"
Migrating == \E g \in Migrators : mg[g].pc # "idle"

(* The holding record of a PUT is left after its upload. *)
HoldLeft == \E m \in expiring : IdExists(m)

UploadPart ==
    /\ UploadNext
    /\ (TakeTurns /\ (Purging \/ Migrating)) => up' = up
    /\ UNCHANGED <<purgeVars, mg>>

PurgePart ==
    /\ \E p \in Purgers : PurgerStep(p)
    /\ TakeTurns => ~Uploading /\ ~Migrating /\ ~HoldLeft
    /\ UNCHANGED <<uploadVars, mg>>

QuarantinePart ==
    /\ \E h \in Hashes : QuarantineMedia(h)
    /\ UNCHANGED <<uploadVars, purgeVars, mg>>

MigratePart ==
    /\ \E g \in Migrators : MigrateStep(g)
    /\ TakeTurns => ~Uploading /\ ~Purging
    /\ UNCHANGED <<uploadVars, purgeVars>>

RepoNext == UploadPart \/ PurgePart \/ QuarantinePart \/ MigratePart

RepoSpec == RepoInit /\ [][RepoNext]_repoVars
-----------------------------------------------------------------------------
(* Properties. *)

(* A row or thumbnail without its content is one that a running purge is      *)
(* taking away, or a quarantined row whose file was purged.  Whatever uploads *)
(* deduplicate against, purges free and migrations move, in any order of      *)
(* complete operations, no other media loses its content.  docs/admin.md:29:  *)
(* "If the file is duplicated over many media records, it will not be         *)
(* physically deleted".                                                       *)
SharedFilesAreKept ==
    /\ \A m \in MediaIds : (IdExists(m) /\ objects[media[m].loc] # media[m].hash) =>
           media[m].quarantined \/ \E p \in Purgers : m \in Selected(p)
    /\ \A t \in thumbs : objects[t.loc] # t.hash => \E p \in Purgers : t.parent \in Selected(p)

(* A row that deduplication is about to copy names an object that exists:     *)
(* "We already uploaded it somewhere else - use the datastore ID and          *)
(* location" (pipeline.go:139).                                               *)
DeduplicatedFileExists ==
    \A u \in Uploaders : up[u].pc = "insertDup" => objects[up[u].loc] = up[u].hash

(* Files stay where rows point, for those who have media and for those who are   *)
(* about to share it (the two invariants above).                                 *)
FilesAreKept == SharedFilesAreKept /\ DeduplicatedFileExists

(* With complete purges and no overlap of the parts, the whole store keeps    *)
(* the promise made to the users of a media ID (module MediaService): a purge *)
(* takes content away for good, and a migration that moves rows and objects   *)
(* in four steps, or is cut off between two of them, is not noticed at all.   *)
RepoKeepsItsPromise == Service!ServiceSpec
=============================================================================
