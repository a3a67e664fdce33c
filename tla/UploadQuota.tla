---------------------------- MODULE UploadQuota ----------------------------
(***************************************************************************)
(* The quota of one user (pipelines/_steps/quota/check.go) and the places  *)
(* that ask for it: POST /create checks the number of pending uploads, the *)
(* upload pipeline checks bytes and files before it takes its lock and     *)
(* inserts the row much later.  user_stats is kept by a trigger of the     *)
(* media table (migration 17), in the transaction of the statement.        *)
(***************************************************************************)
EXTENDS Integers, FiniteSets, FiniteSetsExt

CONSTANTS
    Requests,    \* uploads and creations of the user
    Sizes,       \* sizes of uploads, in bytes
    MaxBytes,    \* the quota rule of the user
    MaxFiles,
    MaxPending,
    MediaBound   \* bound: uploads that may be stored

ASSUME QuotaAssumption ==
    /\ Sizes \subseteq Nat \ {0}
    /\ {MaxBytes, MaxFiles, MaxPending} \subseteq Int
    /\ MediaBound \in Nat

VARIABLES
    files,          \* the user's rows of the media table: their sizes, by slot
    uploadedBytes,  \* user_stats
    pending,        \* the user's unexpired rows of expiring_media
    req,            \* the requests
    overlapped      \* history: a request began before another had ended

quotaVars == <<files, uploadedBytes, pending, req, overlapped>>

Slots == 1..MediaBound
Stored == {s \in Slots : files[s] >= 0}
NoFile == -1

RequestPcs == {"idle", "checkFiles", "insert", "createInsert", "rejected"}
NoRequest == [pc |-> "idle", size |-> 0]

QuotaTypeOK ==
    /\ files \in [Slots -> Sizes \cup {NoFile}]
    /\ uploadedBytes \in Nat
    /\ pending \in Nat
    /\ req \in [Requests -> [pc : RequestPcs, size : Sizes \cup {0}]]
    /\ overlapped \in BOOLEAN

QuotaInit ==
    /\ files = [s \in Slots |-> NoFile]
    /\ uploadedBytes = 0
    /\ pending = 0
    /\ req = [r \in Requests |-> NoRequest]
    /\ overlapped = FALSE

Start(r) ==
    /\ req[r].pc = "idle"
    /\ overlapped' = (overlapped \/ \E q \in Requests : req[q].pc # "idle")
CheckStrictly(count, limit) == limit <= 0 \/ count + 1 < limit

(* Check: limits that are not positive do not apply. *)
Check(count, limit) == limit <= 0 \/ count < limit

(* CanUpload, the part about bytes: only a negative limit does not apply. *)
BytesFit(size) == MaxBytes < 0 \/ uploadedBytes + size <= MaxBytes

-----------------------------------------------------------------------------
(* pipeline_create.Execute. *)
CreateMedia(r) ==
    /\ Start(r)
    /\ req' = [req EXCEPT ![r] = [pc |-> IF Check(pending, MaxPending) THEN "createInsert" ELSE "rejected",
                                  size |-> 0]]
    /\ UNCHANGED <<files, uploadedBytes, pending>>

CreateInsert(r) ==
    /\ req[r].pc = "createInsert"
    /\ pending' = pending + 1
    /\ req' = [req EXCEPT ![r] = NoRequest]
    /\ UNCHANGED <<files, uploadedBytes, overlapped>>

(* A pending upload is completed (its row is another request's) or expires. *)
PendingEnds ==
    /\ pending > 0
    /\ pending' = pending - 1
    /\ UNCHANGED <<files, uploadedBytes, req, overlapped>>

(* pipeline_upload.Execute, step 7.  A negative byte limit skips the files. *)
CanUpload(r) ==
    /\ Start(r)
    /\ \E size \in Sizes :
           req' = [req EXCEPT ![r] = [size |-> size,
               pc |-> IF ~BytesFit(size) THEN "rejected"
                      ELSE IF MaxBytes < 0 THEN "insert" ELSE "checkFiles"]]
    /\ UNCHANGED <<files, uploadedBytes, pending>>

CheckFiles(r) ==
    /\ req[r].pc = "checkFiles"
    /\ req' = [req EXCEPT ![r].pc =
                  IF Check(Cardinality(Stored), MaxFiles) THEN "insert" ELSE "rejected"]
    /\ UNCHANGED <<files, uploadedBytes, pending, overlapped>>

(* Mutant: the trigger does not see insertions. *)
InsertUncounted(r) ==
    /\ req[r].pc = "insert"
    /\ \E s \in Slots \ Stored : files' = [files EXCEPT ![s] = req[r].size]
    /\ req' = [req EXCEPT ![r] = NoRequest]
    /\ UNCHANGED <<uploadedBytes, pending, overlapped>>

(* Steps 8 to 14: lock, deduplicate, store, insert.  The trigger counts the    *)
(* row, whether or not its content was known before.                           *)
InsertMedia(r) ==
    /\ req[r].pc = "insert"
    /\ \E s \in Slots \ Stored :
           files' = [files EXCEPT ![s] = req[r].size]
    /\ uploadedBytes' = uploadedBytes + req[r].size
    /\ req' = [req EXCEPT ![r] = NoRequest]
    /\ UNCHANGED <<pending, overlapped>>

(* A row of the user is purged. *)
DeleteMedia ==
    /\ \E s \in Stored :
           /\ files' = [files EXCEPT ![s] = NoFile]
           /\ uploadedBytes' = uploadedBytes - files[s]
    /\ UNCHANGED <<pending, req, overlapped>>

(* ErrQuotaExceeded goes to the client, or an accepted request fails later. *)
EndRequest(r) ==
    /\ req[r].pc \in {"rejected", "insert", "createInsert"}
    /\ req' = [req EXCEPT ![r] = NoRequest]
    /\ UNCHANGED <<files, uploadedBytes, pending, overlapped>>

QuotaNext ==
    \/ \E r \in Requests :
           CreateMedia(r) \/ CreateInsert(r) \/ CanUpload(r) \/ CheckFiles(r) \/ InsertMedia(r)
               \/ EndRequest(r)
    \/ PendingEnds \/ DeleteMedia

QuotaSpec == QuotaInit /\ [][QuotaNext]_quotaVars

-----------------------------------------------------------------------------
(* Properties. *)

Within(count, limit) == limit > 0 => count <= limit

(* config.sample.yaml:332-333: "The user will not be permitted to upload      *)
(* anything above these quota values, but can match them exactly".  Holds for *)
(* a user who waits for each request before the next; overlapping requests    *)
(* are checked against the same usage (pipeline.go:99) and all inserted.      *)
QuotaIsKept ==
    ~overlapped =>
        /\ Within(uploadedBytes, MaxBytes)
        /\ Within(Cardinality(Stored), MaxFiles)
        /\ Within(pending, MaxPending)

(* What the checks read is what the user has stored, through all interleaved  *)
(* uploads and deletions (migration 17, check.go:48).                         *)
UsageIsExact == uploadedBytes = MapThenSumSet(LAMBDA s : files[s], Stored)

(* Limits are kept (QuotaIsKept), usage is counted right (UsageIsExact), and   *)
(* nobody is refused while there is room: at the moment of the refusal, a      *)
(* limit that is in force would be passed ("can match them exactly",           *)
(* config.sample.yaml:333), whatever other requests of the user are doing.     *)
QuotaIsExact ==
    /\ []QuotaIsKept
    /\ []UsageIsExact
    /\ [][\A r \in Requests : (req[r].pc # "rejected" /\ req'[r].pc = "rejected") =>
              IF req'[r].size = 0 THEN ~Within(pending + 1, MaxPending)
              ELSE \/ ~Within(uploadedBytes + req'[r].size, MaxBytes)
                   \/ ~Within(Cardinality(Stored) + 1, MaxFiles)]_quotaVars
=============================================================================
