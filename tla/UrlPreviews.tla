---------------------------- MODULE UrlPreviews ----------------------------
(***************************************************************************)
(* URL previews (api/r0/preview_url.go, pipelines/pipeline_preview,        *)
(* pipelines/_steps/url_preview, url_previewing, table_url_previews.go).   *)
(* A preview is cached per URL and hour.  Requests of one host share a     *)
(* flight; flights of different hosts or processes meet in the table,      *)
(* where the first row wins and the loser takes its uploaded image back.   *)
(* One language; every page shows the same picture, so that the uploads of *)
(* it are deduplicated.                                                    *)
(***************************************************************************)
EXTENDS Naturals, FiniteSets

CONSTANTS
    Askers,            \* requests, each asks once
    PreviewHosts,      \* hosts, or processes
    Urls,              \* URLs that are asked for
    Unparsable,        \* those url.Parse refuses
    Refused,           \* those without a scheme that is accepted
    Pages,             \* what the web may answer
    FilePreviewTypes,  \* urlPreviews.filePreviewTypes
    OEmbed,            \* urlPreviews.oEmbed
    PageLimited,       \* urlPreviews.maxPageSizeBytes > 0
    LastHour,          \* bound: hours that pass
    AskedHours,        \* hours that requests name
    ExpireHours,       \* urlPreviews.expireAfterDays
    NoImage

ASSUME PreviewAssumption ==
    /\ Unparsable \subseteq Urls /\ Refused \subseteq Urls
    /\ {OEmbed, PageLimited} \subseteq BOOLEAN
    /\ LastHour \in Nat /\ AskedHours \subseteq 0..LastHour /\ ExpireHours \in Nat \ {0, 1}
    /\ NoImage \notin Askers /\ Urls # {} /\ PreviewHosts # {}
    /\ \A p \in Pages : /\ p.embed \in {"none", "fails", "ok"}
                        /\ p.get \in {"ok", "fails", "large"}
                        /\ {p.parses, p.image} \subseteq BOOLEAN

VARIABLES
    hour,        \* the clock, in hours
    previews,    \* the table: <<url, hour>> -> a row
    pictures,    \* the uploaded images' media rows: uploader -> location
    pictureFiles,\* locations with a file
    ask,         \* the requests
    trouble      \* history: what the code does not repair

previewVars == <<hour, previews, pictures, pictureFiles, ask, trouble>>

Hours == 0..LastHour
PreviewKeys == Urls \X Hours
Images == Askers \cup {NoImage}
ErrorCodes == {"notFound", "unknown", "invalidHost"}
Troubles == {"unsure", "cleanup failed", "overlap", "expired"}

(* A row: DbUrlPreview, or its absence. *)
Row(code, image) == [code |-> code, image |-> image]
NoRow == Row("absent", NoImage)
PreviewRows == [code : ErrorCodes \cup {"", "absent"}, image : Images]
Answers == {"", "og", "notFound", "badRequest", "serverError"}

NewAsk == [pc |-> "idle", host |-> CHOOSE h \in PreviewHosts : TRUE, url |-> CHOOSE u \in Urls : TRUE, at |-> 0,
           place |-> NoImage, res |-> NoRow, existing |-> NoRow, answer |-> ""]

PreviewTypeOK ==
    /\ hour \in Hours
    /\ previews \in [PreviewKeys -> PreviewRows]
    /\ \A k \in PreviewKeys : previews[k].code # "" => previews[k].image = NoImage
    /\ pictures \in [Askers -> Images]
    /\ pictureFiles \subseteq Askers
    /\ ask \in [Askers -> [pc : {"idle", "lookup", "bucket", "join", "joined", "generate", "failed", "upload", "store",
                                 "insert", "conflict", "upgrade", "again", "cleanRow", "cleanCheck", "cleanFile",
                                 "landed", "lost", "answered"},
                           host : PreviewHosts, url : Urls, at : Hours, place : Images, res : PreviewRows,
                           existing : PreviewRows, answer : Answers]]
    /\ trouble \subseteq Troubles

PreviewInit ==
    /\ hour = 0
    /\ previews = [k \in PreviewKeys |-> NoRow]
    /\ pictures = [a \in Askers |-> NoImage]
    /\ pictureFiles = {}
    /\ ask = [a \in Askers |-> NewAsk]
    /\ trouble = {}

AskAt(a, pc) == ask[a].pc = pc
AskGoes(a, pc) == ask' = [ask EXCEPT ![a].pc = pc]
KeyOf(a) == <<ask[a].url, ask[a].at>>

(* What PreviewUrl answers to what Execute returned. *)
AnswerTo(row) ==
    CASE row.code = "" -> "og"
      [] row.code = "notFound" -> "notFound"
      [] row.code = "invalidHost" -> "badRequest"
      [] OTHER -> "serverError"

AnsweredWith(row) == [NewAsk EXCEPT !.pc = "answered", !.res = row, !.answer = AnswerTo(row)]
Answered(a, row) == ask' = [ask EXCEPT ![a] = AnsweredWith(row)]

-----------------------------------------------------------------------------
(* Generating a preview: Preview and its three previewers.  A result is a code   *)
(* and whether there is an image to upload; "panic" never leaves the pool.       *)

Result(code, image) == [code |-> code, image |-> image]
Unsupported == Result("unsupported", FALSE)

(* DownloadRawContent: every supported type has to match. *)
TypeIsSupported(page, types) == \A t \in types : t = page.type

GenerateOEmbedPreview(page) ==
    CASE page.embed = "none" -> Unsupported
      [] page.embed = "fails" -> Result("unknown", FALSE)
      [] page.embed = "ok" -> Result("", page.image)

(* Without a limit there is no reader: closing it panics. *)
GenerateOpenGraphPreview(page) ==
    CASE page.get = "fails" \/ (page.get = "large" /\ PageLimited) -> Result("notFound", FALSE)
      [] OTHER -> CASE ~TypeIsSupported(page, {"text"}) -> Unsupported
                    [] ~PageLimited -> Result("panic", FALSE)
                    [] OTHER -> IF page.parses THEN Result("", page.image) ELSE Result("unknown", FALSE)

GenerateCalculatedPreview(page) ==
    CASE page.get = "fails" \/ (page.get = "large" /\ PageLimited) -> Result("notFound", FALSE)
      [] OTHER -> CASE ~TypeIsSupported(page, FilePreviewTypes) -> Unsupported
                    [] page.type = "image" -> Result("", PageLimited)
                    [] OTHER -> IF PageLimited THEN Result("", FALSE) ELSE Result("panic", FALSE)

Preview(page) ==
    LET embedded == IF OEmbed THEN GenerateOEmbedPreview(page) ELSE Unsupported
        graph == IF embedded = Unsupported THEN GenerateOpenGraphPreview(page) ELSE embedded
    IN  IF graph = Unsupported THEN GenerateCalculatedPreview(page) ELSE graph

-----------------------------------------------------------------------------
(* A request until it joins a flight. *)

(* PreviewUrl: a request names any hour. *)
PreviewUrl(a, host, u, h) ==
    /\ AskAt(a, "idle")
    /\ IF u \in Refused THEN Answered(a, Row("invalidHost", NoImage))
       ELSE ask' = [ask EXCEPT ![a].pc = "lookup", ![a].host = host, ![a].url = u, ![a].at = h]
    /\ UNCHANGED <<hour, previews, pictures, pictureFiles, trouble>>

(* Step 1 *)
LookUpPreview(a) ==
    /\ AskAt(a, "lookup")
    /\ \/ Answered(a, Row("unknown", NoImage))
       \/ IF previews[KeyOf(a)] = NoRow THEN AskGoes(a, "bucket") ELSE Answered(a, previews[KeyOf(a)])
    /\ UNCHANGED <<hour, previews, pictures, pictureFiles, trouble>>

(* INSERT ... ON CONFLICT DO NOTHING *)
Inserted(k, row) == IF previews[k] = NoRow THEN [previews EXCEPT ![k] = row] ELSE previews

(* Steps 2 and 3.  The previous hour is kept when it ended within the last minute. *)
FixBucket(a) ==
    /\ AskAt(a, "bucket")
    /\ \/ /\ ask[a].at < hour
          /\ ask' = [ask EXCEPT ![a].pc = "lookup", ![a].at = hour]
          /\ UNCHANGED previews
       \/ /\ ask[a].at + 1 >= hour
          /\ IF ask[a].url \in Unparsable
             THEN /\ previews' \in {previews, Inserted(KeyOf(a), Row("invalidHost", NoImage))}
                  /\ Answered(a, Row("invalidHost", NoImage))
             ELSE /\ AskGoes(a, "join")
                  /\ UNCHANGED previews
    /\ UNCHANGED <<hour, pictures, pictureFiles, trouble>>

Leading == {"generate", "failed", "upload", "store", "insert", "conflict", "upgrade", "again",
            "cleanRow", "cleanCheck", "cleanFile", "landed", "lost"}
SameFlight(a, b) == ask[a].host = ask[b].host /\ KeyOf(a) = KeyOf(b)

(* Step 4 *)
JoinPreview(a) ==
    /\ AskAt(a, "join")
    /\ AskGoes(a, IF \E b \in Askers : ask[b].pc \in Leading /\ SameFlight(a, b) THEN "joined" ELSE "generate")
    /\ UNCHANGED <<hour, previews, pictures, pictureFiles, trouble>>

-----------------------------------------------------------------------------
(* The flight: Preview, then Process. *)

(* The page is fetched by a worker of the pool, which survives a panic; the one  *)
(* who waits for its answer does not get any.                                    *)
GeneratePreview(a) ==
    /\ AskAt(a, "generate")
    /\ \E page \in Pages :
           LET made == Preview(page)
               code == IF made.code = "unsupported" THEN "notFound" ELSE made.code
               next == IF code # "" THEN "failed" ELSE IF made.image THEN "upload" ELSE "insert"
           IN  IF code = "panic" THEN AskGoes(a, "lost")
               ELSE ask' = [ask EXCEPT ![a].pc = next, ![a].res = Row(code, NoImage)]
    /\ UNCHANGED <<hour, previews, pictures, pictureFiles, trouble>>

(* Mutant: an error replaces what is there. *)
InsertErrorAnyway(a) ==
    /\ AskAt(a, "failed")
    /\ previews' = [previews EXCEPT ![KeyOf(a)] = ask[a].res]
    /\ AskGoes(a, "landed")
    /\ UNCHANGED <<hour, pictures, pictureFiles, trouble>>

InsertError(a) ==
    /\ AskAt(a, "failed")
    /\ previews' \in {previews, Inserted(KeyOf(a), ask[a].res)}
    /\ AskGoes(a, "landed")
    /\ UNCHANGED <<hour, pictures, pictureFiles, trouble>>

(* Step 7: UploadImage.  The upload pipeline reuses the file of a row with the   *)
(* same content or writes one; a failure only costs the image.                   *)
UploadImage(a) ==
    /\ AskAt(a, "upload")
    /\ \/ /\ AskGoes(a, "insert")
          /\ UNCHANGED pictureFiles
       \/ \E place \in IF \E b \in Askers : pictures[b] # NoImage
                       THEN {pictures[b] : b \in Askers} \ {NoImage} ELSE {a} :
              /\ pictureFiles' = IF place = a THEN pictureFiles \cup {a} ELSE pictureFiles
              /\ ask' = [ask EXCEPT ![a].pc = "store", ![a].place = place]
    /\ UNCHANGED <<hour, previews, pictures, trouble>>

StorePicture(a) ==
    /\ AskAt(a, "store")
    /\ pictures' = [pictures EXCEPT ![a] = ask[a].place]
    /\ ask' = [ask EXCEPT ![a].pc = "insert", ![a].res = Row("", a)]
    /\ UNCHANGED <<hour, previews, pictureFiles, trouble>>

(* Taking the image back, after which Process returns "existing", or the result  *)
(* without its image when there is no row to return.                             *)
ReturnWithCleanup(a, existing) ==
    IF ask[a].res.image # NoImage /\ existing.image # ask[a].res.image
    THEN ask' = [ask EXCEPT ![a].pc = "cleanRow", ![a].existing = existing]
    ELSE ask' = [ask EXCEPT ![a].pc = "landed", ![a].res = IF existing = NoRow THEN @ ELSE existing]

(* Step 8.  A statement that fails may have been executed. *)
InsertPreview(a) ==
    /\ AskAt(a, "insert")
    /\ \/ /\ previews' = Inserted(KeyOf(a), ask[a].res)
          /\ AskGoes(a, IF previews[KeyOf(a)] = NoRow THEN "landed" ELSE "conflict")
          /\ UNCHANGED trouble
       \/ /\ previews' \in {previews, Inserted(KeyOf(a), ask[a].res)}
          /\ trouble' = IF previews' = previews THEN trouble ELSE trouble \cup {"unsure"}
          /\ ReturnWithCleanup(a, NoRow)
    /\ UNCHANGED <<hour, pictures, pictureFiles>>

ReadExisting(a) ==
    /\ AskAt(a, "conflict")
    /\ \/ ReturnWithCleanup(a, NoRow)
       \/ IF previews[KeyOf(a)].code \in ErrorCodes THEN AskGoes(a, "upgrade")
          ELSE ReturnWithCleanup(a, previews[KeyOf(a)])
    /\ UNCHANGED <<hour, previews, pictures, pictureFiles, trouble>>

(* UPDATE ... WHERE error_code <> '' *)
UpdateIfError(a) ==
    /\ AskAt(a, "upgrade")
    /\ LET isError == previews[KeyOf(a)].code \in ErrorCodes
           updated == IF isError THEN [previews EXCEPT ![KeyOf(a)] = ask[a].res] ELSE previews
       IN  \/ /\ previews' = updated
              /\ AskGoes(a, IF isError THEN "landed" ELSE "again")
              /\ UNCHANGED trouble
           \/ /\ previews' \in {previews, updated}
              /\ trouble' = IF previews' = previews THEN trouble ELSE trouble \cup {"unsure"}
              /\ AskGoes(a, "again")
    /\ UNCHANGED <<hour, pictures, pictureFiles>>

ReadUpgraded(a) ==
    /\ AskAt(a, "again")
    /\ ReturnWithCleanup(a, previews[KeyOf(a)]) \/ ReturnWithCleanup(a, NoRow)
    /\ UNCHANGED <<hour, previews, pictures, pictureFiles, trouble>>

-----------------------------------------------------------------------------
(* cleanupUnusedPreviewMedia.  An error in the middle leaves the rest, and the   *)
(* image in the result.                                                          *)

CleanedUp(a) ==
    ask' = [ask EXCEPT ![a].pc = "landed",
                       ![a].res = IF ask[a].existing = NoRow THEN Row("", NoImage) ELSE ask[a].existing]

CleanupFails(a) ==
    /\ trouble' = trouble \cup {"cleanup failed"}
    /\ ask' = [ask EXCEPT ![a].pc = "landed",
                          ![a].res = IF ask[a].existing = NoRow THEN @ ELSE ask[a].existing]

DeletePicture(a) ==
    /\ AskAt(a, "cleanRow")
    /\ \/ /\ pictures' = [pictures EXCEPT ![a] = NoImage]
          /\ AskGoes(a, "cleanCheck")
          /\ UNCHANGED trouble
       \/ CleanupFails(a) /\ UNCHANGED pictures
    /\ UNCHANGED <<hour, previews, pictureFiles>>

(* An upload that found the row before it was deleted will reuse its file. *)
CheckLocation(a) ==
    /\ AskAt(a, "cleanCheck")
    /\ \/ CleanupFails(a)
       \/ /\ IF \E b \in Askers : pictures[b] = ask[a].place THEN CleanedUp(a) ELSE AskGoes(a, "cleanFile")
          /\ trouble' = trouble \cup {t \in {"overlap"} : \E b \in Askers : AskAt(b, "store") /\ ask[b].place = ask[a].place}
    /\ UNCHANGED <<hour, previews, pictures, pictureFiles>>

RemovePicture(a) ==
    /\ AskAt(a, "cleanFile")
    /\ \/ /\ pictureFiles' = pictureFiles \ {ask[a].place}
          /\ CleanedUp(a)
          /\ UNCHANGED trouble
       \/ CleanupFails(a) /\ UNCHANGED pictureFiles
    /\ UNCHANGED <<hour, previews, pictures>>

(* sf.Do returns to everyone who shares the flight. *)
PreviewLands(a) ==
    /\ AskAt(a, "landed")
    /\ ask' = [b \in Askers |->
                  IF b = a \/ (AskAt(b, "joined") /\ SameFlight(a, b))
                  THEN AnsweredWith(ask[a].res) ELSE ask[b]]
    /\ UNCHANGED <<hour, previews, pictures, pictureFiles, trouble>>

-----------------------------------------------------------------------------
(* Time. *)

(* No request lasts an hour. *)
NextHour ==
    /\ hour < LastHour
    /\ \A a \in Askers : ask[a].pc \notin {"idle", "answered"} => ask[a].at >= hour
    /\ hour' = hour + 1
    /\ UNCHANGED <<previews, pictures, pictureFiles, ask, trouble>>

(* PurgePreviews: the rows go, the images stay. *)
PurgePreviews ==
    /\ previews' = [k \in PreviewKeys |-> IF k[2] + ExpireHours <= hour THEN NoRow ELSE previews[k]]
    /\ trouble' = IF previews' = previews THEN trouble ELSE trouble \cup {"expired"}
    /\ UNCHANGED <<hour, pictures, pictureFiles, ask>>

PreviewStep(a) ==
    \/ LookUpPreview(a) \/ FixBucket(a) \/ JoinPreview(a) \/ GeneratePreview(a) \/ InsertError(a) \/ UploadImage(a)
    \/ StorePicture(a) \/ InsertPreview(a) \/ ReadExisting(a) \/ UpdateIfError(a) \/ ReadUpgraded(a)
    \/ DeletePicture(a) \/ CheckLocation(a) \/ RemovePicture(a) \/ PreviewLands(a)

PreviewNext ==
    \/ \E a \in Askers : PreviewStep(a) \/ \E host \in PreviewHosts, u \in Urls, h \in AskedHours : PreviewUrl(a, host, u, h)
    \/ NextHour \/ PurgePreviews

PreviewSpec == PreviewInit /\ [][PreviewNext]_previewVars /\ \A a \in Askers : WF_previewVars(PreviewStep(a))

-----------------------------------------------------------------------------
(* Properties. *)

(* An image that a preview shows, in the table or in an answer, is there with    *)
(* its file: a flight that loses the row takes back its own image and no other   *)
(* (process.go:47-104).  Excepted are a statement that fails after it took effect,*)
(* a clean-up that fails half-way, and an upload that reuses the file while it   *)
(* is removed.                                                                   *)
ShownImagesExist ==
    trouble \cap {"unsure", "cleanup failed", "overlap"} = {} =>
        \A row \in {previews[k] : k \in PreviewKeys} \cup {ask[a].res : a \in {b \in Askers : AskAt(b, "answered")}} :
            row.image # NoImage => pictures[row.image] \in pictureFiles

(* When the flights have landed no image is left that no preview shows; only the *)
(* expiry of previews leaves theirs behind.                                      *)
UnusedImagesAreRemoved ==
    (trouble = {} /\ \A a \in Askers : ask[a].pc \in {"idle", "answered"}) =>
        \A a \in Askers : pictures[a] # NoImage => \E k \in PreviewKeys : previews[k].image = a

(* The table and the images go together (ShownImagesExist and                    *)
(* UnusedImagesAreRemoved), and a preview that was generated is not replaced     *)
(* within its hour, by an error or by another one, until it expires              *)
(* (table_url_previews.go:94).                                                   *)
PreviewsAreSound ==
    /\ []ShownImagesExist
    /\ []UnusedImagesAreRemoved
    /\ [][\A k \in PreviewKeys : previews[k].code = "" => previews'[k] \in {previews[k], NoRow}]_previewVars

(* Every request is answered, on whichever flight it waits.                      *)
PreviewsEnd == \A a \in Askers : []<>(ask[a].pc \in {"idle", "answered"})
=============================================================================
